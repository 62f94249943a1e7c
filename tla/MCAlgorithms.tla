---------------------------- MODULE MCAlgorithms ----------------------------
(***************************************************************************)
(* The pure algorithms over bounded inputs: a text that grows byte by byte *)
(* through the validator, or a recording whose tracks grow sample by       *)
(* sample.  One of the two is examined at a time.                          *)
(***************************************************************************)
EXTENDS Utf8, WavMix

CONSTANTS
    MaxText,        \* bound: bytes in a text
    MaxLost,        \* bound: bytes in one the validator has refused
    MaxSamples      \* bound: samples in a track

VARIABLES
    text,           \* what was received
    fed,            \* the validator it was fed to
    caller, agent   \* the tracks of a recording
algVars == <<text, fed, caller, agent>>

\* A byte of every class the code and the table tell apart.
Bytes == {65, 128, 143, 144, 159, 160, 191, 192, 194, 224, 225, 237, 240, 241, 244, 245}

AlgInit == text = <<>> /\ fed = Fresh /\ caller = <<>> /\ agent = <<>>

\* One byte more, perhaps in a chunk of its own: the validator has no other input. A text
\* that is lost already gets no longer than MaxLost.
Receive(b) ==
    /\ caller = <<>> /\ agent = <<>>
    /\ Len(text) < IF fed = Invalid THEN MaxLost ELSE MaxText
    /\ text' = Append(text, b) /\ fed' = ValidateChunk(fed, <<b>>)
    /\ UNCHANGED <<caller, agent>>

\* The samples of a track are numbered, so that each can be told from the others.
CallerSample ==
    /\ text = <<>> /\ Len(caller) < MaxSamples /\ caller' = Append(caller, Len(caller) + 1)
    /\ UNCHANGED <<text, fed, agent>>

AgentSample ==
    /\ text = <<>> /\ Len(agent) < MaxSamples /\ agent' = Append(agent, Len(agent) + 1)
    /\ UNCHANGED <<text, fed, caller>>

AlgNext == CallerSample \/ AgentSample \/ \E b \in Bytes : Receive(b)

AlgSpec == AlgInit /\ [][AlgNext]_algVars

-----------------------------------------------------------------------------
\* Utf8Validator, fed in any chunks, and isValidUtf8, which reads ahead, both accept
\* exactly the texts RFC 3629 allows: no overlong form, surrogate or truncated character.
\* The validator refuses a text at the first byte no continuation could make good.
Utf8IsRfc3629 ==
    /\ fed # Invalid <=> Completable(text)
    /\ ValidateFinal(fed) <=> WellFormed(text)
    /\ IsValidUtf8(text) <=> WellFormed(text)

\* audio.wav has every sample of the caller and, as long as the agent's track reaches,
\* every sample of the agent, each at its own position on its own channel.
TracksKeepTheirPlace ==
    LET wav == FinalizeWAV(caller, agent) IN
    \A i \in DOMAIN caller :
        /\ wav[i][1] = caller[i]
        /\ i \in DOMAIN agent => wav[i][2] = agent[i]

-----------------------------------------------------------------------------
(* What the comments say and the code does not do.                         *)

\* recorder.go:278, on the agent's track: "short read: rest stays zero (silence)".
AgentTrackPaddedWithSilence ==
    LET wav == FinalizeWAV(caller, agent) IN
    \A i \in DOMAIN caller \ DOMAIN agent : wav[i][2] = Silence
=============================================================================
