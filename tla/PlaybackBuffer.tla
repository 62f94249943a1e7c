--------------------------- MODULE PlaybackBuffer ---------------------------
(***************************************************************************)
(* The audio of the agent on its way to the caller inside the FreeSWITCH   *)
(* module (src/module/ws_bridge_glue.cpp): the event thread appends each   *)
(* binary message to play_buffer or clears it, the media thread takes a    *)
(* frame at a time through the resampler and dl_stash.  Each holds         *)
(* play_mutex, so each is one step.                                        *)
(*                                                                         *)
(* onBinary is modelled behind its early return: a message that comes      *)
(* while the stream is cleaned up is thrown away there, with the stream.   *)
(*                                                                         *)
(* Buffers hold samples, each named by its message and place.  speex is    *)
(* external: it makes `rate` samples of one, and names them apart.         *)
(***************************************************************************)
EXTENDS Naturals, Sequences
LOCAL INSTANCE SequencesExt

CONSTANTS
    Cap,            \* samples play_buffer holds (MAX_PLAY_BUFFER_MS)
    Chunk,          \* samples moved or dropped at a time (4096 bytes)
    FrameSize,      \* samples of a frame, at the streaming rate
    Rates,          \* the channel's rates, as multiples of the streaming rate
    MaxPlayed       \* bound: frames of the media thread

ASSUME SizesAssumption ==
    Cap \in Nat \ {0} /\ Chunk \in Nat \ {0} /\ FrameSize \in Nat \ {0}
ASSUME RatesAssumption == Rates \subseteq Nat \ {0}

VARIABLES
    play,           \* play_buffer
    stash,          \* dl_stash
    rate,           \* dl_rate; 0 before the first frame
    replaced,       \* frames replaced
    underruns,      \* frames passed through
    heard,          \* history: the samples the caller heard
    lost            \* history: samples dropped, cleared, or resampled for another rate

pbVars == <<play, stash, rate, replaced, underruns, heard, lost>>

PbInit ==
    /\ play = <<>> /\ stash = <<>> /\ rate = 0
    /\ replaced = 0 /\ underruns = 0 /\ heard = <<>> /\ lost = {}

Least(a, b) == IF a < b THEN a ELSE b
Up(a, b) == (a + b - 1) \div b

\* The first n of a buffer, and what is behind them.
Oldest(q, n) == SubSeq(q, 1, Least(n, Len(q)))
Behind(q, n) == SubSeq(q, n + 1, Len(q))

\* Samples as the channel hears them: <<message, place, part>>.
Resampled(q, r) ==
    [j \in 1..(r * Len(q)) |->
        LET i == Up(j, r) IN <<q[i][1], q[i][2], j - r * (i - 1)>>]
Sources(q) == {<<q[i][1], q[i][2]>> : i \in DOMAIN q}

-----------------------------------------------------------------------------
\* Mutant: a full buffer drops no more than the message needs, and one chunk at most.
OnBinaryOneChunk(samples) ==
    LET dropped == IF Cap - Len(play) < Len(samples) THEN Least(Chunk, Len(play)) ELSE 0 IN
    /\ play' = Behind(play, dropped) \o samples
    /\ lost' = lost \union ToSet(Oldest(play, dropped))
    /\ UNCHANGED <<stash, rate, replaced, underruns, heard>>

\* onBinary: as many chunks of the oldest are dropped as it takes, then the message is
\* written, if it fits at all.
OnBinary(samples) ==
    LET short == Len(samples) - Least(Len(samples), Cap - Len(play))
        dropped == Least(Up(short, Chunk) * Chunk, Len(play))
        kept == Behind(play, dropped)
        fits == Len(kept) + Len(samples) <= Cap IN
    /\ play' = kept \o (IF fits THEN samples ELSE <<>>)
    /\ lost' = lost \union ToSet(Oldest(play, dropped)) \union (IF fits THEN {} ELSE ToSet(samples))
    /\ UNCHANGED <<stash, rate, replaced, underruns, heard>>

\* Mutant: what was resampled already is played.
ClearPlayBufferOnly ==
    /\ play' = <<>> /\ lost' = lost \union ToSet(play)
    /\ UNCHANGED <<stash, rate, replaced, underruns, heard>>

ClearPlayback ==
    /\ play' = <<>> /\ stash' = <<>> /\ lost' = lost \union ToSet(play) \union Sources(stash)
    /\ UNCHANGED <<rate, replaced, underruns, heard>>

\* Mutant: what is short of a frame is thrown away.
PlayOrDiscard(full, need) ==
    \/ /\ Len(full) >= need /\ replaced' = replaced + 1 /\ UNCHANGED underruns
       /\ heard' = heard \o Oldest(full, need) /\ stash' = Behind(full, need)
    \/ /\ Len(full) < need /\ underruns' = underruns + 1 /\ UNCHANGED <<replaced, heard>>
       /\ stash' = <<>>

\* The frame is replaced by the first samples of the full stash, or left as it is.
Play(full, need) ==
    \/ /\ Len(full) >= need /\ replaced' = replaced + 1 /\ UNCHANGED underruns
       /\ heard' = heard \o Oldest(full, need) /\ stash' = Behind(full, need)
    \/ /\ Len(full) < need /\ underruns' = underruns + 1 /\ UNCHANGED <<replaced, heard>>
       /\ stash' = full

\* Mutant: the stash is filled only when it is empty.
TopUpEmpty(s, need, r) ==
    LET moved == IF s # <<>> THEN <<>> ELSE Oldest(play, Up(need, Chunk * r) * Chunk) IN
    /\ play' = Behind(play, Len(moved)) /\ Play(s \o Resampled(moved, r), need)

\* Chunks go from play_buffer to the stash, which holds s, until it has a frame or there
\* are no more. The stash is never too full for a chunk: see BuffersBounded.
TopUp(s, need, r) ==
    LET moved == Oldest(play, Up(need - Least(need, Len(s)), Chunk * r) * Chunk) IN
    /\ play' = Behind(play, Len(moved)) /\ Play(s \o Resampled(moved, r), need)

\* stream_playback_frame on a channel of rate r: the stash is of no use to another rate.
PlaybackFrame(r) ==
    /\ replaced + underruns < MaxPlayed
    /\ rate' = r /\ TopUp(IF r = rate THEN stash ELSE <<>>, FrameSize * r, r)
    /\ lost' = IF r = rate THEN lost ELSE lost \union Sources(stash)

-----------------------------------------------------------------------------
(* Properties.                                                             *)

\* What the caller heard and will hear, in that order.
Path == heard \o stash \o Resampled(play, 1)

Before(a, b) ==
    \/ a[1] < b[1]
    \/ a[1] = b[1] /\ (a[2] < b[2] \/ (a[2] = b[2] /\ a[3] < b[3]))

\* Latency is bounded: play_buffer by its size, the stash by what one frame needs and one
\* chunk makes, far below its size.
BuffersBounded ==
    /\ Len(play) <= Cap
    /\ rate # 0 => Len(stash) < (FrameSize + Chunk) * rate

\* A frame is passed through only when all there is makes less than a frame.
UnderrunMeansShort ==
    [][underruns' # underruns => play' = <<>> /\ Len(stash') < FrameSize * rate']_pbVars
=============================================================================
