------------------------------ MODULE Cascade ------------------------------
(***************************************************************************)
(* pipeline.Cascade (src/pipeline/cascade.go) on one call: consumeASR      *)
(* reads the recogniser's events, starts a goroutine per final transcript  *)
(* (respond: LLM, TTS, playback) and on speech cancels the reply in        *)
(* progress and flushes the caller's playback buffer (bargeIn).            *)
(*                                                                         *)
(* The session's downlink accepts what is sent in order until it is closed *)
(* and answers with an error from then on (module Session); of what it     *)
(* accepted, the model counts what came too late.  The LLM is external.  A  *)
(* turn is a final transcript and the respond goroutine started for it.    *)
(***************************************************************************)
EXTENDS Naturals, Sequences

CONSTANTS
    EvCap,      \* capacity of the recogniser's event channel (16 in MockASR)
    TtsCap,     \* capacity of the synthesiser's chunk channel (64 in MockTTS)
    Chunks,     \* bound: chunks in a synthesised reply
    MaxTurns,   \* bound: final transcripts in the call
    MaxSpeech   \* bound: speech-started events in the call

ASSUME CapsAssumption == EvCap \in Nat \ {0} /\ TtsCap \in Nat \ {0} /\ Chunks \in Nat
ASSUME BoundsAssumption == MaxTurns \in Nat /\ MaxSpeech \in Nat

VARIABLES
    call,       \* the handler's side of the call
    open,       \* the session is not closed
    events,     \* asr.Events()
    heard,      \* bound: events the recogniser has emitted, by type
    consumer,   \* where consumeASR is
    spawned,    \* respond goroutines started
    rpc,        \* where each of them is
    number,     \* its local variable turn
    cancel,     \* st.cancel: the turn it cancels, or 0 for nil
    speaking,   \* st.speaking
    turn,       \* st.turn
    history,    \* st.history
    cancelled,  \* turns whose context is cancelled
    made,       \* chunks each synthesiser goroutine has produced
    chunks,     \* chunks waiting in its channel
    producer,   \* the state of that goroutine
    stale       \* history: chunks the session accepted of a turn cancelled before

stVars == <<cancel, speaking, turn, history, cancelled>>
asrVars == <<events, heard>>
ttsVars == <<made, chunks, producer>>
vars == <<call, open, asrVars, consumer, spawned, rpc, number, stVars, ttsVars, stale>>

-----------------------------------------------------------------------------
Turns == 1..MaxTurns

\* Registered in st and not yet past its deferred function.
Active(t) == rpc[t] \in {"llm", "speak", "recv", "send", "finish"}

Init ==
    /\ call = "new" /\ open = TRUE
    /\ events = <<>> /\ heard = [speech |-> 0, final |-> 0]
    /\ consumer = "off" /\ spawned = 0
    /\ rpc = [t \in Turns |-> "none"] /\ number = [t \in Turns |-> 0]
    /\ cancel = 0 /\ speaking = FALSE /\ turn = 0
    /\ history = <<>> /\ cancelled = {}
    /\ made = [t \in Turns |-> 0] /\ chunks = [t \in Turns |-> 0]
    /\ producer = [t \in Turns |-> "off"]
    /\ stale = [t \in Turns |-> 0]

-----------------------------------------------------------------------------
(* The handler's callbacks and the session.                                *)

\* OnStart: a recogniser that cannot be built ends the call.
OnStart ==
    /\ call = "new"
    /\ \/ call' = "live" /\ consumer' = "range" /\ UNCHANGED open
       \/ call' = "refused" /\ open' = FALSE /\ UNCHANGED consumer
    /\ UNCHANGED <<asrVars, spawned, rpc, number, stVars, ttsVars, stale>>

\* The peer leaves or the session is closed by someone else.
CloseSession ==
    /\ open /\ open' = FALSE
    /\ UNCHANGED <<call, asrVars, consumer, spawned, rpc, number, stVars, ttsVars, stale>>

\* OnAudio: the recogniser emits an event once it has heard enough; it waits
\* while its channel is full.
Hear(e) ==
    /\ call = "live" /\ Len(events) < EvCap
    /\ heard[e] < (IF e = "speech" THEN MaxSpeech ELSE MaxTurns)
    /\ heard' = [heard EXCEPT ![e] = @ + 1]
    /\ events' = Append(events, e)
    /\ UNCHANGED <<call, open, consumer, spawned, rpc, number, stVars, ttsVars, stale>>

\* st.cancel(), which is harmless when that turn is over.
CancelCurrent == cancelled' = cancelled \union ({cancel} \ {0})

\* OnEnd, which serveWS calls after s.Close: cancel the reply, close the
\* recogniser, and with it the event channel.
OnEnd ==
    /\ call = "live" /\ ~open
    /\ call' = "ended"
    /\ CancelCurrent
    /\ UNCHANGED <<open, asrVars, consumer, spawned, rpc, number, cancel, speaking, turn,
                   history, ttsVars, stale>>

-----------------------------------------------------------------------------
(* consumeASR.                                                             *)

\* A final transcript: go c.respond(s, st, ev.Text).
HearFinal ==
    /\ consumer = "range" /\ events # <<>> /\ Head(events) = "final"
    /\ events' = Tail(events)
    /\ spawned' = spawned + 1
    /\ rpc' = [rpc EXCEPT ![spawned + 1] = "spawned"]
    /\ UNCHANGED <<call, open, heard, consumer, number, stVars, ttsVars, stale>>

HearSpeech ==
    /\ consumer = "range" /\ events # <<>> /\ Head(events) = "speech"
    /\ events' = Tail(events)
    /\ consumer' = "barge"
    /\ UNCHANGED <<call, open, heard, spawned, rpc, number, stVars, ttsVars, stale>>

\* bargeIn, first half: cancel whatever st.cancel names.
BargeIn ==
    /\ consumer = "barge" /\ consumer' = "clear"
    /\ CancelCurrent
    /\ cancel' = 0
    /\ UNCHANGED <<call, open, asrVars, spawned, rpc, number, speaking, turn, history,
                   ttsVars, stale>>

\* bargeIn, second half: s.ClearPlayback, whose error is ignored.
SendClear ==
    /\ consumer = "clear" /\ consumer' = "range"
    /\ UNCHANGED <<call, open, asrVars, spawned, rpc, number, stVars, ttsVars, stale>>

\* The range over a closed channel ends when it is empty.
ConsumerExit ==
    /\ consumer = "range" /\ call = "ended" /\ events = <<>>
    /\ consumer' = "exited"
    /\ UNCHANGED <<call, open, asrVars, spawned, rpc, number, stVars, ttsVars, stale>>

-----------------------------------------------------------------------------
(* respond.                                                                *)

Goto(t, l) == rpc' = [rpc EXCEPT ![t] = l]

\* "Supersede any previous turn", and become the one st.cancel cancels.
Register(t) ==
    /\ rpc[t] = "spawned" /\ Goto(t, "llm")
    /\ CancelCurrent
    /\ cancel' = t /\ speaking' = TRUE
    /\ turn' = turn + 1
    /\ number' = [number EXCEPT ![t] = turn + 1]
    /\ history' = Append(history, [role |-> "user", turn |-> t])
    /\ UNCHANGED <<call, open, asrVars, consumer, spawned, ttsVars, stale>>

\* LLM.Respond returns: a reply, kept in the history, or an error or nothing.
\* It may have answered although its context was cancelled meanwhile.
Respond(t) ==
    /\ rpc[t] = "llm"
    /\ \/ Goto(t, "speak") /\ history' = Append(history, [role |-> "assistant", turn |-> t])
       \/ Goto(t, "finish") /\ UNCHANGED history
    /\ UNCHANGED <<call, open, asrVars, consumer, spawned, number, cancel, speaking, turn,
                   cancelled, ttsVars, stale>>

\* NewTTS and Synthesize, which starts the goroutine that makes chunks.
Synthesize(t) ==
    /\ rpc[t] = "speak"
    /\ \/ Goto(t, "recv") /\ producer' = [producer EXCEPT ![t] = "run"]
       \/ Goto(t, "finish") /\ UNCHANGED producer
    /\ UNCHANGED <<call, open, asrVars, consumer, spawned, number, stVars, made, chunks, stale>>

\* Mutant: the loop does not look at the context.
ReceiveUnchecked(t) ==
    /\ rpc[t] = "recv" /\ chunks[t] > 0
    /\ chunks' = [chunks EXCEPT ![t] = @ - 1]
    /\ Goto(t, "send")
    /\ UNCHANGED <<call, open, asrVars, consumer, spawned, number, stVars, made, producer, stale>>

\* The next chunk of the range, then the context: "barged in".
Receive(t) ==
    /\ rpc[t] = "recv" /\ chunks[t] > 0
    /\ chunks' = [chunks EXCEPT ![t] = @ - 1]
    /\ Goto(t, IF t \in cancelled THEN "finish" ELSE "send")
    /\ UNCHANGED <<call, open, asrVars, consumer, spawned, number, stVars, made, producer, stale>>

ReplyEnds(t) ==
    /\ rpc[t] = "recv" /\ chunks[t] = 0 /\ producer[t] = "ended"
    /\ Goto(t, "finish")
    /\ UNCHANGED <<call, open, asrVars, consumer, spawned, number, stVars, ttsVars, stale>>

\* The session accepts a chunk of turn t.
Accept(t) == stale' = IF t \in cancelled THEN [stale EXCEPT ![t] = @ + 1] ELSE stale

\* Mutant: SendAudio on a closed session never returns.
SendHangsWhenClosed(t) ==
    /\ rpc[t] = "send" /\ open
    /\ Accept(t) /\ Goto(t, "recv")
    /\ UNCHANGED <<call, open, asrVars, consumer, spawned, number, stVars, ttsVars>>

\* s.SendAudio(chunk): by now the turn may have been cancelled, and a clear sent.
Send(t) ==
    /\ rpc[t] = "send"
    /\ \/ open /\ Accept(t) /\ Goto(t, "recv")
       \/ ~open /\ Goto(t, "finish") /\ UNCHANGED stale
    /\ UNCHANGED <<call, open, asrVars, consumer, spawned, number, stVars, ttsVars>>

\* Mutant: the deferred function does not ask whose turn it is.
FinishAnyTurn(t) ==
    /\ rpc[t] = "finish" /\ Goto(t, "done")
    /\ cancel' = 0 /\ speaking' = FALSE
    /\ UNCHANGED <<call, open, asrVars, consumer, spawned, number, turn, history, cancelled,
                   ttsVars, stale>>

\* The deferred function: only the latest turn resets cancel and speaking.
Finish(t) ==
    /\ rpc[t] = "finish" /\ Goto(t, "done")
    /\ cancel' = IF turn = number[t] THEN 0 ELSE cancel
    /\ speaking' = IF turn = number[t] THEN FALSE ELSE speaking
    /\ UNCHANGED <<call, open, asrVars, consumer, spawned, number, turn, history, cancelled,
                   ttsVars, stale>>

RespondStep(t) ==
    \/ Register(t) \/ Respond(t) \/ Synthesize(t) \/ Receive(t) \/ ReplyEnds(t)
    \/ Send(t) \/ Finish(t)

-----------------------------------------------------------------------------
(* The synthesiser's goroutine.                                            *)

Produce(t) ==
    /\ producer[t] = "run" /\ made[t] < Chunks /\ chunks[t] < TtsCap
    /\ made' = [made EXCEPT ![t] = @ + 1]
    /\ chunks' = [chunks EXCEPT ![t] = @ + 1]
    /\ UNCHANGED <<call, open, asrVars, consumer, spawned, rpc, number, stVars, producer, stale>>

\* Mutant: the goroutine does not watch its context.
ProducerRunsOn(t) ==
    /\ producer[t] = "run" /\ made[t] = Chunks
    /\ producer' = [producer EXCEPT ![t] = "ended"]
    /\ UNCHANGED <<call, open, asrVars, consumer, spawned, rpc, number, stVars, made, chunks, stale>>

\* All chunks made, or the context cancelled: close(out).
ProducerEnds(t) ==
    /\ producer[t] = "run" /\ (made[t] = Chunks \/ t \in cancelled)
    /\ producer' = [producer EXCEPT ![t] = "ended"]
    /\ UNCHANGED <<call, open, asrVars, consumer, spawned, rpc, number, stVars, made, chunks, stale>>

ProducerStep(t) == Produce(t) \/ ProducerEnds(t)

-----------------------------------------------------------------------------
ConsumerStep == HearFinal \/ HearSpeech \/ BargeIn \/ SendClear \/ ConsumerExit

Next ==
    \/ OnStart \/ CloseSession \/ OnEnd
    \/ \E e \in {"speech", "final"} : Hear(e)
    \/ ConsumerStep
    \/ \E t \in Turns : RespondStep(t) \/ ProducerStep(t)

\* The goroutines run; the LLM and the synthesiser return; a closed session's
\* OnEnd is called.  Callers need not speak or hang up.
Fairness ==
    /\ WF_vars(OnEnd) /\ WF_vars(ConsumerStep)
    /\ \A t \in Turns : WF_vars(RespondStep(t)) /\ WF_vars(ProducerStep(t))

Spec == Init /\ [][Next]_vars /\ Fairness

-----------------------------------------------------------------------------
(* Properties.                                                             *)

\* Every reply in progress that has not been cancelled is the one st.cancel
\* cancels: there is at most one, and barge-in and OnEnd always reach it; and
\* st.speaking tells whether the latest turn is still in progress.
LiveReplyIsCancellable ==
    /\ \A t \in Turns : Active(t) /\ t \notin cancelled => cancel = t
    /\ speaking <=> \E t \in Turns : Active(t) /\ number[t] = turn

\* Once a reply is cancelled, by barge-in or by a newer turn, at most one more
\* of its chunks (the one between the check and SendAudio) reaches the session.
CancelledReplyStops == \A t \in Turns : stale[t] <= 1

\* A cancelled reply's goroutines end: respond, and the synthesiser's.
CancelledReplyEnds ==
    \A t \in Turns : t \in cancelled ~> (rpc[t] = "done" /\ producer[t] # "run")

\* When the call has ended, its recogniser loop and all its replies end, those
\* included whose transcript was still waiting in the channel.
CallEnds == call = "ended" ~>
    (consumer = "exited" /\ \A t \in Turns : rpc[t] \in {"none", "done"})
=============================================================================
