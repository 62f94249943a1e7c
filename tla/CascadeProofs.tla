--------------------------- MODULE CascadeProofs ---------------------------
(***************************************************************************)
(* Proofs about Cascade, for any number of turns, interruptions and chunks *)
(* and any channels.  That the reply in progress can be cancelled is       *)
(* inductive once it is known to be the latest turn, and turns in progress *)
(* to have different numbers (IInv).                                       *)
(***************************************************************************)
EXTENDS Cascade, TLAPS

Points == {"none", "spawned", "llm", "speak", "recv", "send", "finish", "done"}

TurnTypes ==
    /\ rpc \in [Turns -> Points] /\ number \in [Turns -> Nat] /\ stale \in [Turns -> Nat]
    /\ turn \in Nat /\ spawned \in Nat /\ cancel \in Nat

\* The next transcript starts a turn nobody has started.
Unspawned == \A t \in Turns : t > spawned => rpc[t] = "none"

\* A turn in progress has its own number, given by Register.
Numbered ==
    /\ \A t \in Turns : number[t] <= turn
    /\ \A t, u \in Turns : Active(t) /\ Active(u) /\ number[t] = number[u] => t = u

\* Only the latest turn is in progress and not cancelled, and st.cancel is its own.
Latest == \A t \in Turns : Active(t) /\ t \notin cancelled => cancel = t /\ number[t] = turn

Speaks == speaking <=> \E t \in Turns : Active(t) /\ number[t] = turn

\* A cancelled turn that the session took a chunk of is not about to send another.
LateOnce ==
    \A t \in Turns :
        stale[t] = 0 \/ (stale[t] = 1 /\ t \in cancelled /\ rpc[t] # "send")

IInv == TurnTypes /\ Unspawned /\ Numbered /\ Latest /\ Speaks /\ LateOnce

\* No turn was started.
LEMMA IInit == Init => IInv
<1> SUFFICES ASSUME Init
             PROVE  IInv
  OBVIOUS
<1>1. TurnTypes
  BY DEF Init, TurnTypes, Points
<1>2. \A t \in Turns : rpc[t] = "none" /\ number[t] = 0 /\ stale[t] = 0 /\ ~Active(t)
  BY DEF Init, Active
<1>3. turn = 0 /\ ~speaking
  BY DEF Init
<1> QED
  BY <1>1, <1>2, <1>3 DEF IInv, Unspawned, Numbered, Latest, Speaks, LateOnce

\* Steps that leave the turns alone may cancel, and forget st.cancel if they cancel it.
LEMMA Elsewhere ==
    ASSUME IInv, UNCHANGED <<rpc, number, stale, turn, spawned, speaking>>,
           \/ UNCHANGED <<cancelled, cancel>>
           \/ CancelCurrent /\ cancel' \in {cancel, 0}
    PROVE  IInv'
<1> USE DEF IInv
<1>1. TurnTypes' /\ Unspawned' /\ Numbered' /\ Speaks'
  BY DEF TurnTypes, Unspawned, Numbered, Speaks, Active
<1>2. cancelled \subseteq cancelled'
  BY DEF CancelCurrent
<1>3. Latest'
  BY <1>2 DEF Latest, Active, CancelCurrent, TurnTypes, Turns
<1>4. LateOnce'
  BY <1>2 DEF LateOnce
<1> QED
  BY <1>1, <1>3, <1>4

\* consumeASR starts a turn, which is not in progress yet.
LEMMA TurnSpawned == IInv /\ HearFinal => IInv'
<1> SUFFICES ASSUME IInv, HearFinal
             PROVE  IInv'
  OBVIOUS
<1> USE DEF IInv
<1>1. /\ UNCHANGED <<number, stale, turn, speaking, cancelled, cancel>>
      /\ spawned' = spawned + 1 /\ spawned \in Nat
      /\ rpc' = [rpc EXCEPT ![spawned + 1] = "spawned"]
  BY DEF HearFinal, stVars, TurnTypes
<1>2. TurnTypes'
  <2>1. rpc' \in [Turns -> Points]
    <3>1. rpc \in [Turns -> Points] /\ "spawned" \in Points
      BY DEF TurnTypes, Points
    <3> QED
      BY <1>1, <3>1
  <2> QED
    BY <1>1, <2>1 DEF TurnTypes
<1>3. \A t \in Turns : /\ t # spawned + 1 => rpc'[t] = rpc[t]
                       /\ t = spawned + 1 => rpc[t] = "none" /\ rpc'[t] = "spawned"
  BY <1>1 DEF TurnTypes, Unspawned, Turns
<1>4. \A t \in Turns : Active(t)' <=> Active(t)
  BY <1>3 DEF Active
<1>5. Unspawned'
  BY <1>1, <1>3 DEF Unspawned, Turns
<1>6. Numbered' /\ Latest' /\ LateOnce'
  BY <1>1, <1>3, <1>4 DEF Numbered, Latest, LateOnce
<1>7. Speaks'
  BY <1>1, <1>4 DEF Speaks
<1> QED
  BY <1>2, <1>5, <1>6, <1>7

\* A turn becomes the latest, and the one before it is cancelled.
LEMMA TurnRegistered ==
    ASSUME IInv, NEW t \in Turns, Register(t)
    PROVE  IInv'
<1> USE DEF IInv
<1>1. /\ UNCHANGED <<stale, spawned>> /\ rpc[t] = "spawned" /\ rpc' = [rpc EXCEPT ![t] = "llm"]
      /\ cancelled' = cancelled \union ({cancel} \ {0}) /\ cancel' = t /\ speaking' = TRUE
      /\ turn' = turn + 1 /\ number' = [number EXCEPT ![t] = turn + 1] /\ turn \in Nat
  BY DEF Register, Goto, CancelCurrent, TurnTypes
<1>2. /\ rpc'[t] = "llm" /\ number'[t] = turn + 1 /\ Active(t)' /\ ~Active(t) /\ t \in Nat
      /\ \A u \in Turns \ {t} : /\ rpc'[u] = rpc[u] /\ number'[u] = number[u]
                                /\ Active(u)' <=> Active(u)
  BY <1>1 DEF TurnTypes, Active, Turns
<1>3. TurnTypes'
  BY <1>1, <1>2 DEF TurnTypes, Points
<1>4. Unspawned'
  BY <1>1, <1>2 DEF Unspawned
<1>5. \A u \in Turns : number[u] \in Nat /\ number[u] <= turn
  BY DEF Numbered, TurnTypes
<1>6. Numbered'
  BY <1>1, <1>2, <1>5 DEF Numbered
<1>7. ASSUME NEW u \in Turns \ {t}, Active(u)
      PROVE  u \in cancelled'
  BY <1>1, <1>7 DEF Latest, Turns
<1>8. Latest'
  BY <1>1, <1>2, <1>7 DEF Latest
<1>9. Speaks'
  BY <1>1, <1>2 DEF Speaks
<1>10. LateOnce'
  BY <1>1, <1>2 DEF LateOnce
<1> QED
  BY <1>3, <1>4, <1>6, <1>8, <1>9, <1>10

\* The deferred function of a turn: only the latest leaves nobody in progress.
LEMMA TurnFinished ==
    ASSUME IInv, NEW t \in Turns, Finish(t)
    PROVE  IInv'
<1> USE DEF IInv
<1>1. /\ UNCHANGED <<stale, spawned, turn, number, cancelled>>
      /\ rpc[t] = "finish" /\ rpc' = [rpc EXCEPT ![t] = "done"]
      /\ cancel' = (IF turn = number[t] THEN 0 ELSE cancel)
      /\ speaking' = (IF turn = number[t] THEN FALSE ELSE speaking)
  BY DEF Finish, Goto
<1>2. /\ rpc'[t] = "done" /\ ~Active(t)' /\ Active(t)
      /\ \A u \in Turns \ {t} : rpc'[u] = rpc[u] /\ (Active(u)' <=> Active(u))
  BY <1>1 DEF TurnTypes, Active
<1>3. TurnTypes'
  BY <1>1 DEF TurnTypes, Points
<1>4. Unspawned' /\ Numbered' /\ LateOnce'
  BY <1>1, <1>2 DEF Unspawned, Numbered, LateOnce
<1>5. \A u \in Turns \ {t} : Active(u) => number[u] # number[t]
  BY <1>2 DEF Numbered
<1>6. Latest'
  BY <1>1, <1>2, <1>5 DEF Latest
<1>7. Speaks'
  <2>1. CASE turn = number[t]
    BY <1>1, <1>2, <1>5, <2>1 DEF Speaks
  <2>2. CASE turn # number[t]
    BY <1>1, <1>2, <2>2 DEF Speaks
  <2> QED
    BY <2>1, <2>2
<1> QED
  BY <1>3, <1>4, <1>6, <1>7

\* A turn goes on, perhaps with a chunk the session took too late.
LEMMA TurnGoesOn ==
    ASSUME IInv, NEW t \in Turns,
           Respond(t) \/ Synthesize(t) \/ Receive(t) \/ ReplyEnds(t) \/ Send(t)
    PROVE  IInv'
<1> USE DEF IInv
<1>1. /\ UNCHANGED <<spawned, turn, number, cancelled, cancel, speaking>> /\ Active(t)
      /\ \E p \in {"speak", "recv", "send", "finish"} : rpc' = [rpc EXCEPT ![t] = p]
  BY DEF Respond, Synthesize, Receive, ReplyEnds, Send, Goto, Active, stVars
<1>2. \A u \in Turns : (Active(u)' <=> Active(u)) /\ (u # t => rpc'[u] = rpc[u])
  BY <1>1 DEF TurnTypes, Active
<1>3. TurnTypes' /\ LateOnce'
  <2>1. CASE Send(t)
    <3>1. /\ rpc[t] = "send" /\ rpc'[t] # "send" /\ stale[t] = 0
          /\ stale' = stale \/ (t \in cancelled /\ stale' = [stale EXCEPT ![t] = @ + 1])
      BY <2>1 DEF Send, Accept, Goto, TurnTypes, LateOnce
    <3> QED
      BY <1>1, <1>2, <3>1 DEF TurnTypes, LateOnce, Points
  <2>2. CASE Receive(t)
    <3>1. UNCHANGED stale /\ (rpc'[t] = "send" => t \notin cancelled)
      BY <2>2 DEF Receive, Goto, TurnTypes
    <3> QED
      BY <1>1, <1>2, <3>1 DEF TurnTypes, LateOnce, Points
  <2>3. CASE Respond(t) \/ Synthesize(t) \/ ReplyEnds(t)
    <3>1. UNCHANGED stale /\ rpc'[t] # "send"
      BY <2>3 DEF Respond, Synthesize, ReplyEnds, Goto, TurnTypes
    <3> QED
      BY <1>1, <1>2, <3>1 DEF TurnTypes, LateOnce, Points
  <2> QED
    BY <2>1, <2>2, <2>3
<1>4. Unspawned'
  BY <1>1, <1>2 DEF Unspawned, Active
<1>5. Numbered' /\ Latest' /\ Speaks'
  BY <1>1, <1>2 DEF Numbered, Latest, Speaks
<1> QED
  BY <1>3, <1>4, <1>5

\* Every step keeps the invariant.
LEMMA INext == IInv /\ [Next]_vars => IInv'
<1> SUFFICES ASSUME IInv, [Next]_vars
             PROVE  IInv'
  OBVIOUS
<1> USE DEF stVars, asrVars, ttsVars
<1>1. CASE OnStart \/ CloseSession \/ OnEnd \/ \E e \in {"speech", "final"} : Hear(e)
  BY <1>1, Elsewhere DEF OnStart, CloseSession, OnEnd, Hear
<1>2. CASE HearSpeech \/ BargeIn \/ SendClear \/ ConsumerExit
  BY <1>2, Elsewhere DEF HearSpeech, BargeIn, SendClear, ConsumerExit
<1>3. CASE HearFinal
  BY <1>3, TurnSpawned
<1>4. ASSUME NEW t \in Turns, RespondStep(t)
      PROVE  IInv'
  BY <1>4, TurnRegistered, TurnFinished, TurnGoesOn DEF RespondStep
<1>5. ASSUME NEW t \in Turns, ProducerStep(t)
      PROVE  IInv'
  BY <1>5, Elsewhere DEF ProducerStep, Produce, ProducerEnds
<1>6. CASE UNCHANGED vars
  BY <1>6, Elsewhere DEF vars
<1> QED
  BY <1>1, <1>2, <1>3, <1>4, <1>5, <1>6 DEF Next, ConsumerStep

\* The reply in progress is the latest turn and st.cancel cancels it, whatever turns and
\* interruptions overlap (respond, bargeIn).
THEOREM ReplyCancellable == Spec => []LiveReplyIsCancellable
<1>1. IInv => LiveReplyIsCancellable
  BY DEF IInv, Latest, Speaks, LiveReplyIsCancellable
<1> QED
  BY IInit, INext, <1>1, PTL DEF Spec

\* At most one chunk of a cancelled reply reaches the session (respond's check of its
\* context before SendAudio).
THEOREM CancelledStops == Spec => []CancelledReplyStops
<1>1. IInv => CancelledReplyStops
  BY DEF IInv, LateOnce, TurnTypes, CancelledReplyStops
<1> QED
  BY IInit, INext, <1>1, PTL DEF Spec
=============================================================================
