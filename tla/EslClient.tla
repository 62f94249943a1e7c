----------------------------- MODULE EslClient -----------------------------
(***************************************************************************)
(* bridge.ESLClient (src/bridge/esl.go): one inbound event socket to       *)
(* FreeSWITCH, kept up by Run, with the api commands of any number of      *)
(* goroutines (the control plane, the agent's hangup) sent over it one at  *)
(* a time and their replies handed over in a one-place channel.            *)
(*                                                                         *)
(* Commands and replies carry no identifier: which reply belongs to which  *)
(* command follows from order alone.  FreeSWITCH (external) answers the    *)
(* commands of a connection in order, sends events whenever it likes, and  *)
(* may drop the connection.  Connections are numbered; 0 is nil.           *)
(***************************************************************************)
EXTENDS Naturals, Sequences, FiniteSets

CONSTANTS
    Callers,    \* goroutines that call API
    EvCap,      \* capacity of eventsCh (256 in the code)
    MaxCalls,   \* bound: API calls each caller makes
    MaxConns,   \* bound: connections that are established
    MaxEvents,  \* bound: events FreeSWITCH sends
    None

ASSUME EvCapAssumption == EvCap \in Nat \ {0}
ASSUME BoundsAssumption == MaxCalls \in Nat /\ MaxConns \in Nat /\ MaxEvents \in Nat
ASSUME NoneAssumption == None \notin Callers

VARIABLES
    run,        \* where Run and connectAndServe are
    cur,        \* the connection connectAndServe works on: its local conn
    conn,       \* c.conn
    ready,      \* c.ready
    closed,     \* connections the client has closed
    done,       \* c.done is closed
    ctx,        \* the context given to Run is cancelled
    missed,     \* history: Close ran between the dial and c.conn = conn
    pending,    \* c.pendingReply
    evq,        \* how many events c.eventsCh holds
    apiMu,      \* who holds c.apiMu
    pc,         \* where each caller is inside API
    calls,      \* calls each caller has begun
    mine,       \* the connection each caller loaded from c.conn
    got,        \* the reply each caller's latest call returned, or None
    up,         \* external: FreeSWITCH still serves cur
    asked,      \* external: commands FreeSWITCH has not answered
    inbox,      \* external: what FreeSWITCH sent and the client has not read
    sentEvents, \* external: events FreeSWITCH has sent
    abandoned   \* history: commands whose call returned without their own reply

runVars == <<run, cur, conn, ready, closed>>
stopVars == <<done, ctx, missed>>
apiVars == <<apiMu, pc, calls, mine, got, abandoned>>
fsVars == <<up, asked, inbox, sentEvents>>
vars == <<runVars, stopVars, pending, evq, apiVars, fsVars>>

-----------------------------------------------------------------------------
\* A command, named by its call and the connection it was written to; a reply
\* is named by the command it answers.
Cmd(c) == [by |-> c, n |-> calls[c], on |-> mine[c]]

AnEvent == [by |-> None, n |-> 0, on |-> 0]
IsReply(m) == m # AnEvent

Init ==
    /\ run = "loop" /\ cur = 0 /\ conn = 0 /\ ready = FALSE /\ closed = {}
    /\ done = FALSE /\ ctx = FALSE /\ missed = FALSE
    /\ pending = <<>> /\ evq = 0
    /\ apiMu = None
    /\ pc = [c \in Callers |-> "idle"]
    /\ calls = [c \in Callers |-> 0]
    /\ mine = [c \in Callers |-> 0]
    /\ got = [c \in Callers |-> None]
    /\ up = FALSE /\ asked = <<>> /\ inbox = <<>> /\ sentEvents = 0
    /\ abandoned = {}

-----------------------------------------------------------------------------
(* Run and connectAndServe.                                                *)

\* The local connection can still be read: neither side has closed it.
Alive == up /\ cur \notin closed

\* The loop's checks of the context: before connecting, and after a backoff.
RunStops ==
    /\ run \in {"loop", "backoff"} /\ ctx
    /\ run' = "stopped"
    /\ UNCHANGED <<cur, conn, ready, closed, stopVars, pending, evq, apiVars, fsVars>>

\* DialContext, which gives up when the context is cancelled.
Dial ==
    /\ run = "loop" /\ ~ctx
    /\ \/ /\ cur < MaxConns
          /\ run' = "dialled" /\ cur' = cur + 1
          /\ up' = TRUE /\ asked' = <<>> /\ inbox' = <<>>
       \/ run' = "backoff" /\ UNCHANGED <<cur, up, asked, inbox>>
    /\ UNCHANGED <<conn, ready, closed, stopVars, pending, evq, apiVars, sentEvents>>

\* c.conn = conn, under connMu.
Register ==
    /\ run = "dialled"
    /\ conn' = cur /\ run' = "greet"
    /\ UNCHANGED <<cur, ready, closed, stopVars, pending, evq, apiVars, fsVars>>

\* Greeting, auth and subscription; after the last one the client is ready.
Handshake ==
    /\ Alive
    /\ \/ run = "greet" /\ run' = "auth" /\ UNCHANGED ready
       \/ run = "auth" /\ run' = "subscribe" /\ UNCHANGED ready
       \/ run = "subscribe" /\ run' = "serve" /\ ready' = TRUE
    /\ UNCHANGED <<cur, conn, closed, stopVars, pending, evq, apiVars, fsVars>>

\* A broken or refused handshake returns before ready is ever set.
HandshakeFails ==
    /\ run \in {"greet", "auth", "subscribe"}
    /\ run' = "teardown"
    /\ UNCHANGED <<cur, conn, ready, closed, stopVars, pending, evq, apiVars, fsVars>>

\* The read loop, a reply: dropped when pendingReply is occupied.
ReadReply ==
    /\ run = "serve" /\ cur \notin closed
    /\ inbox # <<>> /\ IsReply(Head(inbox))
    /\ inbox' = Tail(inbox)
    /\ pending' = IF pending = <<>> THEN <<Head(inbox)>> ELSE pending
    /\ UNCHANGED <<runVars, stopVars, evq, apiVars, up, asked, sentEvents>>

\* Mutant: the send to eventsCh has no default.
ReadEventBlocking ==
    /\ run = "serve" /\ cur \notin closed
    /\ inbox # <<>> /\ ~IsReply(Head(inbox))
    /\ evq < EvCap /\ evq' = evq + 1
    /\ inbox' = Tail(inbox)
    /\ UNCHANGED <<runVars, stopVars, pending, apiVars, up, asked, sentEvents>>

\* The read loop, an event: dropped when eventsCh is full.
ReadEvent ==
    /\ run = "serve" /\ cur \notin closed
    /\ inbox # <<>> /\ ~IsReply(Head(inbox))
    /\ inbox' = Tail(inbox)
    /\ evq' = IF evq < EvCap THEN evq + 1 ELSE evq
    /\ UNCHANGED <<runVars, stopVars, pending, apiVars, up, asked, sentEvents>>

\* A read error, or a disconnect notice; what was in flight may be lost.
ReadFails ==
    /\ run = "serve" /\ ~Alive
    /\ run' = "unready"
    /\ UNCHANGED <<cur, conn, ready, closed, stopVars, pending, evq, apiVars, fsVars>>

\* Mutant: nothing resets ready when the connection ends.
LeaveReady ==
    /\ run = "unready" /\ run' = "teardown"
    /\ UNCHANGED <<cur, conn, ready, closed, stopVars, pending, evq, apiVars, fsVars>>

\* The deferred ready.Store(false), the first of the two to run.
Unready ==
    /\ run = "unready" /\ run' = "teardown"
    /\ ready' = FALSE
    /\ UNCHANGED <<cur, conn, closed, stopVars, pending, evq, apiVars, fsVars>>

\* The deferred function that forgets and closes the connection.
Teardown ==
    /\ run = "teardown" /\ run' = "backoff"
    /\ conn' = IF conn = cur THEN 0 ELSE conn
    /\ closed' = closed \union {cur}
    /\ UNCHANGED <<cur, ready, stopVars, pending, evq, apiVars, fsVars>>

\* The jittered backoff elapses.
Retry ==
    /\ run = "backoff" /\ ~ctx
    /\ run' = "loop"
    /\ UNCHANGED <<cur, conn, ready, closed, stopVars, pending, evq, apiVars, fsVars>>

RunStep ==
    \/ RunStops \/ Dial \/ Register \/ ReadReply \/ ReadEvent \/ ReadFails
    \/ Unready \/ Teardown \/ Retry

-----------------------------------------------------------------------------
(* API.                                                                    *)

Goto(c, l) == pc' = [pc EXCEPT ![c] = l]

\* Return, with the deferred apiMu.Unlock.
Return(c) == Goto(c, "idle") /\ apiMu' = None

Call(c) ==
    /\ pc[c] = "idle" /\ calls[c] < MaxCalls
    /\ Goto(c, "lock")
    /\ calls' = [calls EXCEPT ![c] = @ + 1]
    /\ got' = [got EXCEPT ![c] = None]
    /\ mine' = [mine EXCEPT ![c] = 0]
    /\ UNCHANGED <<runVars, stopVars, pending, evq, apiMu, abandoned, fsVars>>

Lock(c) ==
    /\ pc[c] = "lock" /\ apiMu = None
    /\ apiMu' = c /\ Goto(c, "load")
    /\ UNCHANGED <<runVars, stopVars, pending, evq, calls, mine, got, abandoned, fsVars>>

LoadConn(c) ==
    /\ pc[c] = "load" /\ Goto(c, "check")
    /\ mine' = [mine EXCEPT ![c] = conn]
    /\ UNCHANGED <<runVars, stopVars, pending, evq, apiMu, calls, got, abandoned, fsVars>>

\* Mutant: the error return forgets to unlock apiMu.
CheckReadyKeepingLock(c) ==
    /\ pc[c] = "check"
    /\ \/ (mine[c] = 0 \/ ~ready) /\ Goto(c, "idle")
       \/ mine[c] # 0 /\ ready /\ Goto(c, "drain")
    /\ UNCHANGED <<runVars, stopVars, pending, evq, apiMu, calls, mine, got, abandoned, fsVars>>

\* conn == nil || !c.ready.Load(): by now c.conn may be another connection.
CheckReady(c) ==
    /\ pc[c] = "check"
    /\ \/ (mine[c] = 0 \/ ~ready) /\ Return(c)
       \/ mine[c] # 0 /\ ready /\ Goto(c, "drain") /\ UNCHANGED apiMu
    /\ UNCHANGED <<runVars, stopVars, pending, evq, calls, mine, got, abandoned, fsVars>>

\* Mutant: a stale reply is left in the channel.
DrainNothing(c) ==
    /\ pc[c] = "drain" /\ Goto(c, "write")
    /\ UNCHANGED <<runVars, stopVars, pending, evq, apiMu, calls, mine, got, abandoned, fsVars>>

\* "Drain any stale reply."
DrainStale(c) ==
    /\ pc[c] = "drain" /\ Goto(c, "write")
    /\ pending' = <<>>
    /\ UNCHANGED <<runVars, stopVars, evq, apiMu, calls, mine, got, abandoned, fsVars>>

\* The write reaches FreeSWITCH; or is accepted by a socket whose peer is gone;
\* or fails, on a closed connection, a dead one or at its deadline.
WriteCommand(c) ==
    /\ pc[c] = "write"
    /\ \/ /\ mine[c] = cur /\ Alive
          /\ asked' = Append(asked, Cmd(c))
          /\ Goto(c, "wait") /\ UNCHANGED apiMu
       \/ /\ mine[c] \notin closed /\ ~up
          /\ Goto(c, "wait") /\ UNCHANGED <<apiMu, asked>>
       \/ Return(c) /\ UNCHANGED asked
    /\ UNCHANGED <<runVars, stopVars, pending, evq, calls, mine, got, abandoned, up, inbox,
                   sentEvents>>

TakeReply(c) ==
    /\ pc[c] = "wait" /\ pending # <<>>
    /\ got' = [got EXCEPT ![c] = Head(pending)]
    /\ pending' = <<>>
    /\ abandoned' = abandoned \union ({Cmd(c)} \ {Head(pending)})
    /\ Return(c)
    /\ UNCHANGED <<runVars, stopVars, evq, calls, mine, fsVars>>

\* The client is closed, the caller's context ends, or 15 seconds pass.
GiveUp(c) ==
    /\ pc[c] = "wait"
    /\ abandoned' = abandoned \union {Cmd(c)}
    /\ Return(c)
    /\ UNCHANGED <<runVars, stopVars, pending, evq, calls, mine, got, fsVars>>

ApiStep(c) ==
    \/ LoadConn(c) \/ CheckReady(c) \/ DrainStale(c) \/ WriteCommand(c) \/ TakeReply(c)

-----------------------------------------------------------------------------
(* Shutdown, ESLToBus and FreeSWITCH.                                      *)

\* SIGTERM: the context of Run and ESLToBus is cancelled.
Cancel ==
    /\ ~ctx /\ ctx' = TRUE
    /\ UNCHANGED <<runVars, done, missed, pending, evq, apiVars, fsVars>>

\* Mutant: Close forgets the connection.
CloseDoneOnly ==
    /\ ctx /\ ~done /\ done' = TRUE
    /\ missed' = (run = "dialled")
    /\ UNCHANGED <<runVars, ctx, pending, evq, apiVars, fsVars>>

\* Close, which fsbridge calls after the context is cancelled.
Close ==
    /\ ctx /\ ~done /\ done' = TRUE
    /\ closed' = IF conn = 0 THEN closed ELSE closed \union {conn}
    /\ missed' = (run = "dialled")
    /\ UNCHANGED <<run, cur, conn, ready, ctx, pending, evq, apiVars, fsVars>>

\* ESLToBus takes an event and publishes it, until its context ends.
ForwardEvent ==
    /\ evq > 0 /\ ~ctx
    /\ evq' = evq - 1
    /\ UNCHANGED <<runVars, stopVars, pending, apiVars, fsVars>>

Answer ==
    /\ up /\ asked # <<>>
    /\ asked' = Tail(asked) /\ inbox' = Append(inbox, Head(asked))
    /\ UNCHANGED <<runVars, stopVars, pending, evq, apiVars, up, sentEvents>>

SendEvent ==
    /\ up /\ run = "serve" /\ sentEvents < MaxEvents
    /\ sentEvents' = sentEvents + 1
    /\ inbox' = Append(inbox, AnEvent)
    /\ UNCHANGED <<runVars, stopVars, pending, evq, apiVars, up, asked>>

Drop ==
    /\ up /\ up' = FALSE
    /\ UNCHANGED <<runVars, stopVars, pending, evq, apiVars, asked, inbox, sentEvents>>

-----------------------------------------------------------------------------
Next ==
    \/ RunStep \/ Handshake \/ HandshakeFails
    \/ \E c \in Callers : Call(c) \/ Lock(c) \/ ApiStep(c) \/ GiveUp(c)
    \/ Cancel \/ Close \/ ForwardEvent
    \/ Answer \/ SendEvent \/ Drop

\* The goroutines run, and apiMu is granted to a goroutine that keeps waiting
\* for it (sync.Mutex does not starve).  A handshake whose connection is closed
\* or lost fails; FreeSWITCH need not say anything.
Fairness ==
    /\ WF_vars(RunStep)
    /\ WF_vars(~Alive /\ HandshakeFails)
    /\ \A c \in Callers : WF_vars(ApiStep(c)) /\ SF_vars(Lock(c))

Spec == Init /\ [][Next]_vars /\ Fairness

-----------------------------------------------------------------------------
(* Properties.                                                             *)

\* A reply a call returns was given on the connection its command went to, and
\* answers that command or an earlier one whose call ended without it: nothing
\* survives a reconnect, and while no call gives up nobody gets another's reply.
RepliesStayOnConnection ==
    \A c \in Callers : got[c] # None =>
        /\ got[c].on = mine[c]
        /\ got[c] = Cmd(c) \/ got[c] \in abandoned

\* A caller past the ready check never writes a command into a handshake, whose
\* reply connectAndServe would take for its own: the connection it loaded is
\* served, or no longer the one being set up.
NoCommandInHandshake ==
    \A c \in Callers :
        pc[c] \in {"drain", "write"} /\ mine[c] = cur
            => run \notin {"dialled", "greet", "auth", "subscribe"}

\* However late ESLToBus takes events, a reply that has arrived is taken by the
\* call that waits, while the connection is not lost.
ReplyPassesEvents ==
    \A c \in Callers :
        (pc[c] = "wait" /\ \E i \in DOMAIN inbox : inbox[i] = Cmd(c)) ~> (pc[c] # "wait" \/ ~Alive)

\* A call that waits is ended by its 15 second timer.
Timer == \A c \in Callers : WF_vars(GiveUp(c))

\* Every API call returns, reply or not, connected or not, given that timer:
\* whatever Run does meanwhile, apiMu is released and every holder moves on.
EveryCallReturns == Timer => \A c \in Callers : pc[c] # "idle" ~> pc[c] = "idle"

\* After Close, Run returns, unless Close fell between the dial and c.conn = conn.
CloseStopsRun == (done /\ ~missed) ~> run = "stopped"
=============================================================================
