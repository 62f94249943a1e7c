-------------------------- MODULE EslClientProofs --------------------------
(***************************************************************************)
(* Proofs about EslClient, for any callers, any number of calls, of        *)
(* connections and of events.  ConnInv says how far a caller can be with   *)
(* the connection it loaded; ReplyInv, on top of it, where the reply to a  *)
(* command can be.                                                         *)
(***************************************************************************)
EXTENDS EslClient, TLAPS

Stages == {"loop", "dialled", "greet", "auth", "subscribe", "serve", "unready", "teardown",
           "backoff", "stopped"}
Points == {"idle", "lock", "load", "check", "drain", "write", "wait"}

ConnTypes ==
    /\ run \in Stages /\ cur \in Nat /\ conn \in Nat /\ conn <= cur
    /\ pc \in [Callers -> Points] /\ mine \in [Callers -> Nat]
    /\ \A c \in Callers : mine[c] <= cur

\* The client is ready only while its connection is served.
ReadyServes == ready => run \in {"serve", "unready"}

\* Every connection but the latest is closed, and that one too while there is none.
FormerClosed ==
    /\ \A k \in 1..cur : k # cur => k \in closed
    /\ run \in {"loop", "backoff", "stopped"} /\ cur # 0 => cur \in closed

\* A caller past the ready check has a connection.
Loaded == \A c \in Callers : pc[c] \in {"drain", "write", "wait"} => mine[c] # 0

ConnInv == ConnTypes /\ ReadyServes /\ FormerClosed /\ Loaded /\ NoCommandInHandshake

-----------------------------------------------------------------------------
(* Connections.                                                            *)

\* There is none yet.
LEMMA ConnInit == Init => ConnInv
BY DEF Init, ConnInv, ConnTypes, ReadyServes, FormerClosed, Loaded, NoCommandInHandshake,
       Stages, Points

\* Steps of others.
LEMMA ConnKept ==
    ASSUME ConnInv, UNCHANGED <<run, cur, conn, ready, pc, mine>>, closed \subseteq closed'
    PROVE  ConnInv'
BY DEF ConnInv, ConnTypes, ReadyServes, FormerClosed, Loaded, NoCommandInHandshake

\* A new connection is nobody's yet; the one before it is closed.
LEMMA ConnDial == ConnInv /\ Dial => ConnInv'
<1> SUFFICES ASSUME ConnInv, Dial
             PROVE  ConnInv'
  OBVIOUS
<1> USE DEF ConnInv
<1>1. /\ UNCHANGED <<conn, ready, pc, mine, closed>> /\ run = "loop" /\ ~ready
      /\ \/ run' = "dialled" /\ cur' = cur + 1
         \/ run' = "backoff" /\ cur' = cur
  BY DEF Dial, apiVars, ReadyServes
<1>2. ConnTypes' /\ ReadyServes' /\ Loaded'
  BY <1>1 DEF ConnTypes, ReadyServes, Loaded, Stages
<1>3. FormerClosed'
  BY <1>1 DEF FormerClosed, ConnTypes
<1>4. NoCommandInHandshake'
  BY <1>1 DEF NoCommandInHandshake, ConnTypes
<1> QED
  BY <1>2, <1>3, <1>4

\* Run goes on with the connection it has.
LEMMA ConnRun ==
    ASSUME ConnInv, \/ RunStops \/ Register \/ Handshake \/ HandshakeFails \/ ReadFails
                    \/ Unready \/ Teardown \/ Retry
    PROVE  ConnInv'
<1> USE DEF ConnInv, RunStops, Register, Handshake, HandshakeFails, ReadFails, Unready,
            Teardown, Retry, apiVars
<1>1. UNCHANGED <<cur, pc, mine>> /\ closed \subseteq closed'
  OBVIOUS
<1>2. ConnTypes' /\ Loaded'
  BY <1>1 DEF ConnTypes, Loaded, Stages
<1>3. ReadyServes'
  BY DEF ReadyServes
<1>4. FormerClosed'
  BY <1>1 DEF FormerClosed
<1>5. NoCommandInHandshake'
  BY <1>1 DEF NoCommandInHandshake
<1> QED
  BY <1>2, <1>3, <1>4, <1>5

\* A caller loads c.conn, and goes on only when the client is ready.
LEMMA ConnApi ==
    ASSUME ConnInv, NEW c \in Callers,
           Call(c) \/ Lock(c) \/ ApiStep(c) \/ GiveUp(c)
    PROVE  ConnInv'
<1> USE DEF ConnInv, runVars, Return, Goto
<1>1. UNCHANGED <<run, cur, conn, ready, closed>>
  BY DEF Call, Lock, ApiStep, LoadConn, CheckReady, DrainStale, WriteCommand, TakeReply, GiveUp
<1>2. ConnTypes' /\ \A d \in Callers \ {c} : pc'[d] = pc[d] /\ mine'[d] = mine[d]
  BY <1>1 DEF ConnTypes, Points, Call, Lock, ApiStep, LoadConn, CheckReady, DrainStale,
              WriteCommand, TakeReply, GiveUp
<1>3. \/ pc'[c] \notin {"drain", "write", "wait"}
      \/ /\ mine'[c] = mine[c] /\ mine[c] # 0
         /\ pc[c] \in {"drain", "write"} \/ ready
  BY DEF ConnTypes, Loaded, Call, Lock, ApiStep, LoadConn, CheckReady, DrainStale,
         WriteCommand, TakeReply, GiveUp
<1>4. Loaded'
  BY <1>2, <1>3 DEF Loaded
<1>5. NoCommandInHandshake'
  BY <1>1, <1>2, <1>3 DEF NoCommandInHandshake, ReadyServes
<1> QED
  BY <1>1, <1>2, <1>4, <1>5 DEF ReadyServes, FormerClosed

\* Every step keeps what is known of the connections.
LEMMA ConnNext == ConnInv /\ [Next]_vars => ConnInv'
<1> SUFFICES ASSUME ConnInv, [Next]_vars
             PROVE  ConnInv'
  OBVIOUS
<1> USE DEF runVars, apiVars
<1>1. CASE RunStep \/ Handshake \/ HandshakeFails
  <2>1. CASE ReadReply \/ ReadEvent
    BY <2>1, ConnKept DEF ReadReply, ReadEvent
  <2> QED
    BY <1>1, <2>1, ConnDial, ConnRun DEF RunStep
<1>2. ASSUME NEW c \in Callers, Call(c) \/ Lock(c) \/ ApiStep(c) \/ GiveUp(c)
      PROVE  ConnInv'
  BY <1>2, ConnApi
<1>3. CASE Cancel \/ Close \/ ForwardEvent \/ Answer \/ SendEvent \/ Drop
  BY <1>3, ConnKept DEF Cancel, Close, ForwardEvent, Answer, SendEvent, Drop
<1>4. CASE UNCHANGED vars
  BY <1>4, ConnKept DEF vars
<1> QED
  BY <1>1, <1>2, <1>3, <1>4 DEF Next

\* No call writes a command into the handshake of a connection (API's check of c.conn and
\* c.ready), however the two reads fall among connections that come and go.
THEOREM HandshakeUndisturbed == Spec => []NoCommandInHandshake
<1>1. ConnInv => NoCommandInHandshake
  BY DEF ConnInv
<1> QED
  BY ConnInit, ConnNext, <1>1, PTL DEF Spec
-----------------------------------------------------------------------------
(* Sequences of messages.                                                  *)

Msg == [by : Callers \union {None}, n : Nat, on : Nat]

Elems(q) == {q[i] : i \in 1..Len(q)}

\* No reply is in the sequence twice.
Once(q) == \A i, j \in 1..Len(q) : q[i] = q[j] /\ IsReply(q[i]) => i = j

\* A message more.
LEMMA ElemsAppend ==
    ASSUME NEW S, NEW q \in Seq(S), NEW m \in S
    PROVE  /\ Append(q, m) \in Seq(S) /\ Elems(Append(q, m)) = Elems(q) \union {m}
           /\ Once(q) /\ (IsReply(m) => m \notin Elems(q)) => Once(Append(q, m))
<1>1. /\ Append(q, m) \in Seq(S) /\ Len(Append(q, m)) = Len(q) + 1 /\ Len(q) \in Nat
      /\ \A i \in 1..Len(q) : Append(q, m)[i] = q[i]
      /\ Append(q, m)[Len(q) + 1] = m
  OBVIOUS
<1>2. Elems(Append(q, m)) \subseteq Elems(q) \union {m}
  BY <1>1 DEF Elems
<1>3. Elems(q) \union {m} \subseteq Elems(Append(q, m))
  BY <1>1 DEF Elems
<1>4. ASSUME Once(q), IsReply(m) => m \notin Elems(q)
      PROVE  Once(Append(q, m))
  BY <1>1, <1>4 DEF Once, Elems
<1> QED
  BY <1>1, <1>2, <1>3, <1>4

\* A message less.
LEMMA ElemsTail ==
    ASSUME NEW S, NEW q \in Seq(S), q # <<>>
    PROVE  /\ Tail(q) \in Seq(S) /\ Head(q) \in S /\ Elems(q) = {Head(q)} \union Elems(Tail(q))
           /\ Once(q) => Once(Tail(q)) /\ (IsReply(Head(q)) => Head(q) \notin Elems(Tail(q)))
<1>1. /\ Tail(q) \in Seq(S) /\ Len(Tail(q)) = Len(q) - 1 /\ Head(q) \in S
      /\ Len(q) \in Nat /\ Len(q) >= 1 /\ Head(q) = q[1]
      /\ \A i \in 1..(Len(q) - 1) : Tail(q)[i] = q[i + 1]
  OBVIOUS
<1>2. Elems(q) \subseteq {Head(q)} \union Elems(Tail(q))
  <2> SUFFICES ASSUME NEW i \in 1..Len(q), i # 1
               PROVE  q[i] \in Elems(Tail(q))
    BY <1>1 DEF Elems
  <2>1. i - 1 \in 1..(Len(q) - 1) /\ Tail(q)[i - 1] = q[i]
    BY <1>1
  <2> QED
    BY <1>1, <2>1 DEF Elems
<1>3. {Head(q)} \union Elems(Tail(q)) \subseteq Elems(q)
  BY <1>1 DEF Elems
<1>4. ASSUME Once(q)
      PROVE  Once(Tail(q)) /\ (IsReply(Head(q)) => Head(q) \notin Elems(Tail(q)))
  BY <1>1, <1>4 DEF Once, Elems
<1> QED
  BY <1>1, <1>2, <1>3, <1>4

-----------------------------------------------------------------------------
(* Where replies can be.                                                   *)

Held == {"load", "check", "drain", "write", "wait"}

\* Commands on the connection that were not answered, or whose reply was not read.
Sent == Elems(asked) \union (Elems(inbox) \ {AnEvent})
InFlight == Sent \union Elems(pending)

ReplyTypes ==
    /\ asked \in Seq(Msg) /\ inbox \in Seq(Msg)
    /\ pending = <<>> \/ \E m \in Msg : pending = <<m>> /\ IsReply(m)
    /\ \A m \in Elems(asked) : IsReply(m)
    /\ calls \in [Callers -> Nat] /\ DOMAIN got = Callers

\* apiMu is held by the one caller that is past Lock.
MuHeld == \A c \in Callers : pc[c] \in Held <=> apiMu = c

\* A reply is in one place.
Apart ==
    /\ Once(asked) /\ Once(inbox)
    /\ Elems(asked) \intersect Elems(inbox) = {}
    /\ Elems(pending) \intersect Sent = {}

\* What is sent belongs to the connection of the moment; to another than the one a caller
\* waits on, nothing.
OnCurrent ==
    /\ \A m \in Sent : m.on = cur
    /\ \A c \in Callers : pc[c] = "wait" /\ mine[c] # cur => Sent = {}

\* What lies in pendingReply came on the connection of the caller that will take it.
PendingOn ==
    \A c \in Callers : pc[c] = "wait" \/ (pc[c] = "write" /\ mine[c] = cur) =>
        \A m \in Elems(pending) : m.on = mine[c]

\* A command under way was given up, or its caller waits for it; it is not a later one's.
Owned ==
    \A m \in InFlight :
        /\ m \in abandoned \/ (m.by \in Callers /\ pc[m.by] = "wait" /\ m = Cmd(m.by))
        /\ m.by \in Callers => /\ m.n <= calls[m.by]
                               /\ pc[m.by] \notin {"idle", "wait"} => m.n < calls[m.by]

GotIdle == \A c \in Callers : got[c] # None => pc[c] = "idle"

ReplyInv ==
    ReplyTypes /\ MuHeld /\ Apart /\ OnCurrent /\ PendingOn /\ Owned /\ GotIdle
        /\ RepliesStayOnConnection

\* A command of a caller is a message and not an event.
LEMMA CmdIsReply ==
    ASSUME ConnTypes, ReplyTypes, NEW c \in Callers
    PROVE  Cmd(c) \in Msg /\ IsReply(Cmd(c))
BY NoneAssumption DEF ConnTypes, ReplyTypes, Cmd, Msg, IsReply, AnEvent

\* What is under way is messages.
LEMMA InFlightMsg == ReplyTypes => InFlight \subseteq Msg
<1>1. \A q \in Seq(Msg) : Elems(q) \subseteq Msg
  BY DEF Elems
<1>2. ASSUME ReplyTypes
      PROVE  Elems(pending) \subseteq Msg
  BY <1>2 DEF ReplyTypes, Elems
<1> QED
  BY <1>1, <1>2 DEF ReplyTypes, InFlight, Sent

\* Nothing was asked.
LEMMA ReplyInit == Init => ReplyInv
<1> SUFFICES ASSUME Init
             PROVE  ReplyInv
  OBVIOUS
<1>1. Elems(<<>>) = {} /\ Once(<<>>)
  BY DEF Elems, Once
<1>2. Sent = {} /\ InFlight = {} /\ Elems(pending) = {}
  BY <1>1 DEF Init, Sent, InFlight
<1>3. ReplyTypes /\ Apart
  BY <1>1, <1>2 DEF Init, ReplyTypes, Apart
<1>4. MuHeld
  BY NoneAssumption DEF Init, MuHeld, Held
<1> QED
  BY <1>2, <1>3, <1>4 DEF Init, ReplyInv, OnCurrent, PendingOn, Owned, GotIdle,
                          RepliesStayOnConnection
\* Steps that move no message and no caller: Run's, on the connection it has, and events.
LEMMA ReplyKept ==
    ASSUME ReplyInv, ReplyTypes', UNCHANGED <<cur, apiVars, Sent, Elems(pending)>>, Apart'
    PROVE  ReplyInv'
<1>1. UNCHANGED InFlight
  BY DEF InFlight
<1>2. MuHeld' /\ GotIdle' /\ RepliesStayOnConnection'
  BY DEF ReplyInv, MuHeld, GotIdle, RepliesStayOnConnection, apiVars, Cmd
<1>3. OnCurrent' /\ PendingOn'
  BY DEF ReplyInv, OnCurrent, PendingOn, apiVars
<1>4. Owned'
  BY <1>1 DEF ReplyInv, Owned, apiVars, Cmd
<1> QED
  BY <1>2, <1>3, <1>4 DEF ReplyInv

\* The same, where not even the sequences change.
LEMMA ReplyUntouched ==
    ASSUME ReplyInv, UNCHANGED <<cur, apiVars, asked, inbox, pending>>
    PROVE  ReplyInv'
<1>1. UNCHANGED <<Sent, Elems(pending), Elems(asked), Elems(inbox), Once(asked), Once(inbox)>>
  BY DEF Sent, Elems, Once
<1>2. ReplyTypes'
  BY <1>1 DEF ReplyInv, ReplyTypes, apiVars
<1>3. Apart'
  BY <1>1 DEF ReplyInv, Apart
<1> QED
  BY <1>1, <1>2, <1>3, ReplyKept

\* A new connection carries nothing.
LEMMA ReplyDial == ConnInv /\ ReplyInv /\ Dial => ReplyInv'
<1> SUFFICES ASSUME ConnInv, ReplyInv, Dial
             PROVE  ReplyInv'
  OBVIOUS
<1>1. CASE UNCHANGED <<cur, asked, inbox>>
  BY <1>1, ReplyUntouched DEF Dial
<1>2. CASE cur' = cur + 1 /\ asked' = <<>> /\ inbox' = <<>>
  <2>1. UNCHANGED <<pending, apiMu, pc, calls, mine, got, abandoned>>
    BY DEF Dial, apiVars
  <2>2. Elems(<<>>) = {} /\ Once(<<>>)
    BY DEF Elems, Once
  <2>3. Sent' = {} /\ UNCHANGED Elems(pending) /\ InFlight' \subseteq InFlight
    BY <1>2, <2>1, <2>2 DEF Sent, InFlight, Elems
  <2>4. ReplyTypes' /\ Apart'
    BY <1>2, <2>1, <2>2, <2>3 DEF ReplyInv, ReplyTypes, Apart
  <2>5. OnCurrent'
    BY <2>3 DEF OnCurrent
  <2>6. PendingOn'
    BY <1>2, <2>1, <2>3 DEF ConnInv, ConnTypes, ReplyInv, PendingOn
  <2>7. Owned'
    BY <2>1, <2>3 DEF ReplyInv, Owned, Cmd
  <2>8. MuHeld' /\ GotIdle' /\ RepliesStayOnConnection'
    BY <2>1 DEF ReplyInv, MuHeld, GotIdle, RepliesStayOnConnection, Cmd
  <2> QED
    BY <2>4, <2>5, <2>6, <2>7, <2>8 DEF ReplyInv
<1> QED
  BY <1>1, <1>2 DEF Dial

\* A reply goes from the connection to the one place, or is dropped.
LEMMA ReplyRead == ConnInv /\ ReplyInv /\ ReadReply => ReplyInv'
<1> SUFFICES ASSUME ConnInv, ReplyInv, ReadReply
             PROVE  ReplyInv'
  OBVIOUS
<1> DEFINE h == Head(inbox)
<1>1. /\ inbox # <<>> /\ IsReply(h) /\ inbox' = Tail(inbox)
      /\ pending' = (IF pending = <<>> THEN <<h>> ELSE pending)
      /\ UNCHANGED <<asked, cur, apiMu, pc, calls, mine, got, abandoned>>
  BY DEF ReadReply, runVars, apiVars
<1>2. asked \in Seq(Msg) /\ inbox \in Seq(Msg) /\ Once(inbox)
  BY DEF ReplyInv, ReplyTypes, Apart
<1>3. /\ Tail(inbox) \in Seq(Msg) /\ h \in Msg /\ Elems(inbox) = {h} \union Elems(Tail(inbox))
      /\ Once(Tail(inbox)) /\ h \notin Elems(Tail(inbox))
  BY <1>1, <1>2, ElemsTail
<1>4. h \in Sent /\ h # AnEvent /\ Sent' = Sent \ {h}
  <2>1. h \notin Elems(asked)
    BY <1>3 DEF ReplyInv, Apart
  <2> QED
    BY <1>1, <1>3, <2>1 DEF Sent, IsReply, Elems
<1>5. Elems(pending') = Elems(pending) \/ Elems(pending') = {h}
  BY <1>1 DEF Elems
<1> HIDE DEF h
<1>6. InFlight' \subseteq InFlight
  BY <1>4, <1>5 DEF InFlight
<1>7. ReplyTypes'
  BY <1>1, <1>3 DEF ReplyInv, ReplyTypes, Elems
<1>8. Apart'
  <2>1. UNCHANGED <<Elems(asked), Once(asked)>>
    BY <1>1 DEF Elems, Once
  <2> QED
    BY <1>1, <1>3, <1>4, <1>5, <2>1 DEF ReplyInv, Apart
<1>9. OnCurrent'
  BY <1>1, <1>4 DEF ReplyInv, OnCurrent
<1>10. PendingOn'
  BY <1>1, <1>4, <1>5 DEF ReplyInv, OnCurrent, PendingOn
<1>11. Owned'
  BY <1>1, <1>6 DEF ReplyInv, Owned, Cmd
<1>12. MuHeld' /\ GotIdle' /\ RepliesStayOnConnection'
  BY <1>1 DEF ReplyInv, MuHeld, GotIdle, RepliesStayOnConnection, Cmd
<1> QED
  BY <1>7, <1>8, <1>9, <1>10, <1>11, <1>12 DEF ReplyInv

\* An event leaves no trace among the replies.
LEMMA ReplyEvents == ReplyInv /\ (ReadEvent \/ SendEvent) => ReplyInv'
<1> SUFFICES ASSUME ReplyInv, ReadEvent \/ SendEvent
             PROVE  ReplyInv'
  OBVIOUS
<1>1. /\ UNCHANGED <<asked, pending, cur, apiVars>>
      /\ \/ inbox # <<>> /\ ~IsReply(Head(inbox)) /\ inbox' = Tail(inbox)
         \/ inbox' = Append(inbox, AnEvent)
  BY DEF ReadEvent, SendEvent, runVars
<1>2. inbox \in Seq(Msg) /\ Once(inbox) /\ AnEvent \in Msg /\ ~IsReply(AnEvent)
  BY DEF ReplyInv, ReplyTypes, Apart, AnEvent, Msg, IsReply
<1>3. /\ inbox' \in Seq(Msg) /\ Once(inbox')
      /\ Elems(inbox') \ {AnEvent} = Elems(inbox) \ {AnEvent}
  <2>1. CASE inbox # <<>> /\ ~IsReply(Head(inbox)) /\ inbox' = Tail(inbox)
    <3>1. /\ Tail(inbox) \in Seq(Msg) /\ Once(Tail(inbox))
          /\ Elems(inbox) = {Head(inbox)} \union Elems(Tail(inbox))
      BY <1>2, <2>1, ElemsTail
    <3>2. Head(inbox) = AnEvent
      BY <2>1 DEF IsReply
    <3> QED
      BY <2>1, <3>1, <3>2
  <2>2. CASE inbox' = Append(inbox, AnEvent)
    <3>1. /\ Append(inbox, AnEvent) \in Seq(Msg) /\ Once(Append(inbox, AnEvent))
          /\ Elems(Append(inbox, AnEvent)) = Elems(inbox) \union {AnEvent}
      BY <1>2, ElemsAppend
    <3> QED
      BY <2>2, <3>1
  <2> QED
    BY <1>1, <2>1, <2>2
<1>4. /\ UNCHANGED <<Elems(asked), Elems(pending), Once(asked)>> /\ UNCHANGED Sent
      /\ AnEvent \notin Elems(asked)
  BY <1>1, <1>2, <1>3 DEF Sent, Elems, Once, ReplyInv, ReplyTypes
<1>5. ReplyTypes'
  BY <1>1, <1>3, <1>4 DEF ReplyInv, ReplyTypes, apiVars
<1>6. Elems(asked') \intersect Elems(inbox') = {}
  BY <1>3, <1>4 DEF ReplyInv, Apart
<1>7. Apart'
  BY <1>1, <1>3, <1>4, <1>6 DEF ReplyInv, Apart
<1> QED
  BY <1>1, <1>4, <1>5, <1>7, ReplyKept

\* FreeSWITCH answers the oldest command.
LEMMA ReplyAnswer == ReplyInv /\ Answer => ReplyInv'
<1> SUFFICES ASSUME ReplyInv, Answer
             PROVE  ReplyInv'
  OBVIOUS
<1> DEFINE h == Head(asked)
<1>1. /\ asked # <<>> /\ asked' = Tail(asked) /\ inbox' = Append(inbox, h)
      /\ UNCHANGED <<pending, cur, apiVars>>
  BY DEF Answer, runVars
<1>2. asked \in Seq(Msg) /\ inbox \in Seq(Msg) /\ Once(asked) /\ Once(inbox)
  BY DEF ReplyInv, ReplyTypes, Apart
<1>3. /\ Tail(asked) \in Seq(Msg) /\ h \in Msg /\ Elems(asked) = {h} \union Elems(Tail(asked))
      /\ Once(Tail(asked)) /\ (IsReply(h) => h \notin Elems(Tail(asked)))
  BY <1>1, <1>2, ElemsTail
<1>4. IsReply(h) /\ h \notin Elems(inbox)
  BY <1>3 DEF ReplyInv, ReplyTypes, Apart
<1>5. /\ inbox' \in Seq(Msg) /\ Once(inbox') /\ Elems(inbox') = Elems(inbox) \union {h}
  BY <1>1, <1>2, <1>3, <1>4, ElemsAppend
<1> HIDE DEF h
<1>6. Sent' = Sent /\ UNCHANGED Elems(pending)
  BY <1>1, <1>3, <1>4, <1>5, ZenonT(60) DEF Sent, IsReply, Elems
<1>7. ReplyTypes'
  BY <1>1, <1>3, <1>5 DEF ReplyInv, ReplyTypes, apiVars
<1>8. Apart'
  BY <1>1, <1>3, <1>4, <1>5, <1>6 DEF ReplyInv, Apart
<1> QED
  BY <1>1, <1>6, <1>7, <1>8, ReplyKept
\* A caller on its way to its command asks nothing and takes nothing.
LEMMA ReplyCaller ==
    ASSUME ConnInv, ReplyInv, NEW c \in Callers,
           Call(c) \/ Lock(c) \/ LoadConn(c) \/ CheckReady(c) \/ DrainStale(c)
    PROVE  ReplyInv'
<1> USE DEF Goto, Return
<1>1. UNCHANGED <<cur, asked, inbox, abandoned>>
  BY DEF Call, Lock, LoadConn, CheckReady, DrainStale, runVars, fsVars
<1>2. UNCHANGED pending \/ pending' = <<>>
  BY DEF Call, Lock, LoadConn, CheckReady, DrainStale
<1>3. \A d \in Callers \ {c} :
        pc'[d] = pc[d] /\ mine'[d] = mine[d] /\ calls'[d] = calls[d] /\ got'[d] = got[d]
  BY DEF ConnInv, ConnTypes, ReplyInv, ReplyTypes, Call, Lock, LoadConn, CheckReady, DrainStale
<1>4. /\ pc[c] # "wait" /\ pc'[c] # "wait" /\ got'[c] = None
      /\ pc'[c] = "write" => pending' = <<>>
      /\ \/ pc[c] = "idle" /\ calls'[c] = calls[c] + 1
         \/ pc[c] \notin {"idle", "wait"} /\ calls'[c] = calls[c]
  BY DEF ConnInv, ConnTypes, ReplyInv, ReplyTypes, GotIdle, Call, Lock, LoadConn, CheckReady,
         DrainStale
<1>5. Elems(<<>>) = {}
  BY DEF Elems
<1>6. UNCHANGED <<Sent, Elems(asked), Elems(inbox), Once(asked), Once(inbox)>>
  BY <1>1 DEF Sent, Elems, Once
<1>7. Elems(pending)' \subseteq Elems(pending) /\ InFlight' \subseteq InFlight
  BY <1>2, <1>5, <1>6 DEF InFlight, Elems
<1>8. ReplyTypes'
  <2>1. calls' \in [Callers -> Nat] /\ DOMAIN got' = Callers
    BY DEF ReplyInv, ReplyTypes, Call, Lock, LoadConn, CheckReady, DrainStale
  <2> QED
    BY <1>1, <1>2, <1>6, <2>1 DEF ReplyInv, ReplyTypes
<1>9. Apart'
  BY <1>6, <1>7 DEF ReplyInv, Apart
<1>10. OnCurrent'
  BY <1>1, <1>3, <1>4, <1>6 DEF ReplyInv, OnCurrent
<1>11. PendingOn'
  <2>1. pc'[c] = "write" => Elems(pending)' = {}
    BY <1>4, <1>5
  <2>2. ASSUME NEW d \in Callers, pc'[d] = "wait" \/ (pc'[d] = "write" /\ mine'[d] = cur'),
               NEW m \in Elems(pending)'
        PROVE  m.on = mine'[d]
    <3>1. d # c
      BY <1>4, <2>1, <2>2
    <3> QED
      BY <1>1, <1>3, <1>7, <2>2, <3>1 DEF ReplyInv, PendingOn
  <2> QED
    BY <2>2 DEF PendingOn
<1>12. Owned'
  <2> SUFFICES ASSUME NEW m \in InFlight'
               PROVE  /\ m \in abandoned \/ (m.by \in Callers /\ pc'[m.by] = "wait" /\ m = Cmd(m.by)')
                      /\ m.by \in Callers => /\ m.n <= calls'[m.by]
                                             /\ pc'[m.by] \notin {"idle", "wait"} => m.n < calls'[m.by]
    BY <1>1 DEF Owned
  <2>1. /\ m \in abandoned \/ (m.by \in Callers /\ pc[m.by] = "wait" /\ m = Cmd(m.by))
        /\ m.by \in Callers => /\ m.n <= calls[m.by]
                               /\ pc[m.by] \notin {"idle", "wait"} => m.n < calls[m.by]
    BY <1>7 DEF ReplyInv, Owned
  <2>2. m.n \in Nat
    <3>1. m \in Msg
      BY <1>7, InFlightMsg DEF ReplyInv
    <3> QED
      BY <3>1 DEF Msg
  <2>3. CASE m.by = c
    BY <1>4, <2>1, <2>2, <2>3 DEF ReplyInv, ReplyTypes
  <2>4. CASE m.by # c
    BY <1>3, <2>1, <2>4 DEF Cmd
  <2> QED
    BY <2>3, <2>4
<1>13. MuHeld'
  BY NoneAssumption DEF ReplyInv, MuHeld, Held, ConnInv, ConnTypes, Call, Lock, LoadConn,
                        CheckReady, DrainStale
<1>14. GotIdle' /\ RepliesStayOnConnection'
  BY <1>1, <1>3, <1>4 DEF ReplyInv, GotIdle, RepliesStayOnConnection, Cmd
<1> QED
  BY <1>8, <1>9, <1>10, <1>11, <1>12, <1>13, <1>14 DEF ReplyInv

\* The command is written to the connection of the moment, or to one that is gone.
LEMMA ReplyWrite ==
    ASSUME ConnInv, ReplyInv, NEW c \in Callers, WriteCommand(c)
    PROVE  ReplyInv'
<1> USE DEF Goto, Return
<1>1. /\ pc[c] = "write" /\ got[c] = None /\ mine[c] # 0 /\ apiMu = c
      /\ UNCHANGED <<cur, inbox, pending, abandoned, calls, mine, got>>
  BY DEF WriteCommand, runVars, ReplyInv, GotIdle, MuHeld, Held, ConnInv, Loaded
<1>2. \A d \in Callers \ {c} : pc'[d] = pc[d] /\ pc[d] \notin Held
  BY <1>1 DEF WriteCommand, ConnInv, ConnTypes, ReplyInv, MuHeld
<1>3. /\ MuHeld' /\ GotIdle' /\ RepliesStayOnConnection' /\ pc'[c] \in {"idle", "wait"}
  BY <1>1, <1>2, NoneAssumption DEF WriteCommand, ConnInv, ConnTypes, ReplyInv, MuHeld, Held,
                                    GotIdle, RepliesStayOnConnection, Cmd
<1>4. pc'[c] = "wait" => mine[c] = cur
  BY <1>1 DEF WriteCommand, ConnInv, ConnTypes, FormerClosed
<1>5. PendingOn'
  BY <1>1, <1>2, <1>3, <1>4 DEF ReplyInv, PendingOn, Elems, Held
<1>6. Cmd(c) \in Msg /\ IsReply(Cmd(c)) /\ UNCHANGED Elems(pending) /\ UNCHANGED Elems(inbox)
  BY <1>1, CmdIsReply DEF ConnInv, ReplyInv, Elems
<1>7. Cmd(c) \notin InFlight
  BY <1>1 DEF ReplyInv, Owned, Cmd, ReplyTypes
<1>8. CASE UNCHANGED asked
  <2>1. UNCHANGED <<Sent, Elems(asked), Once(asked), Once(inbox)>>
    BY <1>1, <1>8 DEF Sent, Elems, Once
  <2>2. ReplyTypes' /\ Apart' /\ UNCHANGED InFlight
    BY <1>1, <1>6, <1>8, <2>1 DEF ReplyInv, ReplyTypes, Apart, InFlight
  <2>3. OnCurrent'
    BY <1>1, <1>2, <1>4, <2>1 DEF ReplyInv, OnCurrent, Held
  <2>4. Owned'
    BY <1>1, <1>2, <1>3, <2>2 DEF ReplyInv, Owned, Cmd
  <2> QED
    BY <1>3, <1>5, <2>2, <2>3, <2>4 DEF ReplyInv
<1>9. CASE mine[c] = cur /\ asked' = Append(asked, Cmd(c)) /\ pc'[c] = "wait"
  <2>1. /\ asked' \in Seq(Msg) /\ Elems(asked') = Elems(asked) \union {Cmd(c)} /\ Once(asked')
    BY <1>6, <1>7, <1>9, ElemsAppend DEF ReplyInv, ReplyTypes, Apart, InFlight, Sent
  <2>2. /\ Sent' = Sent \union {Cmd(c)} /\ InFlight' = InFlight \union {Cmd(c)}
        /\ UNCHANGED Once(inbox)
    BY <1>1, <1>6, <2>1 DEF Sent, InFlight, Once
  <2>3. ReplyTypes'
    BY <1>1, <1>6, <2>1 DEF ReplyInv, ReplyTypes
  <2>4. Cmd(c) \notin Elems(inbox)
    BY <1>6, <1>7 DEF InFlight, Sent, IsReply
  <2>5. Apart'
    BY <1>6, <1>7, <2>1, <2>2, <2>4 DEF ReplyInv, Apart, InFlight
  <2>6. Cmd(c).on = mine[c] /\ Cmd(c).n = calls[c] /\ Cmd(c).by = c /\ Cmd(c)' = Cmd(c)
    BY <1>1 DEF Cmd
  <2>7. OnCurrent'
    BY <1>1, <1>2, <1>9, <2>2, <2>6 DEF ReplyInv, OnCurrent, Held
  <2>8. Owned'
    <3>1. \A m \in InFlight :
            /\ m \in abandoned' \/ (m.by \in Callers /\ pc'[m.by] = "wait" /\ m = Cmd(m.by)')
            /\ m.by \in Callers => /\ m.n <= calls'[m.by]
                                   /\ pc'[m.by] \notin {"idle", "wait"} => m.n < calls'[m.by]
      BY <1>1, <1>2, <1>9 DEF ReplyInv, Owned, Cmd
    <3>2. calls[c] \in Nat
      BY DEF ReplyInv, ReplyTypes
    <3> QED
      BY <1>1, <1>9, <2>2, <2>6, <3>1, <3>2 DEF Owned
  <2> QED
    BY <1>3, <1>5, <2>3, <2>5, <2>7, <2>8 DEF ReplyInv
<1> QED
  BY <1>8, <1>9 DEF WriteCommand, ConnInv, ConnTypes

\* The call ends without its reply, or takes the one that is there.
LEMMA ReplyEnds ==
    ASSUME ConnInv, ReplyInv, NEW c \in Callers, TakeReply(c) \/ GiveUp(c)
    PROVE  ReplyInv'
<1> USE DEF Goto, Return
<1>1. /\ pc[c] = "wait" /\ pc' = [pc EXCEPT ![c] = "idle"] /\ apiMu = c /\ apiMu' = None
      /\ UNCHANGED <<cur, inbox, asked, calls, mine>>
  BY DEF TakeReply, GiveUp, runVars, fsVars, ReplyInv, MuHeld, Held
<1>2. /\ pc'[c] = "idle" /\ \A d \in Callers \ {c} : pc'[d] = pc[d] /\ pc[d] \notin Held
  BY <1>1 DEF ConnInv, ConnTypes, ReplyInv, MuHeld
<1>3. MuHeld'
  BY <1>1, <1>2, NoneAssumption DEF MuHeld, Held
<1>4. UNCHANGED <<Sent, Elems(asked), Elems(inbox), Once(asked), Once(inbox)>>
  BY <1>1 DEF Sent, Elems, Once
<1>5. OnCurrent'
  BY <1>1, <1>2, <1>4 DEF ReplyInv, OnCurrent
<1>6. PendingOn'
  BY <1>2 DEF PendingOn, Held
<1>7. /\ abandoned \subseteq abandoned'
      /\ \A m \in InFlight' : m \in InFlight /\ (m = Cmd(c) => m \in abandoned')
  <2>1. CASE GiveUp(c)
    BY <1>4, <2>1 DEF GiveUp, InFlight, Elems
  <2>2. CASE TakeReply(c)
    <3>1. /\ pending # <<>> /\ pending' = <<>>
          /\ abandoned' = abandoned \union ({Cmd(c)} \ {Head(pending)})
      BY <2>2 DEF TakeReply
    <3>2. Head(pending) \in Elems(pending) /\ Elems(pending') = {}
      BY <3>1 DEF ReplyInv, ReplyTypes, Elems
    <3>3. InFlight' = Sent /\ Head(pending) \notin Sent
      BY <1>4, <3>2 DEF InFlight, ReplyInv, Apart
    <3> QED
      BY <3>1, <3>3 DEF InFlight
  <2> QED
    BY <2>1, <2>2
<1>8. ReplyTypes' /\ Apart'
  <2>1. DOMAIN got' = Callers /\ (UNCHANGED pending \/ pending' = <<>>) /\ Elems(<<>>) = {}
    BY DEF TakeReply, GiveUp, ReplyInv, ReplyTypes, Elems
  <2>2. Elems(pending)' \subseteq Elems(pending)
    BY <2>1 DEF Elems
  <2>3. ReplyTypes'
    BY <1>1, <1>4, <2>1 DEF ReplyInv, ReplyTypes
  <2> QED
    BY <1>4, <2>2, <2>3 DEF ReplyInv, Apart
<1>9. Owned'
  BY <1>1, <1>2, <1>7 DEF ReplyInv, Owned, Cmd, Held
<1>10. GotIdle' /\ \A d \in Callers \ {c} : got'[d] = got[d]
  BY <1>1, <1>2 DEF TakeReply, GiveUp, ReplyInv, ReplyTypes, GotIdle
<1>11. got'[c] # None => got'[c].on = mine[c] /\ (got'[c] = Cmd(c) \/ got'[c] \in abandoned)
  <2>1. CASE GiveUp(c)
    BY <1>1, <2>1 DEF GiveUp, ReplyInv, GotIdle
  <2>2. CASE TakeReply(c)
    <3>1. got'[c] = Head(pending) /\ Head(pending) \in Elems(pending)
      BY <2>2 DEF TakeReply, ReplyInv, ReplyTypes, Elems
    <3>2. Head(pending).on = mine[c]
      BY <1>1, <3>1 DEF ReplyInv, PendingOn
    <3>3. Head(pending) = Cmd(c) \/ Head(pending) \in abandoned
      BY <1>2, <3>1 DEF ReplyInv, Owned, InFlight, Held
    <3> QED
      BY <3>1, <3>2, <3>3
  <2> QED
    BY <2>1, <2>2
<1>12. RepliesStayOnConnection'
  BY <1>1, <1>7, <1>10, <1>11 DEF ReplyInv, RepliesStayOnConnection, Cmd
<1> QED
  BY <1>3, <1>5, <1>6, <1>8, <1>9, <1>10, <1>12 DEF ReplyInv

\* Every step keeps what is known of the replies.
LEMMA ReplyNext == ConnInv /\ ReplyInv /\ [Next]_vars => ReplyInv'
<1> SUFFICES ASSUME ConnInv, ReplyInv, [Next]_vars
             PROVE  ReplyInv'
  OBVIOUS
<1> USE DEF runVars, fsVars
<1>1. CASE RunStep \/ Handshake \/ HandshakeFails
  <2>1. CASE \/ RunStops \/ Register \/ ReadFails \/ Unready \/ Teardown \/ Retry
             \/ Handshake \/ HandshakeFails
    BY <2>1, ReplyUntouched DEF RunStops, Register, ReadFails, Unready, Teardown, Retry,
                                Handshake, HandshakeFails
  <2> QED
    BY <1>1, <2>1, ReplyDial, ReplyRead, ReplyEvents DEF RunStep
<1>2. ASSUME NEW c \in Callers, Call(c) \/ Lock(c) \/ ApiStep(c) \/ GiveUp(c)
      PROVE  ReplyInv'
  BY <1>2, ReplyCaller, ReplyWrite, ReplyEnds DEF ApiStep
<1>3. CASE Cancel \/ Close \/ ForwardEvent \/ Drop
  BY <1>3, ReplyUntouched DEF Cancel, Close, ForwardEvent, Drop
<1>4. CASE Answer \/ SendEvent
  BY <1>4, ReplyAnswer, ReplyEvents
<1>5. CASE UNCHANGED vars
  BY <1>5, ReplyUntouched DEF vars
<1> QED
  BY <1>1, <1>2, <1>3, <1>4, <1>5 DEF Next

\* A call returns its own reply, or that of an earlier call on the same connection whose
\* caller went without it (API and the read loop of connectAndServe).
THEOREM RepliesStay == Spec => []RepliesStayOnConnection
<1>1. ReplyInv => RepliesStayOnConnection
  BY DEF ReplyInv
<1>2. Init => ConnInv /\ ReplyInv
  BY ConnInit, ReplyInit
<1>3. (ConnInv /\ ReplyInv) /\ [Next]_vars => (ConnInv /\ ReplyInv)'
  BY ConnNext, ReplyNext
<1> QED
  BY <1>1, <1>2, <1>3, PTL DEF Spec
=============================================================================
