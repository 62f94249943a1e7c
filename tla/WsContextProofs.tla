--------------------------- MODULE WsContextProofs ---------------------------
(***************************************************************************)
(* Proofs about WsContext, for every set of senders and every size of the  *)
(* send queue.  Types and Lifecycle are the ground: a connection that is   *)
(* open has its events, and CLOSE waits only once it is closing.  On it    *)
(* stand Unprompted (who leaves the loop says so), FlagHasFlush and        *)
(* FrameHasFlush (the flag that suppresses requests for a flush, and the   *)
(* frames that rely on them), and InOrder (what is sent).  Each has a      *)
(* lemma that every step keeps it, with one step per action.               *)
(***************************************************************************)
EXTENDS WsContext, SequenceTheorems, TLAPS
LOCAL INSTANCE SequencesExt

-----------------------------------------------------------------------------
(* Sequences as sets.                                                      *)

\* What a sequence holds after one more element.
LEMMA AppendedSet ==
    ASSUME NEW S, NEW q \in Seq(S), NEW e \in S
    PROVE  Append(q, e) \in Seq(S) /\ ToSet(Append(q, e)) = ToSet(q) \union {e}
<1>1. /\ Append(q, e) \in Seq(S) /\ Len(q) \in Nat /\ Len(Append(q, e)) = Len(q) + 1
      /\ \A i \in 1..Len(q) : Append(q, e)[i] = q[i]
      /\ Append(q, e)[Len(q) + 1] = e
  BY AppendProperties
<1>2. DOMAIN q = 1..Len(q) /\ DOMAIN Append(q, e) = 1..(Len(q) + 1)
  BY <1>1
<1>3. \A i \in 1..(Len(q) + 1) : i \in 1..Len(q) \/ i = Len(q) + 1
  BY <1>1
<1>4. \A i \in 1..Len(q) : i \in 1..(Len(q) + 1)
  BY <1>1
<1>5. Len(q) + 1 \in 1..(Len(q) + 1)
  BY <1>1
<1> QED BY <1>1, <1>2, <1>3, <1>4, <1>5 DEF ToSet

\* The empty sequence holds nothing.
LEMMA EmptySet == ToSet(<<>>) = {}
BY DEF ToSet

\* A sequence holds its head and what its tail holds.
LEMMA HeadTailSet ==
    ASSUME NEW S, NEW q \in Seq(S), q # <<>>
    PROVE  /\ Tail(q) \in Seq(S) /\ Head(q) \in S
           /\ ToSet(q) = {Head(q)} \union ToSet(Tail(q))
<1>1. /\ Tail(q) \in Seq(S) /\ Len(Tail(q)) = Len(q) - 1 /\ Head(q) = q[1]
      /\ Len(q) \in Nat \ {0} /\ Head(q) \in S
      /\ \A i \in 1..(Len(q) - 1) : Tail(q)[i] = q[i + 1]
  BY HeadTailProperties, EmptySeq
<1>2. DOMAIN q = 1..Len(q) /\ DOMAIN Tail(q) = 1..(Len(q) - 1)
  BY <1>1
<1>3. /\ \A i \in 1..(Len(q) - 1) : i + 1 \in 1..Len(q)
      /\ \A i \in 1..Len(q) : i = 1 \/ (i - 1 \in 1..(Len(q) - 1) /\ (i - 1) + 1 = i)
      /\ 1 \in 1..Len(q)
  BY <1>1
<1>4. \A i \in 1..Len(q) : q[i] = Head(q) \/ \E j \in 1..(Len(q) - 1) : q[i] = Tail(q)[j]
  BY <1>1, <1>3
<1>5. \A j \in 1..(Len(q) - 1) : \E i \in 1..Len(q) : Tail(q)[j] = q[i]
  BY <1>1, <1>3
<1>6. \A x \in ToSet(q) : x = Head(q) \/ x \in ToSet(Tail(q))
  BY <1>2, <1>4 DEF ToSet
<1>7. \A x \in ToSet(Tail(q)) : x \in ToSet(q)
  BY <1>2, <1>5 DEF ToSet
<1>8. Head(q) \in ToSet(q)
  BY <1>1, <1>2, <1>3 DEF ToSet
<1> QED BY <1>1, <1>6, <1>7, <1>8

\* The places and the elements of two sequences put together.
LEMMA CatSet ==
    ASSUME NEW S, NEW p \in Seq(S), NEW q \in Seq(S)
    PROVE  /\ p \o q \in Seq(S) /\ Len(p) \in Nat /\ Len(q) \in Nat
           /\ Len(p \o q) = Len(p) + Len(q)
           /\ \A i \in 1..Len(p) : i \in 1..Len(p \o q) /\ (p \o q)[i] = p[i]
           /\ \A i \in 1..Len(q) : Len(p) + i \in 1..Len(p \o q) /\ (p \o q)[Len(p) + i] = q[i]
           /\ \A i \in 1..Len(p \o q) :
                i \in 1..Len(p) \/ (i - Len(p) \in 1..Len(q) /\ (p \o q)[i] = q[i - Len(p)])
           /\ ToSet(p \o q) = ToSet(p) \union ToSet(q)
<1> DEFINE c == p \o q
<1>1. /\ c \in Seq(S) /\ Len(c) = Len(p) + Len(q)
      /\ Len(p) \in Nat /\ Len(q) \in Nat
      /\ \A i \in 1..(Len(p) + Len(q)) : c[i] = IF i <= Len(p) THEN p[i] ELSE q[i - Len(p)]
  BY ConcatProperties
<1> HIDE DEF c
<1>2. \A i \in 1..Len(q) : ~(Len(p) + i <= Len(p)) /\ (Len(p) + i) - Len(p) = i
  BY <1>1
<1>3. /\ \A i \in 1..Len(p) : i \in 1..Len(c) /\ c[i] = p[i]
      /\ \A i \in 1..Len(q) : Len(p) + i \in 1..Len(c) /\ c[Len(p) + i] = q[i]
      /\ \A i \in 1..Len(c) : i \in 1..Len(p) \/ (i - Len(p) \in 1..Len(q) /\ c[i] = q[i - Len(p)])
  BY <1>1, <1>2
<1>4. DOMAIN p = 1..Len(p) /\ DOMAIN q = 1..Len(q) /\ DOMAIN c = 1..Len(c)
  BY <1>1
<1>5. ToSet(c) = ToSet(p) \union ToSet(q)
  <2>1. \A x \in ToSet(c) : x \in ToSet(p) \union ToSet(q)
    BY <1>3, <1>4 DEF ToSet
  <2>2. \A x \in ToSet(p) : x \in ToSet(c)
    BY <1>3, <1>4 DEF ToSet
  <2>3. \A x \in ToSet(q) : x \in ToSet(c)
    BY <1>3, <1>4 DEF ToSet
  <2> QED BY <2>1, <2>2, <2>3
<1> QED BY <1>1, <1>3, <1>5 DEF c

Events == {"send", "wake"}

\* event_active: the event is active afterwards, and those that were stay so.
LEMMA ActivatedSet ==
    ASSUME NEW a \in Seq(Events), NEW e \in Events
    PROVE  Activated(a, e) \in Seq(Events) /\ ToSet(Activated(a, e)) = ToSet(a) \union {e}
<1>1. CASE e \in ToSet(a)
  BY <1>1 DEF Activated
<1>2. CASE e \notin ToSet(a)
  BY <1>2, AppendedSet DEF Activated
<1> QED BY <1>1, <1>2

-----------------------------------------------------------------------------
(* Types.                                                                  *)

Places == {"start", "connecting", "published", "loop", "flushed", "ended", "failed"}
SenderPlaces == {"idle", "early", "queue", "exchange", "handle", "activate", "unset"}
StopPlaces == {"idle", "handle", "activate", "join", "returned"}
Data == Senders \X Nat
Item == Data \union {Close}
Sent == Item \union {Control}

Types ==
    /\ at \in Places /\ active \in Seq(Events) /\ handles \in {"none", "live", "gone"}
    /\ queue \in Seq(Item) /\ wire \in Seq(Sent)
    /\ pc \in [Senders -> SenderPlaces] /\ calls \in [Senders -> Nat] /\ stopper \in StopPlaces
    /\ exit \in BOOLEAN /\ pending \in BOOLEAN /\ stopRequested \in BOOLEAN
    /\ upgraded \in BOOLEAN /\ closeSent \in BOOLEAN /\ closeReceived \in BOOLEAN
    /\ told \in BOOLEAN /\ crash \in BOOLEAN

\* The types hold initially.
LEMMA TypesInit == Init => Types
<1> SUFFICES ASSUME Init
             PROVE  Types
  OBVIOUS
<1>1. <<>> \in Seq(Events) /\ <<>> \in Seq(Item) /\ <<>> \in Seq(Sent)
  BY EmptySeq
<1> QED BY <1>1 DEF Init, Types, Places, SenderPlaces, StopPlaces

\* What flushSendQueue puts on the wire.
LEMMA FlushIs ==
    ASSUME Types, NEW q \in Seq(Item), NEW st, FlushSendQueue(q, st)
    PROVE  /\ queue' = <<>> /\ wire' \in Seq(Sent) /\ closeSent' \in BOOLEAN
           /\ \E data, last \in Seq(Item) :
                /\ wire' = (wire \o data) \o last
                /\ data = IF st = "CONNECTED" THEN q ELSE <<>>
                /\ \/ last = <<>> /\ closeSent' = closeSent
                   \/ /\ last = <<Close>> /\ Close \in ToSet(q) /\ ~closeSent /\ closeSent'
<1> DEFINE data == IF st = "CONNECTED" THEN q ELSE <<>>
           close == Close \in ToSet(q) /\ ~closeSent /\ st \in {"CONNECTED", "DISCONNECTING"}
           last == IF close THEN <<Close>> ELSE <<>>
<1>1. <<>> \in Seq(Item) /\ <<Close>> \in Seq(Item)
  BY EmptySeq DEF Item
<1>2. data \in Seq(Item) /\ last \in Seq(Item)
  BY <1>1
<1>3. /\ queue' = <<>> /\ wire' = (wire \o data) \o last
      /\ closeSent' = (closeSent \/ close)
  BY DEF FlushSendQueue
<1>4. closeSent \in BOOLEAN /\ wire \in Seq(Sent)
  BY DEF Types
<1>5. closeSent' \in BOOLEAN
  BY <1>3
<1>6. data \in Seq(Sent) /\ last \in Seq(Sent)
  <2>1. Item \subseteq Sent
    BY DEF Sent
  <2> QED BY <1>2, <2>1, SeqMonotonic
<1>7. wire' \in Seq(Sent)
  <2> HIDE DEF data, last
  <2>1. wire \o data \in Seq(Sent)
    BY <1>4, <1>6, ConcatProperties
  <2> QED BY <2>1, <1>3, <1>6, ConcatProperties
<1>8. CASE close
  BY <1>2, <1>3, <1>5, <1>7, <1>8
<1>9. CASE ~close
  <2>1. last = <<>> /\ closeSent' = closeSent
    BY <1>3, <1>4, <1>9
  <2> QED BY <2>1, <1>2, <1>3, <1>5, <1>7
<1> QED BY <1>8, <1>9

\* Types hold of what each event of the loop does.
LEMMA TailTypes ==
    ASSUME Types, active # <<>>
    PROVE  /\ Tail(active) \in Seq(Events)
           /\ ToSet(active) = {Head(active)} \union ToSet(Tail(active))
BY HeadTailSet DEF Types

\* The move of one sender keeps the types and leaves the other senders where they are.
LEMMA GoTypes ==
    ASSUME Types, NEW s \in Senders, NEW a, NEW b \in SenderPlaces, Go(s, a, b)
    PROVE  /\ pc' \in [Senders -> SenderPlaces] /\ pc[s] = a /\ pc'[s] = b
           /\ \A t \in Senders \ {s} : pc'[t] = pc[t]
BY DEF Go, Types

\* Every step keeps the types.
LEMMA TypesKept ==
    ASSUME Types, Next
    PROVE  Types'
<1>1. Close \in Item /\ Control \in Sent /\ \A s \in Senders : Frame(s) \in Item
  BY DEF Item, Data, Sent, Frame, Types
<1>10. ASSUME NEW s \in Senders, Load(s)
       PROVE  Types'
  <2>1. PICK b \in {"early", "queue"} : Go(s, "idle", b)
    BY <1>10 DEF Load
  <2>2. pc' \in [Senders -> SenderPlaces]
    BY <2>1, GoTypes DEF SenderPlaces
  <2>3. calls' \in [Senders -> Nat]
    <3>1. calls' = [calls EXCEPT ![s] = @ + 1]
      BY <1>10, Zenon DEF Load
    <3> QED BY <3>1 DEF Types
  <2> QED BY <2>2, <2>3, <1>10 DEF Load, loop, closing, callers, history, Types
<1>11. ASSUME NEW s \in Senders, Enqueue(s)
       PROVE  Types'
  <2>1. queue' \in Seq(Item)
    <3>1. queue \in Seq(Item) /\ Frame(s) \in Item
      BY <1>1 DEF Types
    <3>2. queue' = queue \/ queue' = Append(queue, Frame(s))
      BY <1>11 DEF Enqueue
    <3> QED BY <3>1, <3>2, AppendProperties
  <2>2. \E a, b \in SenderPlaces : Go(s, a, b)
    BY <1>11 DEF Enqueue, SenderPlaces
  <2>3. pc' \in [Senders -> SenderPlaces]
    BY <2>2, GoTypes
  <2> QED BY <2>1, <2>3, <1>11 DEF Enqueue, loop, closing, callers, history, Types
<1>12. ASSUME NEW s \in Senders, Exchange(s)
       PROVE  Types'
  <2>1. \E a, b \in SenderPlaces : Go(s, a, b)
    BY <1>12 DEF Exchange, SenderPlaces
  <2>2. pc' \in [Senders -> SenderPlaces]
    BY <2>1, GoTypes
  <2> QED BY <2>2, <1>12 DEF Exchange, loop, closing, callers, history, Types
<1>13. ASSUME NEW s \in Senders, LoadHandle(s)
       PROVE  Types'
  BY <1>13, <1>1 DEF LoadHandle, Go, loop, closing, callers, history, Types, Places,
        SenderPlaces, StopPlaces
<1>14. ASSUME NEW s \in Senders, Unset(s)
       PROVE  Types'
  <2>1. \E a, b \in SenderPlaces : Go(s, a, b)
    BY <1>14 DEF Unset, SenderPlaces
  <2>2. pc' \in [Senders -> SenderPlaces]
    BY <2>1, GoTypes
  <2> QED BY <2>2, <1>14 DEF Unset, loop, closing, callers, history, Types
<1>15. ASSUME NEW s \in Senders, Activate(s)
       PROVE  Types'
  <2>1. \E a, b \in SenderPlaces : Go(s, a, b)
    BY <1>15 DEF Activate, SenderPlaces
  <2>2. pc' \in [Senders -> SenderPlaces]
    BY <2>1, GoTypes
  <2>3. active' \in Seq(Events)
    <3>1. Activated(active, "send") \in Seq(Events)
      BY ActivatedSet DEF Events, Types
    <3> QED BY <3>1, <1>15 DEF Activate, Types
  <2> QED BY <2>2, <2>3, <1>15 DEF Activate, loop, closing, callers, history, Types
<1>16. CASE RequestStop
  BY <1>16, <1>1 DEF RequestStop, StopGo, loop, closing, callers, history, Types, Places,
        SenderPlaces, StopPlaces
<1>17. CASE StopLoadHandle
  BY <1>17, <1>1 DEF StopLoadHandle, StopGo, loop, closing, callers, history, Types,
        Places, SenderPlaces, StopPlaces
<1>18. CASE StopActivate
  BY <1>18, <1>1, ActivatedSet, ZenonT(60)
     DEF StopActivate, StopGo, loop, closing, callers, history,
        Types, Places, SenderPlaces, StopPlaces, Events
<1>19. CASE Join
  BY <1>19, <1>1 DEF Join, StopGo, loop, closing, callers, history, Types, Places,
        SenderPlaces, StopPlaces
<1>20. CASE Connecting
  BY <1>20, <1>1 DEF Connecting, loop, closing, callers, history, Types, Places,
        SenderPlaces, StopPlaces
<1>21. CASE Publish
  BY <1>21, <1>1
     DEF Publish, loop, closing, callers, history, Types, Places, SenderPlaces, StopPlaces
<1>22. CASE Dispatch
  BY <1>22, <1>1
     DEF Dispatch, loop, closing, callers, history, Types, Places, SenderPlaces, StopPlaces
<1>23. CASE LeaveLoop
  BY <1>23, <1>1, EmptySeq DEF LeaveLoop, Freed, InLoop, loop, closing, callers, history,
        Types, Places, SenderPlaces, StopPlaces
<1>24. CASE MarkFlushed
  BY <1>24, <1>1 DEF MarkFlushed, loop, closing, callers, history, Types, Places,
        SenderPlaces, StopPlaces
<1>25. CASE StartFails
  BY <1>25, <1>1, EmptySeq, ZenonT(60)
     DEF StartFails, Freed, loop, closing, callers, history, Types,
        Places, SenderPlaces, StopPlaces
<1>26. CASE SendCallback
  <2>1. FlushSendQueue(queue, state) /\ active' = Tail(active) /\ active # <<>>
    BY <1>26 DEF SendCallback
  <2>2. queue' \in Seq(Item) /\ wire' \in Seq(Sent) /\ closeSent' \in BOOLEAN
    <3>1. queue \in Seq(Item)
      BY DEF Types
    <3> QED BY <2>1, <3>1, FlushIs, EmptySeq
  <2>3. active' \in Seq(Events)
    BY <2>1, TailTypes
  <2> QED BY <2>2, <2>3, <1>26
     DEF SendCallback, loop, closing, callers, history, Types, Places
<1>27. CASE WakeCallback
  <2>1. Tail(active) \in Seq(Events)
    BY <1>27, TailTypes DEF WakeCallback
  <2>2. Activated(Tail(active), "send") \in Seq(Events)
    BY <2>1, ActivatedSet DEF Events
  <2>3. Append(queue, Close) \in Seq(Item)
    BY <1>1, AppendProperties DEF Types
  <2> QED BY <2>1, <2>2, <2>3, <1>27
     DEF WakeCallback, QueueClose, LoopExit, RequestFlush, loop, closing,
             callers, history, Types
<1>28. CASE Ping
  <2>1. wire' \in Seq(Sent)
    BY <1>28, <1>1, AppendProperties DEF Ping, Types
  <2> QED BY <2>1, <1>28 DEF Ping, loop, closing, callers, history, Types
<1>29. CASE CloseTimer
  BY <1>29, <1>1, ZenonT(60)
     DEF CloseTimer, InLoop, LoopExit, loop, closing, callers, history, Types,
        Places, SenderPlaces, StopPlaces
<1>30. CASE Timeout
  BY <1>30, <1>1 DEF Timeout, InLoop, LoopExit, loop, closing, callers, history, Types,
        Places, SenderPlaces, StopPlaces
<1>31. CASE TcpConnects
  BY <1>31, <1>1 DEF TcpConnects, InLoop, loop, closing, callers, history, Types, Places,
        SenderPlaces, StopPlaces
<1>32. CASE Upgrade
  <2>1. queue' \in Seq(Item) /\ wire' \in Seq(Sent) /\ closeSent' \in BOOLEAN
    BY <1>32, FlushIs, EmptySeq, ZenonT(60) DEF Upgrade, Types
  <2> QED BY <2>1, <1>32 DEF Upgrade, loop, closing, callers, history, Types
<1>33. CASE Refusal
  BY <1>33, <1>1 DEF Refusal, InLoop, LoopExit, loop, closing, callers, history, Types,
        Places, SenderPlaces, StopPlaces
<1>34. CASE ReadPing
  <2>1. wire' \in Seq(Sent)
    BY <1>34, <1>1, AppendProperties DEF ReadPing, Types
  <2> QED BY <2>1, <1>34 DEF ReadPing, loop, closing, callers, history, Types
<1>35. CASE ReadClose
  <2>1. Append(queue, Close) \in Seq(Item) /\ queue \in Seq(Item)
    BY <1>1, AppendProperties DEF Types
  <2>2. queue' \in Seq(Item) /\ wire' \in Seq(Sent) /\ closeSent' \in BOOLEAN
    BY <2>1, <1>35, FlushIs, EmptySeq DEF ReadClose
  <2>3. Activated(active, "send") \in Seq(Events)
    BY ActivatedSet DEF Events, Types
  <2> QED BY <2>2, <2>3, <1>35
     DEF ReadClose, LoopExit, RequestFlush, loop, closing, callers, history, Types
<1>36. CASE ProtocolError
  <2>1. Append(queue, Close) \in Seq(Item)
    BY <1>1, AppendProperties DEF Types
  <2>2. \A a \in Seq(Events) : Activated(a, "send") \in Seq(Events)
    BY ActivatedSet DEF Events
  <2>3. Activated(active, "wake") \in Seq(Events) /\ active \in Seq(Events)
    BY ActivatedSet DEF Events, Types
  <2> QED BY <2>1, <2>2, <2>3, <1>36
     DEF ProtocolError, LoopExit, RequestFlush, loop, closing, callers,
             history, Types
<1>37. CASE Error
  BY <1>37, <1>1, EmptySeq DEF Error, InLoop, LoopExit, loop, closing, callers, history,
        Types, Places, SenderPlaces, StopPlaces
<1>38. CASE Eof
  BY <1>38, <1>1, EmptySeq DEF Eof, InLoop, LoopExit, loop, closing, callers, history,
        Types, Places, SenderPlaces, StopPlaces
<1> QED
  BY <1>10, <1>11, <1>12, <1>13, <1>14, <1>15, <1>16, <1>17, <1>18, <1>19, <1>20, <1>21,
        <1>22, <1>23, <1>24, <1>25, <1>26, <1>27, <1>28, <1>29, <1>30, <1>31, <1>32, <1>33,
        <1>34, <1>35, <1>36, <1>37, <1>38
     DEF Next, Send, Stop, Run, Callback, Receive

\* Every state is well typed: queues hold frames of senders and CLOSE, the wire those
\* and control frames, and each thread is at one of its places.
THEOREM WsTypes == Spec => []Types
<1>1. Types /\ [Next]_vars => Types'
  <2> SUFFICES ASSUME Types, [Next]_vars
               PROVE  Types'
    OBVIOUS
  <2>1. CASE Next
    BY <2>1, TypesKept
  <2>2. CASE UNCHANGED vars
    BY <2>2 DEF vars, loop, closing, callers, history, Types
  <2> QED BY <2>1, <2>2
<1> QED BY <1>1, TypesInit, PTL DEF Spec

-----------------------------------------------------------------------------
(* The life of a connection.                                               *)

CloseWaits == Close \in ToSet(queue)

\* CLOSE waits only when the connection is closing, and was sent only then.
CloseWaitsInClosing == closeSent \/ CloseWaits => upgraded /\ state \in Closing

Lifecycle ==
    /\ at \in {"published", "loop", "flushed"} => handles = "live"
    /\ upgraded => at \in {"loop", "flushed", "ended"}
    /\ state = "CONNECTED" => upgraded
    /\ CloseWaitsInClosing

\* A data frame, CLOSE and a control frame are three different things.
LEMMA Kinds ==
    /\ \A f \in Data : IsData(f) /\ f # Close /\ f # Control
    /\ ~IsData(Close) /\ ~IsData(Control) /\ Close # Control
    /\ \A s \in Senders : Types => Frame(s) \in Data /\ Frame(s) = <<s, calls[s]>>
<1>1. \A f \in Data : Len(f) = 2
  BY DEF Data
<1>2. Len(Close) = 1 /\ Len(Control) = 1
  BY DEF Close, Control
<1>3. Close # Control
  BY DEF Close, Control
<1>4. \A s \in Senders : Types => Frame(s) \in Data /\ Frame(s) = <<s, calls[s]>>
  BY DEF Data, Frame, Types
<1> QED BY <1>1, <1>2, <1>3, <1>4 DEF IsData

\* What each step adds to the queue.
LEMMA QueueGrows ==
    ASSUME Types
    PROVE  /\ \A s \in Senders : ToSet(Append(queue, Frame(s))) = ToSet(queue) \union {Frame(s)}
           /\ ToSet(Append(queue, Close)) = ToSet(queue) \union {Close}
<1>1. /\ Close \in Item /\ \A s \in Senders : Frame(s) \in Item
      /\ queue \in Seq(Item)
  BY DEF Item, Data, Frame, Types
<1> QED BY <1>1, AppendedSet

\* The life of a connection begins as it should.
LEMMA LifecycleInit == Init => Lifecycle
BY EmptySet DEF Init, Lifecycle, CloseWaitsInClosing, CloseWaits

\* Every step keeps the life of a connection.
LEMMA LifecycleKept ==
    ASSUME Types, Lifecycle, Next
    PROVE  Lifecycle'
<1>1. /\ at \in Places /\ upgraded \in BOOLEAN /\ closeSent \in BOOLEAN
      /\ \A s \in Senders : Frame(s) # Close
  BY Kinds DEF Types
<1>10. ASSUME NEW s \in Senders, Load(s)
       PROVE  Lifecycle'
  BY <1>10, <1>1 DEF Load, Go, loop, closing, callers, history, Lifecycle,
        CloseWaitsInClosing, CloseWaits, Closing
<1>11. ASSUME NEW s \in Senders, Enqueue(s)
       PROVE  Lifecycle'
  <2>1. queue' = queue \/ queue' = Append(queue, Frame(s))
    BY <1>11 DEF Enqueue
  <2>2. ToSet(queue') = ToSet(queue) \/ ToSet(queue') = ToSet(queue) \union {Frame(s)}
    BY <2>1, QueueGrows
  <2>3. CloseWaits' <=> CloseWaits
    BY <2>2, <1>1 DEF CloseWaits
  <2> QED BY <2>3, <1>11 DEF Enqueue, loop, closing, Lifecycle, CloseWaitsInClosing
<1>12. ASSUME NEW s \in Senders, Exchange(s)
       PROVE  Lifecycle'
  BY <1>12, <1>1 DEF Exchange, Go, FlushIsPast, loop, closing, callers, history, Lifecycle,
        CloseWaitsInClosing, CloseWaits, Closing
<1>13. ASSUME NEW s \in Senders, LoadHandle(s)
       PROVE  Lifecycle'
  BY <1>13, <1>1 DEF LoadHandle, Go, loop, closing, callers, history, Lifecycle,
        CloseWaitsInClosing, CloseWaits, Closing
<1>14. ASSUME NEW s \in Senders, Unset(s)
       PROVE  Lifecycle'
  BY <1>14, <1>1 DEF Unset, Go, loop, closing, callers, history, Lifecycle,
        CloseWaitsInClosing, CloseWaits, Closing
<1>15. ASSUME NEW s \in Senders, Activate(s)
       PROVE  Lifecycle'
  BY <1>15, <1>1 DEF Activate, Go, loop, closing, callers, history, Lifecycle,
        CloseWaitsInClosing, CloseWaits, Closing
<1>16. CASE RequestStop
  BY <1>16, <1>1 DEF RequestStop, StopGo, loop, closing, callers, history, Lifecycle,
        CloseWaitsInClosing, CloseWaits, Closing
<1>17. CASE StopLoadHandle
  BY <1>17, <1>1 DEF StopLoadHandle, StopGo, loop, closing, callers, history, Lifecycle,
        CloseWaitsInClosing, CloseWaits, Closing
<1>18. CASE StopActivate
  BY <1>18, <1>1 DEF StopActivate, StopGo, loop, closing, callers, history, Lifecycle,
        CloseWaitsInClosing, CloseWaits, Closing
<1>19. CASE Join
  BY <1>19, <1>1 DEF Join, StopGo, loop, closing, callers, history, Lifecycle,
        CloseWaitsInClosing, CloseWaits, Closing
<1>20. CASE Connecting
  BY <1>20, <1>1 DEF Connecting, loop, closing, callers, history, Lifecycle,
        CloseWaitsInClosing, CloseWaits, Closing
<1>21. CASE Publish
  BY <1>21, <1>1 DEF Publish, loop, closing, callers, history, Lifecycle,
        CloseWaitsInClosing, CloseWaits, Closing
<1>22. CASE Dispatch
  BY <1>22, <1>1 DEF Dispatch, loop, closing, callers, history, Lifecycle,
        CloseWaitsInClosing, CloseWaits, Closing
<1>23. CASE LeaveLoop
  BY <1>23, <1>1 DEF LeaveLoop, Freed, InLoop, loop, closing, callers, history, Lifecycle,
        CloseWaitsInClosing, CloseWaits, Closing
<1>24. CASE MarkFlushed
  BY <1>24, <1>1 DEF MarkFlushed, loop, closing, callers, history, Lifecycle,
        CloseWaitsInClosing, CloseWaits, Closing
<1>25. CASE StartFails
  BY <1>25, <1>1 DEF StartFails, Freed, loop, closing, callers, history, Lifecycle,
        CloseWaitsInClosing, CloseWaits, Closing
<1>26. CASE SendCallback
  <2>1. ~CloseWaits' /\ (closeSent' => closeSent \/ CloseWaits)
    BY <1>26, FlushIs, EmptySet DEF SendCallback, CloseWaits, Types
  <2> QED BY <2>1, <1>26 DEF SendCallback, InLoop, Lifecycle, CloseWaitsInClosing
<1>27. CASE WakeCallback
  <2>1. CASE upgraded /\ state = "CONNECTED" /\ QueueClose(Tail(active))
    BY <2>1, <1>27 DEF WakeCallback, InLoop, QueueClose, closing, Lifecycle,
          CloseWaitsInClosing, Closing
  <2>2. CASE ~(upgraded /\ state = "CONNECTED") \/ state \in Closing
    BY <2>2, <1>27 DEF WakeCallback, InLoop, closing, Lifecycle, CloseWaitsInClosing,
          CloseWaits, Closing
  <2> QED BY <2>1, <2>2, <1>27 DEF WakeCallback
<1>28. CASE Ping
  BY <1>28, <1>1 DEF Ping, InLoop, loop, closing, callers, history, Lifecycle,
        CloseWaitsInClosing, CloseWaits, Closing
<1>29. CASE CloseTimer
  BY <1>29, <1>1 DEF CloseTimer, InLoop, LoopExit, loop, closing, callers, history,
        Lifecycle, CloseWaitsInClosing, CloseWaits, Closing
<1>30. CASE Timeout
  BY <1>30, <1>1 DEF Timeout, InLoop, LoopExit, loop, closing, callers, history, Lifecycle,
        CloseWaitsInClosing, CloseWaits, Closing
<1>31. CASE TcpConnects
  BY <1>31, <1>1 DEF TcpConnects, InLoop, loop, closing, callers, history, Lifecycle,
        CloseWaitsInClosing, CloseWaits, Closing
<1>32. CASE Upgrade
  <2>1. ~CloseWaits' /\ (closeSent' => closeSent \/ CloseWaits)
    BY <1>32, FlushIs, EmptySet DEF Upgrade, CloseWaits, Types
  <2> QED BY <2>1, <1>32 DEF Upgrade, InLoop, loop, Lifecycle, CloseWaitsInClosing
<1>33. CASE Refusal
  BY <1>33, <1>1 DEF Refusal, InLoop, LoopExit, loop, closing, callers, history, Lifecycle,
        CloseWaitsInClosing, CloseWaits, Closing
<1>34. CASE ReadPing
  BY <1>34, <1>1 DEF ReadPing, Reads, InLoop, Terminating, loop, closing, callers, history,
        Lifecycle, CloseWaitsInClosing, CloseWaits, Closing
<1>35. CASE ReadClose
  <2>1. upgraded' /\ state' \in Closing /\ at' = at /\ handles' = handles /\ upgraded' = upgraded
    BY <1>35 DEF ReadClose, Reads, Closing
  <2> QED BY <2>1, <1>35 DEF Lifecycle, CloseWaitsInClosing, Closing
<1>36. CASE ProtocolError
  <2>1. upgraded' /\ state' \in Closing /\ at' = at /\ handles' = handles /\ upgraded' = upgraded
    BY <1>36 DEF ProtocolError, Reads, Closing
  <2> QED BY <2>1, <1>36 DEF Lifecycle, CloseWaitsInClosing, Closing
<1>37. CASE Error
  BY <1>37, <1>1, EmptySet DEF Error, InLoop, LoopExit, loop, closing, callers, history,
        Lifecycle, CloseWaitsInClosing, CloseWaits, Closing, Places
<1>38. CASE Eof
  BY <1>38, <1>1, EmptySet DEF Eof, InLoop, LoopExit, loop, closing, callers, history,
        Lifecycle, CloseWaitsInClosing, CloseWaits, Closing, Places
<1> QED
  BY <1>10, <1>11, <1>12, <1>13, <1>14, <1>15, <1>16, <1>17, <1>18, <1>19, <1>20, <1>21,
        <1>22, <1>23, <1>24, <1>25, <1>26, <1>27, <1>28, <1>29, <1>30, <1>31, <1>32, <1>33,
        <1>34, <1>35, <1>36, <1>37, <1>38
     DEF Next, Send, Stop, Run, Callback, Receive

-----------------------------------------------------------------------------
(* The end of a connection is reported.                                    *)

\* Until the application stops the connection or hears of its end, nothing ends it.
Unprompted ==
    /\ at = "ended" => exit
    /\ stopper = "idle" /\ ~told =>
        /\ ~stopRequested /\ ~exit /\ "wake" \notin ToSet(active)
        /\ at \notin {"start", "failed"} => state \notin Closing

\* Nobody has left the loop initially.
LEMMA UnpromptedInit == Init => Unprompted
BY EmptySet DEF Init, Unprompted

\* Whatever ends the connection was asked for or is reported.
LEMMA UnpromptedKept ==
    ASSUME Types, Lifecycle, Unprompted, Next
    PROVE  Unprompted'
<1>1. /\ at \in Places /\ upgraded \in BOOLEAN /\ told \in BOOLEAN /\ exit \in BOOLEAN
      /\ stopRequested \in BOOLEAN /\ stopper \in StopPlaces
  BY DEF Types
<1>2. \A a \in Seq(Events), e \in Events : ToSet(Activated(a, e)) = ToSet(a) \union {e}
  BY ActivatedSet
<1>10. ASSUME NEW s \in Senders, Load(s)
       PROVE  Unprompted'
  BY <1>10, <1>1 DEF Load, Go, loop, closing, callers, history, Unprompted, Closing,
        Lifecycle, CloseWaitsInClosing
<1>11. ASSUME NEW s \in Senders, Enqueue(s)
       PROVE  Unprompted'
  BY <1>11, <1>1 DEF Enqueue, Go, Frame, loop, closing, callers, history, Unprompted,
        Closing, Lifecycle, CloseWaitsInClosing
<1>12. ASSUME NEW s \in Senders, Exchange(s)
       PROVE  Unprompted'
  BY <1>12, <1>1 DEF Exchange, Go, FlushIsPast, loop, closing, callers, history,
        Unprompted, Closing, Lifecycle, CloseWaitsInClosing
<1>13. ASSUME NEW s \in Senders, LoadHandle(s)
       PROVE  Unprompted'
  BY <1>13, <1>1 DEF LoadHandle, Go, loop, closing, callers, history, Unprompted, Closing,
        Lifecycle, CloseWaitsInClosing
<1>14. ASSUME NEW s \in Senders, Unset(s)
       PROVE  Unprompted'
  BY <1>14, <1>1 DEF Unset, Go, loop, closing, callers, history, Unprompted, Closing,
        Lifecycle, CloseWaitsInClosing
<1>15. ASSUME NEW s \in Senders, Activate(s)
       PROVE  Unprompted'
  <2>1. active' = active \/ active' = Activated(active, "send")
    BY <1>15 DEF Activate
  <2>2. active \in Seq(Events) /\ "send" \in Events
    BY DEF Types, Events
  <2>3. "wake" \in ToSet(active') <=> "wake" \in ToSet(active)
    BY <2>1, <2>2, <1>2
  <2> QED BY <2>3, <1>15 DEF Activate, closing, history, Unprompted
<1>16. CASE RequestStop
  BY <1>16, <1>1 DEF RequestStop, StopGo, loop, closing, callers, history, Unprompted,
        Closing, Lifecycle, CloseWaitsInClosing
<1>17. CASE StopLoadHandle
  BY <1>17, <1>1 DEF StopLoadHandle, StopGo, loop, closing, callers, history, Unprompted,
        Closing, Lifecycle, CloseWaitsInClosing
<1>18. CASE StopActivate
  <2>1. stopper' = "join" /\ at' = at /\ exit' = exit
    BY <1>18 DEF StopActivate, StopGo
  <2> QED BY <2>1 DEF Unprompted
<1>19. CASE Join
  BY <1>19, <1>1 DEF Join, StopGo, loop, closing, callers, history, Unprompted, Closing,
        Lifecycle, CloseWaitsInClosing
<1>20. CASE Connecting
  BY <1>20, <1>1 DEF Connecting, loop, closing, callers, history, Unprompted, Closing,
        Lifecycle, CloseWaitsInClosing
<1>21. CASE Publish
  BY <1>21, <1>1 DEF Publish, loop, closing, callers, history, Unprompted, Closing,
        Lifecycle, CloseWaitsInClosing
<1>22. CASE Dispatch
  BY <1>22, <1>1 DEF Dispatch, loop, closing, callers, history, Unprompted, Closing,
        Lifecycle, CloseWaitsInClosing
<1>23. CASE LeaveLoop
  BY <1>23, <1>1, EmptySet DEF LeaveLoop, Freed, InLoop, loop, closing, callers, history,
        Unprompted, Closing, Lifecycle, CloseWaitsInClosing
<1>24. CASE MarkFlushed
  BY <1>24, <1>1 DEF MarkFlushed, loop, closing, callers, history, Unprompted, Closing,
        Lifecycle, CloseWaitsInClosing
<1>25. CASE StartFails
  BY <1>25, <1>1, EmptySet DEF StartFails, Freed, loop, closing, callers, history,
        Unprompted, Closing, Lifecycle, CloseWaitsInClosing
<1>26. CASE SendCallback
  <2>1. "wake" \in ToSet(active') => "wake" \in ToSet(active)
    BY <1>26, TailTypes DEF SendCallback
  <2> QED BY <2>1, <1>26 DEF SendCallback, InLoop, callers, Unprompted
<1>27. CASE WakeCallback
  <2>1. "wake" \in ToSet(active)
    BY <1>27, TailTypes DEF WakeCallback
  <2>2. at' = "loop" /\ told' = told /\ stopper' = stopper
    BY <1>27 DEF WakeCallback, InLoop, callers
  <2> QED BY <2>1, <2>2 DEF Unprompted
<1>28. CASE Ping
  BY <1>28, <1>1 DEF Ping, InLoop, loop, closing, callers, history, Unprompted, Closing,
        Lifecycle, CloseWaitsInClosing
<1>29. CASE CloseTimer
  BY <1>29, <1>1 DEF CloseTimer, InLoop, LoopExit, loop, closing, callers, history,
        Unprompted, Closing, Lifecycle, CloseWaitsInClosing
<1>30. CASE Timeout
  BY <1>30, <1>1 DEF Timeout, InLoop, LoopExit, loop, closing, callers, history,
        Unprompted, Closing, Lifecycle, CloseWaitsInClosing
<1>31. CASE TcpConnects
  BY <1>31, <1>1 DEF TcpConnects, InLoop, loop, closing, callers, history, Unprompted,
        Closing, Lifecycle, CloseWaitsInClosing
<1>32. CASE Upgrade
  BY <1>32, <1>1 DEF Upgrade, InLoop, loop, closing, callers, history, Unprompted, Closing,
        Lifecycle, CloseWaitsInClosing
<1>33. CASE Refusal
  BY <1>33, <1>1 DEF Refusal, InLoop, LoopExit, loop, closing, callers, history,
        Unprompted, Closing, Lifecycle, CloseWaitsInClosing
<1>34. CASE ReadPing
  BY <1>34, <1>1 DEF ReadPing, Reads, InLoop, Terminating, loop, closing, callers, history,
        Unprompted, Closing, Lifecycle, CloseWaitsInClosing
<1>35. CASE ReadClose
  <2>1. told' /\ at' = "loop"
    BY <1>35 DEF ReadClose, Reads, InLoop
  <2> QED BY <2>1 DEF Unprompted
<1>36. CASE ProtocolError
  <2>1. told' /\ at' = "loop"
    BY <1>36 DEF ProtocolError, Reads, InLoop
  <2> QED BY <2>1 DEF Unprompted
<1>37. CASE Error
  BY <1>37, <1>1 DEF Error, InLoop, LoopExit, loop, closing, callers, history, Unprompted,
        Closing, Lifecycle, CloseWaitsInClosing
<1>38. CASE Eof
  BY <1>38, <1>1 DEF Eof, InLoop, LoopExit, loop, closing, callers, history, Unprompted,
        Closing, Lifecycle, CloseWaitsInClosing
<1> QED
  BY <1>10, <1>11, <1>12, <1>13, <1>14, <1>15, <1>16, <1>17, <1>18, <1>19, <1>20, <1>21,
        <1>22, <1>23, <1>24, <1>25, <1>26, <1>27, <1>28, <1>29, <1>30, <1>31, <1>32, <1>33,
        <1>34, <1>35, <1>36, <1>37, <1>38
     DEF Next, Send, Stop, Run, Callback, Receive

WsSafety == Types /\ Lifecycle /\ Unprompted

\* When the event loop has ended and the application never asked to stop, on_error or
\* on_close was called.
THEOREM EndsAreReported == Spec => []EndIsReported
<1>1. Init => WsSafety
  BY TypesInit, LifecycleInit, UnpromptedInit DEF WsSafety
<1>2. WsSafety /\ [Next]_vars => WsSafety'
  <2> SUFFICES ASSUME WsSafety, [Next]_vars
               PROVE  WsSafety'
    OBVIOUS
  <2>1. CASE Next
    BY <2>1, TypesKept, LifecycleKept, UnpromptedKept DEF WsSafety
  <2>2. CASE UNCHANGED vars
    BY <2>2 DEF vars, loop, closing, callers, history, WsSafety, Types, Lifecycle,
                CloseWaitsInClosing, CloseWaits, Unprompted
  <2> QED BY <2>1, <2>2
<1>3. WsSafety => EndIsReported
  BY DEF WsSafety, Unprompted, EndIsReported
<1> QED BY <1>1, <1>2, <1>3, PTL DEF Spec

-----------------------------------------------------------------------------
(* What waits is flushed.                                                  *)

Going == ~Over /\ ~crash

\* A flush is active, or a sender is about to activate one.
Underway ==
    \/ "send" \in ToSet(active)
    \/ \E s \in Senders : pc[s] \in {"handle", "activate"}

\* The flag that suppresses requests is set only while a flush is under way, or one has
\* passed whose thread has yet to reset the flag.
FlagHasFlush == Going /\ pending /\ ~FlushIsPast => Underway

\* On an open connection, so is each frame that is not late: or its own sender is about
\* to ask.
FrameHasFlush ==
    Going /\ state = "CONNECTED" => \A f \in ToSet(queue) \ late :
        Underway \/ \E s \in Senders : pc[s] = "exchange" /\ f = Frame(s)

\* What the move of one sender means for the flush that is under way.
LEMMA GoMeans ==
    ASSUME Types, NEW s \in Senders, NEW a, NEW b, Go(s, a, b)
    PROVE  /\ pc[s] = a /\ pc'[s] = b /\ \A t \in Senders \ {s} : pc'[t] = pc[t]
           /\ active' = active /\ Underway /\ a \notin {"handle", "activate"} => Underway'
           /\ b \in {"handle", "activate"} => Underway'
           /\ at' = at /\ a # "unset" /\ FlushIsPast => FlushIsPast'
           /\ at' = at /\ b # "unset" /\ FlushIsPast' => FlushIsPast
           /\ b = "unset" => FlushIsPast'
<1>1. pc[s] = a /\ pc'[s] = b /\ \A t \in Senders \ {s} : pc'[t] = pc[t]
  BY DEF Go, Types
<1>2. ASSUME active' = active, Underway, a \notin {"handle", "activate"}
      PROVE  Underway'
  BY <1>1, <1>2 DEF Underway
<1>3. b \in {"handle", "activate"} => Underway'
  BY <1>1 DEF Underway
<1>4. ASSUME at' = at, a # "unset", FlushIsPast
      PROVE  FlushIsPast'
  BY <1>1, <1>4 DEF FlushIsPast
<1>5. ASSUME at' = at, b # "unset", FlushIsPast'
      PROVE  FlushIsPast
  BY <1>1, <1>5 DEF FlushIsPast
<1>6. b = "unset" => FlushIsPast'
  BY <1>1 DEF FlushIsPast
<1> QED BY <1>1, <1>2, <1>3, <1>4, <1>5, <1>6

\* Initially nothing waits and the flag is not set.
LEMMA FlushInit == Init => FlagHasFlush /\ FrameHasFlush
BY EmptySet DEF Init, FlagHasFlush, FrameHasFlush

\* What the steps of the event thread do to the events that are active.
LEMMA ActiveAfter ==
    ASSUME Types
    PROVE  /\ ToSet(Activated(active, "send")) = ToSet(active) \union {"send"}
           /\ ToSet(Activated(active, "wake")) = ToSet(active) \union {"wake"}
           /\ \A a \in Seq(Events) : "send" \in ToSet(Activated(a, "send"))
           /\ Activated(active, "wake") \in Seq(Events)
           /\ active # <<>> => /\ Tail(active) \in Seq(Events)
                               /\ ToSet(active) = {Head(active)} \union ToSet(Tail(active))
<1>1. active \in Seq(Events) /\ "send" \in Events /\ "wake" \in Events
  BY DEF Types, Events
<1>2. /\ ToSet(Activated(active, "send")) = ToSet(active) \union {"send"}
      /\ ToSet(Activated(active, "wake")) = ToSet(active) \union {"wake"}
      /\ Activated(active, "wake") \in Seq(Events)
  BY <1>1, ActivatedSet
<1>3. \A a \in Seq(Events) : "send" \in ToSet(Activated(a, "send"))
  BY <1>1, ActivatedSet
<1> QED BY <1>2, <1>3, TailTypes

\* Whoever leaves the flag set leaves a flush under way.
LEMMA FlagHasFlushKept ==
    ASSUME Types, FlagHasFlush, Next
    PROVE  FlagHasFlush'
<1>1. /\ at \in Places /\ pending \in BOOLEAN /\ crash \in BOOLEAN
  BY DEF Types
<1>10. ASSUME NEW s \in Senders, Load(s)
       PROVE  FlagHasFlush'
  <2>1. active' = active /\ at' = at /\ pending' = pending /\ crash' = crash
    BY <1>10 DEF Load, loop, history
  <2>2. \E a, b \in SenderPlaces \ {"handle", "activate", "unset"} : Go(s, a, b)
    BY <1>10 DEF Load, SenderPlaces
  <2> QED BY <2>1, <2>2, GoMeans DEF FlagHasFlush, Going, Over
<1>11. ASSUME NEW s \in Senders, Enqueue(s)
       PROVE  FlagHasFlush'
  <2>1. active' = active /\ at' = at /\ pending' = pending /\ crash' = crash
    BY <1>11 DEF Enqueue, loop, history
  <2>2. \E a, b \in SenderPlaces \ {"handle", "activate", "unset"} : Go(s, a, b)
    BY <1>11 DEF Enqueue, SenderPlaces
  <2> QED BY <2>1, <2>2, GoMeans DEF FlagHasFlush, Going, Over
<1>12. ASSUME NEW s \in Senders, Exchange(s)
       PROVE  FlagHasFlush'
  <2>1. active' = active /\ at' = at /\ crash' = crash
    BY <1>12 DEF Exchange, loop
  <2>2. CASE pending /\ Go(s, "exchange", "idle")
    BY <2>1, <2>2, GoMeans DEF FlagHasFlush, Going, Over
  <2>3. CASE Go(s, "exchange", "handle")
    BY <2>3, GoMeans DEF FlagHasFlush
  <2> QED BY <2>2, <2>3, <1>12 DEF Exchange
<1>13. ASSUME NEW s \in Senders, LoadHandle(s)
       PROVE  FlagHasFlush'
  <2>1. Underway' \/ FlushIsPast'
    BY <1>13, GoMeans DEF LoadHandle
  <2> QED BY <2>1 DEF FlagHasFlush
<1>14. ASSUME NEW s \in Senders, Unset(s)
       PROVE  FlagHasFlush'
  <2>1. ~pending'
    BY <1>14 DEF Unset
  <2> QED BY <2>1 DEF FlagHasFlush
<1>15. ASSUME NEW s \in Senders, Activate(s)
       PROVE  FlagHasFlush'
  <2>1. crash' \/ "send" \in ToSet(active')
    BY <1>15, ActiveAfter DEF Activate
  <2> QED BY <2>1 DEF FlagHasFlush, Underway, Going
<1>16. CASE RequestStop
  BY <1>16, <1>1 DEF RequestStop, StopGo, loop, closing, callers, history, FlagHasFlush,
        Going, Over, FlushIsPast, Underway
<1>17. CASE StopLoadHandle
  BY <1>17, <1>1 DEF StopLoadHandle, StopGo, loop, closing, callers, history, FlagHasFlush,
        Going, Over, FlushIsPast, Underway
<1>18. CASE StopActivate
  <2>1. ToSet(active) \subseteq ToSet(active')
    BY <1>18, ActiveAfter DEF StopActivate
  <2>2. crash' \/ crash' = crash
    BY <1>18 DEF StopActivate
  <2> QED BY <2>1, <2>2, <1>18
     DEF StopActivate, FlagHasFlush, Underway, Going, Over, FlushIsPast
<1>19. CASE Join
  BY <1>19, <1>1 DEF Join, StopGo, loop, closing, callers, history, FlagHasFlush, Going,
        Over, FlushIsPast, Underway
<1>20. CASE Connecting
  BY <1>20, <1>1 DEF Connecting, loop, closing, callers, history, FlagHasFlush, Going,
        Over, FlushIsPast, Underway
<1>21. CASE Publish
  BY <1>21, <1>1 DEF Publish, loop, closing, callers, history, FlagHasFlush, Going, Over,
        FlushIsPast, Underway
<1>22. CASE Dispatch
  BY <1>22, <1>1 DEF Dispatch, loop, closing, callers, history, FlagHasFlush, Going, Over,
        FlushIsPast, Underway
<1>23. CASE LeaveLoop
  BY <1>23, <1>1 DEF LeaveLoop, Freed, InLoop, loop, closing, callers, history,
        FlagHasFlush, Going, Over, FlushIsPast, Underway
<1>24. CASE MarkFlushed
  BY <1>24, <1>1 DEF MarkFlushed, loop, closing, callers, history, FlagHasFlush, Going,
        Over, FlushIsPast, Underway
<1>25. CASE StartFails
  BY <1>25, <1>1 DEF StartFails, Freed, loop, closing, callers, history, FlagHasFlush,
        Going, Over, FlushIsPast, Underway
<1>26. CASE SendCallback
  <2>1. at' = "flushed"
    BY <1>26 DEF SendCallback
  <2> QED BY <2>1 DEF FlagHasFlush, FlushIsPast
<1>27. CASE WakeCallback
  <2>1. /\ at = "loop" /\ at' = at /\ pc' = pc /\ crash' = crash
        /\ ToSet(active) = {"wake"} \union ToSet(Tail(active)) /\ Tail(active) \in Seq(Events)
    BY <1>27, ActiveAfter DEF WakeCallback, InLoop, callers
  <2>2. CASE active' = Tail(active) /\ pending' = pending
    BY <2>1, <2>2 DEF FlagHasFlush, Underway, Going, Over, FlushIsPast
  <2>3. CASE pending' /\ active' = IF pending THEN Tail(active) ELSE Activated(Tail(active), "send")
    <3>1. CASE pending
      BY <2>1, <2>3, <3>1 DEF FlagHasFlush, Underway, Going, Over, FlushIsPast
    <3>2. CASE ~pending
      BY <2>1, <2>3, <3>2, ActiveAfter DEF FlagHasFlush, Underway
    <3> QED BY <3>1, <3>2
  <2> QED BY <2>2, <2>3, <1>27 DEF WakeCallback, QueueClose, RequestFlush
<1>28. CASE Ping
  BY <1>28, <1>1 DEF Ping, InLoop, loop, closing, callers, history, FlagHasFlush, Going,
        Over, FlushIsPast, Underway
<1>29. CASE CloseTimer
  BY <1>29, <1>1 DEF CloseTimer, InLoop, LoopExit, loop, closing, callers, history,
        FlagHasFlush, Going, Over, FlushIsPast, Underway
<1>30. CASE Timeout
  BY <1>30, <1>1 DEF Timeout, InLoop, LoopExit, loop, closing, callers, history,
        FlagHasFlush, Going, Over, FlushIsPast, Underway
<1>31. CASE TcpConnects
  BY <1>31, <1>1 DEF TcpConnects, InLoop, loop, closing, callers, history, FlagHasFlush,
        Going, Over, FlushIsPast, Underway
<1>32. CASE Upgrade
  BY <1>32, <1>1 DEF Upgrade, InLoop, loop, closing, callers, history, FlagHasFlush, Going,
        Over, FlushIsPast, Underway
<1>33. CASE Refusal
  BY <1>33, <1>1 DEF Refusal, InLoop, LoopExit, loop, closing, callers, history,
        FlagHasFlush, Going, Over, FlushIsPast, Underway
<1>34. CASE ReadPing
  BY <1>34, <1>1 DEF ReadPing, Reads, InLoop, Terminating, loop, closing, callers, history,
        FlagHasFlush, Going, Over, FlushIsPast, Underway
<1>35. CASE ReadClose
  <2>1. at' = at /\ pc' = pc /\ crash' = crash
    BY <1>35 DEF ReadClose, callers, history
  <2>2. CASE UNCHANGED <<active, pending>>
    BY <2>1, <2>2 DEF FlagHasFlush, Underway, Going, Over, FlushIsPast
  <2>3. CASE RequestFlush(active)
    BY <2>1, <2>3, ActiveAfter
       DEF RequestFlush, FlagHasFlush, Underway, Going, Over, FlushIsPast
  <2> QED BY <2>2, <2>3, <1>35 DEF ReadClose
<1>36. CASE ProtocolError
  <2>1. at' = at /\ pc' = pc /\ crash' = crash
    BY <1>36 DEF ProtocolError, callers
  <2>2. PICK stops \in BOOLEAN :
            RequestFlush(IF stops THEN Activated(active, "wake") ELSE active)
    BY <1>36 DEF ProtocolError
  <2> DEFINE a == IF stops THEN Activated(active, "wake") ELSE active
  <2>3. a \in Seq(Events) /\ ToSet(active) \subseteq ToSet(a)
    BY ActiveAfter DEF Types
  <2>4. pending' /\ active' = IF pending THEN a ELSE Activated(a, "send")
    BY <2>2 DEF RequestFlush
  <2> HIDE DEF a
  <2>5. "send" \in ToSet(active') \/ (pending /\ ToSet(active) \subseteq ToSet(active'))
    BY <2>3, <2>4, ActiveAfter
  <2> QED BY <2>1, <2>5 DEF FlagHasFlush, Underway, Going, Over, FlushIsPast
<1>37. CASE Error
  BY <1>37, <1>1 DEF Error, InLoop, LoopExit, loop, closing, callers, history,
        FlagHasFlush, Going, Over, FlushIsPast, Underway
<1>38. CASE Eof
  BY <1>38, <1>1 DEF Eof, InLoop, LoopExit, loop, closing, callers, history, FlagHasFlush,
        Going, Over, FlushIsPast, Underway
<1> QED
  BY <1>10, <1>11, <1>12, <1>13, <1>14, <1>15, <1>16, <1>17, <1>18, <1>19, <1>20, <1>21,
        <1>22, <1>23, <1>24, <1>25, <1>26, <1>27, <1>28, <1>29, <1>30, <1>31, <1>32, <1>33,
        <1>34, <1>35, <1>36, <1>37, <1>38
     DEF Next, Send, Stop, Run, Callback, Receive

\* No frame is queued on an open connection without a flush that will take it.
LEMMA FrameHasFlushKept ==
    ASSUME Types, Lifecycle, FlagHasFlush, FrameHasFlush, Next
    PROVE  FrameHasFlush'
<1>1. /\ at \in Places /\ pending \in BOOLEAN /\ crash \in BOOLEAN
  BY DEF Types
<1>10. ASSUME NEW s \in Senders, Load(s)
       PROVE  FrameHasFlush'
  <2>1. /\ active' = active /\ at' = at /\ crash' = crash /\ state' = state
        /\ queue' = queue /\ late' = late /\ calls' = [calls EXCEPT ![s] = @ + 1]
    BY <1>10, Zenon DEF Load, loop, history
  <2>2. \E b \in {"early", "queue"} : Go(s, "idle", b)
    BY <1>10 DEF Load
  <2>3. pc[s] = "idle" /\ pc'[s] \in {"early", "queue"} /\ \A t \in Senders \ {s} : pc'[t] = pc[t]
    BY <2>2, GoMeans
  <2>4. Underway => Underway'
    BY <2>1, <2>2, GoMeans
  <2>5. \A t \in Senders \ {s} : Frame(t)' = Frame(t)
    BY <2>1 DEF Frame, Types
  <2> QED BY <2>1, <2>3, <2>4, <2>5 DEF FrameHasFlush, Going, Over
<1>11. ASSUME NEW s \in Senders, Enqueue(s)
       PROVE  FrameHasFlush'
  <2>1. /\ active' = active /\ at' = at /\ crash' = crash /\ state' = state /\ calls' = calls
    BY <1>11 DEF Enqueue, loop
  <2>2. \A t \in Senders : Frame(t)' = Frame(t)
    BY <2>1 DEF Frame
  <2>3. \E a \in {"early", "queue"}, b \in {"idle", "exchange"} : Go(s, a, b)
    BY <1>11 DEF Enqueue
  <2>4. /\ Underway => Underway'
        /\ \A t \in Senders : pc[t] = "exchange" => pc'[t] = "exchange"
    BY <2>1, <2>3, GoMeans
  <2>5. CASE UNCHANGED <<queue, late>>
    BY <2>1, <2>2, <2>4, <2>5 DEF FrameHasFlush, Going, Over
  <2>6. CASE queue' = Append(queue, Frame(s))
    <3>1. ToSet(queue') = ToSet(queue) \union {Frame(s)}
      BY <2>6, QueueGrows
    <3>2. CASE Go(s, "early", "idle") /\ late' = (IF state = "CONNECTING" THEN late ELSE late \union {Frame(s)})
      BY <3>1, <3>2, <2>1, <2>2, <2>4 DEF FrameHasFlush, Going, Over
    <3>3. CASE Go(s, "queue", "exchange") /\ late' = late
      <4>1. pc'[s] = "exchange"
        BY <3>3, GoMeans
      <4> QED BY <4>1, <3>1, <3>3, <2>1, <2>2, <2>4 DEF FrameHasFlush, Going, Over
    <3> QED BY <3>2, <3>3, <2>6, <1>11 DEF Enqueue
  <2> QED BY <2>5, <2>6, <1>11 DEF Enqueue
<1>12. ASSUME NEW s \in Senders, Exchange(s)
       PROVE  FrameHasFlush'
  <2>1. /\ active' = active /\ at' = at /\ crash' = crash /\ state' = state /\ calls' = calls
        /\ queue' = queue
    BY <1>12 DEF Exchange, loop
  <2>2. \A t \in Senders : Frame(t)' = Frame(t)
    BY <2>1 DEF Frame
  <2>3. CASE Go(s, "exchange", "handle")
    BY <2>3, GoMeans DEF FrameHasFlush
  <2>4. CASE /\ pending /\ Go(s, "exchange", "idle")
             /\ late' = IF FlushIsPast THEN late \union {Frame(s)} ELSE late
    <3>1. /\ Underway => Underway'
          /\ \A t \in Senders \ {s} : pc[t] = "exchange" => pc'[t] = "exchange"
      BY <2>1, <2>4, GoMeans
    <3>2. CASE FlushIsPast
      BY <3>1, <3>2, <2>1, <2>2, <2>4 DEF FrameHasFlush, Going, Over
    <3>3. CASE ~FlushIsPast
      <4>1. Going => Underway'
        BY <3>1, <3>3, <2>4 DEF FlagHasFlush
      <4> QED BY <4>1, <2>1 DEF FrameHasFlush, Going, Over
    <3> QED BY <3>2, <3>3
  <2> QED BY <2>3, <2>4, <1>12 DEF Exchange
<1>13. ASSUME NEW s \in Senders, LoadHandle(s)
       PROVE  FrameHasFlush'
  <2>1. at' = at /\ crash' = crash /\ state' = state
    BY <1>13 DEF LoadHandle, loop, history
  <2>2. Going /\ state = "CONNECTED" => handles = "live"
    BY DEF Lifecycle, Going, Over
  <2>3. handles = "live" => Underway'
    BY <1>13, GoMeans DEF LoadHandle
  <2> QED BY <2>1, <2>2, <2>3 DEF FrameHasFlush, Going, Over
<1>14. ASSUME NEW s \in Senders, Unset(s)
       PROVE  FrameHasFlush'
  <2>1. /\ active' = active /\ at' = at /\ crash' = crash /\ state' = state /\ calls' = calls
        /\ queue' = queue /\ late' = late
    BY <1>14 DEF Unset, loop, history
  <2>2. \A t \in Senders : Frame(t)' = Frame(t)
    BY <2>1 DEF Frame
  <2>3. /\ Underway => Underway'
        /\ \A t \in Senders : pc[t] = "exchange" => pc'[t] = "exchange"
    BY <1>14, <2>1, GoMeans DEF Unset
  <2> QED BY <2>1, <2>2, <2>3 DEF FrameHasFlush, Going, Over
<1>15. ASSUME NEW s \in Senders, Activate(s)
       PROVE  FrameHasFlush'
  <2>1. crash' \/ "send" \in ToSet(active')
    BY <1>15, ActiveAfter DEF Activate
  <2> QED BY <2>1 DEF FrameHasFlush, Underway, Going
<1>16. CASE RequestStop
  BY <1>16, <1>1 DEF RequestStop, StopGo, loop, closing, callers, history, FrameHasFlush,
        Going, Over, Underway, Frame
<1>17. CASE StopLoadHandle
  BY <1>17, <1>1 DEF StopLoadHandle, StopGo, loop, closing, callers, history,
        FrameHasFlush, Going, Over, Underway, Frame
<1>18. CASE StopActivate
  <2>1. ToSet(active) \subseteq ToSet(active')
    BY <1>18, ActiveAfter DEF StopActivate
  <2>2. crash' \/ crash' = crash
    BY <1>18 DEF StopActivate
  <2> QED BY <2>1, <2>2, <1>18 DEF StopActivate, FrameHasFlush, Underway, Going, Over, Frame
<1>19. CASE Join
  BY <1>19, <1>1 DEF Join, StopGo, loop, closing, callers, history, FrameHasFlush, Going,
        Over, Underway, Frame
<1>20. CASE Connecting
  BY <1>20, <1>1 DEF Connecting, loop, closing, callers, history, FrameHasFlush, Going,
        Over, Underway, Frame
<1>21. CASE Publish
  BY <1>21, <1>1 DEF Publish, loop, closing, callers, history, FrameHasFlush, Going, Over,
        Underway, Frame
<1>22. CASE Dispatch
  BY <1>22, <1>1 DEF Dispatch, loop, closing, callers, history, FrameHasFlush, Going, Over,
        Underway, Frame
<1>23. CASE LeaveLoop
  BY <1>23, <1>1 DEF LeaveLoop, Freed, InLoop, loop, closing, callers, history,
        FrameHasFlush, Going, Over, Underway, Frame
<1>24. CASE MarkFlushed
  BY <1>24, <1>1 DEF MarkFlushed, loop, closing, callers, history, FrameHasFlush, Going,
        Over, Underway, Frame
<1>25. CASE StartFails
  BY <1>25, <1>1 DEF StartFails, Freed, loop, closing, callers, history, FrameHasFlush,
        Going, Over, Underway, Frame
<1>26. CASE SendCallback
  <2>1. queue' = <<>>
    BY <1>26 DEF SendCallback, FlushSendQueue
  <2> QED BY <2>1, EmptySet DEF FrameHasFlush
<1>27. CASE WakeCallback
  <2>1. state' # "CONNECTED"
    BY <1>27 DEF WakeCallback, QueueClose, Closing
  <2> QED BY <2>1 DEF FrameHasFlush
<1>28. CASE Ping
  BY <1>28, <1>1 DEF Ping, InLoop, loop, closing, callers, history, FrameHasFlush, Going,
        Over, Underway, Frame
<1>29. CASE CloseTimer
  BY <1>29, <1>1 DEF CloseTimer, InLoop, LoopExit, loop, closing, callers, history,
        FrameHasFlush, Going, Over, Underway, Frame
<1>30. CASE Timeout
  BY <1>30, <1>1 DEF Timeout, InLoop, LoopExit, loop, closing, callers, history,
        FrameHasFlush, Going, Over, Underway, Frame
<1>31. CASE TcpConnects
  BY <1>31, <1>1 DEF TcpConnects, InLoop, loop, closing, callers, history, FrameHasFlush,
        Going, Over, Underway, Frame
<1>32. CASE Upgrade
  <2>1. queue' = <<>>
    BY <1>32 DEF Upgrade, FlushSendQueue
  <2> QED BY <2>1, EmptySet DEF FrameHasFlush
<1>33. CASE Refusal
  BY <1>33, <1>1 DEF Refusal, InLoop, LoopExit, loop, closing, callers, history,
        FrameHasFlush, Going, Over, Underway, Frame
<1>34. CASE ReadPing
  BY <1>34, <1>1 DEF ReadPing, Reads, InLoop, Terminating, loop, closing, callers, history,
        FrameHasFlush, Going, Over, Underway, Frame
<1>35. CASE ReadClose
  <2>1. state' # "CONNECTED"
    BY <1>35 DEF ReadClose
  <2> QED BY <2>1 DEF FrameHasFlush
<1>36. CASE ProtocolError
  <2>1. state' # "CONNECTED"
    BY <1>36 DEF ProtocolError
  <2> QED BY <2>1 DEF FrameHasFlush
<1>37. CASE Error
  <2>1. /\ state' # "CONNECTED" \/ (state' = state /\ queue' = queue)
        /\ at' = at /\ active' = active /\ pc' = pc /\ calls' = calls /\ late' = late /\ crash' = crash
    BY <1>37 DEF Error, callers, history
  <2>2. \A t \in Senders : Frame(t)' = Frame(t)
    BY <2>1 DEF Frame
  <2> QED BY <2>1, <2>2 DEF FrameHasFlush, Going, Over, Underway
<1>38. CASE Eof
  <2>1. /\ state' # "CONNECTED" \/ (state' = state /\ queue' = queue) \/ queue' = <<>>
        /\ at' = at /\ active' = active /\ pc' = pc /\ calls' = calls /\ late' = late /\ crash' = crash
    BY <1>38 DEF Eof, callers, history
  <2>2. \A t \in Senders : Frame(t)' = Frame(t)
    BY <2>1 DEF Frame
  <2> QED BY <2>1, <2>2, EmptySet DEF FrameHasFlush, Going, Over, Underway
<1> QED
  BY <1>10, <1>11, <1>12, <1>13, <1>14, <1>15, <1>16, <1>17, <1>18, <1>19, <1>20, <1>21,
        <1>22, <1>23, <1>24, <1>25, <1>26, <1>27, <1>28, <1>29, <1>30, <1>31, <1>32, <1>33,
        <1>34, <1>35, <1>36, <1>37, <1>38
     DEF Next, Send, Stop, Run, Callback, Receive


WaitingSafety == WsSafety /\ FlagHasFlush /\ FrameHasFlush

\* On an open connection a frame that waits has a flush on its way: the flag that
\* suppresses requests is never left set.
THEOREM FlushesAreOnTheirWay == Spec => []WaitingHasFlush
<1>1. Init => WaitingSafety
  BY TypesInit, LifecycleInit, UnpromptedInit, FlushInit DEF WaitingSafety, WsSafety
<1>2. WaitingSafety /\ [Next]_vars => WaitingSafety'
  <2> SUFFICES ASSUME WaitingSafety, [Next]_vars
               PROVE  WaitingSafety'
    OBVIOUS
  <2>1. CASE Next
    <3>1. WsSafety'
      BY <2>1, TypesKept, LifecycleKept, UnpromptedKept DEF WaitingSafety, WsSafety
    <3>2. FlagHasFlush' /\ FrameHasFlush'
      BY <2>1, FlagHasFlushKept, FrameHasFlushKept DEF WaitingSafety, WsSafety
    <3> QED BY <3>1, <3>2 DEF WaitingSafety
  <2>2. CASE UNCHANGED vars
    <3>1. WsSafety'
      BY <2>2 DEF vars, loop, closing, callers, history, WaitingSafety, WsSafety, Types,
                  Lifecycle, CloseWaitsInClosing, CloseWaits, Unprompted
    <3>2. FlagHasFlush' /\ FrameHasFlush'
      BY <2>2 DEF vars, loop, callers, history, WaitingSafety, FlagHasFlush,
                  FrameHasFlush, Going, Over, Underway, FlushIsPast, Frame
    <3> QED BY <3>1, <3>2 DEF WaitingSafety
  <2> QED BY <2>1, <2>2
<1>3. WaitingSafety => WaitingHasFlush
  <2> SUFFICES ASSUME WaitingSafety, state = "CONNECTED", at = "loop", ~crash,
                      NEW i \in DOMAIN queue, queue[i] \notin late
               PROVE  \/ "send" \in ToSet(active)
                      \/ \E s \in Senders : pc[s] \in {"exchange", "handle", "activate"}
    BY DEF WaitingHasFlush
  <2>1. queue[i] \in ToSet(queue) \ late
    BY DEF ToSet
  <2>2. Going /\ FrameHasFlush
    BY DEF WaitingSafety, Going, Over
  <2> QED BY <2>1, <2>2 DEF FrameHasFlush, Underway
<1> QED BY <1>1, <1>2, <1>3, PTL DEF Spec

-----------------------------------------------------------------------------
(* What goes out is what was accepted, in order.                           *)

\* The frames of each sender are in the order of its calls, and none is there twice.
InCalls(q) == \A i, j \in 1..Len(q) :
    i < j /\ IsData(q[i]) /\ IsData(q[j]) /\ q[i][1] = q[j][1] => q[i][2] < q[j][2]

\* Each sender's frames in A come from earlier calls than those in B.
Earlier(A, B) ==
    \A f \in A, g \in B : IsData(f) /\ IsData(g) /\ f[1] = g[1] => f[2] < g[2]

\* A frame is accepted, and its call is not one that has yet to queue it.
Named(f) ==
    IsData(f) =>
        /\ f \in accepted /\ f[2] <= calls[f[1]]
        /\ pc[f[1]] \in {"early", "queue"} => f[2] < calls[f[1]]

Ordered ==
    /\ InCalls(wire) /\ InCalls(queue) /\ Earlier(ToSet(wire), ToSet(queue))
    /\ \A f \in ToSet(wire) \union ToSet(queue) : Named(f)

\* Nothing follows CLOSE.
CloseIsLast ==
    /\ Close \in ToSet(wire) => closeSent
    /\ \A i \in 1..Len(wire) : wire[i] = Close => i = Len(wire)

\* Order survives when what comes later is put behind, or one frame is.
LEMMA CatInCalls ==
    ASSUME NEW p \in Seq(Sent), NEW q \in Seq(Sent),
           InCalls(p), InCalls(q), Earlier(ToSet(p), ToSet(q))
    PROVE  InCalls(p \o q)
<1> DEFINE c == p \o q
<1>1. /\ Len(p) \in Nat /\ Len(q) \in Nat /\ Len(c) = Len(p) + Len(q)
      /\ \A i \in 1..Len(p) : c[i] = p[i]
      /\ \A i \in 1..Len(c) :
            i \in 1..Len(p) \/ (i - Len(p) \in 1..Len(q) /\ c[i] = q[i - Len(p)])
  BY CatSet
<1>2. /\ \A i \in 1..Len(p) : p[i] \in ToSet(p)
      /\ \A i \in 1..Len(q) : q[i] \in ToSet(q)
  BY DEF ToSet
<1> HIDE DEF c
<1> SUFFICES ASSUME NEW i \in 1..Len(c), NEW j \in 1..Len(c), i < j,
                    IsData(c[i]), IsData(c[j]), c[i][1] = c[j][1]
             PROVE  c[i][2] < c[j][2]
  BY DEF InCalls, c
<1>3. CASE i \in 1..Len(p) /\ j \in 1..Len(p)
  BY <1>1, <1>3 DEF InCalls
<1>4. CASE i \in 1..Len(p) /\ j \notin 1..Len(p)
  <2>1. c[i] = p[i] /\ j - Len(p) \in 1..Len(q) /\ c[j] = q[j - Len(p)]
    BY <1>1, <1>4
  <2>2. c[i] \in ToSet(p) /\ c[j] \in ToSet(q)
    BY <2>1, <1>2, <1>4
  <2> QED BY <2>2 DEF Earlier
<1>5. CASE i \notin 1..Len(p)
  <2>1. j \notin 1..Len(p)
    BY <1>1, <1>5
  <2>2. /\ i - Len(p) \in 1..Len(q) /\ c[i] = q[i - Len(p)]
        /\ j - Len(p) \in 1..Len(q) /\ c[j] = q[j - Len(p)]
    BY <2>1, <1>1, <1>5
  <2>3. i - Len(p) < j - Len(p)
    BY <1>1
  <2> QED BY <2>2, <2>3 DEF InCalls
<1> QED BY <1>3, <1>4, <1>5

\* A frame of a later call may be put behind.
LEMMA AppendInCalls ==
    ASSUME NEW q \in Seq(Sent), NEW e \in Sent, InCalls(q), Earlier(ToSet(q), {e})
    PROVE  InCalls(Append(q, e))
<1> DEFINE c == Append(q, e)
<1>1. /\ Len(q) \in Nat /\ Len(c) = Len(q) + 1 /\ c[Len(q) + 1] = e
      /\ \A i \in 1..Len(q) : c[i] = q[i]
  BY AppendProperties
<1>2. \A i \in 1..Len(q) : q[i] \in ToSet(q)
  BY DEF ToSet
<1> HIDE DEF c
<1> SUFFICES ASSUME NEW i \in 1..Len(c), NEW j \in 1..Len(c), i < j,
                    IsData(c[i]), IsData(c[j]), c[i][1] = c[j][1]
             PROVE  c[i][2] < c[j][2]
  BY DEF InCalls, c
<1>3. i \in 1..Len(q) /\ c[i] = q[i] /\ c[i] \in ToSet(q)
  BY <1>1, <1>2
<1>4. CASE j \in 1..Len(q)
  BY <1>1, <1>3, <1>4 DEF InCalls
<1>5. CASE j \notin 1..Len(q)
  <2>1. j = Len(q) + 1
    BY <1>1, <1>5
  <2> QED BY <2>1, <1>1, <1>3 DEF Earlier
<1> QED BY <1>4, <1>5

\* A queue is a sequence of what can be sent.
LEMMA ItemsAreSent == \A q \in Seq(Item) : q \in Seq(Sent)
<1>1. Item \subseteq Sent
  BY DEF Sent
<1> QED BY <1>1, SeqMonotonic

\* A control frame of libwsc's own, sent while nothing was closed, comes after the data.
LEMMA ControlKeepsOrder ==
    ASSUME Types, Ordered, CloseIsLast, ~closeSent, wire' = Append(wire, Control),
           UNCHANGED <<queue, accepted, calls, pc, closeSent>>
    PROVE  Ordered' /\ CloseIsLast'
<1>1. wire \in Seq(Sent) /\ Control \in Sent /\ ~IsData(Control) /\ Close # Control
  BY Kinds DEF Types, Sent
<1>2. ToSet(wire') = ToSet(wire) \union {Control}
  BY <1>1, AppendedSet
<1>3. InCalls(wire')
  BY <1>1, AppendInCalls DEF Ordered, Earlier
<1>4. Earlier(ToSet(wire'), ToSet(queue)) /\ InCalls(queue)
  BY <1>1, <1>2 DEF Ordered, Earlier
<1>5. \A f \in ToSet(wire') \union ToSet(queue) : Named(f)'
  BY <1>1, <1>2 DEF Ordered, Named
<1>6. Close \notin ToSet(wire')
  BY <1>1, <1>2 DEF CloseIsLast
<1>7. \A i \in 1..Len(wire') : wire'[i] # Close
  BY <1>6 DEF ToSet
<1> QED BY <1>3, <1>4, <1>5, <1>6, <1>7 DEF Ordered, CloseIsLast

\* flushSendQueue keeps the order, and puts CLOSE last. It sends data only where CLOSE
\* has not been queued.
LEMMA FlushKeepsOrder ==
    ASSUME Types, NEW q \in Seq(Item), NEW st, FlushSendQueue(q, st),
           InCalls(wire), InCalls(q), Earlier(ToSet(wire), ToSet(q)),
           \A f \in ToSet(wire) \union ToSet(q) : Named(f),
           CloseIsLast, st = "CONNECTED" => ~closeSent /\ Close \notin ToSet(q),
           UNCHANGED <<accepted, calls, pc>>
    PROVE  Ordered' /\ CloseIsLast'
<1>1. PICK data, last \in Seq(Item) :
            /\ wire' = (wire \o data) \o last
            /\ data = IF st = "CONNECTED" THEN q ELSE <<>>
            /\ \/ last = <<>> /\ closeSent' = closeSent
               \/ last = <<Close>> /\ Close \in ToSet(q) /\ ~closeSent /\ closeSent'
  BY FlushIs
<1>2. queue' = <<>>
  BY FlushIs
<1>3. /\ ~IsData(Close) /\ wire \in Seq(Sent) /\ Close \in Sent
      /\ data \in Seq(Sent) /\ last \in Seq(Sent)
  BY Kinds, ItemsAreSent DEF Types, Sent, Item
<1>4. CASE st = "CONNECTED"
  <2>1. data = q /\ last = <<>> /\ closeSent' = closeSent
    BY <1>1, <1>4
  <2>2. wire' = wire \o q /\ wire \o q \in Seq(Sent)
    BY <1>1, <1>3, <2>1, CatSet
  <2>3. ToSet(wire') = ToSet(wire) \union ToSet(q)
    BY <2>1, <2>2, <1>3, CatSet
  <2>4. InCalls(wire')
    BY <2>1, <2>2, <1>3, CatInCalls
  <2>5. Close \notin ToSet(wire')
    BY <2>3, <1>4 DEF CloseIsLast
  <2>6. \A i \in 1..Len(wire') : wire'[i] # Close
    BY <2>5 DEF ToSet
  <2>7. \A f \in ToSet(wire') : Named(f)'
    BY <2>3 DEF Named
  <2> QED BY <2>4, <2>5, <2>6, <2>7, <1>2, EmptySet
     DEF Ordered, CloseIsLast, InCalls, Earlier
<1>5. CASE st # "CONNECTED"
  <2>1. wire \o data = wire
    BY <1>1, <1>3, <1>5
  <2>2. CASE last = <<>> /\ closeSent' = closeSent
    <3>1. wire' = wire
      BY <1>1, <1>3, <2>1, <2>2
    <3>2. \A f \in ToSet(wire') : Named(f)'
      BY <3>1 DEF Named
    <3> QED BY <3>1, <3>2, <2>2, <1>2, EmptySet DEF Ordered, CloseIsLast, InCalls, Earlier
  <2>3. CASE last = <<Close>> /\ ~closeSent /\ closeSent'
    <3>1. wire' = wire \o <<Close>>
      BY <1>1, <2>1, <2>3
    <3>2. wire' = Append(wire, Close)
      BY <3>1, <1>3
    <3>3. ToSet(wire') = ToSet(wire) \union {Close}
      BY <3>2, <1>3, AppendedSet
    <3>4. InCalls(wire')
      BY <3>2, <1>3, AppendInCalls DEF Earlier
    <3>5. \A f \in ToSet(wire') : Named(f)'
      BY <3>3, <1>3 DEF Named
    <3>6. /\ Len(wire) \in Nat /\ Len(wire') = Len(wire) + 1
          /\ \A i \in 1..Len(wire) : wire'[i] = wire[i] /\ wire[i] \in ToSet(wire)
      BY <3>2, <1>3, AppendProperties DEF ToSet
    <3>7. \A i \in 1..Len(wire') : wire'[i] = Close => i = Len(wire')
      BY <3>6, <2>3 DEF CloseIsLast
    <3> QED BY <3>4, <3>5, <3>7, <2>3, <1>2, EmptySet
       DEF Ordered, CloseIsLast, InCalls, Earlier
  <2> QED BY <1>1, <2>2, <2>3
<1> QED BY <1>4, <1>5

\* A CLOSE that is queued keeps the order.
LEMMA CloseKeepsOrder ==
    ASSUME Types, Ordered
    PROVE  /\ Append(queue, Close) \in Seq(Item)
           /\ InCalls(Append(queue, Close))
           /\ Earlier(ToSet(wire), ToSet(Append(queue, Close)))
           /\ \A f \in ToSet(wire) \union ToSet(Append(queue, Close)) : Named(f)
<1>1. queue \in Seq(Item) /\ queue \in Seq(Sent) /\ Close \in Item /\ Close \in Sent
      /\ ~IsData(Close)
  BY Kinds, ItemsAreSent DEF Types, Sent, Item
<1>2. /\ ToSet(Append(queue, Close)) = ToSet(queue) \union {Close}
      /\ Append(queue, Close) \in Seq(Item)
  BY <1>1, AppendedSet
<1>3. InCalls(Append(queue, Close))
  BY <1>1, AppendInCalls DEF Ordered, Earlier
<1>4. Earlier(ToSet(wire), ToSet(Append(queue, Close)))
  BY <1>1, <1>2 DEF Ordered, Earlier
<1>5. \A f \in ToSet(wire) \union ToSet(Append(queue, Close)) : Named(f)
  BY <1>1, <1>2 DEF Ordered, Named
<1> QED BY <1>2, <1>3, <1>4, <1>5

\* A queue that is left alone or emptied, with everything else a frame's order rests on.
LEMMA QuietKeepsOrder ==
    ASSUME Ordered, CloseIsLast, UNCHANGED <<wire, closeSent, accepted, pc, calls>>,
           queue' = queue \/ queue' = <<>>
    PROVE  Ordered' /\ CloseIsLast'
<1>1. CASE queue' = queue
  BY <1>1 DEF Ordered, CloseIsLast, Named
<1>2. CASE queue' = <<>>
  <2>1. \A f \in ToSet(wire) : Named(f)'
    BY DEF Ordered, Named
  <2> QED BY <1>2, <2>1, EmptySet DEF Ordered, CloseIsLast, InCalls, Earlier
<1> QED BY <1>1, <1>2

\* A sender that moves, but neither calls nor has just queued.
LEMMA GoKeepsOrder ==
    ASSUME Types, Ordered, CloseIsLast, UNCHANGED <<wire, queue, closeSent, accepted,
    calls>>,
           NEW s \in Senders, NEW a, NEW b \in SenderPlaces \ {"early", "queue"}, Go(s, a, b)
    PROVE  Ordered' /\ CloseIsLast'
<1>1. \A t \in Senders : pc'[t] = pc[t] \/ pc'[t] \notin {"early", "queue"}
  BY GoMeans
<1>2. \A f \in ToSet(wire) \union ToSet(queue) : IsData(f) => f[1] \in Senders
  <2>1. \A f \in Sent : IsData(f) => f[1] \in Senders
    BY Kinds DEF Sent, Item, Data
  <2>2. ToSet(wire) \subseteq Sent /\ ToSet(queue) \subseteq Sent
    BY DEF Types, ToSet, Sent
  <2> QED BY <2>1, <2>2
<1>3. \A f \in ToSet(wire) \union ToSet(queue) : Named(f)'
  BY <1>1, <1>2 DEF Ordered, Named
<1> QED BY <1>3 DEF Ordered, CloseIsLast

\* A data frame names a sender and a number.
LEMMA FramesHaveSenders ==
    ASSUME Types
    PROVE  \A f \in ToSet(wire) \union ToSet(queue) :
                IsData(f) => f[1] \in Senders /\ f[2] \in Nat
<1>1. \A f \in Sent : IsData(f) => f[1] \in Senders /\ f[2] \in Nat
  BY Kinds DEF Sent, Item, Data
<1>2. ToSet(wire) \subseteq Sent /\ ToSet(queue) \subseteq Sent
  BY DEF Types, ToSet, Sent
<1> QED BY <1>1, <1>2

InOrder == Ordered /\ CloseIsLast

\* Nothing was sent initially.
LEMMA InOrderInit == Init => InOrder
BY EmptySet DEF Init, InOrder, Ordered, CloseIsLast, InCalls, Earlier

\* Every step keeps the order of what is sent.
LEMMA InOrderKept ==
    ASSUME Types, Lifecycle, InOrder, Next
    PROVE  InOrder'
<1>10. ASSUME NEW s \in Senders, Load(s)
       PROVE  InOrder'
  <2>1. UNCHANGED <<wire, queue, closeSent, accepted>> /\ calls' = [calls EXCEPT ![s] = @ + 1]
    BY <1>10, Zenon DEF Load, closing, history
  <2>2. \E b \in {"early", "queue"} : Go(s, "idle", b)
    BY <1>10 DEF Load
  <2>3. \A t \in Senders \ {s} : pc'[t] = pc[t] /\ calls'[t] = calls[t]
    BY <2>1, <2>2, GoMeans DEF Types
  <2>4. calls[s] \in Nat /\ calls'[s] = calls[s] + 1
    BY <2>1 DEF Types
  <2>5. \A f \in ToSet(wire) \union ToSet(queue) : IsData(f) => f[1] \in Senders /\ f[2] \in Nat
    BY FramesHaveSenders
  <2>6. ASSUME NEW f \in ToSet(wire) \union ToSet(queue)
        PROVE  Named(f)'
    <3>1. Named(f)
      BY DEF InOrder, Ordered
    <3>2. CASE IsData(f) /\ f[1] = s
      BY <3>1, <3>2, <2>1, <2>4, <2>5 DEF Named
    <3>3. CASE IsData(f) /\ f[1] # s
      BY <3>1, <3>3, <2>1, <2>3, <2>5 DEF Named
    <3>4. CASE ~IsData(f)
      BY <3>4 DEF Named
    <3> QED BY <3>2, <3>3, <3>4
  <2> QED BY <2>1, <2>6 DEF InOrder, Ordered, CloseIsLast
<1>11. ASSUME NEW s \in Senders, Enqueue(s)
       PROVE  InOrder'
  <2>1. /\ UNCHANGED <<wire, closeSent, calls>>
        /\ \E a \in {"early", "queue"}, b \in SenderPlaces \ {"early", "queue"} : Go(s, a, b)
    BY <1>11 DEF Enqueue, closing, SenderPlaces
  <2>2. CASE UNCHANGED <<queue, accepted>>
    BY <2>1, <2>2, GoKeepsOrder DEF InOrder
  <2>3. CASE queue' = Append(queue, Frame(s)) /\ accepted' = accepted \union {Frame(s)}
    <3>1. /\ pc[s] \in {"early", "queue"} /\ pc'[s] \notin {"early", "queue"}
          /\ \A t \in Senders \ {s} : pc'[t] = pc[t]
      BY <2>1, GoMeans
    <3>2. /\ Frame(s) \in Sent /\ IsData(Frame(s)) /\ Frame(s)[1] = s /\ Frame(s)[2] = calls[s]
          /\ queue \in Seq(Sent) /\ calls[s] \in Nat /\ Frame(s) # Close
      <4>1. Frame(s) = <<s, calls[s]>> /\ Frame(s) \in Data
        BY Kinds
      <4>2. IsData(Frame(s)) /\ Frame(s) # Close
        BY <4>1, Kinds
      <4>3. queue \in Seq(Sent)
        BY ItemsAreSent DEF Types
      <4>4. calls[s] \in Nat
        BY DEF Types
      <4> QED BY <4>1, <4>2, <4>3, <4>4 DEF Sent, Item
    <3>3. \A f \in ToSet(wire) \union ToSet(queue) : IsData(f) => f[1] \in Senders /\ f[2] \in Nat
      BY FramesHaveSenders
    <3>4. ToSet(queue') = ToSet(queue) \union {Frame(s)}
      BY <2>3, <3>2, AppendedSet
    <3>5. \A f \in ToSet(wire) \union ToSet(queue) :
            IsData(f) /\ f[1] = Frame(s)[1] => f[2] < Frame(s)[2]
      BY <3>1, <3>2 DEF InOrder, Ordered, Named
    <3>6. InCalls(queue')
      BY <2>3, <3>2, <3>5, AppendInCalls DEF InOrder, Ordered, Earlier
    <3>7. Earlier(ToSet(wire), ToSet(queue'))
      BY <3>4, <3>5 DEF InOrder, Ordered, Earlier
    <3>8. \A f \in ToSet(wire) \union ToSet(queue) : Named(f)'
      BY <2>1, <2>3, <3>1, <3>3 DEF InOrder, Ordered, Named
    <3>9. Named(Frame(s))'
      BY <2>1, <2>3, <3>1, <3>2 DEF Named, Frame
    <3>10. \A f \in ToSet(wire) \union ToSet(queue') : Named(f)'
      BY <3>4, <3>8, <3>9, <2>1 DEF Frame
    <3> QED BY <2>1, <3>6, <3>7, <3>10 DEF InOrder, Ordered, CloseIsLast
  <2> QED BY <2>2, <2>3, <1>11 DEF Enqueue
<1>12. ASSUME NEW s \in Senders, Exchange(s)
       PROVE  InOrder'
  <2>1. UNCHANGED <<wire, queue, closeSent, accepted, calls>>
    BY <1>12 DEF Exchange, closing, history
  <2>2. \E a \in SenderPlaces, b \in SenderPlaces \ {"early", "queue"} : Go(s, a, b)
    BY <1>12 DEF Exchange, SenderPlaces
  <2> QED BY <2>1, <2>2, GoKeepsOrder DEF InOrder
<1>13. ASSUME NEW s \in Senders, LoadHandle(s)
       PROVE  InOrder'
  <2>1. UNCHANGED <<wire, queue, closeSent, accepted, calls>>
    BY <1>13 DEF LoadHandle, closing, history
  <2>2. \E a \in SenderPlaces, b \in SenderPlaces \ {"early", "queue"} : Go(s, a, b)
    BY <1>13 DEF LoadHandle, SenderPlaces
  <2> QED BY <2>1, <2>2, GoKeepsOrder DEF InOrder
<1>14. ASSUME NEW s \in Senders, Unset(s)
       PROVE  InOrder'
  <2>1. UNCHANGED <<wire, queue, closeSent, accepted, calls>>
    BY <1>14 DEF Unset, closing, history
  <2>2. \E a \in SenderPlaces, b \in SenderPlaces \ {"early", "queue"} : Go(s, a, b)
    BY <1>14 DEF Unset, SenderPlaces
  <2> QED BY <2>1, <2>2, GoKeepsOrder DEF InOrder
<1>15. ASSUME NEW s \in Senders, Activate(s)
       PROVE  InOrder'
  <2>1. UNCHANGED <<wire, queue, closeSent, accepted, calls>>
    BY <1>15 DEF Activate, closing, history
  <2>2. \E a \in SenderPlaces, b \in SenderPlaces \ {"early", "queue"} : Go(s, a, b)
    BY <1>15 DEF Activate, SenderPlaces
  <2> QED BY <2>1, <2>2, GoKeepsOrder DEF InOrder
<1>16. CASE RequestStop
  <2>1. /\ UNCHANGED <<wire, closeSent, accepted, pc, calls>>
        /\ queue' = queue \/ queue' = <<>>
    BY <1>16 DEF RequestStop, closing, callers, history
  <2> QED BY <2>1, QuietKeepsOrder DEF InOrder
<1>17. CASE StopLoadHandle
  <2>1. /\ UNCHANGED <<wire, closeSent, accepted, pc, calls>>
        /\ queue' = queue \/ queue' = <<>>
    BY <1>17 DEF StopLoadHandle, closing, callers, history
  <2> QED BY <2>1, QuietKeepsOrder DEF InOrder
<1>18. CASE StopActivate
  <2>1. /\ UNCHANGED <<wire, closeSent, accepted, pc, calls>>
        /\ queue' = queue \/ queue' = <<>>
    BY <1>18 DEF StopActivate, closing, callers, history
  <2> QED BY <2>1, QuietKeepsOrder DEF InOrder
<1>19. CASE Join
  <2>1. /\ UNCHANGED <<wire, closeSent, accepted, pc, calls>>
        /\ queue' = queue \/ queue' = <<>>
    BY <1>19 DEF Join, closing, callers, history
  <2> QED BY <2>1, QuietKeepsOrder DEF InOrder
<1>20. CASE Connecting
  <2>1. /\ UNCHANGED <<wire, closeSent, accepted, pc, calls>>
        /\ queue' = queue \/ queue' = <<>>
    BY <1>20 DEF Connecting, closing, callers, history
  <2> QED BY <2>1, QuietKeepsOrder DEF InOrder
<1>21. CASE Publish
  <2>1. /\ UNCHANGED <<wire, closeSent, accepted, pc, calls>>
        /\ queue' = queue \/ queue' = <<>>
    BY <1>21 DEF Publish, closing, callers, history
  <2> QED BY <2>1, QuietKeepsOrder DEF InOrder
<1>22. CASE Dispatch
  <2>1. /\ UNCHANGED <<wire, closeSent, accepted, pc, calls>>
        /\ queue' = queue \/ queue' = <<>>
    BY <1>22 DEF Dispatch, closing, callers, history
  <2> QED BY <2>1, QuietKeepsOrder DEF InOrder
<1>23. CASE LeaveLoop
  <2>1. /\ UNCHANGED <<wire, closeSent, accepted, pc, calls>>
        /\ queue' = queue \/ queue' = <<>>
    BY <1>23 DEF LeaveLoop, closing, callers, history
  <2> QED BY <2>1, QuietKeepsOrder DEF InOrder
<1>24. CASE MarkFlushed
  <2>1. /\ UNCHANGED <<wire, closeSent, accepted, pc, calls>>
        /\ queue' = queue \/ queue' = <<>>
    BY <1>24 DEF MarkFlushed, closing, callers, history
  <2> QED BY <2>1, QuietKeepsOrder DEF InOrder
<1>25. CASE StartFails
  <2>1. /\ UNCHANGED <<wire, closeSent, accepted, pc, calls>>
        /\ queue' = queue \/ queue' = <<>>
    BY <1>25 DEF StartFails, closing, callers, history
  <2> QED BY <2>1, QuietKeepsOrder DEF InOrder
<1>26. CASE SendCallback
  <2>1. state = "CONNECTED" => ~closeSent /\ Close \notin ToSet(queue)
    BY DEF Lifecycle, CloseWaitsInClosing, CloseWaits, Closing
  <2>2. FlushSendQueue(queue, state) /\ UNCHANGED <<accepted, calls, pc>>
    BY <1>26 DEF SendCallback, callers, history
  <2>3. queue \in Seq(Item)
    BY DEF Types
  <2> QED BY <2>1, <2>2, <2>3, FlushKeepsOrder DEF InOrder, Ordered
<1>27. CASE WakeCallback
  <2>1. /\ UNCHANGED <<wire, closeSent, accepted, pc, calls>>
        /\ queue' = queue \/ queue' = Append(queue, Close)
    BY <1>27 DEF WakeCallback, QueueClose, closing, callers
  <2>2. CASE queue' = queue
    BY <2>1, <2>2, QuietKeepsOrder DEF InOrder
  <2>3. CASE queue' = Append(queue, Close)
    <3>1. \A f \in ToSet(wire) \union ToSet(queue') : Named(f)'
      BY <2>1, <2>3, CloseKeepsOrder DEF InOrder, Named
    <3> QED BY <2>1, <2>3, <3>1, CloseKeepsOrder DEF InOrder, Ordered, CloseIsLast
  <2> QED BY <2>1, <2>2, <2>3
<1>28. CASE Ping
  <2>1. ~closeSent
    BY <1>28 DEF Ping, Lifecycle, CloseWaitsInClosing, Closing
  <2> QED BY <2>1, <1>28, ControlKeepsOrder DEF InOrder, Ping, closing, callers, history
<1>29. CASE CloseTimer
  <2>1. /\ UNCHANGED <<wire, closeSent, accepted, pc, calls>>
        /\ queue' = queue \/ queue' = <<>>
    BY <1>29 DEF CloseTimer, closing, callers, history
  <2> QED BY <2>1, QuietKeepsOrder DEF InOrder
<1>30. CASE Timeout
  <2>1. /\ UNCHANGED <<wire, closeSent, accepted, pc, calls>>
        /\ queue' = queue \/ queue' = <<>>
    BY <1>30 DEF Timeout, closing, callers, history
  <2> QED BY <2>1, QuietKeepsOrder DEF InOrder
<1>31. CASE TcpConnects
  <2>1. /\ UNCHANGED <<wire, closeSent, accepted, pc, calls>>
        /\ queue' = queue \/ queue' = <<>>
    BY <1>31 DEF TcpConnects, closing, callers, history
  <2> QED BY <2>1, QuietKeepsOrder DEF InOrder
<1>32. CASE Upgrade
  <2>1. ~closeSent /\ Close \notin ToSet(queue)
    BY <1>32 DEF Upgrade, Lifecycle, CloseWaitsInClosing, CloseWaits
  <2>2. FlushSendQueue(queue, "CONNECTED") /\ UNCHANGED <<accepted, calls, pc>>
    BY <1>32 DEF Upgrade, callers, history
  <2>3. queue \in Seq(Item)
    BY DEF Types
  <2> QED BY <2>1, <2>2, <2>3, FlushKeepsOrder DEF InOrder, Ordered
<1>33. CASE Refusal
  <2>1. /\ UNCHANGED <<wire, closeSent, accepted, pc, calls>>
        /\ queue' = queue \/ queue' = <<>>
    BY <1>33 DEF Refusal, closing, callers, history
  <2> QED BY <2>1, QuietKeepsOrder DEF InOrder
<1>34. CASE ReadPing
  <2>1. ~closeSent
    BY <1>34 DEF ReadPing, Lifecycle, CloseWaitsInClosing, Closing, Reads, Terminating
  <2> QED BY <2>1, <1>34, ControlKeepsOrder DEF InOrder, ReadPing, closing, callers, history
<1>35. CASE ReadClose
  <2>1. UNCHANGED <<accepted, calls, pc>>
    BY <1>35 DEF ReadClose, callers, history
  <2>2. CASE FlushSendQueue(queue, "DISCONNECTING")
    <3>1. queue \in Seq(Item)
      BY DEF Types
    <3> QED BY <2>1, <2>2, <3>1, FlushKeepsOrder DEF InOrder, Ordered
  <2>3. CASE FlushSendQueue(Append(queue, Close), "DISCONNECTING")
    BY <2>1, <2>3, CloseKeepsOrder, FlushKeepsOrder DEF InOrder, Ordered
  <2> QED BY <2>2, <2>3, <1>35 DEF ReadClose
<1>36. CASE ProtocolError
  <2>1. /\ UNCHANGED <<wire, closeSent, accepted, pc, calls>>
        /\ queue' = queue \/ queue' = Append(queue, Close)
    BY <1>36 DEF ProtocolError, closing, callers
  <2>2. CASE queue' = queue
    BY <2>1, <2>2, QuietKeepsOrder DEF InOrder
  <2>3. CASE queue' = Append(queue, Close)
    <3>1. \A f \in ToSet(wire) \union ToSet(queue') : Named(f)'
      BY <2>1, <2>3, CloseKeepsOrder DEF InOrder, Named
    <3> QED BY <2>1, <2>3, <3>1, CloseKeepsOrder DEF InOrder, Ordered, CloseIsLast
  <2> QED BY <2>1, <2>2, <2>3
<1>37. CASE Error
  <2>1. /\ UNCHANGED <<wire, closeSent, accepted, pc, calls>>
        /\ queue' = queue \/ queue' = <<>>
    BY <1>37 DEF Error, closing, callers, history
  <2> QED BY <2>1, QuietKeepsOrder DEF InOrder
<1>38. CASE Eof
  <2>1. /\ UNCHANGED <<wire, closeSent, accepted, pc, calls>>
        /\ queue' = queue \/ queue' = <<>>
    BY <1>38 DEF Eof, closing, callers, history
  <2> QED BY <2>1, QuietKeepsOrder DEF InOrder
<1> QED
  BY <1>10, <1>11, <1>12, <1>13, <1>14, <1>15, <1>16, <1>17, <1>18, <1>19, <1>20, <1>21,
        <1>22, <1>23, <1>24, <1>25, <1>26, <1>27, <1>28, <1>29, <1>30, <1>31, <1>32, <1>33,
        <1>34, <1>35, <1>36, <1>37, <1>38
     DEF Next, Send, Stop, Run, Callback, Receive

OrderSafety == Types /\ Lifecycle /\ InOrder

\* What goes out is what was accepted: each sender's frames in the order of its calls
\* and none twice, through whichever flush; and nothing after CLOSE.
THEOREM WireKeepsOrder == Spec => []WireInOrder
<1>1. Init => OrderSafety
  BY TypesInit, LifecycleInit, InOrderInit DEF OrderSafety
<1>2. OrderSafety /\ [Next]_vars => OrderSafety'
  <2> SUFFICES ASSUME OrderSafety, [Next]_vars
               PROVE  OrderSafety'
    OBVIOUS
  <2>1. CASE Next
    BY <2>1, TypesKept, LifecycleKept, InOrderKept DEF OrderSafety
  <2>2. CASE UNCHANGED vars
    <3>1. Types' /\ Lifecycle'
      BY <2>2 DEF vars, loop, closing, callers, history, OrderSafety, Types, Lifecycle,
                  CloseWaitsInClosing, CloseWaits
    <3>2. InOrder'
      BY <2>2, QuietKeepsOrder
         DEF vars, closing, callers, history, OrderSafety, InOrder
    <3> QED BY <3>1, <3>2 DEF OrderSafety
  <2> QED BY <2>1, <2>2
<1>3. OrderSafety => WireInOrder
  <2> SUFFICES ASSUME OrderSafety
               PROVE  WireInOrder
    OBVIOUS
  <2>1. DOMAIN wire = 1..Len(wire) /\ \A i \in DOMAIN wire : wire[i] \in ToSet(wire)
    BY DEF OrderSafety, Types, ToSet
  <2>2. \A i \in DOMAIN wire : IsData(wire[i]) => wire[i] \in accepted
    BY <2>1 DEF OrderSafety, InOrder, Ordered, Named
  <2> QED BY <2>1, <2>2 DEF WireInOrder, OrderSafety, InOrder, Ordered, CloseIsLast, InCalls
<1> QED BY <1>1, <1>2, <1>3, PTL DEF Spec

=============================================================================
