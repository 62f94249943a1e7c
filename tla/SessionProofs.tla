--------------------------- MODULE SessionProofs ---------------------------
(***************************************************************************)
(* Proofs about Session, for any set of senders, any capacity and any      *)
(* number of calls.  The inductive invariant IInv joins the checked        *)
(* invariants with two facts about the calls in progress: a frame that     *)
(* left a call behind is older than the call its sender is in (Known), and *)
(* a sender inside enqueue has begun a call (InCall).                      *)
(***************************************************************************)
EXTENDS Session, SequenceTheorems, WellFoundedInduction, TLAPS

Older(f) == f.n <= sent[f.by] /\ (pc[f.by] # "idle" => f.n < sent[f.by])

Known ==
    \A f \in Frames(queue) \union Frames(taken) \union evicted \union refused : Older(f)

InCall == \A s \in Senders : pc[s] # "idle" => sent[s] >= 1

OnceDone == once = "fresh" <=> ~done

PumpHolds == pump \in {"tap", "write"} => taken # <<>>

IInv ==
    /\ TypeOK /\ ParkedBehindFullQueue /\ InCall /\ OnceDone /\ PumpHolds
    /\ Known /\ SenderOrderKept /\ AckedAccountedFor

-----------------------------------------------------------------------------
(* Sequences of frames.                                                    *)

\* Appending adds exactly the new frame (a send on the channel).
LEMMA FramesAppend ==
    ASSUME NEW S, NEW q \in Seq(S), NEW f \in S
    PROVE  /\ Append(q, f) \in Seq(S) /\ Len(Append(q, f)) = Len(q) + 1
           /\ Frames(Append(q, f)) = Frames(q) \union {f}
<1>1. /\ Append(q, f) \in Seq(S) /\ Len(Append(q, f)) = Len(q) + 1
      /\ DOMAIN Append(q, f) = 1..(Len(q) + 1) /\ DOMAIN q = 1..Len(q)
      /\ \A i \in 1..Len(q) : Append(q, f)[i] = q[i]
      /\ Append(q, f)[Len(q) + 1] = f
  OBVIOUS
<1>2. Len(q) \in Nat
  OBVIOUS
<1>3. Frames(Append(q, f)) \subseteq Frames(q) \union {f}
  BY <1>1, <1>2 DEF Frames
<1>4. Frames(q) \union {f} \subseteq Frames(Append(q, f))
  BY <1>1, <1>2 DEF Frames
<1> QED
  BY <1>1, <1>3, <1>4

\* A receive removes exactly the oldest frame's position.
LEMMA FramesTail ==
    ASSUME NEW S, NEW q \in Seq(S), q # <<>>
    PROVE  /\ Tail(q) \in Seq(S) /\ Len(Tail(q)) = Len(q) - 1 /\ Head(q) \in S
           /\ Frames(q) = {Head(q)} \union Frames(Tail(q))
<1>1. /\ Tail(q) \in Seq(S) /\ Len(Tail(q)) = Len(q) - 1 /\ Head(q) \in S
      /\ Len(q) \in Nat /\ Len(q) >= 1 /\ Head(q) = q[1]
      /\ DOMAIN Tail(q) = 1..(Len(q) - 1) /\ DOMAIN q = 1..Len(q)
      /\ \A i \in 1..(Len(q) - 1) : Tail(q)[i] = q[i + 1]
  OBVIOUS
<1>2. Frames(q) \subseteq {Head(q)} \union Frames(Tail(q))
  <2> SUFFICES ASSUME NEW i \in 1..Len(q)
               PROVE  q[i] \in {Head(q)} \union Frames(Tail(q))
    BY <1>1 DEF Frames
  <2>1. CASE i = 1
    BY <2>1, <1>1
  <2>2. CASE i # 1
    <3>1. i - 1 \in 1..(Len(q) - 1) /\ Tail(q)[i - 1] = q[i]
      BY <2>2, <1>1
    <3> QED
      BY <3>1, <1>1 DEF Frames
  <2> QED
    BY <2>1, <2>2
<1>3. {Head(q)} \union Frames(Tail(q)) \subseteq Frames(q)
  BY <1>1 DEF Frames
<1> QED
  BY <1>1, <1>2, <1>3

\* The frames of a sequence are frames.
LEMMA FramesType ==
    ASSUME NEW S, NEW q \in Seq(S)
    PROVE  /\ Frames(q) \subseteq S
           /\ Frames(<<>>) = {}
           /\ q # <<>> => Head(q) \in Frames(q)
  BY DEF Frames

Below(q, f) == \A g \in Frames(q) : g.by = f.by => g.n < f.n

\* Order survives the arrival of a frame newer than all of its sender's.
LEMMA InOrderAppend ==
    ASSUME NEW q \in Seq(Frame), NEW f \in Frame, InOrder(q), Below(q, f)
    PROVE  InOrder(Append(q, f))
<1>1. /\ Len(q) \in Nat /\ DOMAIN q = 1..Len(q)
      /\ DOMAIN Append(q, f) = 1..(Len(q) + 1)
      /\ \A i \in 1..Len(q) : Append(q, f)[i] = q[i]
      /\ Append(q, f)[Len(q) + 1] = f
  OBVIOUS
<1> SUFFICES ASSUME NEW i \in 1..(Len(q) + 1), NEW j \in 1..(Len(q) + 1), i < j,
                    Append(q, f)[i].by = Append(q, f)[j].by
             PROVE  Append(q, f)[i].n < Append(q, f)[j].n
  BY <1>1 DEF InOrder
<1>2. i \in 1..Len(q) /\ Append(q, f)[i] = q[i] /\ q[i] \in Frames(q)
  BY <1>1 DEF Frames
<1>3. CASE j = Len(q) + 1
  BY <1>1, <1>2, <1>3 DEF Below
<1>4. CASE j \in 1..Len(q)
  BY <1>1, <1>2, <1>4 DEF InOrder
<1> QED
  BY <1>3, <1>4

\* Order survives a receive, and the frame received is older than those left.
LEMMA InOrderTail ==
    ASSUME NEW q \in Seq(Frame), q # <<>>, InOrder(q)
    PROVE  /\ InOrder(Tail(q))
           /\ \A g \in Frames(Tail(q)) : Head(q).by = g.by => Head(q).n < g.n
           /\ Head(q) \notin Frames(Tail(q))
<1>1. /\ Len(q) \in Nat /\ Len(q) >= 1 /\ Head(q) = q[1]
      /\ DOMAIN Tail(q) = 1..(Len(q) - 1) /\ DOMAIN q = 1..Len(q)
      /\ \A i \in 1..(Len(q) - 1) : Tail(q)[i] = q[i + 1] /\ i + 1 \in 1..Len(q)
  OBVIOUS
<1>2. InOrder(Tail(q))
  BY <1>1 DEF InOrder
<1>3. ASSUME NEW g \in Frames(Tail(q)), Head(q).by = g.by
      PROVE  Head(q).n < g.n
  <2>1. PICK i \in 1..(Len(q) - 1) : g = q[i + 1]
    BY <1>1 DEF Frames
  <2> QED
    BY <2>1, <1>1, <1>3 DEF InOrder
<1>4. Head(q) \notin Frames(Tail(q))
  <2> SUFFICES ASSUME Head(q) \in Frames(Tail(q)) PROVE FALSE
    OBVIOUS
  <2>1. Head(q).n < Head(q).n
    BY <1>3
  <2>2. Head(q) \in Frame
    BY <1>1
  <2> QED
    BY <2>1, <2>2, MaxSendsAssumption DEF Frame
<1> QED
  BY <1>2, <1>3, <1>4
-----------------------------------------------------------------------------
(* The frame of a call in progress, and a receive.                         *)

\* The frame of a call in progress is newer than every frame of its sender.
LEMMA ReqIsNew ==
    ASSUME IInv, NEW s \in Senders, pc[s] # "idle"
    PROVE  /\ Req(s) \in Frame
           /\ Below(queue, Req(s)) /\ Below(taken, Req(s))
           /\ Req(s) \notin Frames(queue) \union Frames(taken) \union evicted \union refused
<1>1. Req(s) \in Frame /\ Req(s).by = s /\ Req(s).n = sent[s]
  BY MaxSendsAssumption DEF IInv, TypeOK, InCall, Req, Frame
<1>2. \A f \in Frames(queue) \union Frames(taken) \union evicted \union refused :
          f.by = s => f.n < sent[s]
  BY DEF IInv, Known, Older
<1>3. Req(s) \notin Frames(queue) \union Frames(taken) \union evicted \union refused
  <2> SUFFICES ASSUME Req(s) \in Frames(queue) \union Frames(taken) \union evicted \union refused
               PROVE  FALSE
    OBVIOUS
  <2>1. sent[s] < sent[s]
    BY <1>1, <1>2
  <2>2. sent[s] \in Int
    BY MaxSendsAssumption DEF IInv, TypeOK
  <2> QED
    BY <2>1, <2>2
<1> QED
  BY <1>1, <1>2, <1>3 DEF Below

\* What a receive brings into the buffer: the frame of the longest-parked sender.
Refill == IF sendq = <<>> THEN {} ELSE {Req(Head(sendq))}

\* The senders still parked after a receive, and the state of the buffer.
LEMMA RecvSenders ==
    ASSUME IInv, queue # <<>>
    PROVE  /\ SendqAfterRecv \in Seq(Senders) /\ PcAfterRecv \in [Senders -> PC]
           /\ \A s \in Senders : PcAfterRecv[s] = "parked" <=> s \in Frames(SendqAfterRecv)
           /\ \A i, j \in DOMAIN SendqAfterRecv :
                 i # j => SendqAfterRecv[i] # SendqAfterRecv[j]
           /\ \A s \in Senders : PcAfterRecv[s] # pc[s] => PcAfterRecv[s] = "idle" /\ pc[s] = "parked"
           /\ \A s \in Senders : PcAfterRecv[s] # "idle" => pc[s] # "idle"
           /\ \A f \in Refill : f \in Frame /\ pc[f.by] = "parked"
                                /\ f.n = sent[f.by] /\ PcAfterRecv[f.by] = "idle"
           /\ \A f \in Refill : f = Req(f.by) /\ f.by \in Senders
           /\ AckedAfterRecv = acked \union Refill
           /\ Len(queue) \in 1..Cap
           /\ SendqAfterRecv # <<>> => sendq # <<>>
<1> USE DEF IInv, TypeOK, ParkedBehindFullQueue
<1>0. Len(queue) \in 1..Cap
  BY CapAssumption
<1>1. CASE sendq = <<>>
  BY <1>0, <1>1 DEF SendqAfterRecv, PcAfterRecv, Refill, AckedAfterRecv
<1>2. CASE sendq # <<>>
  <2> DEFINE p == Head(sendq)
  <2>1. /\ p \in Senders /\ Tail(sendq) \in Seq(Senders) /\ p = sendq[1] /\ Len(sendq) >= 1
        /\ Len(sendq) \in Nat
        /\ DOMAIN sendq = 1..Len(sendq) /\ DOMAIN Tail(sendq) = 1..(Len(sendq) - 1)
        /\ \A i \in 1..(Len(sendq) - 1) : Tail(sendq)[i] = sendq[i + 1] /\ i + 1 \in 1..Len(sendq)
    BY <1>2
  <2>2. Frames(sendq) = {p} \union Frames(Tail(sendq)) /\ p \in Frames(sendq)
    BY <1>2, FramesTail, FramesType
  <2>3. p \notin Frames(Tail(sendq))
    <3> SUFFICES ASSUME NEW i \in 1..(Len(sendq) - 1), p = Tail(sendq)[i] PROVE FALSE
      BY <2>1 DEF Frames
    <3>1. i + 1 \in 1..Len(sendq) /\ 1 \in 1..Len(sendq) /\ i + 1 # 1 /\ sendq[i + 1] = sendq[1]
      BY <2>1
    <3> QED
      BY <3>1, <2>1
  <2>4. pc[p] = "parked" /\ PcAfterRecv = [pc EXCEPT ![p] = "idle"]
        /\ SendqAfterRecv = Tail(sendq)
        /\ Refill = {Req(p)} /\ AckedAfterRecv = acked \union {Req(p)}
    BY <1>2, <2>1, <2>2 DEF SendqAfterRecv, PcAfterRecv, Refill, AckedAfterRecv
  <2>5. Req(p) \in Frame /\ Req(p).by = p /\ Req(p).n = sent[p]
    BY <2>1, <2>4, ReqIsNew DEF Req
  <2>6. PcAfterRecv \in [Senders -> PC]
        /\ \A s \in Senders : PcAfterRecv[s] = IF s = p THEN "idle" ELSE pc[s]
    BY <2>1, <2>4 DEF PC
  <2>7. \A i, j \in DOMAIN SendqAfterRecv : i # j => SendqAfterRecv[i] # SendqAfterRecv[j]
    <3> SUFFICES ASSUME NEW i \in 1..(Len(sendq) - 1), NEW j \in 1..(Len(sendq) - 1), i # j
                 PROVE  Tail(sendq)[i] # Tail(sendq)[j]
      BY <2>1, <2>4
    <3>1. i + 1 \in 1..Len(sendq) /\ j + 1 \in 1..Len(sendq) /\ i + 1 # j + 1
      BY <2>1
    <3>2. \A k, l \in 1..Len(sendq) : k # l => sendq[k] # sendq[l]
      BY <2>1
    <3> QED
      BY <3>1, <3>2, <2>1
  <2>8. \A s \in Senders : PcAfterRecv[s] = "parked" <=> s \in Frames(SendqAfterRecv)
    BY <2>2, <2>3, <2>4, <2>6
  <2> QED
    BY <1>0, <1>2, <2>1, <2>4, <2>5, <2>6, <2>7, <2>8
<1> QED
  BY <1>1, <1>2

\* The buffer after a receive.
LEMMA RecvQueue ==
    ASSUME IInv, queue # <<>>
    PROVE  /\ Head(queue) \in Frame /\ Head(queue) \in Frames(queue)
           /\ QueueAfterRecv \in Seq(Frame) /\ Len(QueueAfterRecv) <= Cap
           /\ SendqAfterRecv # <<>> => Len(QueueAfterRecv) = Cap
           /\ Frames(QueueAfterRecv) = (Frames(queue) \ {Head(queue)}) \union Refill
           /\ Head(queue) \notin Frames(QueueAfterRecv)
           /\ InOrder(QueueAfterRecv)
           /\ \A g \in Frames(QueueAfterRecv) : Head(queue).by = g.by => Head(queue).n < g.n
<1>1. /\ Tail(queue) \in Seq(Frame) /\ Len(Tail(queue)) = Len(queue) - 1
      /\ Head(queue) \in Frame /\ Head(queue) \in Frames(queue)
      /\ Frames(queue) = {Head(queue)} \union Frames(Tail(queue))
  BY FramesTail, FramesType DEF IInv, TypeOK
<1>2. /\ InOrder(Tail(queue)) /\ Head(queue) \notin Frames(Tail(queue))
      /\ \A g \in Frames(Tail(queue)) : Head(queue).by = g.by => Head(queue).n < g.n
  BY InOrderTail DEF IInv, TypeOK, SenderOrderKept
<1>3. Len(queue) \in 1..Cap
  BY RecvSenders
<1>4. CASE sendq = <<>>
  <2>1. QueueAfterRecv = Tail(queue) /\ SendqAfterRecv = <<>> /\ Refill = {}
    BY <1>4 DEF QueueAfterRecv, SendqAfterRecv, Refill
  <2>2. Len(Tail(queue)) <= Cap
    BY <1>1, <1>3, CapAssumption
  <2> QED
    BY <1>1, <1>2, <2>1, <2>2
<1>5. CASE sendq # <<>>
  <2> DEFINE f == Req(Head(sendq))
  <2>1. Head(sendq) \in Senders /\ pc[Head(sendq)] # "idle" /\ Len(queue) = Cap
    <3>1. Head(sendq) \in Senders /\ Head(sendq) \in Frames(sendq)
      BY <1>5, FramesTail, FramesType DEF IInv, TypeOK
    <3> QED
      BY <1>3, <1>5, <3>1, CapAssumption DEF IInv, TypeOK, ParkedBehindFullQueue, HasRoom
  <2>2. f \in Frame /\ Below(queue, f) /\ f \notin Frames(queue)
    BY <2>1, ReqIsNew
  <2>6. QueueAfterRecv = Append(Tail(queue), f) /\ Refill = {f}
    BY <1>5 DEF QueueAfterRecv, Refill
  <2> HIDE DEF f
  <2>3. Below(Tail(queue), f)
    BY <2>2, <1>1 DEF Below
  <2>4. /\ Append(Tail(queue), f) \in Seq(Frame)
        /\ Len(Append(Tail(queue), f)) = Len(Tail(queue)) + 1
        /\ Frames(Append(Tail(queue), f)) = Frames(Tail(queue)) \union {f}
    <3>1. Tail(queue) \in Seq(Frame) /\ f \in Frame
      BY <1>1, <2>2
    <3>2. \A q \in Seq(Frame), g \in Frame :
            /\ Append(q, g) \in Seq(Frame) /\ Len(Append(q, g)) = Len(q) + 1
            /\ Frames(Append(q, g)) = Frames(q) \union {g}
      BY ONLY FramesAppend
    <3> QED
      BY ONLY <3>1, <3>2, Zenon
  <2>5. InOrder(Append(Tail(queue), f))
    BY <1>1, <1>2, <2>2, <2>3, InOrderAppend
  <2>7. Head(queue).by = f.by => Head(queue).n < f.n
    BY <2>2, <1>1 DEF Below
  <2>8. Head(queue) # f
    BY <2>2, <1>1
  <2> QED
    BY <1>1, <1>2, <1>3, <2>1, <2>4, <2>5, <2>6, <2>7, <2>8
<1> QED
  BY <1>4, <1>5
-----------------------------------------------------------------------------
(* IInv is inductive.                                                      *)

\* The session starts in IInv: nothing queued, nobody parked, not closed.
LEMMA InitInv == Init => IInv
<1> SUFFICES ASSUME Init PROVE IInv
  OBVIOUS
<1>1. Frames(<<>>) = {}
  BY DEF Frames
<1>2. TypeOK
  <2>1. 0 \in 0..MaxSends /\ 0 <= Cap
    BY CapAssumption, MaxSendsAssumption
  <2>2. queue \in Seq(Frame) /\ Len(queue) <= Cap /\ sendq \in Seq(Senders)
    BY <2>1 DEF Init
  <2>3. taken \in Seq(Frame) /\ tapped \in Seq(Frame) /\ wire \in Seq(Frame)
    BY DEF Init
  <2>4. pc \in [Senders -> PC] /\ sent \in [Senders -> 0..MaxSends] /\ kind \in [Senders -> Kinds]
    BY <2>1 DEF Init, PC, Kinds
  <2> QED
    BY <2>2, <2>3, <2>4 DEF Init, TypeOK
<1>3. ParkedBehindFullQueue
  BY <1>1 DEF Init, ParkedBehindFullQueue
<1>4. InCall /\ OnceDone /\ PumpHolds
  BY DEF Init, InCall, OnceDone, PumpHolds
<1>5. Known /\ AckedAccountedFor
  BY <1>1 DEF Init, Known, AckedAccountedFor
<1>6. SenderOrderKept
  BY DEF Init, SenderOrderKept, InOrder
<1> QED
  BY <1>2, <1>3, <1>4, <1>5, <1>6 DEF IInv

\* A send that finds room (second and last select).
LEMMA AdmitInv ==
    ASSUME IInv, NEW s \in Senders, pc[s] # "idle", Admit(s),
           UNCHANGED <<callVars, pumpVars, closeVars>>
    PROVE  IInv'
<1> DEFINE f == Req(s)
<1>1. f \in Frame /\ f.by = s /\ f.n = sent[s] /\ Below(queue, f) /\ Below(taken, f)
      /\ f \notin Frames(queue) \union Frames(taken) \union evicted \union refused
  BY ReqIsNew DEF Req
<1> HIDE DEF f
<1>2. /\ queue' = Append(queue, f) /\ acked' = acked \union {f} /\ Len(queue) < Cap
      /\ pc' = [pc EXCEPT ![s] = "idle"]
      /\ UNCHANGED <<sendq, refused, evicted, sent, kind, done, once, pump, taken, tapped, wire>>
  BY DEF Admit, HasRoom, Return, callVars, pumpVars, closeVars, f
<1>3. queue' \in Seq(Frame) /\ Len(queue') = Len(queue) + 1
      /\ Frames(queue') = Frames(queue) \union {f}
  <2>1. queue \in Seq(Frame) /\ f \in Frame
    BY <1>1 DEF IInv, TypeOK
  <2> QED
    BY ONLY <1>2, <2>1, FramesAppend
<1>4. TypeOK'
  BY <1>1, <1>2, <1>3, CapAssumption DEF IInv, TypeOK, PC
<1>5. sendq = <<>>
  BY <1>2 DEF IInv, ParkedBehindFullQueue, HasRoom
<1>6. ParkedBehindFullQueue'
  <2>1. \A x \in Senders : pc[x] # "parked"
    BY <1>5, FramesType DEF IInv, TypeOK, ParkedBehindFullQueue
  <2>2. \A x \in Senders : pc'[x] # "parked"
    BY <1>2, <2>1 DEF IInv, TypeOK
  <2>3. sendq' = <<>> /\ Frames(sendq') = {}
    BY <1>2, <1>5 DEF Frames
  <2> QED
    BY <2>2, <2>3 DEF ParkedBehindFullQueue
<1>7. InCall' /\ OnceDone' /\ PumpHolds'
  BY <1>2 DEF IInv, InCall, OnceDone, PumpHolds, TypeOK
<1>8. Known'
  <2> SUFFICES ASSUME NEW g \in Frames(queue) \union {f} \union Frames(taken)
                                  \union evicted \union refused
               PROVE  Older(g)'
    BY <1>2, <1>3 DEF Known
  <2>1. CASE g = f
    BY <2>1, <1>1, <1>2 DEF Older, IInv, TypeOK
  <2>2. CASE g # f
    BY <2>2, <1>2 DEF IInv, Known, Older, TypeOK
  <2> QED
    BY <2>1, <2>2
<1>9. SenderOrderKept'
  <2>1. InOrder(queue') /\ InOrder(taken')
    BY <1>1, <1>2, InOrderAppend DEF IInv, TypeOK, SenderOrderKept
  <2>2. \A g \in Frames(taken), h \in Frames(queue') : g.by = h.by => g.n < h.n
    BY <1>1, <1>3 DEF Below, IInv, SenderOrderKept, Frames
  <2> QED
    BY <1>2, <2>1, <2>2 DEF SenderOrderKept, Frames
<1>10. AckedAccountedFor'
  BY <1>1, <1>2, <1>3 DEF IInv, AckedAccountedFor
<1> QED
  BY <1>4, <1>6, <1>7, <1>8, <1>9, <1>10 DEF IInv

\* A receive, by writePump (the frame is taken) or by an overflowing enqueue
\* (the frame is evicted), with the change of pc that goes with it.
LEMMA RecvInv ==
    ASSUME IInv, queue # <<>>,
           queue' = QueueAfterRecv, sendq' = SendqAfterRecv, acked' = AckedAfterRecv,
           UNCHANGED <<refused, callVars, closeVars>>,
           \/ taken' = Append(taken, Head(queue)) /\ UNCHANGED evicted
           \/ evicted' = evicted \union {Head(queue)} /\ UNCHANGED taken,
           pc' \in [Senders -> PC],
           \A s \in Senders : \/ pc'[s] = PcAfterRecv[s]
                              \/ pc'[s] # "parked" /\ pc[s] # "idle" /\ pc[s] # "parked",
           tapped' \in Seq(Frame), wire' \in Seq(Frame), PumpHolds',
           pump' \in {"select", "tap", "write", "failed", "stopped"}
    PROVE  IInv'
<1> DEFINE h == Head(queue)
<1>1. /\ h \in Frame /\ h \in Frames(queue)
      /\ queue' \in Seq(Frame) /\ Len(queue') <= Cap
      /\ sendq' # <<>> => Len(queue') = Cap
      /\ Frames(queue') = (Frames(queue) \ {h}) \union Refill
      /\ h \notin Frames(queue') /\ InOrder(queue')
      /\ \A g \in Frames(queue') : h.by = g.by => h.n < g.n
  BY RecvQueue
<1>2. /\ sendq' \in Seq(Senders)
      /\ \A s \in Senders : PcAfterRecv[s] = "parked" <=> s \in Frames(sendq')
      /\ \A i, j \in DOMAIN sendq' : i # j => sendq'[i] # sendq'[j]
      /\ sendq' # <<>> => sendq # <<>>
      /\ \A f \in Refill : f \in Frame /\ f = Req(f.by) /\ f.by \in Senders
                           /\ pc[f.by] = "parked" /\ f.n = sent[f.by]
                           /\ PcAfterRecv[f.by] = "idle"
      /\ \A s \in Senders : PcAfterRecv[s] # pc[s] => PcAfterRecv[s] = "idle" /\ pc[s] = "parked"
      /\ acked' = acked \union Refill
  BY RecvSenders
<1>3. \A f \in Refill : Below(taken, f) /\ f \notin Frames(queue) \union Frames(taken)
                                                        \union evicted \union refused
  <2> TAKE f \in Refill
  <2>1. f.by \in Senders /\ pc[f.by] # "idle" /\ f = Req(f.by)
    BY <1>2
  <2>2. Below(taken, Req(f.by)) /\ Req(f.by) \notin Frames(queue) \union Frames(taken)
                                                    \union evicted \union refused
    BY <2>1, ReqIsNew
  <2> QED
    BY <2>1, <2>2
<1> HIDE DEF h
<1>4. \/ /\ taken' \in Seq(Frame) /\ Frames(taken') = Frames(taken) \union {h}
         /\ taken' = Append(taken, h) /\ evicted' = evicted
      \/ taken' = taken /\ evicted' = evicted \union {h}
  <2>1. taken \in Seq(Frame) /\ h \in Frame
    BY <1>1 DEF IInv, TypeOK
  <2>2. /\ Append(taken, h) \in Seq(Frame)
        /\ Frames(Append(taken, h)) = Frames(taken) \union {h}
    BY ONLY <2>1, FramesAppend
  <2> QED
    BY <2>2 DEF h
<1>5. UNCHANGED <<refused, sent, kind, done, once>>
  BY DEF callVars, closeVars
<1>6. TypeOK'
  <2>1. acked' \subseteq Frame
    BY <1>2 DEF IInv, TypeOK
  <2>2. taken' \in Seq(Frame) /\ evicted' \subseteq Frame
    BY <1>1, <1>4 DEF IInv, TypeOK
  <2> QED
    BY <1>1, <1>2, <1>5, <2>1, <2>2 DEF IInv, TypeOK
<1>7. \A s \in Senders : /\ pc'[s] = "parked" <=> PcAfterRecv[s] = "parked"
                         /\ pc'[s] # "idle" => pc[s] # "idle"
  BY <1>2
<1>8. ParkedBehindFullQueue'
  <2>1. sendq' # <<>> => ~done /\ Len(queue') = Cap
    BY <1>1, <1>2 DEF IInv, ParkedBehindFullQueue
  <2>2. sendq' # <<>> => ~HasRoom' /\ ~done'
    BY <1>5, <2>1, CapAssumption DEF HasRoom
  <2> QED
    BY <1>2, <1>7, <2>2 DEF ParkedBehindFullQueue
<1>9. InCall' /\ OnceDone'
  BY <1>5, <1>7 DEF IInv, InCall, OnceDone
<1>10. Known'
  <2>1. ASSUME NEW g \in Frames(queue) \union Frames(taken) \union evicted \union refused
        PROVE  Older(g)'
    <3>1. Older(g) /\ g.by \in Senders
      <4>1. g \in Frame
        BY FramesType DEF IInv, TypeOK
      <4> QED
        BY <4>1 DEF IInv, Known, Frame
    <3> QED
      BY <3>1, <1>5, <1>7 DEF Older
  <2>2. ASSUME NEW g \in Refill PROVE Older(g)'
    <3>1. g.by \in Senders /\ g.n = sent[g.by] /\ pc[g.by] = "parked"
      BY <1>2
    <3>2. pc'[g.by] = "idle"
      BY <1>2, <3>1
    <3> QED
      BY <3>1, <3>2, <1>5 DEF Older, IInv, TypeOK
  <2>3. Frames(queue') \union Frames(taken') \union evicted' \union refused'
          \subseteq Frames(queue) \union Frames(taken) \union evicted \union refused \union Refill
    BY <1>1, <1>4, <1>5
  <2> QED
    BY <2>1, <2>2, <2>3 DEF Known
<1>11. SenderOrderKept'
  <2>1. \A g \in Frames(taken), x \in Frames(queue) : g.by = x.by => g.n < x.n
    BY DEF IInv, SenderOrderKept, Frames
  <2>2. \A g \in Frames(taken), x \in Frames(queue') : g.by = x.by => g.n < x.n
    BY <1>1, <1>3, <2>1 DEF Below
  <2>3. \A g \in Frames(taken'), x \in Frames(queue') : g.by = x.by => g.n < x.n
    BY <1>1, <1>4, <2>2
  <2>4. InOrder(taken')
    <3>1. Below(taken, h)
      BY <1>1, <2>1 DEF Below
    <3>2. InOrder(taken) /\ taken \in Seq(Frame)
      BY DEF IInv, TypeOK, SenderOrderKept
    <3>3. InOrder(Append(taken, h))
      BY <1>1, <3>1, <3>2, InOrderAppend
    <3> QED
      BY <1>4, <3>2, <3>3
  <2> QED
    BY <1>1, <2>3, <2>4 DEF SenderOrderKept, Frames
<1>12. AckedAccountedFor'
  <2>1. h \notin Frames(taken) \union evicted
    BY <1>1 DEF IInv, AckedAccountedFor
  <2>2. Refill \intersect (Frames(queue) \union Frames(taken) \union evicted \union refused) = {}
    BY <1>3
  <2>3. h \notin Refill
    BY <1>1, <2>2
  <2> QED
    BY <1>1, <1>2, <1>4, <1>5, <2>1, <2>2, <2>3 DEF IInv, AckedAccountedFor
<1> QED
  BY <1>6, <1>8, <1>9, <1>10, <1>11, <1>12 DEF IInv

\* A step that moves no frame: it may begin or refuse calls, park or wake
\* senders, close the session, or move the pump on.
LEMMA QuietInv ==
    ASSUME IInv, UNCHANGED <<queue, taken, evicted, acked>>,
           TypeOK', ParkedBehindFullQueue', InCall', OnceDone', PumpHolds',
           \A s \in Senders : \/ sent'[s] = sent[s] /\ (pc'[s] # "idle" => pc[s] # "idle")
                              \/ pc[s] = "idle" /\ sent'[s] = sent[s] + 1,
           \A f \in refused' \ refused :
               /\ f.by \in Senders /\ pc[f.by] # "idle" /\ f = Req(f.by)
               /\ pc'[f.by] = "idle" /\ sent'[f.by] = sent[f.by]
    PROVE  IInv'
<1>1. \A f \in Frames(queue) \union Frames(taken) \union evicted \union refused :
          f \in Frame /\ f.by \in Senders /\ f.n \in Int /\ Older(f)
  <2> TAKE f \in Frames(queue) \union Frames(taken) \union evicted \union refused
  <2>1. f \in Frame
    BY FramesType DEF IInv, TypeOK
  <2> QED
    BY <2>1, MaxSendsAssumption DEF IInv, Known, Frame
<1>2. Known'
  <2>1. ASSUME NEW f \in Frames(queue) \union Frames(taken) \union evicted \union refused
        PROVE  Older(f)'
    <3>1. f.by \in Senders /\ f.n \in Int /\ Older(f)
      BY <1>1
    <3>2. sent[f.by] \in Int
      BY <3>1, MaxSendsAssumption DEF IInv, TypeOK
    <3>3. CASE sent'[f.by] = sent[f.by] /\ (pc'[f.by] # "idle" => pc[f.by] # "idle")
      BY <3>1, <3>3 DEF Older
    <3>4. CASE pc[f.by] = "idle" /\ sent'[f.by] = sent[f.by] + 1
      BY <3>1, <3>2, <3>4 DEF Older
    <3> QED
      BY <3>1, <3>3, <3>4
  <2>2. ASSUME NEW f \in refused' \ refused PROVE Older(f)'
    BY MaxSendsAssumption DEF Older, IInv, TypeOK, Req
  <2> QED
    BY <2>1, <2>2 DEF Known
<1>3. SenderOrderKept'
  BY DEF IInv, SenderOrderKept
<1>4. AckedAccountedFor'
  <2>1. \A f \in refused' \ refused : f \notin acked
    <3> TAKE f \in refused' \ refused
    <3>1. f = Req(f.by) /\ f.by \in Senders /\ pc[f.by] # "idle"
      OBVIOUS
    <3>2. Req(f.by) \notin Frames(queue) \union Frames(taken) \union evicted
      BY <3>1, ReqIsNew
    <3> QED
      BY <3>1, <3>2 DEF IInv, AckedAccountedFor
  <2> QED
    BY <2>1 DEF IInv, AckedAccountedFor
<1> QED
  BY <1>2, <1>3, <1>4 DEF IInv

\* What the pump does between two receives leaves everything else alone.
LEMMA PumpLocalInv ==
    ASSUME IInv, UNCHANGED <<senderVars, callVars, closeVars, taken>>,
           tapped' \in Seq(Frame), wire' \in Seq(Frame), PumpHolds',
           pump' \in {"select", "tap", "write", "failed", "stopped"}
    PROVE  IInv'
<1>1. UNCHANGED <<queue, sendq, pc, acked, refused, evicted, sent, kind, done, once, taken>>
  BY DEF senderVars, callVars, closeVars
<1>2. TypeOK'
  BY <1>1 DEF IInv, TypeOK
<1>3. ParkedBehindFullQueue' /\ InCall' /\ OnceDone'
  BY <1>1 DEF IInv, ParkedBehindFullQueue, InCall, OnceDone, HasRoom
<1> QED
  BY <1>1, <1>2, <1>3, QuietInv

\* Every step of enqueue, Close and writePump keeps IInv.
LEMMA NextInv == IInv /\ [Next]_vars => IInv'
<1> SUFFICES ASSUME IInv, [Next]_vars PROVE IInv'
  OBVIOUS
<1> USE DEF callVars, pumpVars, closeVars, senderVars
<1>t. TypeOK /\ ParkedBehindFullQueue /\ InCall /\ OnceDone /\ PumpHolds
  BY DEF IInv
<1>1. ASSUME NEW s \in Senders, CheckDone(s) PROVE IInv'
  <2>1. /\ UNCHANGED <<queue, taken, evicted, acked, sendq, sent, kind, done, once, pump, tapped, wire>>
        /\ pc[s] = "enter" /\ pc' \in [Senders -> PC]
        /\ \A x \in Senders : pc'[x] = IF x = s THEN (IF done THEN "idle" ELSE "try") ELSE pc[x]
        /\ refused' = IF done THEN refused \union {Req(s)} ELSE refused
    BY <1>1, <1>t DEF CheckDone, RefuseClosed, Return, TypeOK, PC
  <2>2. Req(s) \in Frame /\ Req(s).by = s
    BY <2>1, ReqIsNew DEF Req
  <2>3. TypeOK' /\ InCall' /\ OnceDone' /\ PumpHolds'
    BY <2>1, <2>2, <1>t DEF TypeOK, InCall, OnceDone, PumpHolds
  <2>4. ParkedBehindFullQueue'
    BY <2>1, <1>t DEF ParkedBehindFullQueue, HasRoom
  <2> QED
    BY <2>1, <2>2, <2>3, <2>4, QuietInv
<1>2. ASSUME NEW s \in Senders, TrySend(s) PROVE IInv'
  <2>1. CASE Admit(s)
    BY <2>1, <1>2, AdmitInv DEF TrySend
  <2>2. CASE ~HasRoom /\ pc' = [pc EXCEPT ![s] = "evict"]
             /\ UNCHANGED <<queue, sendq, acked, refused, evicted>>
    <3>1. /\ UNCHANGED <<queue, taken, evicted, acked, sendq, sent, kind, done, once, pump, tapped, wire, refused>>
          /\ pc[s] = "try" /\ pc' \in [Senders -> PC]
          /\ \A x \in Senders : pc'[x] = IF x = s THEN "evict" ELSE pc[x]
      BY <2>2, <1>2, <1>t DEF TrySend, TypeOK, PC
    <3>2. TypeOK' /\ InCall' /\ OnceDone' /\ PumpHolds' /\ ParkedBehindFullQueue'
      BY <3>1, <1>t DEF TypeOK, InCall, OnceDone, PumpHolds, ParkedBehindFullQueue, HasRoom
    <3> QED
      BY <3>1, <3>2, QuietInv
  <2> QED
    BY <2>1, <2>2, <1>2 DEF TrySend
<1>3. ASSUME NEW s \in Senders, EvictOldest(s) PROVE IInv'
  <2>1. CASE queue # <<>>
    <3>0. EvictOldest(s) => IF queue = <<>> THEN TRUE
              ELSE /\ evicted' = evicted \union {Head(queue)} /\ queue' = QueueAfterRecv
                   /\ sendq' = SendqAfterRecv /\ acked' = AckedAfterRecv
                   /\ pc' = [PcAfterRecv EXCEPT ![s] = "final"]
      BY DEF EvictOldest
    <3>1. /\ queue' = QueueAfterRecv /\ sendq' = SendqAfterRecv /\ acked' = AckedAfterRecv
          /\ evicted' = evicted \union {Head(queue)}
          /\ pc' = [PcAfterRecv EXCEPT ![s] = "final"] /\ pc[s] = "evict"
          /\ UNCHANGED <<refused, sent, kind, done, once, pump, taken, tapped, wire>>
      BY <2>1, <3>0, <1>3 DEF EvictOldest
    <3>2. PcAfterRecv \in [Senders -> PC]
      BY <2>1, RecvSenders
    <3>3. /\ pc' \in [Senders -> PC]
          /\ \A x \in Senders : pc'[x] = IF x = s THEN "final" ELSE PcAfterRecv[x]
      BY <3>1, <3>2 DEF PC
    <3>4. \A x \in Senders : \/ pc'[x] = PcAfterRecv[x]
                             \/ pc'[x] # "parked" /\ pc[x] # "idle" /\ pc[x] # "parked"
      BY <3>1, <3>3
    <3>5. /\ tapped' \in Seq(Frame) /\ wire' \in Seq(Frame)
          /\ pump' \in {"select", "tap", "write", "failed", "stopped"} /\ PumpHolds'
      BY <3>1, <1>t DEF TypeOK, PumpHolds
    <3> QED
      BY <2>1, <3>1, <3>3, <3>4, <3>5, RecvInv
  <2>2. CASE queue = <<>>
    <3>1. /\ UNCHANGED <<queue, taken, evicted, acked, sendq, sent, kind, done, once, pump, tapped, wire, refused>>
          /\ pc[s] = "evict" /\ pc' \in [Senders -> PC]
          /\ \A x \in Senders : pc'[x] = IF x = s THEN "final" ELSE pc[x]
      BY <2>2, <1>3, <1>t DEF EvictOldest, TypeOK, PC
    <3>2. TypeOK' /\ InCall' /\ OnceDone' /\ PumpHolds' /\ ParkedBehindFullQueue'
      BY <3>1, <1>t DEF TypeOK, InCall, OnceDone, PumpHolds, ParkedBehindFullQueue, HasRoom
    <3> QED
      BY <3>1, <3>2, QuietInv
  <2> QED
    BY <2>1, <2>2
<1>4. ASSUME NEW s \in Senders, FinalSelect(s) PROVE IInv'
  <2>0. pc[s] = "final" /\ UNCHANGED <<sent, kind, done, once, pump, taken, tapped, wire>>
    BY <1>4 DEF FinalSelect
  <2>1. CASE Admit(s)
    BY <2>0, <2>1, AdmitInv
  <2>2. CASE done /\ RefuseClosed(s)
    <3>1. /\ UNCHANGED <<queue, taken, evicted, acked, sendq>>
          /\ pc' \in [Senders -> PC] /\ refused' = refused \union {Req(s)}
          /\ \A x \in Senders : pc'[x] = IF x = s THEN "idle" ELSE pc[x]
      BY <2>0, <2>2, <1>t DEF RefuseClosed, Return, TypeOK, PC
    <3>2. Req(s) \in Frame /\ Req(s).by = s
      BY <2>0, ReqIsNew DEF Req
    <3>3. TypeOK' /\ InCall' /\ OnceDone' /\ PumpHolds' /\ ParkedBehindFullQueue'
      BY <2>0, <3>1, <3>2, <1>t DEF TypeOK, InCall, OnceDone, PumpHolds, ParkedBehindFullQueue, HasRoom
    <3> QED
      BY <2>0, <3>1, <3>2, <3>3, QuietInv
  <2>3. CASE /\ ~HasRoom /\ ~done /\ pc' = [pc EXCEPT ![s] = "parked"]
             /\ sendq' = Append(sendq, s) /\ UNCHANGED <<queue, acked, refused, evicted>>
    <3>1. /\ pc' \in [Senders -> PC]
          /\ \A x \in Senders : pc'[x] = IF x = s THEN "parked" ELSE pc[x]
      BY <2>0, <2>3, <1>t DEF TypeOK, PC
    <3>2. /\ sendq' \in Seq(Senders) /\ Frames(sendq') = Frames(sendq) \union {s}
      <4>1. sendq \in Seq(Senders) /\ s \in Senders /\ sendq' = Append(sendq, s)
        BY <2>3, <1>t DEF TypeOK
      <4> QED
        BY ONLY <4>1, FramesAppend
    <3>3. s \notin Frames(sendq)
      BY <2>0, <1>t DEF ParkedBehindFullQueue
    <3>4. \A i, j \in DOMAIN sendq' : i # j => sendq'[i] # sendq'[j]
      <4>1. /\ Len(sendq) \in Nat /\ DOMAIN sendq = 1..Len(sendq)
            /\ DOMAIN sendq' = 1..(Len(sendq) + 1)
            /\ \A i \in 1..Len(sendq) : sendq'[i] = sendq[i] /\ sendq[i] # s
            /\ sendq'[Len(sendq) + 1] = s
        BY <2>3, <3>3, <1>t DEF TypeOK, Frames
      <4> QED
        BY <4>1, <1>t DEF ParkedBehindFullQueue
    <3>5. TypeOK' /\ InCall' /\ OnceDone' /\ PumpHolds'
      BY <2>0, <2>3, <3>1, <3>2, <1>t DEF TypeOK, InCall, OnceDone, PumpHolds
    <3>6. ParkedBehindFullQueue'
      BY <2>0, <2>3, <3>1, <3>2, <3>4, <1>t DEF ParkedBehindFullQueue, HasRoom
    <3> QED
      BY <2>0, <2>3, <3>1, <3>5, <3>6, QuietInv
  <2> QED
    BY <2>1, <2>2, <2>3, <1>4 DEF FinalSelect
<1>5. ASSUME NEW s \in Senders, NEW k \in Kinds, Begin(s, k) PROVE IInv'
  <2>1. /\ UNCHANGED <<queue, taken, evicted, acked, sendq, refused, done, once, pump, tapped, wire>>
        /\ pc[s] = "idle" /\ sent[s] < MaxSends
        /\ pc' \in [Senders -> PC] /\ sent' \in [Senders -> 0..MaxSends]
        /\ kind' \in [Senders -> Kinds]
        /\ \A x \in Senders : pc'[x] = IF x = s THEN "enter" ELSE pc[x]
        /\ \A x \in Senders : sent'[x] = IF x = s THEN sent[x] + 1 ELSE sent[x]
    BY <1>5, <1>t, MaxSendsAssumption DEF Begin, TypeOK, PC
  <2>2. TypeOK' /\ OnceDone' /\ PumpHolds'
    BY <2>1, <1>t DEF TypeOK, OnceDone, PumpHolds
  <2>3. InCall'
    <3>1. sent[s] \in Nat
      BY <1>t, MaxSendsAssumption DEF TypeOK
    <3> QED
      BY <2>1, <3>1, <1>t DEF InCall
  <2>4. ParkedBehindFullQueue'
    BY <2>1, <1>t DEF ParkedBehindFullQueue, HasRoom
  <2> QED
    BY <2>1, <2>2, <2>3, <2>4, QuietInv
<1>6. ASSUME CloseDone, UNCHANGED <<pump, taken, tapped, wire>> PROVE IInv'
  <2>1. /\ UNCHANGED <<queue, taken, evicted, acked, sent, kind, pump, tapped, wire>>
        /\ once' = "running" /\ done' = TRUE /\ sendq' = <<>>
        /\ pc' \in [Senders -> PC]
        /\ \A x \in Senders : pc'[x] = IF pc[x] = "parked" THEN "idle" ELSE pc[x]
        /\ refused' = refused \union {Req(x) : x \in {y \in Senders : pc[y] = "parked"}}
    BY <1>6, <1>t DEF CloseDone, WakeParked, TypeOK, PC
  <2>2. \A f \in refused' \ refused :
           /\ f \in Frame /\ f.by \in Senders /\ pc[f.by] = "parked" /\ f = Req(f.by)
    <3> TAKE f \in refused' \ refused
    <3>1. PICK x \in Senders : pc[x] = "parked" /\ f = Req(x)
      BY <2>1
    <3>2. Req(x) \in Frame /\ Req(x).by = x
      BY <3>1, ReqIsNew DEF Req
    <3> QED
      BY <3>1, <3>2
  <2>3. TypeOK'
    BY <2>1, <2>2, <1>t DEF TypeOK
  <2>4. InCall' /\ OnceDone' /\ PumpHolds'
    BY <2>1, <1>t DEF InCall, OnceDone, PumpHolds
  <2>5. ParkedBehindFullQueue'
    BY <2>1, FramesType DEF ParkedBehindFullQueue, Frames
  <2> QED
    BY <2>1, <2>2, <2>3, <2>4, <2>5, QuietInv
<1>7. ASSUME CloseConn PROVE IInv'
  <2>1. UNCHANGED <<queue, taken, evicted, acked, sendq, refused, pc, sent, kind, done, pump, tapped, wire>>
        /\ once = "running" /\ once' = "ran"
    BY <1>7 DEF CloseConn
  <2>2. TypeOK' /\ InCall' /\ OnceDone' /\ PumpHolds' /\ ParkedBehindFullQueue'
    BY <2>1, <1>t DEF TypeOK, InCall, OnceDone, PumpHolds, ParkedBehindFullQueue, HasRoom
  <2> QED
    BY <2>1, <2>2, QuietInv
<1>8. ASSUME PumpRecv PROVE IInv'
  <2>1. PcAfterRecv \in [Senders -> PC] /\ queue # <<>>
    BY <1>8, RecvSenders DEF PumpRecv
  <2>2. /\ tapped' \in Seq(Frame) /\ wire' \in Seq(Frame)
        /\ pump' \in {"select", "tap", "write", "failed", "stopped"}
    BY <1>8, <1>t DEF PumpRecv, TypeOK
  <2>3. PumpHolds'
    <3>1. taken' = Append(taken, Head(queue)) /\ taken \in Seq(Frame) /\ Head(queue) \in Frame
      BY <1>8, <2>1, <1>t, FramesTail DEF PumpRecv, TypeOK
    <3>2. Len(taken') # 0
      BY <3>1
    <3> QED
      BY <3>2 DEF PumpHolds
  <2> QED
    BY <1>8, <2>1, <2>2, <2>3, RecvInv DEF PumpRecv
<1>9. ASSUME PumpDone \/ PumpTap \/ PumpWrite \/ (PumpClose /\ ~CloseDone) PROVE IInv'
  <2>1. /\ UNCHANGED <<queue, sendq, pc, acked, refused, evicted, sent, kind, done, once, taken>>
        /\ pump' \in {"select", "tap", "write", "failed", "stopped"}
        /\ pump' \in {"tap", "write"} => pump = "tap"
        /\ \/ UNCHANGED <<tapped, wire>>
           \/ /\ pump \in {"tap", "write"}
              /\ tapped' \in {tapped, Append(tapped, Last(taken))}
              /\ wire' \in {wire, Append(wire, Last(taken))}
    BY <1>9 DEF PumpDone, PumpTap, PumpWrite, PumpClose
  <2>2. pump \in {"tap", "write"} => Last(taken) \in Frame
    <3>1. ASSUME taken # <<>>, taken \in Seq(Frame) PROVE taken[Len(taken)] \in Frame
      BY <3>1
    <3> QED
      BY <3>1, <1>t DEF TypeOK, PumpHolds, Last
  <2>3. tapped' \in Seq(Frame) /\ wire' \in Seq(Frame)
    <3>1. tapped \in Seq(Frame) /\ wire \in Seq(Frame)
      BY <1>t DEF TypeOK
    <3>2. CASE UNCHANGED <<tapped, wire>>
      BY <3>1, <3>2
    <3>3. CASE pump \in {"tap", "write"}
      <4>1. /\ Append(tapped, Last(taken)) \in Seq(Frame)
            /\ Append(wire, Last(taken)) \in Seq(Frame)
        BY <2>2, <3>1, <3>3
      <4> QED
        BY <2>1, <3>1, <4>1
    <3> QED
      BY <2>1, <3>2, <3>3
  <2>4. PumpHolds'
    <3>1. taken' = taken /\ (pump' \in {"tap", "write"} => pump = "tap")
      BY <2>1
    <3> QED
      BY <3>1, <1>t DEF PumpHolds
  <2> QED
    BY <2>1, <2>3, <2>4, PumpLocalInv
<1>10. CASE UNCHANGED vars
  <2>1. UNCHANGED <<senderVars, callVars, closeVars, taken, tapped, wire, pump>>
    BY <1>10 DEF vars
  <2>2. /\ tapped' \in Seq(Frame) /\ wire' \in Seq(Frame) /\ PumpHolds'
        /\ pump' \in {"select", "tap", "write", "failed", "stopped"}
    BY <2>1, <1>t DEF TypeOK, PumpHolds
  <2> QED
    BY <2>1, <2>2, PumpLocalInv
<1>11. ASSUME PumpClose, CloseDone PROVE IInv'
  <2>1. UNCHANGED <<pump, taken, tapped, wire>>
    BY <1>11 DEF PumpClose, CloseDone
  <2> QED
    BY <1>6, <1>11, <2>1
<1>12. CASE \E s \in Senders : SenderStep(s) \/ \E k \in Kinds : Begin(s, k)
  BY <1>1, <1>2, <1>3, <1>4, <1>5, <1>12 DEF SenderStep
<1>13. CASE Close \/ CloseConn
  BY <1>6, <1>7, <1>13 DEF Close
<1>14. CASE PumpLocal \/ PumpWrite
  BY <1>8, <1>9, <1>11, <1>14 DEF PumpLocal
<1>15. CASE Finished
  BY <1>10, <1>15 DEF Finished
<1> QED
  BY <1>10, <1>12, <1>13, <1>14, <1>15 DEF Next

\* The inductive invariant holds in every state of every behaviour.
THEOREM Inductive == Spec => []IInv
<1> QED
  BY InitInv, NextInv, PTL DEF Spec

-----------------------------------------------------------------------------
(* The theorems.                                                           *)

\* Every variable keeps its type, and the buffer never holds more than Cap.
THEOREM TypeCorrect == Spec => []TypeOK
<1>1. IInv => TypeOK
  BY DEF IInv
<1> QED
  BY <1>1, Inductive, PTL

\* No frame whose call returned nil is ever unaccounted for (enqueue).
THEOREM AckedNeverLost == Spec => []AckedAccountedFor
<1>1. IInv => AckedAccountedFor
  BY DEF IInv
<1> QED
  BY <1>1, Inductive, PTL

\* Frames of one goroutine leave in the order of its calls (enqueue, writePump).
THEOREM OrderKept == Spec => []SenderOrderKept
<1>1. IInv => SenderOrderKept
  BY DEF IInv
<1> QED
  BY <1>1, Inductive, PTL

\* A sender parks only behind a full queue of an open session (enqueue, Close).
THEOREM ParkedOnlyWhenFull == Spec => []ParkedBehindFullQueue
<1>1. IInv => ParkedBehindFullQueue
  BY DEF IInv
<1> QED
  BY <1>1, Inductive, PTL

\* A receive is a Leave of the abstract FIFO: the head is given out by
\* writePump or lost by an overflow, and a parked sender's frame refills.
LEMMA RecvIsLeave ==
    ASSUME IInv, queue # <<>>, queue' = QueueAfterRecv,
           \/ taken' = Append(taken, Head(queue)) /\ UNCHANGED evicted
           \/ evicted' = evicted \union {Head(queue)} /\ UNCHANGED taken
    PROVE  Fifo!Leave
<1>1. CASE sendq = <<>>
  BY <1>1 DEF QueueAfterRecv, Fifo!Leave
<1>2. CASE sendq # <<>>
  <2> DEFINE f == Req(Head(sendq))
  <2>1. Head(sendq) \in Senders /\ pc[Head(sendq)] # "idle"
    <3>1. Head(sendq) \in Senders /\ Head(sendq) \in Frames(sendq)
      BY <1>2, FramesTail, FramesType DEF IInv, TypeOK
    <3> QED
      BY <3>1 DEF IInv, ParkedBehindFullQueue
  <2>2. f \in Frame /\ Fifo!Fresh(f)
    BY <2>1, ReqIsNew DEF Fifo!Fresh, Fifo!Items, Frames
  <2>3. queue' = Append(Tail(queue), f)
    BY <1>2 DEF QueueAfterRecv
  <2> HIDE DEF f
  <2> QED
    BY <2>2, <2>3 DEF Fifo!Leave
<1> QED
  BY <1>1, <1>2

\* A send that finds room is a Put.
LEMMA AdmitIsPut ==
    ASSUME IInv, NEW s \in Senders, pc[s] # "idle", Admit(s), UNCHANGED taken
    PROVE  Fifo!Next
<1>1. Req(s) \in Frame /\ Fifo!Fresh(Req(s))
  BY ReqIsNew DEF Fifo!Fresh, Fifo!Items, Frames
<1>2. Fifo!Put(Req(s))
  BY <1>1 DEF Admit, HasRoom, Fifo!Put
<1> QED
  BY <1>1, <1>2 DEF Fifo!Next

\* The session implements the lossy FIFO: every step of enqueue, writePump and
\* Close is a step of LossyFifo or leaves its variables alone.
THEOREM Refinement == Spec => ImplementsFifo
<1>1. Init => Fifo!Init
  BY DEF Init, Fifo!Init
<1>2. IInv /\ [Next]_vars => [Fifo!Next]_(Fifo!fifoVars)
  <2> SUFFICES ASSUME IInv, [Next]_vars PROVE Fifo!Next \/ UNCHANGED <<queue, taken, evicted>>
    BY DEF Fifo!fifoVars
  <2> USE DEF senderVars, callVars, pumpVars, closeVars
  <2>1. ASSUME NEW s \in Senders, TrySend(s) \/ FinalSelect(s)
        PROVE  Fifo!Next \/ UNCHANGED <<queue, taken, evicted>>
    <3>1. CASE Admit(s)
      <4>1. pc[s] # "idle" /\ UNCHANGED taken
        BY <2>1 DEF TrySend, FinalSelect
      <4> QED
        BY <3>1, <4>1, AdmitIsPut
    <3>2. CASE ~Admit(s)
      BY <2>1, <3>2 DEF TrySend, FinalSelect, RefuseClosed
    <3> QED
      BY <3>1, <3>2
  <2>2. ASSUME NEW s \in Senders, EvictOldest(s)
        PROVE  Fifo!Next \/ UNCHANGED <<queue, taken, evicted>>
    <3>1. CASE queue # <<>>
      <4>1. /\ queue' = QueueAfterRecv /\ UNCHANGED taken
            /\ evicted' = evicted \union {Head(queue)}
        BY <2>2, <3>1 DEF EvictOldest
      <4> QED
        BY <3>1, <4>1, RecvIsLeave DEF Fifo!Next
    <3>2. CASE queue = <<>>
      BY <2>2, <3>2 DEF EvictOldest
    <3> QED
      BY <3>1, <3>2
  <2>3. CASE PumpRecv
    BY <2>3, RecvIsLeave DEF PumpRecv, Fifo!Next
  <2>4. ASSUME NEW s \in Senders, CheckDone(s) \/ \E k \in Kinds : Begin(s, k)
        PROVE  UNCHANGED <<queue, taken, evicted>>
    BY <2>4 DEF CheckDone, RefuseClosed, Begin
  <2>5. CASE Close \/ CloseConn \/ PumpDone \/ PumpTap \/ PumpWrite \/ PumpClose
             \/ Finished \/ UNCHANGED vars
    BY <2>5 DEF Close, CloseDone, CloseConn, PumpDone, PumpTap, PumpWrite, PumpClose,
                Finished, vars
  <2> QED
    BY <2>1, <2>2, <2>3, <2>4, <2>5 DEF Next, SenderStep, PumpLocal
<1> QED
  BY <1>1, <1>2, Inductive, PTL DEF Spec, ImplementsFifo, Fifo!Spec
-----------------------------------------------------------------------------
(* Induction on the natural numbers, for sets.  The library's induction    *)
(* theorems take a predicate as a parameter, which the provers cannot      *)
(* instantiate; a set of numbers says as much.                             *)

\* A set of natural numbers that is not empty has a least element.
LEMMA LeastNumber ==
    ASSUME NEW T, T \subseteq Nat, T # {}
    PROVE  \E x \in T : \A y \in T : ~(y < x)
<1> DEFINE R == OpToRel(<, Nat)
<1>1. IsWellFoundedOn(R, Nat)
  BY NatLessThanWellFounded
<1>2. \A x, y \in Nat : <<y, x>> \in R <=> y < x
  BY DEF OpToRel
<1> HIDE DEF R
<1>3. \E x \in T : \A y \in T : ~(<<y, x>> \in R)
  BY <1>1, WFMin
<1> QED
  BY <1>2, <1>3

\* A set that holds 0, and with a number its successor, holds every number.
LEMMA SetInduction ==
    ASSUME NEW S, 0 \in S, \A n \in S \intersect Nat : n + 1 \in S
    PROVE  Nat \subseteq S
<1> DEFINE T == Nat \ S
<1> SUFFICES ASSUME T # {} PROVE FALSE
  OBVIOUS
<1>1. PICK x \in T : \A y \in T : ~(y < x)
  BY LeastNumber
<1>2. x # 0 /\ x - 1 \in Nat /\ x - 1 \in S /\ (x - 1) + 1 = x
  BY <1>1
<1>3. x \in S
  BY <1>2
<1> QED
  BY <1>3

-----------------------------------------------------------------------------
(* The audio of a sequence of frames.                                      *)

\* A is the function AudioOf defines, on the first n frames of q.
Selects(A, q, n) ==
    A = [i \in 0..n |-> IF i = 0 THEN <<>>
                        ELSE IF IsAudio(q[i]) THEN Append(A[i - 1], q[i]) ELSE A[i - 1]]

\* The recursive definition has a solution, for every length.
LEMMA SelectsExists ==
    ASSUME NEW q, NEW n \in Nat
    PROVE  \E A : Selects(A, q, n)
<1> DEFINE S == {m \in Nat : \E A : Selects(A, q, m)}
<1>1. 0 \in S
  <2>1. Selects([i \in 0..0 |-> <<>>], q, 0)
    BY DEF Selects
  <2> QED
    BY <2>1
<1>2. ASSUME NEW m \in S \intersect Nat PROVE m + 1 \in S
  <2>1. PICK A : Selects(A, q, m)
    OBVIOUS
  <2> DEFINE last == IF IsAudio(q[m + 1]) THEN Append(A[m], q[m + 1]) ELSE A[m]
             B == [i \in 0..(m + 1) |-> IF i = m + 1 THEN last ELSE A[i]]
             step(i) == IF i = 0 THEN <<>>
                        ELSE IF IsAudio(q[i]) THEN Append(B[i - 1], q[i]) ELSE B[i - 1]
  <2>2. ASSUME NEW i \in 0..(m + 1) PROVE B[i] = step(i)
    <3>1. CASE i = m + 1
      <4>1. m \in 0..(m + 1) /\ m # m + 1 /\ (m + 1) - 1 = m /\ m + 1 # 0 /\ m + 1 \in 0..(m + 1)
        OBVIOUS
      <4>2. B[m] = A[m] /\ B[m + 1] = last
        BY <4>1
      <4> HIDE DEF B
      <4> QED
        BY <3>1, <4>1, <4>2
    <3>2. CASE i \in 0..m
      <4>1. i # m + 1 /\ (i # 0 => i - 1 \in 0..(m + 1) /\ i - 1 # m + 1 /\ i - 1 \in 0..m)
        BY <3>2
      <4>2. B[i] = A[i] /\ (i # 0 => B[i - 1] = A[i - 1])
        BY <4>1
      <4> HIDE DEF B, last
      <4>3. A[i] = IF i = 0 THEN <<>>
                   ELSE IF IsAudio(q[i]) THEN Append(A[i - 1], q[i]) ELSE A[i - 1]
        BY <2>1, <3>2 DEF Selects
      <4> QED
        BY <4>2, <4>3
    <3> QED
      BY <3>1, <3>2
  <2>3. B = [i \in 0..(m + 1) |-> B[i]]
    OBVIOUS
  <2> HIDE DEF B, last
  <2>4. B = [i \in 0..(m + 1) |-> step(i)]
    BY <2>2, <2>3
  <2>5. Selects(B, q, m + 1)
    BY <2>4 DEF Selects
  <2> QED
    BY <2>5
<1> HIDE DEF S
<1>3. n \in S
  BY <1>1, <1>2, SetInduction
<1> QED
  BY <1>3 DEF S

\* Two solutions agree as far as both go, when the frames they read do.
LEMMA SelectsUnique ==
    ASSUME NEW q, NEW r, NEW m \in Nat, NEW n \in Nat, m <= n, NEW A, NEW B,
           \A i \in 1..m : q[i] = r[i],
           Selects(A, q, m), Selects(B, r, n)
    PROVE  \A i \in 0..m : A[i] = B[i]
<1> DEFINE S == {i \in Nat : i <= m => A[i] = B[i]}
<1>1. 0 \in S
  BY DEF Selects
<1>2. ASSUME NEW i \in S \intersect Nat PROVE i + 1 \in S
  <2> SUFFICES ASSUME i + 1 <= m PROVE A[i + 1] = B[i + 1]
    OBVIOUS
  <2>1. A[i] = B[i] /\ i + 1 \in 0..m /\ i + 1 \in 0..n /\ i + 1 # 0 /\ (i + 1) - 1 = i
        /\ q[i + 1] = r[i + 1]
    OBVIOUS
  <2>2. A[i + 1] = IF IsAudio(q[i + 1]) THEN Append(A[i], q[i + 1]) ELSE A[i]
    BY <2>1 DEF Selects
  <2>3. B[i + 1] = IF IsAudio(r[i + 1]) THEN Append(B[i], r[i + 1]) ELSE B[i]
    BY <2>1 DEF Selects
  <2> QED
    BY <2>1, <2>2, <2>3
<1> HIDE DEF S
<1>3. Nat \subseteq S
  BY <1>1, <1>2, SetInduction
<1> QED
  BY <1>3 DEF S

\* AudioOf is the value of a solution.
LEMMA AudioOfIs ==
    ASSUME NEW q, Len(q) \in Nat
    PROVE  \E A : Selects(A, q, Len(q)) /\ AudioOf(q) = A[Len(q)]
<1> DEFINE A == CHOOSE f : Selects(f, q, Len(q))
<1>1. Selects(A, q, Len(q))
  BY SelectsExists
<1>2. AudioOf(q) = A[Len(q)]
  BY DEF AudioOf, Selects
<1> QED
  BY <1>1, <1>2

\* The audio of nothing.
LEMMA AudioOfEmpty == AudioOf(<<>>) = <<>>
<1>1. Len(<<>>) = 0 /\ Len(<<>>) \in Nat
  OBVIOUS
<1>2. PICK A : Selects(A, <<>>, Len(<<>>)) /\ AudioOf(<<>>) = A[Len(<<>>)]
  BY <1>1, AudioOfIs
<1> QED
  BY <1>1, <1>2 DEF Selects

\* The audio of a sequence with a frame more.
LEMMA AudioOfAppend ==
    ASSUME NEW q \in Seq(Frame), NEW f \in Frame
    PROVE  AudioOf(Append(q, f)) = IF IsAudio(f) THEN Append(AudioOf(q), f) ELSE AudioOf(q)
<1> DEFINE n == Len(q)
           r == Append(q, f)
<1>1. n \in Nat /\ Len(r) = n + 1 /\ r[n + 1] = f /\ \A i \in 1..n : q[i] = r[i]
  BY AppendProperties
<1> HIDE DEF n, r
<1>3. PICK A : Selects(A, q, n) /\ AudioOf(q) = A[n]
  BY <1>1, AudioOfIs DEF n
<1>4. PICK B : Selects(B, r, n + 1) /\ AudioOf(r) = B[n + 1]
  BY <1>1, AudioOfIs
<1>5. A[n] = B[n]
  BY <1>1, <1>3, <1>4, SelectsUnique
<1>6. n + 1 \in 0..(n + 1) /\ n + 1 # 0 /\ (n + 1) - 1 = n
  BY <1>1
<1>7. B[n + 1] = IF IsAudio(r[n + 1]) THEN Append(B[n], r[n + 1]) ELSE B[n]
  BY <1>4, <1>6 DEF Selects
<1> QED
  BY <1>1, <1>3, <1>4, <1>5, <1>7 DEF r

\* The recorder is exactly as far as the pump is with the frame in its hand;
\* once a write has failed it may be that one frame ahead for good.
TapFollowsWire ==
    /\ AudioOf(wire) \in Seq(Frame)
    /\ pump \in {"select", "tap"} => tapped = AudioOf(wire)
    /\ pump = "write" =>
          tapped = IF IsAudio(Last(taken)) THEN Append(AudioOf(wire), Last(taken))
                   ELSE AudioOf(wire)
    /\ pump \in {"failed", "stopped"} =>
          \/ tapped = AudioOf(wire)
          \/ \E f \in Frame : tapped = Append(AudioOf(wire), f)

\* The frame in the pump's hand is a frame.
LEMMA InHand ==
    ASSUME IInv, pump \in {"tap", "write"}
    PROVE  Last(taken) \in Frame
<1>1. ASSUME taken # <<>>, taken \in Seq(Frame) PROVE taken[Len(taken)] \in Frame
  BY <1>1
<1> QED
  BY <1>1 DEF IInv, TypeOK, PumpHolds, Last

\* Every step keeps the recorder with the wire: the pump's own steps one by one,
\* and whatever the others do leaves what it has tapped and written alone.
LEMMA TapFollowsWireStep == IInv /\ TapFollowsWire /\ [Next]_vars => TapFollowsWire'
<1> SUFFICES ASSUME IInv, TapFollowsWire, [Next]_vars PROVE TapFollowsWire'
  OBVIOUS
<1> USE DEF senderVars, callVars, pumpVars, closeVars
<1>1. CASE PumpRecv
  <2>1. pump = "select" /\ pump' = "tap" /\ UNCHANGED <<tapped, wire>>
    BY <1>1 DEF PumpRecv
  <2> QED
    BY <2>1 DEF TapFollowsWire
<1>2. CASE PumpDone
  <2>1. pump = "select" /\ pump' = "stopped" /\ UNCHANGED <<tapped, wire>>
    BY <1>2 DEF PumpDone
  <2> QED
    BY <2>1 DEF TapFollowsWire
<1>3. CASE PumpTap
  <2>1. /\ pump = "tap" /\ pump' = "write" /\ UNCHANGED <<taken, wire>>
        /\ tapped' = IF IsAudio(Last(taken)) THEN Append(tapped, Last(taken)) ELSE tapped
    BY <1>3 DEF PumpTap, IsAudio
  <2>2. tapped = AudioOf(wire)
    BY <2>1 DEF TapFollowsWire
  <2> QED
    BY <2>1, <2>2 DEF TapFollowsWire
<1>4. CASE PumpWrite
  <2>1. /\ pump = "write" /\ UNCHANGED <<taken, tapped>>
        /\ \/ wire' = Append(wire, Last(taken)) /\ pump' = "select"
           \/ wire' = wire /\ pump' = "failed"
    BY <1>4 DEF PumpWrite
  <2>2. Last(taken) \in Frame /\ wire \in Seq(Frame) /\ AudioOf(wire) \in Seq(Frame)
    BY <2>1, InHand DEF IInv, TypeOK, TapFollowsWire
  <2>3. tapped = IF IsAudio(Last(taken)) THEN Append(AudioOf(wire), Last(taken))
                 ELSE AudioOf(wire)
    BY <2>1 DEF TapFollowsWire
  <2>4. CASE wire' = Append(wire, Last(taken)) /\ pump' = "select"
    <3> DEFINE f == Last(taken)
    <3> HIDE DEF f
    <3>1. AudioOf(Append(wire, f)) = IF IsAudio(f) THEN Append(AudioOf(wire), f) ELSE AudioOf(wire)
      BY <2>2, AudioOfAppend DEF f
    <3>2. AudioOf(wire') = tapped'
      BY <2>1, <2>3, <2>4, <3>1 DEF f
    <3>3. tapped' \in Seq(Frame)
      BY <2>2, <2>3, <2>1
    <3> QED
      BY <2>4, <3>2, <3>3 DEF TapFollowsWire
  <2>5. CASE wire' = wire /\ pump' = "failed"
    BY <2>1, <2>2, <2>3, <2>5 DEF TapFollowsWire
  <2> QED
    BY <2>1, <2>4, <2>5
<1>5. CASE PumpClose
  <2>1. /\ pump = "failed" /\ pump' \in {"failed", "stopped"} /\ UNCHANGED <<tapped, wire>>
    BY <1>5 DEF PumpClose, CloseDone
  <2> QED
    BY <2>1 DEF TapFollowsWire
<1>6. ASSUME UNCHANGED <<pump, taken, tapped, wire>> PROVE TapFollowsWire'
  BY <1>6 DEF TapFollowsWire
<1>7. CASE \/ \E s \in Senders : SenderStep(s) \/ \E k \in Kinds : Begin(s, k)
           \/ Close \/ CloseConn \/ Finished \/ UNCHANGED vars
  <2>1. UNCHANGED <<pump, taken, tapped, wire>>
    BY <1>7 DEF SenderStep, CheckDone, TrySend, EvictOldest, FinalSelect, Begin, Close,
                CloseConn, Finished, vars
  <2> QED
    BY <2>1, <1>6
<1> QED
  BY <1>1, <1>2, <1>3, <1>4, <1>5, <1>7 DEF Next, PumpLocal

\* A sequence is a prefix of itself.
LEMMA PrefixSelf ==
    ASSUME NEW q \in Seq(Frame)
    PROVE  IsPrefix(q, q) /\ Len(q) \in Nat
<1>1. SubSeq(q, 1, Len(q)) = q
  BY SubSeqFull
<1> QED
  BY <1>1 DEF IsPrefix

\* A sequence is a prefix of itself with a frame more.
LEMMA PrefixAppend ==
    ASSUME NEW q \in Seq(Frame), NEW f \in Frame
    PROVE  /\ IsPrefix(q, Append(q, f))
           /\ Len(q) \in Nat /\ Len(Append(q, f)) = Len(q) + 1
<1> DEFINE r == Append(q, f)
<1>1. /\ Len(q) \in Nat /\ r \in Seq(Frame) /\ Len(r) = Len(q) + 1
      /\ \A i \in 1..Len(q) : q[i] = r[i]
  BY AppendProperties
<1> HIDE DEF r
<1>2. SubSeq(q, 1, Len(q)) = q
  BY SubSeqFull
<1>3. SubSeq(r, 1, Len(q)) = q
  <2> DEFINE n == Len(q)
             p == SubSeq(r, 1, n)
  <2>1. 1 \in Int /\ n \in Int /\ n <= Len(r) /\ \A i \in 1..n : r[i] \in Frame
    BY <1>1
  <2> HIDE DEF n
  <2>2. /\ p \in Seq(Frame) /\ Len(p) = (IF 1 <= n THEN n - 1 + 1 ELSE 0)
        /\ \A i \in 1..(n - 1 + 1) : p[i] = r[1 + i - 1]
    BY <2>1, SubSeqProperties
  <2> HIDE DEF p
  <2>3. Len(p) = Len(q) /\ \A i \in 1..Len(q) : p[i] = q[i]
    BY <1>1, <2>2 DEF n
  <2>4. p = q
    BY <2>2, <2>3, SeqEqual
  <2> QED
    BY <2>4 DEF p, n
<1> QED
  BY <1>1, <1>2, <1>3 DEF IsPrefix, r

\* What the recorder's tap has been given is the audio on the wire, in order and
\* once, and at most the frame in the pump's hand besides (writePump, downlinkTap).
THEOREM RecordingFollowsWire == Spec => []RecordedMatchesWire
<1>1. Init => TapFollowsWire
  <2> SUFFICES ASSUME Init PROVE TapFollowsWire
    OBVIOUS
  <2>1. wire = <<>> /\ tapped = <<>> /\ pump = "select" /\ <<>> \in Seq(Frame)
    BY DEF Init
  <2>2. AudioOf(<<>>) = <<>>
    BY AudioOfEmpty
  <2> QED
    BY <2>1, <2>2 DEF TapFollowsWire
<1>2. IInv /\ TapFollowsWire => RecordedMatchesWire
  <2> SUFFICES ASSUME IInv, TapFollowsWire PROVE RecordedMatchesWire
    OBVIOUS
  <2> DEFINE a == AudioOf(wire)
  <2> HIDE DEF a
  <2>1. a \in Seq(Frame) /\ (tapped = a \/ \E f \in Frame : tapped = Append(a, f))
    <3>1. pump \in {"tap", "write"} => Last(taken) \in Frame
      BY InHand
    <3> QED
      BY <3>1 DEF IInv, TypeOK, TapFollowsWire, a
  <2>2. CASE tapped = a
    <3>1. IsPrefix(a, a) /\ Len(a) \in Nat
      BY <2>1, PrefixSelf
    <3> QED
      BY <2>2, <3>1 DEF RecordedMatchesWire, a
  <2>3. ASSUME NEW f \in Frame, tapped = Append(a, f) PROVE RecordedMatchesWire
    BY <2>1, <2>3, PrefixAppend DEF RecordedMatchesWire, a
  <2> QED
    BY <2>1, <2>2, <2>3
<1> QED
  BY <1>1, <1>2, Inductive, TapFollowsWireStep, PTL DEF Spec

=============================================================================
