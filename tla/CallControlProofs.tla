------------------------- MODULE CallControlProofs -------------------------
(***************************************************************************)
(* Proofs about CallControl, for any clients, any commands and any bounds. *)
(*                                                                         *)
(* What a client was answered is inductive once it is known that the       *)
(* connection of a client that never came is not up (ClientsOK).  What the *)
(* agent heard is inductive once it is known when its connection may be up *)
(* and that the start frame was written on it (LinkInv), and how many      *)
(* frames are behind serveWS, the one in its hands left out (Forwarded).   *)
(***************************************************************************)
EXTENDS CallControl, TLAPS, NaturalsInduction, SequenceTheorems, WellFoundedInduction

ConnStates == {"none", "up", "gone", "closed"}
Points == {"none", "read", "execute", "clear", "esl", "reply", "leave", "cancel", "done"}

ClientTypes ==
    /\ conn \in [Clients -> ConnStates] /\ control \in [Clients -> Points]
    /\ commands \in [Clients -> Nat] /\ replies \in [Clients -> Seq(Nat)]

Answered(c) == \A i \in 1..Len(replies[c]) : replies[c][i] = i

Pending(c) ==
    conn[c] = "up" => commands[c] = Len(replies[c]) + (IF control[c] = "read" THEN 0 ELSE 1)

Newcomer(c) ==
    control[c] = "none" => conn[c] # "up" /\ commands[c] = 0 /\ replies[c] = <<>>

ClientOK(c) == Answered(c) /\ Pending(c) /\ Newcomer(c)

ClientsOK == ClientTypes /\ \A c \in Clients : ClientOK(c)

-----------------------------------------------------------------------------
(* The clients.                                                            *)

\* Nobody came yet.
LEMMA ClientsInit == Init => ClientsOK
<1> SUFFICES ASSUME CsInit
             PROVE  ClientsOK
  BY DEF Init
<1>1. ClientTypes
  BY DEF CsInit, ClientTypes, ConnStates, Points
<1>2. ASSUME NEW c \in Clients
      PROVE  ClientOK(c)
  <2>1. conn[c] = "none" /\ control[c] = "none" /\ commands[c] = 0 /\ replies[c] = <<>>
    BY DEF CsInit
  <2>2. Len(replies[c]) = 0
    BY <2>1
  <2> QED
    BY <2>1, <2>2 DEF ClientOK, Answered, Pending, Newcomer
<1> QED
  BY <1>1, <1>2 DEF ClientsOK

\* What another does leaves a client as it was.
LEMMA ClientKept ==
    ASSUME NEW c, ClientOK(c), conn'[c] = conn[c], control'[c] = control[c],
           commands'[c] = commands[c], replies'[c] = replies[c]
    PROVE  ClientOK(c)'
BY DEF ClientOK, Answered, Pending, Newcomer

\* A step of one client's own: the types, and that client after it.
LEMMA ClientStep ==
    ASSUME ClientsOK, NEW c \in Clients,
           \/ Connect(c) \/ \E cmd \in Commands : ReadCommand(c, cmd)
           \/ \E found \in BOOLEAN : Execute(c, found)
           \/ Clear(c) \/ EslReturns(c) \/ WriteReply(c) \/ ReadCommandFails(c)
           \/ Leave(c) \/ CloseClient(c) \/ PushEvent(c) \/ Disconnect(c)
    PROVE  ClientsOK'
<1> USE DEF ClientsOK, ClientTypes, Go, ConnStates, Points
<1>1. /\ conn[c] \in ConnStates /\ control[c] \in Points /\ commands[c] \in Nat
      /\ replies[c] \in Seq(Nat) /\ Len(replies[c]) \in Nat /\ ClientOK(c)
  OBVIOUS
<1>2. ASSUME ClientTypes', ClientOK(c)',
             \A d \in Clients \ {c} : /\ conn'[d] = conn[d] /\ control'[d] = control[d]
                                      /\ commands'[d] = commands[d] /\ replies'[d] = replies[d]
      PROVE  ClientsOK'
  <2>1. \A d \in Clients \ {c} : ClientOK(d)'
    BY <1>2, ClientKept
  <2> QED
    BY <1>2, <2>1
<1> HIDE DEF ClientsOK
<1>3. CASE Connect(c)
  <2>1. ClientTypes'
    BY <1>1, <1>3 DEF Connect, ClientsOK
  <2>2. ClientOK(c)'
    BY <1>1, <1>3 DEF Connect, ClientsOK, ClientOK, Answered, Pending, Newcomer
  <2> QED
    BY <1>2, <1>3, <2>1, <2>2 DEF Connect, ClientsOK
<1>4. CASE \E cmd \in Commands : ReadCommand(c, cmd)
  <2>1. ClientTypes'
    BY <1>1, <1>4 DEF ReadCommand, ClientsOK
  <2>2. ClientOK(c)'
    BY <1>1, <1>4 DEF ReadCommand, ClientsOK, ClientOK, Answered, Pending, Newcomer
  <2> QED
    BY <1>2, <1>4, <2>1, <2>2 DEF ReadCommand, ClientsOK
<1>5. CASE \/ \E found \in BOOLEAN : Execute(c, found)
           \/ Clear(c) \/ EslReturns(c) \/ ReadCommandFails(c) \/ Leave(c)
  <2>1. ClientTypes'
    BY <1>1, <1>5 DEF Execute, Clear, EslReturns, ReadCommandFails, Leave, ClientsOK
  <2>2. ClientOK(c)'
    BY <1>1, <1>5 DEF Execute, Clear, EslReturns, ReadCommandFails, Leave, ClientsOK,
                      ClientOK, Answered, Pending, Newcomer
  <2> QED
    BY <1>2, <1>5, <2>1, <2>2 DEF Execute, Clear, EslReturns, ReadCommandFails, Leave, ClientsOK
<1>6. CASE WriteReply(c)
  <2>1. CASE /\ conn[c] = "up" /\ UNCHANGED conn
             /\ replies' = [replies EXCEPT ![c] = Append(@, commands[c])]
    <3>1. replies'[c] = Append(replies[c], Len(replies[c]) + 1)
      BY <1>1, <1>6, <2>1 DEF WriteReply, ClientsOK, ClientOK, Pending
    <3>2. ClientTypes'
      BY <1>1, <1>6, <2>1 DEF WriteReply, ClientsOK
    <3>3. Answered(c)'
      BY <1>1, <3>1 DEF ClientOK, Answered
    <3>4. Pending(c)' /\ Newcomer(c)'
      BY <1>1, <1>6, <2>1, <3>1 DEF WriteReply, ClientsOK, ClientOK, Pending, Newcomer
    <3> QED
      BY <1>2, <1>6, <2>1, <3>2, <3>3, <3>4 DEF WriteReply, ClientsOK, ClientOK
  <2>2. CASE Lost(c) /\ UNCHANGED replies
    <3>1. ClientTypes'
      BY <1>1, <1>6, <2>2 DEF WriteReply, Lost, ClientsOK
    <3>2. ClientOK(c)'
      BY <1>1, <1>6, <2>2 DEF WriteReply, Lost, ClientsOK, ClientOK, Answered, Pending, Newcomer
    <3> QED
      BY <1>2, <1>6, <2>2, <3>1, <3>2 DEF WriteReply, Lost, ClientsOK
  <2> QED
    BY <1>6, <2>1, <2>2 DEF WriteReply
<1>7. CASE CloseClient(c) \/ PushEvent(c) \/ Disconnect(c)
  <2>1. ClientTypes'
    BY <1>1, <1>7 DEF CloseClient, PushEvent, Disconnect, Lost, ClientsOK
  <2>2. ClientOK(c)'
    BY <1>1, <1>7 DEF CloseClient, PushEvent, Disconnect, Lost, ClientsOK,
                      ClientOK, Answered, Pending, Newcomer
  <2> QED
    BY <1>2, <1>7, <2>1, <2>2 DEF CloseClient, PushEvent, Disconnect, Lost, ClientsOK
<1> QED
  BY <1>3, <1>4, <1>5, <1>6, <1>7
\* What the call, its agent and the bus do leaves every client as it was.
LEMMA ClientsUnchanged ==
    ASSUME ClientsOK, UNCHANGED clientVars
    PROVE  ClientsOK'
BY DEF ClientsOK, ClientTypes, ClientOK, Answered, Pending, Newcomer, clientVars

\* Every step keeps what is known of the clients.
LEMMA ClientsNext == ClientsOK /\ [Next]_vars => ClientsOK'
<1> SUFFICES ASSUME ClientsOK, [Next]_vars
             PROVE  ClientsOK'
  OBVIOUS
<1> USE DEF Aside, Quietly
<1>1. CASE Serve \/ AgentReader
  BY <1>1, ClientsUnchanged DEF Serve, AgentReader, Publish, csVars
<1>2. CASE Others
  <2>1. ASSUME NEW c \in Clients, Connect(c) \/ Disconnect(c)
        PROVE  ClientsOK'
    BY <2>1, ClientStep
  <2>2. ASSUME NEW c \in Clients, NEW cmd \in Commands, ReadCommand(c, cmd)
        PROVE  ClientsOK'
    BY <2>2, ClientStep
  <2>3. CASE UNCHANGED csVars
    BY <2>3, ClientsUnchanged DEF csVars
  <2> QED
    BY <1>2, <2>1, <2>2, <2>3 DEF Others
<1>3. ASSUME NEW c \in Clients, Esl(c)
      PROVE  ClientsOK'
  BY <1>3, ClientStep DEF Esl
<1>4. ASSUME NEW c \in Clients, Control_(c)
      PROVE  ClientsOK'
  <2>1. CASE Execute(c, listed)
    <3>1. \E found \in BOOLEAN : Execute(c, found)
      BY <2>1 DEF Execute
    <3> QED
      BY <3>1, ClientStep
  <2>2. CASE ~Execute(c, listed)
    BY <1>4, <2>2, ClientStep DEF Control_
  <2> QED
    BY <2>1, <2>2
<1>5. ASSUME NEW c \in Clients, Pusher(c)
      PROVE  ClientsOK'
  <2>1. CASE PushEvent(c)
    BY <2>1, ClientStep
  <2>2. CASE TakeEvent(c) \/ RangeEnds(c)
    BY <2>2, ClientsUnchanged DEF TakeEvent, RangeEnds
  <2> QED
    BY <1>5, <2>1, <2>2 DEF Pusher
<1>6. CASE UNCHANGED vars
  BY <1>6, ClientsUnchanged DEF vars, csVars
<1> QED
  BY <1>1, <1>2, <1>3, <1>4, <1>5, <1>6 DEF Next

\* Every command of every client is answered once and in order (writeReply), while it is
\* there, whatever the call, its agent and the other clients do.
THEOREM CommandsAnswered == Spec => []RepliesAnswerCommands
<1>1. ClientsOK => RepliesAnswerCommands
  BY DEF ClientsOK, ClientTypes, ClientOK, Answered, Pending, RepliesAnswerCommands
<1> QED
  BY ClientsInit, ClientsNext, <1>1, PTL DEF Spec
-----------------------------------------------------------------------------
(* Induction on the natural numbers, for sets.  The library's induction    *)
(* theorems take a predicate as a parameter, which the provers cannot      *)
(* instantiate; a set of numbers says as much.                             *)

\* A set of natural numbers that is not empty has a least element.
LEMMA LeastNumber ==
    ASSUME NEW T, T \subseteq Nat, T # {}
    PROVE  \E x \in T : \A y \in T : ~(y < x)
<1> DEFINE R == OpToRel(<, Nat)
<1>1. IsWellFoundedOn(R, Nat)
  BY NatLessThanWellFounded
<1>2. \A x, y \in Nat : <<y, x>> \in R <=> y < x
  BY DEF OpToRel
<1> HIDE DEF R
<1>3. \E x \in T : \A y \in T : ~(<<y, x>> \in R)
  BY <1>1, WFMin
<1> QED
  BY <1>2, <1>3

\* A set that holds 0, and with a number its successor, holds every number.
LEMMA SetInduction ==
    ASSUME NEW S, 0 \in S, \A n \in S \intersect Nat : n + 1 \in S
    PROVE  Nat \subseteq S
<1> DEFINE T == Nat \ S
<1> SUFFICES ASSUME T # {} PROVE FALSE
  OBVIOUS
<1>1. PICK x \in T : \A y \in T : ~(y < x)
  BY LeastNumber
<1>2. x # 0 /\ x - 1 \in Nat /\ x - 1 \in S /\ (x - 1) + 1 = x
  BY <1>1
<1>3. x \in S
  BY <1>2
<1> QED
  BY <1>3

-----------------------------------------------------------------------------
(* The frames of a sequence that are relayed.                              *)

\* A is the function Relayed defines, on the first n frames of q.
Relays(A, q, n) ==
    A = [i \in 0..n |-> IF i = 0 THEN <<>>
                        ELSE IF q[i] # "plain" THEN Append(A[i - 1], q[i]) ELSE A[i - 1]]

\* The recursive definition has a solution, for every length.
LEMMA RelaysExists ==
    ASSUME NEW q, NEW n \in Nat
    PROVE  \E A : Relays(A, q, n)
<1> DEFINE S == {m \in Nat : \E A : Relays(A, q, m)}
<1>1. 0 \in S
  <2>1. Relays([i \in 0..0 |-> <<>>], q, 0)
    BY DEF Relays
  <2> QED
    BY <2>1
<1>2. ASSUME NEW m \in S \intersect Nat PROVE m + 1 \in S
  <2>1. PICK A : Relays(A, q, m)
    OBVIOUS
  <2> DEFINE last == IF q[m + 1] # "plain" THEN Append(A[m], q[m + 1]) ELSE A[m]
             B == [i \in 0..(m + 1) |-> IF i = m + 1 THEN last ELSE A[i]]
             step(i) == IF i = 0 THEN <<>>
                        ELSE IF q[i] # "plain" THEN Append(B[i - 1], q[i]) ELSE B[i - 1]
  <2>2. ASSUME NEW i \in 0..(m + 1) PROVE B[i] = step(i)
    <3>1. CASE i = m + 1
      <4>1. m \in 0..(m + 1) /\ m # m + 1 /\ (m + 1) - 1 = m /\ m + 1 # 0 /\ m + 1 \in 0..(m + 1)
        OBVIOUS
      <4>2. B[m] = A[m] /\ B[m + 1] = last
        BY <4>1
      <4> HIDE DEF B
      <4> QED
        BY <3>1, <4>1, <4>2
    <3>2. CASE i \in 0..m
      <4>1. i # m + 1 /\ (i # 0 => i - 1 \in 0..(m + 1) /\ i - 1 # m + 1 /\ i - 1 \in 0..m)
        BY <3>2
      <4>2. B[i] = A[i] /\ (i # 0 => B[i - 1] = A[i - 1])
        BY <4>1
      <4> HIDE DEF B, last
      <4>3. A[i] = IF i = 0 THEN <<>>
                   ELSE IF q[i] # "plain" THEN Append(A[i - 1], q[i]) ELSE A[i - 1]
        BY <2>1, <3>2 DEF Relays
      <4> QED
        BY <4>2, <4>3
    <3> QED
      BY <3>1, <3>2
  <2>3. B = [i \in 0..(m + 1) |-> B[i]]
    OBVIOUS
  <2> HIDE DEF B, last
  <2>4. B = [i \in 0..(m + 1) |-> step(i)]
    BY <2>2, <2>3
  <2>5. Relays(B, q, m + 1)
    BY <2>4 DEF Relays
  <2> QED
    BY <2>5
<1> HIDE DEF S
<1>3. n \in S
  BY <1>1, <1>2, SetInduction
<1> QED
  BY <1>3 DEF S

\* Two solutions agree as far as both go, when the frames they read do.
LEMMA RelaysUnique ==
    ASSUME NEW q, NEW r, NEW m \in Nat, NEW n \in Nat, m <= n, NEW A, NEW B,
           \A i \in 1..m : q[i] = r[i],
           Relays(A, q, m), Relays(B, r, n)
    PROVE  \A i \in 0..m : A[i] = B[i]
<1> DEFINE S == {i \in Nat : i <= m => A[i] = B[i]}
<1>1. 0 \in S
  BY DEF Relays
<1>2. ASSUME NEW i \in S \intersect Nat PROVE i + 1 \in S
  <2> SUFFICES ASSUME i + 1 <= m PROVE A[i + 1] = B[i + 1]
    OBVIOUS
  <2>1. A[i] = B[i] /\ i + 1 \in 0..m /\ i + 1 \in 0..n /\ i + 1 # 0 /\ (i + 1) - 1 = i
        /\ q[i + 1] = r[i + 1]
    OBVIOUS
  <2>2. A[i + 1] = IF q[i + 1] # "plain" THEN Append(A[i], q[i + 1]) ELSE A[i]
    BY <2>1 DEF Relays
  <2>3. B[i + 1] = IF r[i + 1] # "plain" THEN Append(B[i], r[i + 1]) ELSE B[i]
    BY <2>1 DEF Relays
  <2> QED
    BY <2>1, <2>2, <2>3
<1> HIDE DEF S
<1>3. Nat \subseteq S
  BY <1>1, <1>2, SetInduction
<1> QED
  BY <1>3 DEF S

\* Relayed is the value of a solution.
LEMMA RelayedIs ==
    ASSUME NEW q, Len(q) \in Nat
    PROVE  \E A : Relays(A, q, Len(q)) /\ Relayed(q) = A[Len(q)]
<1> DEFINE A == CHOOSE f : Relays(f, q, Len(q))
<1>1. Relays(A, q, Len(q))
  BY RelaysExists
<1>2. Relayed(q) = A[Len(q)]
  BY DEF Relayed, Relays
<1> QED
  BY <1>1, <1>2

\* What is relayed of nothing.
LEMMA RelayedEmpty == Relayed(<<>>) = <<>>
<1>1. Len(<<>>) = 0 /\ Len(<<>>) \in Nat
  OBVIOUS
<1>2. PICK A : Relays(A, <<>>, Len(<<>>)) /\ Relayed(<<>>) = A[Len(<<>>)]
  BY <1>1, RelayedIs
<1> QED
  BY <1>1, <1>2 DEF Relays

\* What is relayed of a sequence with a frame more.
LEMMA RelayedAppend ==
    ASSUME NEW q \in Seq(Kinds), NEW f \in Kinds
    PROVE  Relayed(Append(q, f)) = IF f # "plain" THEN Append(Relayed(q), f) ELSE Relayed(q)
<1> DEFINE n == Len(q)
           r == Append(q, f)
<1>1. n \in Nat /\ Len(r) = n + 1 /\ r[n + 1] = f /\ \A i \in 1..n : q[i] = r[i]
  BY AppendProperties
<1> HIDE DEF n, r
<1>3. PICK A : Relays(A, q, n) /\ Relayed(q) = A[n]
  BY <1>1, RelayedIs DEF n
<1>4. PICK B : Relays(B, r, n + 1) /\ Relayed(r) = B[n + 1]
  BY <1>1, RelayedIs
<1>5. A[n] = B[n]
  BY <1>1, <1>3, <1>4, RelaysUnique
<1>6. n + 1 \in 0..(n + 1) /\ n + 1 # 0 /\ (n + 1) - 1 = n
  BY <1>1
<1>7. B[n + 1] = IF r[n + 1] # "plain" THEN Append(B[n], r[n + 1]) ELSE B[n]
  BY <1>4, <1>6 DEF Relays
<1> QED
  BY <1>1, <1>3, <1>4, <1>5, <1>7 DEF r

\* What is relayed is a sequence of frames.
LEMMA RelayedIsSequence ==
    ASSUME NEW q \in Seq(Kinds)
    PROVE  Relayed(q) \in Seq(Kinds)
<1>1. Len(q) \in Nat /\ \A i \in 1..Len(q) : q[i] \in Kinds
  OBVIOUS
<1>2. PICK R : Relays(R, q, Len(q)) /\ Relayed(q) = R[Len(q)]
  BY <1>1, RelayedIs
<1> DEFINE S == {i \in Nat : i <= Len(q) => R[i] \in Seq(Kinds)}
<1>3. 0 \in S
  BY <1>1, <1>2 DEF Relays
<1>4. ASSUME NEW i \in S \intersect Nat PROVE i + 1 \in S
  <2> SUFFICES ASSUME i + 1 <= Len(q) PROVE R[i + 1] \in Seq(Kinds)
    OBVIOUS
  <2>1. /\ R[i] \in Seq(Kinds) /\ q[i + 1] \in Kinds
        /\ i + 1 \in 0..Len(q) /\ i + 1 # 0 /\ (i + 1) - 1 = i
    BY <1>1
  <2>2. R[i + 1] = IF q[i + 1] # "plain" THEN Append(R[i], q[i + 1]) ELSE R[i]
    BY <1>2, <2>1 DEF Relays
  <2> QED
    BY <2>1, <2>2
<1> HIDE DEF S
<1>5. Len(q) \in S
  BY <1>1, <1>3, <1>4, SetInduction
<1> QED
  BY <1>1, <1>2, <1>5 DEF S

-----------------------------------------------------------------------------
(* What the agent hears.                                                   *)

Stages == {"accepted", "dial", "start", "read", "forward", "close", "unlist", "end", "hangup",
           "announce", "done"}
Relaying == {"read", "forward", "close", "unlist", "end"}
Words == Kinds \union {"start", "stop"}

\* The start frame and what is relayed of the first n frames of the call.
Heard(q, n) == <<"start">> \o Relayed(SubSeq(q, 1, n))

\* How many frames OnAudio and OnText are done with.
Forwarded == IF serve = "forward" THEN Len(frames) - 1 ELSE Len(frames)

\* The agent heard a prefix of the call, all of it while its connection is up.
HeardPrefix(n) ==
    /\ link = "up" => n = Forwarded
    /\ \/ toAgent = Heard(frames, n) /\ (serve = "hangup" => link # "up")
       \/ /\ toAgent = Append(Heard(frames, n), "stop") /\ n = Forwarded
          /\ serve \in {"hangup", "announce", "done"}

AgentTypes ==
    /\ serve \in Stages /\ frames \in Seq(Kinds) /\ Len(frames) \in Nat
    /\ serve = "forward" => Len(frames) >= 1

\* When there is a connection and who knows it.
LinkInv ==
    /\ serve \in {"accepted", "dial"} => link = "none"
    /\ serve = "start" => joined
    /\ serve \in Relaying /\ link = "up" => joined /\ toAgent # <<>>
    /\ serve \in {"announce", "done"} => link # "up"

HeardInv ==
    /\ serve \in {"accepted", "dial", "start"} => toAgent = <<>> /\ frames = <<>>
    /\ toAgent # <<>> => \E n \in 0..Forwarded : HeardPrefix(n)

AgentInv == AgentTypes /\ LinkInv /\ HeardInv

\* What the agent heard is a sequence that is not empty.
LEMMA HeardIsSequence ==
    ASSUME NEW q \in Seq(Kinds), NEW n \in 0..Len(q)
    PROVE  Heard(q, n) \in Seq(Words) /\ Heard(q, n) # <<>>
<1>1. SubSeq(q, 1, n) \in Seq(Kinds)
  OBVIOUS
<1>2. Relayed(SubSeq(q, 1, n)) \in Seq(Kinds)
  BY <1>1, RelayedIsSequence
<1>3. Relayed(SubSeq(q, 1, n)) \in Seq(Words) /\ <<"start">> \in Seq(Words)
  BY <1>2 DEF Words
<1> HIDE DEF Words
<1> QED
  BY <1>3 DEF Heard

\* Another frame is heard, or it has no form on the agent's connection.
LEMMA HeardNext ==
    ASSUME NEW q \in Seq(Kinds), NEW n \in Nat, n < Len(q)
    PROVE  Heard(q, n + 1) =
                IF q[n + 1] # "plain" THEN Append(Heard(q, n), q[n + 1]) ELSE Heard(q, n)
<1> DEFINE r == SubSeq(q, 1, n)
<1>1. r \in Seq(Kinds) /\ q[n + 1] \in Kinds /\ Len(r) = n /\ \A i \in 1..n : r[i] = q[i]
  OBVIOUS
<1>2. SubSeq(q, 1, n + 1) = Append(r, q[n + 1])
  <2>1. /\ SubSeq(q, 1, n + 1) \in Seq(Kinds) /\ Len(SubSeq(q, 1, n + 1)) = n + 1
        /\ \A i \in 1..(n + 1) : SubSeq(q, 1, n + 1)[i] = q[i]
    OBVIOUS
  <2> HIDE DEF r
  <2>2. /\ Append(r, q[n + 1]) \in Seq(Kinds) /\ Len(Append(r, q[n + 1])) = n + 1
        /\ \A i \in 1..n : Append(r, q[n + 1])[i] = q[i]
        /\ Append(r, q[n + 1])[n + 1] = q[n + 1]
    BY <1>1, AppendProperties
  <2> QED
    BY <2>1, <2>2
<1> HIDE DEF r
<1>3. Relayed(Append(r, q[n + 1])) =
        IF q[n + 1] # "plain" THEN Append(Relayed(r), q[n + 1]) ELSE Relayed(r)
  BY <1>1, RelayedAppend
<1>4. Relayed(r) \in Seq(Kinds)
  BY <1>1, RelayedIsSequence
<1>5. <<"start">> \o Append(Relayed(r), q[n + 1]) = Append(<<"start">> \o Relayed(r), q[n + 1])
  <2>1. <<"start">> \in Seq(Words) /\ Relayed(r) \in Seq(Words) /\ q[n + 1] \in Words
    BY <1>1, <1>4 DEF Words
  <2> HIDE DEF Words
  <2> QED
    BY <2>1, AppendIsConcat, ConcatAssociative
<1> QED
  BY <1>2, <1>3, <1>5 DEF Heard, r

\* A frame more in the call changes nothing of what was heard.
LEMMA HeardStays ==
    ASSUME NEW q \in Seq(Kinds), NEW k \in Kinds, NEW n \in 0..Len(q)
    PROVE  Heard(Append(q, k), n) = Heard(q, n)
<1>1. SubSeq(Append(q, k), 1, n) = SubSeq(q, 1, n)
  OBVIOUS
<1> QED
  BY <1>1 DEF Heard
\* Nothing was said yet.
LEMMA AgentInit == Init => AgentInv
<1> SUFFICES ASSUME AfInit
             PROVE  AgentInv
  BY DEF Init
<1>1. frames \in Seq(Kinds) /\ Len(frames) = 0
  BY DEF AfInit
<1> QED
  BY <1>1 DEF AfInit, AgentInv, AgentTypes, LinkInv, HeardInv, Stages, Relaying

\* A step after which the agent has heard what it had, and has no new connection.
LEMMA AgentKept ==
    ASSUME AgentInv, UNCHANGED <<serve, frames, joined, toAgent>>,
           UNCHANGED link \/ (link = "up" /\ link' = "cut")
    PROVE  AgentInv'
<1>1. UNCHANGED Forwarded
  BY DEF Forwarded
<1>2. AgentTypes' /\ LinkInv'
  BY DEF AgentInv, AgentTypes, LinkInv
<1>3. ASSUME NEW n \in 0..Forwarded, HeardPrefix(n)
      PROVE  HeardPrefix(n)'
  BY <1>1, <1>3 DEF HeardPrefix, Heard
<1> QED
  BY <1>1, <1>2, <1>3 DEF AgentInv, HeardInv

\* serveWS goes on to where the agent hears nothing new.
LEMMA ServeGoesOn ==
    ASSUME AgentInv, UNCHANGED <<frames, joined, toAgent, link>>,
           \/ ServeGo("accepted", "dial") \/ ServeGo("read", "close")
           \/ ServeGo("close", "unlist") \/ ServeGo("unlist", "end")
           \/ ServeGo("announce", "done")
    PROVE  AgentInv'
<1>1. UNCHANGED Forwarded
  BY DEF Forwarded, ServeGo
<1>2. AgentTypes' /\ LinkInv'
  BY DEF AgentInv, AgentTypes, LinkInv, ServeGo, Stages, Relaying
<1>3. ASSUME NEW n \in 0..Forwarded, HeardPrefix(n)
      PROVE  HeardPrefix(n)'
  BY <1>1, <1>3 DEF HeardPrefix, Heard, ServeGo
<1> QED
  BY <1>1, <1>2, <1>3 DEF AgentInv, HeardInv, ServeGo

\* OnStart has dialled the agent, or given up.
LEMMA AgentDial == AgentInv /\ Dial => AgentInv'
<1> SUFFICES ASSUME AgentInv, Dial
             PROVE  AgentInv'
  OBVIOUS
<1>1. toAgent = <<>> /\ frames = <<>> /\ link = "none" /\ UNCHANGED <<frames, toAgent>>
  BY DEF AgentInv, HeardInv, LinkInv, Dial, ServeGo
<1>2. AgentTypes' /\ LinkInv'
  BY <1>1 DEF AgentInv, AgentTypes, LinkInv, Dial, ServeGo, Stages, Relaying
<1>3. HeardInv'
  BY <1>1 DEF HeardInv, Dial, ServeGo
<1> QED
  BY <1>2, <1>3 DEF AgentInv

\* The start frame is the first thing the agent hears, or it hears nothing.
LEMMA AgentStart == AgentInv /\ WriteStart => AgentInv'
<1> SUFFICES ASSUME AgentInv, WriteStart
             PROVE  AgentInv'
  OBVIOUS
<1>1. toAgent = <<>> /\ frames = <<>> /\ joined /\ UNCHANGED frames
      /\ serve' = "read" /\ Len(frames) = 0 /\ frames \in Seq(Kinds)
  BY DEF AgentInv, AgentTypes, HeardInv, LinkInv, WriteStart, ServeGo
<1>2. AgentTypes'
  BY <1>1 DEF AgentTypes, Stages
<1>3. CASE Written("start") /\ UNCHANGED joined
  <2>1. toAgent' = <<"start">> /\ toAgent' # <<>>
    BY <1>1, <1>3 DEF Written
  <2>2. Heard(frames, 0) = <<"start">>
    <3>1. SubSeq(frames, 1, 0) = <<>>
      BY <1>1
    <3>2. <<"start">> \o <<>> = <<"start">>
      <4>1. <<"start">> \in Seq({"start"})
        OBVIOUS
      <4> QED
        BY <4>1, ConcatEmptySeq
    <3> QED
      BY <3>1, <3>2, RelayedEmpty DEF Heard
  <2>3. Forwarded' = 0
    BY <1>1 DEF Forwarded
  <2>4. LinkInv'
    BY <1>1, <2>1, <1>3 DEF LinkInv, Relaying
  <2>5. HeardPrefix(0)'
    BY <1>1, <2>1, <2>2, <2>3 DEF HeardPrefix, Heard
  <2> QED
    BY <1>1, <1>2, <2>3, <2>4, <2>5 DEF AgentInv, HeardInv
<1>4. CASE link' = "closed" /\ UNCHANGED toAgent
  <2>1. LinkInv' /\ HeardInv'
    BY <1>1, <1>4 DEF LinkInv, HeardInv, Relaying
  <2> QED
    BY <1>2, <2>1 DEF AgentInv
<1> QED
  BY <1>3, <1>4 DEF WriteStart

\* A frame readPump read was not heard yet.
LEMMA AgentReadFrame ==
    ASSUME AgentInv, NEW kind \in Kinds, ReadFrame(kind)
    PROVE  AgentInv'
<1>1. /\ frames \in Seq(Kinds) /\ Len(frames) \in Nat /\ frames' = Append(frames, kind)
      /\ serve = "read" /\ serve' = "forward" /\ UNCHANGED <<joined, toAgent, link>>
  BY DEF AgentInv, AgentTypes, ReadFrame, ServeGo
<1>2. frames' \in Seq(Kinds) /\ Len(frames') = Len(frames) + 1
  BY <1>1
<1>3. AgentTypes' /\ LinkInv'
  BY <1>1, <1>2 DEF AgentInv, AgentTypes, LinkInv, Stages, Relaying
<1>4. Forwarded' = Forwarded /\ Forwarded = Len(frames)
  BY <1>1, <1>2 DEF Forwarded
<1>5. ASSUME NEW n \in 0..Forwarded, HeardPrefix(n)
      PROVE  HeardPrefix(n)'
  <2>1. Heard(frames', n) = Heard(frames, n)
    BY <1>1, <1>4, HeardStays
  <2> QED
    BY <1>1, <1>4, <1>5, <2>1 DEF HeardPrefix, Heard
<1> QED
  BY <1>1, <1>3, <1>4, <1>5 DEF AgentInv, HeardInv

\* It is heard next, or the connection is cut.
LEMMA AgentForward == AgentInv /\ Forward => AgentInv'
<1> SUFFICES ASSUME AgentInv, Forward
             PROVE  AgentInv'
  OBVIOUS
<1>1. /\ frames \in Seq(Kinds) /\ Len(frames) \in Nat /\ Len(frames) >= 1
      /\ serve = "forward" /\ serve' = "read" /\ UNCHANGED <<frames, joined>>
  BY DEF AgentInv, AgentTypes, Forward, ServeGo
<1>2. AgentTypes'
  BY <1>1 DEF AgentTypes, Stages
<1>3. Forwarded = Len(frames) - 1 /\ Forwarded' = Len(frames)
  BY <1>1 DEF Forwarded
<1>8. Heard(frames, Len(frames)) =
        IF frames[Len(frames)] # "plain"
        THEN Append(Heard(frames, Len(frames) - 1), frames[Len(frames)])
        ELSE Heard(frames, Len(frames) - 1)
  <2> DEFINE n == Len(frames) - 1
  <2>1. n \in Nat /\ n < Len(frames) /\ n + 1 = Len(frames)
    BY <1>1
  <2>2. Heard(frames, n + 1) =
            IF frames[n + 1] # "plain" THEN Append(Heard(frames, n), frames[n + 1])
            ELSE Heard(frames, n)
    BY <1>1, <2>1, HeardNext
  <2> QED
    BY <2>1, <2>2
<1> DEFINE frame == frames[Len(frames)]
<1>4. CASE frame # "plain" /\ Written(frame)
  <2>1. joined /\ toAgent # <<>>
    BY <1>1, <1>4 DEF AgentInv, LinkInv, Written, Relaying
  <2>2. HeardPrefix(Forwarded)
    BY <1>4, <2>1 DEF AgentInv, HeardInv, Written, HeardPrefix
  <2>3. toAgent = Heard(frames, Len(frames) - 1)
    BY <1>1, <1>3, <2>2 DEF HeardPrefix
  <2>4. toAgent' = Heard(frames, Len(frames))
    <3>1. Heard(frames, Len(frames)) = Append(Heard(frames, Len(frames) - 1), frame)
      BY <1>1, <1>4, <1>8
    <3> QED
      BY <1>4, <2>3, <3>1 DEF Written
  <2>5. toAgent' # <<>>
    BY <1>1, <2>4, HeardIsSequence
  <2>6. LinkInv'
    BY <1>1, <2>1, <2>5, <1>4 DEF LinkInv, Relaying, Written
  <2>7. HeardPrefix(Len(frames))'
    BY <1>1, <1>3, <2>4 DEF HeardPrefix, Heard
  <2> QED
    BY <1>1, <1>2, <1>3, <2>6, <2>7 DEF AgentInv, HeardInv
<1>5. CASE frame # "plain" /\ WriteFails
  <2>1. LinkInv'
    BY <1>1, <1>5 DEF LinkInv, Relaying, WriteFails
  <2>2. ASSUME NEW n \in 0..Forwarded, HeardPrefix(n)
        PROVE  n \in 0..Forwarded' /\ HeardPrefix(n)'
    BY <1>1, <1>3, <1>5, <2>2 DEF HeardPrefix, Heard, WriteFails
  <2>3. HeardInv'
    BY <1>1, <1>5, <2>2 DEF AgentInv, HeardInv, WriteFails
  <2> QED
    BY <1>2, <2>1, <2>3 DEF AgentInv
<1>6. CASE frame = "plain" /\ UNCHANGED <<link, toAgent>>
  <2>1. LinkInv'
    BY <1>1, <1>6 DEF AgentInv, LinkInv, Relaying
  <2>2. Heard(frames, Len(frames)) = Heard(frames, Len(frames) - 1)
    BY <1>6, <1>8
  <2>3. ASSUME NEW n \in 0..Forwarded, HeardPrefix(n)
        PROVE  \E m \in 0..Forwarded' : HeardPrefix(m)'
    <3>1. toAgent = Heard(frames, n)
      BY <1>1, <2>3 DEF HeardPrefix
    <3>2. CASE link = "up"
      <4>1. n = Len(frames) - 1
        BY <1>3, <2>3, <3>2 DEF HeardPrefix
      <4>2. HeardPrefix(Len(frames))'
        BY <1>1, <1>3, <1>6, <2>2, <3>1, <4>1 DEF HeardPrefix, Heard
      <4> QED
        BY <1>1, <1>3, <4>2
    <3>3. CASE link # "up"
      <4>1. HeardPrefix(n)' /\ n \in 0..Forwarded'
        BY <1>1, <1>3, <1>6, <3>1, <3>3 DEF HeardPrefix, Heard
      <4> QED
        BY <4>1
    <3> QED
      BY <3>2, <3>3
  <2>4. HeardInv'
    BY <1>1, <1>6, <2>3 DEF AgentInv, HeardInv
  <2> QED
    BY <1>2, <2>1, <2>4 DEF AgentInv
<1> QED
  BY <1>4, <1>5, <1>6 DEF Forward
\* Stop comes behind the last frame, or the connection is cut or was never there.
LEMMA AgentStop == AgentInv /\ WriteStop => AgentInv'
<1> SUFFICES ASSUME AgentInv, WriteStop
             PROVE  AgentInv'
  OBVIOUS
<1>1. /\ frames \in Seq(Kinds) /\ Len(frames) \in Nat /\ UNCHANGED frames /\ serve = "end"
      /\ serve' \in {"announce", "hangup"}
  BY DEF AgentInv, AgentTypes, WriteStop, ServeGo
<1>2. AgentTypes'
  BY <1>1 DEF AgentTypes, Stages
<1>3. Forwarded = Len(frames) /\ Forwarded' = Forwarded
  BY <1>1 DEF Forwarded
<1>4. CASE ~joined /\ serve' = "announce" /\ UNCHANGED <<link, toAgent>>
  <2>1. link # "up"
    BY <1>1, <1>4 DEF AgentInv, LinkInv, Relaying
  <2>2. LinkInv'
    BY <1>1, <1>4, <2>1 DEF LinkInv, Relaying
  <2>3. ASSUME NEW n \in 0..Forwarded, HeardPrefix(n)
        PROVE  HeardPrefix(n)'
    BY <1>1, <1>3, <1>4, <2>3 DEF HeardPrefix, Heard
  <2> QED
    BY <1>1, <1>2, <1>3, <1>4, <2>2, <2>3 DEF AgentInv, HeardInv
<1>5. CASE serve' = "hangup" /\ Written("stop")
  <2>1. toAgent # <<>>
    BY <1>1, <1>5 DEF AgentInv, LinkInv, Written, Relaying
  <2>2. HeardPrefix(Forwarded)
    BY <1>5, <2>1 DEF AgentInv, HeardInv, Written, HeardPrefix
  <2>3. toAgent' = Append(Heard(frames, Forwarded), "stop")
    BY <1>1, <1>5, <2>2 DEF HeardPrefix, Written
  <2>4. HeardPrefix(Forwarded)'
    BY <1>1, <1>3, <1>5, <2>3 DEF HeardPrefix, Heard
  <2>5. LinkInv'
    BY <1>5 DEF LinkInv, Relaying
  <2> QED
    BY <1>1, <1>2, <1>3, <1>5, <2>4, <2>5 DEF AgentInv, HeardInv
<1>6. CASE serve' = "hangup" /\ WriteFails
  <2>1. LinkInv'
    BY <1>6 DEF LinkInv, Relaying
  <2>2. ASSUME NEW n \in 0..Forwarded, HeardPrefix(n)
        PROVE  HeardPrefix(n)'
    BY <1>1, <1>3, <1>6, <2>2 DEF HeardPrefix, Heard, WriteFails
  <2> QED
    BY <1>1, <1>2, <1>3, <1>6, <2>1, <2>2 DEF AgentInv, HeardInv, WriteFails
<1> QED
  BY <1>4, <1>5, <1>6 DEF WriteStop, ServeGo

\* From then on there is no connection.
LEMMA AgentClose == AgentInv /\ CloseAgent => AgentInv'
<1> SUFFICES ASSUME AgentInv, CloseAgent
             PROVE  AgentInv'
  OBVIOUS
<1>1. /\ UNCHANGED <<frames, toAgent>> /\ serve = "hangup" /\ serve' = "announce"
      /\ link' = "closed"
  BY DEF CloseAgent, ServeGo
<1>2. UNCHANGED Forwarded
  BY <1>1 DEF Forwarded
<1>3. AgentTypes' /\ LinkInv'
  BY <1>1 DEF AgentInv, AgentTypes, LinkInv, Stages, Relaying
<1>4. ASSUME NEW n \in 0..Forwarded, HeardPrefix(n)
      PROVE  HeardPrefix(n)'
  BY <1>1, <1>2, <1>4 DEF HeardPrefix, Heard
<1> QED
  BY <1>1, <1>2, <1>3, <1>4 DEF AgentInv, HeardInv

\* Every step keeps what is known of the agent.
LEMMA AgentNext == AgentInv /\ [Next]_vars => AgentInv'
<1> SUFFICES ASSUME AgentInv, [Next]_vars
             PROVE  AgentInv'
  OBVIOUS
<1> USE DEF Aside, Quietly
<1>1. CASE UNCHANGED afVars
  BY <1>1, AgentKept DEF afVars
<1>2. CASE Serve
  <2>1. CASE Accepted \/ ReadFails \/ CloseSession \/ Unlist \/ Announced
    BY <2>1, ServeGoesOn DEF Accepted, ReadFails, CloseSession, Unlist, Announced
  <2>2. CASE Dial \/ WriteStart \/ Forward \/ WriteStop \/ CloseAgent
    BY <2>2, AgentDial, AgentStart, AgentForward, AgentStop, AgentClose
  <2> QED
    BY <1>2, <2>1, <2>2 DEF Serve
<1>3. CASE AgentReader
  BY <1>3, AgentKept DEF AgentReader, EventPublished, PlayToCaller, KillCall, ReadAgentFails
<1>4. CASE Others
  <2>1. CASE Hangup \/ AgentLeaves
    BY <2>1, AgentKept DEF Hangup, AgentLeaves
  <2>2. ASSUME NEW kind \in Kinds, ReadFrame(kind)
        PROVE  AgentInv'
    BY <2>2, AgentReadFrame
  <2>3. ASSUME NEW wish \in Wishes, ReadAgent(wish)
        PROVE  AgentInv'
    BY <2>3, AgentKept DEF ReadAgent
  <2> QED
    BY <1>1, <1>4, <2>1, <2>2, <2>3 DEF Others
<1>5. ASSUME NEW c \in Clients, Esl(c)
      PROVE  AgentInv'
  BY <1>5, AgentKept DEF Esl
<1>6. ASSUME NEW c \in Clients, Control_(c) \/ Pusher(c)
      PROVE  AgentInv'
  BY <1>1, <1>6 DEF Control_, Pusher
<1>7. CASE UNCHANGED vars
  BY <1>1, <1>7 DEF vars
<1> QED
  BY <1>2, <1>3, <1>4, <1>5, <1>6, <1>7 DEF Next

\* The agent hears the call as it was, from the start frame to the stop frame, but for the
\* text frames that are not JSON, for a call of any length (OnStart, OnAudio, OnText, OnEnd).
THEOREM CallHeard == Spec => []AgentHearsCall
<1>1. AgentInv => AgentHearsCall
  <2> SUFFICES ASSUME AgentInv, toAgent # <<>>
               PROVE  AgentHearsCall
    BY DEF AgentHearsCall
  <2> DEFINE over == serve # "forward" \/ frames = <<>>
             done == IF over THEN frames ELSE SubSeq(frames, 1, Len(frames) - 1)
  <2>1. /\ frames \in Seq(Kinds) /\ Len(frames) \in Nat
        /\ serve = "forward" => Len(frames) >= 1 /\ frames # <<>>
    BY DEF AgentInv, AgentTypes
  <2>2. PICK n \in 0..Forwarded : HeardPrefix(n)
    BY DEF AgentInv, HeardInv
  <2>3. done \in Seq(Kinds) /\ Len(done) = Forwarded /\ n \in 0..Len(frames)
    BY <2>1 DEF Forwarded
  <2>4. Heard(frames, n) = <<"start">> \o Relayed(SubSeq(done, 1, n))
    <3>1. SubSeq(done, 1, n) = SubSeq(frames, 1, n)
      BY <2>1, <2>3
    <3> QED
      BY <3>1 DEF Heard
  <2>6. serve \in {"announce", "done"} => link # "up"
    BY DEF AgentInv, LinkInv
  <2> QED
    BY <2>2, <2>3, <2>4, <2>6 DEF AgentHearsCall, HeardPrefix
<1> QED
  BY AgentInit, AgentNext, <1>1, PTL DEF Spec
=============================================================================
