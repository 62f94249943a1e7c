------------------------------ MODULE Session ------------------------------
(***************************************************************************)
(* The downlink half of bridge.Session (src/bridge/session.go): any number *)
(* of goroutines queue frames for the caller with SendAudio, SendControl   *)
(* and ClearPlayback; one writePump goroutine drains the queue to the      *)
(* WebSocket; Close may come from anyone at any moment.                    *)
(*                                                                         *)
(* Every select statement of the code is one action, so the window between *)
(* two selects of enqueue is visible to the other goroutines.  The queue   *)
(* is a Go buffered channel: a sender that finds it full in the last       *)
(* select parks, and a parked sender's frame is moved into the buffer by   *)
(* the very receive that frees a slot (the runtime's FIFO of waiting       *)
(* senders), whether that receive is writePump's or another sender's drop. *)
(***************************************************************************)
EXTENDS Naturals, Sequences, SequencesExt

CONSTANTS
    Senders,    \* goroutines that queue frames
    Cap,        \* Options.PlaybackQueueSize, the capacity of writeQueue
    MaxSends    \* bound: calls each sender makes

ASSUME CapAssumption == Cap \in Nat \ {0}
ASSUME MaxSendsAssumption == MaxSends \in Nat

VARIABLES
    queue,      \* s.writeQueue, oldest frame first
    sendq,      \* senders parked on s.writeQueue, first to park first
    pc,         \* where each sender is inside enqueue
    sent,       \* number of calls each sender has begun
    kind,       \* the kind of frame of each sender's latest call
    done,       \* s.done is closed
    once,       \* s.closeOnce: not run, running its function, or run
    pump,       \* where writePump is
    acked,      \* history: frames whose call returned nil
    refused,    \* history: frames whose call returned ErrSessionClosed
    evicted,    \* history: frames dropped by an overflowing enqueue
    taken,      \* history: frames writePump received, in order
    tapped,     \* history: frames passed to downlinkTap, in order
    wire        \* history: frames conn.Write accepted, in order

senderVars == <<queue, sendq, pc, acked, refused, evicted>>
callVars   == <<sent, kind>>
pumpVars   == <<pump, taken, tapped, wire>>
closeVars  == <<done, once>>
vars == <<senderVars, callVars, pumpVars, closeVars>>

-----------------------------------------------------------------------------
Kinds == {"audio", "clear"}

\* A frame is named by who queued it and by which of its calls.
Frame == [by : Senders, n : 1..MaxSends, kind : Kinds]

\* The frame of the call sender s is in.
Req(s) == [by |-> s, n |-> sent[s], kind |-> kind[s]]

PC == {"idle", "enter", "try", "evict", "final", "parked"}

TypeOK ==
    /\ queue \in Seq(Frame) /\ Len(queue) <= Cap
    /\ sendq \in Seq(Senders)
    /\ pc \in [Senders -> PC]
    /\ sent \in [Senders -> 0..MaxSends]
    /\ kind \in [Senders -> Kinds]
    /\ done \in BOOLEAN
    /\ once \in {"fresh", "running", "ran"}
    /\ pump \in {"select", "tap", "write", "failed", "stopped"}
    /\ acked \subseteq Frame /\ refused \subseteq Frame /\ evicted \subseteq Frame
    /\ taken \in Seq(Frame) /\ tapped \in Seq(Frame) /\ wire \in Seq(Frame)

Init ==
    /\ queue = <<>> /\ sendq = <<>>
    /\ pc = [s \in Senders |-> "idle"]
    /\ sent = [s \in Senders |-> 0]
    /\ kind = [s \in Senders |-> "audio"]
    /\ done = FALSE /\ once = "fresh"
    /\ pump = "select"
    /\ acked = {} /\ refused = {} /\ evicted = {}
    /\ taken = <<>> /\ tapped = <<>> /\ wire = <<>>

-----------------------------------------------------------------------------
(* The channel.                                                            *)

HasRoom == Len(queue) < Cap

\* A receive: the oldest frame leaves, and the sender that has been parked
\* longest, if any, puts its frame in the freed slot and returns nil.
QueueAfterRecv ==
    IF sendq = <<>> THEN Tail(queue) ELSE Append(Tail(queue), Req(Head(sendq)))
SendqAfterRecv == IF sendq = <<>> THEN sendq ELSE Tail(sendq)
AckedAfterRecv == IF sendq = <<>> THEN acked ELSE acked \union {Req(Head(sendq))}
PcAfterRecv ==
    IF sendq = <<>> THEN pc ELSE [pc EXCEPT ![Head(sendq)] = "idle"]

Return(s) == pc' = [pc EXCEPT ![s] = "idle"]

\* A send that finds room returns nil at once.
Admit(s) ==
    /\ HasRoom
    /\ queue' = Append(queue, Req(s))
    /\ acked' = acked \union {Req(s)}
    /\ Return(s)
    /\ UNCHANGED <<sendq, refused, evicted>>

-----------------------------------------------------------------------------
(* enqueue, one action per select.                                         *)

\* SendAudio with a non-empty slice, or SendControl / ClearPlayback.  (An empty
\* slice returns nil before enqueue and changes nothing.)
Begin(s, k) ==
    /\ pc[s] = "idle" /\ sent[s] < MaxSends
    /\ pc' = [pc EXCEPT ![s] = "enter"]
    /\ sent' = [sent EXCEPT ![s] = @ + 1]
    /\ kind' = [kind EXCEPT ![s] = k]
    /\ UNCHANGED <<queue, sendq, acked, refused, evicted, pumpVars, closeVars>>

RefuseClosed(s) ==
    /\ refused' = refused \union {Req(s)}
    /\ Return(s)
    /\ UNCHANGED <<queue, sendq, acked, evicted>>

CheckDone(s) ==
    /\ pc[s] = "enter"
    /\ \/ done /\ RefuseClosed(s)
       \/ /\ ~done
          /\ pc' = [pc EXCEPT ![s] = "try"]
          /\ UNCHANGED <<queue, sendq, acked, refused, evicted>>
    /\ UNCHANGED <<callVars, pumpVars, closeVars>>

TrySend(s) ==
    /\ pc[s] = "try"
    /\ \/ Admit(s)
       \/ /\ ~HasRoom
          /\ pc' = [pc EXCEPT ![s] = "evict"]
          /\ UNCHANGED <<queue, sendq, acked, refused, evicted>>
    /\ UNCHANGED <<callVars, pumpVars, closeVars>>

\* Mutant: the newest frame is dropped instead of the oldest.
EvictNewest(s) ==
    /\ pc[s] = "evict"
    /\ \/ /\ queue # <<>>
          /\ evicted' = evicted \union {Last(queue)}
          /\ queue' = Front(queue)
       \/ queue = <<>> /\ UNCHANGED <<queue, evicted>>
    /\ pc' = [pc EXCEPT ![s] = "final"]
    /\ UNCHANGED <<sendq, acked, refused, callVars, pumpVars, closeVars>>

\* "Queue full: drop the oldest frame": by now the queue may have been drained
\* (nothing to drop), partly drained (a frame is dropped although there is
\* room), or may hold another sender's parked frame the moment it is relieved.
EvictOldest(s) ==
    /\ pc[s] = "evict"
    /\ \/ /\ queue # <<>>
          /\ evicted' = evicted \union {Head(queue)}
          /\ queue' = QueueAfterRecv
          /\ sendq' = SendqAfterRecv
          /\ acked' = AckedAfterRecv
          /\ pc' = [PcAfterRecv EXCEPT ![s] = "final"]
       \/ /\ queue = <<>>
          /\ pc' = [pc EXCEPT ![s] = "final"]
          /\ UNCHANGED <<queue, sendq, acked, evicted>>
    /\ UNCHANGED <<refused, callVars, pumpVars, closeVars>>

\* Mutant: a "default: return nil" added to the last select.
FinalSelectNonBlocking(s) ==
    /\ pc[s] = "final"
    /\ \/ Admit(s)
       \/ done /\ RefuseClosed(s)
       \/ /\ ~HasRoom /\ ~done
          /\ acked' = acked \union {Req(s)}
          /\ Return(s)
          /\ UNCHANGED <<queue, sendq, refused, evicted>>
    /\ UNCHANGED <<callVars, pumpVars, closeVars>>

\* The last select has no default: with neither case ready the sender parks.
\* With both ready the runtime picks either.
FinalSelect(s) ==
    /\ pc[s] = "final"
    /\ \/ Admit(s)
       \/ done /\ RefuseClosed(s)
       \/ /\ ~HasRoom /\ ~done
          /\ pc' = [pc EXCEPT ![s] = "parked"]
          /\ sendq' = Append(sendq, s)
          /\ UNCHANGED <<queue, acked, refused, evicted>>
    /\ UNCHANGED <<callVars, pumpVars, closeVars>>

SenderStep(s) == CheckDone(s) \/ TrySend(s) \/ EvictOldest(s) \/ FinalSelect(s)

-----------------------------------------------------------------------------
(* Close, run at most once.                                                *)

\* Mutant: parked senders do not also wait on s.done.
ParkedIgnoreDone ==
    /\ pc' = pc
    /\ refused' = refused
    /\ sendq' = <<>>

\* close(s.done) makes the second case of every parked sender's select ready.
WakeParked ==
    /\ pc' = [s \in Senders |-> IF pc[s] = "parked" THEN "idle" ELSE pc[s]]
    /\ refused' = refused \union {Req(s) : s \in {x \in Senders : pc[x] = "parked"}}
    /\ sendq' = <<>>

CloseDone ==
    /\ once = "fresh"
    /\ once' = "running" /\ done' = TRUE
    /\ WakeParked
    /\ UNCHANGED <<queue, acked, evicted, callVars>>

\* Anyone: serveWS after readPump, CloseAllSessions, a handler.
Close == CloseDone /\ UNCHANGED pumpVars

\* s.conn.Close returns (external, bounded by the library's own timeouts).
CloseConn ==
    /\ once = "running" /\ once' = "ran"
    /\ UNCHANGED <<senderVars, callVars, pumpVars, done>>

-----------------------------------------------------------------------------
(* writePump.                                                              *)

PumpRecv ==
    /\ pump = "select" /\ queue # <<>>
    /\ taken' = Append(taken, Head(queue))
    /\ queue' = QueueAfterRecv
    /\ sendq' = SendqAfterRecv
    /\ acked' = AckedAfterRecv
    /\ pc' = PcAfterRecv
    /\ pump' = "tap"
    /\ UNCHANGED <<refused, evicted, callVars, closeVars, tapped, wire>>

PumpDone ==
    /\ pump = "select" /\ done
    /\ pump' = "stopped"
    /\ UNCHANGED <<senderVars, callVars, closeVars, taken, tapped, wire>>

\* Mutant: the tap is called for every frame, without the message type check.
PumpTapAnything ==
    /\ pump = "tap"
    /\ tapped' = Append(tapped, Last(taken))
    /\ pump' = "write"
    /\ UNCHANGED <<senderVars, callVars, closeVars, taken, wire>>

PumpTap ==
    /\ pump = "tap"
    /\ tapped' = IF Last(taken).kind = "audio" THEN Append(tapped, Last(taken)) ELSE tapped
    /\ pump' = "write"
    /\ UNCHANGED <<senderVars, callVars, closeVars, taken, wire>>

\* Mutant: a frame whose write failed goes back to the queue for another try.
PumpWriteRetrying ==
    /\ pump = "write"
    /\ pump' = "select"
    /\ \/ /\ once # "ran" /\ wire' = Append(wire, Last(taken))
          /\ UNCHANGED <<queue, taken>>
       \/ /\ HasRoom /\ queue' = Append(queue, Last(taken))
          /\ taken' = Front(taken) /\ UNCHANGED wire
    /\ UNCHANGED <<sendq, pc, acked, refused, evicted, callVars, closeVars, tapped>>

\* Mutant: the pump returns after its first write.
PumpWriteOnce ==
    /\ pump = "write"
    /\ \/ once # "ran" /\ wire' = Append(wire, Last(taken)) /\ pump' = "stopped"
       \/ pump' = "failed" /\ UNCHANGED wire
    /\ UNCHANGED <<senderVars, callVars, closeVars, taken, tapped>>

\* conn.Write: succeeds while the connection is up, may fail at any time.
PumpWrite ==
    /\ pump = "write"
    /\ \/ /\ once # "ran"
          /\ wire' = Append(wire, Last(taken))
          /\ pump' = "select"
       \/ pump' = "failed" /\ UNCHANGED wire
    /\ UNCHANGED <<senderVars, callVars, closeVars, taken, tapped>>

\* Mutant: the pump closes the session and goes on waiting for frames.
PumpCloseAndGoOn ==
    /\ pump = "failed"
    /\ \/ CloseDone /\ UNCHANGED pump
       \/ once = "ran" /\ pump' = "failed" /\ UNCHANGED <<senderVars, callVars, closeVars>>
    /\ UNCHANGED <<taken, tapped, wire>>

\* s.Close() after a write error: runs the close function, or waits for the
\* goroutine that is running it.
PumpClose ==
    /\ pump = "failed"
    /\ \/ CloseDone /\ UNCHANGED pump
       \/ once = "ran" /\ pump' = "stopped" /\ UNCHANGED <<senderVars, callVars, closeVars>>
    /\ UNCHANGED <<taken, tapped, wire>>

PumpLocal == PumpRecv \/ PumpDone \/ PumpTap \/ PumpClose

-----------------------------------------------------------------------------
\* All calls made and the pump gone: nothing is left to do.
Finished ==
    /\ pump = "stopped" /\ \A s \in Senders : pc[s] = "idle" /\ sent[s] = MaxSends
    /\ UNCHANGED vars

Next ==
    \/ \E s \in Senders : SenderStep(s) \/ \E k \in Kinds : Begin(s, k)
    \/ Close \/ CloseConn
    \/ PumpLocal \/ PumpWrite
    \/ Finished

\* Goroutines that can run do run, and conn.Close returns.  conn.Write returns
\* once the connection is closed; until then a stalled peer may block it.
Fairness ==
    /\ \A s \in Senders : WF_vars(SenderStep(s))
    /\ WF_vars(PumpLocal) /\ WF_vars(CloseConn)
    /\ WF_vars(once = "ran" /\ PumpWrite)

Spec == Init /\ [][Next]_vars /\ Fairness

\* The peer keeps reading, or the write fails.
PeerReads == WF_vars(PumpWrite)

-----------------------------------------------------------------------------
(* Properties.                                                             *)

Frames(q) == {q[i] : i \in DOMAIN q}

\* A call that returned nil is accounted for: its frame is waiting, was given
\* to writePump, or was dropped by an overflow, and only one of the three
\* (enqueue's four selects, against the pump and the other senders).
AckedAccountedFor ==
    /\ acked = Frames(queue) \union Frames(taken) \union evicted
    /\ Frames(queue) \intersect Frames(taken) = {}
    /\ evicted \intersect (Frames(queue) \union Frames(taken)) = {}
    /\ acked \intersect refused = {}

\* Frames of one goroutine reach the pump, and wait for it, in the order of
\* its calls, none twice: in particular audio queued before a clear never
\* plays after it, whatever parked and whatever was dropped.
InOrder(q) ==
    \A i, j \in DOMAIN q : i < j /\ q[i].by = q[j].by => q[i].n < q[j].n
SenderOrderKept ==
    /\ InOrder(taken) /\ InOrder(queue)
    /\ \A i \in DOMAIN taken, j \in DOMAIN queue :
          taken[i].by = queue[j].by => taken[i].n < queue[j].n

\* A sender parks only behind a full queue of an open session, so that every
\* receive can hand over and Close leaves nobody behind.
ParkedBehindFullQueue ==
    /\ sendq # <<>> => ~HasRoom /\ ~done
    /\ \A s \in Senders : pc[s] = "parked" <=> s \in Frames(sendq)
    /\ \A i, j \in DOMAIN sendq : i # j => sendq[i] # sendq[j]

\* The audio frames of a sequence of frames, in their order (a SelectSeq, as a
\* recursive function over the length of the prefix read so far).
IsAudio(f) == f.kind = "audio"
AudioOf(q) ==
    LET A[i \in 0..Len(q)] ==
            IF i = 0 THEN <<>>
            ELSE IF IsAudio(q[i]) THEN Append(A[i - 1], q[i]) ELSE A[i - 1]
    IN  A[Len(q)]

\* The recorder's downlink tap sees the audio that reached the wire, in order
\* and once, plus at most the frame whose write is pending or failed.
RecordedMatchesWire ==
    IsPrefix(AudioOf(wire), tapped) /\ Len(tapped) <= Len(AudioOf(wire)) + 1

\* Close releases every goroutine inside a send, even when conn.Write never returns,
\* and ends writePump, so that no goroutine is leaked.
CloseReleasesAll ==
    /\ \A s \in Senders : (done /\ pc[s] # "idle") ~> pc[s] = "idle"
    /\ done ~> pump = "stopped"

\* While the peer reads, no send is stuck, whether or not it parked.
EverySendReturns ==
    PeerReads => \A s \in Senders : pc[s] # "idle" ~> pc[s] = "idle"

\* While the peer reads, an acknowledged frame reaches the wire unless an
\* overflow or the end of the session takes it.
AckedReachesWire ==
    PeerReads => \A s \in Senders, n \in 1..MaxSends, k \in Kinds :
        LET f == [by |-> s, n |-> n, kind |-> k]
        IN  f \in acked ~> (f \in Frames(wire) \/ f \in evicted \/ done)

\* The session implements the lossy FIFO: writePump is the consumer, an
\* overflowing enqueue the only way to lose a frame.
Fifo == INSTANCE LossyFifo
            WITH Item <- Frame, buf <- queue, out <- taken, lost <- evicted
ImplementsFifo == Fifo!Spec
=============================================================================
