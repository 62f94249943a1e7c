------------------------------ MODULE WsContext ------------------------------
(***************************************************************************)
(* One connection of libwsc (src/module/libs/libwsc/src/                   *)
(* WebSocketContext.cpp): threads of the application queue frames and stop *)
(* the connection; its event thread sends, receives and closes.  A         *)
(* callback of the event loop is one step: what it reads is written by     *)
(* other threads only where it looks once.  The exception is sendCallback. *)
(***************************************************************************)
EXTENDS Naturals, Sequences, FiniteSets
LOCAL INSTANCE SequencesExt

CONSTANTS
    Senders,        \* application threads that send
    MaxSends,       \* bound: calls of sendData
    MaxQueue,       \* MAX_QUEUE_SIZE
    MaxControl      \* bound: pings sent and answered

ASSUME QueueAssumption == MaxQueue \in Nat \ {0}
ASSUME BoundAssumption == MaxSends \in Nat /\ MaxControl \in Nat

VARIABLES
    at,             \* where the event thread is
    state,          \* connection_state
    upgraded,
    tcp,            \* the socket: connecting, up, gone
    handles,        \* wakeup_event and send_event: none, live, gone (freed)
    active,         \* those of the two that are active, in libevent's order
    exit,           \* event_base_loopexit was called
    pending,        \* send_flush_pending
    queue,          \* send_queue
    stopRequested,  \* stop_requested
    closeSent, closeReceived, protocolFailed,
    closeFired,     \* close_cb_fired
    timer,          \* close_timer is running
    pc,             \* where each sender is in sendData
    calls,          \* calls each sender made
    stopper,        \* where the thread that stops is in stop
    wire,           \* history: the frames sent
    accepted,       \* history: frames whose call returned true
    told,           \* history: on_error or on_close was called
    late,           \* history: queued when the flush that is due has passed
    missed,         \* history: stop found no event to wake
    crash           \* event_active of a freed event

loop == <<at, exit, active, handles>>
closing == <<closeSent, closeReceived, protocolFailed, closeFired, timer>>
callers == <<pc, calls, stopper>>
history == <<accepted, late, missed, crash>>
vars == <<loop, state, upgraded, tcp, pending, queue, stopRequested, closing, callers,
          wire, told, history>>

\* A frame is named by its sender and the number of the call, or is a control frame.
Close == <<"close">>
Control == <<"control">>
Frame(s) == <<s, calls[s]>>
IsData(f) == Len(f) = 2

Closing == {"DISCONNECTING", "DISCONNECTED"}
Over == at \in {"ended", "failed"}

Init ==
    /\ at = "start" /\ state = "DISCONNECTED" /\ upgraded = FALSE /\ tcp = "connecting"
    /\ handles = "none" /\ active = <<>> /\ exit = FALSE
    /\ pending = FALSE /\ queue = <<>> /\ stopRequested = FALSE
    /\ closeSent = FALSE /\ closeReceived = FALSE /\ protocolFailed = FALSE
    /\ closeFired = FALSE /\ timer = FALSE
    /\ pc = [s \in Senders |-> "idle"] /\ calls = [s \in Senders |-> 0] /\ stopper = "idle"
    /\ wire = <<>> /\ accepted = {} /\ told = FALSE
    /\ late = {} /\ missed = FALSE /\ crash = FALSE

\* event_active: an event that is active already stays where it is.
Activated(a, e) == IF e \in ToSet(a) THEN a ELSE Append(a, e)

\* The flag is set, but who set it flushes no more.
FlushIsPast == at = "flushed" \/ \E s \in Senders : pc[s] = "unset"

-----------------------------------------------------------------------------
(* sendData on a thread of the application.  Calls that come when the      *)
(* event thread is over, and only fill the queue, are left out.            *)

Go(s, a, b) == pc[s] = a /\ pc' = [pc EXCEPT ![s] = b]

Load(s) ==
    /\ ~Over /\ FoldFunction(+, 0, calls) < MaxSends /\ calls' = [calls EXCEPT ![s] = @ + 1]
    /\ Go(s, "idle", IF state = "CONNECTING" THEN "early" ELSE "queue")
    /\ UNCHANGED <<loop, state, upgraded, tcp, pending, queue, stopRequested, closing,
                   stopper, wire, told, history>>

\* A frame of a call that found the state CONNECTING relies on the flush of the upgrade.
Enqueue(s) ==
    /\ \/ /\ Len(queue) >= MaxQueue
          /\ Go(s, "early", "idle") \/ Go(s, "queue", "idle")
          /\ UNCHANGED <<queue, accepted, late>>
       \/ /\ Len(queue) < MaxQueue
          /\ queue' = Append(queue, Frame(s)) /\ accepted' = accepted \union {Frame(s)}
          /\ \/ /\ Go(s, "early", "idle")
                /\ late' = IF state = "CONNECTING" THEN late ELSE late \union {Frame(s)}
             \/ Go(s, "queue", "exchange") /\ UNCHANGED late
    /\ UNCHANGED <<loop, state, upgraded, tcp, pending, stopRequested, closing, calls, stopper,
                   wire, told, missed, crash>>

\* requestSendFlush.
Exchange(s) ==
    /\ \/ /\ pending /\ Go(s, "exchange", "idle")
          /\ late' = IF FlushIsPast THEN late \union {Frame(s)} ELSE late
       \/ ~pending /\ Go(s, "exchange", "handle") /\ UNCHANGED late
    /\ pending' = TRUE
    /\ UNCHANGED <<loop, state, upgraded, tcp, queue, stopRequested, closing, calls, stopper,
                   wire, told, accepted, missed, crash>>

LoadHandle(s) ==
    /\ Go(s, "handle", IF handles = "live" THEN "activate" ELSE "unset")
    /\ UNCHANGED <<loop, state, upgraded, tcp, pending, queue, stopRequested, closing, calls,
                   stopper, wire, told, history>>

\* Mutant: the flag stays.
UnsetNothing(s) ==
    /\ Go(s, "unset", "idle")
    /\ UNCHANGED <<loop, state, upgraded, tcp, pending, queue, stopRequested, closing, calls,
                   stopper, wire, told, history>>

Unset(s) ==
    /\ Go(s, "unset", "idle") /\ pending' = FALSE
    /\ UNCHANGED <<loop, state, upgraded, tcp, queue, stopRequested, closing, calls, stopper,
                   wire, told, history>>

\* The lock is not held any more: the event may be gone.
Activate(s) ==
    /\ Go(s, "activate", "idle")
    /\ \/ handles = "live" /\ active' = Activated(active, "send") /\ UNCHANGED crash
       \/ handles = "gone" /\ crash' = TRUE /\ UNCHANGED active
    /\ UNCHANGED <<at, exit, handles, state, upgraded, tcp, pending, queue, stopRequested,
                   closing, calls, stopper, wire, told, accepted, late, missed>>

Send(s) ==
    Load(s) \/ Enqueue(s) \/ Exchange(s) \/ LoadHandle(s) \/ Unset(s) \/ Activate(s)

-----------------------------------------------------------------------------
(* stop on a thread of the application.                                    *)

StopGo(a, b) == stopper = a /\ stopper' = b

RequestStop ==
    /\ StopGo("idle", "handle") /\ stopRequested' = TRUE
    /\ UNCHANGED <<loop, state, upgraded, tcp, pending, queue, closing, pc, calls, wire, told,
                   history>>

StopLoadHandle ==
    /\ StopGo("handle", IF handles = "live" THEN "activate" ELSE "join")
    /\ missed' = (handles = "none")
    /\ UNCHANGED <<loop, state, upgraded, tcp, pending, queue, stopRequested, closing, pc, calls,
                   wire, told, accepted, late, crash>>

StopActivate ==
    /\ StopGo("activate", "join")
    /\ \/ handles = "live" /\ active' = Activated(active, "wake") /\ UNCHANGED crash
       \/ handles = "gone" /\ crash' = TRUE /\ UNCHANGED active
    /\ UNCHANGED <<at, exit, handles, state, upgraded, tcp, pending, queue, stopRequested,
                   closing, pc, calls, wire, told, accepted, late, missed>>

Join ==
    /\ StopGo("join", "returned") /\ Over
    /\ UNCHANGED <<loop, state, upgraded, tcp, pending, queue, stopRequested, closing, pc, calls,
                   wire, told, history>>

Stop == RequestStop \/ StopLoadHandle \/ StopActivate \/ Join

-----------------------------------------------------------------------------
(* The event thread: run.                                                  *)

Connecting ==
    /\ at = "start" /\ at' = "connecting" /\ state' = "CONNECTING"
    /\ UNCHANGED <<exit, active, handles, upgraded, tcp, pending, queue, stopRequested, closing,
                   callers, wire, told, history>>

Publish ==
    /\ at = "connecting" /\ at' = "published" /\ handles' = "live"
    /\ UNCHANGED <<exit, active, state, upgraded, tcp, pending, queue, stopRequested, closing,
                   callers, wire, told, history>>

Dispatch ==
    /\ at = "published" /\ at' = "loop"
    /\ UNCHANGED <<exit, active, handles, state, upgraded, tcp, pending, queue, stopRequested,
                   closing, callers, wire, told, history>>

\* Freeing both events; the pointers other threads hold are not theirs any more.
Freed == handles' = (IF handles = "live" THEN "gone" ELSE handles) /\ active' = <<>>

\* One of the early returns of run. Some of them tell nobody.
StartFails ==
    /\ at \in {"start", "connecting", "published"} /\ at' = "failed" /\ Freed
    /\ told' \in {told, TRUE}
    /\ UNCHANGED <<exit, state, upgraded, tcp, pending, queue, stopRequested, closing, callers,
                   wire, history>>

\* The loop ends; cleanup.
LeaveLoop ==
    /\ at = "loop" /\ exit /\ at' = "ended" /\ Freed /\ timer' = FALSE
    /\ UNCHANGED <<exit, state, upgraded, tcp, pending, queue, stopRequested, closeSent,
                   closeReceived, protocolFailed, closeFired, callers, wire, told, history>>

-----------------------------------------------------------------------------
(* Sending on the event thread.                                            *)

InLoop == at = "loop"

\* Mutant: the queue is copied, not taken.
FlushSendQueueCopying(q, st) ==
    LET data == IF st = "CONNECTED" THEN q ELSE <<>>
    IN  queue' = q /\ wire' = wire \o data /\ UNCHANGED <<closeSent, timer>>

\* flushSendQueue of q in state st: data is sent only while connected, and CLOSE once.
\* Who queues CLOSE has left that state first (proved: CloseWaitsInClosing).
FlushSendQueue(q, st) ==
    LET data == IF st = "CONNECTED" THEN q ELSE <<>>
        close == Close \in ToSet(q) /\ ~closeSent /\ st \in {"CONNECTED", "DISCONNECTING"}
    IN  /\ queue' = <<>>
        /\ wire' = wire \o data \o (IF close THEN <<Close>> ELSE <<>>)
        /\ closeSent' = (closeSent \/ close)
        /\ timer' = (timer \/ close)

SendCallback ==
    /\ InLoop /\ active # <<>> /\ Head(active) = "send" /\ active' = Tail(active)
    /\ FlushSendQueue(queue, state)
    /\ at' = "flushed"
    /\ UNCHANGED <<exit, handles, state, upgraded, tcp, pending, stopRequested, closeReceived,
                   protocolFailed, closeFired, callers, told, history>>

MarkFlushed ==
    /\ at = "flushed" /\ at' = "loop" /\ pending' = FALSE
    /\ UNCHANGED <<exit, active, handles, state, upgraded, tcp, queue, stopRequested, closing,
                   callers, wire, told, history>>

\* sendPing.
Ping ==
    /\ InLoop /\ upgraded /\ state = "CONNECTED"
    /\ Cardinality({i \in DOMAIN wire : wire[i] = Control}) < MaxControl
    /\ wire' = Append(wire, Control)
    /\ UNCHANGED <<loop, state, upgraded, tcp, pending, queue, stopRequested, closing, callers,
                   told, history>>

-----------------------------------------------------------------------------
(* Closing on the event thread.                                            *)

LoopExit == exit' = TRUE /\ stopRequested' = TRUE

\* requestSendFlush on this thread; a are the active events.
RequestFlush(a) ==
    /\ pending' = TRUE
    /\ active' = IF pending THEN a ELSE Activated(a, "send")

\* close of an open connection: CLOSE is queued, or the queue is full and the loop left.
QueueClose(a) ==
    /\ state' = "DISCONNECTING"
    /\ \/ /\ Len(queue) >= MaxQueue /\ LoopExit
          /\ active' = a /\ UNCHANGED <<pending, queue, late>>
       \/ /\ Len(queue) < MaxQueue /\ queue' = Append(queue, Close) /\ RequestFlush(a)
          /\ late' = IF pending /\ FlushIsPast THEN late \union {Close} ELSE late
          /\ UNCHANGED <<exit, stopRequested>>

\* wakeupCallback, which runs only when a stop was requested: stopNow.
WakeCallback ==
    /\ InLoop /\ active # <<>> /\ Head(active) = "wake"
    /\ LET rest == Tail(active) IN
        \/ /\ state \in Closing
           /\ active' = rest /\ UNCHANGED <<exit, stopRequested, state, pending, queue, late>>
        \/ /\ state \notin Closing /\ ~(upgraded /\ state = "CONNECTED")
           /\ state' = "DISCONNECTED" /\ LoopExit
           /\ active' = rest /\ UNCHANGED <<pending, queue, late>>
        \/ upgraded /\ state = "CONNECTED" /\ QueueClose(rest)
    /\ UNCHANGED <<at, handles, upgraded, tcp, closing, callers, wire, told, accepted, missed,
                   crash>>

\* Mutant: a close without an answer leaves the loop running.
CloseTimerWithoutExit ==
    /\ InLoop /\ timer /\ timer' = FALSE
    /\ \/ closeReceived /\ UNCHANGED <<state, closeFired, told>>
       \/ ~closeReceived /\ state' = "DISCONNECTED" /\ closeFired' = TRUE /\ told' = TRUE
    /\ UNCHANGED <<loop, upgraded, tcp, pending, queue, stopRequested, closeSent, closeReceived,
                   protocolFailed, callers, wire, history>>

\* closeTimerCb, a second after CLOSE was sent.
CloseTimer ==
    /\ InLoop /\ timer /\ timer' = FALSE
    /\ \/ closeReceived /\ UNCHANGED <<exit, stopRequested, state, closeFired, told>>
       \/ /\ ~closeReceived /\ state' = "DISCONNECTED" /\ LoopExit
          /\ closeFired' = TRUE /\ told' = TRUE
    /\ UNCHANGED <<at, active, handles, upgraded, tcp, pending, queue, closeSent, closeReceived,
                   protocolFailed, callers, wire, history>>

\* timeoutCallback.
Timeout ==
    /\ InLoop /\ ~exit /\ ~upgraded /\ state \notin Closing
    /\ LoopExit /\ told' = TRUE
    /\ UNCHANGED <<at, active, handles, state, upgraded, tcp, pending, queue, closing, callers,
                   wire, history>>

-----------------------------------------------------------------------------
(* Receiving on the event thread.                                          *)

\* rxIsTerminating.
Terminating == state \in Closing \/ stopRequested

Reads == InLoop /\ upgraded /\ tcp = "up" /\ ~Terminating

TcpConnects ==
    /\ InLoop /\ tcp = "connecting" /\ tcp' = "up"
    /\ UNCHANGED <<loop, state, upgraded, pending, queue, stopRequested, closing, callers, wire,
                   told, history>>

\* The server accepts the upgrade: what was queued is sent, then on_open is called.
Upgrade ==
    /\ InLoop /\ tcp = "up" /\ ~upgraded
    /\ upgraded' = TRUE /\ state' = "CONNECTED"
    /\ FlushSendQueue(queue, "CONNECTED")
    /\ UNCHANGED <<loop, tcp, pending, stopRequested, closeReceived, protocolFailed, closeFired,
                   callers, told, history>>

Refusal ==
    /\ InLoop /\ tcp = "up" /\ ~upgraded
    /\ state' = "FAILED" /\ told' = TRUE /\ LoopExit
    /\ UNCHANGED <<at, active, handles, upgraded, tcp, pending, queue, closing, callers, wire,
                   history>>

\* onRxPing.
ReadPing ==
    /\ Reads /\ Cardinality({i \in DOMAIN wire : wire[i] = Control}) < MaxControl
    /\ wire' = Append(wire, Control)
    /\ UNCHANGED <<loop, state, upgraded, tcp, pending, queue, stopRequested, closing, callers,
                   told, history>>

\* onRxClose: close queues the answer and asks for a flush, which is done at once.
ReadClose ==
    /\ Reads /\ ~closeSent
    /\ closeReceived' = TRUE /\ closeFired' = TRUE /\ told' = TRUE
    /\ state' = "DISCONNECTING"
    /\ \/ /\ Len(queue) >= MaxQueue /\ LoopExit /\ UNCHANGED <<active, pending>>
          /\ FlushSendQueue(queue, "DISCONNECTING")
       \/ /\ Len(queue) < MaxQueue /\ RequestFlush(active) /\ UNCHANGED <<exit, stopRequested>>
          /\ FlushSendQueue(Append(queue, Close), "DISCONNECTING")
    /\ UNCHANGED <<at, handles, upgraded, tcp, protocolFailed, callers, history>>

\* onRxProtocolError: close, and a flush is asked for even if CLOSE was dropped. Its
\* on_error may stop the connection, as every other one may: the others leave the loop
\* anyway.
ProtocolError ==
    /\ Reads /\ ~protocolFailed /\ protocolFailed' = TRUE /\ told' = TRUE
    /\ state' = "DISCONNECTING"
    /\ \E stops \in BOOLEAN :
        /\ RequestFlush(IF stops THEN Activated(active, "wake") ELSE active)
        /\ \/ /\ Len(queue) >= MaxQueue /\ LoopExit /\ UNCHANGED <<queue, late>>
           \/ /\ Len(queue) < MaxQueue /\ queue' = Append(queue, Close)
              /\ late' = IF pending /\ FlushIsPast THEN late \union {Close} ELSE late
              /\ stopRequested' = stops /\ UNCHANGED exit
    /\ UNCHANGED <<at, handles, upgraded, tcp, closeSent, closeReceived, closeFired, timer,
                   callers, wire, accepted, missed, crash>>

\* An error of the socket.
Error ==
    /\ InLoop /\ tcp # "gone" /\ tcp' = "gone" /\ LoopExit
    /\ \/ /\ stopRequested \/ state \in Closing
          /\ UNCHANGED <<state, queue, told>>
       \/ /\ ~stopRequested /\ state \notin Closing
          /\ state' = "DISCONNECTING" /\ told' = TRUE
          /\ queue' = IF upgraded THEN queue ELSE <<>>
    /\ UNCHANGED <<at, active, handles, upgraded, pending, closing, callers, wire, history>>

\* Mutant: the end of an open connection is always taken as normal.
EofQuiet ==
    /\ InLoop /\ tcp = "up" /\ tcp' = "gone" /\ LoopExit
    /\ \/ ~upgraded /\ told' = TRUE /\ queue' = <<>> /\ UNCHANGED <<state, closeFired>>
       \/ upgraded /\ UNCHANGED <<told, state, queue, closeFired>>
    /\ UNCHANGED <<at, active, handles, upgraded, pending, closeSent, closeReceived,
                   protocolFailed, timer, callers, wire, history>>

\* The peer closes the socket: during the handshake, without or after a CLOSE.
Eof ==
    /\ InLoop /\ tcp = "up" /\ tcp' = "gone" /\ LoopExit /\ told' = TRUE
    /\ \/ ~upgraded /\ queue' = <<>> /\ UNCHANGED <<state, closeFired>>
       \/ upgraded /\ ~(closeReceived \/ closeSent) /\ state' = "DISCONNECTING"
          /\ UNCHANGED <<queue, closeFired>>
       \/ upgraded /\ (closeReceived \/ closeSent) /\ closeFired' = TRUE
          /\ UNCHANGED <<state, queue>>
    /\ UNCHANGED <<at, active, handles, upgraded, pending, closeSent, closeReceived,
                   protocolFailed, timer, callers, wire, history>>

Run == Connecting \/ Publish \/ Dispatch \/ LeaveLoop \/ MarkFlushed
Callback == SendCallback \/ WakeCallback
Receive == Upgrade \/ Refusal \/ ReadPing \/ ReadClose \/ ProtocolError \/ Error \/ Eof

-----------------------------------------------------------------------------
Next ==
    /\ ~crash
    /\ \/ \E s \in Senders : Send(s)
       \/ Stop \/ Run \/ StartFails \/ Callback \/ Ping \/ CloseTimer \/ Timeout
       \/ TcpConnects \/ Receive

\* Threads run on and timers go off. Nothing makes anybody call, stop or answer.
Fairness ==
    /\ \A s \in Senders :
        WF_vars(~crash /\ (Enqueue(s) \/ Exchange(s) \/ LoadHandle(s) \/ Unset(s) \/ Activate(s)))
    /\ WF_vars(~crash /\ (StopLoadHandle \/ StopActivate \/ Join))
    /\ WF_vars(~crash /\ Run) /\ WF_vars(~crash /\ Callback)
    /\ WF_vars(~crash /\ CloseTimer) /\ WF_vars(~crash /\ Timeout)

Spec == Init /\ [][Next]_vars /\ Fairness

-----------------------------------------------------------------------------
(* Properties.                                                             *)

\* What goes out is what was accepted: each sender's frames in the order of its calls
\* and none twice, whether they waited for the upgrade, were flushed on request or by a
\* close; and after CLOSE, which is sent once, nothing.
WireInOrder ==
    /\ \A i \in DOMAIN wire : IsData(wire[i]) => wire[i] \in accepted
    /\ \A i, j \in DOMAIN wire :
        i < j /\ IsData(wire[i]) /\ IsData(wire[j]) /\ wire[i][1] = wire[j][1] =>
            wire[i][2] < wire[j][2]
    /\ \A i \in DOMAIN wire : wire[i] = Close => i = Len(wire)

\* On an open connection a frame that waits has a flush on its way, which its sender or
\* another one asked for: the flag that suppresses requests is never left set. The
\* exceptions are named by `late`: a frame queued as "connecting" after the upgrade's
\* flush, and one queued between a flush and the reset of the flag.
WaitingHasFlush ==
    (state = "CONNECTED" /\ at = "loop" /\ ~crash
        /\ \E i \in DOMAIN queue : queue[i] \notin late) =>
            \/ "send" \in ToSet(active)
            \/ \E s \in Senders : pc[s] \in {"exchange", "handle", "activate"}

\* When the event loop has ended although the application never asked to stop, on_error
\* or on_close was called: a call never loses its stream without notice.
EndIsReported == at = "ended" /\ stopper = "idle" => told

\* stop returns, whatever state the connection is in and whatever the peer does. The
\* exceptions are a peer that began the close and keeps the socket open, which no timer
\* ends; a stop that came before there was an event to wake; and a CLOSE queued while a
\* sender that found no event is about to reset the flag.
StopReturns ==
    (closeReceived ~> Over \/ tcp = "gone") =>
        (stopper = "join" ~> Over \/ missed \/ Close \in late)
=============================================================================
