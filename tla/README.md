# A verification project for fs_websocket_stream

fs_websocket_stream connects FreeSWITCH calls to AI voice agents. A C++ module
in FreeSWITCH streams a call's audio over a WebSocket to `fsbridge`, a Go
process that hands it to a handler (echo, a speech pipeline, or an external
agent application) and sends audio back. `fsbridge` also records calls, keeps
an event-socket connection to FreeSWITCH for call control, and gives
applications a control WebSocket with events.

This directory holds TLA+ models of that code, the TLC runs that check them on
small instances, and TLAPS proofs. Paths below are relative to `src/`.

Every definition that stands for code is listed with its lines in
`PROJECT.json` ("map"). Definitions whose comment begins with "Mutant:" are
wrong on purpose: each is a plausible bug, put in the place of the definition
after it to see that a property notices. They are no part of the
specifications.

## 1. Inventory

| component | state | operations | talks to | hard part |
|---|---|---|---|---|
| audio session (`bridge/session.go`) | write queue (a buffered channel), `done`, `closeOnce` | SendAudio, SendControl, ClearPlayback, Close, writePump | handler goroutines, the recorder's tap, the WebSocket | several senders against one writer and Close; drop-oldest in four selects |
| server (`bridge/server.go`) | map of sessions | serveWS, lookup by uuid, close-all | handler, recorder, bus | order of the steps that end a call |
| event bus (`bridge/eventbus.go`) | set of channels | Subscribe, unsubscribe, Publish | everybody | closing a channel others send to; silent loss |
| recorder (`bridge/recorder.go`, `recordings.go`) | recordings by session, files of a bundle | Begin, Uplink, Downlink, Finish, capture of events, sweep, HTTP list / fetch / delete | read pump, write pump, bus, disk | files shared by sessions of one call, by the sweeper and by DELETE; the late downlink tap |
| ESL client (`bridge/esl.go`) | connection, ready flag, one-place reply channel, event channel | Run, API, Close | FreeSWITCH, control plane, agent forwarder, `ESLToBus` | replies matched by order alone over connections that come and go; give-ups |
| control plane (`bridge/control.go`, `ops.go`) | one socket per client | command → API, events → client | ESL client, bus, server | one reply per command among events |
| agent forwarder (`bridge/agent.go`) | agent connection per session | OnStart / OnAudio / OnText / OnEnd, frames from the agent | agent application, ESL client, session | two ends that may each end the call |
| cascade (`pipeline/cascade.go`, `mock.go`) | history, current turn and its cancel function | consumeASR, bargeIn, respond | recogniser, LLM, synthesiser, session | interruption racing a reply that starts |
| Loki shipper (`bridge/loki.go`) | bounded queue, batch | Send, run, Close | Loki | loss at overflow and exit |
| process (`cmd/fsbridge/main.go`) | signal, HTTP server | start, shutdown | all | main returns while another goroutine drains |
| providers (`providers/`) | connections to speech and language services | the pipeline's interfaces | network | external services |
| FreeSWITCH module (`module/ws_bridge_glue.cpp`, `mod_ws_bridge.c`) | per-call private data, playback buffers | start, stop, media callbacks, WebSocket callbacks | media thread, event thread | initialisation and clean-up against callbacks |
| libwsc (`module/libs/libwsc`) | connection state, send queue, receive buffer | connect, send, close, callbacks | event thread | stop against the event thread; fragment assembly |
| `fsctl`, examples | none worth modelling | | control plane | |

What makes each correct:

- **session**: a frame acknowledged is queued, written or dropped by an
  overflow, never lost or duplicated; order per sender; senders and the writer
  never stuck.
- **server, recorder, bus**: a finished bundle is the whole recording of its
  session; the timeline is what was published; every call's end is announced;
  Publish never hits a closed channel.
- **ESL client**: a call gets the reply of its own command; nothing crosses a
  reconnect; every call returns; Close stops the client.
- **cascade**: a reply in progress can always be cancelled; a cancelled reply
  falls silent and its goroutines end; the call's end ends all replies.
- **process**: a signal ends it, after draining.
- **agent forwarder, control plane**: the agent hears the call from its start
  frame to its stop frame; whoever ends the call ends it for all; a command is
  answered once and in order; a client that leaves holds nothing.
- **module and libwsc**: no callback touches released state; messages arrive as
  the peer completed them; the playback buffer is bounded, keeps the order and
  loses audio only for a reason the code has.

`PROJECT.json` lists the hazards line by line, with the properties that watch
them, and for those no property covers, the reason.

## 2. Modules

| module | models | checked by |
|---|---|---|
| `LossyFifo` | abstract: what a downlink queue promises | refinement in `session` |
| `Session` | `session.go`, select by select | `session` |
| `SessionProofs` | theorems about `Session` | TLAPS |
| `EventBus` | `eventbus.go`, one step per mutex section; instantiated by `ServeCall` | `bundle`, `events` |
| `ServeCall` | `serveWS` with the recorder, for several sessions of several calls | `bundle`, `events` |
| `ServeCallProofs` | theorems about `ServeCall` and the `EventBus` in it | TLAPS |
| `EslClient` | `esl.go` and `ESLToBus` | `esl` |
| `EslClientProofs` | theorems about `EslClient` | TLAPS |
| `Cascade` | `cascade.go` with the mock recogniser and synthesiser | `cascade` |
| `CascadeProofs` | theorems about `Cascade` | TLAPS |
| `ModuleStream` | `ws_bridge_glue.cpp` and `mod_ws_bridge.c`: commands, callbacks and clean-up of one call | `module` |
| `ModuleStreamProofs` | theorems about `ModuleStream` | TLAPS |
| `WsContext` | `WebSocketContext.cpp` of libwsc: senders, stop, and the event thread of one connection | `wsc` |
| `WsContextProofs` | theorems about `WsContext` | TLAPS |
| `WsReceiver` | `WebSocketReceiver.cpp`: frames into messages, refusals, control frames; over `Utf8` | `downlink` |
| `PlaybackBuffer` | the module's playback buffer and stash (`ws_bridge_glue.cpp`) | `downlink` |
| `Downlink` | `WsReceiver` and `PlaybackBuffer` together: the agent's audio from the socket to the caller | `downlink` |
| `DownlinkProofs` | theorems about `Downlink`, with the `WsReceiver` and `PlaybackBuffer` in it, and about the algorithms of `Utf8` and `WavMix` | TLAPS |
| `AgentForwarder` | `agent.go` inside `serveWS` | `callcontrol` |
| `ControlServer` | `control.go`, over `EventBus` | `callcontrol` |
| `CallControl` | `AgentForwarder` and `ControlServer` together, over the bus and the call | `callcontrol` |
| `CallControlProofs` | theorems about `CallControl` | TLAPS |
| `Utf8` | both UTF-8 validators of libwsc, beside RFC 3629's table | `algorithms`, `downlink` |
| `WavMix` | `finalizeWAV`, block by block | `algorithms`, `wav_silence` |
| `Shutdown` | how `main.go` stops | `shutdown_drain` |
| `MC...` | the instance of a module for TLC: its symmetry | |

### Session

A frame is named by its sender, the number of the call that queued it and its
kind. `pc[s]` is where a sender is inside `enqueue`; each of the four selects
is an action (`CheckDone`, `TrySend`, `EvictOldest`, `FinalSelect`), so anything
may happen between two of them. The last select has no default: a sender that
finds no room parks in `sendq`. A receive from a full Go channel moves the first
waiting sender's value into the buffer in the same operation; `QueueAfterRecv`
and its companions say so, for the writer's receive and for another sender's
drop alike. `Close` is split at its two statements, because `conn.Close` takes
time while `done` is closed, and a second caller of `Once.Do` waits for the
first. `acked`, `refused`, `evicted`, `taken`, `tapped` and `wire` are history.

### EventBus and ServeCall

One goroutine per session runs `serveWS`: `Accept`, the three file-creating
stages of `Begin` (each of which can fail), `Start`, the read pump (`Uplink`,
`EndRead`), then `Deregister`, the stages of `Recorder.Finish` and `End`
(audio.end). Beside it run the write pump's tap (`DownlinkLoad`,
`DownlinkWrite`: the recording is looked up before its mutex is taken, so
`Finish` may come between), the goroutine that drains the subscription
(`CaptureEvent`, `CaptureExit`), other publishers (`Transcript`) and whoever
removes bundles (`RemoveBundle`).

Files are inodes: `os.Create` of an existing path truncates the inode other
handles still write to, a write goes to its handle's own offset and leaves a
hole below it, and an unlinked inode stays writable. `spoiled` is the history of
which recordings were disturbed from outside, by a second session of the same
call or by a removal; the properties are about the others.

Creating audio.wav, writing its header and data, and making and writing meta.json
may each fail (`Fails`; `Fallible` says which files an instance lets fail). The code
then only logs, or does nothing, and goes on: it removes the raw tracks and publishes
recording.complete. `failed` is the history of these failures, and
`UndisturbedBundleIsWhole` asks of a failed audio.wav only that it holds a beginning
of its own session or is what it was before `Finish`. A frame whose write to a raw
track fails is not counted. Left out: a failing write of events.jsonl, whose error
the drain ignores (recorder.go:231), one that writes half a frame, and a removal of
raw tracks that fails.

### EslClient

`run` is where the goroutine of `Run` is, `pc[c]` where each caller is inside
`API`. Shared between them are `c.conn`, `c.ready` and `c.pendingReply`; each
access is a step of its own, as the code takes no lock across them. Connections
are numbered, 0 is nil. Commands and replies are named by the call and the
connection, which the wire does not carry: the properties are about that name.
FreeSWITCH answers in order, may send events at any time and may drop the
connection. `missed` remembers that `Close` ran in the window between the dial
and the assignment of `c.conn`.

### Cascade

A turn is a final transcript and the `respond` goroutine it starts. `rpc[t]` is
where it is; every critical section of `st.mu` and every channel operation is an
action. `CancelCurrent` is `st.cancel()`. The recogniser's and the synthesiser's
channels have the capacities of the mocks, as parameters. The session accepts
a frame while it is open: module `Session` shows that what is accepted comes out
in order. Of what was accepted only the history the properties ask for is kept:
chunks of a turn cancelled before (`stale`).

### ModuleStream

A stream is the private data (`private_t`) of one start command; its bug, its
connection and its event thread carry its number. `private` is the channel
variable through which every command and callback finds the stream. `start[p]`
is how far the start command has come: the connection is opened (`Connect`)
before the mutexes exist (`InitMutexes`), before the bug is attached (`AddBug`)
and before the channel knows it (`SetPrivate`). Everything else a thread can be
inside of is on its `stack`: `stream_session_cleanup` is run by the stop
command, by the error callback on the event thread (`RequestClose`), and by the
CLOSE callback of a bug, which FreeSWITCH calls inside `bug_remove` or on the
media thread, so that it may run inside itself. Its steps are `Find`
(unlocked), `LockStream`, `Mark` (the critical section), `Remove`, `Release`,
`Disconnect`, `Join`, `Destroy`.

The three one-bit flags share a word, and two of their writers hold no lock, so
a store is a load and a store (`Store`). FreeSWITCH is external: a located
session is not freed, bugs are removed under a write lock that running media
callbacks exclude, and the call's end closes the bugs and then frees the pool,
private data included. Locking a mutex that is not there ends the process
(`crash`, with who did it).

When the event thread ends is libwsc's business, and it does not promise it: a stop
may come before there is anything to wake, and a peer may send CLOSE and keep the
socket open (section 4). So `EventEnds` has no fairness. What needs a join to return says so:
`CleanupCompletes` and `HangupEndsStream` hold if `EventThreadsEnd`.

The properties leave out by name what the code does not protect against:
`unheard` errors, which met a channel that did not know the stream (yet), so that
on_error found no bug, or another's; `stray` streams, which a failed start, two overlapping starts, a CLOSE for
another stream or a hang-up during the start has cut off; a lost update of the flags (`torn`); and, for
`CallbackSafe`, commands and clean-ups (`crash.by`) that had found the bug just
before another clean-up destroyed its mutexes.

### WsContext

One libwsc connection. `at` is where the event thread is in `run`; its callbacks
are one step each, because what they read is written by other threads only
where they look once. The exception is `sendCallback`, which flushes
(`SendCallback`) and then resets the flag that suppresses further requests
(`MarkFlushed`). `pc[s]` is where a thread is inside `sendData` and
`requestSendFlush`, `stopper` inside `stop`: each atomic access and each mutex
section is a step. `handles` says whether the two events other threads activate
exist, and `active` which of them are active, in libevent's order. A frame is
named by its sender and the number of the call; CLOSE and ping or pong frames
have no sender. `wire`, `accepted` and `told` are history.

What the code does not protect against is named, and left out by the property it
would break: `late` frames, queued by a call that read CONNECTING before the
upgrade flushed, or between a flush and the reset of the flag, and
therefore sent only when something else asks for a flush; `missed`, a stop that
found no event to wake; `crash`, an `event_active` of an event that `cleanup`
freed after the pointer was read. Left out altogether: `on_open`'s own send
(the caller's, and atomic with the upgrade), the TLS variants of the same
errors, `bufferevent` timeouts, which the code never sets, and calls of
`sendData` after the event thread has ended, which only fill the queue.

### WsReceiver, PlaybackBuffer and Downlink

`stream` is what the peer has sent, frame by frame; `partial` says that of the
last one only the header has come, and `reading` that the event thread has been
told or is in `onData`'s loop. The first frames may come behind the answer to
the upgrade (`Arrive` while not `upgraded`), where libevent will not call again
for them. `HandleFrame` is one turn of the loop, with the refusals a header is
enough for; `Assemble` is the end that `handleDataFrame` and
`handleContinuationFrame` share. Compression is named, not computed: a deflated
byte is the byte raised by a constant, so that decompressing what was not
compressed fails and validating what was not decompressed finds no text. The
properties do not use the automaton: `Verdict` and `Content` say of a sequence
of frames, by its indices alone, what the protocol makes of it, `Messages` and `Pongs`
collect what it asks for, and `DeliversMessages` and `AnswersByProtocol` compare.
What a header alone refuses, and with which code, these take from the code
(`HeaderRefused`, `CloseCode`). So the RSV1 bit of a control or continuation frame
under negotiated compression, which the code accepts (WebSocketReceiver.cpp:328), is
not judged, although libwsc's README.md:12 claims RFC 6455 compliance.

In `PlaybackBuffer` a sample has the name of its message and its place, so that
losing, repeating or reordering one is seen. `OnBinary`, `ClearPlayback` and
`PlaybackFrame` are one step each because each holds `play_mutex` throughout.
The loops that move or drop 4096 bytes at a time are written as the number of
chunks they take (`Up`). `rate` is the channel's rate over the streaming rate;
the stash is discarded when it changes. `lost` is everything dropped for a
reason the code has.

`Downlink` joins them by the callbacks: a binary message is buffered, the text
`{"type":"clear"}` empties both buffers, other texts leave them alone. `Next` is
a step of the event thread or of the media thread.

### AgentForwarder, ControlServer and CallControl

`serve` is where the goroutine of `serveWS` is: connecting to the agent
(`Dial`), the start frame, forwarding, and the four steps that end a call.
`reader` is the goroutine that reads the agent's frames, `link` the agent's
connection: it may be cut at any time, which each side notices only when it
writes or reads. `call` and `session` are the two things that may end: the call
in FreeSWITCH and its stream. OnAudio closes the session when a write fails,
OnText ignores the failure, and also skips a frame that is not JSON, which
`json.Marshal` refuses before anything is written (agent.go:109-113, 232): a
"plain" frame is gone with the link up. `Forward` does all of this, and
`AgentHearsCall` speaks of the frames that can be sent (`Relayed`).

A client of `ControlServer` has a goroutine of commands (`control`) and, as the
bus is there, one that pushes events (`pusher`). A command either needs
FreeSWITCH (`EslReturns`, whatever it answered), or the session of a call
(`Clear`), or is answered at once. A reply is named by the number of its
command. `conn[c]` is lost or left at any time, which a goroutine notices only
at its next read.

In `CallControl` the two meet: serveWS and the agent's reader publish on the bus
the clients listen to, a client's `hangup` command and the agent's may end the
call, and a `clear_playback` command finds the session only while it is listed.

### Utf8 and WavMix

Pure algorithms as operators, each beside a definition that does not compute the
same way: `Feed` is `validateChunk`'s automaton and `IsValidUtf8` the look-ahead
of `isValidUtf8`; `WellFormed` is the table of RFC 3629, read over the whole
text. `FinalizeWAV` carries the two block buffers of the loop from block to
block.

### Shutdown

Three kinds of goroutine: main, the one that waits for the signal, and the
sessions. The process ends with main.

## 3. Runs

A run that passes is an exhaustive search of the instance its `.cfg` gives.

| run | instance | shows |
|---|---|---|
| `session` | 2 senders × 2 calls, queue of 2 | safety, refinement, and that Close frees senders and writer even if `conn.Write` never returns; with a peer that reads, sends return and frames arrive |
| `bundle` | 2 sessions of one call, 1 frame each way, 1 removal, buffer of 1; writing audio.wav and meta.json may fail | undisturbed bundles are whole, or what a failed write leaves of them |
| `events` | 2 sessions, 2 calls, 1 foreign event, buffer of 1 | timelines are exact; no send on a closed channel; every end is announced (if events.jsonl was created) |
| `esl` | 2 callers, 2 connections, 2 events, event channel of 1 | replies stay on their connection; nothing is written into a handshake; replies pass events; every call returns; Close ends Run |
| `cascade` | 2 turns of 3 chunks, 1 interruption, both channels of 1 | cancellation always reaches the reply in progress; a cancelled reply falls silent and its goroutines end; the end of the call ends everything |
| `module` | 1 start, 1 command thread, the media and the event thread | audio callbacks find their mutexes; if event threads end, every clean-up ends and a hang-up closes the connection; an error the channel can place takes the bug off the call |
| `wsc` | 2 senders, 2 calls in all, 1 stop, queue of 2, 1 control frame | frames in order, once, none after CLOSE; a waiting frame has a flush coming; every unasked end is reported; stop returns |
| `downlink` | 3 frames of 15 kinds, whole or cut after the header, compression negotiated; play buffer of 4 samples, chunks of 3, frames of 2, two rates, 3 frames played | messages whole and in order, refusals with the right code; audio bounded, in order, and lost only for a reason; a clear silences |
| `callcontrol` | 1 call, 2 frames, 1 wish of the agent; 1 client, 2 commands; subscriptions of 1 event | the agent hears the call from start to stop; the call ends for all; commands are answered once and in order; nothing is left of a client that went |
| `algorithms` | texts of 4 bytes of 16 classes, and of 5 if 4 can be completed; tracks of 5 samples, blocks of 2 | both validators accept what RFC 3629 allows; both tracks keep their places |

The violation runs are in section 4. `bundle`, `events`, `esl`, `cascade` and
`callcontrol` take a minute or more, most of it for the number of states in
`bundle` and for the liveness properties in the others.

**Bounds.** Two senders are enough for one to take the room the other's drop
made and for one to park while the other drops; two calls each, for a frame to
be older or newer than another of its sender; a queue of two, for "oldest" and
"newest" to differ. Two sessions of one call meet every sharing of a bundle; a
buffer of one event fills up, and with two calls an event may be a recording's
own or another's. `events` lets no write fail, since its properties do not look at
audio.wav and meta.json. Two connections give a reconnect, two callers a call after a
give-up; a second event is the one that finds the channel full. Two turns give a newer and an older
one, and three chunks, more than the channel and the reader's
hand hold, make the synthesiser wait for a reader that has left.
In `module` one stream meets every thread that can clean it up: a command, its
own event thread, the media thread, and each of these nested in another; a
second start command takes the search beyond ten million states and is left to
the theorem `CallbacksAreSafe`.
In `downlink` the frames are chosen so that every branch of the receiver is
taken: data and continuations that are right, misplaced, compressed, no text, and
control frames that are right or too long. A character of two bytes can be cut by
a fragment; three frames make a fragmented message with a control frame inside. A message of five samples is larger than the buffer; chunks of three in
a buffer of four leave the buffer and the stash uneven; the two rates make the
stash useless in between. In `callcontrol` one client meets every race with the
call, because clients share nothing but the bus (two sessions and their
subscriptions share it in `events`); two commands tell the order of replies; the
subscription of one event overflows; two frames let one that is skipped come before or after
one that is sent. In `algorithms` the sixteen bytes are the
bounds of the classes the table has, five bytes hold one character and the
beginning of the next; five samples are two blocks and a half, for tracks of any
two lengths.
In `wsc` two calls are two frames of one sender (order) or one of each of two
(the race for the flush); two frames fill the queue, so that CLOSE meets a full
one.
Bounds named `Max...` (and `Chunks`) only limit how often the environment acts;
the others are capacities of the code at smaller size.

**Type invariants.** `Session!TypeOK` is proved, and each proof module states and
proves the types its component needs (section 5); the runs are kept for what
relates two pieces of state.

**Symmetry** of the sessions is used in `bundle`, which checks no liveness.

**Deadlock** is not checked where the bounded environment may run out of things
to do, which is a state where a real process waits for the next call.
`Session` has an explicit action for the state where everything is over, and is
checked for deadlock.

**Fairness.** Weak fairness for the steps a goroutine takes when nothing it
waits for is missing: the Go scheduler runs runnable goroutines. Strong fairness
twice: for `apiMu` (`sync.Mutex` hands over to a waiter in starvation mode), and
for `ModuleStream!Remove`, which waits for a write lock that media callbacks,
20 ms apart, leave free again and again. No
fairness for callers, operators, FreeSWITCH, or a peer that must read: the
liveness properties that need a reading peer say so themselves
(`Session!PeerReads => ...`), as does the one that needs the 15 s timer
(`EslClient!Timer => ...`) and those that need event threads to end
(`ModuleStream!EventThreadsEnd => ...`). `conn.Close` is assumed to return
(the library bounds it), a handshake on a dead connection to fail, and the LLM
and the synthesiser to return. In `CallControl`, FreeSWITCH answers a command or
its connection is lost, which `EslClient!EveryCallReturns` shows to be enough,
and the module reads its stream, which `Session!EverySendReturns` shows to be
enough. `Downlink` states no fairness: its properties are safety. In `WsContext` threads run and timers go off;
`StopReturns` asks of a peer that began the close that it also ends the TCP
connection.

## 4. Where code and documents disagree

The runs with `expect: violation` check one sentence of a comment or document
each; TLC's counterexample is what the code does. `PROJECT.json` ("findings")
quotes both sides.

- `wav_silence`: the agent's track is padded with silence only up to the end of
  the first block (64 KB, two seconds at 16 kHz); after it, the padding of a call
  repeats what the agent said in the block before.
- `shutdown_drain`: the process exits before sessions are drained.

More were met while modelling and have no run of their own. esl.go:200 says that
`API` "executes a FreeSWITCH API command and returns its reply text", but a call
that gives up (esl.go:224-229) leaves its reply to come, and when it comes after
the next call's drain it is returned to that call. cascade.go:117 says that
`bargeIn` "cancels any in-flight reply and flushes the module's playback
buffer", but a `respond` goroutine that has not stored its cancel function yet
(cascade.go:136) plays in full after the clear. docs/bridge-handler.md:267-268
says "The module sends the metadata frame before any audio", but audio captured
while the connection is being set up is queued and flushed before `on_open` sends
the metadata (WebSocketContext.cpp:727), and none is sent if the connection opens
before the channel has its bug (ws_bridge_glue.cpp:283-284). If events.jsonl
cannot be created, `Begin` has subscribed but started nobody to drain, and
`Finish` waits for `eventsDone` for ever (recorder.go:195): audio.end is never
published, although docs/logging.md:73 says it is when the session terminates
(`EndIsAnnounced` leaves that session out). `SendAudio` can
wait, although session.go:72 says "It never blocks": two senders overflow, each
drops one frame, the faster one refills both slots (`EverySendReturns` and the
theorem `ParkedOnlyWhenFull` are about that wait). audio.end is never in events.jsonl,
which docs/recordings.md:97 shows there: it is published after the recorder has
unsubscribed. `Close` in the window after the dial does not end `Run`, which
`CloseStopsRun` leaves out by name (`missed`). An acknowledged clear is dropped
when it is the oldest frame of an overflowing queue, although session.go:89 says
that ClearPlayback sends one. recording.complete is published for a bundle that
the sweep or a DELETE removed during the call, although docs/recordings.md:151
says that its path can be read, and also when audio.wav or meta.json could not be written,
after the raw tracks are gone (recorder.go:201-213), although the same page says "You can
read `audio.wav`, `meta.json`, and `events.jsonl` directly". A text frame that is not
JSON never reaches the agent (agent.go:109-113, 232), and
nothing says so: agent.go:24 only tells of metadata that is JSON. The lookup of call variables "is bounded to
2s" (agent.go:121-123), but the two seconds count from when `API` has `apiMu`, for
which it waits without a deadline. And in the module, an error
before `set_private` finds no bug (`ws_bridge_glue.cpp:273-280`), and the start command
then leaves an attached, silent one (`mod_ws_bridge.c:100-104`): `ErrorRemovesBug` leaves it out
by name (`unheard`). With two start commands, a
start that falls between the clean-up's `set_private(nullptr)` and its
`bug_remove` sets the variable to the new stream, which the CLOSE callback of
the old bug then cleans up as if the call were closing: the new bug stays
attached to released private data (`mod_ws_bridge.c:38-39`,
`ws_bridge_glue.cpp:936`; the instance with `Starts = 2` shows it). In libwsc,
frames queued before the connection is open may be dropped by a flush that finds
it still CONNECTING, although libwsc's README.md:105-106 says that they are sent
once it is open; a stop before the wake-up event exists is
forgotten, so that `stop` joins a thread nobody told to end; and a peer that sends CLOSE but
keeps the socket open keeps the event thread: the comment at
WebSocketContext.cpp:1223 says the loop exits "on rx close", but `onRxClose`
does not leave it and `closeTimerCb` does nothing once a CLOSE was received. The
`join` of a clean-up may then wait for ever (WebSocketContext.cpp:303; 311-314,
365-371 and 401-408 are the ways the thread is left running).

## 5. Proofs

`SessionProofs` proves, for any set of senders, any capacity and any number of
calls, from the two assumptions on the constants (`CapAssumption`,
`MaxSendsAssumption`):

- `TypeCorrect`, `AckedNeverLost`, `OrderKept`, `ParkedOnlyWhenFull`: the type
  invariant, that an acknowledged frame is accounted for, that the order of a
  sender's frames is kept, and that a sender waits only behind a full queue; the
  run `session` checks the second and the third on its instance;
- `RecordingFollowsWire` (`RecordedMatchesWire`), by `TapFollowsWire`: what the recorder
  was given is the audio of what was written, with the frame in the pump's hand ahead of
  it while that is being written, and for good if the write fails;
- `Refinement`: `Session` implements `LossyFifo`.

The inductive invariant `IInv` adds to the checked invariants what makes them
inductive: a sender inside `enqueue` has begun a call (`InCall`); every frame
that left a call behind is older than the call its sender is in (`Known`), so
that the frame being queued is new, which gives both "only once" and "in order";
`done` is set exactly when `Close` has begun (`OnceDone`); a pump that taps or
writes holds a frame (`PumpHolds`). The central lemma is about a receive
(`RecvQueue`, `RecvInv`): the head leaves, and the frame of the first parked
sender, which by `ParkedBehindFullQueue` exists only when the queue is full,
refills it. `RecvInv` serves the writer's receive and the overflow's drop. The
refinement rests on the same two lemmas: a receive is a `Leave` of the FIFO, a
send that finds room a `Put`, and every other step leaves the queue alone.

`EslClientProofs` proves, for any callers, calls, connections and events, from
`NoneAssumption`:

- `HandshakeUndisturbed` (`NoCommandInHandshake`), by `ConnInv`: the client is
  ready only while its connection is served (`ReadyServes`), and a caller loaded a
  connection no later than the one of the moment (`ConnTypes`), so that a new one
  is nobody's;
- `RepliesStay` (`RepliesStayOnConnection`), by `ReplyInv`: a reply is in one
  place (`Apart`), belongs to a command that was given up or whose caller waits for
  it (`Owned`), and lies on the connection of the moment (`OnCurrent`). The hard
  case is a caller that waits on a connection while the next one is set up:
  nothing is under way on that one, because `apiMu` is held (`MuHeld`) and every
  connection before it is closed (`FormerClosed`).

`CascadeProofs` proves `ReplyCancellable` (`LiveReplyIsCancellable`) and
`CancelledStops` (`CancelledReplyStops`) for any number of turns, interruptions and
chunks. What makes the first inductive is that turns in progress have different
numbers (`Numbered`), so that `Finish` of the latest leaves nobody else who is not
cancelled (`Latest`).

`CallControlProofs` proves `CommandsAnswered` (`RepliesAnswerCommands`) for any
clients and commands, and `CallHeard` (`AgentHearsCall`) for a call of any length, with frames that are not
JSON anywhere in it. What the agent should hear (`Relayed`) is a recursive function;
that another frame adds itself, or nothing, is `RelayedAppend`, by induction over the
length as in `DownlinkProofs`. The theorem rests on when the agent's connection can be up (`LinkInv`: never before
the start frame was written on it, never after `CloseAgent`) and on the number of
frames serveWS is done with (`Forwarded`).

`ServeCallProofs` proves, for any sessions, calls, frames, events, removals and any
size of the buffer, from `NoneAssumption` (what stands for "no file" is neither a
session nor a uuid):

- `NeverPanics` (`NeverSendsOnClosed`), by `Stages`: where `serveWS` is says what a
  session holds, so a channel is closed only after its subscription left the map;
- `BundlesAreWhole` (`UndisturbedBundleIsWhole`). Nobody shares the call of an
  undisturbed recording (`Alone`: whoever enters a recording spoils those that are
  there), and an inode is only written by sessions of the call it was made for
  (`OfOneCall`), so no other session reaches the files of an undisturbed one
  (`OthersDisk`). Its own steps then keep `Disks`: the raw files hold as many of its
  frames as it counted, and after `FinishWav` audio.wav does (`Holds`), unless writing it
  failed: then it has a beginning of them, or no session of the call has made it its
  own. That an audio.wav is never of a session before its `FinishWav`
  is `FreshWavs`; the theorem holds whatever writes fail;
- `TimelinesAreComplete` (`TimelineIsWhatBusAccepted`). `Timelines` says that the
  events kept for a session are its log, followed by those of its call that are
  still in the channel. "Those of its call" is a subsequence, and filtering a
  sequence is recursive: `Finds` says instead, by a function from places to places,
  where each of them is. Publishing (`PublishContinues`) and receiving
  (`ReceiveContinues`) keep it, and with an empty channel (`AllReceived`) the two
  are equal.

`DownlinkProofs` proves, for every size of the buffers, every chunk and frame size and
set of rates that `SizesAssumption` and `RatesAssumption` allow, and whatever frames
the peer sends (`FramesAssumption`):

- `LatencyBounded` (`BuffersBounded`): `play_buffer` and `dl_stash` stay within
  their bounds. The stash is filled a chunk at a time until a frame is there; that
  so many chunks are enough and one less is not is the lemma `UpCovers`, and what a
  frame leaves in the stash is `FrameBounds`;
- `NoSampleVanishes` (`AudioAccountedFor`), by `DownlinkInv`: what was heard, then
  the stash, then the playback buffer are in order of message and part, and each
  sample is in one of them or was dropped, cleared or resampled;
- `UnderrunsAreShort` (`UnderrunMeansShort`) and `ClearedIsNeverHeard`
  (`ClearSilences`), which are action properties: from the same invariant, a step of
  the media thread passes a frame through only when less than one is there, and after
  a clear hears nothing of an earlier message;
- `MessagesAreDelivered` (`DeliversMessages`) and `AnswersFollowProtocol`
  (`AnswersByProtocol`), by `ReceiverAccounts`. The invariant `Received` says that what was
  delivered and answered is what the protocol asks for the frames taken, and `Holding`
  that between two frames the receiver has the message that is under way: its opcode and
  compression from the first fragment, the bytes of all fragments so far, and a validator
  that was fed exactly these bytes. Control frames between the fragments leave it alone.
  `Verdict` and `Content` read a whole sequence by its indices, the receiver goes frame by
  frame: `SameUpTo` and the lemmas after it say that what is said of a frame depends on no
  later one, so a step only adds what the frame it takes asks for (`FrameTaken`).

It also proves, of the module `MCAlgorithms`,

- `TextsAreDecided` (`Utf8IsRfc3629`), for a text of any length of the bytes of that
  module: the validator is in the state the text so far leads to, in whatever chunks it
  came (`TextFed`, `ChunksJoin`). The lemmas it cites, `ValidatorDecides` and
  `ReasonDecides`, are about every sequence of bytes;
- `TracksAreKept` (`TracksKeepTheirPlace`), for tracks of any length and every size of
  block `BlockAssumption` allows.

They are in this module because the receiver needs the same lemmas: a message is text if
the automaton, fed in fragments, says what the table says of the whole. The variables of
`MCAlgorithms` are its own (`AlgSpec`); no step of `Downlink` touches them.

These proofs need induction over the length of a sequence. The library's induction theorems
cannot be used, but a set of numbers that is not empty has a least element, which the
library proves, so a set that holds 0 and with a number the next one holds all
(`SetInduction`). `Recursion` gets from it that the functions the model defines recursively
exist; unfolding them is then a rewriting of their equations.

`WsContextProofs` proves, for any senders, calls and any size of the send queue, from
`QueueAssumption` and `BoundAssumption`:

- `EndsAreReported` (`EndIsReported`), by `Unprompted`: a loop left without `stop`
  was left by a path that calls on_error or on_close;
- `FlushesAreOnTheirWay` (`WaitingHasFlush`), by two invariants, since neither is
  inductive alone: while the flag is set a flush is under way or has just passed
  (`FlagHasFlush`), and a frame that waits has a flush under way or a sender about to
  ask for one (`FrameHasFlush`);
- `WireKeepsOrder` (`WireInOrder`), by `InOrder`: the wire and the queue behind it,
  put together, are in the order of each sender's calls, and CLOSE is last. It needs
  that CLOSE waits only when the connection is closing (`CloseWaitsInClosing`), where a
  flush sends no data any more.

`ModuleStreamProofs` proves `CallbacksAreSafe` (`CallbackSafe`) for any number of start
commands and of threads that run the others, from `NoneAssumption` (None is neither a
stream nor a crash). TLC checks the property with one start command; the theorem covers
starts that overlap, each other's clean-ups included. A crash is the last step of a run,
and a torn word excuses what follows, so the inductive invariant `IInv` is about a run
before either (`Sound`):

- `Stages`: how far a start command has come says which of its stream's parts are there;
- `Frames`: what a thread that is inside of something may count on. The argument is in
  `FrameOk`: whoever is past `Remove` has the bug out and no media callback of it running
  (`Detached`), past `Release` the callbacks are released, and at `Destroy` the event
  thread has ended or is the one that destroys;
- `AllKept`: a stream nobody cut off is still to be cleaned up, or its mutexes are gone and
  both threads are done with it (`Quiet`). This is what makes a skipped clean-up (`Find`
  with no stream, `LockStream` behind another one) harmless.

A clean-up nests, so a stack is any sequence of frames; only `Release` is ever below
another one (`Stacks`). Most steps only replace what one thread is inside of: `CoreStays`
covers those, `AsideStays` the other streams of a step that moves one on.

**Only model-checked.** The liveness properties: temporal proofs under fairness are out of
reach of the prover used. Every safety property of the passing runs is a theorem, for all
values of the constants the assumptions allow. The two violation runs check what the code
does not do.

## 6. Not modelled

Wording, formats and logs; audio samples (frames are counted or named);
`readESLMessage`'s framing; what FreeSWITCH, the agent, the speech and language
services and the file system do beyond what the code relies on; `fsctl` and the
examples, which keep no state of the system; TLS, base64 and SHA-1, which are
pure data.

- Loki: a queue of log lines that drops on overflow; nothing depends on it. The
  lines queued when the process ends are lost, because main never calls `Close`.
- `ops.go`, the echo handler, `protocol.go`: no state.
- The providers: each is a client of an external service; what the cascade relies
  on is in `Cascade`. `resample.go` computes sample values.
- Of the recorder: which bundle the sweep picks, listing and fetching, the
  32-bit length in the header of audio.wav, and failing writes of events.jsonl: with
  them `events` is beyond TLC's reach. A timeline then lacks the event that
  was not written (recorder.go:231).
- Of the control plane: the branch without a bus (control.go:102), which
  `fsbridge` never takes.
- Of the module: the capture side's resampling and mixing, the latency of the
  speex resampler, and bytes. `PlaybackBuffer` counts samples, so an odd number of
  bytes in a message is outside it; a streaming rate above the channel's is, too.
  A binary message that arrives during clean-up is lost (ws_bridge_glue.cpp:147);
  `PlaybackBuffer` has no clean-up.
- Of libwsc: the text of the upgrade's headers, masks and deflate.
- A composition of `Cascade` and `Session`: the read pump that waits in the
  recogniser's full channel while its consumer waits for room in the session's
  queue (mock.go:67) is a hazard no run covers.

## 7. Plan

Done, in this order: `Session` with `LossyFifo` and its proofs (the path of
every frame the caller hears); `EventBus` and `ServeCall` (the life of a call
and its recording); `EslClient`; `Cascade`; `Shutdown`; `ModuleStream`;
`WsContext`; `Utf8` and `WavMix`; `WsReceiver`, `PlaybackBuffer` and `Downlink`;
`AgentForwarder`, `ControlServer` and `CallControl`.

Next:

- A composition of `Cascade` with the promise `LossyFifo` makes, for the wait of
  the read pump behind a full queue.
