---------------------------- MODULE ModuleStream ----------------------------
(***************************************************************************)
(* One call inside the FreeSWITCH module (src/module/ws_bridge_glue.cpp,   *)
(* mod_ws_bridge.c): uuid_ws_bridge commands start, stop and talk to       *)
(* streams on their own threads, the call's media thread runs the          *)
(* callbacks of the attached bug, and the event thread of each connection  *)
(* delivers what the bridge sends.                                         *)
(*                                                                         *)
(* A stream is the private data of one start command.  Its media bug, its  *)
(* connection and its mutexes are named after it.  What a thread is inside *)
(* of is its stack of frames, top first: the clean-up can run inside a     *)
(* callback that runs inside another clean-up.                             *)
(***************************************************************************)
EXTENDS Naturals, Sequences

CONSTANTS
    Starts,     \* how many start commands there may be
    Commands,   \* threads that run stop, pause, resume and send_text commands
    Media,      \* the call's own thread
    None

VARIABLES
    start,      \* where each start command is
    private,    \* the channel variable MY_BUG_NAME: the stream of its bug
    bug,        \* each stream's media bug: none, attached, removed
    mutexes,    \* each stream's mutex and play_mutex: none, live, gone
    lock,       \* the thread that holds a stream's mutex across a step
    buffer,     \* play_buffer is there
    flags,      \* the bit-field word: audio_paused, close_requested, cleanup_started
    streamer,   \* pAudioStreamer is set
    cleaned,    \* m_cleanedUp: the callbacks are gone
    conn,       \* none, connecting, open, closed or failed
    event,      \* the event thread: none, running, ended
    stopping,   \* the connection was asked to stop
    stack,      \* what each thread is inside of
    hungup,     \* the call hung up
    gone,       \* the session, and with it all private data, is freed
    crash,      \* a lock of a mutex that is not there: who, and which stream's
    stray,      \* streams a failure or a race cut off from the channel
    torn,       \* an update of the flags lost another one's bit
    unheard     \* streams whose error met a channel that did not name them

startVars == <<start, private, bug>>
pvtVars == <<mutexes, lock, buffer, flags, streamer>>
connVars == <<cleaned, conn, event, stopping>>
callVars == <<hungup, gone>>
ghosts == <<crash, stray, torn, unheard>>
vars == <<startVars, pvtVars, connVars, stack, callVars, ghosts>>

\* A start command, its private data and its event thread, numbered in the order
\* in which the commands look for an attached bug.
Streams == 1..Starts

Threads == Commands \union Streams \union {Media}

\* None is neither a stream nor a crash.
ASSUME NoneAssumption ==
    None \notin Streams /\ \A p \in Streams, who \in {"callback", "cleanup", "command"} :
        [by |-> who, of |-> p] # None

-----------------------------------------------------------------------------
Clear == [paused |-> FALSE, closing |-> FALSE, cleaning |-> FALSE]

Init ==
    /\ start = [p \in Streams |-> "none"] /\ private = None
    /\ bug = [p \in Streams |-> "none"]
    /\ mutexes = [p \in Streams |-> "none"] /\ lock = [p \in Streams |-> None]
    /\ buffer = [p \in Streams |-> FALSE]
    /\ flags = [p \in Streams |-> Clear]
    /\ streamer = [p \in Streams |-> FALSE] /\ cleaned = [p \in Streams |-> FALSE]
    /\ conn = [p \in Streams |-> "none"] /\ event = [p \in Streams |-> "none"]
    /\ stopping = [p \in Streams |-> FALSE]
    /\ stack = [t \in Threads |-> <<>>]
    /\ hungup = FALSE /\ gone = FALSE
    /\ crash = None /\ stray = {} /\ torn = FALSE /\ unheard = {}

-----------------------------------------------------------------------------
(* Frames.  `at` is the next step, `of` the stream it is about, `closing`  *)
(* the argument channelIsClosing, `owns` whether the streamer was found,   *)
(* `word` the flags as they were loaded.                                   *)

Frame(at, p) == [at |-> at, of |-> p, closing |-> FALSE, owns |-> FALSE, word |-> Clear]

\* capture_callback on SWITCH_ABC_TYPE_CLOSE of the bug of p.
CloseFrame(p, word) == [Frame("find", p) EXCEPT !.closing = ~word.closing]

Idle(t) == stack[t] = <<>>
Top(t) == Head(stack[t])
At(t, at) == crash = None /\ stack[t] # <<>> /\ Top(t).at = at

Call(t, f) == stack' = [stack EXCEPT ![t] = <<f>> \o @]
Goto(t, f) == stack' = [stack EXCEPT ![t] = <<f>> \o Tail(@)]
Step(t, at) == Goto(t, [Top(t) EXCEPT !.at = at])
Return(t) == stack' = [stack EXCEPT ![t] = Tail(@)]

\* What locking a mutex that is not there does: the process ends.
Crash(who, p) == crash' = [by |-> who, of |-> p] /\ UNCHANGED stack

\* A store of the flags loaded as `word` undoes what happened in between.
Store(p, word, new) ==
    /\ flags' = [flags EXCEPT ![p] = new]
    /\ torn' = (torn \/ flags[p] # word)

\* A media or receive callback locks a mutex for its own work only: play_mutex for the
\* playback buffer, mutex (by trylock) to copy the streamer.
LockBriefly(t, p) ==
    /\ \/ mutexes[p] = "live" /\ Return(t) /\ UNCHANGED crash
       \/ mutexes[p] # "live" /\ Crash("callback", p)
    /\ UNCHANGED <<startVars, pvtVars, connVars, callVars, stray, torn, unheard>>

\* The session is read-locked by a command, and by a callback that located it.
Starting(p) == start[p] \notin {"none", "done", "refused", "failed"}
Located(t) == \E i \in DOMAIN stack[t] : stack[t][i].at # "binary"
InUse == (\E p \in Streams : Starting(p)) \/ \E t \in Threads : Located(t)

\* FreeSWITCH holds the bugs' read lock while it runs a media callback.
InCallback == ~Idle(Media) /\ Top(Media).at \in {"read", "write"}

-----------------------------------------------------------------------------
(* uuid_ws_bridge start.                                                   *)

From(p, a, b) == crash = None /\ start[p] = a /\ start' = [start EXCEPT ![p] = b]

CheckPrivate(p) ==
    /\ ~gone /\ \A q \in 1..(p - 1) : start[q] # "none"
    /\ \/ private = None /\ From(p, "none", "checked")
       \/ private # None /\ From(p, "none", "refused")
    /\ UNCHANGED <<private, bug, pvtVars, connVars, stack, callVars, ghosts>>

\* AudioStreamer::create connects: from here the event thread runs callbacks.
Connect(p) ==
    /\ From(p, "checked", "connected")
    /\ conn' = [conn EXCEPT ![p] = "connecting"]
    /\ event' = [event EXCEPT ![p] = "running"]
    /\ UNCHANGED <<private, bug, pvtVars, cleaned, stopping, stack, callVars, ghosts>>

InitMutexes(p) ==
    /\ From(p, "connected", "mutexes")
    /\ streamer' = [streamer EXCEPT ![p] = TRUE]
    /\ mutexes' = [mutexes EXCEPT ![p] = "live"]
    /\ UNCHANGED <<private, bug, lock, buffer, flags, connVars, stack, callVars, ghosts>>

InitBuffers(p) ==
    /\ From(p, "mutexes", "buffers")
    /\ buffer' = [buffer EXCEPT ![p] = TRUE]
    /\ UNCHANGED <<private, bug, mutexes, lock, flags, streamer, connVars, stack, callVars, ghosts>>

\* A buffer or the resampler cannot be created: destroy_tech_pvt, and the
\* connection stays.
InitFails(p) ==
    /\ From(p, "mutexes", "failed")
    /\ \E b \in BOOLEAN : buffer' = [buffer EXCEPT ![p] = b]
    /\ mutexes' = [mutexes EXCEPT ![p] = "gone"]
    /\ stray' = stray \union {p}
    /\ UNCHANGED <<private, bug, lock, flags, streamer, connVars, stack, callVars, crash, torn,
                   unheard>>

\* switch_core_media_bug_add takes no bug on a call that hung up.
AddBug(p) ==
    /\ From(p, "buffers", "bug") /\ ~hungup
    /\ bug' = [bug EXCEPT ![p] = "attached"]
    /\ UNCHANGED <<private, pvtVars, connVars, stack, callVars, ghosts>>

AddBugFails(p) ==
    /\ From(p, "buffers", "failed")
    /\ stray' = stray \union {p}
    /\ UNCHANGED <<private, bug, pvtVars, connVars, stack, callVars, crash, torn, unheard>>

SetPrivate(p) ==
    /\ From(p, "bug", "done")
    /\ private' = p
    /\ stray' = stray \union ({private} \ {None}) \union (IF bug[p] = "removed" THEN {p} ELSE {})
    /\ UNCHANGED <<bug, pvtVars, connVars, stack, callVars, crash, torn, unheard>>

StartStep(p) ==
    \/ CheckPrivate(p) \/ Connect(p) \/ InitMutexes(p) \/ InitBuffers(p) \/ InitFails(p)
    \/ AddBug(p) \/ AddBugFails(p) \/ SetPrivate(p)

-----------------------------------------------------------------------------
(* stream_session_cleanup, run by stop, by an error's callback and by the  *)
(* CLOSE callback of a bug.  It works on the stream the channel variable   *)
(* names, whichever bug it was called for.                                 *)

Find(t) ==
    /\ At(t, "find")
    /\ \/ private = None /\ Return(t) /\ UNCHANGED stray
       \/ /\ private # None
          /\ Goto(t, [Top(t) EXCEPT !.at = "lock", !.of = private])
          /\ stray' = stray \union (IF Top(t).of \in {None, private} THEN {} ELSE {private})
    /\ UNCHANGED <<startVars, pvtVars, connVars, callVars, crash, torn, unheard>>

LockStream(t) ==
    /\ At(t, "lock")
    /\ LET p == Top(t).of IN
        \/ mutexes[p] # "live" /\ Crash("cleanup", p) /\ UNCHANGED lock
        \/ /\ mutexes[p] = "live" /\ lock[p] = None
           /\ \/ flags[p].cleaning /\ Return(t) /\ UNCHANGED lock
              \/ /\ ~flags[p].cleaning
                 /\ lock' = [lock EXCEPT ![p] = t]
                 /\ Goto(t, [Top(t) EXCEPT !.at = "mark", !.word = flags[p]])
           /\ UNCHANGED crash
    /\ UNCHANGED <<startVars, mutexes, buffer, flags, streamer, connVars, callVars, stray,
                   torn, unheard>>

\* Mutant: a channel that closes is left to close the connection by itself.
MarkLeavingOpen(t) ==
    /\ At(t, "mark")
    /\ LET f == Top(t) IN
        /\ Store(f.of, f.word, [f.word EXCEPT !.cleaning = TRUE])
        /\ private' = None
        /\ streamer' = [streamer EXCEPT ![f.of] = FALSE]
        /\ lock' = [lock EXCEPT ![f.of] = None]
        /\ Goto(t, [Frame(IF f.closing THEN "destroy" ELSE "remove", f.of)
                        EXCEPT !.owns = streamer[f.of]])
    /\ UNCHANGED <<start, bug, mutexes, buffer, connVars, callVars, crash, stray, unheard>>

\* The rest of the critical section.
Mark(t) ==
    /\ At(t, "mark")
    /\ LET f == Top(t) IN
        /\ Store(f.of, f.word, [f.word EXCEPT !.cleaning = TRUE])
        /\ stray' = stray \union ({private} \ {None, f.of})
        /\ private' = None
        /\ streamer' = [streamer EXCEPT ![f.of] = FALSE]
        /\ lock' = [lock EXCEPT ![f.of] = None]
        /\ Goto(t, [Frame(IF f.closing THEN "release" ELSE "remove", f.of)
                        EXCEPT !.owns = streamer[f.of]])
    /\ UNCHANGED <<start, bug, mutexes, buffer, connVars, callVars, crash, unheard>>

\* switch_core_media_bug_remove waits for the media callbacks, takes the bug
\* out and runs its CLOSE callback.
Remove(t) ==
    /\ At(t, "remove")
    /\ t # Media => ~InCallback
    /\ LET p == Top(t).of IN
        \/ /\ bug[p] = "attached" /\ bug' = [bug EXCEPT ![p] = "removed"]
           /\ stack' = [stack EXCEPT ![t] =
                <<CloseFrame(p, flags[p]), [Top(t) EXCEPT !.at = "release"]>> \o Tail(@)]
        \/ bug[p] # "attached" /\ UNCHANGED bug /\ Step(t, "release")
    /\ UNCHANGED <<start, private, pvtVars, connVars, callVars, ghosts>>

\* markCleanedUp, if pAudioStreamer was still there.
Release(t) ==
    /\ At(t, "release")
    /\ LET f == Top(t) IN
        \/ /\ f.owns /\ cleaned' = [cleaned EXCEPT ![f.of] = TRUE]
           /\ Step(t, "disconnect")
        \/ ~f.owns /\ UNCHANGED cleaned /\ Step(t, "destroy")
    /\ UNCHANGED <<startVars, pvtVars, conn, event, stopping, callVars, ghosts>>

\* Mutant: nobody waits for the event thread.
DisconnectOnly(t) ==
    /\ At(t, "disconnect")
    /\ stopping' = [stopping EXCEPT ![Top(t).of] = TRUE]
    /\ Step(t, "destroy")
    /\ UNCHANGED <<startVars, pvtVars, cleaned, conn, event, callVars, ghosts>>

\* Mutant: the event thread joins itself.
DisconnectJoining(t) ==
    /\ At(t, "disconnect")
    /\ stopping' = [stopping EXCEPT ![Top(t).of] = TRUE]
    /\ Step(t, "join")
    /\ UNCHANGED <<startVars, pvtVars, cleaned, conn, event, callVars, ghosts>>

\* WebSocketContext::stop joins the event thread, or detaches if it is that thread.
Disconnect(t) ==
    /\ At(t, "disconnect")
    /\ LET p == Top(t).of IN
        /\ stopping' = [stopping EXCEPT ![p] = TRUE]
        /\ Step(t, IF t = p THEN "destroy" ELSE "join")
    /\ UNCHANGED <<startVars, pvtVars, cleaned, conn, event, callVars, ghosts>>

Join(t) ==
    /\ At(t, "join") /\ event[Top(t).of] = "ended"
    /\ Step(t, "destroy")
    /\ UNCHANGED <<startVars, pvtVars, connVars, callVars, ghosts>>

\* destroy_tech_pvt.
Destroy(t) ==
    /\ At(t, "destroy")
    /\ mutexes' = [mutexes EXCEPT ![Top(t).of] = "gone"]
    /\ Return(t)
    /\ UNCHANGED <<startVars, lock, buffer, flags, streamer, connVars, callVars, ghosts>>

CleanupStep(t) ==
    \/ Find(t) \/ LockStream(t) \/ Mark(t) \/ Remove(t)
    \/ Release(t) \/ Disconnect(t) \/ Join(t) \/ Destroy(t)

-----------------------------------------------------------------------------
(* uuid_ws_bridge stop, send_text, pause and resume.                       *)

Stop(c) ==
    /\ crash = None /\ ~gone /\ Idle(c)
    /\ Call(c, Frame("find", None))
    /\ UNCHANGED <<startVars, pvtVars, connVars, callVars, ghosts>>

SendText(c) ==
    /\ crash = None /\ ~gone /\ Idle(c) /\ private # None
    /\ Call(c, Frame("text", private))
    /\ UNCHANGED <<startVars, pvtVars, connVars, callVars, ghosts>>

LockForText(c) ==
    /\ At(c, "text")
    /\ LET p == Top(c).of IN
        \/ mutexes[p] # "live" /\ Crash("command", p)
        \/ mutexes[p] = "live" /\ lock[p] = None /\ Return(c) /\ UNCHANGED crash
    /\ UNCHANGED <<startVars, pvtVars, connVars, callVars, stray, torn, unheard>>

\* audio_paused = pause, in a word it shares with the other two.
Pause(c) ==
    /\ crash = None /\ ~gone /\ Idle(c) /\ private # None
    /\ Call(c, [Frame("pause", private) EXCEPT !.word = flags[private]])
    /\ UNCHANGED <<startVars, pvtVars, connVars, callVars, ghosts>>

StorePaused(c) ==
    /\ At(c, "pause")
    /\ LET f == Top(c) IN
        \E b \in BOOLEAN : Store(f.of, f.word, [f.word EXCEPT !.paused = b])
    /\ Return(c)
    /\ UNCHANGED <<startVars, mutexes, lock, buffer, streamer, connVars, callVars, crash,
                   stray, unheard>>

-----------------------------------------------------------------------------
(* The event thread of a connection.                                       *)

Ready(p) == crash = None /\ event[p] = "running" /\ Idle(p)

\* The upgrade, then on_open.
Open(p) ==
    /\ Ready(p) /\ conn[p] = "connecting"
    /\ conn' = [conn EXCEPT ![p] = "open"]
    /\ IF cleaned[p] \/ gone THEN UNCHANGED stack ELSE Call(p, Frame("open", p))
    /\ UNCHANGED <<startVars, pvtVars, cleaned, event, stopping, callVars, ghosts>>

\* send_initial_metadata, if the channel has a bug by now.
OnOpen(p) ==
    /\ At(p, "open") /\ Return(p)
    /\ UNCHANGED <<startVars, pvtVars, connVars, callVars, ghosts>>

Receives(p) == Ready(p) /\ conn[p] = "open" /\ ~cleaned[p]

\* onBinary looks at play_buffer and cleanup_started first; once the session is
\* freed what it finds there means nothing.
OnBinary(p) ==
    /\ Receives(p)
    /\ gone \/ (buffer[p] /\ ~flags[p].cleaning)
    /\ Call(p, Frame("binary", p))
    /\ UNCHANGED <<startVars, pvtVars, connVars, callVars, ghosts>>

Binary(p) ==
    /\ At(p, "binary")
    /\ LockBriefly(p, p)

\* clearPlayback asks nothing before it locks.
OnClear(p) ==
    /\ Receives(p)
    /\ IF mutexes[p] = "live" THEN UNCHANGED <<stack, crash>> ELSE Crash("callback", p)
    /\ UNCHANGED <<startVars, pvtVars, connVars, callVars, stray, torn, unheard>>

\* on_error: media_bug_close of the bug the channel has, if it has one.
Fail(p) ==
    /\ Ready(p) /\ conn[p] \in {"connecting", "open"}
    /\ conn' = [conn EXCEPT ![p] = "failed"]
    /\ IF cleaned[p] \/ gone \/ private = None THEN UNCHANGED stack
       ELSE Call(p, [Frame("request", private) EXCEPT !.word = flags[private]])
    /\ unheard' = unheard \union ({p} \ {private})
    /\ UNCHANGED <<startVars, pvtVars, cleaned, event, stopping, callVars, crash, stray, torn>>

\* Mutant: the close is not marked as requested.
RequestCloseUnmarked(p) ==
    /\ At(p, "request")
    /\ LET f == Top(p) IN
        IF bug[f.of] = "attached" THEN Goto(p, CloseFrame(f.of, f.word)) ELSE Return(p)
    /\ UNCHANGED <<startVars, pvtVars, connVars, callVars, ghosts>>

\* close_requested = 1, then the CLOSE callback on this thread.
RequestClose(p) ==
    /\ At(p, "request")
    /\ LET f == Top(p)
           word == [f.word EXCEPT !.closing = TRUE]
       IN  /\ Store(f.of, f.word, word)
           /\ stray' = stray \union ({f.of} \ {p})
           /\ IF bug[f.of] = "attached" THEN Goto(p, CloseFrame(f.of, word)) ELSE Return(p)
    /\ UNCHANGED <<startVars, mutexes, lock, buffer, streamer, connVars, callVars, crash, unheard>>

\* The bridge closes: the call only hears of it.
Dropped(p) ==
    /\ Ready(p) /\ conn[p] = "open"
    /\ conn' = [conn EXCEPT ![p] = "closed"]
    /\ UNCHANGED <<startVars, pvtVars, cleaned, event, stopping, stack, callVars, ghosts>>

\* libwsc ends its thread some time after a stop, a CLOSE or an error, or never: a stop
\* that comes before wakeup_event exists is lost, and one that follows the bridge's CLOSE
\* waits for the bridge to close its socket (module WsContext).
EventEnds(p) ==
    /\ Ready(p) /\ (stopping[p] \/ conn[p] \in {"closed", "failed"})
    /\ event' = [event EXCEPT ![p] = "ended"]
    /\ conn' = [conn EXCEPT ![p] = IF @ = "failed" THEN @ ELSE "closed"]
    /\ UNCHANGED <<startVars, pvtVars, cleaned, stopping, stack, callVars, ghosts>>

EventStep(p) ==
    \/ Open(p) \/ OnOpen(p) \/ OnBinary(p) \/ OnClear(p) \/ Binary(p)
    \/ Fail(p) \/ RequestClose(p) \/ Dropped(p) \/ EventEnds(p)

-----------------------------------------------------------------------------
(* The media thread.                                                       *)

MediaIdle == crash = None /\ Idle(Media)

\* capture_callback returns SWITCH_FALSE: FreeSWITCH prunes the bug.
Prune(p) ==
    /\ MediaIdle /\ ~hungup /\ bug[p] = "attached" /\ flags[p].closing
    /\ bug' = [bug EXCEPT ![p] = "removed"]
    /\ Call(Media, CloseFrame(p, flags[p]))
    /\ UNCHANGED <<start, private, pvtVars, connVars, callVars, ghosts>>

\* stream_frame and stream_playback_frame up to their locks.
Capture(p) ==
    /\ MediaIdle /\ ~hungup /\ bug[p] = "attached"
    /\ ~flags[p].closing /\ ~flags[p].cleaning
    /\ \/ ~flags[p].paused /\ Call(Media, Frame("read", p))
       \/ Call(Media, Frame("write", p))
    /\ UNCHANGED <<startVars, pvtVars, connVars, callVars, ghosts>>

\* stream_frame's trylock, under which it copies the streamer if there is one. What it
\* sends then is the connection's business (module WsContext).
StreamFrame ==
    /\ At(Media, "read")
    /\ LockBriefly(Media, Top(Media).of)

\* stream_playback_frame's critical section.
PlaybackFrame ==
    /\ At(Media, "write")
    /\ LockBriefly(Media, Top(Media).of)

Hangup ==
    /\ MediaIdle /\ ~hungup /\ hungup' = TRUE
    /\ UNCHANGED <<startVars, pvtVars, connVars, stack, gone, ghosts>>

\* FreeSWITCH takes the bugs of a call that hung up out, one by one.
CloseBug(p) ==
    /\ MediaIdle /\ hungup /\ bug[p] = "attached"
    /\ bug' = [bug EXCEPT ![p] = "removed"]
    /\ Call(Media, CloseFrame(p, flags[p]))
    /\ UNCHANGED <<start, private, pvtVars, connVars, callVars, ghosts>>

FreeSession ==
    /\ MediaIdle /\ hungup /\ ~gone /\ ~InUse
    /\ \A p \in Streams : bug[p] # "attached"
    /\ gone' = TRUE
    /\ mutexes' = [p \in Streams |-> "gone"]
    /\ UNCHANGED <<startVars, lock, buffer, flags, streamer, connVars, stack, hungup, ghosts>>

MediaStep ==
    \/ StreamFrame \/ PlaybackFrame \/ FreeSession
    \/ \E p \in Streams : Prune(p) \/ CloseBug(p)

-----------------------------------------------------------------------------
Next ==
    \/ Hangup \/ MediaStep
    \/ \E p \in Streams : StartStep(p) \/ EventStep(p) \/ Capture(p)
    \/ \E t \in Threads : CleanupStep(t)
    \/ \E c \in Commands : Stop(c) \/ SendText(c) \/ LockForText(c) \/ Pause(c) \/ StorePaused(c)

\* Threads run on. Removing a bug waits for a write lock that media callbacks,
\* 20 ms apart, leave free again and again. Nothing makes anybody give a command,
\* hang up or send, and nothing here makes libwsc end an event thread.
Fairness ==
    /\ WF_vars(MediaStep)
    /\ \A p \in Streams :
        /\ WF_vars(StartStep(p)) /\ WF_vars(OnOpen(p)) /\ WF_vars(Binary(p))
        /\ WF_vars(RequestClose(p))
    /\ \A t \in Threads : WF_vars(CleanupStep(t)) /\ SF_vars(Remove(t))
    /\ \A c \in Commands : WF_vars(LockForText(c)) /\ WF_vars(StorePaused(c))

Spec == Init /\ [][Next]_vars /\ Fairness

-----------------------------------------------------------------------------
(* Properties.                                                             *)

\* The audio callbacks of the media thread and of the event thread never find the
\* mutexes of their stream gone: the clean-up takes the bug out and joins the
\* event thread before it destroys them. The exceptions are a connection that
\* delivers before the start command has made the mutexes, and a stream that a
\* failed start or a race of two starts cut off.
CallbackSafe ==
    crash # None /\ crash.by = "callback" =>
        torn \/ crash.of \in stray \/ start[crash.of] = "connected"

\* The condition under which a join returns: a connection that was asked to stop, was
\* closed or failed ends its event thread. StopReturns of WsContext says when libwsc does.
EventThreadsEnd == \A p \in Streams : WF_vars(EventEnds(p))

\* Where event threads end, a clean-up that has begun, by whatever thread, ends the
\* event thread and frees the stream's mutexes: joining, waiting for callbacks and
\* nesting do not block each other.
CleanupCompletes ==
    EventThreadsEnd =>
        \A p \in Streams :
            flags[p].cleaning ~>
                \/ event[p] = "ended" /\ mutexes[p] = "gone"
                \/ crash # None \/ torn

\* Where event threads end, a hang-up ends the connection of the stream the channel knows.
HangupEndsStream ==
    EventThreadsEnd =>
        \A p \in Streams :
            hungup /\ private = p ~> event[p] = "ended" \/ p \in stray \/ crash # None \/ torn

\* An error on a connection takes the stream's bug off the call, so that the caller
\* is not left with an attached and silent stream. The exception is an error that met
\* a channel without this stream: on_error finds no bug, or another's, when the error
\* comes before the start command has set the private data, and then the caller is left
\* with just that.
ErrorRemovesBug ==
    \A p \in Streams :
        conn[p] = "failed" /\ p \notin unheard ~> bug[p] = "removed" \/ crash # None \/ torn
=============================================================================
