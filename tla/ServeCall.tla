----------------------------- MODULE ServeCall -----------------------------
(***************************************************************************)
(* The life of audio sessions in the bridge: Server.serveWS                *)
(* (src/bridge/server.go) with the recorder (src/bridge/recorder.go) it    *)
(* drives and the event bus both publish on.                               *)
(*                                                                         *)
(* One goroutine per session runs serveWS from accept to audio.end; beside *)
(* it run the session's writePump (the recorder's downlink tap), the       *)
(* goroutine that copies bus events to events.jsonl, other publishers, the *)
(* retention sweeper and the DELETE handler.  A bundle directory is named  *)
(* by the call's uuid, which two sessions may share (the module            *)
(* reconnects, or a second stream is started on the call).                 *)
(*                                                                         *)
(* Audio is counted in frames, and a track is the sequence of the sessions *)
(* whose frames it holds.  A file is the inode made by the session that    *)
(* created it: a second os.Create of the same path truncates that inode,   *)
(* and an unlinked inode stays writable through the handles on it.         *)
(***************************************************************************)
EXTENDS Naturals, Sequences

CONSTANTS
    Sessions,   \* sessions that may be accepted
    UUIDs,      \* FreeSWITCH call uuids
    Buf,        \* the recorder's subscription buffer (128 in the code)
    MaxFrames,  \* bound: frames in each direction per session
    MaxNotes,   \* bound: events other parts publish
    MaxRemovals,\* bound: bundles removed by the sweeper or DELETE
    Fallible,   \* what may fail to be written: of wav, meta
    None

ASSUME NoneAssumption == None \notin Sessions \union UUIDs

VARIABLES
    pc,         \* where serveWS is, per session
    uuid,       \* s.fsUUID
    pump,       \* writePump as the recorder sees it
    capture,    \* the captureEvents goroutine
    evhandle,   \* the events inode it writes to, or None
    rec,        \* sessions in Recorder.mu
    handle,     \* the raw files a session has open (an inode), or None
    counted,    \* callerBytes and agentBytes, in frames
    dirs,       \* bundle directories that exist
    raw,        \* caller.raw and agent.raw of a directory: inode or None
    track,      \* the content of each inode
    evfile,     \* events.jsonl of a directory: inode or None
    evlog,      \* the content of each events inode
    wav,        \* audio.wav of a directory
    meta,       \* meta.json of a directory: the session it describes
    subs, chan, shut,
    notes,      \* bound: events published by others so far
    removals,   \* bound: removals so far
    spoiled,    \* history: recordings disturbed from outside
    kept,       \* history: this call's events the bus accepted, per session
    failed      \* history: what the recorder could not write and went on without

recVars  == <<rec, handle, counted>>
capVars  == <<capture, evhandle>>
diskVars == <<dirs, raw, track, evfile, evlog, wav, meta>>
bus      == <<subs, chan, shut>>
bounds   == <<notes, removals>>
vars == <<pc, uuid, pump, capVars, recVars, diskVars, bus, bounds, spoiled, kept, failed>>

Bus == INSTANCE EventBus WITH Sub <- Sessions

-----------------------------------------------------------------------------
Ev(name, s) == [name |-> name, uuid |-> uuid[s], session |-> s]

\* A track is a sequence of the sessions that wrote its frames; None is a hole in it,
\* read as silence.
NoWav == [by |-> None, caller |-> <<>>, agent |-> <<>>]

Init ==
    /\ pc = [s \in Sessions |-> "none"]
    /\ uuid = [s \in Sessions |-> None]
    /\ pump = [s \in Sessions |-> "off"]
    /\ capture = [s \in Sessions |-> "off"]
    /\ evhandle = [s \in Sessions |-> None]
    /\ rec = {}
    /\ handle = [s \in Sessions |-> None]
    /\ counted = [s \in Sessions |-> [caller |-> 0, agent |-> 0]]
    /\ dirs = {} /\ raw = [u \in UUIDs |-> None]
    /\ track = [s \in Sessions |-> [caller |-> <<>>, agent |-> <<>>]]
    /\ evfile = [u \in UUIDs |-> None] /\ evlog = [s \in Sessions |-> <<>>]
    /\ wav = [u \in UUIDs |-> NoWav] /\ meta = [u \in UUIDs |-> None]
    /\ Bus!BusInit
    /\ notes = 0 /\ removals = 0
    /\ spoiled = {} /\ kept = [s \in Sessions |-> <<>>] /\ failed = [s \in Sessions |-> {}]

-----------------------------------------------------------------------------
(* Helpers.                                                                *)

Goto(s, l) == pc' = [pc EXCEPT ![s] = l]

\* The sessions whose recording is in u's bundle, until they are done.
Recording(u) ==
    {s \in Sessions : /\ uuid[s] = u /\ pc[s] # "done"
                      /\ pc[s] = "files" \/ s \in subs \union shut}

\* A write through a handle lands at that handle's own offset, n frames in.
WriteAt(q, n, f) ==
    [i \in 1..(IF Len(q) > n THEN Len(q) ELSE n + 1) |->
        IF i = n + 1 THEN f ELSE IF i <= Len(q) THEN q[i] ELSE None]

\* A file the recorder could not write whole, and looked away from.
Fails(s, what) == what \in Fallible /\ failed' = [failed EXCEPT ![s] = @ \union {what}]

\* What finalizeWAV has interleaved after n frames of the caller's track.
Interleaved(s, t, n) ==
    LET upTo(q) == SubSeq(q, 1, IF n < Len(q) THEN n ELSE Len(q))
    IN  [by |-> s, caller |-> upTo(t.caller), agent |-> upTo(t.agent)]

\* Which events captureEvents writes: this call's, by uuid or by session id.
Mine(s, e) == e.uuid = uuid[s] \/ e.session = s

\* Publish, remembering which recorders the bus had room for.
Announce(e) ==
    /\ Bus!Publish(e)
    /\ kept' = [s \in Sessions |-> IF s \in subs /\ Bus!HasRoomFor(s) /\ Mine(s, e)
                                   THEN Append(kept[s], e) ELSE kept[s]]

-----------------------------------------------------------------------------
(* serveWS up to the read pump.                                            *)

\* websocket.Accept, the Session, srv.sessions.Store.
Accept(s, u) ==
    /\ pc[s] = "none" /\ Goto(s, "stored")
    /\ uuid' = [uuid EXCEPT ![s] = u]
    /\ UNCHANGED <<pump, capVars, recVars, diskVars, bus, bounds, spoiled, kept, failed>>

\* Recorder.Begin: MkdirAll, which may fail: the call goes on unrecorded.
BeginDir(s) ==
    /\ pc[s] = "stored"
    /\ \/ dirs' = dirs \union {uuid[s]} /\ Goto(s, "mkdir")
       \/ Goto(s, "announce") /\ UNCHANGED dirs
    /\ UNCHANGED <<uuid, pump, capVars, recVars, raw, track, evfile, evlog, wav, meta,
                   bus, bounds, spoiled, kept, failed>>

\* The inode os.Create opens in u: the one there, truncated, or a new one.
Inode(u, s, table) == IF table[u] = None THEN s ELSE table[u]

\* caller.raw and agent.raw are created, or truncated if they are there, which
\* disturbs whoever is recording into them.  Either can fail, the second after
\* the first was truncated: the call goes on unrecorded.
BeginFiles(s) ==
    LET u == uuid[s]
        i == Inode(u, s, raw) IN
    /\ pc[s] = "mkdir"
    /\ \/ /\ u \in dirs /\ Goto(s, "files")
          /\ raw' = [raw EXCEPT ![u] = i]
          /\ handle' = [handle EXCEPT ![s] = i]
          /\ track' = [track EXCEPT ![i] = [caller |-> <<>>, agent |-> <<>>]]
          /\ spoiled' = IF Recording(u) = {} THEN spoiled
                        ELSE spoiled \union Recording(u) \union {s}
       \/ /\ u \in dirs /\ raw[u] # None /\ Goto(s, "announce")
          /\ track' = [track EXCEPT ![raw[u]].caller = <<>>]
          /\ spoiled' = spoiled \union Recording(u)
          /\ UNCHANGED <<raw, handle>>
       \/ Goto(s, "announce") /\ UNCHANGED <<raw, handle, track, spoiled>>
    /\ UNCHANGED <<uuid, pump, capVars, rec, counted, dirs, evfile, evlog, wav, meta,
                   bus, bounds, kept, failed>>

\* Subscribe, then events.jsonl; captureEvents runs only if that file opened.
\* The recording is entered in r.mu either way.
BeginEvents(s) ==
    LET u == uuid[s] IN
    /\ pc[s] = "files" /\ Goto(s, "announce")
    /\ Bus!Subscribe(s)
    /\ rec' = rec \union {s}
    /\ \/ /\ u \in dirs
          /\ evfile' = [evfile EXCEPT ![u] = Inode(u, s, evfile)]
          /\ evlog' = [evlog EXCEPT ![Inode(u, s, evfile)] = <<>>]
          /\ capture' = [capture EXCEPT ![s] = "run"]
          /\ evhandle' = [evhandle EXCEPT ![s] = Inode(u, s, evfile)]
       \/ UNCHANGED <<evfile, evlog, capVars>>
    /\ UNCHANGED <<uuid, pump, handle, counted, dirs, raw, track, wav, meta, bounds,
                   spoiled, kept, failed>>

\* audio.start, go writePump, handler.OnStart.
Start(s) ==
    /\ pc[s] = "announce" /\ Goto(s, "reading")
    /\ Announce(Ev("audio.start", s))
    /\ pump' = [pump EXCEPT ![s] = "run"]
    /\ UNCHANGED <<uuid, capVars, recVars, diskVars, bounds, spoiled, failed>>

-----------------------------------------------------------------------------
(* While the session streams.                                              *)

\* readPump, binary frame: Recorder.Uplink, then the handler. A write that fails counts
\* nothing, and the recording goes on without that frame.
Uplink(s) ==
    /\ pc[s] = "reading" /\ s \in rec /\ counted[s].caller < MaxFrames
    /\ track' = [track EXCEPT ![handle[s]].caller = WriteAt(@, counted[s].caller, s)]
    /\ counted' = [counted EXCEPT ![s].caller = @ + 1]
    /\ UNCHANGED <<pc, uuid, pump, capVars, rec, handle, dirs, raw, evfile, evlog, wav, meta,
                   bus, bounds, spoiled, kept, failed>>

\* writePump's tap, Recorder.Downlink: r.mu.Load, then cr.mu.Lock and Write.
DownlinkLoad(s) ==
    /\ pump[s] = "run" /\ s \in rec /\ counted[s].agent < MaxFrames
    /\ pump' = [pump EXCEPT ![s] = "loaded"]
    /\ UNCHANGED <<pc, uuid, capVars, recVars, diskVars, bus, bounds, spoiled, kept, failed>>

\* A write fails if Finish has closed the file, or for the file system's reasons, and
\* counts nothing.
DownlinkWrite(s) ==
    /\ pump[s] = "loaded"
    /\ pump' = [pump EXCEPT ![s] = "run"]
    /\ \/ /\ handle[s] # None
          /\ track' = [track EXCEPT ![handle[s]].agent = WriteAt(@, counted[s].agent, s)]
          /\ counted' = [counted EXCEPT ![s].agent = @ + 1]
       \/ UNCHANGED <<track, counted>>
    /\ UNCHANGED <<pc, uuid, capVars, rec, handle, dirs, raw, evfile, evlog, wav, meta,
                   bus, bounds, spoiled, kept, failed>>

\* captureEvents: one event of the range, written if it is this call's. (Encode's error is
\* not looked at; that a write to events.jsonl fails is not modelled.)
CaptureEvent(s) ==
    LET e == Head(chan[s]) IN
    /\ capture[s] = "run"
    /\ Bus!Receive(s)
    /\ evlog' = IF Mine(s, e) THEN [evlog EXCEPT ![evhandle[s]] = Append(@, e)] ELSE evlog
    /\ UNCHANGED <<pc, uuid, pump, capVars, recVars, dirs, raw, track, evfile, wav, meta,
                   bounds, spoiled, kept, failed>>

\* The range ends and close(cr.eventsDone) runs.
CaptureExit(s) ==
    /\ capture[s] = "run" /\ Bus!RangeEnds(s)
    /\ capture' = [capture EXCEPT ![s] = "exited"]
    /\ UNCHANGED <<pc, uuid, pump, evhandle, recVars, diskVars, bus, bounds, spoiled, kept, failed>>

-----------------------------------------------------------------------------
(* The end of serveWS.                                                     *)

\* conn.Read fails (the peer left, or someone called s.Close): s.Close().
EndRead(s) ==
    /\ pc[s] = "reading" /\ Goto(s, "closed")
    /\ UNCHANGED <<uuid, pump, capVars, recVars, diskVars, bus, bounds, spoiled, kept, failed>>

\* srv.sessions.Delete, handler.OnEnd.
Deregister(s) ==
    /\ pc[s] = "closed" /\ Goto(s, "ended")
    /\ UNCHANGED <<uuid, pump, capVars, recVars, diskVars, bus, bounds, spoiled, kept, failed>>

\* Mutant: Finish takes the byte counts and leaves the files open.
FinishWithoutClosing(s) ==
    /\ pc[s] = "ended"
    /\ \/ s \notin rec /\ Goto(s, "bye") /\ UNCHANGED recVars
       \/ /\ s \in rec /\ Goto(s, "unsub")
          /\ rec' = rec \ {s}
          /\ UNCHANGED <<handle, counted>>
    /\ UNCHANGED <<uuid, pump, capVars, diskVars, bus, bounds, spoiled, kept, failed>>

\* Recorder.Finish: LoadAndDelete, then the raw files are closed and the byte
\* counts read, under cr.mu.
FinishClose(s) ==
    /\ pc[s] = "ended"
    /\ \/ s \notin rec /\ Goto(s, "bye") /\ UNCHANGED recVars
       \/ /\ s \in rec /\ Goto(s, "unsub")
          /\ rec' = rec \ {s}
          /\ handle' = [handle EXCEPT ![s] = None]
          /\ UNCHANGED counted
    /\ UNCHANGED <<uuid, pump, capVars, diskVars, bus, bounds, spoiled, kept, failed>>

FinishUnsub(s) ==
    /\ pc[s] = "unsub" /\ Goto(s, "drain")
    /\ Bus!Unsubscribe(s)
    /\ UNCHANGED <<uuid, pump, capVars, recVars, diskVars, bounds, spoiled, kept, failed>>

\* Mutant: Finish goes on without waiting for captureEvents.
FinishUndrained(s) ==
    /\ pc[s] = "drain" /\ Goto(s, "wav")
    /\ UNCHANGED <<uuid, pump, capVars, recVars, diskVars, bus, bounds, spoiled, kept, failed>>

\* <-cr.eventsDone
FinishDrained(s) ==
    /\ pc[s] = "drain" /\ capture[s] = "exited" /\ Goto(s, "wav")
    /\ UNCHANGED <<uuid, pump, capVars, recVars, diskVars, bus, bounds, spoiled, kept, failed>>

\* finalizeWAV: interleave the raw files the path names, up to the counted length of the
\* caller track. Without them, or if audio.wav cannot be created, nothing is written; a
\* caller.raw shorter than counted, or a write that fails, leaves only a beginning. Finish
\* removes the raw files and goes on in every case.
FinishWav(s) ==
    LET u == uuid[s]
        n == counted[s].caller
        t == track[raw[u]] IN
    /\ pc[s] = "wav" /\ Goto(s, "meta")
    /\ \/ raw[u] = None /\ UNCHANGED <<wav, failed>>
       \/ raw[u] # None /\ Fails(s, "wav") /\ UNCHANGED wav
       \/ /\ raw[u] # None
          /\ \E k \in 0..n :
                /\ k <= Len(t.caller)
                /\ wav' = [wav EXCEPT ![u] = Interleaved(s, t, k)]
                /\ \/ (k = n \/ Len(t.caller) < n) /\ UNCHANGED failed
                   \/ (k < n \/ n = 0) /\ Fails(s, "wav")
    /\ raw' = [raw EXCEPT ![u] = None]
    /\ UNCHANGED <<uuid, pump, capVars, recVars, dirs, track, evfile, evlog, meta, bus,
                   bounds, spoiled, kept>>

\* writeMeta: silently nothing if the directory is gone or the call's metadata is not
\* JSON, and silently what WriteFile left if that fails.
FinishMeta(s) ==
    LET u == uuid[s] IN
    /\ pc[s] = "meta" /\ Goto(s, "complete")
    /\ \/ u \notin dirs /\ UNCHANGED <<meta, failed>>
       \/ u \in dirs /\ meta' = [meta EXCEPT ![u] = s] /\ UNCHANGED failed
       \/ u \in dirs /\ meta' \in {meta, [meta EXCEPT ![u] = None]} /\ Fails(s, "meta")
    /\ UNCHANGED <<uuid, pump, capVars, recVars, dirs, raw, track, evfile, evlog, wav, bus,
                   bounds, spoiled, kept>>

FinishComplete(s) ==
    /\ pc[s] = "complete" /\ Goto(s, "bye")
    /\ Announce(Ev("recording.complete", s))
    /\ UNCHANGED <<uuid, pump, capVars, recVars, diskVars, bounds, spoiled, failed>>

\* The last thing serveWS does: audio.end.
End(s) ==
    /\ pc[s] = "bye" /\ Goto(s, "done")
    /\ Announce(Ev("audio.end", s))
    /\ UNCHANGED <<uuid, pump, capVars, recVars, diskVars, bounds, spoiled, failed>>

-----------------------------------------------------------------------------
(* Everybody else.                                                         *)

\* A transcript, speech.start or call.* event of call u.
Transcript(u) ==
    /\ notes < MaxNotes /\ notes' = notes + 1
    /\ Announce([name |-> "transcript", uuid |-> u, session |-> None])
    /\ UNCHANGED <<pc, uuid, pump, capVars, recVars, diskVars, removals, spoiled, failed>>

\* os.RemoveAll of a bundle, by sweep (over MaxBytes, or a directory that holds
\* no file yet, whose zero modification time is always before the cutoff) or
\* by DELETE /recordings/{uuid}.  Neither looks at Recorder.mu.
RemoveBundle(u) ==
    /\ u \in dirs /\ removals < MaxRemovals /\ removals' = removals + 1
    /\ dirs' = dirs \ {u}
    /\ raw' = [raw EXCEPT ![u] = None]
    /\ evfile' = [evfile EXCEPT ![u] = None]
    /\ wav' = [wav EXCEPT ![u] = NoWav]
    /\ meta' = [meta EXCEPT ![u] = None]
    /\ spoiled' = spoiled \union Recording(u)
    /\ UNCHANGED <<pc, uuid, pump, capVars, recVars, track, evlog, bus, notes, kept, failed>>

-----------------------------------------------------------------------------
\* The steps serveWS takes by itself: everything but waiting for the peer.
ServeStep(s) ==
    \/ BeginDir(s) \/ BeginFiles(s) \/ BeginEvents(s) \/ Start(s)
    \/ Deregister(s) \/ FinishClose(s) \/ FinishUnsub(s) \/ FinishDrained(s)
    \/ FinishWav(s) \/ FinishMeta(s) \/ FinishComplete(s) \/ End(s)

CaptureStep(s) == CaptureEvent(s) \/ CaptureExit(s)

Next ==
    \/ \E s \in Sessions :
          \/ ServeStep(s) \/ CaptureStep(s)
          \/ Uplink(s) \/ EndRead(s)
          \/ DownlinkLoad(s) \/ DownlinkWrite(s)
          \/ \E u \in UUIDs : Accept(s, u)
    \/ \E u \in UUIDs : Transcript(u) \/ RemoveBundle(u)

\* serveWS and captureEvents run, and the handler's OnStart and OnEnd return;
\* peers, callers, operators and writePump need not do anything.
Fairness == \A s \in Sessions : WF_vars(ServeStep(s)) /\ WF_vars(CaptureStep(s))

Spec == Init /\ [][Next]_vars /\ Fairness

-----------------------------------------------------------------------------
(* Properties.                                                             *)

\* q has at most n frames, all of them of s.
Own(q, s, n) == Len(q) <= n /\ \A i \in DOMAIN q : q[i] = s

\* What recording.complete tells its subscribers of a bundle nobody else touched meanwhile:
\* audio.wav and meta.json are those of this session, whole, unless writing them failed,
\* which the event does not say. The last frames tapped by writePump while Finish runs are
\* either counted and in the file or neither. An audio.wav that could not be finished holds
\* a beginning of this session, or is what another session had left there.
UndisturbedBundleIsWhole ==
    \A s \in Sessions :
        LET w == wav[uuid[s]]
            n == counted[s].caller
            m == IF n < counted[s].agent THEN n ELSE counted[s].agent
        IN  pc[s] = "bye" /\ s \in shut /\ s \notin spoiled =>
                /\ "wav" \notin failed[s] =>
                        w.by = s /\ Len(w.caller) = n /\ Len(w.agent) = m
                /\ w.by = s => Own(w.caller, s, n) /\ Own(w.agent, s, m)
                /\ "meta" \notin failed[s] => meta[uuid[s]] = s

\* events.jsonl of an undisturbed recording holds exactly the call's events the
\* bus accepted while it was subscribed, in the order they were published.
TimelineIsWhatBusAccepted ==
    \A s \in Sessions :
        (s \in shut /\ s \notin spoiled /\ pc[s] \in {"wav", "meta", "complete", "bye"})
            => evhandle[s] # None /\ evlog[evhandle[s]] = kept[s]

\* Publish never panics, whenever calls end.
NeverSendsOnClosed == Bus!NoSendOnClosed

\* A call that ended is announced, its recording finished or not, unless its
\* events.jsonl could not be created.
EndIsAnnounced ==
    \A s \in Sessions :
        (pc[s] = "closed" /\ (s \in rec => capture[s] # "off")) ~> pc[s] = "done"
=============================================================================
