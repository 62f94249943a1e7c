-------------------------- MODULE ServeCallProofs --------------------------
(***************************************************************************)
(* Proofs about ServeCall, for any number of sessions, calls, frames,      *)
(* events and removals.  Stages says what a session holds where serveWS    *)
(* is; OfOneCall keeps the inodes of the calls apart, and Alone says that  *)
(* an undisturbed recording has its call to itself.  On these stand Disks  *)
(* (what it has on the disk) and Timelines (that its events.jsonl and what *)
(* is still in its channel are the events the bus kept for it).  Each has  *)
(* a lemma that every step keeps it: what a session's own step does to     *)
(* what it has, and that the step of another does nothing to it.           *)
(***************************************************************************)
EXTENDS ServeCall, SequenceTheorems, TLAPS

-----------------------------------------------------------------------------
(* The invariant.                                                          *)

Places == {"none", "stored", "mkdir", "files", "announce", "reading", "closed", "ended",
           "unsub", "drain", "wav", "meta", "complete", "bye", "done"}
Early == {"none", "stored", "mkdir"}
Late == {"meta", "complete", "bye"}

Inodes == Sessions \union {None}
Names == {"audio.start", "recording.complete", "audio.end", "transcript"}
Event == [name : Names, uuid : UUIDs, session : Inodes]

Types ==
    /\ pc \in [Sessions -> Places] /\ uuid \in [Sessions -> UUIDs \union {None}]
    /\ capture \in [Sessions -> {"off", "run", "exited"}]
    /\ pump \in [Sessions -> {"off", "run", "loaded"}]
    /\ evhandle \in [Sessions -> Inodes] /\ handle \in [Sessions -> Inodes]
    /\ rec \subseteq Sessions /\ subs \subseteq Sessions /\ shut \subseteq Sessions
    /\ counted \in [Sessions -> [caller : Nat, agent : Nat]]
    /\ track \in [Sessions -> [caller : Seq(Inodes), agent : Seq(Inodes)]]
    /\ raw \in [UUIDs -> Inodes] /\ evfile \in [UUIDs -> Inodes]
    /\ evlog \in [Sessions -> Seq(Event)] /\ chan \in [Sessions -> Seq(Event)]
    /\ kept \in [Sessions -> Seq(Event)]
    /\ DOMAIN wav = UUIDs /\ DOMAIN meta = UUIDs

\* Where a session is says what it holds.
Stage(s) ==
    /\ pc[s] = "none" <=> uuid[s] = None
    /\ pc[s] \in Early \union {"files"} =>
        /\ pump[s] = "off" /\ evhandle[s] = None /\ s \notin subs \union shut /\ capture[s] = "off"
        /\ counted[s] = [caller |-> 0, agent |-> 0]
        /\ kept[s] = <<>> /\ chan[s] = <<>>
    /\ handle[s] # None <=> pc[s] = "files" \/ s \in rec
    /\ s \in rec => s \in subs /\ pc[s] \in {"announce", "reading", "closed", "ended"}
    /\ s \in subs => s \in rec \/ pc[s] = "unsub"
    /\ s \in shut => s \notin subs /\ pc[s] \in {"drain", "wav", "done"} \union Late
    /\ pc[s] = "unsub" => s \in subs
    /\ pc[s] \in {"drain", "wav", "meta", "complete"} => s \in shut
    /\ capture[s] # "off" => s \in subs \union shut /\ evhandle[s] # None
    /\ pc[s] \in {"wav", "done"} \union Late /\ s \in shut => capture[s] = "exited"
    /\ capture[s] = "exited" => s \in shut /\ chan[s] = <<>>

Stages == \A s \in Sessions : Stage(s)

\* An inode is of the call of the session that made it.
OfOneCall ==
    /\ \A u \in UUIDs : raw[u] # None => uuid[raw[u]] = u
    /\ \A u \in UUIDs : evfile[u] # None => uuid[evfile[u]] = u
    /\ \A s \in Sessions : handle[s] # None => uuid[handle[s]] = uuid[s]
    /\ \A s \in Sessions : evhandle[s] # None => uuid[evhandle[s]] = uuid[s]

\* s has a recording, until it is done.
Recorded(s) == pc[s] # "done" /\ (pc[s] = "files" \/ s \in subs \union shut)

\* Nobody touched the bundle of s.
Undisturbed(s) == Recorded(s) /\ s \notin spoiled

\* Nobody else has a recording of its call.
Alone == \A s, t \in Sessions : Undisturbed(s) /\ Recorded(t) /\ uuid[t] = uuid[s] => t = s

\* A track of n frames, all of them of s.
AllOf(q, s, n) == DOMAIN q = 1..n /\ Len(q) = n /\ \A i \in 1..n : q[i] = s

\* audio.wav w is what s made of k frames of its caller and of an agent's track of m.
Holds(w, s, k, m) ==
    w.by = s /\ AllOf(w.caller, s, k) /\ AllOf(w.agent, s, IF k < m THEN k ELSE m)

\* What an undisturbed recording has on the disk.
OnDisk(s) ==
    Undisturbed(s) =>
        /\ uuid[s] \in dirs
        /\ pc[s] \notin Late =>
            /\ raw[uuid[s]] # None /\ handle[s] \in {None, raw[uuid[s]]}
            /\ AllOf(track[raw[uuid[s]]].caller, s, counted[s].caller)
            /\ AllOf(track[raw[uuid[s]]].agent, s, counted[s].agent)
        /\ pc[s] \in Late =>
            /\ "wav" \notin failed[s] =>
                    Holds(wav[uuid[s]], s, counted[s].caller, counted[s].agent)
            /\ wav[uuid[s]].by = s =>
                    \E k \in 0..counted[s].caller : Holds(wav[uuid[s]], s, k, counted[s].agent)
        /\ pc[s] \in {"complete", "bye"} /\ "meta" \notin failed[s] => meta[uuid[s]] = s

\* Every session has its failures.
Failures == DOMAIN failed = Sessions

\* No audio.wav is of a session that has not come to write its own.
FreshWavs ==
    \A s \in Sessions : pc[s] \notin Late \union {"done"} => \A u \in UUIDs : wav[u].by # s

\* The events captureEvents writes for s.
OfCall(s) == {e \in Event : Mine(s, e)}

\* The events k are those of the log l, then those of M in the channel c: f finds them.
Finds(f, M, k, l, c) ==
    /\ \A i \in 1..(Len(k) - Len(l)) : c[f[i]] = k[Len(l) + i]
    /\ \A i, j \in 1..(Len(k) - Len(l)) : i < j => f[i] < f[j]
    /\ \A j \in 1..Len(c) : c[j] \in M => \E i \in 1..(Len(k) - Len(l)) : f[i] = j
    /\ \A i \in 1..(Len(k) - Len(l)) : c[f[i]] \in M

\* Of the events k that were kept, l is written, and the rest are those of M still in c.
Continues(M, k, l, c) ==
    /\ Len(l) <= Len(k) /\ \A i \in 1..Len(l) : k[i] = l[i]
    /\ \E f \in [1..(Len(k) - Len(l)) -> 1..Len(c)] : Finds(f, M, k, l, c)

\* What an undisturbed recording has in its events.jsonl.
OnTimeline(s) ==
    Undisturbed(s) /\ capture[s] # "off" =>
        Continues(OfCall(s), kept[s], evlog[evhandle[s]], chan[s])

Disks == \A s \in Sessions : OnDisk(s)
Timelines == \A s \in Sessions : OnTimeline(s)

Inv == Types /\ Failures /\ Stages /\ OfOneCall /\ Alone /\ FreshWavs /\ Disks /\ Timelines

-----------------------------------------------------------------------------
(* Types.                                                                  *)

\* A write at the end of a track of one's own frames adds one.
LEMMA WriteAtIs ==
    ASSUME NEW q \in Seq(Inodes), NEW n \in Nat, NEW s \in Sessions
    PROVE  /\ WriteAt(q, n, s) \in Seq(Inodes)
           /\ AllOf(q, s, n) => AllOf(WriteAt(q, n, s), s, n + 1)
<1> DEFINE k == IF Len(q) > n THEN Len(q) ELSE n + 1
           w == [i \in 1..k |-> IF i = n + 1 THEN s ELSE IF i <= Len(q) THEN q[i] ELSE None]
<1>1. Len(q) \in Nat /\ \A i \in 1..Len(q) : q[i] \in Inodes
  BY DEF Inodes
<1>2. k \in Nat /\ s \in Inodes /\ None \in Inodes
  BY <1>1 DEF Inodes
<1> HIDE DEF k
<1>3. \A i \in 1..k : w[i] \in Inodes
  BY <1>1, <1>2
<1>4. w \in Seq(Inodes) /\ Len(w) = k
  <2>1. w \in [1..k -> Inodes]
    BY <1>3
  <2> HIDE DEF w
  <2> QED BY <1>2, <2>1
<1>5. ASSUME AllOf(q, s, n)
      PROVE  AllOf(w, s, n + 1)
  <2>1. k = n + 1
    BY <1>1, <1>5 DEF AllOf, k
  <2>2. \A i \in 1..(n + 1) : w[i] = s
    BY <2>1, <1>5 DEF AllOf
  <2> QED BY <2>1, <2>2, <1>4 DEF AllOf
<1>6. WriteAt(q, n, s) = w
  BY DEF WriteAt, k
<1> HIDE DEF w
<1> QED BY <1>4, <1>5, <1>6

\* An update of one side of a pair of tracks, or of counts.
LEMMA SideUpdate ==
    ASSUME NEW T, NEW f \in [Sessions -> [caller : T, agent : T]], NEW s \in Sessions, NEW x \in T
    PROVE  /\ [f EXCEPT ![s].caller = x] \in [Sessions -> [caller : T, agent : T]]
           /\ [f EXCEPT ![s].agent = x] \in [Sessions -> [caller : T, agent : T]]
           /\ \A t \in Sessions \ {s} : [f EXCEPT ![s].caller = x][t] = f[t]
           /\ \A t \in Sessions \ {s} : [f EXCEPT ![s].agent = x][t] = f[t]
           /\ [f EXCEPT ![s].caller = x][s] = [caller |-> x, agent |-> f[s].agent]
           /\ [f EXCEPT ![s].agent = x][s] = [caller |-> f[s].caller, agent |-> x]
<1>1. /\ f[s] \in [caller : T, agent : T]
      /\ [f[s] EXCEPT !.caller = x] = [caller |-> x, agent |-> f[s].agent]
      /\ [f[s] EXCEPT !.agent = x] = [caller |-> f[s].caller, agent |-> x]
  OBVIOUS
<1>2. /\ [caller |-> x, agent |-> f[s].agent] \in [caller : T, agent : T]
      /\ [caller |-> f[s].caller, agent |-> x] \in [caller : T, agent : T]
  OBVIOUS
<1>3. /\ [f EXCEPT ![s].caller = x] = [f EXCEPT ![s] = [caller |-> x, agent |-> f[s].agent]]
      /\ [f EXCEPT ![s].agent = x] = [f EXCEPT ![s] = [caller |-> f[s].caller, agent |-> x]]
  BY <1>1
<1> QED BY <1>2, <1>3

\* The inode os.Create opens is one.
LEMMA InodeIs ==
    ASSUME Types, NEW s \in Sessions, NEW u \in UUIDs
    PROVE  /\ Inode(u, s, raw) \in Sessions /\ Inode(u, s, raw) # None
           /\ Inode(u, s, evfile) \in Sessions /\ Inode(u, s, evfile) # None
BY NoneAssumption DEF Inode, Types, Inodes

\* The types hold initially.
LEMMA TypesInit == Init => Types
<1> SUFFICES ASSUME Init
             PROVE  Types
  OBVIOUS
<1>1. <<>> \in Seq(Inodes) /\ <<>> \in Seq(Event) /\ None \in Inodes
  BY EmptySeq DEF Inodes
<1> QED BY <1>1 DEF Init, Types, Bus!BusInit, Places

\* What Publish leaves in the channels.
LEMMA AnnounceTypes ==
    ASSUME Types, NEW e \in Event, Announce(e)
    PROVE  kept' \in [Sessions -> Seq(Event)] /\ chan' \in [Sessions -> Seq(Event)]
<1>1. \A t \in Sessions : Append(kept[t], e) \in Seq(Event) /\ Append(chan[t], e) \in Seq(Event)
  BY AppendProperties DEF Types
<1> QED BY <1>1 DEF Announce, Bus!Publish, Types

\* Every step keeps the types.
LEMMA TypesKept ==
    ASSUME Types, Stages, Next
    PROVE  Types'
<1>10. ASSUME NEW s \in Sessions, BeginDir(s)
       PROVE  Types'
  BY <1>10
     DEF BeginDir, Goto, recVars, capVars, diskVars, bus, bounds, Types, Places, Inodes
<1>11. ASSUME NEW s \in Sessions, BeginFiles(s)
       PROVE  Types'
  <2>1. uuid[s] \in UUIDs
    BY <1>11 DEF BeginFiles, Stages, Stage, Types
  <2>2. <<>> \in Seq(Inodes) /\ Inode(uuid[s], s, raw) \in Sessions
    BY <2>1, EmptySeq DEF Inodes, Inode, Types
  <2>3. track' \in [Sessions -> [caller : Seq(Inodes), agent : Seq(Inodes)]]
    <3>1. CASE track' = [track EXCEPT ![Inode(uuid[s], s, raw)] =
                            [caller |-> <<>>, agent |-> <<>>]]
      BY <3>1, <2>2 DEF Types
    <3>2. CASE /\ raw[uuid[s]] # None
               /\ track' = [track EXCEPT ![raw[uuid[s]]].caller = <<>>]
      <4>1. raw[uuid[s]] \in Sessions
        BY <3>2, <2>1 DEF Types, Inodes
      <4>2. track \in [Sessions -> [caller : Seq(Inodes), agent : Seq(Inodes)]]
        BY DEF Types
      <4> QED BY <3>2, <4>1, <4>2, <2>2, SideUpdate
    <3> QED BY <3>1, <3>2, <1>11 DEF BeginFiles, Types
  <2>4. /\ raw' \in [UUIDs -> Inodes] /\ handle' \in [Sessions -> Inodes]
        /\ pc' \in [Sessions -> Places]
    <3> DEFINE i == Inode(uuid[s], s, raw)
    <3>1. /\ raw' = raw \/ raw' = [raw EXCEPT ![uuid[s]] = i]
          /\ handle' = handle \/ handle' = [handle EXCEPT ![s] = i]
          /\ \E l \in Places : pc' = [pc EXCEPT ![s] = l]
      BY <1>11 DEF BeginFiles, Goto, Places
    <3>2. i \in Inodes
      BY <2>2 DEF Inodes
    <3> HIDE DEF i
    <3>3. raw' \in [UUIDs -> Inodes]
      BY <3>1, <3>2 DEF Types
    <3>4. handle' \in [Sessions -> Inodes]
      BY <3>1, <3>2 DEF Types
    <3>5. pc' \in [Sessions -> Places]
      BY <3>1 DEF Types
    <3> QED BY <3>3, <3>4, <3>5
  <2> QED BY <2>3, <2>4, <1>11 DEF BeginFiles, capVars, bus, bounds, Types
<1>12. ASSUME NEW s \in Sessions, BeginEvents(s)
       PROVE  Types'
  <2>1. uuid[s] \in UUIDs
    BY <1>12 DEF BeginEvents, Stages, Stage, Types
  <2>2. <<>> \in Seq(Event) /\ Inode(uuid[s], s, evfile) \in Sessions
    BY <2>1, EmptySeq DEF Inodes, Inode, Types
  <2>3. /\ evfile' \in [UUIDs -> Inodes] /\ evlog' \in [Sessions -> Seq(Event)]
        /\ capture' \in [Sessions -> {"off", "run", "exited"}]
        /\ evhandle' \in [Sessions -> Inodes]
    <3> DEFINE i == Inode(uuid[s], s, evfile)
    <3>1. \/ UNCHANGED <<evfile, evlog, capture, evhandle>>
          \/ /\ evfile' = [evfile EXCEPT ![uuid[s]] = i]
             /\ evlog' = [evlog EXCEPT ![i] = <<>>]
             /\ capture' = [capture EXCEPT ![s] = "run"]
             /\ evhandle' = [evhandle EXCEPT ![s] = i]
      BY <1>12 DEF BeginEvents, capVars
    <3>2. i \in Inodes
      BY <2>2 DEF Inodes
    <3>3. <<>> \in Seq(Event)
      BY EmptySeq
    <3> HIDE DEF i
    <3>4. evlog' \in [Sessions -> Seq(Event)]
      <4>1. evlog' = evlog \/ evlog' = [evlog EXCEPT ![i] = <<>>]
        BY <3>1
      <4>2. evlog \in [Sessions -> Seq(Event)]
        BY DEF Types
      <4> QED BY <4>1, <4>2, <3>3
    <3>5. evfile' \in [UUIDs -> Inodes]
      BY <3>1, <3>2, ZenonT(60) DEF Types
    <3>7. evhandle' \in [Sessions -> Inodes]
      BY <3>1, <3>2, ZenonT(60) DEF Types
    <3>6. capture' \in [Sessions -> {"off", "run", "exited"}]
      BY <3>1 DEF Types
    <3> QED BY <3>4, <3>5, <3>6, <3>7
  <2>4. /\ pc' \in [Sessions -> Places] /\ rec' \subseteq Sessions
        /\ subs' \subseteq Sessions /\ shut' = shut /\ chan' = chan
    BY <1>12 DEF BeginEvents, Goto, Bus!Subscribe, Types, Places
  <2> QED BY <2>3, <2>4, <1>12 DEF BeginEvents, bounds, Types
<1>13. ASSUME NEW s \in Sessions, Start(s)
       PROVE  Types'
  <2>1. Ev("audio.start", s) \in Event
    BY <1>13 DEF Start, Ev, Event, Names, Inodes, Stages, Stage, Types
  <2>2. kept' \in [Sessions -> Seq(Event)] /\ chan' \in [Sessions -> Seq(Event)]
    BY <1>13, <2>1, AnnounceTypes DEF Start
  <2> QED BY <2>2, <1>13 DEF Start, Goto, Announce, Bus!Publish, Bus!HasRoomFor, recVars,
                             capVars, diskVars, bus, bounds, Types, Places
<1>14. ASSUME NEW s \in Sessions, Uplink(s)
       PROVE  Types'
  <2>1. /\ handle[s] \in Sessions /\ counted[s].caller \in Nat
        /\ track[handle[s]].caller \in Seq(Inodes)
    BY <1>14 DEF Uplink, Types, Stages, Stage, Inodes
  <2>2. WriteAt(track[handle[s]].caller, counted[s].caller, s) \in Seq(Inodes)
    BY <2>1, WriteAtIs
  <2>3. track' \in [Sessions -> [caller : Seq(Inodes), agent : Seq(Inodes)]]
    <3>1. track' = [track EXCEPT ![handle[s]].caller =
                        WriteAt(track[handle[s]].caller, counted[s].caller, s)]
      BY <1>14 DEF Uplink
    <3>2. track \in [Sessions -> [caller : Seq(Inodes), agent : Seq(Inodes)]]
      BY DEF Types
    <3> DEFINE w == WriteAt(track[handle[s]].caller, counted[s].caller, s)
    <3>3. track' = [track EXCEPT ![handle[s]].caller = w] /\ w \in Seq(Inodes)
      BY <2>2, <3>1
    <3> HIDE DEF w
    <3> QED BY <2>1, <3>2, <3>3, SideUpdate
  <2>4. counted' \in [Sessions -> [caller : Nat, agent : Nat]]
    <3>1. counted' = [counted EXCEPT ![s].caller = counted[s].caller + 1]
      BY <1>14 DEF Uplink
    <3>2. counted[s].caller + 1 \in Nat
      BY <2>1
    <3>3. counted \in [Sessions -> [caller : Nat, agent : Nat]]
      BY DEF Types
    <3> DEFINE n == counted[s].caller + 1
    <3> HIDE DEF n
    <3>4. counted' = [counted EXCEPT ![s].caller = n] /\ n \in Nat
      BY <3>1, <3>2 DEF n
    <3> QED BY <3>3, <3>4, SideUpdate, ZenonT(60)
  <2> QED BY <2>3, <2>4, <1>14 DEF Uplink, recVars, capVars, diskVars, bus, bounds, Types
<1>15. ASSUME NEW s \in Sessions, DownlinkLoad(s)
       PROVE  Types'
  BY <1>15 DEF DownlinkLoad, recVars, capVars, diskVars, bus, bounds, Types, Places, Inodes
<1>16. ASSUME NEW s \in Sessions, DownlinkWrite(s)
       PROVE  Types'
  <2>1. CASE UNCHANGED <<track, counted>>
    BY <2>1, <1>16 DEF DownlinkWrite, recVars, capVars, diskVars, bus, bounds, Types
  <2>2. CASE /\ handle[s] # None
             /\ track' = [track EXCEPT ![handle[s]].agent = WriteAt(@, counted[s].agent, s)]
             /\ counted' = [counted EXCEPT ![s].agent = @ + 1]
    <3>1. /\ handle[s] \in Sessions /\ counted[s].agent \in Nat
          /\ track[handle[s]].agent \in Seq(Inodes)
      BY <2>2 DEF Types, Inodes
    <3>2. WriteAt(track[handle[s]].agent, counted[s].agent, s) \in Seq(Inodes)
      BY <3>1, WriteAtIs
    <3>3. track' \in [Sessions -> [caller : Seq(Inodes), agent : Seq(Inodes)]]
      <4>1. track' = [track EXCEPT ![handle[s]].agent =
                          WriteAt(track[handle[s]].agent, counted[s].agent, s)]
        BY <2>2
      <4>2. track \in [Sessions -> [caller : Seq(Inodes), agent : Seq(Inodes)]]
        BY DEF Types
      <4> DEFINE w == WriteAt(track[handle[s]].agent, counted[s].agent, s)
      <4>3. track' = [track EXCEPT ![handle[s]].agent = w] /\ w \in Seq(Inodes)
        BY <3>2, <4>1
      <4> HIDE DEF w
      <4> QED BY <3>1, <4>2, <4>3, SideUpdate
    <3>4. counted' \in [Sessions -> [caller : Nat, agent : Nat]]
      <4>1. counted' = [counted EXCEPT ![s].agent = counted[s].agent + 1]
        BY <2>2
      <4>2. counted[s].agent + 1 \in Nat
        BY <3>1
      <4>3. counted \in [Sessions -> [caller : Nat, agent : Nat]]
        BY DEF Types
      <4> DEFINE n == counted[s].agent + 1
      <4> HIDE DEF n
      <4>4. counted' = [counted EXCEPT ![s].agent = n] /\ n \in Nat
        BY <4>1, <4>2 DEF n
      <4> QED BY <4>3, <4>4, SideUpdate, ZenonT(60)
    <3> QED BY <3>3, <3>4, <1>16
       DEF DownlinkWrite, recVars, capVars, diskVars, bus, bounds, Types
  <2> QED BY <2>1, <2>2, <1>16 DEF DownlinkWrite
<1>17. ASSUME NEW s \in Sessions, CaptureEvent(s)
       PROVE  Types'
  <2>1. evlog' \in [Sessions -> Seq(Event)] /\ chan' \in [Sessions -> Seq(Event)]
    <3>1. /\ chan[s] \in Seq(Event) /\ chan[s] # <<>> /\ evhandle[s] \in Sessions
          /\ chan' = [chan EXCEPT ![s] = Tail(@)]
          /\ evlog' = IF Mine(s, Head(chan[s]))
                      THEN [evlog EXCEPT ![evhandle[s]] = Append(@, Head(chan[s]))] ELSE evlog
      BY <1>17 DEF CaptureEvent, Bus!Receive, Types, Stages, Stage, Inodes
    <3>2. Head(chan[s]) \in Event /\ Tail(chan[s]) \in Seq(Event)
      BY <3>1, HeadTailProperties
    <3>3. Append(evlog[evhandle[s]], Head(chan[s])) \in Seq(Event)
      BY <3>1, <3>2, AppendProperties DEF Types
    <3> QED BY <3>1, <3>2, <3>3 DEF Types
  <2> QED BY <2>1, <1>17
     DEF CaptureEvent, Bus!Receive, recVars, capVars, diskVars, bus, bounds, Types
<1>18. ASSUME NEW s \in Sessions, CaptureExit(s)
       PROVE  Types'
  BY <1>18 DEF CaptureExit, Bus!RangeEnds, recVars, capVars, diskVars, bus, bounds, Types,
               Places, Inodes
<1>19. ASSUME NEW s \in Sessions, EndRead(s)
       PROVE  Types'
  BY <1>19 DEF EndRead, Goto, recVars, capVars, diskVars, bus, bounds, Types, Places, Inodes
<1>20. ASSUME NEW s \in Sessions, Deregister(s)
       PROVE  Types'
  BY <1>20
     DEF Deregister, Goto, recVars, capVars, diskVars, bus, bounds, Types, Places, Inodes
<1>21. ASSUME NEW s \in Sessions, FinishClose(s)
       PROVE  Types'
  BY <1>21
     DEF FinishClose, Goto, recVars, capVars, diskVars, bus, bounds, Types, Places, Inodes
<1>22. ASSUME NEW s \in Sessions, FinishUnsub(s)
       PROVE  Types'
  BY <1>22 DEF FinishUnsub, Goto, Bus!Unsubscribe, recVars, capVars, diskVars, bus, bounds,
               Types, Places, Inodes
<1>23. ASSUME NEW s \in Sessions, FinishDrained(s)
       PROVE  Types'
  BY <1>23
     DEF FinishDrained, Goto, recVars, capVars, diskVars, bus, bounds, Types, Places, Inodes
<1>24. ASSUME NEW s \in Sessions, FinishWav(s)
       PROVE  Types'
  BY <1>24
     DEF FinishWav, Goto, recVars, capVars, diskVars, bus, bounds, Types, Places, Inodes
<1>25. ASSUME NEW s \in Sessions, FinishMeta(s)
       PROVE  Types'
  BY <1>25
     DEF FinishMeta, Goto, recVars, capVars, diskVars, bus, bounds, Types, Places, Inodes
<1>26. ASSUME NEW s \in Sessions, FinishComplete(s)
       PROVE  Types'
  <2>1. Ev("recording.complete", s) \in Event
    BY <1>26 DEF FinishComplete, Ev, Event, Names, Inodes, Stages, Stage, Types
  <2>2. kept' \in [Sessions -> Seq(Event)] /\ chan' \in [Sessions -> Seq(Event)]
    BY <1>26, <2>1, AnnounceTypes DEF FinishComplete
  <2> QED BY <2>2, <1>26 DEF FinishComplete, Goto, Announce, Bus!Publish, Bus!HasRoomFor,
                             recVars, capVars, diskVars, bus, bounds, Types, Places
<1>27. ASSUME NEW s \in Sessions, End(s)
       PROVE  Types'
  <2>1. Ev("audio.end", s) \in Event
    BY <1>27 DEF End, Ev, Event, Names, Inodes, Stages, Stage, Types
  <2>2. kept' \in [Sessions -> Seq(Event)] /\ chan' \in [Sessions -> Seq(Event)]
    BY <1>27, <2>1, AnnounceTypes DEF End
  <2> QED BY <2>2, <1>27 DEF End, Goto, Announce, Bus!Publish, Bus!HasRoomFor, recVars,
                             capVars, diskVars, bus, bounds, Types, Places
<1>28. ASSUME NEW s \in Sessions, NEW u \in UUIDs, Accept(s, u)
       PROVE  Types'
  BY <1>28 DEF Accept, Goto, recVars, capVars, diskVars, bus, bounds, Types, Places, Inodes
<1>29. ASSUME NEW u \in UUIDs, Transcript(u)
       PROVE  Types'
  <2>1. [name |-> "transcript", uuid |-> u, session |-> None] \in Event
    BY DEF Event, Names, Inodes
  <2>2. kept' \in [Sessions -> Seq(Event)] /\ chan' \in [Sessions -> Seq(Event)]
    BY <1>29, <2>1, AnnounceTypes DEF Transcript
  <2> QED BY <2>2, <1>29 DEF Transcript, Announce, Bus!Publish, Bus!HasRoomFor, recVars,
                             capVars, diskVars, bus, bounds, Types
<1>30. ASSUME NEW u \in UUIDs, RemoveBundle(u)
       PROVE  Types'
  BY <1>30 DEF RemoveBundle, recVars, capVars, diskVars, bus, bounds, Types, Places, Inodes
<1> QED
  BY <1>10, <1>11, <1>12, <1>13, <1>14, <1>15, <1>16, <1>17, <1>18, <1>19, <1>20, <1>21,
     <1>22, <1>23, <1>24, <1>25, <1>26, <1>27, <1>28, <1>29, <1>30
     DEF Next, ServeStep, CaptureStep

-----------------------------------------------------------------------------
(* A step of one session, and what the others see of it.                   *)

SessionStep(s) ==
    \/ ServeStep(s) \/ CaptureStep(s) \/ Uplink(s) \/ EndRead(s)
    \/ DownlinkLoad(s) \/ DownlinkWrite(s) \/ \E u \in UUIDs : Accept(s, u)

OutsideStep == \E u \in UUIDs : Transcript(u) \/ RemoveBundle(u)

\* A step is one session's, or comes from outside.
LEMMA WhoSteps == Next => OutsideStep \/ \E s \in Sessions : SessionStep(s)
BY DEF Next, OutsideStep, SessionStep

\* t is where it was; its channel gains at most an event.
StaysPut(t) ==
    /\ pc'[t] = pc[t] /\ uuid'[t] = uuid[t] /\ handle'[t] = handle[t] /\ counted'[t] = counted[t]
    /\ capture'[t] = capture[t] /\ evhandle'[t] = evhandle[t]
    /\ pump'[t] = pump[t]
    /\ t \in rec' <=> t \in rec
    /\ t \in subs' <=> t \in subs
    /\ t \in shut' <=> t \in shut
    /\ t \in subs \/ (chan'[t] = chan[t] /\ kept'[t] = kept[t])

\* A session moves alone.
LEMMA OthersStay ==
    ASSUME Types,
           NEW s \in Sessions, SessionStep(s)
    PROVE  \A t \in Sessions \ {s} : StaysPut(t)
<1>10. CASE BeginDir(s)
  BY <1>10 DEF BeginDir, Goto, recVars, capVars, diskVars, bus, bounds, Types, StaysPut
<1>11. CASE BeginFiles(s)
  BY <1>11
     DEF BeginFiles, Goto, Inode, recVars, capVars, diskVars, bus, bounds, Types, StaysPut
<1>12. CASE BeginEvents(s)
  BY <1>12 DEF BeginEvents, Goto, Bus!Subscribe, Inode, recVars, capVars, diskVars, bus,
               bounds, Types, StaysPut
<1>13. CASE Start(s)
  BY <1>13 DEF Start, Goto, Announce, Bus!Publish, Bus!HasRoomFor, recVars, capVars,
               diskVars, bus, bounds, Types, StaysPut
<1>14. CASE Uplink(s)
  BY <1>14 DEF Uplink, recVars, capVars, diskVars, bus, bounds, Types, StaysPut
<1>15. CASE DownlinkLoad(s)
  BY <1>15 DEF DownlinkLoad, recVars, capVars, diskVars, bus, bounds, Types, StaysPut
<1>16. CASE DownlinkWrite(s)
  BY <1>16 DEF DownlinkWrite, recVars, capVars, diskVars, bus, bounds, Types, StaysPut
<1>17. CASE CaptureEvent(s)
  BY <1>17
     DEF CaptureEvent, Bus!Receive, recVars, capVars, diskVars, bus, bounds, Types, StaysPut
<1>18. CASE CaptureExit(s)
  BY <1>18 DEF CaptureExit, Bus!RangeEnds, recVars, capVars, diskVars, bus, bounds, Types,
               StaysPut
<1>19. CASE EndRead(s)
  BY <1>19 DEF EndRead, Goto, recVars, capVars, diskVars, bus, bounds, Types, StaysPut
<1>20. CASE Deregister(s)
  BY <1>20 DEF Deregister, Goto, recVars, capVars, diskVars, bus, bounds, Types, StaysPut
<1>21. CASE FinishClose(s)
  BY <1>21 DEF FinishClose, Goto, recVars, capVars, diskVars, bus, bounds, Types, StaysPut
<1>22. CASE FinishUnsub(s)
  BY <1>22 DEF FinishUnsub, Goto, Bus!Unsubscribe, recVars, capVars, diskVars, bus, bounds,
               Types, StaysPut
<1>23. CASE FinishDrained(s)
  BY <1>23 DEF FinishDrained, Goto, recVars, capVars, diskVars, bus, bounds, Types, StaysPut
<1>24. CASE FinishWav(s)
  BY <1>24 DEF FinishWav, Goto, recVars, capVars, diskVars, bus, bounds, Types, StaysPut
<1>25. CASE FinishMeta(s)
  BY <1>25 DEF FinishMeta, Goto, recVars, capVars, diskVars, bus, bounds, Types, StaysPut
<1>26. CASE FinishComplete(s)
  BY <1>26 DEF FinishComplete, Goto, Announce, Bus!Publish, Bus!HasRoomFor, recVars,
               capVars, diskVars, bus, bounds, Types, StaysPut
<1>27. CASE End(s)
  BY <1>27 DEF End, Goto, Announce, Bus!Publish, Bus!HasRoomFor, recVars, capVars,
               diskVars, bus, bounds, Types, StaysPut
<1>28. ASSUME NEW u \in UUIDs, Accept(s, u)
       PROVE  \A t \in Sessions \ {s} : StaysPut(t)
  BY <1>28 DEF Accept, Goto, recVars, capVars, diskVars, bus, bounds, Types, StaysPut
<1> QED
  BY <1>10, <1>11, <1>12, <1>13, <1>14, <1>15, <1>16, <1>17, <1>18, <1>19, <1>20, <1>21,
     <1>22, <1>23, <1>24, <1>25, <1>26, <1>27, <1>28
     DEF SessionStep, ServeStep, CaptureStep

\* A step from outside moves no session.
LEMMA AllStay ==
    ASSUME Types, OutsideStep
    PROVE  \A t \in Sessions : StaysPut(t)
<1>1. ASSUME NEW u \in UUIDs, Transcript(u)
      PROVE  \A t \in Sessions : StaysPut(t)
  BY <1>1 DEF Transcript, Announce, Bus!Publish, Bus!HasRoomFor, recVars, capVars,
              diskVars, bus, bounds, Types, StaysPut
<1>2. ASSUME NEW u \in UUIDs, RemoveBundle(u)
      PROVE  \A t \in Sessions : StaysPut(t)
  BY <1>2 DEF RemoveBundle, recVars, capVars, diskVars, bus, bounds, Types, StaysPut
<1> QED BY <1>1, <1>2 DEF OutsideStep

\* A session that stays put keeps its stage.
LEMMA StageStays ==
    ASSUME Types, NEW t \in Sessions, Stage(t), StaysPut(t)
    PROVE  Stage(t)'
BY DEF Stage, StaysPut, Early, Late

\* Each step of serveWS leads from one stage to the next.
LEMMA StageMoves ==
    ASSUME Types, Stages,
           NEW s \in Sessions, SessionStep(s)
    PROVE  Stage(s)'
<1>10. CASE BeginDir(s)
  BY <1>10 DEF BeginDir, Goto, recVars, capVars, diskVars, bus, bounds, Types, Stages,
               Stage, Early, Late
<1>11. CASE BeginFiles(s)
  <2>1. /\ s \notin rec /\ Stage(s) /\ uuid[s] \in UUIDs /\ pc[s] = "mkdir"
    BY <1>11 DEF BeginFiles, Stages, Stage, Types, Early
  <2>2. handle'[s] # None <=> pc'[s] = "files"
    <3> DEFINE i == Inode(uuid[s], s, raw)
    <3>1. i # None
      BY <2>1, InodeIs
    <3>2. \/ handle' = [handle EXCEPT ![s] = i] /\ pc' = [pc EXCEPT ![s] = "files"]
          \/ handle' = handle /\ pc' = [pc EXCEPT ![s] = "announce"]
      BY <1>11 DEF BeginFiles, Goto
    <3> HIDE DEF i
    <3> QED BY <2>1, <3>1, <3>2 DEF Stage, Types
  <2>3. pc'[s] \in {"files", "announce"}
    BY <1>11 DEF BeginFiles, Goto, Types
  <2> QED BY <2>1, <2>2, <2>3, <1>11 DEF BeginFiles, capVars, bus, Stage, Early, Late
<1>12. CASE BeginEvents(s)
  <2>1. /\ Stage(s) /\ uuid[s] \in UUIDs /\ pc[s] = "files"
    BY <1>12 DEF BeginEvents, Stages, Stage, Types, Early
  <2>2. capture'[s] # "off" => evhandle'[s] # None
    <3> DEFINE i == Inode(uuid[s], s, evfile)
    <3>1. i # None
      BY <2>1, InodeIs
    <3>2. \/ evhandle' = [evhandle EXCEPT ![s] = i]
          \/ capture' = capture
      BY <1>12 DEF BeginEvents, capVars
    <3> HIDE DEF i
    <3> QED BY <2>1, <3>1, <3>2 DEF Stage, Types, Early
  <2>3. capture'[s] # "exited"
    BY <1>12, <2>1 DEF BeginEvents, capVars, Stage, Types, Early
  <2>4. pc'[s] = "announce" /\ s \in rec' /\ s \in subs' /\ shut' = shut
    BY <1>12 DEF BeginEvents, Goto, Bus!Subscribe, Types
  <2> QED BY <2>1, <2>2, <2>3, <2>4, <1>12 DEF BeginEvents, bus, Stage, Early, Late
<1>13. CASE Start(s)
  BY <1>13 DEF Start, Goto, Announce, Bus!Publish, Bus!HasRoomFor, recVars, capVars,
               diskVars, bus, bounds, Types, Stages, Stage, Early, Late
<1>14. CASE Uplink(s)
  BY <1>14
     DEF Uplink, recVars, capVars, diskVars, bus, bounds, Types, Stages, Stage, Early, Late
<1>15. CASE DownlinkLoad(s)
  BY <1>15 DEF DownlinkLoad, recVars, capVars, diskVars, bus, bounds, Types, Stages, Stage,
               Early, Late
<1>16. CASE DownlinkWrite(s)
  <2>1. pc[s] \notin Early \union {"files"}
    BY <1>16 DEF DownlinkWrite, Stages, Stage
  <2> QED BY <2>1, <1>16 DEF DownlinkWrite, capVars, bus, Stages, Stage, Early, Late
<1>17. CASE CaptureEvent(s)
  BY <1>17 DEF CaptureEvent, Bus!Receive, recVars, capVars, diskVars, bus, bounds, Types,
               Stages, Stage, Early, Late
<1>18. CASE CaptureExit(s)
  BY <1>18 DEF CaptureExit, Bus!RangeEnds, recVars, capVars, diskVars, bus, bounds, Types,
               Stages, Stage, Early, Late
<1>19. CASE EndRead(s)
  BY <1>19 DEF EndRead, Goto, recVars, capVars, diskVars, bus, bounds, Types, Stages,
               Stage, Early, Late
<1>20. CASE Deregister(s)
  BY <1>20 DEF Deregister, Goto, recVars, capVars, diskVars, bus, bounds, Types, Stages,
               Stage, Early, Late
<1>21. CASE FinishClose(s)
  BY <1>21 DEF FinishClose, Goto, recVars, capVars, diskVars, bus, bounds, Types, Stages,
               Stage, Early, Late
<1>22. CASE FinishUnsub(s)
  BY <1>22 DEF FinishUnsub, Goto, Bus!Unsubscribe, recVars, capVars, diskVars, bus, bounds,
               Types, Stages, Stage, Early, Late
<1>23. CASE FinishDrained(s)
  BY <1>23 DEF FinishDrained, Goto, recVars, capVars, diskVars, bus, bounds, Types, Stages,
               Stage, Early, Late
<1>24. CASE FinishWav(s)
  BY <1>24 DEF FinishWav, Goto, recVars, capVars, diskVars, bus, bounds, Types, Stages,
               Stage, Early, Late
<1>25. CASE FinishMeta(s)
  BY <1>25 DEF FinishMeta, Goto, recVars, capVars, diskVars, bus, bounds, Types, Stages,
               Stage, Early, Late
<1>26. CASE FinishComplete(s)
  BY <1>26 DEF FinishComplete, Goto, Announce, Bus!Publish, Bus!HasRoomFor, recVars,
               capVars, diskVars, bus, bounds, Types, Stages, Stage, Early, Late
<1>27. CASE End(s)
  BY <1>27 DEF End, Goto, Announce, Bus!Publish, Bus!HasRoomFor, recVars, capVars,
               diskVars, bus, bounds, Types, Stages, Stage, Early, Late
<1>28. ASSUME NEW u \in UUIDs, Accept(s, u)
       PROVE  Stage(s)'
  BY <1>28, NoneAssumption DEF Accept, Goto, recVars, capVars, diskVars, bus, bounds,
                               Types, Stages, Stage, Early, Late
<1> QED
  BY <1>10, <1>11, <1>12, <1>13, <1>14, <1>15, <1>16, <1>17, <1>18, <1>19, <1>20, <1>21,
     <1>22, <1>23, <1>24, <1>25, <1>26, <1>27, <1>28
     DEF SessionStep, ServeStep, CaptureStep

\* Every step keeps the stages.
LEMMA StagesKept ==
    ASSUME Types, Stages, Next
    PROVE  Stages'
<1>1. ASSUME NEW s \in Sessions, SessionStep(s)
      PROVE  Stages'
  BY <1>1, OthersStay, StageStays, StageMoves DEF Stages
<1>2. ASSUME OutsideStep
      PROVE  Stages'
  BY <1>2, AllStay, StageStays DEF Stages
<1> QED BY <1>1, <1>2, WhoSteps

\* Each step keeps the inodes of the calls apart.
LEMMA OneCallMoves ==
    ASSUME Types, Stages, OfOneCall,
           NEW s \in Sessions, SessionStep(s)
    PROVE  OfOneCall'
<1>10. CASE BeginDir(s)
  BY <1>10 DEF BeginDir, Goto, recVars, capVars, diskVars, bus, bounds, OfOneCall, Types
<1>11. CASE BeginFiles(s)
  <2> DEFINE i == Inode(uuid[s], s, raw)
  <2>1. uuid[s] \in UUIDs /\ UNCHANGED <<uuid, evfile, evhandle>>
    BY <1>11 DEF BeginFiles, capVars, Stages, Stage, Types
  <2>2. i \in Sessions /\ uuid[i] = uuid[s]
    BY <2>1, InodeIs DEF Inode, OfOneCall
  <2>3. \/ raw' = [raw EXCEPT ![uuid[s]] = i] /\ handle' = [handle EXCEPT ![s] = i]
        \/ UNCHANGED <<raw, handle>>
    BY <1>11 DEF BeginFiles
  <2> HIDE DEF i
  <2> QED BY <2>1, <2>2, <2>3, ZenonT(60) DEF OfOneCall, Types
<1>12. CASE BeginEvents(s)
  <2> DEFINE i == Inode(uuid[s], s, evfile)
  <2>1. uuid[s] \in UUIDs /\ UNCHANGED <<uuid, raw, handle>>
    BY <1>12 DEF BeginEvents, Stages, Stage, Types
  <2>2. i \in Sessions /\ uuid[i] = uuid[s]
    BY <2>1, InodeIs DEF Inode, OfOneCall
  <2>3. \/ evfile' = [evfile EXCEPT ![uuid[s]] = i] /\ evhandle' = [evhandle EXCEPT ![s] = i]
        \/ UNCHANGED <<evfile, evhandle>>
    BY <1>12 DEF BeginEvents, capVars
  <2> HIDE DEF i
  <2> QED BY <2>1, <2>2, <2>3, ZenonT(60) DEF OfOneCall, Types
<1>13. CASE Start(s)
  BY <1>13 DEF Start, Goto, Announce, Bus!Publish, Bus!HasRoomFor, recVars, capVars,
               diskVars, bus, bounds, OfOneCall, Types
<1>14. CASE Uplink(s)
  BY <1>14 DEF Uplink, recVars, capVars, diskVars, bus, bounds, OfOneCall, Types
<1>15. CASE DownlinkLoad(s)
  BY <1>15 DEF DownlinkLoad, recVars, capVars, diskVars, bus, bounds, OfOneCall, Types
<1>16. CASE DownlinkWrite(s)
  BY <1>16 DEF DownlinkWrite, recVars, capVars, diskVars, bus, bounds, OfOneCall, Types
<1>17. CASE CaptureEvent(s)
  BY <1>17 DEF CaptureEvent, Bus!Receive, recVars, capVars, diskVars, bus, bounds,
               OfOneCall, Types
<1>18. CASE CaptureExit(s)
  BY <1>18 DEF CaptureExit, Bus!RangeEnds, recVars, capVars, diskVars, bus, bounds,
               OfOneCall, Types
<1>19. CASE EndRead(s)
  BY <1>19 DEF EndRead, Goto, recVars, capVars, diskVars, bus, bounds, OfOneCall, Types
<1>20. CASE Deregister(s)
  BY <1>20 DEF Deregister, Goto, recVars, capVars, diskVars, bus, bounds, OfOneCall, Types
<1>21. CASE FinishClose(s)
  BY <1>21 DEF FinishClose, Goto, recVars, capVars, diskVars, bus, bounds, OfOneCall, Types
<1>22. CASE FinishUnsub(s)
  BY <1>22 DEF FinishUnsub, Goto, Bus!Unsubscribe, recVars, capVars, diskVars, bus, bounds,
               OfOneCall, Types
<1>23. CASE FinishDrained(s)
  BY <1>23
     DEF FinishDrained, Goto, recVars, capVars, diskVars, bus, bounds, OfOneCall, Types
<1>24. CASE FinishWav(s)
  BY <1>24 DEF FinishWav, Goto, recVars, capVars, diskVars, bus, bounds, OfOneCall, Types
<1>25. CASE FinishMeta(s)
  BY <1>25 DEF FinishMeta, Goto, recVars, capVars, diskVars, bus, bounds, OfOneCall, Types
<1>26. CASE FinishComplete(s)
  BY <1>26 DEF FinishComplete, Goto, Announce, Bus!Publish, Bus!HasRoomFor, recVars,
               capVars, diskVars, bus, bounds, OfOneCall, Types
<1>27. CASE End(s)
  BY <1>27 DEF End, Goto, Announce, Bus!Publish, Bus!HasRoomFor, recVars, capVars,
               diskVars, bus, bounds, OfOneCall, Types
<1>28. ASSUME NEW u \in UUIDs, Accept(s, u)
       PROVE  OfOneCall'
  <2>1. /\ uuid' = [uuid EXCEPT ![s] = u] /\ uuid[s] = None
        /\ UNCHANGED <<raw, evfile, handle, evhandle>>
    BY <1>28 DEF Accept, capVars, recVars, diskVars, Stages, Stage
  <2>2. \A t \in Sessions : uuid[t] = None => handle[t] = None /\ evhandle[t] = None
    BY DEF Stages, Stage, Early
  <2>3. \A i \in Sessions : uuid[i] # None => uuid'[i] = uuid[i]
    BY <2>1 DEF Types
  <2>4. \A v \in UUIDs :
            /\ raw[v] # None => raw[v] \in Sessions /\ uuid[raw[v]] = v
            /\ evfile[v] # None => evfile[v] \in Sessions /\ uuid[evfile[v]] = v
    BY DEF OfOneCall, Types, Inodes
  <2>5. \A v \in UUIDs :
            /\ raw[v] # None => uuid'[raw[v]] = v
            /\ evfile[v] # None => uuid'[evfile[v]] = v
    BY <2>3, <2>4, NoneAssumption
  <2>6. \A t \in Sessions :
            /\ handle[t] # None =>
                uuid[t] # None /\ handle[t] \in Sessions /\ uuid[handle[t]] = uuid[t]
            /\ evhandle[t] # None =>
                uuid[t] # None /\ evhandle[t] \in Sessions /\ uuid[evhandle[t]] = uuid[t]
    <3>1. \A t \in Sessions : handle[t] \in Sessions \union {None}
                           /\ evhandle[t] \in Sessions \union {None}
      BY DEF Types, Inodes
    <3>2. ASSUME NEW t \in Sessions, handle[t] # None
          PROVE  uuid[t] # None /\ handle[t] \in Sessions /\ uuid[handle[t]] = uuid[t]
      BY <3>1, <3>2, <2>2 DEF OfOneCall
    <3>3. ASSUME NEW t \in Sessions, evhandle[t] # None
          PROVE  uuid[t] # None /\ evhandle[t] \in Sessions /\ uuid[evhandle[t]] = uuid[t]
      BY <3>1, <3>3, <2>2 DEF OfOneCall
    <3> QED BY <3>2, <3>3
  <2>7. \A t \in Sessions :
            /\ handle[t] # None => uuid'[handle[t]] = uuid'[t]
            /\ evhandle[t] # None => uuid'[evhandle[t]] = uuid'[t]
    BY <2>3, <2>6
  <2> QED BY <2>1, <2>5, <2>7 DEF OfOneCall
<1> QED
  BY <1>10, <1>11, <1>12, <1>13, <1>14, <1>15, <1>16, <1>17, <1>18, <1>19, <1>20, <1>21,
     <1>22, <1>23, <1>24, <1>25, <1>26, <1>27, <1>28
     DEF SessionStep, ServeStep, CaptureStep

\* Every step keeps the inodes of the calls apart.
LEMMA OneCallKept ==
    ASSUME Types, Stages, OfOneCall, Next
    PROVE  OfOneCall'
<1>1. ASSUME NEW u \in UUIDs, Transcript(u) \/ RemoveBundle(u)
      PROVE  OfOneCall'
  <2>1. UNCHANGED <<uuid, handle, evhandle>>
    BY <1>1 DEF Transcript, RemoveBundle, recVars, capVars
  <2>2. \A v \in UUIDs : raw'[v] \in {None, raw[v]} /\ evfile'[v] \in {None, evfile[v]}
    BY <1>1 DEF Transcript, RemoveBundle, diskVars, Types
  <2> QED BY <2>1, <2>2 DEF OfOneCall
<1> QED BY <1>1, OneCallMoves, WhoSteps DEF OutsideStep

-----------------------------------------------------------------------------
(* Who records.                                                            *)

\* s enters no recording.
EntersNone(s) == Recorded(s)' => Recorded(s) /\ uuid'[s] = uuid[s]

\* The recordings in u's bundle are those of the sessions of call u.
LEMMA RecordingIs ==
    \A u \in UUIDs : Recording(u) = {s \in Sessions : uuid[s] = u /\ Recorded(s)}
BY DEF Recording, Recorded

\* A session that stays put keeps its recording, or the lack of one.
LEMMA RecordedStays ==
    ASSUME NEW t \in Sessions, StaysPut(t)
    PROVE  (Recorded(t)' <=> Recorded(t)) /\ uuid'[t] = uuid[t]
BY DEF Recorded, StaysPut

\* Only recording into the files of a call brings a session in, and spoils the recordings
\* that are there.
LEMMA EnterOrSpoil ==
    ASSUME Types, Stages,
           NEW s \in Sessions, SessionStep(s)
    PROVE  /\ spoiled \subseteq spoiled'
           /\ \/ EntersNone(s)
              \/ /\ BeginFiles(s) /\ uuid'[s] = uuid[s]
                 /\ \A t \in Sessions : Recorded(t) /\ uuid[t] = uuid[s] => {s, t} \subseteq spoiled'
<1>10. CASE BeginDir(s)
  BY <1>10 DEF BeginDir, Goto, recVars, capVars, diskVars, bus, bounds, EntersNone,
               Recorded, Types, Stages, Stage, Early
<1>11. CASE BeginFiles(s)
  <2>1. /\ uuid'[s] = uuid[s] /\ uuid[s] \in UUIDs
        /\ pc' = [pc EXCEPT ![s] = "files"] \/ pc' = [pc EXCEPT ![s] = "announce"]
        /\ pc[s] = "mkdir" /\ subs' = subs /\ shut' = shut
    BY <1>11 DEF BeginFiles, Goto, bus, Stages, Stage, Types
  <2>2. CASE pc' = [pc EXCEPT ![s] = "announce"]
    <3>1. ~Recorded(s)' /\ spoiled \subseteq spoiled'
      BY <2>1, <2>2, <1>11 DEF BeginFiles, Recorded, Stages, Stage, Types, Early
    <3> QED BY <3>1 DEF EntersNone
  <2>3. CASE pc' = [pc EXCEPT ![s] = "files"]
    <3>1. spoiled' = IF Recording(uuid[s]) = {} THEN spoiled
                     ELSE (spoiled \union Recording(uuid[s])) \union {s}
      BY <2>1, <2>3, <1>11 DEF BeginFiles, Goto, Types
    <3>2. Recording(uuid[s]) = {t \in Sessions : uuid[t] = uuid[s] /\ Recorded(t)}
      BY <2>1, RecordingIs
    <3>3. \A t \in Sessions : Recorded(t) /\ uuid[t] = uuid[s] => {s, t} \subseteq spoiled'
      BY <3>1, <3>2
    <3>4. spoiled \subseteq spoiled'
      BY <3>1
    <3> QED BY <2>1, <3>3, <3>4, <1>11
  <2> QED BY <2>1, <2>2, <2>3
<1>12. CASE BeginEvents(s)
  BY <1>12 DEF BeginEvents, Goto, Bus!Subscribe, Inode, recVars, capVars, diskVars, bus,
               bounds, EntersNone, Recorded, Types, Stages, Stage, Early
<1>13. CASE Start(s)
  BY <1>13 DEF Start, Goto, Announce, Bus!Publish, Bus!HasRoomFor, recVars, capVars,
               diskVars, bus, bounds, EntersNone, Recorded, Types, Stages, Stage, Early
<1>14. CASE Uplink(s)
  BY <1>14 DEF Uplink, recVars, capVars, diskVars, bus, bounds, EntersNone, Recorded,
               Types, Stages, Stage, Early
<1>15. CASE DownlinkLoad(s)
  BY <1>15 DEF DownlinkLoad, recVars, capVars, diskVars, bus, bounds, EntersNone, Recorded,
               Types, Stages, Stage, Early
<1>16. CASE DownlinkWrite(s)
  BY <1>16 DEF DownlinkWrite, recVars, capVars, diskVars, bus, bounds, EntersNone,
               Recorded, Types, Stages, Stage, Early
<1>17. CASE CaptureEvent(s)
  BY <1>17 DEF CaptureEvent, Bus!Receive, recVars, capVars, diskVars, bus, bounds,
               EntersNone, Recorded, Types, Stages, Stage, Early
<1>18. CASE CaptureExit(s)
  BY <1>18 DEF CaptureExit, Bus!RangeEnds, recVars, capVars, diskVars, bus, bounds,
               EntersNone, Recorded, Types, Stages, Stage, Early
<1>19. CASE EndRead(s)
  BY <1>19 DEF EndRead, Goto, recVars, capVars, diskVars, bus, bounds, EntersNone,
               Recorded, Types, Stages, Stage, Early
<1>20. CASE Deregister(s)
  BY <1>20 DEF Deregister, Goto, recVars, capVars, diskVars, bus, bounds, EntersNone,
               Recorded, Types, Stages, Stage, Early
<1>21. CASE FinishClose(s)
  BY <1>21 DEF FinishClose, Goto, recVars, capVars, diskVars, bus, bounds, EntersNone,
               Recorded, Types, Stages, Stage, Early
<1>22. CASE FinishUnsub(s)
  BY <1>22 DEF FinishUnsub, Goto, Bus!Unsubscribe, recVars, capVars, diskVars, bus, bounds,
               EntersNone, Recorded, Types, Stages, Stage, Early
<1>23. CASE FinishDrained(s)
  BY <1>23 DEF FinishDrained, Goto, recVars, capVars, diskVars, bus, bounds, EntersNone,
               Recorded, Types, Stages, Stage, Early
<1>24. CASE FinishWav(s)
  BY <1>24 DEF FinishWav, Goto, recVars, capVars, diskVars, bus, bounds, EntersNone,
               Recorded, Types, Stages, Stage, Early
<1>25. CASE FinishMeta(s)
  BY <1>25 DEF FinishMeta, Goto, recVars, capVars, diskVars, bus, bounds, EntersNone,
               Recorded, Types, Stages, Stage, Early
<1>26. CASE FinishComplete(s)
  BY <1>26 DEF FinishComplete, Goto, Announce, Bus!Publish, Bus!HasRoomFor, recVars,
               capVars, diskVars, bus, bounds, EntersNone, Recorded, Types, Stages, Stage,
               Early
<1>27. CASE End(s)
  BY <1>27 DEF End, Goto, Announce, Bus!Publish, Bus!HasRoomFor, recVars, capVars,
               diskVars, bus, bounds, EntersNone, Recorded, Types, Stages, Stage, Early
<1>28. ASSUME NEW u \in UUIDs, Accept(s, u)
       PROVE  /\ spoiled \subseteq spoiled'
           /\ \/ EntersNone(s)
              \/ /\ BeginFiles(s) /\ uuid'[s] = uuid[s]
                 /\ \A t \in Sessions : Recorded(t) /\ uuid[t] = uuid[s] => {s, t} \subseteq spoiled'
  BY <1>28 DEF Accept, Goto, recVars, capVars, diskVars, bus, bounds, EntersNone, Recorded,
               Types, Stages, Stage, Early
<1> QED
  BY <1>10, <1>11, <1>12, <1>13, <1>14, <1>15, <1>16, <1>17, <1>18, <1>19, <1>20, <1>21,
     <1>22, <1>23, <1>24, <1>25, <1>26, <1>27, <1>28
     DEF SessionStep, ServeStep, CaptureStep

\* Every step keeps undisturbed recordings alone: whoever enters one spoils it.
LEMMA AloneKept ==
    ASSUME Types, Stages, Alone, Next
    PROVE  Alone'
<1>1. ASSUME NEW s \in Sessions, SessionStep(s)
      PROVE  Alone'
  <2>1. /\ \A t \in Sessions \ {s} : (Recorded(t)' <=> Recorded(t)) /\ uuid'[t] = uuid[t]
        /\ spoiled \subseteq spoiled'
    BY <1>1, OthersStay, RecordedStays, EnterOrSpoil
  <2>2. CASE EntersNone(s)
    BY <2>1, <2>2 DEF EntersNone, Alone, Undisturbed
  <2>3. CASE /\ uuid'[s] = uuid[s]
             /\ \A t \in Sessions : Recorded(t) /\ uuid[t] = uuid[s] => {s, t} \subseteq spoiled'
    BY <2>1, <2>3 DEF Alone, Undisturbed
  <2> QED BY <1>1, <2>2, <2>3, EnterOrSpoil
<1>2. ASSUME OutsideStep
      PROVE  Alone'
  <2>1. spoiled \subseteq spoiled'
    BY <1>2 DEF OutsideStep, Transcript, RemoveBundle
  <2>2. \A t \in Sessions : (Recorded(t)' <=> Recorded(t)) /\ uuid'[t] = uuid[t]
    BY <1>2, AllStay, RecordedStays
  <2> QED BY <2>1, <2>2 DEF Alone, Undisturbed
<1> QED BY <1>1, <1>2, WhoSteps

-----------------------------------------------------------------------------
(* What an undisturbed recording has on the disk.                          *)

\* A session fails for itself, and only Finish does.
LEMMA OthersFail ==
    ASSUME Failures,
           NEW s \in Sessions, SessionStep(s)
    PROVE  Failures' /\ \A t \in Sessions \ {s} : failed'[t] = failed[t]
<1>1. failed' = failed \/ \E w : failed' = [failed EXCEPT ![s] = @ \union {w}]
  <2>1. CASE FinishWav(s)
    BY <2>1 DEF FinishWav, Fails
  <2>2. CASE FinishMeta(s)
    BY <2>2 DEF FinishMeta, Fails
  <2>3. CASE ~FinishWav(s) /\ ~FinishMeta(s)
    BY <2>3 DEF SessionStep, ServeStep, CaptureStep, BeginDir, BeginFiles, BeginEvents, Start,
                Uplink, DownlinkLoad, DownlinkWrite, CaptureEvent, CaptureExit, EndRead,
                Deregister, FinishClose, FinishUnsub, FinishDrained, FinishComplete, End, Accept
  <2> QED BY <2>1, <2>2, <2>3
<1> QED BY <1>1 DEF Failures

\* Nothing from outside counts as a failure.
LEMMA OutsideFailsNothing == OutsideStep => failed' = failed
BY DEF OutsideStep, Transcript, RemoveBundle

\* audio.wav files are written by Finish alone, and removed with their bundles.
LEMMA FreshWavsKept ==
    ASSUME Types, Stages, FreshWavs, Next
    PROVE  FreshWavs'
<1>1. ASSUME NEW s \in Sessions, SessionStep(s)
      PROVE  FreshWavs'
  <2>1. pc[s] \in Late \union {"done"} => pc'[s] \in Late \union {"done"}
    BY <1>1 DEF SessionStep, ServeStep, CaptureStep, BeginDir, BeginFiles, BeginEvents, Start,
                Uplink, DownlinkLoad, DownlinkWrite, CaptureEvent, CaptureExit, EndRead,
                Deregister, FinishClose, FinishUnsub, FinishDrained, FinishWav, FinishMeta,
                FinishComplete, End, Accept, Goto, Late, Types
  <2>2. \A t \in Sessions \ {s} : pc'[t] = pc[t]
    BY <1>1, OthersStay DEF StaysPut
  <2>3. \A u \in UUIDs : wav'[u].by = wav[u].by \/ (wav'[u].by = s /\ pc'[s] \in Late)
    <3>1. CASE FinishWav(s)
      <4>1. pc'[s] = "meta"
        BY <3>1 DEF FinishWav, Goto, Types
      <4>2. \/ wav' = wav
            \/ \E k \in 0..counted[s].caller :
                    wav' = [wav EXCEPT ![uuid[s]] = Interleaved(s, track[raw[uuid[s]]], k)]
        BY <3>1 DEF FinishWav
      <4>3. \A k \in 0..counted[s].caller : Interleaved(s, track[raw[uuid[s]]], k).by = s
        BY DEF Interleaved
      <4> QED BY <4>1, <4>2, <4>3 DEF Types, Late
    <3>2. CASE ~FinishWav(s)
      <4>1. wav' = wav
        BY <1>1, <3>2
           DEF SessionStep, ServeStep, CaptureStep, BeginDir, BeginFiles, BeginEvents, Start,
               Uplink, DownlinkLoad, DownlinkWrite, CaptureEvent, CaptureExit, EndRead,
               Deregister, FinishClose, FinishUnsub, FinishDrained, FinishMeta,
               FinishComplete, End, Accept, diskVars
      <4> QED BY <4>1
    <3> QED BY <3>1, <3>2
  <2> QED BY <2>1, <2>2, <2>3 DEF FreshWavs
<1>2. ASSUME OutsideStep
      PROVE  FreshWavs'
  <2>1. \A t \in Sessions : pc'[t] = pc[t]
    BY <1>2, AllStay DEF StaysPut
  <2>2. \A u \in UUIDs : wav'[u].by = wav[u].by \/ wav'[u].by = None
    <3>1. wav' = wav \/ \E u \in UUIDs : wav' = [wav EXCEPT ![u] = NoWav]
      BY <1>2 DEF OutsideStep, Transcript, RemoveBundle, diskVars
    <3>2. NoWav.by = None
      BY DEF NoWav
    <3> QED BY <3>1, <3>2 DEF Types
  <2> QED BY <2>1, <2>2, NoneAssumption DEF FreshWavs
<1> QED BY <1>1, <1>2, WhoSteps

\* Nothing on the disk that is t's changes.
DiskSame(t) ==
    /\ uuid[t] \in dirs => uuid[t] \in dirs'
    /\ raw'[uuid[t]] = raw[uuid[t]]
    /\ wav'[uuid[t]] = wav[uuid[t]] /\ meta'[uuid[t]] = meta[uuid[t]]
    /\ raw[uuid[t]] # None => track'[raw[uuid[t]]] = track[raw[uuid[t]]]

\* A session that stays put and whose disk is the same has on it what it had.
LEMMA DiskStays ==
    ASSUME NEW t \in Sessions, OnDisk(t), StaysPut(t), failed'[t] = failed[t],
           Undisturbed(t)' => Undisturbed(t) /\ DiskSame(t)
    PROVE  OnDisk(t)'
BY DEF OnDisk, StaysPut, DiskSame

\* Another session that records does so for another call, and into another inode.
LEMMA OtherCall ==
    ASSUME Types, Stages, OfOneCall, Alone,
           NEW t \in Sessions, Undisturbed(t), NEW s \in Sessions \ {t}
    PROVE  /\ uuid[t] \in UUIDs
           /\ Recorded(s) => uuid[s] # uuid[t]
           /\ handle[s] # None => /\ uuid[s] # uuid[t] /\ handle[s] # raw[uuid[t]]
           /\ pc[s] \in {"wav", "meta"} => uuid[s] # uuid[t]
<1>1. uuid[t] \in UUIDs
  BY DEF Undisturbed, Recorded, Stages, Stage, Types, Early
<1>2. Recorded(s) => uuid[s] # uuid[t]
  BY DEF Alone
<1>3. handle[s] # None \/ pc[s] \in {"wav", "meta"} => Recorded(s)
  BY DEF Stages, Stage, Recorded, Late, Early
<1>4. handle[s] # None => uuid[handle[s]] = uuid[s]
  BY DEF OfOneCall
<1>5. raw[uuid[t]] # None => uuid[raw[uuid[t]]] = uuid[t]
  BY <1>1 DEF OfOneCall
<1> QED BY <1>1, <1>2, <1>3, <1>4, <1>5

\* No session touches what an undisturbed one has.
LEMMA OthersDisk ==
    ASSUME Types, Stages, OfOneCall, Alone,
           NEW s \in Sessions, SessionStep(s),
           NEW t \in Sessions \ {s}, Undisturbed(t), Undisturbed(t)'
    PROVE  DiskSame(t)
<1>10. CASE BeginDir(s)
  BY <1>10, OtherCall
     DEF BeginDir, Goto, recVars, capVars, diskVars, bus, bounds, DiskSame, Types
<1>11. CASE BeginFiles(s)
  <2> DEFINE i == Inode(uuid[s], s, raw)
  <2>1. /\ uuid[t] \in UUIDs /\ uuid[s] \in UUIDs /\ UNCHANGED <<dirs, wav, meta>>
        /\ i \in Sessions /\ (i = raw[uuid[s]] \/ i = s)
    BY <1>11, OtherCall, InodeIs DEF BeginFiles, Inode, Stages, Stage, Types, Early
  <2>2. CASE uuid[s] = uuid[t]
    <3>1. t \in Recording(uuid[s])
      BY <2>1, <2>2, RecordingIs DEF Undisturbed
    <3>2. UNCHANGED <<raw, track>>
      BY <3>1, <1>11 DEF BeginFiles, Undisturbed
    <3> QED BY <2>1, <3>2 DEF DiskSame
  <2>3. CASE uuid[s] # uuid[t]
    <3>1. uuid[i] = uuid[s] /\ (raw[uuid[t]] # None => uuid[raw[uuid[t]]] = uuid[t])
      BY <2>1, InodeIs DEF OfOneCall, Inode
    <3>2. \/ /\ raw' = [raw EXCEPT ![uuid[s]] = i]
             /\ track' = [track EXCEPT ![i] = [caller |-> <<>>, agent |-> <<>>]]
          \/ /\ raw' = raw /\ raw[uuid[s]] # None
             /\ track' = [track EXCEPT ![raw[uuid[s]]].caller = <<>>]
          \/ raw' = raw /\ track' = track
      BY <1>11 DEF BeginFiles
    <3>3. raw[uuid[s]] # None => i = raw[uuid[s]]
      BY DEF Inode
    <3>4. \A k \in Sessions \ {i} : track'[k] = track[k]
      BY <3>2, <3>3 DEF Types
    <3>5. raw[uuid[t]] # None => raw[uuid[t]] \in Sessions \ {i}
      BY <2>1, <2>3, <3>1 DEF Types, Inodes
    <3>6. raw'[uuid[t]] = raw[uuid[t]]
      BY <2>1, <2>3, <3>2 DEF Types
    <3> QED BY <2>1, <3>4, <3>5, <3>6 DEF DiskSame
  <2> QED BY <2>2, <2>3
<1>12. CASE BeginEvents(s)
  BY <1>12, OtherCall DEF BeginEvents, Goto, Bus!Subscribe, Inode, recVars, capVars,
                          diskVars, bus, bounds, DiskSame, Types
<1>13. CASE Start(s)
  BY <1>13, OtherCall DEF Start, Goto, Announce, Bus!Publish, Bus!HasRoomFor, recVars,
                          capVars, diskVars, bus, bounds, DiskSame, Types
<1>14. CASE Uplink(s)
  <2>1. /\ uuid[t] \in UUIDs /\ handle[s] # raw[uuid[t]]
        /\ \A k \in Sessions \ {handle[s]} : track'[k] = track[k]
    BY <1>14, OtherCall DEF Uplink, Types, Stages, Stage
  <2>2. raw[uuid[t]] # None => raw[uuid[t]] \in Sessions
    BY <2>1 DEF Types, Inodes
  <2> QED BY <2>1, <2>2, <1>14 DEF Uplink, DiskSame
<1>15. CASE DownlinkLoad(s)
  BY <1>15, OtherCall
     DEF DownlinkLoad, recVars, capVars, diskVars, bus, bounds, DiskSame, Types
<1>16. CASE DownlinkWrite(s)
  <2>1. /\ uuid[t] \in UUIDs
        /\ handle[s] # None => handle[s] # raw[uuid[t]]
        /\ \A k \in Sessions : handle[s] = None \/ k # handle[s] => track'[k] = track[k]
    BY <1>16, OtherCall DEF DownlinkWrite, Types
  <2>2. raw[uuid[t]] # None => raw[uuid[t]] \in Sessions
    BY <2>1 DEF Types, Inodes
  <2> QED BY <2>1, <2>2, <1>16 DEF DownlinkWrite, DiskSame
<1>17. CASE CaptureEvent(s)
  BY <1>17, OtherCall
     DEF CaptureEvent, Bus!Receive, recVars, capVars, diskVars, bus, bounds, DiskSame, Types
<1>18. CASE CaptureExit(s)
  BY <1>18, OtherCall DEF CaptureExit, Bus!RangeEnds, recVars, capVars, diskVars, bus,
                          bounds, DiskSame, Types
<1>19. CASE EndRead(s)
  BY <1>19, OtherCall
     DEF EndRead, Goto, recVars, capVars, diskVars, bus, bounds, DiskSame, Types
<1>20. CASE Deregister(s)
  BY <1>20, OtherCall
     DEF Deregister, Goto, recVars, capVars, diskVars, bus, bounds, DiskSame, Types
<1>21. CASE FinishClose(s)
  BY <1>21, OtherCall
     DEF FinishClose, Goto, recVars, capVars, diskVars, bus, bounds, DiskSame, Types
<1>22. CASE FinishUnsub(s)
  BY <1>22, OtherCall DEF FinishUnsub, Goto, Bus!Unsubscribe, recVars, capVars, diskVars,
                          bus, bounds, DiskSame, Types
<1>23. CASE FinishDrained(s)
  BY <1>23, OtherCall
     DEF FinishDrained, Goto, recVars, capVars, diskVars, bus, bounds, DiskSame, Types
<1>24. CASE FinishWav(s)
  <2>1. uuid[t] \in UUIDs /\ uuid[s] # uuid[t] /\ dirs' = dirs /\ meta' = meta /\ track' = track
    BY <1>24, OtherCall DEF FinishWav
  <2>2. raw' = [raw EXCEPT ![uuid[s]] = None] /\ \E x : wav' = wav \/ wav' = [wav EXCEPT ![uuid[s]] = x]
    BY <1>24 DEF FinishWav
  <2>3. raw'[uuid[t]] = raw[uuid[t]] /\ wav'[uuid[t]] = wav[uuid[t]]
    BY <2>1, <2>2 DEF Types
  <2> QED BY <2>1, <2>3 DEF DiskSame
<1>25. CASE FinishMeta(s)
  <2>1. /\ uuid[t] \in UUIDs /\ uuid[s] # uuid[t]
        /\ UNCHANGED <<dirs, raw, track, wav>>
    BY <1>25, OtherCall DEF FinishMeta
  <2>2. meta' = meta \/ \E x : meta' = [meta EXCEPT ![uuid[s]] = x]
    BY <1>25 DEF FinishMeta
  <2>3. meta'[uuid[t]] = meta[uuid[t]]
    BY <2>1, <2>2 DEF Types
  <2> QED BY <2>1, <2>3 DEF DiskSame
<1>26. CASE FinishComplete(s)
  BY <1>26, OtherCall DEF FinishComplete, Goto, Announce, Bus!Publish, Bus!HasRoomFor,
                          recVars, capVars, diskVars, bus, bounds, DiskSame, Types
<1>27. CASE End(s)
  BY <1>27, OtherCall DEF End, Goto, Announce, Bus!Publish, Bus!HasRoomFor, recVars,
                          capVars, diskVars, bus, bounds, DiskSame, Types
<1>28. ASSUME NEW u \in UUIDs, Accept(s, u)
       PROVE  DiskSame(t)
  BY <1>28, OtherCall
     DEF Accept, Goto, recVars, capVars, diskVars, bus, bounds, DiskSame, Types
<1> QED
  BY <1>10, <1>11, <1>12, <1>13, <1>14, <1>15, <1>16, <1>17, <1>18, <1>19, <1>20, <1>21,
     <1>22, <1>23, <1>24, <1>25, <1>26, <1>27, <1>28
     DEF SessionStep, ServeStep, CaptureStep

\* The first k of a track of frames.
UpTo(q, k) == SubSeq(q, 1, IF k < Len(q) THEN k ELSE Len(q))

\* The beginning of a track of one's own frames is one.
LEMMA UpToIs ==
    ASSUME NEW s \in Sessions, NEW q \in Seq(Inodes), NEW k \in Nat, NEW n \in Nat, AllOf(q, s, n)
    PROVE  AllOf(UpTo(q, k), s, IF k < n THEN k ELSE n)
<1> DEFINE l == IF k < Len(q) THEN k ELSE Len(q)
<1>1. Len(q) = n /\ l \in 0..Len(q) /\ \A i \in 1..n : q[i] = s
  BY DEF AllOf
<1>2. \A i \in 1..l : q[i] \in Inodes /\ q[i] = s
  BY <1>1 DEF Inodes
<1>3. /\ SubSeq(q, 1, l) \in Seq(Inodes)
      /\ Len(SubSeq(q, 1, l)) = IF 1 <= l THEN l - 1 + 1 ELSE 0
      /\ \A i \in 1..(l - 1 + 1) : SubSeq(q, 1, l)[i] = q[1 + i - 1]
  <2> HIDE DEF l
  <2>1. 1 \in Int /\ l \in Int
    BY <1>1
  <2> QED BY <1>2, <2>1, SubSeqProperties
<1>4. /\ SubSeq(q, 1, l) \in Seq(Inodes)
      /\ Len(SubSeq(q, 1, l)) = l /\ \A i \in 1..l : SubSeq(q, 1, l)[i] = s
  <2> HIDE DEF l
  <2> QED BY <1>1, <1>2, <1>3
<1>5. l = IF k < n THEN k ELSE n
  BY <1>1
<1>6. DOMAIN SubSeq(q, 1, l) = 1..l
  <2> HIDE DEF l
  <2> QED BY <1>4, LenProperties
<1>7. UpTo(q, k) = SubSeq(q, 1, l)
  BY DEF UpTo
<1> HIDE DEF l
<1> QED BY <1>4, <1>5, <1>6, <1>7 DEF AllOf

\* A step of s that changes nothing on the disk.
LeavesDisk(s) ==
    /\ UNCHANGED <<dirs, raw, track, wav, meta, uuid, counted, spoiled, failed>>
    /\ handle'[s] = handle[s]
    /\ Recorded(s)' => Recorded(s)
    /\ pc'[s] \in Late <=> pc[s] \in Late
    /\ pc'[s] \in {"complete", "bye"} <=> pc[s] \in {"complete", "bye"}

\* It keeps what s has there.
LEMMA DiskQuiet ==
    ASSUME NEW s \in Sessions, OnDisk(s), LeavesDisk(s)
    PROVE  OnDisk(s)'
BY DEF OnDisk, Undisturbed, LeavesDisk

\* Each step of a session keeps what it has on the disk.
LEMMA OnDiskMoves ==
    ASSUME Types, Failures, Stages, FreshWavs,
           NEW s \in Sessions, SessionStep(s), OnDisk(s)
    PROVE  OnDisk(s)'
<1>10. CASE BeginDir(s)
  <2>1. ~Recorded(s)'
    BY <1>10 DEF BeginDir, Goto, recVars, capVars, diskVars, bus, bounds, Types, Stages,
                 Stage, Recorded, Early
  <2> QED BY <2>1 DEF OnDisk, Undisturbed
<1>11. CASE BeginFiles(s)
  <2> DEFINE i == Inode(uuid[s], s, raw)
  <2>1. /\ uuid[s] \in UUIDs /\ i \in Sessions /\ i # None /\ counted[s].caller = 0
        /\ counted[s].agent = 0 /\ UNCHANGED <<dirs, uuid, counted>>
    BY <1>11, InodeIs DEF BeginFiles, Stages, Stage, Types, Early
  <2>2. CASE pc' = [pc EXCEPT ![s] = "announce"]
    <3>1. ~Recorded(s)'
      BY <2>2, <1>11 DEF BeginFiles, bus, Recorded, Stages, Stage, Types, Early
    <3> QED BY <3>1 DEF OnDisk, Undisturbed
  <2>3. CASE pc' = [pc EXCEPT ![s] = "files"]
    <3>1. /\ uuid[s] \in dirs /\ raw' = [raw EXCEPT ![uuid[s]] = i]
          /\ handle' = [handle EXCEPT ![s] = i]
          /\ track' = [track EXCEPT ![i] = [caller |-> <<>>, agent |-> <<>>]]
      BY <2>3, <1>11 DEF BeginFiles, Goto, Types
    <3> HIDE DEF i
    <3>2. /\ raw'[uuid[s]] = i /\ handle'[s] = i
          /\ track'[i] = [caller |-> <<>>, agent |-> <<>>]
      BY <2>1, <3>1 DEF Types
    <3>3. AllOf(<<>>, s, 0)
      BY DEF AllOf
    <3>4. pc'[s] = "files"
      BY <2>3 DEF Types
    <3>5. /\ track'[raw'[uuid[s]]].caller = <<>> /\ track'[raw'[uuid[s]]].agent = <<>>
          /\ raw'[uuid'[s]] # None /\ handle'[s] = raw'[uuid'[s]] /\ uuid'[s] \in dirs'
      BY <2>1, <3>1, <3>2
    <3> QED BY <2>1, <3>3, <3>4, <3>5 DEF OnDisk, Late
  <2> QED BY <2>2, <2>3, <1>11 DEF BeginFiles, Goto
<1>12. CASE BeginEvents(s)
  <2>1. LeavesDisk(s)
    BY <1>12 DEF BeginEvents, Goto, Bus!Subscribe, Inode, recVars, capVars, diskVars, bus,
                 bounds, Types, Stages, Stage, Recorded, Early, Late, LeavesDisk
  <2> QED BY <2>1, DiskQuiet
<1>13. CASE Start(s)
  <2>1. LeavesDisk(s)
    BY <1>13 DEF Start, Goto, Announce, Bus!Publish, Bus!HasRoomFor, recVars, capVars,
                 diskVars, bus, bounds, Types, Stages, Stage, Recorded, Early, Late,
                 LeavesDisk
  <2> QED BY <2>1, DiskQuiet
<1>14. CASE Uplink(s)
  <2> DEFINE h == handle[s]
           n == counted[s].caller
           q == WriteAt(track[h].caller, n, s)
  <2>1. /\ UNCHANGED <<pc, uuid, handle, dirs, raw, wav, meta, spoiled, subs, shut, failed>>
        /\ pc[s] = "reading" /\ s \in rec /\ Stage(s)
    BY <1>14 DEF Uplink, bus, Stages
  <2>2. h # None /\ h \in Sessions /\ n \in Nat /\ track[h].caller \in Seq(Inodes)
    BY <2>1 DEF Stage, Types, Inodes
  <2>3. /\ track' = [track EXCEPT ![h].caller = q]
        /\ counted' = [counted EXCEPT ![s].caller = n + 1]
    BY <1>14 DEF Uplink
  <2>4. AllOf(track[h].caller, s, n) => AllOf(q, s, n + 1)
    BY <2>2, WriteAtIs
  <2>5. track'[h] = [caller |-> q, agent |-> track[h].agent]
    <3>1. q \in Seq(Inodes)
      BY <2>2, WriteAtIs
    <3> HIDE DEF q, h
    <3>2. track \in [Sessions -> [caller : Seq(Inodes), agent : Seq(Inodes)]]
      BY DEF Types
    <3> QED BY <2>2, <2>3, <3>2
  <2>6. counted'[s] = [caller |-> n + 1, agent |-> counted[s].agent]
    BY <2>3 DEF Types
  <2>7. ASSUME Undisturbed(s)'
        PROVE  /\ Undisturbed(s) /\ uuid[s] \in dirs /\ h = raw[uuid[s]]
               /\ AllOf(track[h].caller, s, n) /\ AllOf(track[h].agent, s, counted[s].agent)
    BY <2>1, <2>2, <2>7 DEF OnDisk, Undisturbed, Recorded, Late
  <2> HIDE DEF h, n, q
  <2> QED BY <2>1, <2>2, <2>4, <2>5, <2>6, <2>7 DEF OnDisk, Late, h
<1>15. CASE DownlinkLoad(s)
  <2>1. LeavesDisk(s)
    BY <1>15 DEF DownlinkLoad, recVars, capVars, diskVars, bus, bounds, Types, Stages,
                 Stage, Recorded, Early, Late, LeavesDisk
  <2> QED BY <2>1, DiskQuiet
<1>16. CASE DownlinkWrite(s)
  <2> DEFINE h == handle[s]
           n == counted[s].agent
           q == WriteAt(track[h].agent, n, s)
  <2>1. /\ UNCHANGED <<pc, uuid, handle, dirs, raw, wav, meta, spoiled, subs, shut, failed>>
        /\ Stage(s)
    BY <1>16 DEF DownlinkWrite, bus, Stages
  <2>2. CASE UNCHANGED <<track, counted>>
    BY <2>1, <2>2 DEF OnDisk, Undisturbed, Recorded
  <2>3. CASE /\ h # None
             /\ track' = [track EXCEPT ![h].agent = q]
             /\ counted' = [counted EXCEPT ![s].agent = n + 1]
    <3>1. /\ h \in Sessions /\ n \in Nat /\ track[h].agent \in Seq(Inodes)
          /\ pc[s] \notin Late
      BY <2>1, <2>3 DEF Stage, Types, Inodes, Late
    <3>2. /\ track' = [track EXCEPT ![h].agent = q]
          /\ counted' = [counted EXCEPT ![s].agent = n + 1]
      BY <2>3
    <3>3. AllOf(track[h].agent, s, n) => AllOf(q, s, n + 1)
      BY <3>1, WriteAtIs
    <3>4. track'[h] = [caller |-> track[h].caller, agent |-> q]
      <4>1. q \in Seq(Inodes)
        BY <3>1, WriteAtIs
      <4> HIDE DEF q, h
      <4>2. track \in [Sessions -> [caller : Seq(Inodes), agent : Seq(Inodes)]]
        BY DEF Types
      <4> QED BY <3>1, <3>2, <4>2
    <3>5. counted'[s] = [caller |-> counted[s].caller, agent |-> n + 1]
      BY <3>2 DEF Types
    <3>6. ASSUME Undisturbed(s)'
          PROVE  /\ Undisturbed(s) /\ uuid[s] \in dirs /\ h = raw[uuid[s]]
                 /\ AllOf(track[h].agent, s, n)
                 /\ AllOf(track[h].caller, s, counted[s].caller)
      BY <2>1, <2>3, <3>1, <3>6 DEF OnDisk, Undisturbed, Recorded
    <3> HIDE DEF h, n, q
    <3> QED BY <2>1, <2>3, <3>1, <3>3, <3>4, <3>5, <3>6 DEF OnDisk, Late, h
  <2> QED BY <2>2, <2>3, <1>16 DEF DownlinkWrite
<1>17. CASE CaptureEvent(s)
  <2>1. LeavesDisk(s)
    BY <1>17 DEF CaptureEvent, Bus!Receive, recVars, capVars, diskVars, bus, bounds, Types,
                 Stages, Stage, Recorded, Early, Late, LeavesDisk
  <2> QED BY <2>1, DiskQuiet
<1>18. CASE CaptureExit(s)
  <2>1. LeavesDisk(s)
    BY <1>18 DEF CaptureExit, Bus!RangeEnds, recVars, capVars, diskVars, bus, bounds,
                 Types, Stages, Stage, Recorded, Early, Late, LeavesDisk
  <2> QED BY <2>1, DiskQuiet
<1>19. CASE EndRead(s)
  <2>1. LeavesDisk(s)
    BY <1>19 DEF EndRead, Goto, recVars, capVars, diskVars, bus, bounds, Types, Stages,
                 Stage, Recorded, Early, Late, LeavesDisk
  <2> QED BY <2>1, DiskQuiet
<1>20. CASE Deregister(s)
  <2>1. LeavesDisk(s)
    BY <1>20 DEF Deregister, Goto, recVars, capVars, diskVars, bus, bounds, Types, Stages,
                 Stage, Recorded, Early, Late, LeavesDisk
  <2> QED BY <2>1, DiskQuiet
<1>21. CASE FinishClose(s)
  <2>1. CASE s \notin rec
    <3>1. ~Recorded(s)'
      BY <2>1, <1>21 DEF FinishClose, Goto, bus, Types, Stages, Stage, Recorded, Late
    <3> QED BY <3>1 DEF OnDisk, Undisturbed
  <2>2. CASE s \in rec
    <3>1. /\ UNCHANGED <<dirs, raw, track, wav, meta, uuid, counted, spoiled, failed>>
          /\ handle'[s] = None
          /\ Recorded(s)' => Recorded(s)
          /\ pc'[s] \notin Late /\ pc[s] \notin Late
      BY <2>2, <1>21 DEF FinishClose, Goto, diskVars, bus, Types, Recorded, Late
    <3> QED BY <3>1 DEF OnDisk, Undisturbed, Late
  <2> QED BY <2>1, <2>2
<1>22. CASE FinishUnsub(s)
  <2>1. LeavesDisk(s)
    BY <1>22 DEF FinishUnsub, Goto, Bus!Unsubscribe, recVars, capVars, diskVars, bus,
                 bounds, Types, Stages, Stage, Recorded, Early, Late, LeavesDisk
  <2> QED BY <2>1, DiskQuiet
<1>23. CASE FinishDrained(s)
  <2>1. LeavesDisk(s)
    BY <1>23 DEF FinishDrained, Goto, recVars, capVars, diskVars, bus, bounds, Types,
                 Stages, Stage, Recorded, Early, Late, LeavesDisk
  <2> QED BY <2>1, DiskQuiet
<1>24. CASE FinishWav(s)
  <2> DEFINE u == uuid[s]
           n == counted[s].caller
           m == counted[s].agent
           t == track[raw[u]]
           new(k) == Interleaved(s, t, k)
  <2>1. /\ UNCHANGED <<uuid, counted, handle, dirs, track, meta, spoiled, subs, shut>>
        /\ pc[s] = "wav" /\ pc'[s] = "meta"
    BY <1>24 DEF FinishWav, Goto, recVars, bus, Types
  <2>2. ASSUME Undisturbed(s)'
        PROVE  /\ Undisturbed(s) /\ u \in dirs /\ raw[u] # None
               /\ AllOf(t.caller, s, n) /\ AllOf(t.agent, s, m)
    BY <2>1, <2>2 DEF OnDisk, Undisturbed, Recorded, Late
  <2>3. ASSUME Undisturbed(s)'
        PROVE  /\ u \in UUIDs /\ t.caller \in Seq(Inodes) /\ t.agent \in Seq(Inodes)
               /\ n \in Nat /\ m \in Nat /\ Len(t.caller) = n
    <3>1. u \in UUIDs /\ raw[u] \in Sessions
      BY <2>1, <2>2, <2>3 DEF Stages, Stage, Types, Inodes
    <3>2. t.caller \in Seq(Inodes) /\ t.agent \in Seq(Inodes) /\ n \in Nat /\ m \in Nat
      BY <3>1 DEF Types
    <3> QED BY <2>2, <2>3, <3>1, <3>2 DEF AllOf
  <2>4. ASSUME Undisturbed(s)', NEW k \in 0..n
        PROVE  Holds(new(k), s, k, m)
    <3> HIDE DEF n, m, t
    <3>1. k \in Nat /\ ~(n < k) /\ n \in Nat
      BY <2>3, <2>4
    <3>2. /\ AllOf(UpTo(t.caller, k), s, IF k < n THEN k ELSE n)
          /\ AllOf(UpTo(t.agent, k), s, IF k < m THEN k ELSE m)
      BY <2>2, <2>3, <2>4, <3>1, UpToIs
    <3>3. k = IF k < n THEN k ELSE n
      BY <3>1, <2>4
    <3> QED BY <3>2, <3>3 DEF Holds, Interleaved, UpTo
  <2> HIDE DEF new
  <2>5. ASSUME Undisturbed(s)'
        PROVE  \/ wav' = wav /\ "wav" \in failed'[s]
               \/ \E k \in 0..n : /\ wav' = [wav EXCEPT ![u] = new(k)]
                                  /\ k = n \/ "wav" \in failed'[s]
    <3> HIDE DEF n, t, u
    <3>1. Fails(s, "wav") => "wav" \in failed'[s]
      BY DEF Fails, Failures
    <3>2. n \in Nat /\ ~(Len(t.caller) < n)
      BY <2>3, <2>5
    <3>3. \/ wav' = wav /\ Fails(s, "wav")
          \/ \E k \in 0..n : /\ wav' = [wav EXCEPT ![u] = new(k)]
                             /\ k = n \/ Len(t.caller) < n \/ Fails(s, "wav")
      BY <2>2, <2>5, <1>24 DEF FinishWav, new, n, t, u
    <3> QED BY <3>1, <3>2, <3>3
  <2>6. ASSUME Undisturbed(s)'
        PROVE  /\ "wav" \notin failed'[s] => Holds(wav'[u], s, n, m)
               /\ wav'[u].by = s => \E k \in 0..n : Holds(wav'[u], s, k, m)
    <3>1. wav[u].by # s
      BY <2>1, <2>3, <2>6 DEF FreshWavs, Late
    <3>2. ASSUME NEW k \in 0..n, wav' = [wav EXCEPT ![u] = new(k)]
          PROVE  wav'[u] = new(k) /\ Holds(wav'[u], s, k, m)
      <4>1. wav'[u] = new(k)
        BY <2>3, <2>6, <3>2 DEF Types
      <4> QED BY <2>4, <2>6, <4>1
    <3> HIDE DEF n, m, t, u
    <3> QED BY <2>5, <2>6, <3>1, <3>2
  <2>7. /\ counted'[s].caller = n /\ counted'[s].agent = m /\ uuid'[s] = u /\ dirs' = dirs
        /\ pc'[s] \in Late /\ pc'[s] \notin {"complete", "bye"}
    BY <2>1 DEF Late
  <2> HIDE DEF u, n, m, t
  <2> QED BY <2>2, <2>6, <2>7 DEF OnDisk
<1>25. CASE FinishMeta(s)
  <2>1. /\ UNCHANGED <<uuid, counted, handle, dirs, raw, track, wav, spoiled, subs, shut>>
        /\ pc[s] = "meta" /\ pc'[s] = "complete"
    BY <1>25 DEF FinishMeta, Goto, recVars, bus, Types
  <2>2. "wav" \in failed'[s] <=> "wav" \in failed[s]
    BY <1>25 DEF FinishMeta, Fails, Failures
  <2>3. ASSUME Undisturbed(s)'
        PROVE  Undisturbed(s) /\ uuid[s] \in dirs /\ uuid[s] \in UUIDs
    BY <2>1, <2>3 DEF OnDisk, Undisturbed, Recorded, Stages, Stage, Types
  <2>4. ASSUME Undisturbed(s)', "meta" \notin failed'[s]
        PROVE  meta'[uuid[s]] = s
    <3>1. ~Fails(s, "meta")
      BY <2>4 DEF Fails, Failures
    <3>2. meta' = [meta EXCEPT ![uuid[s]] = s]
      BY <2>3, <2>4, <3>1, <1>25 DEF FinishMeta
    <3> QED BY <2>3, <2>4, <3>2 DEF Types
  <2> QED BY <2>1, <2>2, <2>3, <2>4 DEF OnDisk, Late
<1>26. CASE FinishComplete(s)
  <2>1. LeavesDisk(s)
    BY <1>26 DEF FinishComplete, Goto, Announce, Bus!Publish, Bus!HasRoomFor, recVars,
                 capVars, diskVars, bus, bounds, Types, Stages, Stage, Recorded, Early,
                 Late, LeavesDisk
  <2> QED BY <2>1, DiskQuiet
<1>27. CASE End(s)
  <2>1. ~Recorded(s)'
    BY <1>27 DEF End, Goto, Announce, Bus!Publish, Bus!HasRoomFor, recVars, capVars,
                 diskVars, bus, bounds, Types, Stages, Stage, Recorded, Early
  <2> QED BY <2>1 DEF OnDisk, Undisturbed
<1>28. ASSUME NEW u \in UUIDs, Accept(s, u)
       PROVE  OnDisk(s)'
  <2>1. ~Recorded(s)'
    BY <1>28 DEF Accept, Goto, recVars, capVars, diskVars, bus, bounds, Types, Stages,
                 Stage, Recorded, Early
  <2> QED BY <2>1 DEF OnDisk, Undisturbed
<1> QED
  BY <1>10, <1>11, <1>12, <1>13, <1>14, <1>15, <1>16, <1>17, <1>18, <1>19, <1>20, <1>21,
     <1>22, <1>23, <1>24, <1>25, <1>26, <1>27, <1>28
     DEF SessionStep, ServeStep, CaptureStep

\* Every step keeps what undisturbed recordings have on the disk.
LEMMA DisksKept ==
    ASSUME Types, Failures, Stages, OfOneCall, Alone, FreshWavs, Disks, Next
    PROVE  Disks'
<1>1. ASSUME NEW s \in Sessions, SessionStep(s), NEW t \in Sessions
      PROVE  OnDisk(t)'
  <2>1. CASE t = s
    BY <1>1, <2>1, OnDiskMoves DEF Disks
  <2>2. CASE t # s
    <3>1. StaysPut(t) /\ spoiled \subseteq spoiled' /\ OnDisk(t) /\ failed'[t] = failed[t]
      BY <1>1, <2>2, OthersStay, OthersFail, EnterOrSpoil DEF Disks
    <3>2. Undisturbed(t)' => Undisturbed(t)
      BY <3>1, RecordedStays DEF Undisturbed
    <3>3. Undisturbed(t)' => DiskSame(t)
      BY <1>1, <2>2, <3>2, OthersDisk
    <3> QED BY <3>1, <3>2, <3>3, DiskStays
  <2> QED BY <2>1, <2>2
<1>2. ASSUME NEW u \in UUIDs, Transcript(u) \/ RemoveBundle(u), NEW t \in Sessions
      PROVE  OnDisk(t)'
  <2>1. /\ StaysPut(t) /\ OnDisk(t) /\ failed'[t] = failed[t]
        /\ spoiled \subseteq spoiled' /\ (Recorded(t)' <=> Recorded(t))
    BY <1>2, AllStay, RecordedStays, OutsideFailsNothing
       DEF OutsideStep, Disks, Transcript, RemoveBundle
  <2>2. Undisturbed(t)' => Undisturbed(t) /\ uuid[t] \in UUIDs
    BY <2>1 DEF Undisturbed, Recorded, Stages, Stage, Types, Early
  <2>3. CASE Transcript(u)
    <3>1. Undisturbed(t)' => DiskSame(t)
      BY <2>3 DEF Transcript, diskVars, DiskSame
    <3> QED BY <2>1, <2>2, <3>1, DiskStays
  <2>4. CASE RemoveBundle(u)
    <3>1. Undisturbed(t)' => uuid[t] # u
      BY <2>2, <2>4, RecordingIs DEF RemoveBundle, Undisturbed
    <3>2. Undisturbed(t)' => DiskSame(t)
      BY <2>2, <2>4, <3>1 DEF RemoveBundle, DiskSame, Types
    <3> QED BY <2>1, <2>2, <3>2, DiskStays
  <2> QED BY <1>2, <2>3, <2>4
<1> QED BY <1>1, <1>2, WhoSteps DEF OutsideStep, Disks

-----------------------------------------------------------------------------
(* What goes through a channel.                                            *)

\* Before the first event there is nothing to find.
LEMMA NothingYet ==
    ASSUME NEW M
    PROVE  Continues(M, <<>>, <<>>, <<>>)
<1> DEFINE f == [i \in 1..0 |-> 1]
           o == <<>>
<1>1. Len(o) = 0 /\ Len(o) <= Len(o) /\ Len(o) - Len(o) = 0
  OBVIOUS
<1>2. f \in [1..0 -> 1..0]
  OBVIOUS
<1> HIDE DEF o, f
<1>3. Finds(f, M, o, o, o)
  BY <1>1 DEF Finds
<1>4. \A i \in 1..Len(o) : o[i] = o[i]
  OBVIOUS
<1>5. f \in [1..(Len(o) - Len(o)) -> 1..Len(o)]
  BY <1>1, <1>2
<1>6. Continues(M, o, o, o)
  BY <1>1, <1>3, <1>4, <1>5 DEF Continues
<1> QED BY <1>6 DEF o

\* With the channel empty, everything kept is written.
LEMMA AllReceived ==
    ASSUME NEW S, NEW M, NEW k \in Seq(S), NEW l \in Seq(S), Continues(M, k, l, <<>>)
    PROVE  k = l
<1>1. Len(k) \in Nat /\ Len(l) \in Nat /\ Len(l) <= Len(k) /\ \A i \in 1..Len(l) : k[i] = l[i]
  BY DEF Continues
<1>2. PICK f \in [1..(Len(k) - Len(l)) -> 1..Len(<<>>)] : TRUE
  BY DEF Continues
<1>3. Len(k) = Len(l)
  <2> SUFFICES ASSUME Len(k) # Len(l)
               PROVE  FALSE
    OBVIOUS
  <2>1. 1 \in 1..(Len(k) - Len(l))
    BY <1>1
  <2>2. f[1] \in 1..0
    BY <1>2, <2>1
  <2> QED BY <2>2
<1> QED BY <1>1, <1>3, SeqEqual

\* An event that enters the channel is kept if it is the call's.
LEMMA PublishContinues ==
    ASSUME NEW S, NEW M, NEW k \in Seq(S), NEW l \in Seq(S), NEW c \in Seq(S), NEW e \in S,
           Continues(M, k, l, c)
    PROVE  Continues(M, IF e \in M THEN Append(k, e) ELSE k, l, Append(c, e))
<1> DEFINE m == Len(k) - Len(l)
           d == Append(c, e)
<1>1. PICK f \in [1..m -> 1..Len(c)] : Finds(f, M, k, l, c)
  BY DEF Continues
<1>2. /\ Len(k) \in Nat /\ Len(l) \in Nat /\ Len(c) \in Nat /\ m \in Nat /\ Len(k) = Len(l) + m
      /\ \A i \in 1..Len(l) : k[i] = l[i]
      /\ Len(d) = Len(c) + 1 /\ d[Len(c) + 1] = e /\ \A i \in 1..Len(c) : d[i] = c[i]
  BY AppendProperties DEF Continues
<1>3. CASE e \in M
  <2> DEFINE j == Append(k, e)
             g == [i \in 1..(m + 1) |-> IF i = m + 1 THEN Len(c) + 1 ELSE f[i]]
  <2>1. /\ Len(j) = Len(k) + 1 /\ j[Len(k) + 1] = e /\ \A i \in 1..Len(k) : j[i] = k[i]
        /\ Len(j) - Len(l) = m + 1
    BY <1>2, AppendProperties
  <2> HIDE DEF m, d, j
  <2>2. \A i \in 1..(m + 1) : i \in 1..m \/ (i = m + 1 /\ i \notin 1..m)
    BY <1>2
  <2>3. /\ \A i \in 1..m : g[i] = f[i] /\ g[i] \in 1..Len(c) /\ Len(l) + i \in 1..Len(k)
        /\ g[m + 1] = Len(c) + 1
    BY <1>1, <1>2
  <2>4. g \in [1..(m + 1) -> 1..Len(d)]
    BY <1>1, <1>2
  <2>5. \A i \in 1..(m + 1) : d[g[i]] = j[Len(l) + i] /\ d[g[i]] \in M
    <3>1. ASSUME NEW i \in 1..m
          PROVE  d[g[i]] = j[Len(l) + i] /\ d[g[i]] \in M
      <4>1. c[f[i]] = k[Len(l) + i] /\ c[f[i]] \in M
        BY <1>1 DEF Finds, m
      <4>2. g[i] = f[i] /\ g[i] \in 1..Len(c) /\ Len(l) + i \in 1..Len(k)
        BY <2>3
      <4>3. d[g[i]] = c[g[i]] /\ j[Len(l) + i] = k[Len(l) + i]
        BY <1>2, <2>1, <4>2
      <4> QED BY <4>1, <4>2, <4>3
    <3>2. d[g[m + 1]] = j[Len(l) + (m + 1)] /\ d[g[m + 1]] \in M
      <4>1. Len(l) + (m + 1) = Len(k) + 1
        BY <1>2
      <4>2. d[g[m + 1]] = e /\ j[Len(l) + (m + 1)] = e
        BY <1>2, <2>1, <2>3, <4>1
      <4> QED BY <1>3, <4>2
    <3> QED BY <2>2, <3>1, <3>2
  <2>6. \A a, b \in 1..(m + 1) : a < b => g[a] < g[b]
    <3>1. \A a, b \in 1..m : a < b => g[a] < g[b]
      BY <1>1, <2>3 DEF Finds, m
    <3>2. \A a \in 1..m : g[a] < g[m + 1]
      <4> HIDE DEF g
      <4>1. \A a \in 1..m : g[a] \in 1..Len(c)
        BY <2>3
      <4> QED BY <1>2, <2>3, <4>1
    <3>3. \A a, b \in 1..(m + 1) : a < b => a \in 1..m
      BY <1>2
    <3> HIDE DEF g
    <3> QED BY <2>2, <3>1, <3>2, <3>3
  <2>7. \A a \in 1..Len(d) : d[a] \in M => \E i \in 1..(m + 1) : g[i] = a
    <3>1. ASSUME NEW a \in 1..Len(c), d[a] \in M
          PROVE  \E i \in 1..(m + 1) : g[i] = a
      <4>1. \E i \in 1..m : f[i] = a
        BY <3>1, <1>1, <1>2 DEF Finds, m
      <4> QED BY <4>1, <2>3, <1>2
    <3>2. m + 1 \in 1..(m + 1) /\ g[m + 1] = Len(c) + 1
      BY <1>2
    <3>3. \A a \in 1..Len(d) : a \in 1..Len(c) \/ a = Len(c) + 1
      BY <1>2
    <3> QED BY <3>1, <3>2, <3>3
  <2>8. Len(l) <= Len(j) /\ \A i \in 1..Len(l) : j[i] = l[i]
    BY <1>2, <2>1
  <2> HIDE DEF g
  <2>9. Finds(g, M, j, l, d)
    BY <2>1, <2>5, <2>6, <2>7 DEF Finds
  <2>10. Continues(M, j, l, d)
    BY <2>1, <2>4, <2>8, <2>9 DEF Continues
  <2> QED BY <1>3, <2>10 DEF j, d
<1>4. CASE e \notin M
  <2> HIDE DEF d
  <2>1. f \in [1..m -> 1..Len(d)]
    BY <1>1, <1>2
  <2>2. Finds(f, M, k, l, d)
    <3>1. \A i \in 1..m : d[f[i]] = c[f[i]]
      BY <1>1, <1>2
    <3>2. \A a \in 1..Len(d) : a \in 1..Len(c) \/ d[a] \notin M
      BY <1>2, <1>4
    <3> QED BY <1>1, <1>2, <3>1, <3>2 DEF Finds
  <2> QED BY <1>2, <1>4, <2>1, <2>2 DEF Continues, d
<1> QED BY <1>3, <1>4

\* An event that leaves the channel is written if it is the call's.
LEMMA ReceiveContinues ==
    ASSUME NEW S, NEW M, NEW k \in Seq(S), NEW l \in Seq(S), NEW c \in Seq(S), c # <<>>,
           Continues(M, k, l, c)
    PROVE  Continues(M, k, IF Head(c) \in M THEN Append(l, Head(c)) ELSE l, Tail(c))
<1> DEFINE m == Len(k) - Len(l)
           d == Tail(c)
<1>1. PICK f \in [1..m -> 1..Len(c)] : Finds(f, M, k, l, c)
  BY DEF Continues
<1>2. /\ Len(k) \in Nat /\ Len(l) \in Nat /\ Len(c) \in Nat \ {0}
      /\ m \in Nat /\ Len(k) = Len(l) + m
      /\ \A i \in 1..Len(l) : k[i] = l[i]
  BY EmptySeq DEF Continues
<1>3. Head(c) = c[1] /\ Len(d) = Len(c) - 1 /\ \A i \in 1..(Len(c) - 1) : d[i] = c[i + 1]
  BY HeadTailProperties
<1>4. CASE c[1] \in M
  <2> DEFINE o == Append(l, c[1])
             g == [i \in 1..(m - 1) |-> f[i + 1] - 1]
  <2>1. PICK i \in 1..m : f[i] = 1
    <3>1. 1 \in 1..Len(c)
      BY <1>2
    <3> QED BY <1>1, <1>4, <3>1 DEF Finds
  <2>2. m >= 1 /\ 1 \in 1..m /\ f[1] = 1
    <3>1. m >= 1 /\ 1 \in 1..m /\ f[1] \in 1..Len(c)
      BY <1>1, <1>2, <2>1, SMTT(60)
    <3>2. i = 1 \/ f[1] < f[i]
      BY <1>1, <3>1 DEF Finds
    <3> QED BY <3>1, <3>2, <2>1
  <2>3. k[Len(l) + 1] = c[1]
    BY <1>1, <2>2 DEF Finds
  <2>4. c[1] \in S
    BY <1>2
  <2>5. /\ Len(o) = Len(l) + 1 /\ o[Len(l) + 1] = c[1] /\ \A n \in 1..Len(l) : o[n] = l[n]
    BY <2>4, AppendProperties
  <2> HIDE DEF m, d, o
  <2>6. Len(k) - Len(o) = m - 1 /\ Len(o) <= Len(k) /\ \A n \in 1..Len(o) : k[n] = o[n]
    BY <1>2, <2>2, <2>3, <2>5
  <2>7. \A n \in 1..(m - 1) : /\ n + 1 \in 1..m /\ 1 < f[n + 1] /\ f[n + 1] \in 1..Len(c)
                             /\ g[n] = f[n + 1] - 1
    <3>1. \A n \in 1..(m - 1) : n + 1 \in 1..m /\ 1 < n + 1
      BY <1>2
    <3>2. \A n \in 1..(m - 1) : f[1] < f[n + 1]
      BY <1>1, <2>2, <3>1 DEF Finds, m
    <3> QED BY <1>1, <2>2, <3>1, <3>2
  <2>8. g \in [1..(m - 1) -> 1..Len(d)] /\ \A n \in 1..(m - 1) : g[n] \in 1..Len(d)
    BY <1>2, <1>3, <2>7
  <2>9. \A n \in 1..(m - 1) : d[g[n]] = k[Len(o) + n] /\ d[g[n]] \in M
    <3>1. \A n \in 1..(m - 1) : d[g[n]] = c[f[n + 1]]
      BY <1>2, <1>3, <2>7
    <3>2. \A n \in 1..(m - 1) : c[f[n + 1]] = k[Len(l) + (n + 1)] /\ c[f[n + 1]] \in M
      BY <1>1, <2>7 DEF Finds, m
    <3>3. \A n \in 1..(m - 1) : Len(l) + (n + 1) = Len(o) + n
      BY <1>2, <2>5
    <3> QED BY <3>1, <3>2, <3>3
  <2>10. \A a, b \in 1..(m - 1) : a < b => g[a] < g[b]
    <3>1. \A a, b \in 1..(m - 1) : a < b => f[a + 1] < f[b + 1]
      BY <1>1, <1>2, <2>7 DEF Finds, m
    <3> QED BY <2>7, <3>1
  <2>11. ASSUME NEW a \in 1..Len(d), d[a] \in M
         PROVE  \E n \in 1..(m - 1) : g[n] = a
    <3>1. a + 1 \in 1..Len(c) /\ c[a + 1] \in M /\ a + 1 # 1
      BY <1>2, <1>3, <2>11
    <3>2. PICK n \in 1..m : f[n] = a + 1
      BY <1>1, <3>1 DEF Finds, m
    <3>3. n # 1 /\ n - 1 \in 1..(m - 1) /\ (n - 1) + 1 = n
      BY <1>2, <2>2, <3>1, <3>2
    <3>4. g[n - 1] = a
      BY <3>2, <3>3, <2>7
    <3> QED BY <3>3, <3>4
  <2> HIDE DEF g
  <2>12. Finds(g, M, k, o, d)
    BY <2>6, <2>9, <2>10, <2>11 DEF Finds
  <2>13. Continues(M, k, o, d)
    BY <2>6, <2>8, <2>12 DEF Continues
  <2> QED BY <1>3, <1>4, <2>13 DEF o, d
<1>5. CASE c[1] \notin M
  <2> DEFINE g == [i \in 1..m |-> f[i] - 1]
  <2> HIDE DEF d
  <2>7. Len(d) = Len(c) - 1 /\ Len(c) \in Nat
    BY <1>2, <1>3
  <2>1. \A i \in 1..m : f[i] \in 2..Len(c) /\ g[i] = f[i] - 1
    <3>1. \A i \in 1..m : f[i] \in 1..Len(c) /\ f[i] # 1
      BY <1>1, <1>5 DEF Finds
    <3> QED BY <1>2, <3>1
  <2>2. g \in [1..m -> 1..Len(d)]
    BY <1>2, <1>3, <2>1
  <2>3. \A i \in 1..m : d[g[i]] = c[f[i]]
    BY <1>2, <1>3, <2>1
  <2>4. \A a, b \in 1..m : a < b => g[a] < g[b]
    <3>1. \A a, b \in 1..m : a < b => f[a] < f[b]
      BY <1>1 DEF Finds
    <3> QED BY <2>1, <3>1
  <2>5. ASSUME NEW a \in 1..Len(d), d[a] \in M
        PROVE  \E i \in 1..m : g[i] = a
    <3>1. a + 1 \in 1..Len(c) /\ c[a + 1] \in M
      <4>1. a \in 1..(Len(c) - 1)
        BY <2>7
      <4>2. d[a] = c[a + 1] /\ a + 1 \in 1..Len(c)
        BY <1>2, <1>3, <4>1
      <4> QED BY <2>5, <4>2
    <3>2. PICK i \in 1..m : f[i] = a + 1
      BY <1>1, <3>1 DEF Finds
    <3> QED BY <2>1, <3>2
  <2> HIDE DEF g
  <2>6. Finds(g, M, k, l, d)
    BY <1>1, <2>3, <2>4, <2>5 DEF Finds
  <2> QED BY <1>2, <1>3, <1>5, <2>2, <2>6 DEF Continues, d
<1> QED BY <1>4, <1>5

\* An event is its call's, for a session, or it is not.
LEMMA OfCallIs ==
    ASSUME NEW t \in Sessions, NEW e \in Event
    PROVE  Mine(t, e) <=> e \in OfCall(t)
BY DEF OfCall

-----------------------------------------------------------------------------
(* What an undisturbed recording has in its events.jsonl.                  *)

\* A step that leaves the channel and the log of t alone.
LEMMA TimelineQuiet ==
    ASSUME NEW t \in Sessions, OnTimeline(t),
           uuid'[t] = uuid[t], evhandle'[t] = evhandle[t],
           kept'[t] = kept[t], chan'[t] = chan[t],
           Undisturbed(t)' /\ capture'[t] # "off" =>
               /\ Undisturbed(t) /\ capture[t] # "off"
               /\ evlog'[evhandle[t]] = evlog[evhandle[t]]
    PROVE  OnTimeline(t)'
<1>1. OfCall(t)' = OfCall(t)
  BY DEF OfCall, Mine
<1> QED BY <1>1 DEF OnTimeline

\* A session that captures has a log.
LEMMA CapturesToALog ==
    ASSUME Types, Stages, NEW t \in Sessions, capture[t] # "off"
    PROVE  /\ evhandle[t] \in Sessions /\ evlog[evhandle[t]] \in Seq(Event)
           /\ kept[t] \in Seq(Event) /\ chan[t] \in Seq(Event)
<1>1. evhandle[t] \in Sessions
  BY DEF Stages, Stage, Types, Inodes
<1> QED BY <1>1 DEF Types

\* What Publish sends to t is what it keeps for it.
LEMMA TimelinePublished ==
    ASSUME Types, Stages, NEW e \in Event, Announce(e),
           NEW t \in Sessions, OnTimeline(t),
           uuid'[t] = uuid[t], capture'[t] = capture[t], evhandle'[t] = evhandle[t],
           evlog' = evlog, Undisturbed(t)' => Undisturbed(t)
    PROVE  OnTimeline(t)'
<1> SUFFICES ASSUME Undisturbed(t)', capture'[t] # "off"
             PROVE  Continues(OfCall(t)', kept'[t], evlog'[evhandle'[t]], chan'[t])
  BY DEF OnTimeline
<1> DEFINE k == kept[t]
           l == evlog[evhandle[t]]
           c == chan[t]
           M == OfCall(t)
<1>1. OfCall(t)' = M
  BY DEF OfCall, Mine
<1>2. k \in Seq(Event) /\ l \in Seq(Event) /\ c \in Seq(Event) /\ Continues(M, k, l, c)
  BY CapturesToALog DEF OnTimeline
<1>3. \/ kept'[t] = k /\ chan'[t] = c
      \/ kept'[t] = (IF e \in M THEN Append(k, e) ELSE k) /\ chan'[t] = Append(c, e)
  BY OfCallIs DEF Announce, Bus!Publish
<1>4. evlog'[evhandle'[t]] = l
  OBVIOUS
<1> HIDE DEF k, l, c, M
<1>5. Continues(M, IF e \in M THEN Append(k, e) ELSE k, l, Append(c, e))
  BY <1>2, PublishContinues
<1> QED BY <1>1, <1>2, <1>3, <1>4, <1>5

\* The events serveWS publishes name their call.
LEMMA Announces ==
    ASSUME Types, Stages, NEW s \in Sessions, Start(s) \/ FinishComplete(s) \/ End(s)
    PROVE  \E e \in Event : Announce(e)
<1>1. uuid[s] \in UUIDs
  BY DEF Start, FinishComplete, End, Stages, Stage, Types
<1>2. \A n \in Names : Ev(n, s) \in Event
  BY <1>1 DEF Ev, Event, Inodes
<1>3. \E n \in Names : Announce(Ev(n, s))
  BY DEF Start, FinishComplete, End, Names
<1> QED BY <1>2, <1>3

\* No session writes into the log of an undisturbed one.
LEMMA OthersLog ==
    ASSUME Types, Stages, OfOneCall, Alone,
           NEW s \in Sessions, SessionStep(s),
           NEW t \in Sessions \ {s}, Undisturbed(t), capture[t] # "off"
    PROVE  evlog'[evhandle[t]] = evlog[evhandle[t]]
<1>1. /\ evhandle[t] \in Sessions /\ uuid[evhandle[t]] = uuid[t]
      /\ Recorded(s) => uuid[s] # uuid[t]
  BY CapturesToALog, OtherCall, NoneAssumption DEF OfOneCall
<1>2. CASE BeginEvents(s)
  <2> DEFINE i == Inode(uuid[s], s, evfile)
  <2>1. uuid[s] \in UUIDs /\ Recorded(s)
    BY <1>2 DEF BeginEvents, Stages, Stage, Types, Recorded, Early
  <2>2. i \in Sessions /\ uuid[i] = uuid[s]
    BY <2>1, InodeIs DEF Inode, OfOneCall
  <2>3. evlog' = evlog \/ evlog' = [evlog EXCEPT ![i] = <<>>]
    BY <1>2 DEF BeginEvents
  <2>4. i # evhandle[t]
    BY <1>1, <2>1, <2>2
  <2> HIDE DEF i
  <2> QED BY <1>1, <2>3, <2>4 DEF Types
<1>3. CASE CaptureEvent(s)
  <2>1. Recorded(s) /\ evhandle[s] # None
    BY <1>3 DEF CaptureEvent, Stages, Stage, Recorded, Late
  <2>2. uuid[evhandle[s]] = uuid[s]
    BY <2>1 DEF OfOneCall
  <2>3. evhandle[s] # evhandle[t]
    BY <1>1, <2>1, <2>2
  <2>4. evlog' = evlog \/ evlog' = [evlog EXCEPT ![evhandle[s]] =
                                       Append(evlog[evhandle[s]], Head(chan[s]))]
    BY <1>3 DEF CaptureEvent
  <2> QED BY <1>1, <2>3, <2>4 DEF Types
<1>4. CASE ~(BeginEvents(s) \/ CaptureEvent(s))
  <2>1. evlog' = evlog
    BY <1>4 DEF SessionStep, ServeStep, CaptureStep, BeginDir, BeginFiles, Start, Uplink,
                DownlinkLoad, DownlinkWrite, CaptureExit, EndRead, Deregister, FinishClose,
                FinishUnsub, FinishDrained, FinishWav, FinishMeta, FinishComplete, End,
                Accept,
                diskVars
  <2> QED BY <2>1
<1> QED BY <1>2, <1>3, <1>4

\* Nor does it change its channel, unless it publishes.
LEMMA OthersChannel ==
    ASSUME NEW s \in Sessions, SessionStep(s), Types,
           NEW t \in Sessions \ {s}
    PROVE  \/ chan'[t] = chan[t] /\ kept'[t] = kept[t]
           \/ (Start(s) \/ FinishComplete(s) \/ End(s)) /\ evlog' = evlog
<1>1. CASE Start(s) \/ FinishComplete(s) \/ End(s)
  BY <1>1 DEF Start, FinishComplete, End, diskVars
<1>2. CASE CaptureEvent(s)
  BY <1>2 DEF CaptureEvent, Bus!Receive, Types
<1>3. CASE ~(Start(s) \/ FinishComplete(s) \/ End(s) \/ CaptureEvent(s))
  <2>1. UNCHANGED <<chan, kept>>
    BY <1>3
       DEF SessionStep, ServeStep, CaptureStep, BeginDir, BeginFiles, BeginEvents, Uplink,
                DownlinkLoad, DownlinkWrite, CaptureExit, EndRead, Deregister, FinishClose,
                FinishUnsub, FinishDrained, FinishWav, FinishMeta, Accept, bus,
                Bus!Subscribe, Bus!Unsubscribe
  <2> QED BY <2>1
<1> QED BY <1>1, <1>2, <1>3

\* Each step of a session keeps what it has in its log.
LEMMA OnTimelineMoves ==
    ASSUME Types, Stages,
           NEW s \in Sessions, SessionStep(s), OnTimeline(s)
    PROVE  OnTimeline(s)'
<1>1. CASE BeginDir(s) \/ BeginFiles(s) \/ \E u \in UUIDs : Accept(s, u)
  <2>1. capture'[s] = "off"
    BY <1>1 DEF BeginDir, BeginFiles, Accept, capVars, Stages, Stage, Early
  <2> QED BY <2>1 DEF OnTimeline
<1>2. CASE BeginEvents(s)
  <2> DEFINE i == Inode(uuid[s], s, evfile)
  <2>1. /\ uuid[s] \in UUIDs /\ kept'[s] = <<>> /\ chan'[s] = <<>> /\ capture[s] = "off"
    BY <1>2 DEF BeginEvents, Bus!Subscribe, Stages, Stage, Types, Early
  <2>2. \/ capture' = capture
        \/ evlog' = [evlog EXCEPT ![i] = <<>>] /\ evhandle' = [evhandle EXCEPT ![s] = i]
    BY <1>2 DEF BeginEvents, capVars
  <2>3. i \in Sessions
    BY <2>1, InodeIs
  <2> HIDE DEF i
  <2>4. capture'[s] # "off" => evlog'[evhandle'[s]] = <<>>
    BY <2>1, <2>2, <2>3 DEF Types
  <2> QED BY <2>1, <2>4, NothingYet DEF OnTimeline
<1>3. CASE CaptureEvent(s)
  <2> DEFINE k == kept[s]
             l == evlog[evhandle[s]]
             c == chan[s]
             M == OfCall(s)
  <2>1. /\ capture[s] = "run" /\ c # <<>> /\ chan' = [chan EXCEPT ![s] = Tail(c)]
        /\ UNCHANGED <<pc, uuid, capture, evhandle, spoiled, kept, subs, shut>>
    BY <1>3 DEF CaptureEvent, Bus!Receive, capVars
  <2>2. /\ evhandle[s] \in Sessions
        /\ k \in Seq(Event) /\ l \in Seq(Event) /\ c \in Seq(Event)
    BY <2>1, CapturesToALog
  <2>3. Head(c) \in Event
    BY <2>1, <2>2, HeadTailProperties
  <2>4. evlog' = IF Head(c) \in M THEN [evlog EXCEPT ![evhandle[s]] = Append(l, Head(c))]
                 ELSE evlog
    BY <1>3, <2>3, OfCallIs DEF CaptureEvent
  <2>5. chan'[s] = Tail(c) /\ M' = M
    BY <2>1 DEF Types, OfCall, Mine
  <2> HIDE DEF M, c, k
  <2>6. evlog'[evhandle[s]] = IF Head(c) \in M THEN Append(l, Head(c)) ELSE l
    BY <2>2, <2>4 DEF Types
  <2> HIDE DEF l
  <2>7. Continues(M, k, l, c) =>
            Continues(M, k, IF Head(c) \in M THEN Append(l, Head(c)) ELSE l, Tail(c))
    BY <2>1, <2>2, ReceiveContinues
  <2>8. Undisturbed(s)' => Undisturbed(s)
    BY <2>1 DEF Undisturbed, Recorded
  <2> QED BY <2>1, <2>5, <2>6, <2>7, <2>8 DEF OnTimeline, k, l, c, M
<1>4. CASE Start(s) \/ FinishComplete(s) \/ End(s)
  <2>1. /\ UNCHANGED <<uuid, capture, evhandle, evlog, spoiled, subs, shut>>
        /\ Recorded(s)' => Recorded(s)
    BY <1>4 DEF Start, FinishComplete, End, Goto, Announce, Bus!Publish, capVars, diskVars,
                Recorded, Types
  <2> QED BY <1>4, <2>1, Announces, TimelinePublished DEF Undisturbed
<1>5. CASE \/ Uplink(s) \/ DownlinkLoad(s) \/ DownlinkWrite(s) \/ CaptureExit(s) \/ EndRead(s)
           \/ Deregister(s) \/ FinishClose(s) \/ FinishUnsub(s) \/ FinishDrained(s)
           \/ FinishWav(s) \/ FinishMeta(s)
  <2>1. /\ UNCHANGED <<uuid, evhandle, evlog, kept, chan, spoiled>>
        /\ capture[s] = "off" => capture'[s] = "off"
    BY <1>5 DEF Uplink, DownlinkLoad, DownlinkWrite, CaptureExit, EndRead, Deregister,
                FinishClose, FinishUnsub, FinishDrained, FinishWav, FinishMeta, capVars,
                diskVars, bus, Bus!Unsubscribe
  <2>2. ~BeginFiles(s)
    BY <1>5 DEF BeginFiles, Uplink, DownlinkLoad, DownlinkWrite, CaptureExit, EndRead,
                Deregister, FinishClose, FinishUnsub, FinishDrained, FinishWav, FinishMeta,
                Stages, Stage, Early, Late, Goto, Types
  <2>3. Undisturbed(s)' => Undisturbed(s)
    BY <2>2, EnterOrSpoil DEF EntersNone, Undisturbed
  <2> QED BY <2>1, <2>3, TimelineQuiet
<1> QED BY <1>1, <1>2, <1>3, <1>4, <1>5 DEF SessionStep, ServeStep, CaptureStep

\* Every step keeps what undisturbed recordings have in their logs.
LEMMA TimelinesKept ==
    ASSUME Types, Stages, OfOneCall, Alone, Timelines, Next
    PROVE  Timelines'
<1>1. ASSUME NEW s \in Sessions, SessionStep(s), NEW t \in Sessions
      PROVE  OnTimeline(t)'
  <2>1. CASE t = s
    BY <1>1, <2>1, OnTimelineMoves DEF Timelines
  <2>2. CASE t # s
    <3>1. StaysPut(t) /\ spoiled \subseteq spoiled' /\ OnTimeline(t)
      BY <1>1, <2>2, OthersStay, EnterOrSpoil DEF Timelines
    <3>2. Undisturbed(t)' => Undisturbed(t)
      BY <3>1, RecordedStays DEF Undisturbed
    <3>3. uuid'[t] = uuid[t] /\ evhandle'[t] = evhandle[t] /\ capture'[t] = capture[t]
      BY <3>1 DEF StaysPut
    <3>4. CASE chan'[t] = chan[t] /\ kept'[t] = kept[t]
      <4>1. Undisturbed(t)' /\ capture'[t] # "off" => evlog'[evhandle[t]] = evlog[evhandle[t]]
        BY <1>1, <2>2, <3>2, <3>3, OthersLog
      <4> QED BY <3>1, <3>2, <3>3, <3>4, <4>1, TimelineQuiet
    <3>5. CASE (Start(s) \/ FinishComplete(s) \/ End(s)) /\ evlog' = evlog
      BY <3>1, <3>2, <3>3, <3>5, Announces, TimelinePublished
    <3> QED BY <1>1, <2>2, <3>4, <3>5, OthersChannel
  <2> QED BY <2>1, <2>2
<1>2. ASSUME NEW u \in UUIDs, Transcript(u) \/ RemoveBundle(u), NEW t \in Sessions
      PROVE  OnTimeline(t)'
  <2>1. StaysPut(t) /\ OnTimeline(t) /\ spoiled \subseteq spoiled' /\ (Recorded(t)' <=> Recorded(t))
    BY <1>2, AllStay, RecordedStays DEF OutsideStep, Timelines, Transcript, RemoveBundle
  <2>2. /\ Undisturbed(t)' => Undisturbed(t)
        /\ uuid'[t] = uuid[t] /\ evhandle'[t] = evhandle[t] /\ capture'[t] = capture[t]
        /\ evlog' = evlog
    BY <1>2, <2>1 DEF Undisturbed, StaysPut, Transcript, RemoveBundle, diskVars
  <2>3. CASE Transcript(u)
    <3>1. \E e \in Event : Announce(e)
      <4>1. [name |-> "transcript", uuid |-> u, session |-> None] \in Event
        BY DEF Event, Names, Inodes
      <4> QED BY <2>3, <4>1 DEF Transcript
    <3> QED BY <2>1, <2>2, <3>1, TimelinePublished
  <2>4. CASE RemoveBundle(u)
    <3>1. kept'[t] = kept[t] /\ chan'[t] = chan[t]
      BY <2>4 DEF RemoveBundle, bus
    <3> QED BY <2>1, <2>2, <3>1, TimelineQuiet
  <2> QED BY <1>2, <2>3, <2>4
<1> QED BY <1>1, <1>2, WhoSteps DEF OutsideStep, Timelines

-----------------------------------------------------------------------------
(* The theorems.                                                           *)

\* The invariant holds initially.
LEMMA InvInit == Init => Inv
<1> SUFFICES ASSUME Init
             PROVE  Inv
  OBVIOUS
<1>1. Stages
  BY DEF Init, Bus!BusInit, Stages, Stage, Early, Late
<1>2. OfOneCall
  BY DEF Init, OfOneCall
<1>3. \A s \in Sessions : ~Recorded(s) /\ capture[s] = "off"
  BY DEF Init, Bus!BusInit, Recorded
<1>4. FreshWavs /\ Failures
  BY NoneAssumption DEF Init, FreshWavs, NoWav, Failures
<1> QED BY <1>1, <1>2, <1>3, <1>4, TypesInit DEF Inv, Alone, Disks, OnDisk, Timelines, OnTimeline,
                                           Undisturbed

\* The invariant speaks of the variables of the specification only.
LEMMA InvStutters ==
    ASSUME Inv, UNCHANGED vars
    PROVE  Inv'
<1> USE DEF vars, capVars, recVars, diskVars, bus, bounds
<1>1. Types'
  BY DEF Inv, Types
<1>2. Stages'
  BY DEF Inv, Stages, Stage
<1>3. OfOneCall'
  BY DEF Inv, OfOneCall
<1>4. Alone'
  BY DEF Inv, Alone, Undisturbed, Recorded
<1>5. Disks'
  BY DEF Inv, Disks, OnDisk, Undisturbed, Recorded
<1>6. Timelines'
  BY DEF Inv, Timelines, OnTimeline, OfCall, Mine, Undisturbed, Recorded
<1>7. FreshWavs' /\ Failures'
  BY DEF Inv, FreshWavs, Failures
<1> QED BY <1>1, <1>2, <1>3, <1>4, <1>5, <1>6, <1>7 DEF Inv

\* Every step keeps the invariant.
LEMMA InvKept ==
    ASSUME Inv, [Next]_vars
    PROVE  Inv'
<1>1. CASE Next
  <2>1. Failures'
    BY <1>1, WhoSteps, OthersFail, OutsideFailsNothing DEF Inv, Failures
  <2> QED BY <1>1, <2>1, TypesKept, StagesKept, OneCallKept, AloneKept, FreshWavsKept,
             DisksKept, TimelinesKept DEF Inv
<1>2. CASE UNCHANGED vars
  BY <1>2, InvStutters
<1> QED BY <1>1, <1>2

\* The invariant the others rest on.
THEOREM CallsKeepInv == Spec => []Inv
BY InvInit, InvKept, PTL DEF Spec

\* EventBus.Publish sends under the mutex unsubscribe takes to leave the map and
\* close the channel: however calls begin and end, it sends on no closed one.
THEOREM NeverPanics == Spec => []NeverSendsOnClosed
<1>1. Inv => NeverSendsOnClosed
  BY DEF Inv, Types, Stages, Stage, NeverSendsOnClosed, Bus!NoSendOnClosed
<1> QED BY <1>1, CallsKeepInv, PTL

\* When recording.complete tells of a bundle that nothing disturbed, audio.wav and
\* meta.json are those of the session, whole, unless writing them failed, which the event
\* does not tell; an audio.wav that is the session's own holds a beginning of its tracks
\* even then. For any number of sessions and calls, and whatever writes fail.
THEOREM BundlesAreWhole == Spec => []UndisturbedBundleIsWhole
<1>1. ASSUME NEW s \in Sessions, NEW w, NEW n \in Nat, NEW k \in 0..n, NEW m \in Nat,
             Holds(w, s, k, m)
      PROVE  /\ Len(w.caller) = k /\ Len(w.agent) = IF k < m THEN k ELSE m
             /\ Own(w.caller, s, n) /\ Own(w.agent, s, IF n < m THEN n ELSE m)
  BY <1>1 DEF Holds, AllOf, Own
<1>2. ASSUME Inv, NEW s \in Sessions, pc[s] = "bye", s \in shut, s \notin spoiled
      PROVE  LET w == wav[uuid[s]]
                 n == counted[s].caller
                 m == IF n < counted[s].agent THEN n ELSE counted[s].agent
             IN  /\ "wav" \notin failed[s] =>
                        w.by = s /\ Len(w.caller) = n /\ Len(w.agent) = m
                 /\ w.by = s => Own(w.caller, s, n) /\ Own(w.agent, s, m)
                 /\ "meta" \notin failed[s] => meta[uuid[s]] = s
  <2> DEFINE w == wav[uuid[s]]
             n == counted[s].caller
             m == counted[s].agent
  <2>1. /\ "wav" \notin failed[s] => Holds(w, s, n, m)
        /\ w.by = s => \E k \in 0..n : Holds(w, s, k, m)
        /\ "meta" \notin failed[s] => meta[uuid[s]] = s
    BY <1>2 DEF Inv, Disks, OnDisk, Undisturbed, Recorded, Late
  <2>2. n \in Nat /\ m \in Nat /\ n \in 0..n
    BY <1>2 DEF Inv, Types
  <2> HIDE DEF w, n, m
  <2>3. /\ "wav" \notin failed[s] =>
                w.by = s /\ Len(w.caller) = n /\ Len(w.agent) = IF n < m THEN n ELSE m
        /\ w.by = s => Own(w.caller, s, n) /\ Own(w.agent, s, IF n < m THEN n ELSE m)
    BY <1>1, <2>1, <2>2 DEF Holds
  <2> QED BY <2>1, <2>3 DEF w, n, m
<1>3. Inv => UndisturbedBundleIsWhole
  BY <1>2 DEF UndisturbedBundleIsWhole
<1> QED BY <1>3, CallsKeepInv, PTL

\* Finish waits for captureEvents, which ends when its closed channel is empty: the
\* events.jsonl of an undisturbed recording then holds every event of the call that
\* the bus had room for, in order.
THEOREM TimelinesAreComplete == Spec => []TimelineIsWhatBusAccepted
<1>1. ASSUME Inv, NEW s \in Sessions, s \in shut, s \notin spoiled,
             pc[s] \in {"wav", "meta", "complete", "bye"}
      PROVE  evhandle[s] # None /\ evlog[evhandle[s]] = kept[s]
  <2>1. /\ capture[s] = "exited" /\ chan[s] = <<>> /\ evhandle[s] # None
        /\ Types /\ Stages /\ OnTimeline(s) /\ Undisturbed(s)
    BY <1>1 DEF Inv, Stages, Stage, Timelines, Undisturbed, Recorded, Late
  <2>2. /\ kept[s] \in Seq(Event) /\ evlog[evhandle[s]] \in Seq(Event)
        /\ Continues(OfCall(s), kept[s], evlog[evhandle[s]], <<>>)
    BY <2>1, CapturesToALog DEF OnTimeline
  <2> QED BY <2>1, <2>2, AllReceived
<1>2. Inv => TimelineIsWhatBusAccepted
  BY <1>1 DEF TimelineIsWhatBusAccepted
<1> QED BY <1>2, CallsKeepInv, PTL
=============================================================================
