--------------------------- MODULE AgentForwarder ---------------------------
(***************************************************************************)
(* One call relayed to an agent application (src/bridge/agent.go): the     *)
(* goroutine of serveWS dials the agent, forwards what the call says and   *)
(* says stop; another goroutine does what the agent asks.  A write to the  *)
(* agent takes five seconds at most, and its failure costs the connection. *)
(* FreeSWITCH and the agent are external.                                  *)
(***************************************************************************)
EXTENDS Naturals, Sequences

CONSTANTS
    MaxFrames,      \* bound: frames of the call
    MaxAsked        \* bound: messages of the agent

VARIABLES
    call,           \* the call is up in FreeSWITCH, and so is its stream
    session,        \* the session is open
    listed,         \* it is in srv.sessions
    serve,          \* where serveWS is
    frames,         \* history: the frames readPump read
    joined,         \* the agent's connection is in a.mu
    link,           \* the agent's connection: none, up, cut, closed
    toAgent,        \* history: what was written to the agent
    reader,         \* where readFromAgent is: none, read, a message, done
    asked           \* bound: messages read from the agent

afVars == <<call, session, listed, serve, frames, joined, link, toAgent, reader, asked>>

Kinds == {"audio", "text", "plain"}     \* plain: a text frame that is not JSON
Wishes == {"play", "hangup", "event"}   \* play: audio for the caller, or clear

AfInit ==
    /\ call = TRUE /\ session = TRUE /\ listed = FALSE /\ serve = "accepted"
    /\ frames = <<>> /\ joined = FALSE /\ link = "none" /\ toAgent = <<>>
    /\ reader = "none" /\ asked = 0

ServeGo(a, b) == serve = a /\ serve' = b

\* A write to the agent: it arrives, or the connection is lost.
Written(msg) == link = "up" /\ toAgent' = Append(toAgent, msg) /\ UNCHANGED link
WriteFails == link' = "cut" /\ UNCHANGED toAgent

-----------------------------------------------------------------------------
(* serveWS with the forwarder as its handler.                              *)

\* The session is stored, and audio.start is published.
Accepted ==
    /\ ServeGo("accepted", "dial") /\ listed' = TRUE
    /\ UNCHANGED <<call, session, frames, joined, link, toAgent, reader, asked>>

\* OnStart: callInfo, which never fails but waits for its turn on the ESL connection
\* before its two seconds count (module EslClient); then the agent is dialled.
Dial ==
    /\ \/ ServeGo("dial", "start") /\ link' = "up" /\ joined' = TRUE /\ UNCHANGED session
       \/ ServeGo("dial", "read") /\ session' = FALSE /\ UNCHANGED <<link, joined>>
    /\ UNCHANGED <<call, listed, frames, toAgent, reader, asked>>

\* Mutant: frames are forwarded and the agent read without a start frame.
SkipStart ==
    /\ ServeGo("start", "read") /\ reader' = "read"
    /\ UNCHANGED <<call, session, listed, frames, joined, link, toAgent, asked>>

\* The start frame; without it the agent's connection is given up.
WriteStart ==
    /\ ServeGo("start", "read")
    /\ \/ Written("start") /\ reader' = "read" /\ UNCHANGED <<session, joined>>
       \/ link' = "closed" /\ joined' = FALSE /\ session' = FALSE /\ UNCHANGED <<toAgent, reader>>
    /\ UNCHANGED <<call, listed, frames, asked>>

\* readPump reads a frame, perhaps one that was under way when the call ended.
ReadFrame(kind) ==
    /\ ServeGo("read", "forward") /\ session /\ Len(frames) < MaxFrames
    /\ frames' = Append(frames, kind)
    /\ UNCHANGED <<call, session, listed, joined, link, toAgent, reader, asked>>

\* OnAudio, OnText. The metadata frame that would carry a text that is not JSON cannot
\* be marshalled: OnText ignores the error, nothing is written and the link stays up.
Forward ==
    /\ ServeGo("forward", "read")
    /\ LET frame == frames[Len(frames)] IN
        \/ frame = "plain" /\ UNCHANGED <<link, toAgent, session>>
        \/ frame # "plain" /\ Written(frame) /\ UNCHANGED session
        \/ frame # "plain" /\ WriteFails /\ session' = (session /\ frame = "text")
    /\ UNCHANGED <<call, listed, frames, joined, reader, asked>>

\* readPump returns.
ReadFails ==
    /\ ServeGo("read", "close") /\ (~session \/ ~call)
    /\ UNCHANGED <<call, session, listed, frames, joined, link, toAgent, reader, asked>>

CloseSession ==
    /\ ServeGo("close", "unlist") /\ session' = FALSE
    /\ UNCHANGED <<call, listed, frames, joined, link, toAgent, reader, asked>>

Unlist ==
    /\ ServeGo("unlist", "end") /\ listed' = FALSE
    /\ UNCHANGED <<call, session, frames, joined, link, toAgent, reader, asked>>

\* OnEnd: the stop frame, if it can be written ...
WriteStop ==
    /\ \/ ServeGo("end", "announce") /\ ~joined /\ UNCHANGED <<link, toAgent>>
       \/ ServeGo("end", "hangup") /\ joined /\ (Written("stop") \/ WriteFails)
    /\ joined' = FALSE
    /\ UNCHANGED <<call, session, listed, frames, reader, asked>>

\* Mutant: OnEnd leaves the connection to the agent.
LeaveAgent ==
    /\ ServeGo("hangup", "announce")
    /\ UNCHANGED <<call, session, listed, frames, joined, link, toAgent, reader, asked>>

\* ... and the connection is closed.
CloseAgent ==
    /\ ServeGo("hangup", "announce") /\ link' = "closed"
    /\ UNCHANGED <<call, session, listed, frames, joined, toAgent, reader, asked>>

\* audio.end is published.
Announced ==
    /\ ServeGo("announce", "done")
    /\ UNCHANGED <<call, session, listed, frames, joined, link, toAgent, reader, asked>>

-----------------------------------------------------------------------------
(* readFromAgent.                                                          *)

ReadAgent(wish) ==
    /\ reader = "read" /\ link = "up" /\ asked < MaxAsked
    /\ reader' = wish /\ asked' = asked + 1
    /\ UNCHANGED <<call, session, listed, serve, frames, joined, link, toAgent>>

\* SendAudio or ClearPlayback, refused if the session is closed (module Session).
PlayToCaller ==
    /\ reader = "play" /\ reader' = "read"
    /\ UNCHANGED <<call, session, listed, serve, frames, joined, link, toAgent, asked>>

\* uuid_kill through ESL: its turn on the connection, then ten seconds at most. It may fail.
KillCall ==
    /\ reader = "hangup" /\ reader' = "read"
    /\ call' \in {call, FALSE}
    /\ UNCHANGED <<session, listed, serve, frames, joined, link, toAgent, asked>>

\* The event was published.
EventPublished ==
    /\ reader = "event" /\ reader' = "read"
    /\ UNCHANGED <<call, session, listed, serve, frames, joined, link, toAgent, asked>>

\* conn.Read fails: the session is closed.
ReadAgentFails ==
    /\ reader = "read" /\ link # "up" /\ reader' = "done" /\ session' = FALSE
    /\ UNCHANGED <<call, listed, serve, frames, joined, link, toAgent, asked>>

-----------------------------------------------------------------------------
(* The others.                                                             *)

\* The caller hangs up, or the module's stream is lost.
Hangup ==
    /\ call /\ call' = FALSE
    /\ UNCHANGED <<session, listed, serve, frames, joined, link, toAgent, reader, asked>>

\* The agent closes its connection, or it is lost.
AgentLeaves ==
    /\ link = "up" /\ link' = "cut"
    /\ UNCHANGED <<call, session, listed, serve, frames, joined, toAgent, reader, asked>>
=============================================================================
