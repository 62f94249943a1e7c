---------------------------- MODULE CallControl ----------------------------
(***************************************************************************)
(* A call in the hands of two others: its agent application                *)
(* (AgentForwarder) and the clients of the control plane (ControlServer).  *)
(* They meet in the session, in FreeSWITCH, where either may hang up, and  *)
(* on the event bus, where the clients learn what happens to the call.     *)
(***************************************************************************)
EXTENDS AgentForwarder, ControlServer

vars == <<afVars, csVars>>

Init == AfInit /\ CsInit

Publish(e) == Bus!Publish(e) /\ UNCHANGED <<clientVars, pusher>>
Quietly(A) == A /\ UNCHANGED csVars
Aside(A) == A /\ UNCHANGED afVars

-----------------------------------------------------------------------------
\* serveWS's goroutine, which tells the bus when the audio starts and ends.
Serve ==
    \/ Accepted /\ Publish("audio.start")
    \/ Announced /\ Publish("audio.end")
    \/ Quietly(Dial \/ WriteStart \/ Forward \/ ReadFails \/ CloseSession)
    \/ Quietly(Unlist \/ WriteStop \/ CloseAgent)

AgentReader ==
    \/ EventPublished /\ Publish("agent")
    \/ Quietly(PlayToCaller \/ KillCall \/ ReadAgentFails)

\* A hangup command ends the call when FreeSWITCH does what it says.
Esl(c) ==
    /\ EslReturns(c) /\ call' \in IF command[c] = "hangup" THEN {call, FALSE} ELSE {call}
    /\ UNCHANGED <<session, listed, serve, frames, joined, link, toAgent, reader, asked>>

Control_(c) ==
    \/ Aside(Execute(c, listed)) \/ Aside(Clear(c))
    \/ Aside(WriteReply(c) \/ ReadCommandFails(c) \/ Leave(c) \/ CloseClient(c))

Pusher(c) == Aside(TakeEvent(c) \/ PushEvent(c) \/ RangeEnds(c))

\* What callers, agents and clients do when they like.
Others ==
    \/ Quietly(Hangup \/ AgentLeaves)
    \/ \E kind \in Kinds : Quietly(ReadFrame(kind))
    \/ \E wish \in Wishes : Quietly(ReadAgent(wish))
    \/ \E c \in Clients : Aside(Connect(c) \/ Disconnect(c))
    \/ \E c \in Clients, cmd \in Commands : Aside(ReadCommand(c, cmd))

Next ==
    \/ Serve \/ AgentReader \/ Others
    \/ \E c \in Clients : Esl(c) \/ Control_(c) \/ Pusher(c)

\* Goroutines run, calls with a timeout return, FreeSWITCH answers a command or its
\* connection is lost (module EslClient), and the module reads its stream, so that a frame
\* or a clear sent to it returns (EverySendReturns of module Session).
Fairness ==
    /\ WF_vars(Serve) /\ WF_vars(AgentReader)
    /\ \A c \in Clients : WF_vars(Esl(c)) /\ WF_vars(Control_(c)) /\ WF_vars(Pusher(c))

Spec == Init /\ [][Next]_vars /\ Fairness

-----------------------------------------------------------------------------
(* Properties.                                                             *)

\* The frames of q that have a form on the agent's connection, in their order (a
\* SelectSeq, as a recursive function over the length of the prefix read so far).
Relayed(q) ==
    LET R[i \in 0..Len(q)] ==
            IF i = 0 THEN <<>>
            ELSE IF q[i] # "plain" THEN Append(R[i - 1], q[i]) ELSE R[i - 1]
    IN  R[Len(q)]

\* The agent hears the call as it was: the start frame first, then every frame the call
\* sent, in order, then stop. What it misses while its connection is up are the text
\* frames that are not JSON, and only they. If the connection fails it hears less, never
\* anything else.
AgentHearsCall ==
    LET over == serve # "forward" \/ frames = <<>>
        done == IF over THEN frames ELSE SubSeq(frames, 1, Len(frames) - 1) IN
    toAgent # <<>> => \E n \in 0..Len(done) :
        LET heard == <<"start">> \o Relayed(SubSeq(done, 1, n)) IN
        /\ toAgent = heard \/ (toAgent = Append(heard, "stop") /\ n = Len(done))
        /\ link = "up" => n = Len(done)
        /\ serve \in {"announce", "done"} /\ link = "up" => toAgent # heard

\* Whoever ends it, the caller, the agent or a client, the call ends for all: serveWS
\* returns, the agent's connection is closed or lost and its reader has returned.
CallEndsForAll ==
    (~call \/ ~session \/ link = "cut") ~>
        (serve = "done" /\ link # "up" /\ reader \in {"none", "done"})

\* Every command is answered once and in order, whatever became of the call meanwhile: a
\* client that is still there lacks at most the reply to the command being executed.
RepliesAnswerCommands ==
    \A c \in Clients :
        /\ \A i \in DOMAIN replies[c] : replies[c][i] = i
        /\ conn[c] = "up" =>
                commands[c] = Len(replies[c]) + (IF control[c] = "read" THEN 0 ELSE 1)

\* A client that stays is answered; when it leaves, its goroutines end and the bus sends
\* it nothing any more.
ClientsAreServed ==
    \A c \in Clients :
        /\ control[c] = "execute" ~> control[c] = "read"
        /\ conn[c] = "gone" ~> (control[c] = "done" /\ pusher[c] = "done" /\ c \notin subs)
=============================================================================
