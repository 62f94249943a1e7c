---------------------------- MODULE ControlServer ----------------------------
(***************************************************************************)
(* The control plane (src/bridge/control.go): for each client a goroutine  *)
(* that reads a command, executes it and writes its reply, and one that    *)
(* pushes the events of its subscription, on the same connection.  A write *)
(* takes five seconds at most, and its failure costs the connection.  The  *)
(* bus is there, as in fsbridge; clients and FreeSWITCH are external.      *)
(***************************************************************************)
EXTENDS Naturals, Sequences

CONSTANTS
    Clients,
    Commands,       \* what they ask: invalid, clear_playback, or a command of FreeSWITCH
    Buf,            \* the buffer of a subscription (256 in the code)
    MaxCommands     \* bound: commands of a client

VARIABLES
    conn,           \* a client's connection: none, up, gone (lost), closed
    control,        \* where its ServeHTTP is
    commands,       \* history: how many commands were read
    command,        \* the one being executed
    replies,        \* history: the commands whose reply was written
    pusher,         \* the events goroutine: none, range, write, done
    subs, chan, shut

clientVars == <<conn, control, commands, command, replies>>
bus == <<subs, chan, shut>>
csVars == <<clientVars, pusher, bus>>

Bus == INSTANCE EventBus WITH Sub <- Clients

Idle == "none"
Local == {"invalid", "clear_playback"}

CsInit ==
    /\ conn = [c \in Clients |-> "none"] /\ control = [c \in Clients |-> "none"]
    /\ commands = [c \in Clients |-> 0] /\ command = [c \in Clients |-> Idle]
    /\ replies = [c \in Clients |-> <<>>]
    /\ pusher = [c \in Clients |-> "none"] /\ Bus!BusInit

Go(c, a, b) == control[c] = a /\ control' = [control EXCEPT ![c] = b]

\* A write to the client: it arrives, or the connection is lost.
Lost(c) == conn' = [conn EXCEPT ![c] = IF @ = "up" THEN "gone" ELSE @]

-----------------------------------------------------------------------------
(* The goroutine of ServeHTTP.                                             *)

\* Accept, Subscribe, go.
Connect(c) ==
    /\ Go(c, "none", "read") /\ conn' = [conn EXCEPT ![c] = "up"]
    /\ Bus!Subscribe(c) /\ pusher' = [pusher EXCEPT ![c] = "range"]
    /\ UNCHANGED <<commands, command, replies>>

ReadCommand(c, cmd) ==
    /\ Go(c, "read", "execute") /\ conn[c] = "up" /\ commands[c] < MaxCommands
    /\ commands' = [commands EXCEPT ![c] = @ + 1] /\ command' = [command EXCEPT ![c] = cmd]
    /\ UNCHANGED <<conn, replies, pusher, bus>>

\* execute: what is not valid, or of a call without a session, is refused here. invalid is
\* bad JSON, an unknown command or one without its arguments.
Execute(c, found) ==
    /\ \/ /\ Go(c, "execute", "reply")
          /\ command[c] = "invalid" \/ (command[c] = "clear_playback" /\ ~found)
       \/ Go(c, "execute", "clear") /\ command[c] = "clear_playback" /\ found
       \/ Go(c, "execute", "esl") /\ command[c] \notin Local
    /\ UNCHANGED <<conn, commands, command, replies, pusher, bus>>

\* ClearPlayback of the session found, which refuses if it has closed meanwhile.
Clear(c) ==
    /\ Go(c, "clear", "reply")
    /\ UNCHANGED <<conn, commands, command, replies, pusher, bus>>

\* API returns: FreeSWITCH answered, or the ESL connection was lost.
EslReturns(c) ==
    /\ Go(c, "esl", "reply")
    /\ UNCHANGED <<conn, commands, command, replies, pusher, bus>>

\* Mutant: bad JSON is not answered.
ReplyToValid(c) ==
    /\ Go(c, "reply", "read") /\ command' = [command EXCEPT ![c] = Idle]
    /\ \/ /\ conn[c] = "up" /\ UNCHANGED conn
          /\ replies' = IF command[c] = "invalid" THEN replies
                        ELSE [replies EXCEPT ![c] = Append(@, commands[c])]
       \/ Lost(c) /\ UNCHANGED replies
    /\ UNCHANGED <<commands, pusher, bus>>

\* writeReply, whose failure nobody looks at.
WriteReply(c) ==
    /\ Go(c, "reply", "read") /\ command' = [command EXCEPT ![c] = Idle]
    /\ \/ /\ conn[c] = "up" /\ UNCHANGED conn
          /\ replies' = [replies EXCEPT ![c] = Append(@, commands[c])]
       \/ Lost(c) /\ UNCHANGED replies
    /\ UNCHANGED <<commands, pusher, bus>>

ReadCommandFails(c) ==
    /\ Go(c, "read", "leave") /\ conn[c] # "up"
    /\ UNCHANGED <<conn, commands, command, replies, pusher, bus>>

\* Mutant: only the connection is closed.
LeaveSubscribed(c) ==
    /\ Go(c, "leave", "cancel") /\ UNCHANGED <<conn, commands, command, replies, pusher, bus>>

\* The deferred calls: unsub; cancel; conn.Close.
Leave(c) ==
    /\ Go(c, "leave", "cancel") /\ Bus!Unsubscribe(c)
    /\ UNCHANGED <<conn, commands, command, replies, pusher>>

CloseClient(c) ==
    /\ Go(c, "cancel", "done") /\ conn' = [conn EXCEPT ![c] = "closed"]
    /\ UNCHANGED <<commands, command, replies, pusher, bus>>

-----------------------------------------------------------------------------
(* The events goroutine.                                                   *)

TakeEvent(c) ==
    /\ pusher[c] = "range" /\ pusher' = [pusher EXCEPT ![c] = "write"]
    /\ Bus!Receive(c) /\ UNCHANGED clientVars

PushEvent(c) ==
    /\ pusher[c] = "write"
    /\ \/ conn[c] = "up" /\ pusher' = [pusher EXCEPT ![c] = "range"] /\ UNCHANGED conn
       \/ Lost(c) /\ pusher' = [pusher EXCEPT ![c] = "done"]
    /\ UNCHANGED <<control, commands, command, replies, bus>>

RangeEnds(c) ==
    /\ pusher[c] = "range" /\ Bus!RangeEnds(c) /\ pusher' = [pusher EXCEPT ![c] = "done"]
    /\ UNCHANGED <<clientVars, bus>>

\* The client leaves, or the connection is lost.
Disconnect(c) ==
    /\ conn[c] = "up" /\ conn' = [conn EXCEPT ![c] = "gone"]
    /\ UNCHANGED <<control, commands, command, replies, pusher, bus>>
=============================================================================
