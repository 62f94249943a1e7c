------------------------------ MODULE Downlink ------------------------------
(***************************************************************************)
(* The agent's audio from the socket to the caller's ear: the receiver     *)
(* (WsReceiver) hands its messages to the callbacks of the module, which   *)
(* feed the playback buffer (PlaybackBuffer), on the event thread; the     *)
(* media thread plays in between.                                          *)
(***************************************************************************)
EXTENDS WsReceiver, PlaybackBuffer

CONSTANT ClearText  \* the text message {"type":"clear"}

vars == <<rxVars, pbVars>>

Init == RxInit /\ PbInit

\* The callback for the message just delivered: audio is buffered, "clear" empties the
\* buffers, another text does nothing to them.
Callback ==
    LET n == Len(delivered')
        m == delivered'[n] IN
    \/ delivered' = delivered /\ UNCHANGED pbVars
    \/ /\ delivered' # delivered /\ m.kind = Binary
       /\ OnBinary([k \in DOMAIN m.bytes |-> <<n, k>>])
    \/ delivered' # delivered /\ m.kind = Text /\ m.bytes = ClearText /\ ClearPlayback
    \/ delivered' # delivered /\ m.kind = Text /\ m.bytes # ClearText /\ UNCHANGED pbVars

EventThread == RxNext /\ Callback
MediaThread == (\E r \in Rates : PlaybackFrame(r)) /\ UNCHANGED rxVars

Next == EventThread \/ MediaThread

Spec == Init /\ [][Next]_vars

-----------------------------------------------------------------------------
(* Properties.                                                             *)

\* Every sample of every audio message is heard, waits, or was lost for a reason the code
\* has: the buffer was full, a clear, another rate. What is heard is heard in the order it
\* was sent and once.
AudioAccountedFor ==
    /\ \A n \in DOMAIN delivered : delivered[n].kind = Binary =>
            \A k \in DOMAIN delivered[n].bytes : <<n, k>> \in Sources(Path) \union lost
    /\ \A i \in 1..(Len(Path) - 1) : Before(Path[i], Path[i + 1])

\* From a clear on, in however many fragments it came, the caller hears nothing that was
\* sent before it: neither what waited nor what was resampled already.
ClearSilences ==
    [][\A i \in DOMAIN heard' \ DOMAIN heard : \A c \in DOMAIN delivered :
            delivered[c] = [kind |-> Text, bytes |-> ClearText] => heard'[i][1] > c]_vars
=============================================================================
