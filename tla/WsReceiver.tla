----------------------------- MODULE WsReceiver -----------------------------
(***************************************************************************)
(* What libwsc receives (src/module/libs/libwsc/src/                       *)
(* WebSocketReceiver.cpp): the loop over the frames in the input buffer,   *)
(* the assembly of fragmented messages, decompression and the checks that  *)
(* end the connection.  The peer may send any frame at any time; bytes     *)
(* arrive as TCP delivers them, so a frame may be there with only its      *)
(* header, and the first ones come with the answer to the upgrade.         *)
(*                                                                         *)
(* deflate is external: a compressed payload is its bytes, each raised by  *)
(* Deflated, and inflating fails on anything else.                         *)
(***************************************************************************)
EXTENDS Utf8
LOCAL INSTANCE SequencesExt
LOCAL INSTANCE FiniteSetsExt

CONSTANTS
    Frames,         \* the frames a peer may send
    MaxArrivals,    \* bound: frames sent
    UseCompression  \* permessage-deflate was negotiated

ASSUME FramesAssumption ==
    Frames \subseteq [op : Nat, fin : BOOLEAN, z : BOOLEAN, bad : BOOLEAN, long : BOOLEAN,
                      bytes : Seq(Nat), code : Nat]

VARIABLES
    upgraded,
    stream,         \* history: the frames that reached the input buffer
    partial,        \* of the last of them only the header has
    handled,        \* frames taken out of the buffer
    reading,        \* a read callback is due or running
    terminating,    \* rxIsTerminating
    message,        \* message_in_progress, fragmented_opcode, fragmented_message, ...
    validator,      \* utf8Validator
    delivered,      \* history: the messages given to the application
    answers         \* history: pongs and the closing code, as given to the sender

input == <<upgraded, stream, partial>>
assembly == <<message, validator>>
rxVars == <<input, handled, reading, terminating, assembly, delivered, answers>>

Text == 1
Binary == 2
Control == 8..15
NoMessage == [inProgress |-> FALSE, opcode |-> 0, z |-> FALSE, bytes |-> <<>>]

\* A frame: opcode, FIN, RSV1, a header no client may accept (masked, or RSV2 or 3), a
\* length beyond 125, payload. A close frame has its code apart: 0 for none, 1 for half.
Frame(op, fin, bytes) ==
    [op |-> op, fin |-> fin, z |-> FALSE, bad |-> FALSE, long |-> FALSE, bytes |-> bytes,
     code |-> 0]

Deflated == 1000
Deflate(bytes) == [i \in DOMAIN bytes |-> bytes[i] + Deflated]
Inflates(bytes) == \A i \in DOMAIN bytes : bytes[i] >= Deflated
Inflate(bytes) == [i \in DOMAIN bytes |-> bytes[i] - Deflated]

RxInit ==
    /\ upgraded = FALSE /\ stream = <<>> /\ partial = FALSE /\ handled = 0
    /\ reading = FALSE /\ terminating = FALSE
    /\ message = NoMessage /\ validator = Fresh
    /\ delivered = <<>> /\ answers = <<>>

-----------------------------------------------------------------------------
(* Bytes arrive.                                                           *)

\* handleRead finds the end of the answer's headers and nothing after it.
Upgrade ==
    /\ ~upgraded /\ upgraded' = TRUE
    /\ UNCHANGED <<stream, partial, handled, reading, terminating, assembly, delivered, answers>>

\* Mutant: what came with the answer to the upgrade waits for the next read.
ArriveUnread(f, part) ==
    /\ Len(stream) < MaxArrivals /\ ~partial /\ ~terminating
    /\ stream' = Append(stream, f) /\ partial' = part
    /\ upgraded' = TRUE /\ reading' = (reading \/ upgraded)
    /\ UNCHANGED <<handled, terminating, assembly, delivered, answers>>

\* Another frame, or its header. If the connection was not upgraded it came with the
\* answer, and handleRead goes on to onData with what is left in the buffer. Nobody looks
\* at what arrives on a connection that is ending.
Arrive(f, part) ==
    /\ Len(stream) < MaxArrivals /\ ~partial /\ ~terminating
    /\ stream' = Append(stream, f) /\ partial' = part
    /\ upgraded' = TRUE /\ reading' = TRUE
    /\ UNCHANGED <<handled, terminating, assembly, delivered, answers>>

\* The rest of a frame.
ArriveRest ==
    /\ partial /\ partial' = FALSE /\ reading' = TRUE
    /\ UNCHANGED <<upgraded, stream, handled, terminating, assembly, delivered, answers>>

\* stop_requested, set by a thread of the application, perhaps between two frames.
StopRequested ==
    /\ ~terminating /\ terminating' = TRUE
    /\ UNCHANGED <<input, handled, reading, assembly, delivered, answers>>

-----------------------------------------------------------------------------
(* The sinks: what the context does for the receiver.                      *)

Deliver(kind, bytes) ==
    /\ delivered' = Append(delivered, [kind |-> kind, bytes |-> bytes])
    /\ UNCHANGED <<terminating, answers>>

\* onRxProtocolError, or onRxClose: a CLOSE with this code, and reading ends.
EndWith(code) ==
    /\ terminating' = TRUE /\ answers' = Append(answers, <<"close", code>>)
    /\ UNCHANGED delivered

Silently == UNCHANGED <<terminating, delivered, answers>>

-----------------------------------------------------------------------------
(* onData: one frame of its loop.                                          *)

\* The checks made before the payload is there.
HeaderRefused(f) ==
    \/ f.bad \/ (f.z /\ ~UseCompression)
    \/ f.op \in Control /\ (~f.fin \/ f.long)

\* The end of handleContinuationFrame and handleDataFrame: m has another fragment, v0 is
\* the validator before it. After a refusal nothing is read any more.
Assemble(m, v0, f) ==
    LET v == IF m.opcode = Text /\ ~m.z THEN ValidateChunk(v0, f.bytes) ELSE v0
        content == IF m.z THEN Inflate(m.bytes) ELSE m.bytes
        final == IF m.z THEN ValidateChunk(Fresh, content) ELSE v IN
    /\ IF \/ v = Invalid
          \/ f.fin /\ m.z /\ ~Inflates(m.bytes)
          \/ f.fin /\ m.opcode = Text /\ ~ValidateFinal(final)
       THEN EndWith(1007)
       ELSE IF f.fin THEN Deliver(m.opcode, content) ELSE Silently
    /\ message' = IF f.fin THEN NoMessage ELSE m
    /\ validator' = v

\* Mutant: every fragment is validated by itself.
ContinuationAfresh(f) ==
    IF message.inProgress
    THEN Assemble([message EXCEPT !.bytes = @ \o f.bytes], Fresh, f)
    ELSE EndWith(1002) /\ UNCHANGED assembly

\* handleContinuationFrame.
Continuation_(f) ==
    IF message.inProgress
    THEN Assemble([message EXCEPT !.bytes = @ \o f.bytes], validator, f)
    ELSE EndWith(1002) /\ UNCHANGED assembly

\* handleDataFrame: a whole message, or the first fragment of one.
DataFrame(f) ==
    IF message.inProgress THEN EndWith(1002) /\ UNCHANGED assembly
    ELSE Assemble([inProgress |-> TRUE, opcode |-> f.op, z |-> f.z, bytes |-> f.bytes], Fresh, f)

\* handleCloseFrame: the code is sent back if there is one and a client may receive it.
CloseCode(f) ==
    IF f.code = 0 THEN 1000
    ELSE IF /\ f.code \in (1000..1011 \ {1004, 1005, 1006}) \union 3000..4999
            /\ IsValidUtf8(f.bytes)
         THEN f.code ELSE 1002

\* One frame; the header alone is enough to refuse it.
HandleFrame ==
    LET f == stream[handled + 1] IN
    /\ reading /\ ~terminating /\ handled < Len(stream)
    /\ \/ /\ HeaderRefused(f)
          /\ EndWith(1002) /\ UNCHANGED <<handled, assembly>>
       \/ /\ ~HeaderRefused(f) /\ (handled + 1 < Len(stream) \/ ~partial)
          /\ handled' = handled + 1
          /\ \/ f.op = 0 /\ Continuation_(f)
             \/ f.op \in {Text, Binary} /\ DataFrame(f)
             \/ f.op = 8 /\ EndWith(CloseCode(f)) /\ UNCHANGED assembly
             \/ /\ f.op \in {9, 10}
                /\ answers' = IF f.op = 9 THEN Append(answers, <<"pong", f.bytes>>) ELSE answers
                /\ UNCHANGED <<terminating, delivered, assembly>>
             \/ f.op \notin {0, Text, Binary, 8, 9, 10} /\ EndWith(1002) /\ UNCHANGED assembly
    /\ UNCHANGED <<input, reading>>

\* The loop ends: no whole frame is left, or the connection is ending.
StopReading ==
    /\ reading /\ reading' = FALSE
    /\ \/ terminating \/ handled = Len(stream)
       \/ handled + 1 = Len(stream) /\ partial /\ ~HeaderRefused(stream[handled + 1])
    /\ UNCHANGED <<input, handled, terminating, assembly, delivered, answers>>

RxNext ==
    \/ Upgrade \/ ArriveRest \/ StopRequested \/ HandleFrame \/ StopReading
    \/ \E f \in Frames, part \in BOOLEAN : Arrive(f, part)

-----------------------------------------------------------------------------
(* What the protocol says of a sequence of frames, without an automaton.   *)

IsData(f) == f.op \in {0, Text, Binary}
Starts(f) == f.op \in {Text, Binary}

\* Before frame i a message is under way.
UnderWay(s, i) ==
    \E j \in 1..(i - 1) :
        /\ Starts(s[j]) /\ ~s[j].fin
        /\ \A k \in (j + 1)..(i - 1) : ~(s[k].op = 0 /\ s[k].fin)

\* The frame that begins the message of data frame i, and the message's bytes up to i.
First(s, i) == Max({j \in 1..i : Starts(s[j])})
Wire(s, i) ==
    FlattenSeq([k \in 1..i |-> IF k >= First(s, i) /\ IsData(s[k]) THEN s[k].bytes ELSE <<>>])
Compressed(s, i) == s[First(s, i)].z
Content(s, i) == IF Compressed(s, i) THEN Inflate(Wire(s, i)) ELSE Wire(s, i)

Misplaced(s, i) ==
    \/ HeaderRefused(s[i])
    \/ s[i].op \notin {0, Text, Binary, 8, 9, 10}
    \/ s[i].op = 0 /\ ~UnderWay(s, i)
    \/ Starts(s[i]) /\ UnderWay(s, i)

NotText(s, i) ==
    /\ IsData(s[i])
    /\ \/ s[i].fin /\ Compressed(s, i) /\ ~Inflates(Wire(s, i))
       \/ /\ s[First(s, i)].op = Text
          /\ \/ s[i].fin /\ ~WellFormed(Content(s, i))
             \/ ~s[i].fin /\ ~Compressed(s, i) /\ ~Completable(Wire(s, i))

\* The closing code frame i deserves if those before it were accepted, 0 if none.
Verdict(s, i) ==
    IF Misplaced(s, i) THEN 1002
    ELSE IF NotText(s, i) THEN 1007
    ELSE IF s[i].op = 8 THEN CloseCode(s[i]) ELSE 0

\* Frame i completes a message; the messages and the answers the frames ask for, in order.
Completes(s, i) == IsData(s[i]) /\ s[i].fin /\ Verdict(s, i) = 0
Messages(s) ==
    FlattenSeq([i \in DOMAIN s |->
        IF Completes(s, i) THEN <<[kind |-> s[First(s, i)].op, bytes |-> Content(s, i)]>>
        ELSE <<>>])
Pongs(s) ==
    FlattenSeq([i \in DOMAIN s |-> IF s[i].op = 9 THEN <<<<"pong", s[i].bytes>>>> ELSE <<>>])

Taken == SubSeq(stream, 1, handled)
Waits == ~reading /\ ~terminating

-----------------------------------------------------------------------------
(* Properties.                                                             *)

\* The application gets exactly the messages the peer completed, in order and whole,
\* however they were cut into frames and segments and wherever control frames came
\* between; and a frame that is there never waits for more to arrive.
DeliversMessages ==
    /\ delivered = Messages(Taken)
    /\ Waits => handled = Len(stream) - (IF partial THEN 1 ELSE 0)

\* Every ping is answered, in order, and reading goes on until the first frame that
\* breaks the protocol, is no text where text was begun, or closes, which is answered
\* with the code it deserves; nothing behind that frame is taken. Which headers break the
\* protocol, and which closing payloads, is taken from the code (HeaderRefused, CloseCode):
\* so RSV1 on a control or continuation frame, which the code accepts once compression is
\* negotiated (WebSocketReceiver.cpp:328) and RFC 6455 does not, is not judged.
AnswersByProtocol ==
    LET n == handled
        pongs == Pongs(Taken)
        refuse == n < Len(stream) /\ HeaderRefused(stream[n + 1])
        code == IF n = 0 THEN 0 ELSE Verdict(Taken, n) IN
    /\ \A i \in 1..(n - 1) : Verdict(Taken, i) = 0
    /\ \/ code # 0 /\ answers = Append(pongs, <<"close", code>>)
       \/ code = 0 /\ answers = pongs
       \/ code = 0 /\ refuse /\ answers = Append(pongs, <<"close", 1002>>)
    /\ Waits => ~refuse
=============================================================================
