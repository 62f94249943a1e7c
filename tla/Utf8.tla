-------------------------------- MODULE Utf8 --------------------------------
(***************************************************************************)
(* UTF-8 as libwsc decides it: the validator that is fed a text message    *)
(* chunk by chunk (Utf8Validator.cpp), the one-pass check of a close       *)
(* frame's reason (WebSocketReceiver::isValidUtf8), and the table of RFC   *)
(* 3629 both are meant to decide.  Bytes are numbers; the code's masks and *)
(* shifts are the ranges they test.                                        *)
(***************************************************************************)
EXTENDS Naturals, Sequences

Continuation == 128..191

-----------------------------------------------------------------------------
(* The validator: how many continuation bytes are due, and whether the     *)
(* lead byte was one that restricts the next byte.                         *)

Fresh == [expected |-> 0, lead |-> 0]
Invalid == [expected |-> 0, lead |-> 256]

\* A lead byte, or ASCII. E1 and the like leave the flags of E0, ED, F0 and F4 alone.
Lead(v, b) ==
    CASE b < 128         -> v
      [] b \in 194..223  -> [v EXCEPT !.expected = 1]
      [] b \in 224..239  -> [expected |-> 2, lead |-> b]
      [] b \in 240..244  -> [expected |-> 3, lead |-> b]
      [] OTHER           -> Invalid

\* The second byte of a sequence whose first was E0, ED, F0 or F4.
SecondAllowed(v, b) ==
    /\ v.lead = 224 /\ v.expected = 2 => b >= 160
    /\ v.lead = 237 /\ v.expected = 2 => b <= 159
    /\ v.lead = 240 /\ v.expected = 3 => b >= 144
    /\ v.lead = 244 /\ v.expected = 3 => b <= 143

\* Mutant: surrogates pass.
FeedSurrogates(v, b) ==
    CASE v = Invalid -> v
      [] v # Invalid /\ v.expected = 0 -> Lead(v, b)
      [] v.expected > 0 /\ b \in Continuation /\ (v.lead = 237 \/ SecondAllowed(v, b)) ->
            IF v.expected = 1 THEN Fresh ELSE [v EXCEPT !.expected = @ - 1]
      [] OTHER -> Invalid

Feed(v, b) ==
    CASE v = Invalid -> v
      [] v # Invalid /\ v.expected = 0 -> Lead(v, b)
      [] v.expected > 0 /\ b \in Continuation /\ SecondAllowed(v, b) ->
            IF v.expected = 1 THEN Fresh ELSE [v EXCEPT !.expected = @ - 1]
      [] OTHER -> Invalid

ValidateChunk(v, bytes) ==
    LET after[i \in 0..Len(bytes)] == IF i = 0 THEN v ELSE Feed(after[i - 1], bytes[i])
    IN  after[Len(bytes)]
ValidateFinal(v) == v.expected = 0 /\ v # Invalid

-----------------------------------------------------------------------------
(* isValidUtf8: from each position, the length of the sequence that starts *)
(* there, 0 if there is none.                                              *)

SequenceAt(s, i) ==
    LET left == Len(s) - i
        tail(n) == left >= n /\ \A k \in 1..n : s[i + k] \in Continuation IN
    CASE s[i] <= 127                                    -> 1
      [] s[i] \in 194..223 /\ tail(1)                   -> 2
      [] /\ s[i] \in 224..239 /\ tail(2)
         /\ ~(s[i] = 224 /\ s[i + 1] < 160)
         /\ ~(s[i] = 237 /\ s[i + 1] >= 160)            -> 3
      [] /\ s[i] \in 240..244 /\ tail(3)
         /\ ~(s[i] = 240 /\ s[i + 1] < 144)
         /\ ~(s[i] = 244 /\ s[i + 1] > 143)             -> 4
      [] OTHER                                          -> 0

\* From each position, where the scan from there ends: 0 where it rejects the text.
IsValidUtf8(s) ==
    LET scan[i \in 1..(Len(s) + 1)] ==
            IF i > Len(s) THEN i
            ELSE IF SequenceAt(s, i) = 0 THEN 0 ELSE scan[i + SequenceAt(s, i)]
    IN  scan[1] # 0

-----------------------------------------------------------------------------
(* RFC 3629, section 4: a text is a sequence of the characters of a table. *)

Table ==
    { <<0..127>>,
      <<194..223, Continuation>>,
      <<{224}, 160..191, Continuation>>,
      <<225..236 \union 238..239, Continuation, Continuation>>,
      <<{237}, 128..159, Continuation>>,
      <<{240}, 144..191, Continuation, Continuation>>,
      <<241..243, Continuation, Continuation, Continuation>>,
      <<{244}, 128..143, Continuation, Continuation>> }

IsCharacter(s) ==
    \E row \in Table : Len(row) = Len(s) /\ \A k \in DOMAIN s : s[k] \in row[k]

\* Some set of cuts divides the text into characters.
WellFormed(s) ==
    \E cuts \in SUBSET (1..Len(s)) :
        LET ends == cuts \union {0} IN
        /\ Len(s) \in ends
        /\ \A e \in cuts : \E a \in ends :
              /\ a < e /\ \A c \in cuts : ~(a < c /\ c < e)
              /\ IsCharacter(SubSeq(s, a + 1, e))

\* More bytes can still make a text of it: whole characters, then the start of one.
Completable(s) ==
    \E k \in 0..Len(s) :
        /\ WellFormed(SubSeq(s, 1, k))
        /\ \/ k = Len(s)
           \/ \E row \in Table : /\ Len(s) - k < Len(row)
                               /\ \A j \in 1..(Len(s) - k) : s[k + j] \in row[j]
=============================================================================
