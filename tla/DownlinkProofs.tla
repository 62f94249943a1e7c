--------------------------- MODULE DownlinkProofs ---------------------------
(***************************************************************************)
(* Proofs about Downlink, for every size of the buffers, every set of      *)
(* rates and whatever frames the peer sends, and about the algorithms of   *)
(* MCAlgorithms, for texts and tracks of any length.                       *)
(*                                                                         *)
(* The buffers: the invariant places every sample.  What was heard and     *)
(* what waits in dl_stash is in order, part by part, and ahead of all that *)
(* waits in play_buffer; none is of a message that has not come, and none  *)
(* that waits is older than the last clear.                                *)
(*                                                                         *)
(* The receiver: the invariant compares it with what the protocol says of  *)
(* the frames it has taken.  It has delivered and answered what they ask   *)
(* for, it holds the message that is under way, and its validator has been *)
(* fed that message's bytes.                                               *)
(***************************************************************************)
EXTENDS Downlink, MCAlgorithms, Integers, SequenceTheorems, TLAPS
LOCAL INSTANCE SequencesExt
LOCAL INSTANCE FiniteSetsExt
WellFounded == INSTANCE WellFoundedInduction

-----------------------------------------------------------------------------
(* Numbers: least elements, induction as a fact about sets, recursion.     *)

\* A set of natural numbers that is not empty has a least element.
LEMMA LeastNumber ==
    ASSUME NEW T, T \subseteq Nat, T # {}
    PROVE  \E x \in T : \A y \in T : ~(y < x)
<1> DEFINE R == WellFounded!OpToRel(<, Nat)
<1>1. WellFounded!IsWellFoundedOn(R, Nat)
  BY WellFounded!NatLessThanWellFounded
<1>2. \A x, y \in Nat : <<y, x>> \in R <=> y < x
  BY DEF WellFounded!OpToRel
<1> HIDE DEF R
<1>3. \E x \in T : \A y \in T : ~(<<y, x>> \in R)
  BY <1>1, WellFounded!WFMin
<1> QED
  BY <1>2, <1>3

\* A set that holds 0, and with a number its successor, holds every number.
LEMMA SetInduction ==
    ASSUME NEW S, 0 \in S, \A n \in S \intersect Nat : n + 1 \in S
    PROVE  Nat \subseteq S
<1> DEFINE T == Nat \ S
<1> SUFFICES ASSUME T # {} PROVE FALSE
  OBVIOUS
<1>1. PICK x \in T : \A y \in T : ~(y < x)
  BY LeastNumber
<1>2. x # 0 /\ x - 1 \in Nat /\ x - 1 \in S /\ (x - 1) + 1 = x
  BY <1>1
<1>3. x \in S
  BY <1>2
<1> QED
  BY <1>3

\* A function on 0..n is defined by its first value and what follows each.
Follows(A, D, base, F, n) ==
    A \in [0..n -> D] /\ A[0] = base /\ \A i \in 1..n : A[i] = F[<<i, A[i - 1]>>]

\* Every first value and every rule define one.
LEMMA Recursion ==
    ASSUME NEW D, NEW base \in D, NEW F \in [Nat \X D -> D], NEW n \in Nat
    PROVE  \E A : Follows(A, D, base, F, n)
<1> DEFINE P(A, m) == A[0] = base /\ \A i \in 1..m : A[i] = F[<<i, A[i - 1]>>]
           S == {m \in Nat : \E A \in [0..m -> D] : P(A, m)}
<1>1. 0 \in S
  <2>1. [i \in 0..0 |-> base] \in [0..0 -> D] /\ P([i \in 0..0 |-> base], 0)
    OBVIOUS
  <2> QED
    BY <2>1
<1>2. ASSUME NEW m \in Nat, m \in S PROVE m + 1 \in S
  <2>1. PICK A \in [0..m -> D] : P(A, m)
    BY <1>2
  <2> DEFINE last == F[<<m + 1, A[m]>>]
             B == [i \in 0..(m + 1) |-> IF i = m + 1 THEN last ELSE A[i]]
  <2>2. A[m] \in D /\ last \in D
    OBVIOUS
  <2> HIDE DEF last
  <2>3. /\ B[m + 1] = last /\ \A i \in 0..m : B[i] = A[i]
        /\ B \in [0..(m + 1) -> D]
    <3>1. m + 1 \in 0..(m + 1)
      OBVIOUS
    <3>2. \A i \in 0..m : i \in 0..(m + 1) /\ i # m + 1
      OBVIOUS
    <3>3. \A i \in 0..(m + 1) : i # m + 1 => i \in 0..m
      OBVIOUS
    <3> QED
      BY <2>2, <3>1, <3>2, <3>3
  <2> HIDE DEF B
  <2>4. ASSUME NEW i \in 1..(m + 1) PROVE B[i] = F[<<i, B[i - 1]>>]
    <3>1. i - 1 \in 0..m /\ B[i - 1] = A[i - 1]
      BY <2>3
    <3>2. CASE i = m + 1
      <4>1. i - 1 = m
        BY <3>2
      <4> QED
        BY <2>3, <3>1, <3>2, <4>1 DEF last
    <3>3. CASE i # m + 1
      <4>1. i \in 0..m /\ i \in 1..m
        BY <3>3
      <4> QED
        BY <2>1, <2>3, <3>1, <4>1
    <3> QED
      BY <3>2, <3>3
  <2>5. B[0] = base
    BY <2>1, <2>3
  <2> QED
    BY <2>3, <2>4, <2>5
<1> HIDE DEF S
<1>3. n \in S
  <2>1. \A m \in S \intersect Nat : m + 1 \in S
    BY <1>2
  <2> QED
    BY <1>1, <2>1, SetInduction
<1> QED
  BY <1>3 DEF S, Follows

\* The second byte a lead byte allows.
Second(a, b) ==
    /\ b \in Continuation
    /\ a = 224 => b >= 160
    /\ a = 237 => b <= 159
    /\ a = 240 => b >= 144
    /\ a = 244 => b <= 143

\* The lead byte of a character of l bytes.
LeadOf(l, a) ==
    \/ l = 1 /\ a < 128
    \/ l = 2 /\ a \in 194..223
    \/ l = 3 /\ a \in 224..239
    \/ l = 4 /\ a \in 240..244

\* The n bytes after position k are the first of a character of l bytes.
Shape(s, k, n, l) ==
    /\ LeadOf(l, s[k + 1])
    /\ n >= 2 => Second(s[k + 1], s[k + 2])
    /\ n >= 3 => s[k + 3] \in Continuation
    /\ n >= 4 => s[k + 4] \in Continuation

\* A row of the table fits the first bytes of t.
Fits(row, t, n) == \A i \in 1..n : t[i] \in row[i]

\* Byte by byte, that is.
LEMMA FitsAll ==
    ASSUME NEW row, NEW t
    PROVE  /\ Fits(row, t, 1) <=> t[1] \in row[1]
           /\ Fits(row, t, 2) <=> Fits(row, t, 1) /\ t[2] \in row[2]
           /\ Fits(row, t, 3) <=> Fits(row, t, 2) /\ t[3] \in row[3]
           /\ Fits(row, t, 4) <=> Fits(row, t, 3) /\ t[4] \in row[4]
<1>1. Fits(row, t, 1) <=> t[1] \in row[1]
  BY DEF Fits
<1>2. Fits(row, t, 2) <=> Fits(row, t, 1) /\ t[2] \in row[2]
  BY DEF Fits
<1>3. Fits(row, t, 3) <=> Fits(row, t, 2) /\ t[3] \in row[3]
  BY DEF Fits
<1>4. Fits(row, t, 4) <=> Fits(row, t, 3) /\ t[4] \in row[4]
  BY DEF Fits
<1> QED
  BY <1>1, <1>2, <1>3, <1>4

\* What a row of the table is.
LEMMA TableRows ==
    ASSUME NEW row \in Table
    PROVE  \/ /\ Len(row) = 1 /\ row[1] = 0..127
           \/ /\ Len(row) = 2 /\ row[1] = 194..223 /\ row[2] = Continuation
           \/ /\ Len(row) = 3 /\ row[3] = Continuation
              /\ \/ row[1] = {224} /\ row[2] = 160..191
                 \/ row[1] = 225..236 \union 238..239 /\ row[2] = Continuation
                 \/ row[1] = {237} /\ row[2] = 128..159
           \/ /\ Len(row) = 4 /\ row[3] = Continuation /\ row[4] = Continuation
              /\ \/ row[1] = {240} /\ row[2] = 144..191
                 \/ row[1] = 241..243 /\ row[2] = Continuation
                 \/ row[1] = {244} /\ row[2] = 128..143
BY DEF Table

\* Every kind of character has its row.
LEMMA TableHas ==
    /\ \E row \in Table : Len(row) = 1 /\ row[1] = 0..127
    /\ \E row \in Table : Len(row) = 2 /\ row[1] = 194..223 /\ row[2] = Continuation
    /\ \E row \in Table : /\ Len(row) = 3 /\ row[1] = {224} /\ row[2] = 160..191
                          /\ row[3] = Continuation
    /\ \E row \in Table : /\ Len(row) = 3 /\ row[1] = 225..236 \union 238..239
                          /\ row[2] = Continuation /\ row[3] = Continuation
    /\ \E row \in Table : /\ Len(row) = 3 /\ row[1] = {237} /\ row[2] = 128..159
                          /\ row[3] = Continuation
    /\ \E row \in Table : /\ Len(row) = 4 /\ row[1] = {240} /\ row[2] = 144..191
                          /\ row[3] = Continuation /\ row[4] = Continuation
    /\ \E row \in Table : /\ Len(row) = 4 /\ row[1] = 241..243 /\ row[2] = Continuation
                          /\ row[3] = Continuation /\ row[4] = Continuation
    /\ \E row \in Table : /\ Len(row) = 4 /\ row[1] = {244} /\ row[2] = 128..143
                          /\ row[3] = Continuation /\ row[4] = Continuation
BY DEF Table

\* The first n of the bytes fit a row that has l.
RowFor(t, n, l) == \E row \in Table : Len(row) = l /\ Fits(row, t, n)

\* The rows allow the shapes.
LEMMA RowsAre ==
    ASSUME NEW t, NEW n \in 1..4, NEW l \in n..4, \A i \in 1..n : t[i] \in Nat
    PROVE  RowFor(t, n, l) <=> Shape(t, 0, n, l)
<1> DEFINE a == t[1]
           b == t[2]
           c == t[3]
           d == t[4]
<1>0. Shape(t, 0, n, l) <=> /\ LeadOf(l, a) /\ (n >= 2 => Second(a, b))
                            /\ (n >= 3 => c \in Continuation) /\ (n >= 4 => d \in Continuation)
  BY DEF Shape
<1>1. a \in Nat /\ (n >= 2 => b \in Nat)
  OBVIOUS
<1> DEFINE One(x) == \E row \in Table : Len(row) = x /\ a \in row[1]
           Two(x) == \E row \in Table : Len(row) = x /\ a \in row[1] /\ b \in row[2]
           Three(x) == \E row \in Table :
                          Len(row) = x /\ a \in row[1] /\ b \in row[2] /\ c \in row[3]
           Four(x) == \E row \in Table : /\ Len(row) = x /\ a \in row[1] /\ b \in row[2]
                                         /\ c \in row[3] /\ d \in row[4]
<1>2. /\ RowFor(t, 1, l) <=> One(l)
      /\ RowFor(t, 2, l) <=> Two(l)
      /\ RowFor(t, 3, l) <=> Three(l)
      /\ RowFor(t, 4, l) <=> Four(l)
  BY FitsAll DEF RowFor
<1> HIDE DEF a, b, c, d
<1>3. /\ One(1) <=> a < 128
      /\ One(2) <=> a \in 194..223
      /\ One(3) <=> a \in 224..239
      /\ One(4) <=> a \in 240..244
  BY <1>1, TableRows, TableHas
<1>4. ASSUME n >= 2
      PROVE  /\ Two(2) <=> a \in 194..223 /\ b \in Continuation
             /\ Two(3) <=> a \in 224..239 /\ Second(a, b)
             /\ Two(4) <=> a \in 240..244 /\ Second(a, b)
  BY <1>1, <1>4, TableRows, TableHas DEF Second, Continuation
<1>5. ASSUME n >= 3
      PROVE  /\ Three(3) <=> a \in 224..239 /\ Second(a, b) /\ c \in Continuation
             /\ Three(4) <=> a \in 240..244 /\ Second(a, b) /\ c \in Continuation
             /\ Four(4) <=> /\ a \in 240..244 /\ Second(a, b)
                            /\ c \in Continuation /\ d \in Continuation
  <2>1. a \in Nat /\ b \in Nat
    BY <1>1, <1>5
  <2> QED
    BY <2>1, TableRows, TableHas DEF Second, Continuation
<1> HIDE DEF One, Two, Three, Four
<1>6. CASE l = 1
  BY <1>0, <1>2, <1>3, <1>6 DEF LeadOf
<1>7. CASE l = 2
  BY <1>0, <1>2, <1>3, <1>4, <1>7 DEF LeadOf, Second
<1>8. CASE l = 3
  BY <1>0, <1>2, <1>3, <1>4, <1>5, <1>8 DEF LeadOf
<1>9. CASE l = 4
  BY <1>0, <1>2, <1>3, <1>4, <1>5, <1>9 DEF LeadOf
<1> QED
  BY <1>6, <1>7, <1>8, <1>9

\* A character, as the table has it.
LEMMA CharacterIs ==
    ASSUME NEW t \in Seq(Nat)
    PROVE  IsCharacter(t) <=> Len(t) \in 1..4 /\ Shape(t, 0, Len(t), Len(t))
<1>1. Len(t) \in Nat /\ DOMAIN t = 1..Len(t) /\ \A i \in 1..Len(t) : t[i] \in Nat
  OBVIOUS
<1>2. \A row \in Table : Len(row) \in 1..4
  BY TableRows
<1>3. IsCharacter(t) <=> Len(t) \in 1..4 /\ RowFor(t, Len(t), Len(t))
  BY <1>1, <1>2 DEF IsCharacter, RowFor, Fits
<1> QED
  <2> DEFINE n == Len(t)
  <2>1. n \in 1..4 => n \in n..4 /\ \A i \in 1..n : t[i] \in Nat
    BY <1>1
  <2> HIDE DEF n
  <2>2. n \in 1..4 => (RowFor(t, n, n) <=> Shape(t, 0, n, n))
    BY <2>1, RowsAre
  <2> QED
    BY <1>3, <2>2 DEF n

\* The shape is that of the bytes, wherever they are.
LEMMA ShapeMoves ==
    ASSUME NEW s, NEW k \in Nat, NEW t, NEW n \in Nat, NEW l,
           t[1] = s[k + 1], n >= 2 => t[2] = s[k + 2],
           n >= 3 => t[3] = s[k + 3], n >= 4 => t[4] = s[k + 4]
    PROVE  Shape(t, 0, n, l) <=> Shape(s, k, n, l)
<1>1. Shape(t, 0, n, l) <=> /\ LeadOf(l, t[1]) /\ (n >= 2 => Second(t[1], t[2]))
                            /\ (n >= 3 => t[3] \in Continuation)
                            /\ (n >= 4 => t[4] \in Continuation)
  BY DEF Shape
<1>2. Shape(s, k, n, l) <=> /\ LeadOf(l, s[k + 1]) /\ (n >= 2 => Second(s[k + 1], s[k + 2]))
                            /\ (n >= 3 => s[k + 3] \in Continuation)
                            /\ (n >= 4 => s[k + 4] \in Continuation)
  BY DEF Shape
<1> QED
  BY <1>1, <1>2

\* The bytes from k + 1 to j are a character.
CharAt(s, k, j) == j - k \in 1..4 /\ Shape(s, k, j - k, j - k)

\* The bytes between two positions are a character if they have the shape of one.
LEMMA CharacterAt ==
    ASSUME NEW s \in Seq(Nat), NEW k \in Nat, NEW j \in (k + 1)..Len(s)
    PROVE  IsCharacter(SubSeq(s, k + 1, j)) <=> CharAt(s, k, j)
<1> DEFINE t == SubSeq(s, k + 1, j)
           n == j - k
<1>1. Len(s) \in Nat /\ j \in Nat /\ n \in Nat /\ n >= 1 /\ \A i \in 1..Len(s) : s[i] \in Nat
  OBVIOUS
<1>2. t \in Seq(Nat) /\ Len(t) = n /\ \A i \in 1..n : t[i] = s[k + i]
  <2>1. /\ k + 1 \in Int /\ j \in Int /\ k + 1 <= j /\ j - (k + 1) + 1 = n
        /\ \A i \in (k + 1)..j : s[i] \in Nat
    BY <1>1
  <2>2. /\ t \in Seq(Nat) /\ Len(t) = (IF k + 1 <= j THEN j - (k + 1) + 1 ELSE 0)
        /\ \A i \in 1..(j - (k + 1) + 1) : t[i] = s[(k + 1) + i - 1]
    BY <2>1, SubSeqProperties
  <2> HIDE DEF t, n
  <2>3. \A i \in 1..n : (k + 1) + i - 1 = k + i
    BY <1>1
  <2> QED
    BY <2>1, <2>2, <2>3
<1> HIDE DEF t, n
<1>3. IsCharacter(t) <=> n \in 1..4 /\ Shape(t, 0, n, n)
  BY <1>2, CharacterIs
<1>4. n \in 1..4 => (Shape(t, 0, n, n) <=> Shape(s, k, n, n))
  <2>1. n >= 1 /\ (n >= 2 => 2 \in 1..n) /\ (n >= 3 => 3 \in 1..n) /\ (n >= 4 => 4 \in 1..n)
    BY <1>1
  <2>0. \A i \in 1..n : t[i] = s[k + i]
    BY <1>2
  <2>2. /\ t[1] = s[k + 1] /\ (n >= 2 => t[2] = s[k + 2])
        /\ (n >= 3 => t[3] = s[k + 3]) /\ (n >= 4 => t[4] = s[k + 4])
    <3>1. n \in Nat /\ n >= 1 => 1 \in 1..n
      OBVIOUS
    <3>2. t[1] = s[k + 1]
      BY <1>1, <2>0, <3>1
    <3>3. n >= 2 => t[2] = s[k + 2]
      BY <2>0, <2>1
    <3>4. n >= 3 => t[3] = s[k + 3]
      BY <2>0, <2>1
    <3>5. n >= 4 => t[4] = s[k + 4]
      BY <2>0, <2>1
    <3> QED
      BY <3>2, <3>3, <3>4, <3>5
  <2> QED
    BY <1>1, <2>2, ShapeMoves
<1> QED
  BY <1>3, <1>4 DEF CharAt, t, n

\* The bytes behind a position start a character if they have the shape of a start.
LEMMA StartAt ==
    ASSUME NEW s \in Seq(Nat), NEW k \in Nat, NEW j \in (k + 1)..Len(s)
    PROVE  (\E row \in Table : j - k < Len(row) /\ \A i \in 1..(j - k) : s[k + i] \in row[i])
           <=> \E l \in 1..4 : j - k < l /\ Shape(s, k, j - k, l)
<1> DEFINE n == j - k
           t == [i \in 1..n |-> s[k + i]]
<1>1. n \in Nat /\ n >= 1 /\ \A i \in 1..n : s[k + i] \in Nat
  OBVIOUS
<1>2. \A i \in 1..n : t[i] = s[k + i]
  OBVIOUS
<1> HIDE DEF n, t
<1>3. \A row \in Table : Len(row) \in 1..4
  BY TableRows
<1>4. (\E row \in Table : n < Len(row) /\ \A i \in 1..n : s[k + i] \in row[i])
      <=> \E l \in 1..4 : n < l /\ RowFor(t, n, l)
  BY <1>2, <1>3 DEF RowFor, Fits
<1>5. ASSUME NEW l \in 1..4, n < l
      PROVE  RowFor(t, n, l) <=> Shape(s, k, n, l)
  <2>0. \A i \in 1..n : t[i] \in Nat
    BY <1>1, <1>2
  <2>1. n \in 1..4 /\ l \in n..4 /\ \A i \in 1..n : t[i] \in Nat
    <3>1. n \in 1..4 /\ l \in n..4
      BY <1>1, <1>5
    <3> QED
      BY <2>0, <3>1
  <2>2. RowFor(t, n, l) <=> Shape(t, 0, n, l)
    BY <2>1, RowsAre
  <2>3. n >= 1 /\ (n >= 2 => 2 \in 1..n) /\ (n >= 3 => 3 \in 1..n) /\ (n >= 4 => 4 \in 1..n)
    BY <1>1
  <2>4. /\ t[1] = s[k + 1] /\ (n >= 2 => t[2] = s[k + 2])
        /\ (n >= 3 => t[3] = s[k + 3]) /\ (n >= 4 => t[4] = s[k + 4])
    BY <1>2, <2>3
  <2>5. Shape(t, 0, n, l) <=> Shape(s, k, n, l)
    BY <1>1, <2>4, ShapeMoves
  <2> QED
    BY <2>2, <2>5
<1> QED
  BY <1>4, <1>5 DEF n

\* The bytes after position j up to k are whole characters: some cuts make them so.
Cuts(s, j, k, cuts) ==
    /\ cuts \subseteq (j + 1)..k /\ k \in cuts \union {j}
    /\ \A e \in cuts : \E a \in cuts \union {j} :
          a < e /\ (\A c \in cuts : ~(a < c /\ c < e)) /\ CharAt(s, a, e)
Parsed(s, j, k) == \E cuts : Cuts(s, j, k, cuts)

\* No bytes are no characters.
LEMMA ParsedNone == ASSUME NEW s, NEW j \in Nat PROVE Parsed(s, j, j)
<1>1. Cuts(s, j, j, {})
  BY DEF Cuts
<1> QED
  BY <1>1 DEF Parsed

\* A character more at the end.
LEMMA ParsedMore ==
    ASSUME NEW s, NEW j \in Nat, NEW k \in Nat, NEW m \in Nat, j <= k, k < m,
           Parsed(s, j, k), CharAt(s, k, m)
    PROVE  Parsed(s, j, m)
<1>1. PICK cuts : Cuts(s, j, k, cuts)
  BY DEF Parsed
<1> DEFINE more == cuts \union {m}
<1>2. more \subseteq (j + 1)..m /\ m \in more \union {j}
  BY <1>1 DEF Cuts
<1>3. ASSUME NEW e \in cuts
      PROVE  \E a \in more \union {j} :
                a < e /\ (\A c \in more : ~(a < c /\ c < e)) /\ CharAt(s, a, e)
  <2>1. PICK a \in cuts \union {j} : a < e /\ (\A c \in cuts : ~(a < c /\ c < e)) /\ CharAt(s, a, e)
    BY <1>1 DEF Cuts
  <2>2. e \in (j + 1)..k /\ ~(m < e)
    BY <1>1 DEF Cuts
  <2> QED
    BY <2>1, <2>2
<1>4. /\ k \in more \union {j} /\ k < m
      /\ \A c \in more : ~(k < c /\ c < m)
  BY <1>1 DEF Cuts
<1> HIDE DEF more
<1>5. \A e \in more : e \in cuts \/ e = m
  BY DEF more
<1>6. Cuts(s, j, m, more)
  BY <1>2, <1>3, <1>4, <1>5 DEF Cuts
<1> QED
  BY <1>6 DEF Parsed

\* A character more at the beginning.
LEMMA ParsedBefore ==
    ASSUME NEW s, NEW j \in Nat, NEW k \in Nat, NEW m \in Nat, j < m, m <= k,
           CharAt(s, j, m), Parsed(s, m, k)
    PROVE  Parsed(s, j, k)
<1>1. PICK cuts : Cuts(s, m, k, cuts)
  BY DEF Parsed
<1> DEFINE more == cuts \union {m}
<1>2. more \subseteq (j + 1)..k /\ k \in more \union {j}
  BY <1>1 DEF Cuts
<1>3. ASSUME NEW e \in cuts
      PROVE  \E a \in more \union {j} :
                a < e /\ (\A c \in more : ~(a < c /\ c < e)) /\ CharAt(s, a, e)
  <2>1. PICK a \in cuts \union {m} : a < e /\ (\A c \in cuts : ~(a < c /\ c < e)) /\ CharAt(s, a, e)
    BY <1>1 DEF Cuts
  <2>2. a \in m..k /\ ~(a < m)
    BY <1>1 DEF Cuts
  <2> QED
    BY <2>1, <2>2
<1>4. \A c \in more : ~(j < c /\ c < m)
  BY <1>1 DEF Cuts
<1> HIDE DEF more
<1>5. \A e \in more : e \in cuts \/ e = m
  BY DEF more
<1>6. Cuts(s, j, k, more)
  BY <1>2, <1>3, <1>4, <1>5 DEF Cuts
<1> QED
  BY <1>6 DEF Parsed

\* The last character, and what is before it.
LEMMA ParsedLast ==
    ASSUME NEW s, NEW j \in Nat, NEW k \in Nat, j < k, Parsed(s, j, k)
    PROVE  \E m \in j..(k - 1) : Parsed(s, j, m) /\ CharAt(s, m, k)
<1>1. PICK cuts : Cuts(s, j, k, cuts)
  BY DEF Parsed
<1>2. k \in cuts
  BY <1>1 DEF Cuts
<1>3. PICK m \in cuts \union {j} :
         m < k /\ (\A c \in cuts : ~(m < c /\ c < k)) /\ CharAt(s, m, k)
  BY <1>1, <1>2 DEF Cuts
<1>4. m \in j..(k - 1)
  BY <1>1, <1>3 DEF Cuts
<1> DEFINE less == {c \in cuts : c <= m}
<1>5. less \subseteq (j + 1)..m /\ m \in less \union {j}
  <2>1. \A c \in cuts : c \in (j + 1)..k
    BY <1>1 DEF Cuts
  <2>2. \A c \in less : c \in (j + 1)..m
    BY <1>4, <2>1
  <2>3. m \in cuts => m \in less
    BY <1>4
  <2> HIDE DEF less
  <2> QED
    BY <1>3, <2>2, <2>3
<1>6. ASSUME NEW e \in less
      PROVE  \E a \in less \union {j} :
                a < e /\ (\A c \in less : ~(a < c /\ c < e)) /\ CharAt(s, a, e)
  <2>1. PICK a \in cuts \union {j} : a < e /\ (\A c \in cuts : ~(a < c /\ c < e)) /\ CharAt(s, a, e)
    BY <1>1 DEF Cuts
  <2>2. a <= m /\ a \in less \union {j}
    BY <1>1, <1>4, <2>1 DEF Cuts
  <2> QED
    BY <2>1, <2>2
<1> HIDE DEF less
<1>7. Cuts(s, j, m, less)
  BY <1>5, <1>6 DEF Cuts
<1> QED
  BY <1>3, <1>4, <1>7 DEF Parsed

\* The first character, and what is behind it.
LEMMA ParsedFirst ==
    ASSUME NEW s, NEW j \in Nat, NEW k \in Nat, j < k, Parsed(s, j, k)
    PROVE  \E m \in (j + 1)..k : CharAt(s, j, m) /\ Parsed(s, m, k)
<1>1. PICK cuts : Cuts(s, j, k, cuts)
  BY DEF Parsed
<1>2. k \in cuts /\ cuts \subseteq Nat /\ \A c \in cuts : c \in (j + 1)..k
  BY <1>1 DEF Cuts
<1>3. PICK m \in cuts : \A c \in cuts : ~(c < m)
  BY <1>2, LeastNumber
<1>4. CharAt(s, j, m)
  <2>1. PICK a \in cuts \union {j} : a < m /\ CharAt(s, a, m)
    BY <1>1, <1>3 DEF Cuts
  <2> QED
    BY <1>3, <2>1
<1> DEFINE less == cuts \ {m}
<1>5. less \subseteq (m + 1)..k /\ k \in less \union {m}
  <2>1. \A c \in less : c \in (m + 1)..k
    BY <1>2, <1>3
  <2> QED
    BY <1>2, <2>1
<1>6. ASSUME NEW e \in less
      PROVE  \E a \in less \union {m} :
                a < e /\ (\A c \in less : ~(a < c /\ c < e)) /\ CharAt(s, a, e)
  <2>1. PICK a \in cuts \union {j} : a < e /\ (\A c \in cuts : ~(a < c /\ c < e)) /\ CharAt(s, a, e)
    BY <1>1 DEF Cuts
  <2>2. m \in (j + 1)..k /\ e \in (m + 1)..k
    BY <1>2, <1>5
  <2>3. a # j
    BY <1>3, <2>1, <2>2
  <2> QED
    BY <2>1, <2>3
<1> HIDE DEF less
<1>7. Cuts(s, m, k, less)
  BY <1>5, <1>6 DEF Cuts
<1> QED
  BY <1>2, <1>4, <1>7 DEF Parsed

\* Cuts of the beginning of a text are cuts of the text.
LEMMA WellFormedIs ==
    ASSUME NEW s \in Seq(Nat), NEW k \in 0..Len(s)
    PROVE  WellFormed(SubSeq(s, 1, k)) <=> Parsed(s, 0, k)
<1> DEFINE t == SubSeq(s, 1, k)
<1>1. t \in Seq(Nat) /\ Len(t) = k /\ k \in Nat /\ Len(s) \in Nat
  <2>1. 1 \in Int /\ k \in Int /\ \A i \in 1..k : s[i] \in Nat
    OBVIOUS
  <2>2. t \in Seq(Nat) /\ Len(t) = IF 1 <= k THEN k - 1 + 1 ELSE 0
    BY <2>1, SubSeqProperties
  <2> HIDE DEF t
  <2> QED
    BY <2>2
<1>2. ASSUME NEW a \in Nat, NEW e \in 1..k, a < e
      PROVE  IsCharacter(SubSeq(t, a + 1, e)) <=> CharAt(s, a, e)
  <2>1. SubSeq(t, a + 1, e) = SubSeq(s, a + 1, e)
    <3>1. /\ 1 \in 1..Len(s) /\ k \in 1..Len(s)
          /\ a + 1 \in 1..(k - 1 + 1) /\ e \in 1..(k - 1 + 1)
          /\ 1 + (a + 1) - 1 = a + 1 /\ 1 + e - 1 = e
      BY <1>1, <1>2
    <3>2. SubSeq(SubSeq(s, 1, k), a + 1, e) = SubSeq(s, 1 + (a + 1) - 1, 1 + e - 1)
      BY <3>1, SubSeqOfSubSeq
    <3> QED
      BY <3>1, <3>2
  <2>2. e \in (a + 1)..Len(s)
    BY <1>1, <1>2
  <2> QED
    BY <2>1, <2>2, CharacterAt
<1> HIDE DEF t
<1>3. ASSUME NEW cuts, cuts \subseteq 1..k
      PROVE  (/\ k \in cuts \union {0}
              /\ \A e \in cuts : \E a \in cuts \union {0} :
                    /\ a < e /\ \A c \in cuts : ~(a < c /\ c < e)
                    /\ IsCharacter(SubSeq(t, a + 1, e)))
             <=> Cuts(s, 0, k, cuts)
  <2>1. \A e \in cuts, a \in cuts \union {0} :
           a < e => (IsCharacter(SubSeq(t, a + 1, e)) <=> CharAt(s, a, e))
    <3>1. \A e \in cuts, a \in cuts \union {0} : e \in 1..k /\ a \in Nat
      BY <1>1, <1>3
    <3> QED
      BY <3>1, <1>2
  <2>2. cuts \subseteq (0 + 1)..k
    BY <1>3
  <2> QED
    BY <2>1, <2>2 DEF Cuts
<1>4. Parsed(s, 0, k) <=> \E cuts \in SUBSET (1..k) : Cuts(s, 0, k, cuts)
  <2>1. \A cuts : Cuts(s, 0, k, cuts) => cuts \in SUBSET (1..k)
    <3>1. 0 + 1 = 1
      OBVIOUS
    <3> QED
      BY <3>1 DEF Cuts
  <2> QED
    BY <2>1 DEF Parsed
<1>5. WellFormed(t) <=> \E cuts \in SUBSET (1..k) :
         /\ k \in cuts \union {0}
         /\ \A e \in cuts : \E a \in cuts \union {0} :
               /\ a < e /\ \A c \in cuts : ~(a < c /\ c < e)
               /\ IsCharacter(SubSeq(t, a + 1, e))
  BY <1>1 DEF WellFormed
<1> QED
  BY <1>3, <1>4, <1>5 DEF t

-----------------------------------------------------------------------------
(* The validator.                                                          *)

States == [expected : 0..3, lead : Nat]

\* A byte leads from one state to another.
LEMMA FeedType ==
    ASSUME NEW v \in States, NEW b \in Nat
    PROVE  Feed(v, b) \in States
BY DEF Feed, Lead, States, Fresh, Invalid

\* A is the function ValidateChunk defines, on the first n bytes of s.
Ran(A, v, s, n) == A = [i \in 0..n |-> IF i = 0 THEN v ELSE Feed(A[i - 1], s[i])]

\* There is such a function.
LEMMA RanExists ==
    ASSUME NEW v \in States, NEW s \in Seq(Nat)
    PROVE  \E A : Ran(A, v, s, Len(s))
<1> DEFINE n == Len(s)
           F == [p \in Nat \X States |-> IF p[1] \in 1..n THEN Feed(p[2], s[p[1]]) ELSE v]
<1>1. n \in Nat /\ \A i \in 1..n : s[i] \in Nat
  OBVIOUS
<1> HIDE DEF n
<1>2. F \in [Nat \X States -> States]
  BY <1>1, FeedType
<1>3. \A i \in 1..n, w \in States : F[<<i, w>>] = Feed(w, s[i])
  BY <1>1
<1> HIDE DEF F
<1>4. PICK A : Follows(A, States, v, F, n)
  <2>1. n \in Nat /\ v \in States
    BY <1>1
  <2> QED
    BY <1>2, <2>1, Recursion, Zenon
<1>5. ASSUME NEW i \in 0..n PROVE A[i] = IF i = 0 THEN v ELSE Feed(A[i - 1], s[i])
  <2>1. CASE i = 0
    BY <1>4, <2>1 DEF Follows
  <2>2. CASE i # 0
    <3>1. i \in 1..n /\ i - 1 \in 0..n
      BY <1>1, <2>2
    <3>2. A[i - 1] \in States /\ A[i] = F[<<i, A[i - 1]>>]
      BY <1>4, <3>1 DEF Follows
    <3> QED
      BY <1>3, <2>2, <3>1, <3>2
  <2> QED
    BY <2>1, <2>2
<1>6. A = [i \in 0..n |-> A[i]]
  BY <1>4 DEF Follows
<1>7. A = [i \in 0..n |-> IF i = 0 THEN v ELSE Feed(A[i - 1], s[i])]
  BY <1>5, <1>6, Zenon
<1> QED
  BY <1>7 DEF Ran, n

\* What it does: it starts with v and feeds byte after byte.
Runs(A, v, s) ==
    /\ A[0] = v
    /\ \A i \in 0..Len(s) : A[i] \in States
    /\ \A i \in 1..Len(s) : A[i] = Feed(A[i - 1], s[i])

\* ValidateChunk runs so.
LEMMA ChunkRuns ==
    ASSUME NEW v \in States, NEW s \in Seq(Nat)
    PROVE  \E A : Runs(A, v, s) /\ ValidateChunk(v, s) = A[Len(s)]
<1> DEFINE n == Len(s)
           A == CHOOSE f : Ran(f, v, s, n)
<1>1. n \in Nat /\ \A i \in 1..n : s[i] \in Nat
  OBVIOUS
<1>2. ValidateChunk(v, s) = A[n]
  BY DEF ValidateChunk, Ran
<1>3. Ran(A, v, s, n)
  BY RanExists
<1> HIDE DEF n
<1> HIDE DEF A
<1>4. A[0] = v
  BY <1>1, <1>3 DEF Ran
<1>5. \A i \in 1..n : A[i] = Feed(A[i - 1], s[i])
  <2> TAKE i \in 1..n
  <2>1. i \in 0..n /\ i # 0
    BY <1>1
  <2> QED
    BY <1>3, <2>1 DEF Ran
<1> DEFINE T == {i \in Nat : i <= n => A[i] \in States}
<1>6. 0 \in T
  BY <1>4
<1>7. ASSUME NEW i \in T \intersect Nat PROVE i + 1 \in T
  <2> SUFFICES ASSUME i + 1 <= n PROVE A[i + 1] \in States
    OBVIOUS
  <2>1. A[i] \in States /\ i + 1 \in 1..n /\ (i + 1) - 1 = i /\ s[i + 1] \in Nat
    BY <1>1
  <2>2. A[i + 1] = Feed(A[i], s[i + 1])
    BY <1>5, <2>1
  <2> QED
    BY <2>1, <2>2, FeedType
<1> HIDE DEF T
<1>8. \A i \in 0..n : A[i] \in States
  <2>1. Nat \subseteq T
    BY <1>6, <1>7, SetInduction
  <2> QED
    BY <1>1, <2>1 DEF T
<1> QED
  BY <1>2, <1>4, <1>5, <1>8 DEF Runs, n

\* In the middle of a character of l bytes that began after position k, n bytes of it read.
Mid(s, k, n, l) == [expected |-> l - n, lead |-> IF l = 2 THEN 0 ELSE s[k + 1]]

\* What a byte does to a validator between two characters.
LEMMA FeedFirst ==
    ASSUME NEW s, NEW k \in Nat, s[k + 1] \in Nat
    PROVE  /\ LeadOf(1, s[k + 1]) => Feed(Fresh, s[k + 1]) = Fresh
           /\ \A l \in 2..4 : LeadOf(l, s[k + 1]) => Feed(Fresh, s[k + 1]) = Mid(s, k, 1, l)
           /\ (\A l \in 1..4 : ~LeadOf(l, s[k + 1])) => Feed(Fresh, s[k + 1]) = Invalid
<1> DEFINE a == s[k + 1]
<1>1. Feed(Fresh, a) = Lead(Fresh, a)
  BY DEF Feed, Fresh, Invalid
<1>2. Mid(s, k, 1, 2) = [expected |-> 1, lead |-> 0]
  BY DEF Mid
<1>3. /\ Mid(s, k, 1, 3) = [expected |-> 2, lead |-> a]
      /\ Mid(s, k, 1, 4) = [expected |-> 3, lead |-> a]
  BY DEF Mid
<1>4. a \in Nat
  OBVIOUS
<1> HIDE DEF a
<1>5. /\ a < 128 => Lead(Fresh, a) = Fresh
      /\ a \in 194..223 => Lead(Fresh, a) = [expected |-> 1, lead |-> 0]
      /\ a \in 224..239 => Lead(Fresh, a) = [expected |-> 2, lead |-> a]
      /\ a \in 240..244 => Lead(Fresh, a) = [expected |-> 3, lead |-> a]
  BY <1>4 DEF Lead, Fresh
<1>6. ~(a < 128) /\ a \notin 194..223 /\ a \notin 224..239 /\ a \notin 240..244
      => Lead(Fresh, a) = Invalid
  BY <1>4 DEF Lead
<1>7. /\ LeadOf(1, a) <=> a < 128
      /\ LeadOf(2, a) <=> a \in 194..223
      /\ LeadOf(3, a) <=> a \in 224..239
      /\ LeadOf(4, a) <=> a \in 240..244
  BY DEF LeadOf
<1>8. \A l \in 2..4 : l = 2 \/ l = 3 \/ l = 4
  OBVIOUS
<1> QED
  BY <1>1, <1>2, <1>3, <1>5, <1>6, <1>7, <1>8 DEF a

\* What it does in the middle of one.
LEMMA FeedNext ==
    ASSUME NEW s, NEW k \in Nat, NEW l \in 2..4, NEW n \in 1..(l - 1), Shape(s, k, n, l),
           \A i \in 1..(n + 1) : s[k + i] \in Nat
    PROVE  Feed(Mid(s, k, n, l), s[k + n + 1]) =
              IF Shape(s, k, n + 1, l)
              THEN IF n + 1 = l THEN Fresh ELSE Mid(s, k, n + 1, l)
              ELSE Invalid
<1> DEFINE a == s[k + 1]
           b == s[k + n + 1]
           v == Mid(s, k, n, l)
<1>1. a \in Nat /\ b \in Nat
  <2>1. 1 \in 1..(n + 1) /\ n + 1 \in 1..(n + 1) /\ k + n + 1 = k + (n + 1)
    OBVIOUS
  <2> QED
    BY <2>1
<1>2. v = [expected |-> l - n, lead |-> IF l = 2 THEN 0 ELSE a]
  BY DEF Mid
<1>3. LeadOf(l, a)
  BY DEF Shape
<1>4. Shape(s, k, n + 1, l) <=> IF n = 1 THEN Second(a, b) ELSE b \in Continuation
  BY <1>3 DEF Shape
<1>5. n + 1 # l => Mid(s, k, n + 1, l) = [expected |-> l - (n + 1), lead |-> IF l = 2 THEN 0 ELSE a]
  BY DEF Mid
<1> HIDE DEF a, b, v
<1>6. v # Invalid /\ v.expected = l - n /\ v.expected > 0
  BY <1>2 DEF Invalid
<1>7. b \in Continuation /\ SecondAllowed(v, b)
      <=> IF n = 1 THEN Second(a, b) ELSE b \in Continuation
  BY <1>1, <1>2, <1>3 DEF SecondAllowed, Second, LeadOf, Continuation
<1>8. Feed(v, b) = IF b \in Continuation /\ SecondAllowed(v, b)
                   THEN IF v.expected = 1 THEN Fresh ELSE [v EXCEPT !.expected = @ - 1]
                   ELSE Invalid
  BY <1>6 DEF Feed
<1>9. [v EXCEPT !.expected = @ - 1] = [expected |-> l - (n + 1), lead |-> IF l = 2 THEN 0 ELSE a]
  BY <1>2
<1>10. v.expected = 1 <=> n + 1 = l
  BY <1>6
<1> QED
  BY <1>4, <1>5, <1>7, <1>8, <1>9, <1>10 DEF a, b, v

\* A refused text stays refused.
LEMMA FeedInvalid == \A b : Feed(Invalid, b) = Invalid
BY DEF Feed, Invalid

\* Fed the first n bytes of a character, the validator is in it, or past it.
LEMMA RunsShape ==
    ASSUME NEW s \in Seq(Nat), NEW A, Runs(A, Fresh, s), NEW k \in Nat, A[k] = Fresh,
           NEW l \in 1..4, NEW n \in 1..l, k + n <= Len(s), Shape(s, k, n, l)
    PROVE  A[k + n] = IF n = l THEN Fresh ELSE Mid(s, k, n, l)
<1> DEFINE Q(x) == x <= n => A[k + x] = IF x = l THEN Fresh ELSE Mid(s, k, x, l)
<1>1. \A x \in 1..n : /\ Shape(s, k, x, l) /\ s[k + x] \in Nat
                      /\ A[k + x] = Feed(A[(k + x) - 1], s[k + x])
  <2> TAKE x \in 1..n
  <2>1. k + x \in 1..Len(s)
    OBVIOUS
  <2>2. Shape(s, k, x, l)
    BY DEF Shape
  <2>3. s[k + x] \in Nat
    BY <2>1
  <2>4. A[k + x] = Feed(A[(k + x) - 1], s[k + x])
    BY <2>1 DEF Runs
  <2> QED
    BY <2>2, <2>3, <2>4
<1>2. Q(1)
  <2>1. 1 \in 1..n /\ (k + 1) - 1 = k
    OBVIOUS
  <2>2. LeadOf(l, s[k + 1]) /\ s[k + 1] \in Nat /\ A[k + 1] = Feed(Fresh, s[k + 1])
    BY <1>1, <2>1 DEF Shape
  <2>3. l = 1 \/ l \in 2..4
    OBVIOUS
  <2> QED
    BY <2>2, <2>3, FeedFirst
<1>3. ASSUME NEW x \in 1..3, Q(x) PROVE Q(x + 1)
  <2> SUFFICES ASSUME x + 1 <= n
               PROVE  A[k + (x + 1)] = IF x + 1 = l THEN Fresh ELSE Mid(s, k, x + 1, l)
    OBVIOUS
  <2>1. /\ l \in 2..4 /\ x \in 1..(l - 1) /\ x \in 1..n /\ x + 1 \in 1..n /\ x # l
        /\ k + x + 1 = k + (x + 1) /\ (k + (x + 1)) - 1 = k + x
    OBVIOUS
  <2>2. A[k + x] = Mid(s, k, x, l)
    BY <1>3, <2>1
  <2>3. Shape(s, k, x, l) /\ Shape(s, k, x + 1, l) /\ \A i \in 1..(x + 1) : s[k + i] \in Nat
    <3>1. \A i \in 1..(x + 1) : i \in 1..n
      BY <2>1
    <3> QED
      BY <1>1, <2>1, <3>1
  <2>4. Feed(Mid(s, k, x, l), s[k + x + 1]) = IF x + 1 = l THEN Fresh ELSE Mid(s, k, x + 1, l)
    BY <2>1, <2>3, FeedNext
  <2> QED
    BY <1>1, <2>1, <2>2, <2>4
<1> HIDE DEF Q
<1>4. Q(1) /\ Q(2) /\ Q(3) /\ Q(4)
  <2>1. 1 \in 1..3 /\ 2 \in 1..3 /\ 3 \in 1..3 /\ 1 + 1 = 2 /\ 2 + 1 = 3 /\ 3 + 1 = 4
    OBVIOUS
  <2> QED
    BY <1>2, <1>3, <2>1
<1>5. n = 1 \/ n = 2 \/ n = 3 \/ n = 4
  OBVIOUS
<1>6. Q(n)
  BY <1>4, <1>5
<1> QED
  BY <1>6 DEF Q

\* Between two characters of a text the validator is as it began.
LEMMA ParsedIsFresh ==
    ASSUME NEW s \in Seq(Nat), NEW A, Runs(A, Fresh, s), NEW j \in 0..Len(s), Parsed(s, 0, j)
    PROVE  A[j] = Fresh
<1> DEFINE T == {k \in 0..Len(s) : Parsed(s, 0, k) /\ A[k] # Fresh}
<1> SUFFICES ASSUME T # {} PROVE FALSE
  OBVIOUS
<1>1. PICK k \in T : \A m \in T : ~(m < k)
  <2>1. T \subseteq Nat
    OBVIOUS
  <2> HIDE DEF T
  <2> QED
    BY <2>1, LeastNumber
<1>2. k # 0
  BY DEF Runs
<1>3. PICK m \in 0..(k - 1) : Parsed(s, 0, m) /\ CharAt(s, m, k)
  BY <1>2, ParsedLast
<1>4. A[m] = Fresh
  BY <1>1, <1>3
<1> DEFINE n == k - m
<1>5. n \in 1..4 /\ n \in 1..n /\ m + n = k /\ m + n <= Len(s) /\ Shape(s, m, n, n) /\ m \in Nat
  BY <1>3 DEF CharAt
<1> HIDE DEF n
<1>6. A[m + n] = Fresh
  BY <1>4, <1>5, RunsShape
<1> QED
  BY <1>5, <1>6

\* Unless it has refused the text, the validator is between two characters or in one.
Somewhere(A, s, j) ==
    \/ A[j] = Invalid
    \/ A[j] = Fresh /\ Parsed(s, 0, j)
    \/ \E k \in 0..(j - 1), l \in 2..4 :
          /\ j - k < l /\ Shape(s, k, j - k, l) /\ Parsed(s, 0, k) /\ A[k] = Fresh
          /\ A[j] = Mid(s, k, j - k, l)

\* That it is, after every byte.
LEMMA RunsSomewhere ==
    ASSUME NEW s \in Seq(Nat), NEW A, Runs(A, Fresh, s)
    PROVE  \A j \in 0..Len(s) : Somewhere(A, s, j)
<1> DEFINE T == {j \in Nat : j <= Len(s) => Somewhere(A, s, j)}
<1>1. 0 \in T
  BY ParsedNone DEF Somewhere, Runs
<1>2. ASSUME NEW j \in T \intersect Nat PROVE j + 1 \in T
  <2> SUFFICES ASSUME j + 1 <= Len(s) PROVE Somewhere(A, s, j + 1)
    OBVIOUS
  <2>1. /\ Somewhere(A, s, j) /\ j + 1 \in 1..Len(s) /\ (j + 1) - 1 = j /\ s[j + 1] \in Nat
        /\ A[j + 1] = Feed(A[j], s[j + 1])
    BY DEF Runs
  <2>2. CASE A[j] = Invalid
    BY <2>1, <2>2, FeedInvalid DEF Somewhere
  <2>3. CASE A[j] = Fresh /\ Parsed(s, 0, j)
    <3>1. CASE LeadOf(1, s[j + 1])
      <4>1. A[j + 1] = Fresh
        BY <2>1, <2>3, <3>1, FeedFirst
      <4>2. CharAt(s, j, j + 1)
        BY <3>1 DEF CharAt, Shape
      <4>3. Parsed(s, 0, j + 1)
        BY <2>3, <4>2, ParsedMore
      <4> QED
        BY <4>1, <4>3 DEF Somewhere
    <3>2. ASSUME NEW l \in 2..4, LeadOf(l, s[j + 1]) PROVE Somewhere(A, s, j + 1)
      <4>1. A[j + 1] = Mid(s, j, 1, l)
        BY <2>1, <2>3, <3>2, FeedFirst
      <4>2. Shape(s, j, 1, l) /\ (j + 1) - j = 1 /\ 1 < l /\ j \in 0..((j + 1) - 1)
        BY <3>2 DEF Shape
      <4> QED
        BY <2>3, <4>1, <4>2 DEF Somewhere
    <3>3. CASE \A l \in 1..4 : ~LeadOf(l, s[j + 1])
      BY <2>1, <2>3, <3>3, FeedFirst DEF Somewhere
    <3>4. \A l \in 1..4 : l = 1 \/ l \in 2..4
      OBVIOUS
    <3> QED
      BY <3>1, <3>2, <3>3, <3>4
  <2>4. ASSUME NEW k \in 0..(j - 1), NEW l \in 2..4,
               j - k < l, Shape(s, k, j - k, l), Parsed(s, 0, k), A[k] = Fresh,
               A[j] = Mid(s, k, j - k, l)
        PROVE  Somewhere(A, s, j + 1)
    <3> DEFINE n == j - k
    <3>1. /\ k \in Nat /\ n \in 1..(l - 1) /\ k + n + 1 = j + 1 /\ k + (n + 1) = j + 1
          /\ (j + 1) - k = n + 1
          /\ \A i \in 1..(n + 1) : s[k + i] \in Nat
      BY <2>1, <2>4
    <3>2. A[j] = Mid(s, k, n, l) /\ Shape(s, k, n, l)
      BY <2>4
    <3> HIDE DEF n
    <3>3. A[j + 1] = IF Shape(s, k, n + 1, l)
                     THEN IF n + 1 = l THEN Fresh ELSE Mid(s, k, n + 1, l)
                     ELSE Invalid
      <4>1. Feed(Mid(s, k, n, l), s[k + n + 1]) =
               IF Shape(s, k, n + 1, l)
               THEN IF n + 1 = l THEN Fresh ELSE Mid(s, k, n + 1, l)
               ELSE Invalid
        BY <3>1, <3>2, FeedNext
      <4> QED
        BY <2>1, <3>1, <3>2, <4>1
    <3>4. CASE ~Shape(s, k, n + 1, l)
      BY <3>3, <3>4 DEF Somewhere
    <3>5. CASE Shape(s, k, n + 1, l) /\ n + 1 = l
      <4>1. CharAt(s, k, j + 1)
        BY <3>1, <3>5 DEF CharAt
      <4>2. Parsed(s, 0, j + 1)
        BY <2>4, <3>1, <4>1, ParsedMore
      <4> QED
        BY <3>3, <3>5, <4>2 DEF Somewhere
    <3>6. CASE Shape(s, k, n + 1, l) /\ n + 1 # l
      <4>1. A[j + 1] = Mid(s, k, (j + 1) - k, l) /\ Shape(s, k, (j + 1) - k, l)
        BY <3>1, <3>3, <3>6
      <4>2. (j + 1) - k < l /\ k \in 0..((j + 1) - 1)
        BY <3>1, <3>6
      <4> QED
        BY <2>4, <4>1, <4>2 DEF Somewhere
    <3> QED
      BY <3>4, <3>5, <3>6
  <2> QED
    BY <2>1, <2>2, <2>3, <2>4 DEF Somewhere
<1> HIDE DEF T
<1>3. Nat \subseteq T
  BY <1>1, <1>2, SetInduction
<1> QED
  BY <1>3 DEF T

\* More bytes can still make a text of it.
CompletableIs(s) ==
    \E k \in 0..Len(s) :
        /\ Parsed(s, 0, k)
        /\ k = Len(s) \/ \E l \in 1..4 : Len(s) - k < l /\ Shape(s, k, Len(s) - k, l)

\* So the table says it.
LEMMA CompletableMeans ==
    ASSUME NEW s \in Seq(Nat)
    PROVE  Completable(s) <=> CompletableIs(s)
<1>1. \A k \in 0..Len(s) : WellFormed(SubSeq(s, 1, k)) <=> Parsed(s, 0, k)
  BY WellFormedIs
<1>2. ASSUME NEW k \in 0..Len(s), k # Len(s)
      PROVE  (\E row \in Table : /\ Len(s) - k < Len(row)
                                 /\ \A j \in 1..(Len(s) - k) : s[k + j] \in row[j])
             <=> \E l \in 1..4 : Len(s) - k < l /\ Shape(s, k, Len(s) - k, l)
  <2>1. k \in Nat /\ Len(s) \in (k + 1)..Len(s)
    BY <1>2
  <2> QED
    BY <2>1, StartAt
<1> QED
  BY <1>1, <1>2 DEF Completable, CompletableIs

\* The validator refuses a text at the first byte that no other could make good, and
\* accepts it at its end if it is whole characters.
LEMMA ValidatorDecides ==
    ASSUME NEW s \in Seq(Nat)
    PROVE  /\ ValidateChunk(Fresh, s) # Invalid <=> Completable(s)
           /\ ValidateFinal(ValidateChunk(Fresh, s)) <=> WellFormed(s)
           /\ ValidateChunk(Fresh, s) \in States
<1> DEFINE n == Len(s)
<1>0. n \in Nat /\ n \in 0..n /\ Fresh \in States /\ Fresh # Invalid
  BY DEF States, Fresh, Invalid
<1>1. PICK A : Runs(A, Fresh, s) /\ ValidateChunk(Fresh, s) = A[n]
  BY <1>0, ChunkRuns
<1>2. SubSeq(s, 1, n) = s
  BY SubSeqFull
<1>3. WellFormed(s) <=> Parsed(s, 0, n)
  BY <1>0, <1>2, WellFormedIs
<1>4. Completable(s) <=> CompletableIs(s)
  BY CompletableMeans
<1>5. Somewhere(A, s, n)
  BY <1>0, <1>1, RunsSomewhere
<1>6. \A k, m, l : l \in 2..4 /\ m \in 1..(l - 1) =>
          Mid(s, k, m, l).expected > 0 /\ Mid(s, k, m, l) # Invalid
  BY DEF Mid, Invalid
<1>7. A[n] # Invalid => CompletableIs(s)
  <2>1. CASE A[n] = Fresh /\ Parsed(s, 0, n)
    BY <1>0, <2>1 DEF CompletableIs
  <2>2. CASE \E k \in 0..(n - 1), l \in 2..4 :
                n - k < l /\ Shape(s, k, n - k, l) /\ Parsed(s, 0, k)
    BY <1>0, <2>2 DEF CompletableIs
  <2> QED
    BY <1>5, <2>1, <2>2 DEF Somewhere
<1>8. CompletableIs(s) => A[n] # Invalid
  <2> SUFFICES ASSUME NEW k \in 0..n, Parsed(s, 0, k),
                      k = n \/ \E l \in 1..4 : n - k < l /\ Shape(s, k, n - k, l)
               PROVE  A[n] # Invalid
    BY DEF CompletableIs
  <2>1. A[k] = Fresh
    BY <1>1, ParsedIsFresh
  <2>2. ASSUME NEW l \in 1..4, n - k < l, Shape(s, k, n - k, l), k # n PROVE A[n] # Invalid
    <3> DEFINE m == n - k
    <3>1. m \in 1..l /\ m # l /\ k + m = n /\ k + m <= Len(s) /\ Shape(s, k, m, l) /\ k \in Nat
          /\ l \in 2..4 /\ m \in 1..(l - 1)
      BY <1>0, <2>2
    <3> HIDE DEF m, n
    <3>2. A[k + m] = IF m = l THEN Fresh ELSE Mid(s, k, m, l)
      <4>1. l \in 1..4 /\ A[k] = Fresh /\ Runs(A, Fresh, s)
        BY <1>1, <2>1
      <4> QED
        BY <3>1, <4>1, RunsShape
    <3> QED
      BY <1>6, <3>1, <3>2
  <2> QED
    BY <1>0, <2>1, <2>2
<1>9. ValidateFinal(A[n]) <=> Parsed(s, 0, n)
  <2>1. Parsed(s, 0, n) => A[n] = Fresh
    BY <1>0, <1>1, ParsedIsFresh
  <2>2. ValidateFinal(Fresh)
    BY DEF ValidateFinal, Fresh, Invalid
  <2>3. ASSUME NEW k \in 0..(n - 1), NEW l \in 2..4, n - k < l, A[n] = Mid(s, k, n - k, l)
        PROVE  ~ValidateFinal(A[n])
    <3>1. n - k \in 1..(l - 1)
      BY <1>0, <2>3
    <3>2. A[n].expected > 0
      BY <1>6, <2>3, <3>1
    <3> QED
      BY <3>2 DEF ValidateFinal
  <2>4. ~ValidateFinal(Invalid)
    BY DEF ValidateFinal
  <2> QED
    BY <1>5, <2>1, <2>2, <2>3, <2>4 DEF Somewhere
<1>10. A[n] \in States
  BY <1>0, <1>1 DEF Runs
<1> QED
  BY <1>1, <1>3, <1>4, <1>7, <1>8, <1>9, <1>10

-----------------------------------------------------------------------------
(* The check of a close frame's reason, which reads ahead.                 *)

\* The second byte of a character, by the kind of its lead byte.
LEMMA SecondIs ==
    ASSUME NEW a \in Nat, NEW b
    PROVE  /\ a \in 194..223 => (Second(a, b) <=> b \in Continuation)
           /\ a \in 224..239 =>
                 (Second(a, b) <=> /\ b \in Continuation
                                   /\ ~(a = 224 /\ b < 160) /\ ~(a = 237 /\ b >= 160))
           /\ a \in 240..244 =>
                 (Second(a, b) <=> /\ b \in Continuation
                                   /\ ~(a = 240 /\ b < 144) /\ ~(a = 244 /\ b > 143))
<1>1. CASE b \in Continuation
  <2>1. b \in Nat
    BY <1>1 DEF Continuation
  <2> QED
    BY <1>1, <2>1 DEF Second
<1>2. CASE b \notin Continuation
  BY <1>2 DEF Second
<1> QED
  BY <1>1, <1>2

\* The length found at a position is that of the character there, if there is one.
LEMMA SequenceAtIs ==
    ASSUME NEW s \in Seq(Nat), NEW k \in Nat, k < Len(s)
    PROVE  /\ SequenceAt(s, k + 1) \in 0..4
           /\ SequenceAt(s, k + 1) > 0 =>
                 /\ k + SequenceAt(s, k + 1) <= Len(s)
                 /\ CharAt(s, k, k + SequenceAt(s, k + 1))
           /\ \A m \in (k + 1)..Len(s) : CharAt(s, k, m) => SequenceAt(s, k + 1) = m - k
<1> DEFINE n == Len(s)
           a == s[k + 1]
           left == n - (k + 1)
           more(x) == left >= x /\ \A i \in 1..x : s[k + 1 + i] \in Continuation
           two == a \in 194..223 /\ more(1)
           three == a \in 224..239 /\ more(2) /\ ~(a = 224 /\ s[k + 1 + 1] < 160)
                    /\ ~(a = 237 /\ s[k + 1 + 1] >= 160)
           four == a \in 240..244 /\ more(3) /\ ~(a = 240 /\ s[k + 1 + 1] < 144)
                   /\ ~(a = 244 /\ s[k + 1 + 1] > 143)
<1>1. n \in Nat /\ k + 1 \in 1..n /\ a \in Nat /\ \A i \in 1..n : s[i] \in Nat
  OBVIOUS
<1>2. SequenceAt(s, k + 1) = CASE a <= 127 -> 1
                               [] two -> 2
                               [] three -> 3
                               [] four -> 4
                               [] OTHER -> 0
  BY DEF SequenceAt
<1>3. /\ k + 1 + 1 = k + 2 /\ k + 1 + 2 = k + 3 /\ k + 1 + 3 = k + 4
      /\ left >= 1 <=> k + 2 <= n
      /\ left >= 2 <=> k + 3 <= n
      /\ left >= 3 <=> k + 4 <= n
  BY <1>1
<1> HIDE DEF n, left
<1>4. /\ more(1) <=> k + 2 <= n /\ s[k + 2] \in Continuation
      /\ more(2) <=> k + 3 <= n /\ s[k + 2] \in Continuation /\ s[k + 3] \in Continuation
      /\ more(3) <=> /\ k + 4 <= n /\ s[k + 2] \in Continuation /\ s[k + 3] \in Continuation
                     /\ s[k + 4] \in Continuation
  <2>1. /\ (\A i \in 1..1 : s[k + 1 + i] \in Continuation) <=> s[k + 1 + 1] \in Continuation
        /\ (\A i \in 1..2 : s[k + 1 + i] \in Continuation)
           <=> s[k + 1 + 1] \in Continuation /\ s[k + 1 + 2] \in Continuation
        /\ (\A i \in 1..3 : s[k + 1 + i] \in Continuation)
           <=> /\ s[k + 1 + 1] \in Continuation /\ s[k + 1 + 2] \in Continuation
               /\ s[k + 1 + 3] \in Continuation
    <3>1. 1..1 = {1} /\ 1..2 = {1, 2} /\ 1..3 = {1, 2, 3}
      OBVIOUS
    <3> QED
      BY <3>1
  <2> QED
    BY <1>3, <2>1
<1> HIDE DEF more
<1>5. /\ CharAt(s, k, k + 1) <=> a < 128
      /\ CharAt(s, k, k + 2) <=> a \in 194..223 /\ Second(a, s[k + 2])
      /\ CharAt(s, k, k + 3) <=> a \in 224..239 /\ Second(a, s[k + 2]) /\ s[k + 3] \in Continuation
      /\ CharAt(s, k, k + 4) <=> /\ a \in 240..244 /\ Second(a, s[k + 2])
                                 /\ s[k + 3] \in Continuation /\ s[k + 4] \in Continuation
  <2>1. (k + 1) - k = 1 /\ (k + 2) - k = 2 /\ (k + 3) - k = 3 /\ (k + 4) - k = 4
    OBVIOUS
  <2> QED
    BY <2>1 DEF CharAt, Shape, LeadOf
<1>6. \A x \in Continuation : x \in Nat
  BY DEF Continuation
<1> DEFINE b == s[k + 2]
           c == s[k + 3]
           d == s[k + 4]
<1>7. a \in Nat /\ k + 1 <= n
  BY <1>1
<1>8. /\ CharAt(s, k, k + 1) <=> a <= 127
      /\ CharAt(s, k, k + 2) <=> a \in 194..223 /\ b \in Continuation
      /\ CharAt(s, k, k + 3) <=> /\ a \in 224..239 /\ b \in Continuation /\ c \in Continuation
                                 /\ ~(a = 224 /\ b < 160) /\ ~(a = 237 /\ b >= 160)
      /\ CharAt(s, k, k + 4) <=> /\ a \in 240..244 /\ b \in Continuation /\ c \in Continuation
                                 /\ d \in Continuation
                                 /\ ~(a = 240 /\ b < 144) /\ ~(a = 244 /\ b > 143)
  <2>3. CharAt(s, k, k + 1) <=> a <= 127
    BY <1>5, <1>7
  <2> HIDE DEF a, b, c, d
  <2>4. a \in 194..223 => (Second(a, b) <=> b \in Continuation)
    BY <1>7, SecondIs
  <2>5. a \in 224..239 => (Second(a, b) <=> /\ b \in Continuation
                                           /\ ~(a = 224 /\ b < 160) /\ ~(a = 237 /\ b >= 160))
    BY <1>7, SecondIs
  <2>6. a \in 240..244 => (Second(a, b) <=> /\ b \in Continuation
                                           /\ ~(a = 240 /\ b < 144) /\ ~(a = 244 /\ b > 143))
    BY <1>7, SecondIs
  <2>7. /\ CharAt(s, k, k + 2) <=> a \in 194..223 /\ Second(a, b)
        /\ CharAt(s, k, k + 3) <=> a \in 224..239 /\ Second(a, b) /\ c \in Continuation
        /\ CharAt(s, k, k + 4) <=> /\ a \in 240..244 /\ Second(a, b)
                                   /\ c \in Continuation /\ d \in Continuation
    BY <1>5 DEF a, b, c, d
  <2>8. CharAt(s, k, k + 2) <=> a \in 194..223 /\ b \in Continuation
    BY <2>4, <2>7
  <2>9. CharAt(s, k, k + 3) <=> /\ a \in 224..239 /\ b \in Continuation /\ c \in Continuation
                                /\ ~(a = 224 /\ b < 160) /\ ~(a = 237 /\ b >= 160)
    BY <2>5, <2>7
  <2>10. CharAt(s, k, k + 4) <=> /\ a \in 240..244 /\ b \in Continuation /\ c \in Continuation
                                 /\ d \in Continuation
                                 /\ ~(a = 240 /\ b < 144) /\ ~(a = 244 /\ b > 143)
    BY <2>6, <2>7
  <2> QED
    BY <2>3, <2>8, <2>9, <2>10
<1>9. /\ two <=> k + 2 <= n /\ CharAt(s, k, k + 2)
      /\ three <=> k + 3 <= n /\ CharAt(s, k, k + 3)
      /\ four <=> k + 4 <= n /\ CharAt(s, k, k + 4)
  <2>1. /\ two <=> a \in 194..223 /\ k + 2 <= n /\ b \in Continuation
        /\ three <=> /\ a \in 224..239 /\ k + 3 <= n /\ b \in Continuation /\ c \in Continuation
                     /\ ~(a = 224 /\ b < 160) /\ ~(a = 237 /\ b >= 160)
        /\ four <=> /\ a \in 240..244 /\ k + 4 <= n /\ b \in Continuation /\ c \in Continuation
                    /\ d \in Continuation /\ ~(a = 240 /\ b < 144) /\ ~(a = 244 /\ b > 143)
    BY <1>3, <1>4
  <2> HIDE DEF two, three, four, a, b, c, d
  <2> QED
    BY <1>8, <2>1
<1> HIDE DEF b, c, d
<1>10. /\ a <= 127 => ~two /\ ~three /\ ~four
       /\ two => ~three /\ ~four
       /\ three => ~four
  <2>1. (two => a \in 194..223) /\ (three => a \in 224..239) /\ (four => a \in 240..244)
    OBVIOUS
  <2> HIDE DEF two, three, four, a
  <2> QED
    BY <1>7, <2>1
<1> HIDE DEF two, three, four
<1>11. SequenceAt(s, k + 1) = IF a <= 127 THEN 1 ELSE IF two THEN 2 ELSE IF three THEN 3
                              ELSE IF four THEN 4 ELSE 0
  BY <1>2, <1>10
<1>12. \A m \in (k + 1)..n : CharAt(s, k, m) => m = k + 1 \/ m = k + 2 \/ m = k + 3 \/ m = k + 4
  BY <1>1 DEF CharAt
<1> HIDE DEF a
<1> DEFINE q == SequenceAt(s, k + 1)
<1>13. /\ q \in 0..4
       /\ q = 1 <=> a <= 127
       /\ q = 2 <=> two
       /\ q = 3 <=> three
       /\ q = 4 <=> four
  BY <1>10, <1>11
<1> HIDE DEF q
<1>14. q > 0 => k + q <= n /\ CharAt(s, k, k + q)
  <2>1. q > 0 => q = 1 \/ q = 2 \/ q = 3 \/ q = 4
    BY <1>13
  <2> QED
    BY <1>7, <1>8, <1>9, <1>13, <2>1
<1>15. ASSUME NEW m \in (k + 1)..n, CharAt(s, k, m) PROVE q = m - k
  <2>1. m <= n /\ (m = k + 1 \/ m = k + 2 \/ m = k + 3 \/ m = k + 4)
    BY <1>1, <1>12, <1>15
  <2>2. CASE m = k + 1
    <3>1. m - k = 1
      BY <2>2
    <3> QED
      BY <1>8, <1>13, <1>15, <2>2, <3>1
  <2>3. CASE m = k + 2
    <3>1. m - k = 2
      BY <2>3
    <3> QED
      BY <1>9, <1>13, <1>15, <2>1, <2>3, <3>1
  <2>4. CASE m = k + 3
    <3>1. m - k = 3
      BY <2>4
    <3> QED
      BY <1>9, <1>13, <1>15, <2>1, <2>4, <3>1
  <2>5. CASE m = k + 4
    <3>1. m - k = 4
      BY <2>5
    <3> QED
      BY <1>9, <1>13, <1>15, <2>1, <2>5, <3>1
  <2> QED
    BY <2>1, <2>2, <2>3, <2>4, <2>5
<1> QED
  BY <1>13, <1>14, <1>15 DEF q, n

\* The text is whole characters from a position on, if there is one there and from its end on.
LEMMA ParsedFrom ==
    ASSUME NEW s \in Seq(Nat), NEW k \in Nat, k < Len(s)
    PROVE  Parsed(s, k, Len(s)) <=>
              SequenceAt(s, k + 1) > 0 /\ Parsed(s, k + SequenceAt(s, k + 1), Len(s))
<1> DEFINE n == Len(s)
           q == SequenceAt(s, k + 1)
<1>1. n \in Nat /\ q \in 0..4
  BY SequenceAtIs
<1>2. q > 0 => k + q <= n /\ CharAt(s, k, k + q)
  BY SequenceAtIs
<1>3. \A m \in (k + 1)..n : CharAt(s, k, m) => q = m - k
  BY SequenceAtIs
<1> HIDE DEF q, n
<1>4. ASSUME Parsed(s, k, n) PROVE q > 0 /\ Parsed(s, k + q, n)
  <2>1. PICK m \in (k + 1)..n : CharAt(s, k, m) /\ Parsed(s, m, n)
    BY <1>1, <1>4, ParsedFirst DEF n
  <2>2. q = m - k /\ k + q = m /\ q > 0
    BY <1>1, <1>3, <2>1
  <2> QED
    BY <2>1, <2>2
<1>5. ASSUME q > 0, Parsed(s, k + q, n) PROVE Parsed(s, k, n)
  <2>1. k + q \in Nat /\ k < k + q /\ k + q <= n /\ CharAt(s, k, k + q)
    BY <1>1, <1>2, <1>5
  <2> QED
    BY <1>1, <1>5, <2>1, ParsedBefore
<1> QED
  BY <1>4, <1>5 DEF q, n

\* A is the function IsValidUtf8 defines.
Valid(A, s) ==
    A = [i \in 1..(Len(s) + 1) |->
            IF i > Len(s) THEN i
            ELSE IF SequenceAt(s, i) = 0 THEN 0 ELSE A[i + SequenceAt(s, i)]]

\* The one-pass check accepts exactly what is whole characters.
LEMMA ReasonDecides ==
    ASSUME NEW s \in Seq(Nat)
    PROVE  IsValidUtf8(s) <=> WellFormed(s)
<1> DEFINE n == Len(s)
           C == CHOOSE f : Valid(f, s)
           P(i) == Parsed(s, i - 1, n)
           W == [i \in 1..(n + 1) |-> IF P(i) THEN n + 1 ELSE 0]
           q(i) == SequenceAt(s, i)
<1>1. n \in Nat
  OBVIOUS
<1>2. IsValidUtf8(s) <=> C[1] # 0
  BY DEF IsValidUtf8, Valid
<1>3. \A i \in 1..n : /\ q(i) \in 0..4
                      /\ q(i) # 0 => i + q(i) \in 1..(n + 1)
                      /\ q(i) # 0 => (P(i) <=> P(i + q(i)))
                      /\ q(i) = 0 => ~P(i)
  <2> TAKE i \in 1..n
  <2> DEFINE k == i - 1
  <2>1. k \in Nat /\ k < n /\ k + 1 = i
    BY <1>1
  <2> HIDE DEF k
  <2>2. /\ q(i) \in 0..4
        /\ q(i) > 0 => k + q(i) <= n
        /\ Parsed(s, k, n) <=> q(i) > 0 /\ Parsed(s, k + q(i), n)
    BY <2>1, SequenceAtIs, ParsedFrom
  <2> HIDE DEF q, n
  <2>3. i - 1 = k /\ i + q(i) - 1 = k + q(i)
    BY <2>1, <2>2
  <2> QED
    BY <1>1, <2>1, <2>2, <2>3
<1>4. P(n + 1)
  <2>1. (n + 1) - 1 = n
    BY <1>1
  <2> QED
    BY <1>1, <2>1, ParsedNone
<1> HIDE DEF P
<1>5. Valid(W, s)
  <2>1. ASSUME NEW i \in 1..(n + 1)
        PROVE  W[i] = IF i > n THEN i ELSE IF q(i) = 0 THEN 0 ELSE W[i + q(i)]
    <3> HIDE DEF q, n
    <3>1. CASE i = n + 1
      BY <1>1, <1>4, <3>1
    <3>2. CASE i \in 1..n
      <4>1. q(i) = 0 => ~P(i)
        BY <1>3, <3>2
      <4>2. ASSUME q(i) # 0 PROVE i + q(i) \in 1..(n + 1) /\ (P(i) <=> P(i + q(i)))
        BY <1>3, <3>2, <4>2
      <4> QED
        BY <1>1, <3>2, <4>1, <4>2
    <3> QED
      BY <1>1, <3>1, <3>2
  <2> HIDE DEF W
  <2>2. W = [i \in 1..(n + 1) |-> W[i]]
    BY DEF W
  <2>3. W = [i \in 1..(n + 1) |-> IF i > n THEN i ELSE IF q(i) = 0 THEN 0 ELSE W[i + q(i)]]
    BY <2>1, <2>2, Zenon
  <2> QED
    BY <2>3 DEF Valid
<1> HIDE DEF W
<1>6. Valid(C, s)
  BY <1>5, Zenon
<1> HIDE DEF C
<1>7. \A i \in 1..(n + 1) : C[i] = IF i > n THEN i ELSE IF q(i) = 0 THEN 0 ELSE C[i + q(i)]
  BY <1>6 DEF Valid
<1> HIDE DEF q, n
<1> DEFINE Agree(i) == C[i] # 0 <=> P(i)
           T == {m \in Nat : \A i \in 1..(n + 1) : (n + 1) - i <= m => Agree(i)}
<1>8. Agree(n + 1)
  <2>1. C[n + 1] = n + 1
    BY <1>1, <1>7
  <2> QED
    BY <1>1, <1>4, <2>1
<1>9. ASSUME NEW i \in 1..n, q(i) # 0 => Agree(i + q(i))
      PROVE  Agree(i)
  <2>1. C[i] = IF q(i) = 0 THEN 0 ELSE C[i + q(i)]
    BY <1>1, <1>7
  <2>2. (q(i) = 0 => ~P(i)) /\ (q(i) # 0 => (P(i) <=> P(i + q(i))))
    BY <1>3
  <2>3. CASE q(i) = 0
    BY <2>1, <2>2, <2>3
  <2>4. CASE q(i) # 0
    BY <1>9, <2>1, <2>2, <2>4
  <2> QED
    BY <2>3, <2>4
<1> HIDE DEF Agree
<1>10. 0 \in T
  <2>1. \A i \in 1..(n + 1) : (n + 1) - i <= 0 => i = n + 1
    BY <1>1
  <2> QED
    BY <1>8, <2>1
<1>11. ASSUME NEW m \in Nat, m \in T PROVE m + 1 \in T
  <2> SUFFICES ASSUME NEW i \in 1..(n + 1), (n + 1) - i <= m + 1 PROVE Agree(i)
    OBVIOUS
  <2>1. CASE i = n + 1
    BY <1>8, <2>1
  <2>2. CASE i \in 1..n
    <3>1. ASSUME q(i) # 0 PROVE Agree(i + q(i))
      <4>1. q(i) \in 0..4 /\ i + q(i) \in 1..(n + 1)
        BY <1>3, <2>2, <3>1
      <4>2. (n + 1) - (i + q(i)) <= m
        BY <1>1, <2>2, <3>1, <4>1
      <4> QED
        BY <1>11, <4>1, <4>2
    <3> QED
      BY <1>9, <2>2, <3>1
  <2> QED
    BY <1>1, <2>1, <2>2
<1>12. Agree(1)
  <2>1. n \in T
    <3> HIDE DEF T
    <3>1. \A m \in Nat : m \in T => m + 1 \in T
      BY <1>11
    <3>2. \A m \in Nat : m \in T
      BY <1>10, <3>1, SetInduction
    <3> QED
      BY <1>1, <3>2
  <2>2. 1 \in 1..(n + 1) /\ (n + 1) - 1 <= n
    BY <1>1
  <2> QED
    BY <2>1, <2>2
<1>13. WellFormed(s) <=> Parsed(s, 0, n)
  <2>1. SubSeq(s, 1, n) = s /\ n \in 0..n
    BY <1>1, SubSeqFull DEF n
  <2> QED
    BY <2>1, WellFormedIs DEF n
<1>14. C[1] # 0 <=> Parsed(s, 0, n)
  <2>1. 1 - 1 = 0
    OBVIOUS
  <2> QED
    BY <1>12, <2>1 DEF Agree, P
<1> QED
  BY <1>2, <1>13, <1>14

\* A is a run over the first n bytes; two texts share their first n.
Feeds(A, s, n) == \A i \in 1..n : A[i] = Feed(A[i - 1], s[i])
SameUpTo(s, t, n) == \A i \in 1..n : s[i] = t[i]

\* Two runs over the same bytes from the same state are the same.
LEMMA RunsAgree ==
    ASSUME NEW A, NEW B, NEW s, NEW t, NEW n \in Nat, A[0] = B[0],
           Feeds(A, s, n), Feeds(B, t, n), SameUpTo(s, t, n)
    PROVE  A[n] = B[n]
<1> DEFINE S == {m \in Nat : m <= n => A[m] = B[m]}
<1>1. 0 \in S
  OBVIOUS
<1>2. ASSUME NEW m \in S \intersect Nat PROVE m + 1 \in S
  <2> SUFFICES ASSUME m + 1 <= n PROVE A[m + 1] = B[m + 1]
    OBVIOUS
  <2>1. A[m] = B[m] /\ m + 1 \in 1..n /\ (m + 1) - 1 = m
    OBVIOUS
  <2>2. /\ A[m + 1] = Feed(A[m], s[m + 1]) /\ B[m + 1] = Feed(B[m], t[m + 1])
        /\ s[m + 1] = t[m + 1]
    BY <2>1 DEF Feeds, SameUpTo
  <2> QED
    BY <2>1, <2>2
<1> HIDE DEF S
<1>3. n \in S
  BY <1>1, <1>2, SetInduction
<1> QED
  BY <1>3 DEF S

\* It makes no difference how a text is cut into chunks.
LEMMA ChunksJoin ==
    ASSUME NEW v \in States, NEW s \in Seq(Nat), NEW t \in Seq(Nat)
    PROVE  /\ ValidateChunk(v, s) \in States
           /\ ValidateChunk(ValidateChunk(v, s), t) = ValidateChunk(v, s \o t)
<1> DEFINE n == Len(s)
           m == Len(t)
           st == s \o t
<1>1. n \in Nat /\ m \in Nat /\ st \in Seq(Nat) /\ Len(st) = n + m
  OBVIOUS
<1>2. (\A i \in 1..n : st[i] = s[i]) /\ \A i \in 1..m : st[n + i] = t[i]
  OBVIOUS
<1> HIDE DEF st
<1>3. PICK A : Runs(A, v, s) /\ ValidateChunk(v, s) = A[n]
  BY ChunkRuns
<1>4. A[n] \in States
  BY <1>1, <1>3 DEF Runs
<1>5. PICK B : Runs(B, A[n], t) /\ ValidateChunk(A[n], t) = B[m]
  BY <1>4, ChunkRuns
<1>6. PICK C : Runs(C, v, st) /\ ValidateChunk(v, st) = C[Len(st)]
  BY <1>1, ChunkRuns
<1> HIDE DEF n, m
<1>7. C[n] = A[n]
  <2>1. A[0] = v /\ C[0] = v
    BY <1>3, <1>6 DEF Runs
  <2>2. ASSUME NEW i \in 1..n
        PROVE  A[i] = Feed(A[i - 1], s[i]) /\ C[i] = Feed(C[i - 1], st[i]) /\ s[i] = st[i]
    <3>1. i \in 1..Len(s) /\ i \in 1..Len(st)
      BY <1>1 DEF n
    <3> QED
      BY <1>2, <1>3, <1>6, <3>1 DEF Runs
  <2>3. A[0] = C[0]
    BY <2>1
  <2>4. Feeds(A, s, n) /\ Feeds(C, st, n) /\ SameUpTo(s, st, n)
    BY <2>2 DEF Feeds, SameUpTo
  <2>5. n \in Nat
    BY <1>1
  <2>6. A[n] = C[n]
    BY <2>3, <2>4, <2>5, RunsAgree
  <2> QED
    BY <2>6
<1> DEFINE D == [i \in 0..m |-> C[n + i]]
<1>8. \A i \in 0..m : D[i] = C[n + i]
  OBVIOUS
<1> HIDE DEF D
<1>9. B[m] = D[m]
  <2>1. B[0] = D[0]
    <3>1. 0 \in 0..m /\ n + 0 = n
      BY <1>1
    <3> QED
      BY <1>5, <1>7, <1>8, <3>1 DEF Runs
  <2>2. ASSUME NEW i \in 1..m
        PROVE  B[i] = Feed(B[i - 1], t[i]) /\ D[i] = Feed(D[i - 1], t[i])
    <3>1. /\ i \in 1..Len(t) /\ n + i \in 1..Len(st) /\ (n + i) - 1 = n + (i - 1)
          /\ i \in 0..m /\ i - 1 \in 0..m
      BY <1>1 DEF m
    <3>2. B[i] = Feed(B[i - 1], t[i])
      BY <1>5, <3>1 DEF Runs
    <3>3. C[n + i] = Feed(C[n + (i - 1)], st[n + i])
      BY <1>6, <3>1 DEF Runs
    <3> QED
      BY <1>2, <1>8, <3>1, <3>2, <3>3
  <2>3. Feeds(B, t, m) /\ Feeds(D, t, m) /\ SameUpTo(t, t, m)
    BY <2>2 DEF Feeds, SameUpTo
  <2>4. m \in Nat
    BY <1>1
  <2> QED
    BY <2>1, <2>3, <2>4, RunsAgree
<1>10. ValidateChunk(v, st) = D[m]
  <2>1. m \in 0..m
    BY <1>1
  <2> QED
    BY <1>1, <1>6, <1>8, <2>1
<1> QED
  BY <1>3, <1>4, <1>5, <1>9, <1>10 DEF st

-----------------------------------------------------------------------------
(* The module of the algorithms, over texts and recordings of any length.  *)

\* An empty chunk changes nothing.
LEMMA EmptyChunk ==
    ASSUME NEW v \in States
    PROVE  ValidateChunk(v, <<>>) = v
<1>1. <<>> \in Seq(Nat) /\ Len(<<>>) = 0
  OBVIOUS
<1>2. PICK A : Runs(A, v, <<>>) /\ ValidateChunk(v, <<>>) = A[Len(<<>>)]
  BY <1>1, ChunkRuns
<1>3. A[0] = v
  BY <1>2 DEF Runs
<1> QED
  BY <1>1, <1>2, <1>3

\* What was fed is the text, however it came.
TextFed == text \in Seq(Nat) /\ fed = ValidateChunk(Fresh, text)

\* One byte more keeps it so.
LEMMA TextFedStep == TextFed /\ [AlgNext]_algVars => TextFed'
<1> SUFFICES ASSUME TextFed, [AlgNext]_algVars PROVE TextFed'
  OBVIOUS
<1>1. ASSUME NEW b \in Bytes, Receive(b) PROVE TextFed'
  <2>1. b \in Nat /\ <<b>> \in Seq(Nat) /\ text \in Seq(Nat) /\ text' = text \o <<b>>
    <3>1. b \in Nat
      BY DEF Bytes
    <3>2. text \in Seq(Nat) /\ text' = Append(text, b)
      BY <1>1 DEF TextFed, Receive
    <3>3. <<b>> \in Seq(Nat) /\ Append(text, b) = text \o <<b>>
      BY <3>1, <3>2
    <3> QED
      BY <3>1, <3>2, <3>3
  <2>2. fed' = ValidateChunk(fed, <<b>>)
    BY <1>1 DEF Receive
  <2>3. Fresh \in States
    BY DEF Fresh, States
  <2>4. ValidateChunk(ValidateChunk(Fresh, text), <<b>>) = ValidateChunk(Fresh, text \o <<b>>)
    BY <2>1, <2>3, ChunksJoin
  <2> QED
    BY <2>1, <2>2, <2>4 DEF TextFed
<1>2. CASE UNCHANGED <<text, fed>>
  BY <1>2 DEF TextFed
<1> QED
  BY <1>1, <1>2 DEF AlgNext, algVars, CallerSample, AgentSample

\* libwsc's validator (Utf8Validator.cpp), fed a text of any length in chunks, refuses it at
\* the first byte no continuation could make good and accepts at its end exactly what RFC
\* 3629 allows; so does the one-pass check of a close frame's reason.
THEOREM TextsAreDecided == AlgSpec => []Utf8IsRfc3629
<1>1. AlgInit => TextFed
  <2>1. Fresh \in States
    BY DEF Fresh, States
  <2> QED
    BY <2>1, EmptyChunk DEF AlgInit, TextFed
<1>2. TextFed => Utf8IsRfc3629
  <2> SUFFICES ASSUME TextFed PROVE Utf8IsRfc3629
    OBVIOUS
  <2>1. text \in Seq(Nat) /\ fed = ValidateChunk(Fresh, text)
    BY DEF TextFed
  <2>2. /\ fed # Invalid <=> Completable(text)
        /\ ValidateFinal(fed) <=> WellFormed(text)
        /\ IsValidUtf8(text) <=> WellFormed(text)
    BY <2>1, ValidatorDecides, ReasonDecides
  <2> QED
    BY <2>2 DEF Utf8IsRfc3629
<1> QED
  BY <1>1, <1>2, TextFedStep, PTL DEF AlgSpec

\* What cbuf or abuf holds after the k-th block is the k-th block of the track, over
\* something.
LEMMA BufferHolds ==
    ASSUME NEW track \in Seq(Nat), NEW n \in Nat, NEW k \in 1..n
    PROVE  \E old : BufferAfter(track, n)[k] = ReadFull(track, k, old)
<1> USE BlockAssumption
<1> DEFINE D == [1..Block -> Nat]
           silent == [i \in 1..Block |-> Silence]
           read(j, w) == ReadFull(track, j, w)
           F == [p \in Nat \X D |-> IF p[1] \in 1..n THEN read(p[1], p[2]) ELSE silent]
           Is(A) == A = [j \in 0..n |-> IF j = 0 THEN silent ELSE read(j, A[j - 1])]
<1>1. silent \in D
  BY DEF Silence
<1>2. ASSUME NEW j \in 1..n, NEW w \in D PROVE read(j, w) \in D
  <2>1. \A i \in 1..Block : (j - 1) * Block + i \in Nat \ {0}
    <3> DEFINE before == (j - 1) * Block
    <3>1. before \in Nat
      OBVIOUS
    <3> HIDE DEF before
    <3>2. \A i \in 1..Block : before + i \in Nat \ {0}
      BY <3>1
    <3> QED
      BY <3>2 DEF before
  <2>2. \A a \in Nat \ {0} : a <= Len(track) => track[a] \in Nat
    OBVIOUS
  <2> QED
    BY <2>1, <2>2 DEF ReadFull
<1>3. F \in [Nat \X D -> D]
  <2> HIDE DEF D, silent, read
  <2> QED
    BY <1>1, <1>2
<1>4. \A j \in 1..n, w \in D : F[<<j, w>>] = read(j, w)
  OBVIOUS
<1> HIDE DEF D, F, silent
<1>5. PICK A : Follows(A, D, silent, F, n)
  BY <1>1, <1>3, Recursion
<1>6. ASSUME NEW j \in 0..n PROVE A[j] = IF j = 0 THEN silent ELSE read(j, A[j - 1])
  <2> HIDE DEF read
  <2>1. CASE j = 0
    BY <1>5, <2>1 DEF Follows
  <2>2. CASE j # 0
    <3>1. j \in 1..n /\ j - 1 \in 0..n
      BY <2>2
    <3>2. A[j - 1] \in D /\ A[j] = F[<<j, A[j - 1]>>]
      BY <1>5, <3>1 DEF Follows
    <3> QED
      BY <1>4, <2>2, <3>1, <3>2
  <2> QED
    BY <2>1, <2>2
<1>7. Is(A)
  <2> HIDE DEF read
  <2>1. A = [j \in 0..n |-> A[j]]
    BY <1>5 DEF Follows
  <2> QED
    BY <1>6, <2>1, Zenon
<1> DEFINE C == CHOOSE f : Is(f)
<1>8. Is(C)
  BY <1>7, Zenon
<1>9. BufferAfter(track, n) = C
  BY DEF BufferAfter, silent
<1> HIDE DEF C
<1>10. C[k] = read(k, C[k - 1])
  <2>1. k \in 0..n /\ k # 0
    OBVIOUS
  <2> HIDE DEF read
  <2> QED
    BY <1>8, <2>1
<1> QED
  BY <1>9, <1>10

\* The i-th sample is in block k, at place j of it.
LEMMA PlaceInBlock ==
    ASSUME NEW c \in Nat, NEW i \in 1..c
    PROVE  LET k == (i - 1) \div Block + 1
               j == ((i - 1) % Block) + 1
           IN  /\ k \in 1..((c + Block - 1) \div Block)
               /\ j \in 1..Block /\ (k - 1) * Block + j = i
<1> USE BlockAssumption
<1> DEFINE d == (i - 1) \div Block
           e == (i - 1) % Block
           n == (c + Block - 1) \div Block
<1>1. i - 1 \in Nat /\ i - 1 <= c - 1 /\ c + Block - 1 \in Nat
  OBVIOUS
<1>2. d \in Nat /\ e \in 0..(Block - 1) /\ i - 1 = Block * d + e
  BY <1>1
<1>3. n \in Nat /\ c + Block - 1 < Block * n + Block
  BY <1>1
<1> HIDE DEF d, e, n
<1>4. d < n
  <2>1. Block * d < Block * n
    <3>1. Block * d \in Nat /\ Block * n \in Nat
      BY <1>2, <1>3
    <3> QED
      BY <1>1, <1>2, <1>3, <3>1
  <2> SUFFICES ASSUME n <= d PROVE FALSE
    BY <1>2, <1>3
  <2>2. Block * n <= Block * d
    BY <1>2, <1>3
  <2> QED
    BY <1>2, <1>3, <2>1, <2>2
<1>5. (d + 1) - 1 = d /\ d * Block = Block * d /\ Block * d + (e + 1) = i
  BY <1>1, <1>2
<1> QED
  BY <1>2, <1>3, <1>4, <1>5 DEF d, e, n

\* The tracks are samples.
Tracks == caller \in Seq(Nat) /\ agent \in Seq(Nat)

\* finalizeWAV (recorder.go) puts every sample of the caller, and every sample of the agent
\* as far as the caller's track reaches, at its own position on its own channel, for tracks
\* and buffers of any length.
THEOREM TracksAreKept == AlgSpec => []TracksKeepTheirPlace
<1>1. AlgInit => Tracks
  BY DEF AlgInit, Tracks
<1>2. Tracks /\ [AlgNext]_algVars => Tracks'
  <2> SUFFICES ASSUME Tracks, [AlgNext]_algVars PROVE Tracks'
    OBVIOUS
  <2>1. Len(caller) + 1 \in Nat /\ Len(agent) + 1 \in Nat
    BY DEF Tracks
  <2>2. CASE CallerSample
    BY <2>1, <2>2, AppendProperties DEF Tracks, CallerSample
  <2>3. CASE AgentSample
    BY <2>1, <2>3, AppendProperties DEF Tracks, AgentSample
  <2>4. CASE UNCHANGED <<caller, agent>>
    BY <2>4 DEF Tracks
  <2> QED
    BY <2>2, <2>3, <2>4 DEF AlgNext, algVars, Receive
<1>3. Tracks => TracksKeepTheirPlace
  <2> DEFINE c == Len(caller)
             n == (c + Block - 1) \div Block
             wav == FinalizeWAV(caller, agent)
  <2> SUFFICES ASSUME Tracks PROVE TracksKeepTheirPlace
    OBVIOUS
  <2>0. DOMAIN caller = 1..c /\ DOMAIN agent = 1..Len(agent)
    BY DEF Tracks
  <2> SUFFICES ASSUME NEW i \in 1..c
               PROVE  wav[i][1] = caller[i] /\ (i \in 1..Len(agent) => wav[i][2] = agent[i])
    <3> HIDE DEF c
    <3> QED
      BY <2>0 DEF TracksKeepTheirPlace
  <2> DEFINE k == (i - 1) \div Block + 1
             j == ((i - 1) % Block) + 1
  <2>1. caller \in Seq(Nat) /\ agent \in Seq(Nat) /\ c \in Nat /\ Len(agent) \in Nat
    BY DEF Tracks
  <2>2. k \in 1..n /\ j \in 1..Block /\ (k - 1) * Block + j = i /\ n \in Nat
    <3>1. c \in Nat /\ i \in 1..c
      BY <2>1
    <3> HIDE DEF c
    <3>2. k \in 1..n /\ j \in 1..Block /\ (k - 1) * Block + j = i
      BY <3>1, PlaceInBlock
    <3>3. n \in Nat
      BY <3>1, BlockAssumption
    <3> QED
      BY <3>2, <3>3
  <2>3. wav[i] = <<BufferAfter(caller, n)[k][j], BufferAfter(agent, n)[k][j]>>
    BY <2>1 DEF FinalizeWAV
  <2> HIDE DEF k, j, n, wav
  <2>4. PICK a : BufferAfter(caller, n)[k] = ReadFull(caller, k, a)
    BY <2>1, <2>2, BufferHolds
  <2>5. PICK b : BufferAfter(agent, n)[k] = ReadFull(agent, k, b)
    BY <2>1, <2>2, BufferHolds
  <2>6. ReadFull(caller, k, a)[j] = caller[i]
    BY <2>1, <2>2 DEF ReadFull
  <2>7. i \in 1..Len(agent) => ReadFull(agent, k, b)[j] = agent[i]
    BY <2>1, <2>2 DEF ReadFull
  <2> QED
    BY <2>3, <2>4, <2>5, <2>6, <2>7
<1> QED
  BY <1>1, <1>2, <1>3, PTL DEF AlgSpec

-----------------------------------------------------------------------------
(* Arithmetic.                                                             *)

\* Up rounds up: so many chunks are enough and one less is not.
LEMMA UpCovers ==
    ASSUME NEW a \in Nat, NEW b \in Nat \ {0}
    PROVE  /\ Up(a, b) \in Nat
           /\ b * Up(a, b) >= a /\ b * Up(a, b) < a + b
<1> DEFINE q == (a + b - 1) \div b
<1>1. q \in Nat /\ b * q <= a + b - 1 /\ a + b - 1 < b * q + b
  OBVIOUS
<1> QED
  BY <1>1 DEF Up

\* Multiplying keeps an order of numbers.
LEMMA Scaled ==
    ASSUME NEW a \in Nat, NEW b \in Nat, NEW r \in Nat \ {0}, a <= b
    PROVE  r * a <= r * b /\ r * a \in Nat /\ r * b \in Nat
OBVIOUS

\* Multiplying a strict order by r leaves a gap of r.
LEMMA ScaledLess ==
    ASSUME NEW a \in Nat, NEW b \in Nat, NEW r \in Nat \ {0}, a < b
    PROVE  r * a + r <= r * b
OBVIOUS

Sample == Nat \X Nat
Part == Nat \X Nat \X Nat

\* Oldest and Behind cut a buffer in two at n.
LEMMA Halves ==
    ASSUME NEW S, NEW q \in Seq(S), NEW n \in Nat
    PROVE  /\ Oldest(q, n) \in Seq(S) /\ Behind(q, n) \in Seq(S)
           /\ Len(Oldest(q, n)) = Least(n, Len(q))
           /\ \A i \in 1..Least(n, Len(q)) : Oldest(q, n)[i] = q[i]
           /\ Len(Behind(q, n)) = Len(q) - Least(n, Len(q))
           /\ \A i \in 1..(Len(q) - Least(n, Len(q))) : Behind(q, n)[i] = q[n + i]
<1> DEFINE m == Least(n, Len(q))
<1>1. Len(q) \in Nat /\ m \in 0..Len(q) /\ (m = n \/ (n > Len(q) /\ m = Len(q)))
  BY DEF Least
<1>2. \A i \in 1..Len(q) : q[i] \in S
  BY ElementOfSeq
<1>3. /\ Oldest(q, n) \in Seq(S) /\ Len(Oldest(q, n)) = m
      /\ \A i \in 1..m : Oldest(q, n)[i] = q[i]
  <2> HIDE DEF m
  <2> QED BY <1>1, <1>2, SubSeqProperties DEF Oldest, m
<1>4. /\ Behind(q, n) \in Seq(S) /\ Len(Behind(q, n)) = Len(q) - m
      /\ \A i \in 1..(Len(q) - m) : Behind(q, n)[i] = q[n + i]
  <2> HIDE DEF m
  <2> QED BY <1>1, <1>2, SubSeqProperties DEF Behind
<1> QED BY <1>3, <1>4

\* Part j of what speex makes is a part of sample Up(j, r).
LEMMA ResampledIs ==
    ASSUME NEW q \in Seq(Sample), NEW r \in Nat \ {0}
    PROVE  /\ Resampled(q, r) \in Seq(Part)
           /\ Len(Resampled(q, r)) = r * Len(q)
           /\ \A j \in 1..Len(Resampled(q, r)) :
                /\ Up(j, r) \in 1..Len(q)
                /\ Resampled(q, r)[j] = <<q[Up(j, r)][1], q[Up(j, r)][2], j - r * (Up(j, r) - 1)>>
<1>1. r * Len(q) \in Nat
  OBVIOUS
<1>2. ASSUME NEW j \in 1..(r * Len(q))
      PROVE  Up(j, r) \in 1..Len(q) /\ j - r * (Up(j, r) - 1) \in Nat
  <2>0. j \in Nat \ {0} /\ j <= r * Len(q)
    BY <1>1
  <2>1. Up(j, r) \in Nat /\ r * Up(j, r) >= j /\ r * Up(j, r) < j + r
    BY <2>0, UpCovers
  <2>2. Up(j, r) # 0
    BY <2>1
  <2>3. Up(j, r) <= Len(q)
    <3>1. CASE Up(j, r) > Len(q)
      <4>1. r * Len(q) + r <= r * Up(j, r)
        BY <3>1, <2>1, ScaledLess
      <4> QED BY <4>1, <2>0, <2>1, <1>1
    <3> QED BY <3>1, <2>1
  <2>4. r * (Up(j, r) - 1) = r * Up(j, r) - r
    BY <2>1
  <2> QED BY <2>0, <2>1, <2>2, <2>3, <2>4
<1> DEFINE e(j) == <<q[Up(j, r)][1], q[Up(j, r)][2], j - r * (Up(j, r) - 1)>>
<1>3. \A j \in 1..(r * Len(q)) : e(j) \in Part
  <2> TAKE j \in 1..(r * Len(q))
  <2> DEFINE x == q[Up(j, r)]
             d == j - r * (Up(j, r) - 1)
  <2>1. x \in Nat \X Nat
    BY <1>2, ElementOfSeq DEF Sample
  <2>2. d \in Nat
    BY <1>2
  <2> HIDE DEF x, d
  <2>3. <<x[1], x[2], d>> \in Part
    BY <2>1, <2>2 DEF Part
  <2> QED BY <2>3 DEF x, d
<1>4. Resampled(q, r) = [j \in 1..(r * Len(q)) |-> e(j)]
  BY DEF Resampled
<1> DEFINE c == Resampled(q, r)
<1> HIDE DEF e
<1>5. c \in Seq(Part) /\ Len(c) = r * Len(q)
  BY <1>1, <1>3, <1>4
<1>6. \A j \in 1..(r * Len(q)) : c[j] = e(j) /\ Up(j, r) \in 1..Len(q)
  BY <1>2, <1>4
<1> HIDE DEF c
<1>7. \A j \in 1..Len(c) : c[j] = e(j) /\ Up(j, r) \in 1..Len(q)
  BY <1>5, <1>6
<1> QED
  BY <1>5, <1>7 DEF c, e

-----------------------------------------------------------------------------
(* Order.                                                                  *)

\* Sample a was sent before sample b.
Precedes(a, b) == a[1] < b[1] \/ (a[1] = b[1] /\ a[2] < b[2])
Ahead(A, B) == \A a \in A, b \in B : Precedes(a, b)

\* The samples of p are in the order they were sent in, those of q are, part by part.
InTurn(p) == \A i, j \in 1..Len(p) : i < j => Precedes(p[i], p[j])
Sorted(q) == \A i, j \in 1..Len(q) : i < j => Before(q[i], q[j])

\* The sources of a buffer are those of its places.
LEMMA SourcesAre ==
    ASSUME NEW S, NEW q \in Seq(S)
    PROVE  /\ \A i \in 1..Len(q) : <<q[i][1], q[i][2]>> \in Sources(q)
           /\ \A x \in Sources(q) : \E i \in 1..Len(q) : x = <<q[i][1], q[i][2]>>
BY DEF Sources

\* What is dropped from play_buffer is counted as lost sample by sample.
LEMMA SamplesAreSources ==
    ASSUME NEW q \in Seq(Sample)
    PROVE  ToSet(q) = Sources(q)
<1>1. \A i \in DOMAIN q : q[i] = <<q[i][1], q[i][2]>>
  BY DEF Sample
<1> QED
  BY <1>1 DEF ToSet, Sources

\* Where the elements of a concatenation are.
LEMMA Joined ==
    ASSUME NEW S, NEW p \in Seq(S), NEW q \in Seq(S)
    PROVE  /\ p \o q \in Seq(S) /\ Len(p \o q) = Len(p) + Len(q)
           /\ Len(p) \in Nat /\ Len(q) \in Nat
           /\ \A i \in 1..Len(p) : i \in 1..Len(p \o q) /\ (p \o q)[i] = p[i]
           /\ \A i \in 1..Len(q) : Len(p) + i \in 1..Len(p \o q) /\ (p \o q)[Len(p) + i] = q[i]
           /\ \A i \in 1..Len(p \o q) :
                i \in 1..Len(p) \/ (i - Len(p) \in 1..Len(q) /\ (p \o q)[i] = q[i - Len(p)])
<1>1. /\ p \o q \in Seq(S) /\ Len(p \o q) = Len(p) + Len(q)
      /\ Len(p) \in Nat /\ Len(q) \in Nat
      /\ \A i \in 1..(Len(p) + Len(q)) : (p \o q)[i] = IF i <= Len(p) THEN p[i] ELSE q[i - Len(p)]
  BY ConcatProperties
<1>2. \A i \in 1..Len(q) : ~(Len(p) + i <= Len(p)) /\ (Len(p) + i) - Len(p) = i
  BY <1>1
<1> QED BY <1>1, <1>2

\* A concatenation has the sources of both.
LEMMA CatSources ==
    ASSUME NEW S, NEW p \in Seq(S), NEW q \in Seq(S)
    PROVE  Sources(p \o q) = Sources(p) \union Sources(q)
<1> DEFINE c == p \o q
<1>1. /\ c \in Seq(S)
      /\ \A i \in 1..Len(p) : i \in 1..Len(c) /\ c[i] = p[i]
      /\ \A i \in 1..Len(q) : Len(p) + i \in 1..Len(c) /\ c[Len(p) + i] = q[i]
      /\ \A i \in 1..Len(c) :
                i \in 1..Len(p) \/ (i - Len(p) \in 1..Len(q) /\ c[i] = q[i - Len(p)])
  BY Joined
<1> HIDE DEF c
<1>2. ASSUME NEW x \in Sources(c)
      PROVE  x \in Sources(p) \union Sources(q)
  <2>1. PICK i \in 1..Len(c) : x = <<c[i][1], c[i][2]>>
    BY <1>1, SourcesAre
  <2>2. CASE i \in 1..Len(p)
    BY <2>1, <2>2, <1>1, SourcesAre
  <2>3. CASE i - Len(p) \in 1..Len(q) /\ c[i] = q[i - Len(p)]
    BY <2>1, <2>3, SourcesAre
  <2> QED BY <2>2, <2>3, <1>1
<1>3. ASSUME NEW x \in Sources(p)
      PROVE  x \in Sources(c)
  <2>1. PICK i \in 1..Len(p) : x = <<p[i][1], p[i][2]>>
    BY SourcesAre
  <2> QED BY <2>1, <1>1, SourcesAre
<1>4. ASSUME NEW x \in Sources(q)
      PROVE  x \in Sources(c)
  <2>1. PICK i \in 1..Len(q) : x = <<q[i][1], q[i][2]>>
    BY SourcesAre
  <2>2. Len(p) + i \in 1..Len(c) /\ c[Len(p) + i] = q[i]
    BY <1>1
  <2>3. <<c[Len(p) + i][1], c[Len(p) + i][2]>> \in Sources(c)
    BY <2>2, <1>1, SourcesAre
  <2> QED BY <2>1, <2>2, <2>3
<1>5. Sources(c) = Sources(p) \union Sources(q)
  BY <1>2, <1>3, <1>4
<1> QED BY <1>5 DEF c

\* Cutting a buffer in two loses nothing.
LEMMA Rejoined ==
    ASSUME NEW S, NEW q \in Seq(S), NEW n \in Nat
    PROVE  Oldest(q, n) \o Behind(q, n) = q
<1>1. Len(q) \in Nat
  OBVIOUS
<1>2. CASE n <= Len(q)
  <2>1. Least(n, Len(q)) = n
    BY <1>2 DEF Least
  <2>2. Oldest(q, n) = SubSeq(q, 1, n) /\ Behind(q, n) = SubSeq(q, n + 1, Len(q))
    BY <2>1 DEF Oldest, Behind
  <2>3. 1 \in 1..(Len(q) + 1) /\ n \in (1 - 1)..Len(q) /\ Len(q) \in n..Len(q)
    BY <1>1, <1>2
  <2>4. SubSeq(q, 1, n) \o SubSeq(q, n + 1, Len(q)) = SubSeq(q, 1, Len(q))
    BY <2>3, ConcatAdjacentSubSeq, Zenon
  <2> QED
    BY <2>2, <2>4, SubSeqFull
<1>3. CASE n > Len(q)
  <2>1. Least(n, Len(q)) = Len(q)
    BY <1>1, <1>3 DEF Least
  <2>2. Oldest(q, n) = q
    BY <2>1, SubSeqFull, Zenon DEF Oldest
  <2>3. Behind(q, n) = <<>>
    BY <1>1, <1>3, SubSeqEmpty DEF Behind
  <2> QED
    BY <2>2, <2>3, ConcatEmptySeq, Zenon
<1> QED BY <1>1, <1>2, <1>3

\* Nor does it lose a source.
LEMMA CutSources ==
    ASSUME NEW S, NEW q \in Seq(S), NEW n \in Nat
    PROVE  Sources(q) = Sources(Oldest(q, n)) \union Sources(Behind(q, n))
<1> DEFINE a == Oldest(q, n)
           b == Behind(q, n)
<1>1. a \in Seq(S) /\ b \in Seq(S)
  BY Halves
<1>2. a \o b = q
  BY Rejoined
<1> HIDE DEF a, b
<1>3. Sources(a \o b) = Sources(a) \union Sources(b)
  BY <1>1, CatSources
<1> QED BY <1>2, <1>3 DEF a, b

\* A buffer is in turn when its parts are and the first is ahead of the second.
LEMMA TurnJoins ==
    ASSUME NEW p \in Seq(Sample), NEW q \in Seq(Sample)
    PROVE  InTurn(p \o q) <=> InTurn(p) /\ InTurn(q) /\ Ahead(Sources(p), Sources(q))
<1>1. /\ Len(p \o q) = Len(p) + Len(q) /\ Len(p) \in Nat /\ Len(q) \in Nat
      /\ \A i \in 1..(Len(p) + Len(q)) : (p \o q)[i] = IF i <= Len(p) THEN p[i] ELSE q[i - Len(p)]
  BY ConcatProperties
<1>2. /\ \A i \in 1..Len(p) : (p \o q)[i] = p[i]
      /\ \A i \in 1..Len(q) : (p \o q)[Len(p) + i] = q[i]
  BY <1>1
<1>3. ASSUME InTurn(p \o q)
      PROVE  InTurn(p) /\ InTurn(q) /\ Ahead(Sources(p), Sources(q))
  <2>1. InTurn(p)
    BY <1>1, <1>2, <1>3 DEF InTurn
  <2>2. ASSUME NEW i \in 1..Len(q), NEW j \in 1..Len(q), i < j
        PROVE  Precedes(q[i], q[j])
    <3>1. Len(p) + i \in 1..Len(p \o q) /\ Len(p) + j \in 1..Len(p \o q) /\ Len(p) + i < Len(p) + j
      BY <1>1, <2>2
    <3> QED BY <3>1, <1>2, <1>3 DEF InTurn
  <2>3. ASSUME NEW i \in 1..Len(p), NEW j \in 1..Len(q)
        PROVE  Precedes(p[i], q[j])
    <3>1. i \in 1..Len(p \o q) /\ Len(p) + j \in 1..Len(p \o q) /\ i < Len(p) + j
      BY <1>1
    <3> QED BY <3>1, <1>2, <1>3 DEF InTurn
  <2>4. Ahead(Sources(p), Sources(q))
    BY <2>3, SourcesAre DEF Ahead, Precedes
  <2> QED BY <2>1, <2>2, <2>4 DEF InTurn
<1>4. ASSUME InTurn(p), InTurn(q), Ahead(Sources(p), Sources(q)),
             NEW i \in 1..Len(p \o q), NEW j \in 1..Len(p \o q), i < j
      PROVE  Precedes((p \o q)[i], (p \o q)[j])
  <2>1. CASE j <= Len(p)
    <3>1. i \in 1..Len(p) /\ j \in 1..Len(p)
      BY <2>1, <1>4, <1>1
    <3> QED BY <3>1, <1>2, <1>4 DEF InTurn
  <2>2. CASE i > Len(p)
    <3>1. /\ i - Len(p) \in 1..Len(q) /\ j - Len(p) \in 1..Len(q)
          /\ i - Len(p) < j - Len(p) /\ ~(i <= Len(p)) /\ ~(j <= Len(p))
      BY <2>2, <1>4, <1>1
    <3>2. (p \o q)[i] = q[i - Len(p)] /\ (p \o q)[j] = q[j - Len(p)]
      BY <3>1, <1>1
    <3> QED BY <3>1, <3>2, <1>4 DEF InTurn
  <2>3. CASE i <= Len(p) /\ j > Len(p)
    <3>1. i \in 1..Len(p) /\ j - Len(p) \in 1..Len(q) /\ ~(j <= Len(p))
      BY <2>3, <1>4, <1>1
    <3>2. (p \o q)[i] = p[i] /\ (p \o q)[j] = q[j - Len(p)]
      BY <3>1, <1>1, <1>2
    <3>3. /\ <<p[i][1], p[i][2]>> \in Sources(p)
          /\ <<q[j - Len(p)][1], q[j - Len(p)][2]>> \in Sources(q)
      BY <3>1, SourcesAre
    <3> QED BY <3>2, <3>3, <1>4 DEF Ahead, Precedes
  <2> QED BY <2>1, <2>2, <2>3, <1>1, <1>4
<1> QED BY <1>3, <1>4 DEF InTurn

\* Parts of different samples are in the order of their samples.
LEMMA PrecedesIsBefore ==
    ASSUME NEW a \in Part, NEW b \in Part, Precedes(<<a[1], a[2]>>, <<b[1], b[2]>>)
    PROVE  Before(a, b)
BY DEF Precedes, Before

\* Resampled audio stays in order when later audio is put behind it.
LEMMA SortedJoins ==
    ASSUME NEW p \in Seq(Part), NEW q \in Seq(Part),
           Sorted(p), Sorted(q), Ahead(Sources(p), Sources(q))
    PROVE  Sorted(p \o q)
<1> DEFINE c == p \o q
<1>1. /\ Len(p) \in Nat /\ Len(q) \in Nat /\ Len(c) = Len(p) + Len(q)
      /\ \A i \in 1..Len(p) : c[i] = p[i]
      /\ \A i \in 1..Len(c) :
                i \in 1..Len(p) \/ (i - Len(p) \in 1..Len(q) /\ c[i] = q[i - Len(p)])
  BY Joined
<1> HIDE DEF c
<1> SUFFICES ASSUME NEW i \in 1..Len(c), NEW j \in 1..Len(c), i < j
             PROVE  Before(c[i], c[j])
  BY DEF c, Sorted
<1>2. CASE j \in 1..Len(p)
  <2>1. i \in 1..Len(p)
    BY <1>1, <1>2
  <2> QED BY <2>1, <1>1, <1>2 DEF Sorted
<1>3. CASE i \notin 1..Len(p) /\ j \notin 1..Len(p)
  <2>1. /\ i - Len(p) \in 1..Len(q) /\ c[i] = q[i - Len(p)]
        /\ j - Len(p) \in 1..Len(q) /\ c[j] = q[j - Len(p)]
        /\ i - Len(p) < j - Len(p)
    BY <1>1, <1>3
  <2> QED BY <2>1 DEF Sorted
<1>4. CASE i \in 1..Len(p) /\ j \notin 1..Len(p)
  <2>1. c[i] = p[i] /\ j - Len(p) \in 1..Len(q) /\ c[j] = q[j - Len(p)]
    BY <1>1, <1>4
  <2>2. c[i] \in Part /\ c[j] \in Part
    BY <2>1, <1>4, ElementOfSeq
  <2>3. Precedes(<<c[i][1], c[i][2]>>, <<c[j][1], c[j][2]>>)
    BY <2>1, <1>4, SourcesAre DEF Ahead
  <2> QED BY <2>2, <2>3, PrecedesIsBefore
<1>5. j \in 1..Len(p) => i \in 1..Len(p)
  BY <1>1
<1> QED BY <1>2, <1>3, <1>4, <1>5

\* The front of what is in order is in order.
LEMMA SortedFront ==
    ASSUME NEW p \in Seq(Part), NEW q \in Seq(Part), Sorted(p \o q)
    PROVE  Sorted(p)
<1>1. \A i \in 1..Len(p) : i \in 1..Len(p \o q) /\ (p \o q)[i] = p[i]
  BY Joined
<1> QED BY <1>1 DEF Sorted

\* A later part comes of the same sample or a later one.
LEMMA UpMonotonic ==
    ASSUME NEW i \in Nat, NEW j \in Nat, i < j, NEW r \in Nat \ {0}
    PROVE  Up(i, r) \in Nat /\ Up(j, r) \in Nat /\ Up(i, r) <= Up(j, r)
<1>1. Up(i, r) \in Nat /\ r * Up(i, r) < i + r
  BY UpCovers
<1>2. Up(j, r) \in Nat /\ r * Up(j, r) >= j
  BY UpCovers
<1>3. CASE Up(j, r) < Up(i, r)
  <2>1. r * Up(j, r) + r <= r * Up(i, r)
    BY <1>1, <1>2, <1>3, ScaledLess
  <2>2. r * Up(j, r) \in Nat /\ r * Up(i, r) \in Nat
    BY <1>1, <1>2
  <2> QED BY <2>1, <2>2, <1>1, <1>2
<1> QED BY <1>1, <1>2, <1>3

\* The last part of sample i comes of sample i.
LEMMA UpOfMultiple ==
    ASSUME NEW i \in Nat, NEW r \in Nat \ {0}
    PROVE  Up(r * i, r) = i
<1>1. r * i \in Nat
  OBVIOUS
<1>2. Up(r * i, r) \in Nat /\ r * Up(r * i, r) >= r * i /\ r * Up(r * i, r) < r * i + r
  BY <1>1, UpCovers
<1>3. r * Up(r * i, r) \in Nat
  BY <1>2
<1>4. CASE Up(r * i, r) < i
  BY <1>4, <1>1, <1>2, <1>3, ScaledLess
<1>5. CASE Up(r * i, r) > i
  BY <1>5, <1>1, <1>2, <1>3, ScaledLess
<1> QED BY <1>2, <1>4, <1>5

\* speex keeps the order.
LEMMA ResampledSorted ==
    ASSUME NEW q \in Seq(Sample), NEW r \in Nat \ {0}, InTurn(q)
    PROVE  Sorted(Resampled(q, r))
<1> DEFINE c == Resampled(q, r)
<1>0. r * Len(q) \in Nat
  OBVIOUS
<1>1. /\ c \in Seq(Part) /\ Len(c) = r * Len(q)
      /\ \A j \in 1..Len(c) :
            /\ Up(j, r) \in 1..Len(q)
            /\ c[j] = <<q[Up(j, r)][1], q[Up(j, r)][2], j - r * (Up(j, r) - 1)>>
  BY ResampledIs
<1> HIDE DEF c
<1> SUFFICES ASSUME NEW i \in 1..Len(c), NEW j \in 1..Len(c), i < j
             PROVE  Before(c[i], c[j])
  BY DEF c, Sorted
<1>2. i \in Nat /\ j \in Nat
  BY <1>0, <1>1
<1>3. Up(i, r) \in 1..Len(q) /\ Up(j, r) \in 1..Len(q) /\ Up(i, r) <= Up(j, r)
  BY <1>1, <1>2, UpMonotonic
<1> DEFINE m == Up(i, r)
           n == Up(j, r)
<1>4. /\ c[i] = <<q[m][1], q[m][2], i - r * (m - 1)>>
      /\ c[j] = <<q[n][1], q[n][2], j - r * (n - 1)>>
  BY <1>1
<1>5. /\ c[i][1] = q[m][1] /\ c[i][2] = q[m][2] /\ c[i][3] = i - r * (m - 1)
      /\ c[j][1] = q[n][1] /\ c[j][2] = q[n][2] /\ c[j][3] = j - r * (n - 1)
  <2> HIDE DEF m, n
  <2> QED BY <1>4
<1>6. CASE Up(i, r) < Up(j, r)
  <2>1. Precedes(q[m], q[n])
    BY <1>3, <1>6 DEF InTurn
  <2> QED BY <2>1, <1>5 DEF Precedes, Before
<1>7. CASE Up(i, r) = Up(j, r)
  <2>1. r * (Up(i, r) - 1) \in Int
    BY <1>3
  <2>2. i - r * (Up(i, r) - 1) < j - r * (Up(j, r) - 1)
    BY <2>1, <1>2, <1>7
  <2>3. c[i][1] = c[j][1] /\ c[i][2] = c[j][2] /\ c[i][3] < c[j][3]
    BY <2>2, <1>5, <1>7
  <2> QED BY <2>3 DEF Before
<1> QED BY <1>3, <1>6, <1>7

\* speex loses and invents no sample.
LEMMA ResampledSources ==
    ASSUME NEW q \in Seq(Sample), NEW r \in Nat \ {0}
    PROVE  Sources(Resampled(q, r)) = Sources(q)
<1> DEFINE c == Resampled(q, r)
<1>0. r * Len(q) \in Nat
  OBVIOUS
<1>1. /\ c \in Seq(Part) /\ Len(c) = r * Len(q)
      /\ \A j \in 1..Len(c) :
            /\ Up(j, r) \in 1..Len(q)
            /\ c[j] = <<q[Up(j, r)][1], q[Up(j, r)][2], j - r * (Up(j, r) - 1)>>
  BY ResampledIs
<1> HIDE DEF c
<1>2. ASSUME NEW x \in Sources(c)
      PROVE  x \in Sources(q)
  <2>1. PICK j \in 1..Len(c) : x = <<c[j][1], c[j][2]>>
    BY <1>1, SourcesAre
  <2>2. x = <<q[Up(j, r)][1], q[Up(j, r)][2]>> /\ Up(j, r) \in 1..Len(q)
    BY <2>1, <1>1
  <2> QED BY <2>2, SourcesAre
<1>3. ASSUME NEW x \in Sources(q)
      PROVE  x \in Sources(c)
  <2>1. PICK i \in 1..Len(q) : x = <<q[i][1], q[i][2]>>
    BY SourcesAre
  <2>2. r * i \in Nat /\ r * i <= r * Len(q) /\ r * i >= 1
    <3>1. i \in Nat /\ Len(q) \in Nat /\ i <= Len(q)
      OBVIOUS
    <3>2. r * i \in Nat /\ r * i <= r * Len(q)
      BY <3>1, Scaled
    <3>3. r * i >= 1
      OBVIOUS
    <3> QED BY <3>2, <3>3
  <2>3. Up(r * i, r) = i
    BY UpOfMultiple
  <2>4. r * i \in 1..Len(c)
    BY <2>2, <1>0, <1>1
  <2>5. x = <<c[r * i][1], c[r * i][2]>>
    <3> DEFINE k == r * i
    <3>1. k \in 1..Len(c) /\ Up(k, r) = i
      BY <2>3, <2>4
    <3> HIDE DEF k
    <3>2. c[k] = <<q[i][1], q[i][2], k - r * (i - 1)>>
      BY <3>1, <1>1
    <3>3. c[k][1] = q[i][1] /\ c[k][2] = q[i][2]
      BY <3>2
    <3>4. x = <<c[k][1], c[k][2]>>
      BY <3>3, <2>1
    <3> QED BY <3>4 DEF k
  <2> QED BY <2>4, <2>5, <1>1, SourcesAre
<1> QED BY <1>2, <1>3 DEF c

-----------------------------------------------------------------------------
(* Types.                                                                  *)

Message == [kind : Nat, bytes : Seq(Nat)]
Assembled == [inProgress : BOOLEAN, opcode : Nat, z : BOOLEAN, bytes : Seq(Nat)]

\* What the receiver holds, as far as the messages depend on it.
RxTypes ==
    /\ stream \in Seq(Frames) /\ handled \in Nat
    /\ message \in Assembled
    /\ delivered \in Seq(Message)

PbTypes ==
    /\ play \in Seq(Sample) /\ stash \in Seq(Part) /\ heard \in Seq(Part)
    /\ rate \in Nat

\* The step gives the application one more message, or none.
OneMore == delivered' = delivered \/ \E m \in Message : delivered' = Append(delivered, m)

\* A fragment taken adds at most one message, and it is a sequence of bytes: compressed
\* text is delivered only if it inflates.
LEMMA AssembleTypes ==
    ASSUME RxTypes, NEW m \in Assembled,
           NEW v0, NEW f \in Frames, Assemble(m, v0, f)
    PROVE  /\ OneMore
           /\ message' \in Assembled
<1>1. message' = NoMessage \/ message' = m
  BY DEF Assemble
<1>2. <<>> \in Seq(Nat)
  BY EmptySeq
<1>3. message' \in Assembled
  <2>1. NoMessage \in Assembled
    BY <1>2 DEF NoMessage, Assembled
  <2> QED BY <1>1, <2>1
<1> DEFINE content == IF m.z THEN Inflate(m.bytes) ELSE m.bytes
<1>4. \/ delivered' = delivered
      \/ /\ m.z => Inflates(m.bytes)
         /\ delivered' = Append(delivered, [kind |-> m.opcode, bytes |-> content])
  BY DEF Assemble, EndWith, Deliver, Silently
<1>5. ASSUME m.z => Inflates(m.bytes)
      PROVE  content \in Seq(Nat)
  <2>1. CASE m.z
    <3> DEFINE b == m.bytes
    <3>1. b \in Seq(Nat) /\ Len(b) \in Nat /\ DOMAIN b = 1..Len(b)
      BY DEF Assembled
    <3>2. \A i \in 1..Len(b) : b[i] \in Nat /\ b[i] - Deflated \in Nat
      <4>1. \A i \in 1..Len(b) : b[i] \in Nat
        BY <3>1, ElementOfSeq
      <4>2. \A i \in 1..Len(b) : b[i] >= 1000
        BY <2>1, <1>5, <3>1 DEF Inflates, Deflated
      <4> QED BY <4>1, <4>2 DEF Deflated
    <3> HIDE DEF b
    <3>3. [i \in 1..Len(b) |-> b[i] - Deflated] \in Seq(Nat)
      BY <3>1, <3>2
    <3> QED BY <2>1, <3>1, <3>3 DEF Inflate, b
  <2>2. CASE ~m.z
    BY <2>2 DEF Assembled
  <2> QED BY <2>1, <2>2
<1> HIDE DEF content
<1>6. ASSUME content \in Seq(Nat)
      PROVE  [kind |-> m.opcode, bytes |-> content] \in Message
  BY <1>6 DEF Message, Assembled
<1> QED BY <1>3, <1>4, <1>5, <1>6 DEF OneMore

\* One frame of onData's loop gives the application at most one message.
LEMMA FrameTypes ==
    ASSUME RxTypes, HandleFrame
    PROVE  RxTypes' /\ OneMore
<1> DEFINE f == stream[handled + 1]
<1>1. f \in Frames
  BY ElementOfSeq DEF RxTypes, HandleFrame
<1>2. /\ f.op \in Nat /\ f.z \in BOOLEAN /\ f.bytes \in Seq(Nat)
  BY <1>1, FramesAssumption
<1>3. stream' \in Seq(Frames) /\ handled' \in Nat
  BY DEF RxTypes, HandleFrame, input
<1>4. ASSUME OneMore, message' \in Assembled
      PROVE  RxTypes'
  <2>1. delivered' \in Seq(Message)
    BY <1>4, AppendProperties DEF RxTypes, OneMore
  <2> QED BY <2>1, <1>3, <1>4 DEF RxTypes
<1>5. CASE message' = message /\ delivered' = delivered
  BY <1>3, <1>5 DEF RxTypes, OneMore
<1>6. CASE Continuation_(f)
  <2>1. CASE message.inProgress
    <3>1. [message EXCEPT !.bytes = @ \o f.bytes] \in Assembled
      <4>1. message.bytes \in Seq(Nat)
        BY DEF RxTypes, Assembled
      <4>2. message.bytes \o f.bytes \in Seq(Nat)
        BY <4>1, <1>2
      <4> QED BY <4>2 DEF RxTypes, Assembled
    <3>2. Assemble([message EXCEPT !.bytes = @ \o f.bytes], validator, f)
      BY <1>6, <2>1 DEF Continuation_
    <3> QED BY <1>1, <1>3, <3>1, <3>2, <1>4, AssembleTypes
  <2>2. CASE ~message.inProgress
    BY <1>5, <1>6, <2>2 DEF Continuation_, EndWith, assembly
  <2> QED BY <2>1, <2>2
<1>7. CASE DataFrame(f)
  <2>1. CASE ~message.inProgress
    <3>1. [inProgress |-> TRUE, opcode |-> f.op, z |-> f.z, bytes |-> f.bytes] \in Assembled
      BY <1>2 DEF Assembled
    <3>2. Assemble([inProgress |-> TRUE, opcode |-> f.op, z |-> f.z, bytes |-> f.bytes], Fresh, f)
      BY <1>7, <2>1 DEF DataFrame
    <3> QED BY <1>1, <1>3, <3>1, <3>2, <1>4, AssembleTypes
  <2>2. CASE message.inProgress
    BY <1>5, <1>7, <2>2 DEF DataFrame, EndWith, assembly
  <2> QED BY <2>1, <2>2
<1> QED
  BY <1>5, <1>6, <1>7 DEF HandleFrame, EndWith, assembly

\* So does any step of the receiver.
LEMMA ReceiverTypes ==
    ASSUME RxTypes, RxNext
    PROVE  RxTypes' /\ OneMore
<1>1. CASE HandleFrame
  BY <1>1, FrameTypes
<1>2. ASSUME NEW f \in Frames, NEW part \in BOOLEAN, Arrive(f, part)
      PROVE  RxTypes' /\ OneMore
  BY <1>2 DEF RxTypes, OneMore, Arrive, assembly
<1>3. CASE Upgrade \/ ArriveRest \/ StopRequested \/ StopReading
  BY <1>3 DEF RxTypes, OneMore, Upgrade, ArriveRest, StopRequested, StopReading, assembly, input
<1> QED BY <1>1, <1>2, <1>3 DEF RxNext

-----------------------------------------------------------------------------
(* A frame of the media thread.                                            *)

Kept(r) == IF r = rate THEN stash ELSE <<>>
Wanted(r) == Up(FrameSize * r - Least(FrameSize * r, Len(Kept(r))), Chunk * r) * Chunk
Moved(r) == Oldest(play, Wanted(r))
Full(r) == Kept(r) \o Resampled(Moved(r), r)

\* What a frame of rate r keeps, moves and plays from.
LEMMA FrameParts ==
    ASSUME PbTypes, NEW r \in Nat \ {0}
    PROVE  /\ Kept(r) \in Seq(Part) /\ Moved(r) \in Seq(Sample) /\ Full(r) \in Seq(Part)
           /\ Wanted(r) \in Nat /\ Len(Moved(r)) = Least(Wanted(r), Len(play))
           /\ Behind(play, Len(Moved(r))) \in Seq(Sample)
           /\ Moved(r) \o Behind(play, Len(Moved(r))) = play
           /\ Len(Full(r)) = Len(Kept(r)) + r * Len(Moved(r))
           /\ FrameSize * r \in Nat /\ Len(Kept(r)) \in Nat
<1>1. Kept(r) \in Seq(Part) /\ Len(Kept(r)) \in Nat
  BY EmptySeq DEF PbTypes, Kept
<1>2. FrameSize * r \in Nat /\ Chunk * r \in Nat \ {0} /\ Chunk \in Nat
  BY SizesAssumption
<1>3. FrameSize * r - Least(FrameSize * r, Len(Kept(r))) \in Nat
  BY <1>1, <1>2 DEF Least
<1>4. Wanted(r) \in Nat
  <2>1. Up(FrameSize * r - Least(FrameSize * r, Len(Kept(r))), Chunk * r) \in Nat
    BY <1>2, <1>3, UpCovers
  <2> QED BY <2>1, <1>2 DEF Wanted
<1>5. play \in Seq(Sample) /\ Len(play) \in Nat
  BY DEF PbTypes
<1>6. Moved(r) \in Seq(Sample) /\ Len(Moved(r)) = Least(Wanted(r), Len(play))
  BY <1>4, <1>5, Halves DEF Moved
<1>7. Len(Moved(r)) \in Nat
  BY <1>6
<1>8. Behind(play, Len(Moved(r))) \in Seq(Sample)
  BY <1>5, <1>7, Halves
<1>9. Moved(r) = Oldest(play, Len(Moved(r)))
  <2>1. Least(Len(Moved(r)), Len(play)) = Least(Wanted(r), Len(play))
    BY <1>4, <1>5, <1>6 DEF Least
  <2> QED BY <2>1, Zenon DEF Moved, Oldest
<1>10. Moved(r) \o Behind(play, Len(Moved(r))) = play
  <2>1. Oldest(play, Len(Moved(r))) \o Behind(play, Len(Moved(r))) = play
    BY <1>5, <1>7, Rejoined
  <2> QED BY <2>1, <1>9
<1>11. /\ Resampled(Moved(r), r) \in Seq(Part)
       /\ Len(Resampled(Moved(r), r)) = r * Len(Moved(r))
  BY <1>6, ResampledIs
<1>12. Full(r) \in Seq(Part) /\ Len(Full(r)) = Len(Kept(r)) + r * Len(Moved(r))
  BY <1>1, <1>11, ConcatProperties DEF Full
<1> QED BY <1>1, <1>2, <1>4, <1>6, <1>8, <1>10, <1>12

\* A frame of rate r in these terms: replaced, or passed through.
LEMMA FrameIs ==
    ASSUME PbTypes, NEW r \in Nat \ {0}, PlaybackFrame(r)
    PROVE  /\ rate' = r /\ play' = Behind(play, Len(Moved(r)))
           /\ lost' = IF r = rate THEN lost ELSE lost \union Sources(stash)
           /\ \/ /\ Len(Full(r)) >= FrameSize * r /\ underruns' = underruns
                 /\ heard' = heard \o Oldest(Full(r), FrameSize * r)
                 /\ stash' = Behind(Full(r), FrameSize * r)
              \/ /\ Len(Full(r)) < FrameSize * r
                 /\ heard' = heard /\ stash' = Full(r)
BY DEF PlaybackFrame, TopUp, Play, Kept, Wanted, Moved, Full

\* What the caller heard and what waits grow by the samples moved, resampled.
LEMMA FrameAdds ==
    ASSUME PbTypes, NEW r \in Nat \ {0}, PlaybackFrame(r)
    PROVE  /\ PbTypes'
           /\ heard' \o stash' = (heard \o Kept(r)) \o Resampled(Moved(r), r)
           /\ Sources(Full(r)) = Sources(Kept(r)) \union Sources(Moved(r))
           /\ Sources(stash') \subseteq Sources(Full(r))
           /\ Sources(heard') \union Sources(stash') = Sources(heard) \union Sources(Full(r))
           /\ Sources(play) = Sources(Moved(r)) \union Sources(play')
<1> DEFINE n == FrameSize * r
           full == Full(r)
           new == Resampled(Moved(r), r)
<1>1. /\ heard \in Seq(Part) /\ Kept(r) \in Seq(Part) /\ Moved(r) \in Seq(Sample)
      /\ full \in Seq(Part) /\ new \in Seq(Part) /\ n \in Nat /\ full = Kept(r) \o new
  BY FrameParts, ResampledIs DEF PbTypes, Full
<1>2. (heard \o Kept(r)) \o new = heard \o full
  <2> HIDE DEF n, full, new
  <2>1. (heard \o Kept(r)) \o new = heard \o (Kept(r) \o new)
    BY <1>1, ConcatAssociative
  <2> QED BY <2>1, <1>1
<1>3. Sources(full) = Sources(Kept(r)) \union Sources(Moved(r))
  <2>1. Sources(new) = Sources(Moved(r))
    BY <1>1, ResampledSources
  <2> QED BY <2>1, <1>1, CatSources
<1>4. play' \in Seq(Sample) /\ Sources(play) = Sources(Moved(r)) \union Sources(play')
  <2> DEFINE rest == Behind(play, Len(Moved(r)))
  <2>1. rest \in Seq(Sample) /\ Moved(r) \o rest = play /\ play' = rest
    BY FrameParts, FrameIs
  <2> HIDE DEF rest
  <2>2. Sources(Moved(r) \o rest) = Sources(Moved(r)) \union Sources(rest)
    <3>1. Moved(r) \in Seq(Sample) /\ rest \in Seq(Sample)
      BY <2>1, <1>1
    <3> QED BY <3>1, CatSources
  <2> QED BY <2>1, <2>2
<1>5. rate' \in Nat
  BY FrameIs
<1> HIDE DEF n, full, new
<1>6. CASE heard' = heard \o Oldest(full, n) /\ stash' = Behind(full, n)
  <2>1. /\ Oldest(full, n) \in Seq(Part) /\ Behind(full, n) \in Seq(Part)
        /\ Oldest(full, n) \o Behind(full, n) = full
    BY <1>1, Halves, Rejoined
  <2>2. heard' \in Seq(Part) /\ stash' \in Seq(Part)
    BY <2>1, <1>1, <1>6, ConcatProperties
  <2>3. heard' \o stash' = heard \o full
    <3> DEFINE a == Oldest(full, n)
               b == Behind(full, n)
    <3>1. heard \in Seq(Part) /\ a \in Seq(Part) /\ b \in Seq(Part)
      BY <1>1, <2>1
    <3> HIDE DEF a, b
    <3>2. (heard \o a) \o b = heard \o (a \o b)
      BY <3>1, ConcatAssociative
    <3> QED BY <3>2, <2>1, <1>6, Zenon DEF a, b
  <2>4. Sources(full) = Sources(Oldest(full, n)) \union Sources(Behind(full, n))
    BY <1>1, CutSources
  <2>5. Sources(heard') = Sources(heard) \union Sources(Oldest(full, n))
    BY <2>1, <1>1, <1>6, CatSources
  <2>6. /\ Sources(stash') \subseteq Sources(full)
        /\ Sources(heard') \union Sources(stash') = Sources(heard) \union Sources(full)
    BY <2>4, <2>5, <1>6
  <2>7. PbTypes'
    BY <2>2, <1>4, <1>5 DEF PbTypes
  <2> QED BY <2>3, <2>6, <2>7, <1>2, <1>3, <1>4 DEF full, new
<1>7. CASE heard' = heard /\ stash' = full
  <2>1. PbTypes'
    BY <1>1, <1>4, <1>5, <1>7 DEF PbTypes
  <2> QED BY <2>1, <1>2, <1>3, <1>4, <1>7 DEF full, new
<1> QED BY <1>6, <1>7, FrameIs DEF n, full

\* Samples in chunks, in one order of multiplication and in the other.
LEMMA Regrouped ==
    ASSUME NEW a \in Nat, NEW b \in Nat, NEW c \in Nat
    PROVE  c * (a * b) = (b * c) * a
OBVIOUS

Bounded == BuffersBounded /\ (rate = 0 => stash = <<>>)

\* What is moved makes a frame with what was kept, and less than a chunk more.
LEMMA FrameBounds ==
    ASSUME PbTypes, Bounded, NEW r \in Nat \ {0}, PlaybackFrame(r)
    PROVE  /\ Bounded'
           /\ underruns' # underruns => play' = <<>> /\ Len(stash') < FrameSize * rate'
<1> DEFINE need == FrameSize * r
           k == Len(Kept(r))
           d == need - Least(need, k)
           u == Up(d, Chunk * r)
           m == Len(Moved(r))
           full == Full(r)
<1>1. /\ need \in Nat /\ k \in Nat /\ m \in Nat /\ r * m \in Nat
      /\ m = Least(Wanted(r), Len(play)) /\ Wanted(r) \in Nat
      /\ full \in Seq(Part) /\ Len(full) = k + r * m
  <2>1. /\ need \in Nat /\ k \in Nat /\ Moved(r) \in Seq(Sample)
        /\ m = Least(Wanted(r), Len(play)) /\ Wanted(r) \in Nat
        /\ full \in Seq(Part) /\ Len(full) = k + r * m
    BY FrameParts
  <2>2. m \in Nat
    BY <2>1
  <2>3. r * m \in Nat
    BY <2>2
  <2> QED BY <2>1, <2>2, <2>3
<1>2. Chunk * r \in Nat \ {0} /\ Chunk \in Nat /\ FrameSize \in Nat
  BY SizesAssumption
<1>3. d \in Nat /\ (k >= need => d = 0) /\ (k < need => d = need - k)
  BY <1>1 DEF Least
<1>4. /\ u \in Nat /\ r * Wanted(r) = (Chunk * r) * u /\ (Chunk * r) * u \in Nat
      /\ (Chunk * r) * u >= d /\ (Chunk * r) * u < d + Chunk * r
  <2>1. u \in Nat /\ (Chunk * r) * u >= d /\ (Chunk * r) * u < d + Chunk * r
    BY <1>2, <1>3, UpCovers
  <2>2. Wanted(r) = u * Chunk
    BY DEF Wanted
  <2>3. r * (u * Chunk) = (Chunk * r) * u /\ (Chunk * r) * u \in Nat
    BY <2>1, <1>2, Regrouped
  <2> QED BY <2>1, <2>2, <2>3
<1>5. (FrameSize + Chunk) * r = need + Chunk * r
  BY <1>2
<1>6. rate # 0 => Len(stash) < (FrameSize + Chunk) * rate
  BY DEF Bounded, BuffersBounded
<1>7. k < need + Chunk * r
  <2>1. CASE r = rate
    BY <2>1, <1>5, <1>6 DEF Kept
  <2>2. CASE r # rate
    BY <2>2, <1>1, <1>2, EmptySeq DEF Kept
  <2> QED BY <2>1, <2>2
<1>8. Len(play) \in Nat /\ Len(play) <= Cap /\ m <= Wanted(r) /\ m <= Len(play)
      /\ (Wanted(r) <= Len(play) => m = Wanted(r)) /\ (Wanted(r) > Len(play) => m = Len(play))
  BY <1>1 DEF PbTypes, Bounded, BuffersBounded, Least
<1>9. r * m <= (Chunk * r) * u
  BY <1>1, <1>4, <1>8, Scaled
<1>10. play' = Behind(play, m) /\ Len(play') = Len(play) - m /\ play' \in Seq(Sample)
  <2>1. play' = Behind(play, m) /\ play \in Seq(Sample)
    BY FrameIs DEF PbTypes
  <2>2. Len(Behind(play, m)) = Len(play) - Least(m, Len(play)) /\ Behind(play, m) \in Seq(Sample)
    BY <2>1, <1>1, Halves
  <2>3. Least(m, Len(play)) = m
    BY <1>1, <1>8 DEF Least
  <2> QED BY <2>1, <2>2, <2>3
<1> HIDE DEF need, k, d, u, m, full
<1>11. Len(full) < need + Chunk * r
  <2>1. CASE k >= need
    <3>1. d = 0 /\ (Chunk * r) * u < Chunk * r
      BY <2>1, <1>2, <1>3, <1>4
    <3>2. u = 0
      <4> SUFFICES ASSUME 0 < u PROVE FALSE
        BY <1>4
      <4>1. (Chunk * r) * 0 + Chunk * r <= (Chunk * r) * u
        BY <1>2, <1>4, ScaledLess
      <4> QED BY <4>1, <3>1, <1>2, <1>4
    <3>3. (Chunk * r) * u = 0
      BY <3>2, <1>2
    <3>4. r * m <= 0
      BY <3>3, <1>9
    <3> QED BY <3>4, <1>1, <1>2, <1>7
  <2>2. CASE k < need
    BY <2>2, <1>1, <1>2, <1>3, <1>4, <1>9
  <2> QED BY <2>1, <2>2, <1>1
<1>12. Len(stash') \in Nat /\ Len(stash') <= Len(full)
  <2>1. CASE stash' = Behind(full, need)
    <3>1. Len(Behind(full, need)) = Len(full) - Least(need, Len(full))
      BY <1>1, Halves
    <3>2. Len(full) \in Nat
      BY <1>1
    <3> QED BY <2>1, <3>1, <3>2, <1>1 DEF Least
  <2>2. CASE stash' = full
    BY <2>2, <1>1
  <2> QED BY <2>1, <2>2, FrameIs DEF need, full
<1>13. rate' = r
  BY FrameIs
<1>14. Bounded'
  <2>1. Len(play') <= Cap
    BY <1>1, <1>8, <1>10, SizesAssumption
  <2>2. Len(stash') < (FrameSize + Chunk) * r
    <3>1. Len(full) \in Nat /\ Chunk * r \in Nat
      BY <1>1, <1>2
    <3>2. Len(stash') < need + Chunk * r
      BY <3>1, <1>1, <1>11, <1>12
    <3> QED BY <3>2, <1>5
  <2>3. BuffersBounded' /\ rate' # 0
    BY <2>1, <2>2, <1>13 DEF BuffersBounded
  <2> QED BY <2>3 DEF Bounded
<1>15. ASSUME underruns' # underruns
       PROVE  play' = <<>> /\ Len(stash') < FrameSize * rate'
  <2>1. Len(full) < need /\ stash' = full
    BY <1>15, FrameIs DEF need, full
  <2>2. k < need /\ d = need - k
    BY <2>1, <1>1, <1>3
  <2>3. m # Wanted(r)
    BY <2>1, <2>2, <1>1, <1>4
  <2>4. Len(play') = 0
    BY <2>3, <1>1, <1>8, <1>10
  <2> QED BY <2>1, <2>4, <1>10, <1>13, EmptySeq DEF need
<1> QED BY <1>14, <1>15

-----------------------------------------------------------------------------
(* The invariant.                                                          *)

Arrived == Sources(heard) \union Sources(stash) \union Sources(play)
IsClear(m) == m = [kind |-> Text, bytes |-> ClearText]

InOrder ==
    /\ Sorted(heard \o stash) /\ InTurn(play)
    /\ Ahead(Sources(heard) \union Sources(stash), Sources(play))
Numbered == \A x \in Arrived : x[1] \in Nat /\ x[1] <= Len(delivered)
Accounted ==
    \A n \in DOMAIN delivered : delivered[n].kind = Binary =>
        \A k \in DOMAIN delivered[n].bytes : <<n, k>> \in Arrived \union lost
Silenced ==
    \A c \in DOMAIN delivered : IsClear(delivered[c]) =>
        \A x \in Sources(stash) \union Sources(play) : x[1] > c

DownlinkInv ==
    /\ RxTypes /\ PbTypes /\ Bounded
    /\ InOrder /\ Numbered /\ Accounted /\ Silenced

\* An empty buffer has no sources.
LEMMA NoSources == Sources(<<>>) = {}
BY DEF Sources

\* stream_playback_frame keeps the invariant.
LEMMA MediaKeeps ==
    ASSUME DownlinkInv, NEW r \in Rates, PlaybackFrame(r), UNCHANGED rxVars
    PROVE  DownlinkInv'
<1> DEFINE new == Resampled(Moved(r), r)
           H == Sources(heard)
           T == Sources(stash)
           P == Sources(play)
           K == Sources(Kept(r))
           M == Sources(Moved(r))
<1>1. r \in Nat \ {0}
  BY RatesAssumption
<1>2. PbTypes /\ Bounded
  BY DEF DownlinkInv
<1>3. /\ heard \in Seq(Part) /\ stash \in Seq(Part) /\ play \in Seq(Sample)
      /\ Kept(r) \in Seq(Part) /\ Moved(r) \in Seq(Sample)
      /\ new \in Seq(Part) /\ play' \in Seq(Sample)
  BY <1>1, <1>2, FrameParts, FrameAdds, ResampledIs DEF PbTypes
<1>4. Moved(r) \o play' = play
  BY <1>1, <1>2, FrameParts, FrameIs
<1>5. /\ heard' \o stash' = (heard \o Kept(r)) \o new
      /\ P = M \union Sources(play')
      /\ Sources(stash') \subseteq K \union M
      /\ Sources(heard') \union Sources(stash') = H \union K \union M
  BY <1>1, <1>2, FrameAdds
<1>6. K = T \/ (r # rate /\ K = {})
  BY NoSources DEF Kept
<1>7. InTurn(play) /\ Sorted(heard \o stash) /\ Ahead(H \union T, P)
  BY DEF DownlinkInv, InOrder
<1>8. InTurn(Moved(r)) /\ InTurn(play') /\ Ahead(M, Sources(play'))
  BY <1>3, <1>4, <1>7, TurnJoins
<1>9. Sorted(heard \o Kept(r))
  <2>1. CASE r = rate
    BY <2>1, <1>7 DEF Kept
  <2>2. CASE r # rate
    <3>1. Sorted(heard)
      BY <1>3, <1>7, SortedFront
    <3>2. heard \o <<>> = heard
      BY <1>3, ConcatEmptySeq
    <3> QED BY <3>1, <3>2, <2>2 DEF Kept
  <2> QED BY <2>1, <2>2
<1>10. heard \o Kept(r) \in Seq(Part) /\ Sources(heard \o Kept(r)) = H \union K
  BY <1>3, ConcatProperties, CatSources
<1>11. Sorted(new) /\ Sources(new) = M
  BY <1>1, <1>3, <1>8, ResampledSorted, ResampledSources
<1> HIDE DEF new, H, T, P, K, M
<1>12. Ahead(H \union K, M) /\ Ahead(H \union K \union M, Sources(play'))
  BY <1>5, <1>6, <1>7, <1>8 DEF Ahead
<1>13. Sorted((heard \o Kept(r)) \o new)
  BY <1>3, <1>9, <1>10, <1>11, <1>12, SortedJoins
<1>14. InOrder'
  BY <1>5, <1>8, <1>12, <1>13 DEF InOrder
<1>15. delivered' = delivered /\ RxTypes'
  BY DEF DownlinkInv, RxTypes, rxVars, input, assembly
<1>16. Arrived' = H \union K \union M \union Sources(play')
  BY <1>5 DEF Arrived
<1>17. Arrived = H \union T \union P
  BY DEF Arrived, H, T, P
<1>18. Numbered'
  BY <1>5, <1>6, <1>15, <1>16, <1>17 DEF DownlinkInv, Numbered
<1>19. Arrived \union lost \subseteq Arrived' \union lost'
  <2>1. lost' = IF r = rate THEN lost ELSE lost \union T
    BY <1>1, <1>2, FrameIs DEF T
  <2>2. r = rate => K = T
    BY DEF Kept, K, T
  <2> QED BY <2>1, <2>2, <1>5, <1>16, <1>17
<1>20. Accounted'
  BY <1>15, <1>19 DEF DownlinkInv, Accounted
<1>21. Silenced'
  <2>1. Sources(stash') \union Sources(play') \subseteq T \union P
    BY <1>5, <1>6
  <2> QED BY <2>1, <1>15 DEF DownlinkInv, Silenced, T, P
<1>22. PbTypes' /\ Bounded'
  BY <1>1, <1>2, FrameAdds, FrameBounds
<1> QED BY <1>14, <1>15, <1>18, <1>20, <1>21, <1>22 DEF DownlinkInv

\* One message more in delivered leaves those before it where they are.
LEMMA NewMessage ==
    ASSUME RxTypes, NEW m \in Message, delivered' = Append(delivered, m)
    PROVE  /\ Len(delivered) \in Nat /\ Len(delivered') = Len(delivered) + 1
           /\ DOMAIN delivered = 1..Len(delivered)
           /\ DOMAIN delivered' = 1..(Len(delivered) + 1)
           /\ delivered'[Len(delivered')] = m
           /\ \A n \in DOMAIN delivered : delivered'[n] = delivered[n]
           /\ \A n \in DOMAIN delivered' : n \in DOMAIN delivered \/ n = Len(delivered')
<1>1. /\ delivered \in Seq(Message) /\ Len(delivered) \in Nat
  BY DEF RxTypes
<1>2. /\ delivered' \in Seq(Message) /\ Len(delivered') = Len(delivered) + 1
      /\ \A n \in 1..Len(delivered) : delivered'[n] = delivered[n]
      /\ delivered'[Len(delivered) + 1] = m
  BY <1>1, AppendProperties
<1>3. DOMAIN delivered = 1..Len(delivered) /\ DOMAIN delivered' = 1..Len(delivered')
  BY <1>1, <1>2
<1> QED BY <1>1, <1>2, <1>3

\* The samples of message n, which holds b.
Samples(n, b) == [k \in DOMAIN b |-> <<n, k>>]

\* They are in turn, and each is there.
LEMMA SamplesAre ==
    ASSUME NEW n \in Nat, NEW b \in Seq(Nat)
    PROVE  /\ Samples(n, b) \in Seq(Sample) /\ InTurn(Samples(n, b))
           /\ \A x \in Sources(Samples(n, b)) : x[1] = n
           /\ \A k \in DOMAIN b : <<n, k>> \in Sources(Samples(n, b))
<1> DEFINE s == Samples(n, b)
<1>1. Len(b) \in Nat /\ DOMAIN b = 1..Len(b)
  OBVIOUS
<1>2. \A k \in 1..Len(b) : <<n, k>> \in Sample
  BY <1>1 DEF Sample
<1>3. s \in Seq(Sample) /\ Len(s) = Len(b) /\ \A k \in 1..Len(b) : s[k] = <<n, k>>
  BY <1>1, <1>2 DEF Samples
<1> HIDE DEF s
<1>4. InTurn(s)
  BY <1>1, <1>3 DEF InTurn, Precedes
<1>5. \A x \in Sources(s) : x[1] = n
  BY <1>3, SourcesAre
<1>6. \A k \in 1..Len(b) : <<s[k][1], s[k][2]>> \in Sources(s) /\ s[k][1] = n /\ s[k][2] = k
  BY <1>3, SourcesAre
<1> QED BY <1>1, <1>3, <1>4, <1>5, <1>6 DEF s

\* A binary message: what was there is kept behind what is dropped, the message comes last.
LEMMA BinaryBuffered ==
    ASSUME PbTypes, Bounded, NEW s \in Seq(Sample), OnBinary(s)
    PROVE  \E d \in Nat :
             LET kept == Behind(play, d) IN
             /\ stash' = stash /\ heard' = heard /\ rate' = rate /\ underruns' = underruns
             /\ kept \in Seq(Sample) /\ Len(play') <= Cap
             /\ Sources(play) = Sources(Oldest(play, d)) \union Sources(kept)
             /\ Oldest(play, d) \in Seq(Sample) /\ Oldest(play, d) \o kept = play
             /\ \/ /\ play' = kept \o s
                   /\ lost' = lost \union Sources(Oldest(play, d))
                \/ /\ play' = kept
                   /\ lost' = lost \union Sources(Oldest(play, d)) \union Sources(s)
<1> DEFINE short == Len(s) - Least(Len(s), Cap - Len(play))
           d == Least(Up(short, Chunk) * Chunk, Len(play))
           kept == Behind(play, d)
           fits == Len(kept) + Len(s) <= Cap
<1>1. /\ play' = kept \o (IF fits THEN s ELSE <<>>)
      /\ lost' = lost \union ToSet(Oldest(play, d)) \union (IF fits THEN {} ELSE ToSet(s))
      /\ stash' = stash /\ heard' = heard /\ rate' = rate /\ underruns' = underruns
  BY DEF OnBinary
<1>2. /\ Len(s) \in Nat /\ play \in Seq(Sample) /\ Len(play) \in Nat /\ Len(play) <= Cap
      /\ Cap \in Nat /\ Chunk \in Nat \ {0}
  BY SizesAssumption DEF PbTypes, Bounded, BuffersBounded
<1>3. short \in Nat
  BY <1>2 DEF Least
<1>4. d \in Nat
  <2> HIDE DEF short
  <2>1. Up(short, Chunk) \in Nat
    BY <1>2, <1>3, UpCovers
  <2>2. Up(short, Chunk) * Chunk \in Nat
    BY <2>1, <1>2
  <2> QED BY <2>2, <1>2 DEF Least
<1> HIDE DEF d
<1>5. /\ kept \in Seq(Sample) /\ Oldest(play, d) \in Seq(Sample)
      /\ Oldest(play, d) \o kept = play /\ Len(kept) <= Len(play) /\ Len(kept) \in Nat
  <2>1. /\ kept \in Seq(Sample) /\ Oldest(play, d) \in Seq(Sample)
        /\ Oldest(play, d) \o kept = play /\ Len(kept) = Len(play) - Least(d, Len(play))
    BY <1>2, <1>4, Halves, Rejoined
  <2> QED BY <2>1, <1>2, <1>4 DEF Least
<1> HIDE DEF kept
<1>6. Sources(play) = Sources(Oldest(play, d)) \union Sources(kept)
  <2>1. Sources(Oldest(play, d) \o kept) = Sources(Oldest(play, d)) \union Sources(kept)
    <3>1. kept \in Seq(Sample) /\ Oldest(play, d) \in Seq(Sample)
      BY <1>5
    <3> QED BY <3>1, CatSources
  <2> QED BY <2>1, <1>5
<1>7. ToSet(Oldest(play, d)) = Sources(Oldest(play, d)) /\ ToSet(s) = Sources(s)
  BY <1>5, SamplesAreSources
<1>8. CASE fits
  <2>1. play' = kept \o s /\ lost' = lost \union Sources(Oldest(play, d))
    BY <1>1, <1>7, <1>8
  <2>2. Len(play') <= Cap
    BY <2>1, <1>5, <1>8, ConcatProperties
  <2> QED BY <2>1, <2>2, <1>1, <1>4, <1>5, <1>6 DEF kept
<1>9. CASE ~fits
  <2>1. kept \o <<>> = kept
    BY <1>5, ConcatEmptySeq
  <2>2. play' = kept /\ lost' = lost \union Sources(Oldest(play, d)) \union Sources(s)
    BY <2>1, <1>1, <1>7, <1>9
  <2>3. Len(play') <= Cap
    BY <2>2, <1>2, <1>5
  <2> QED BY <2>2, <2>3, <1>1, <1>4, <1>5, <1>6 DEF kept
<1> QED BY <1>8, <1>9

\* onBinary keeps the invariant: the new message comes behind all that was there.
LEMMA BinaryKeeps ==
    ASSUME DownlinkInv, RxTypes', NEW m \in Message, delivered' = Append(delivered, m),
           m.kind = Binary, OnBinary(Samples(Len(delivered'), m.bytes))
    PROVE  DownlinkInv'
<1> DEFINE n == Len(delivered')
           s == Samples(n, m.bytes)
           H == Sources(heard)
           T == Sources(stash)
           P == Sources(play)
           S == Sources(s)
<1>1. /\ n \in Nat /\ Len(delivered) \in Nat /\ n = Len(delivered) + 1
      /\ DOMAIN delivered = 1..Len(delivered)
      /\ delivered'[n] = m /\ \A i \in DOMAIN delivered : delivered'[i] = delivered[i]
      /\ \A i \in DOMAIN delivered' : i \in DOMAIN delivered \/ i = n
  BY NewMessage DEF DownlinkInv
<1>2. m.bytes \in Seq(Nat)
  BY DEF Message
<1>3. /\ s \in Seq(Sample) /\ InTurn(s) /\ \A x \in S : x[1] = n
      /\ \A k \in DOMAIN m.bytes : <<n, k>> \in S
  BY <1>1, <1>2, SamplesAre
<1> HIDE DEF s
<1>4. PICK d \in Nat :
             LET kept == Behind(play, d) IN
             /\ stash' = stash /\ heard' = heard /\ rate' = rate /\ underruns' = underruns
             /\ kept \in Seq(Sample) /\ Len(play') <= Cap
             /\ Sources(play) = Sources(Oldest(play, d)) \union Sources(kept)
             /\ Oldest(play, d) \in Seq(Sample) /\ Oldest(play, d) \o kept = play
             /\ \/ /\ play' = kept \o s
                   /\ lost' = lost \union Sources(Oldest(play, d))
                \/ /\ play' = kept
                   /\ lost' = lost \union Sources(Oldest(play, d)) \union Sources(s)
  <2>1. OnBinary(s) /\ PbTypes /\ Bounded
    BY DEF s, DownlinkInv
  <2> QED BY <2>1, <1>3, BinaryBuffered, Zenon
<1> DEFINE kept == Behind(play, d)
           dropped == Oldest(play, d)
           D == Sources(dropped)
           R == Sources(kept)
<1>5. /\ stash' = stash /\ heard' = heard /\ rate' = rate
      /\ kept \in Seq(Sample) /\ Len(play') <= Cap
      /\ P = D \union R /\ dropped \in Seq(Sample) /\ dropped \o kept = play
      /\ \/ play' = kept \o s /\ lost' = lost \union D
         \/ play' = kept /\ lost' = lost \union D \union S
  BY <1>4
<1>6. /\ heard \in Seq(Part) /\ stash \in Seq(Part) /\ play \in Seq(Sample) /\ rate \in Nat
      /\ InTurn(play) /\ Sorted(heard \o stash) /\ Ahead(H \union T, P)
      /\ \A x \in H \union T \union P : x[1] \in Nat /\ x[1] <= Len(delivered)
  BY DEF DownlinkInv, PbTypes, InOrder, Numbered, Arrived
<1> HIDE DEF kept, dropped
<1>7. InTurn(kept)
  BY <1>5, <1>6, TurnJoins
<1>8. Sources(kept \o s) = R \union S /\ kept \o s \in Seq(Sample)
  BY <1>3, <1>5, CatSources, ConcatProperties
<1> HIDE DEF n, H, T, P, S, D, R
<1>9. \A x \in H \union T \union P, y \in S : Precedes(x, y)
  BY <1>1, <1>3, <1>6 DEF Precedes
<1>10. InTurn(kept \o s)
  BY <1>3, <1>5, <1>7, <1>9, TurnJoins DEF Ahead, R, S
<1>11. /\ play' \in Seq(Sample) /\ InTurn(play') /\ Sources(play') \subseteq R \union S
       /\ R \subseteq Sources(play') /\ P \union S \subseteq Sources(play') \union lost'
       /\ lost \subseteq lost'
  BY <1>5, <1>7, <1>8, <1>10 DEF R
<1>12. InOrder'
  <2>1. Ahead(H \union T, Sources(play'))
    BY <1>5, <1>6, <1>9, <1>11 DEF Ahead
  <2> QED BY <2>1, <1>5, <1>6, <1>11 DEF InOrder, H, T
<1>13. Arrived' = H \union T \union Sources(play') /\ Arrived = H \union T \union P
  BY <1>5 DEF Arrived, H, T, P
<1>14. Numbered'
  BY <1>1, <1>3, <1>5, <1>6, <1>11, <1>13 DEF Numbered, n
<1>15. Accounted'
  <2> SUFFICES ASSUME NEW i \in DOMAIN delivered', delivered'[i].kind = Binary,
                      NEW k \in DOMAIN delivered'[i].bytes
               PROVE  <<i, k>> \in Arrived' \union lost'
    BY DEF Accounted
  <2>1. CASE i \in DOMAIN delivered
    <3>1. <<i, k>> \in Arrived \union lost
      BY <2>1, <1>1 DEF DownlinkInv, Accounted
    <3> QED BY <3>1, <1>11, <1>13
  <2>2. CASE i = n
    BY <2>2, <1>1, <1>3, <1>11, <1>13
  <2> QED BY <2>1, <2>2, <1>1
<1>16. Silenced'
  <2> SUFFICES ASSUME NEW c \in DOMAIN delivered', IsClear(delivered'[c]),
                      NEW x \in Sources(stash') \union Sources(play')
               PROVE  x[1] > c
    BY DEF Silenced
  <2>1. c \in DOMAIN delivered
    BY <1>1 DEF IsClear, Text, Binary
  <2>2. CASE x \in T \union P
    BY <2>1, <2>2, <1>1 DEF DownlinkInv, Silenced, T, P
  <2>3. CASE x \in S
    BY <2>1, <2>3, <1>1, <1>3
  <2> QED BY <2>2, <2>3, <1>5, <1>11 DEF T
<1>17. PbTypes'
  BY <1>5, <1>6, <1>11 DEF PbTypes
<1>18. Bounded'
  BY <1>5 DEF DownlinkInv, Bounded, BuffersBounded
<1> QED BY <1>12, <1>14, <1>15, <1>16, <1>17, <1>18 DEF DownlinkInv

\* Nothing of the buffers changes: no message, or a text that means nothing to them.
LEMMA QuietKeeps ==
    ASSUME DownlinkInv, RxTypes', UNCHANGED pbVars,
           \/ delivered' = delivered
           \/ \E m \in Message : delivered' = Append(delivered, m) /\ m.kind = Text /\ ~IsClear(m)
    PROVE  DownlinkInv'
<1>1. CASE delivered' = delivered
  BY <1>1 DEF DownlinkInv, PbTypes, Bounded, BuffersBounded, InOrder, Numbered, Accounted,
              Silenced, Arrived, pbVars
<1>2. ASSUME NEW m \in Message, delivered' = Append(delivered, m), m.kind = Text, ~IsClear(m)
      PROVE  DownlinkInv'
  <2>1. /\ Len(delivered) \in Nat /\ Len(delivered') = Len(delivered) + 1
        /\ delivered'[Len(delivered')] = m
        /\ \A n \in DOMAIN delivered : delivered'[n] = delivered[n]
        /\ \A n \in DOMAIN delivered' : n \in DOMAIN delivered \/ n = Len(delivered')
    BY <1>2, NewMessage DEF DownlinkInv
  <2>2. PbTypes' /\ Bounded' /\ InOrder' /\ Arrived' = Arrived /\ lost' = lost
    BY DEF DownlinkInv, PbTypes, Bounded, BuffersBounded, InOrder, Arrived, pbVars
  <2>3. Numbered'
    BY <2>1, <2>2 DEF DownlinkInv, Numbered
  <2>4. Accounted'
    BY <2>1, <2>2, <1>2 DEF DownlinkInv, Accounted, Text, Binary
  <2>5. Silenced'
    BY <2>1, <1>2 DEF DownlinkInv, Silenced, pbVars
  <2> QED BY <2>2, <2>3, <2>4, <2>5 DEF DownlinkInv
<1> QED BY <1>1, <1>2

\* ClearPlayback keeps the invariant: nothing is left that was sent before it.
LEMMA ClearKeeps ==
    ASSUME DownlinkInv, RxTypes', NEW m \in Message, delivered' = Append(delivered, m),
           m.kind = Text, ClearPlayback
    PROVE  DownlinkInv'
<1>1. /\ Len(delivered) \in Nat /\ Len(delivered') = Len(delivered) + 1
      /\ delivered'[Len(delivered')] = m
      /\ \A n \in DOMAIN delivered : delivered'[n] = delivered[n]
      /\ \A n \in DOMAIN delivered' : n \in DOMAIN delivered \/ n = Len(delivered')
  BY NewMessage DEF DownlinkInv
<1>2. /\ play \in Seq(Sample) /\ stash \in Seq(Part) /\ heard \in Seq(Part) /\ rate \in Nat
  BY DEF DownlinkInv, PbTypes
<1>3. /\ play' = <<>> /\ stash' = <<>> /\ heard' = heard /\ rate' = rate
      /\ lost' = lost \union Sources(play) \union Sources(stash)
  BY <1>2, SamplesAreSources DEF ClearPlayback
<1>4. PbTypes'
  BY <1>2, <1>3, EmptySeq DEF PbTypes
<1>5. Bounded'
  <2>1. rate # 0 => 0 < (FrameSize + Chunk) * rate
    <3> SUFFICES ASSUME rate # 0 PROVE 0 < (FrameSize + Chunk) * rate
      OBVIOUS
    <3>1. FrameSize + Chunk \in Nat \ {0} /\ rate \in Nat \ {0}
      BY <1>2, SizesAssumption
    <3> QED BY <3>1
  <2> QED BY <2>1, <1>3, EmptySeq, SizesAssumption DEF Bounded, BuffersBounded
<1>6. InOrder'
  <2>1. heard \o <<>> = heard /\ Sorted(heard)
    BY <1>2, ConcatEmptySeq, SortedFront DEF DownlinkInv, InOrder
  <2>2. InTurn(<<>>)
    BY EmptySeq DEF InTurn
  <2> QED BY <2>1, <2>2, <1>3, NoSources DEF InOrder, Ahead
<1>7. Arrived' \subseteq Arrived /\ Arrived \union lost \subseteq Arrived' \union lost'
  BY <1>3, NoSources DEF Arrived
<1>8. Numbered'
  BY <1>1, <1>7 DEF DownlinkInv, Numbered
<1>9. Accounted'
  BY <1>1, <1>7 DEF DownlinkInv, Accounted, Text, Binary
<1>10. Silenced'
  BY <1>3, NoSources DEF Silenced
<1> QED BY <1>4, <1>5, <1>6, <1>8, <1>9, <1>10 DEF DownlinkInv

\* A step of the receiver and its callback keeps the invariant.
LEMMA EventKeeps ==
    ASSUME DownlinkInv, EventThread
    PROVE  DownlinkInv'
<1>1. RxTypes' /\ OneMore
  BY ReceiverTypes DEF DownlinkInv, EventThread
<1>2. CASE delivered' = delivered
  <2>1. UNCHANGED pbVars
    BY <1>2 DEF EventThread, Callback
  <2> QED BY <2>1, <1>1, <1>2, QuietKeeps
<1>3. ASSUME NEW m \in Message, delivered' = Append(delivered, m), delivered' # delivered
      PROVE  DownlinkInv'
  <2>1. delivered'[Len(delivered')] = m
    BY <1>3, NewMessage DEF DownlinkInv
  <2>2. CASE m.kind = Binary /\ OnBinary(Samples(Len(delivered'), m.bytes))
    BY <2>2, <1>1, <1>3, BinaryKeeps
  <2>3. CASE m.kind = Text /\ ClearPlayback
    BY <2>3, <1>1, <1>3, ClearKeeps
  <2>4. CASE m.kind = Text /\ m.bytes # ClearText /\ UNCHANGED pbVars
    <3>1. ~IsClear(m)
      BY <2>4 DEF IsClear
    <3> QED BY <3>1, <2>4, <1>1, <1>3, QuietKeeps
  <2> QED BY <2>1, <2>2, <2>3, <2>4, <1>3 DEF EventThread, Callback, Samples
<1> QED BY <1>1, <1>2, <1>3 DEF OneMore

\* The invariant holds before the first frame.
LEMMA DownlinkInit ==
    ASSUME Init
    PROVE  DownlinkInv
<1>1. RxTypes
  BY EmptySeq DEF Init, RxInit, RxTypes, NoMessage, Assembled
<1>2. PbTypes /\ Bounded
  BY EmptySeq, SizesAssumption DEF Init, PbInit, PbTypes, Bounded, BuffersBounded
<1>3. InOrder
  <2>1. heard = <<>> /\ stash = <<>> /\ play = <<>>
    BY DEF Init, PbInit
  <2>2. <<>> \o <<>> = <<>>
    OBVIOUS
  <2>3. Sorted(<<>>) /\ InTurn(<<>>)
    BY EmptySeq DEF Sorted, InTurn
  <2> QED BY <2>1, <2>2, <2>3, NoSources DEF InOrder, Ahead
<1>4. Numbered /\ Accounted /\ Silenced
  BY NoSources DEF Init, RxInit, PbInit, Numbered, Accounted, Silenced, Arrived
<1> QED BY <1>1, <1>2, <1>3, <1>4 DEF DownlinkInv

\* The inductive invariant of the downlink: types, bounds, order, numbering, and where each
\* sample is.
THEOREM Downlinks == Spec => []DownlinkInv
<1>1. Init => DownlinkInv
  BY DownlinkInit
<1>2. DownlinkInv /\ [Next]_vars => DownlinkInv'
  <2> SUFFICES ASSUME DownlinkInv, [Next]_vars
               PROVE  DownlinkInv'
    OBVIOUS
  <2>1. CASE EventThread
    BY <2>1, EventKeeps
  <2>2. CASE MediaThread
    BY <2>2, MediaKeeps DEF MediaThread
  <2>3. CASE UNCHANGED vars
    <3>1. UNCHANGED pbVars /\ delivered' = delivered /\ RxTypes'
      BY <2>3 DEF vars, rxVars, input, assembly, DownlinkInv, RxTypes
    <3> QED BY <3>1, QuietKeeps
  <2> QED BY <2>1, <2>2, <2>3 DEF Next
<1> QED BY <1>1, <1>2, PTL DEF Spec

\* play_buffer and dl_stash stay within their bounds whatever the peer sends, for every
\* capacity, chunk, frame size and set of rates.
THEOREM LatencyBounded == Spec => []BuffersBounded
<1>1. DownlinkInv => BuffersBounded
  BY DEF DownlinkInv, Bounded
<1> QED BY <1>1, Downlinks, PTL

\* The invariant says where every sample is, and that what is heard and waits is in order.
LEMMA PathInOrder ==
    ASSUME DownlinkInv
    PROVE  AudioAccountedFor
<1> DEFINE rest == Resampled(play, 1)
<1>1. /\ heard \in Seq(Part) /\ stash \in Seq(Part) /\ play \in Seq(Sample)
      /\ InTurn(play) /\ Sorted(heard \o stash)
      /\ Ahead(Sources(heard) \union Sources(stash), Sources(play))
  BY DEF DownlinkInv, PbTypes, InOrder
<1>2. rest \in Seq(Part) /\ Sorted(rest) /\ Sources(rest) = Sources(play)
  BY <1>1, ResampledIs, ResampledSorted, ResampledSources
<1> HIDE DEF rest
<1> DEFINE front == heard \o stash
<1>3. /\ front \in Seq(Part) /\ Sorted(front)
      /\ Sources(front) = Sources(heard) \union Sources(stash)
  BY <1>1, ConcatProperties, CatSources
<1>4. Path = front \o rest
  <2>1. (heard \o stash) \o rest = heard \o (stash \o rest)
    BY <1>1, <1>2, ConcatAssociative
  <2> QED BY <2>1 DEF Path, rest
<1> HIDE DEF front
<1>5. Path \in Seq(Part) /\ Sorted(Path) /\ Sources(Path) = Arrived
  <2>1. front \o rest \in Seq(Part)
    BY <1>2, <1>3, ConcatProperties
  <2>2. Sorted(front \o rest)
    BY <1>1, <1>2, <1>3, SortedJoins
  <2>3. Sources(front \o rest) = Arrived
    BY <1>2, <1>3, CatSources DEF Arrived
  <2> QED BY <2>1, <2>2, <2>3, <1>4
<1>6. \A n \in DOMAIN delivered : delivered[n].kind = Binary =>
            \A k \in DOMAIN delivered[n].bytes : <<n, k>> \in Sources(Path) \union lost
  BY <1>5 DEF DownlinkInv, Accounted
<1>7. \A i \in 1..(Len(Path) - 1) : Before(Path[i], Path[i + 1])
  <2>1. Len(Path) \in Nat
    BY <1>5
  <2>2. \A i \in 1..(Len(Path) - 1) : i \in 1..Len(Path) /\ i + 1 \in 1..Len(Path) /\ i < i + 1
    BY <2>1
  <2> QED BY <2>2, <1>5 DEF Sorted
<1> QED BY <1>6, <1>7 DEF AudioAccountedFor

\* Every sample the agent sent is heard once and in order, waits in a buffer, or was dropped
\* for being too much, cleared, or resampled for another rate.
THEOREM NoSampleVanishes == Spec => []AudioAccountedFor
<1> QED BY Downlinks, PathInOrder, PTL

\* stream_playback_frame passes a frame through only when both buffers together make less
\* than a frame.
THEOREM UnderrunsAreShort == Spec => UnderrunMeansShort
<1>1. ASSUME DownlinkInv, [Next]_vars
      PROVE  [underruns' # underruns => play' = <<>> /\ Len(stash') < FrameSize * rate']_pbVars
  <2>1. CASE MediaThread
    <3>1. PICK r \in Rates : PlaybackFrame(r)
      BY <2>1 DEF MediaThread
    <3> QED BY <3>1, <1>1, FrameBounds, RatesAssumption DEF DownlinkInv
  <2>2. CASE EventThread
    <3>1. underruns' = underruns
      BY <2>2 DEF EventThread, Callback, OnBinary, ClearPlayback, pbVars
    <3> QED BY <3>1
  <2>3. CASE UNCHANGED vars
    BY <2>3 DEF vars, pbVars
  <2> QED BY <2>1, <2>2, <2>3, <1>1 DEF Next
<1> QED BY <1>1, Downlinks, PTL DEF Spec, UnderrunMeansShort

\* The samples a frame adds to what was heard waited in the stash or in the buffer.
LEMMA HeardFrom ==
    ASSUME DownlinkInv, NEW r \in Rates, PlaybackFrame(r), NEW i \in DOMAIN heard' \ DOMAIN heard
    PROVE  \E x \in Sources(stash) \union Sources(play) : heard'[i][1] = x[1]
<1> DEFINE full == Full(r)
           n == FrameSize * r
<1>1. /\ r \in Nat \ {0} /\ PbTypes
      /\ heard \in Seq(Part) /\ full \in Seq(Part) /\ n \in Nat
  BY RatesAssumption, FrameParts DEF DownlinkInv, PbTypes
<1>2. Sources(full) \subseteq Sources(stash) \union Sources(play)
  <2>1. Sources(Kept(r)) \subseteq Sources(stash)
    BY NoSources DEF Kept
  <2> QED BY <2>1, <1>1, FrameAdds
<1>3. heard' = heard \o Oldest(full, n)
  <2>1. heard' = heard \o Oldest(full, n) \/ heard' = heard
    BY <1>1, FrameIs
  <2> QED BY <2>1
<1> HIDE DEF full, n
<1> DEFINE new == Oldest(full, n)
<1>4. new \in Seq(Part) /\ Sources(full) = Sources(new) \union Sources(Behind(full, n))
  <2>1. new \in Seq(Part) /\ Behind(full, n) \in Seq(Part) /\ new \o Behind(full, n) = full
    BY <1>1, Halves, Rejoined
  <2>2. Sources(full) = Sources(new) \union Sources(Behind(full, n))
    BY <1>1, CutSources
  <2> QED BY <2>1, <2>2
<1> HIDE DEF new
<1>5. heard' = heard \o new
  BY <1>3 DEF new
<1>6. heard' \in Seq(Part) /\ i \in 1..Len(heard') /\ i \notin 1..Len(heard)
  <2>1. heard' \in Seq(Part)
    BY <1>1, <1>4, <1>5, ConcatProperties
  <2> QED BY <2>1, <1>1
<1>7. i - Len(heard) \in 1..Len(new) /\ heard'[i] = new[i - Len(heard)]
  BY <1>1, <1>4, <1>5, <1>6, Joined
<1>8. <<new[i - Len(heard)][1], new[i - Len(heard)][2]>> \in Sources(new)
  BY <1>4, <1>7, SourcesAre
<1> QED BY <1>2, <1>4, <1>7, <1>8

\* After {"type":"clear"} the caller hears nothing sent before it, from play_buffer or from
\* dl_stash.
THEOREM ClearedIsNeverHeard == Spec => ClearSilences
<1> DEFINE Silent ==
      \A i \in DOMAIN heard' \ DOMAIN heard : \A c \in DOMAIN delivered :
            delivered[c] = [kind |-> Text, bytes |-> ClearText] => heard'[i][1] > c
<1>1. ASSUME DownlinkInv, [Next]_vars
      PROVE  [Silent]_vars
  <2>1. CASE MediaThread
    <3>1. PICK r \in Rates : PlaybackFrame(r)
      BY <2>1 DEF MediaThread
    <3>2. \A c \in DOMAIN delivered : IsClear(delivered[c]) =>
                \A x \in Sources(stash) \union Sources(play) : x[1] > c
      BY <1>1 DEF DownlinkInv, Silenced
    <3> QED BY <3>1, <3>2, <1>1, HeardFrom DEF IsClear
  <2>2. CASE EventThread
    BY <2>2 DEF EventThread, Callback, OnBinary, ClearPlayback, pbVars
  <2>3. CASE UNCHANGED vars
    BY <2>3
  <2> QED BY <2>1, <2>2, <2>3, <1>1 DEF Next
<1> QED BY <1>1, Downlinks, PTL DEF Spec, ClearSilences

-----------------------------------------------------------------------------
(* The receiver: joined sequences.                                         *)

\* B[n] is the first n of the sequences q, joined.
Joins(B, q, n, S) ==
    /\ B[0] = <<>>
    /\ \A i \in 0..n : B[i] \in Seq(S)
    /\ \A i \in 1..n : B[i] = B[i - 1] \o q[i]

\* There is one such B.
LEMMA JoinsExists ==
    ASSUME NEW S, NEW q \in Seq(Seq(S))
    PROVE  \E B : Joins(B, q, Len(q), S)
<1> DEFINE n == Len(q)
           D == Seq(S)
           step(i, w) == w \o q[i]
           F == [p \in Nat \X D |-> IF p[1] \in 1..n THEN step(p[1], p[2]) ELSE p[2]]
<1>1. n \in Nat /\ <<>> \in D /\ \A i \in 1..n : q[i] \in D
  OBVIOUS
<1>2. \A i \in 1..n, w \in D : step(i, w) \in D
  BY <1>1
<1> HIDE DEF D, n, step
<1>3. F \in [Nat \X D -> D]
  BY <1>2
<1>4. \A i \in 1..n, w \in D : F[<<i, w>>] = step(i, w)
  BY <1>1
<1> HIDE DEF F
<1>5. PICK B : Follows(B, D, <<>>, F, n)
  BY <1>1, <1>3, Recursion
<1>6. B[0] = <<>> /\ \A i \in 0..n : B[i] \in D
  BY <1>5 DEF Follows
<1>7. ASSUME NEW i \in 1..n PROVE B[i] = B[i - 1] \o q[i]
  <2>1. i - 1 \in 0..n
    BY <1>1
  <2> QED
    BY <1>4, <1>5, <2>1 DEF Follows, step
<1> QED
  BY <1>6, <1>7 DEF Joins, D, n

\* And it is the same where the sequences are.
LEMMA JoinsAgree ==
    ASSUME NEW S, NEW q, NEW p, NEW n \in Nat, NEW B, NEW C,
           Joins(B, q, n, S), Joins(C, p, n, S), SameUpTo(q, p, n)
    PROVE  B[n] = C[n]
<1> DEFINE T == {m \in Nat : m <= n => B[m] = C[m]}
<1>1. 0 \in T
  BY DEF Joins
<1>2. ASSUME NEW m \in T \intersect Nat PROVE m + 1 \in T
  <2> SUFFICES ASSUME m + 1 <= n PROVE B[m + 1] = C[m + 1]
    OBVIOUS
  <2>1. B[m] = C[m] /\ m + 1 \in 1..n /\ (m + 1) - 1 = m
    OBVIOUS
  <2>2. /\ B[m + 1] = B[m] \o q[m + 1] /\ C[m + 1] = C[m] \o p[m + 1]
        /\ q[m + 1] = p[m + 1]
    BY <2>1 DEF Joins, SameUpTo
  <2> QED
    BY <2>1, <2>2
<1> HIDE DEF T
<1>3. n \in T
  BY <1>1, <1>2, SetInduction
<1> QED
  BY <1>3 DEF T

\* FlattenSeq is the last of them.
LEMMA FlattenIs ==
    ASSUME NEW S, NEW q \in Seq(Seq(S)), NEW B, Joins(B, q, Len(q), S)
    PROVE  FlattenSeq(q) = B[Len(q)]
<1> DEFINE n == Len(q)
           Is(A) == A = [i \in 1..n |-> IF i = 1 THEN q[i] ELSE A[i - 1] \o q[i]]
           C == CHOOSE A : Is(A)
<1>1. n \in Nat /\ \A i \in 1..n : q[i] \in Seq(S)
  OBVIOUS
<1>2. CASE n = 0
  <2>1. q = <<>>
    BY <1>2
  <2> QED
    BY <1>2, <2>1 DEF FlattenSeq, Joins
<1>3. CASE n # 0
  <2>1. FlattenSeq(q) = C[n]
    BY <1>3 DEF FlattenSeq
  <2> HIDE DEF n
  <2> DEFINE A == [i \in 1..n |-> B[i]]
  <2>2. Is(A)
    <3>1. ASSUME NEW i \in 1..n PROVE A[i] = IF i = 1 THEN q[i] ELSE A[i - 1] \o q[i]
      <4>1. B[i] = B[i - 1] \o q[i] /\ B[0] = <<>>
        BY DEF Joins, n
      <4>2. CASE i = 1
        <5>1. i - 1 = 0 /\ <<>> \o q[i] = q[i]
          BY <1>1, <4>2
        <5> QED
          BY <4>1, <4>2, <5>1
      <4>3. CASE i # 1
        <5>1. i - 1 \in 1..n
          BY <1>1, <4>3
        <5> QED
          BY <4>1, <4>3, <5>1
      <4> QED
        BY <4>2, <4>3
    <3>2. A = [i \in 1..n |-> A[i]]
      OBVIOUS
    <3> HIDE DEF A
    <3> QED
      BY <3>1, <3>2, Zenon
  <2>3. Is(C)
    BY <2>2, Zenon
  <2> HIDE DEF C
  <2> DEFINE G == [i \in 0..n |-> IF i = 0 THEN <<>> ELSE C[i]]
  <2>4. ASSUME NEW i \in 1..n PROVE C[i] = IF i = 1 THEN q[i] ELSE C[i - 1] \o q[i]
    BY <2>3
  <2> DEFINE T == {i \in Nat : i \in 1..n => C[i] = B[i]}
  <2>5. 0 \in T
    OBVIOUS
  <2>6. ASSUME NEW i \in T \intersect Nat PROVE i + 1 \in T
    <3> SUFFICES ASSUME i + 1 \in 1..n PROVE C[i + 1] = B[i + 1]
      OBVIOUS
    <3>0. (i + 1) - 1 = i
      OBVIOUS
    <3>1. B[i + 1] = B[(i + 1) - 1] \o q[i + 1] /\ B[0] = <<>>
      BY DEF Joins, n
    <3>2. C[i + 1] = IF i + 1 = 1 THEN q[i + 1] ELSE C[i] \o q[i + 1]
      BY <2>4, <3>0
    <3>3. CASE i = 0
      <4>1. q[i + 1] \in Seq(S)
        BY <1>1
      <4>2. <<>> \o q[i + 1] = q[i + 1]
        BY <4>1
      <4>3. i + 1 = 1
        BY <3>3
      <4> QED
        BY <3>0, <3>1, <3>2, <3>3, <4>2, <4>3
    <3>4. CASE i # 0
      <4>1. i \in 1..n /\ i + 1 # 1
        BY <1>1, <3>4
      <4> QED
        BY <3>0, <3>1, <3>2, <4>1
    <3> QED
      BY <3>3, <3>4
  <2> HIDE DEF T
  <2>7. n \in T
    BY <1>1, <2>5, <2>6, SetInduction
  <2> QED
    BY <1>1, <1>3, <2>1, <2>7 DEF T, n
<1> QED
  BY <1>2, <1>3

\* One sequence more.
LEMMA FlattenAppend ==
    ASSUME NEW S, NEW q \in Seq(Seq(S)), NEW x \in Seq(S)
    PROVE  /\ FlattenSeq(q) \in Seq(S)
           /\ FlattenSeq(Append(q, x)) = FlattenSeq(q) \o x
<1> DEFINE n == Len(q)
           p == Append(q, x)
<1>1. n \in Nat /\ p \in Seq(Seq(S)) /\ Len(p) = n + 1 /\ p[n + 1] = x
  OBVIOUS
<1>2. \A i \in 1..n : q[i] = p[i]
  OBVIOUS
<1> HIDE DEF p
<1>3. PICK B : Joins(B, q, n, S)
  BY JoinsExists
<1>4. PICK C : Joins(C, p, n + 1, S)
  BY <1>1, JoinsExists
<1>5. FlattenSeq(q) = B[n] /\ FlattenSeq(p) = C[n + 1]
  BY <1>1, <1>3, <1>4, FlattenIs
<1> HIDE DEF n
<1>6. B[n] \in Seq(S)
  BY <1>1, <1>3 DEF Joins
<1>7. Joins(C, p, n, S) /\ C[n + 1] = C[n] \o x
  <2>1. n + 1 \in 1..(n + 1) /\ (n + 1) - 1 = n
    BY <1>1
  <2>2. (\A i \in 0..n : i \in 0..(n + 1)) /\ \A i \in 1..n : i \in 1..(n + 1)
    BY <1>1
  <2> QED
    BY <1>1, <1>4, <2>1, <2>2 DEF Joins
<1>8. B[n] = C[n]
  <2>1. SameUpTo(q, p, n)
    BY <1>2 DEF SameUpTo
  <2> QED
    BY <1>1, <1>3, <1>7, <2>1, JoinsAgree
<1> QED
  BY <1>5, <1>6, <1>7, <1>8 DEF p

\* Of empty ones nothing comes.
LEMMA FlattenNone ==
    ASSUME NEW S, NEW q \in Seq(Seq(S)), \A i \in 1..Len(q) : q[i] = <<>>
    PROVE  FlattenSeq(q) = <<>>
<1> DEFINE n == Len(q)
           B == [i \in 0..n |-> <<>>]
<1>1. n \in Nat
  OBVIOUS
<1>2. Joins(B, q, n, S)
  <2>1. <<>> \in Seq(S) /\ <<>> \o <<>> = <<>>
    OBVIOUS
  <2>2. 0 \in 0..n /\ \A i \in 1..n : i \in 0..n /\ i - 1 \in 0..n
    BY <1>1
  <2> QED
    BY <2>1, <2>2 DEF Joins
<1>3. FlattenSeq(q) = B[n]
  BY <1>2, FlattenIs
<1> QED
  BY <1>1, <1>3

-----------------------------------------------------------------------------
(* The receiver: the account, and what it says of a frame.                 *)

\* What the receiver holds after the frames s, none of them refused: the message under way,
\* with all its bytes, and a validator that was fed them.
Holding(s, m, v) ==
    LET n == Len(s)
        d == First(s, n) IN
    /\ m.inProgress =>
          /\ d \in 1..n /\ Starts(s[d]) /\ ~s[d].fin
          /\ \A k \in (d + 1)..n : ~Starts(s[k]) /\ ~(s[k].op = 0 /\ s[k].fin)
          /\ m.opcode = s[d].op /\ m.z = s[d].z /\ m.bytes = Wire(s, n)
          /\ v = IF m.opcode = Text /\ ~m.z THEN ValidateChunk(Fresh, m.bytes) ELSE Fresh
          /\ v # Invalid
    /\ ~m.inProgress => ~UnderWay(s, n + 1)

\* The code the last frame taken deserves; the next one's header is refused.
CodeOf(s) == IF Len(s) = 0 THEN 0 ELSE Verdict(s, Len(s))
Refuse == handled < Len(stream) /\ HeaderRefused(stream[handled + 1])

\* The answers the frames taken ask for, and the close of the last one, or of the next.
Answered ==
    LET code == CodeOf(Taken)
        pongs == Pongs(Taken) IN
    \/ code # 0 /\ answers = Append(pongs, <<"close", code>>)
    \/ code = 0 /\ answers = pongs
    \/ code = 0 /\ Refuse /\ answers = Append(pongs, <<"close", 1002>>)

\* The account of the receiver: it has delivered and answered what the frames taken ask for.
Received ==
    /\ handled <= Len(stream)
    /\ delivered = Messages(Taken)
    /\ \A i \in 1..(handled - 1) : Verdict(Taken, i) = 0
    /\ Answered
    /\ ~terminating => /\ CodeOf(Taken) = 0 /\ answers = Pongs(Taken)
                       /\ Holding(Taken, message, validator)
    /\ partial => handled < Len(stream)
    /\ Waits => handled = Len(stream) - (IF partial THEN 1 ELSE 0) /\ ~Refuse

\* What is said of frame i depends on the frames up to it.
LEMMA FirstSame ==
    ASSUME NEW s, NEW t, NEW i \in Nat, SameUpTo(s, t, i)
    PROVE  First(s, i) = First(t, i)
<1>1. {j \in 1..i : Starts(s[j])} = {j \in 1..i : Starts(t[j])}
  BY DEF SameUpTo
<1> QED
  BY <1>1 DEF First

\* So do the bytes of its message.
LEMMA WireSame ==
    ASSUME NEW s, NEW t, NEW i \in Nat, SameUpTo(s, t, i)
    PROVE  Wire(s, i) = Wire(t, i)
<1> DEFINE part(r, k) == IF k >= First(s, i) /\ IsData(r[k]) THEN r[k].bytes ELSE <<>>
<1>1. First(s, i) = First(t, i)
  BY FirstSame
<1>2. \A k \in 1..i : part(s, k) = part(t, k)
  BY DEF SameUpTo
<1> HIDE DEF part
<1>3. [k \in 1..i |-> part(s, k)] = [k \in 1..i |-> part(t, k)]
  BY <1>2
<1> QED
  BY <1>1, <1>3 DEF Wire, part

\* So does whether a message is under way behind it.
LEMMA UnderWaySame ==
    ASSUME NEW s, NEW t, NEW i \in Nat, SameUpTo(s, t, i)
    PROVE  UnderWay(s, i + 1) <=> UnderWay(t, i + 1)
<1>1. (i + 1) - 1 = i
  OBVIOUS
<1>2. \A j \in 1..i : \A k \in (j + 1)..i : k \in 1..i
  OBVIOUS
<1>3. \A j \in 1..i : s[j] = t[j]
  BY DEF SameUpTo
<1> QED
  BY <1>1, <1>2, <1>3 DEF UnderWay

\* The frame that begins the message is the last that begins one.
LEMMA FirstIs ==
    ASSUME NEW s, NEW i \in Nat, NEW d \in 1..i, Starts(s[d]),
           \A k \in (d + 1)..i : ~Starts(s[k])
    PROVE  First(s, i) = d
<1> DEFINE S == {j \in 1..i : Starts(s[j])}
<1>1. d \in S /\ \A j \in S : j \in Nat /\ j <= d
  OBVIOUS
<1>2. First(s, i) = CHOOSE x \in S : \A y \in S : x >= y
  BY DEF First, Max
<1> HIDE DEF S
<1>3. \A x \in S : (\A y \in S : x >= y) => x = d
  BY <1>1
<1>4. \A y \in S : d >= y
  BY <1>1
<1> QED
  BY <1>1, <1>2, <1>3, <1>4

\* There is one if any frame does.
LEMMA FirstIn ==
    ASSUME NEW s, NEW i \in Nat, NEW j \in 1..i, Starts(s[j])
    PROVE  /\ First(s, i) \in 1..i /\ Starts(s[First(s, i)])
           /\ \A k \in (First(s, i) + 1)..i : ~Starts(s[k])
<1> DEFINE T == {x \in Nat : x < i /\ Starts(s[i - x])}
<1>1. T \subseteq Nat /\ T # {}
  <2>1. i - j \in Nat /\ i - j < i /\ i - (i - j) = j
    OBVIOUS
  <2>2. i - j \in T
    BY <2>1
  <2> QED
    BY <2>2
<1>2. PICK x \in T : \A y \in T : ~(y < x)
  BY <1>1, LeastNumber
<1> DEFINE d == i - x
<1>3. d \in 1..i /\ Starts(s[d])
  BY <1>2
<1>4. ASSUME NEW k \in (d + 1)..i PROVE ~Starts(s[k])
  <2>1. i - k \in Nat /\ i - k < i /\ i - (i - k) = k /\ i - k < x
    BY <1>2
  <2>2. i - k \notin T
    BY <1>2, <2>1
  <2> QED
    BY <2>1, <2>2
<1> HIDE DEF d
<1>5. First(s, i) = d
  BY <1>3, <1>4, FirstIs
<1> QED
  BY <1>3, <1>4, <1>5

\* A data frame in its place has a beginning.
LEMMA PlacedHasFirst ==
    ASSUME NEW s, NEW i \in Nat \ {0}, IsData(s[i]), ~Misplaced(s, i)
    PROVE  First(s, i) \in 1..i
<1>1. CASE Starts(s[i])
  <2>1. i \in 1..i
    OBVIOUS
  <2> QED
    BY <1>1, <2>1, FirstIn
<1>2. CASE UnderWay(s, i)
  <2>1. PICK j \in 1..(i - 1) : Starts(s[j])
    BY <1>2 DEF UnderWay
  <2>2. j \in 1..i
    OBVIOUS
  <2> QED
    BY <2>1, <2>2, FirstIn
<1> QED
  BY <1>1, <1>2 DEF Misplaced, IsData, Starts

\* So do what it deserves and what it completes.
LEMMA VerdictSame ==
    ASSUME NEW s, NEW t, NEW i \in Nat \ {0}, SameUpTo(s, t, i)
    PROVE  /\ Verdict(s, i) = Verdict(t, i)
           /\ Completes(s, i) <=> Completes(t, i)
           /\ Completes(s, i) => /\ Content(s, i) = Content(t, i)
                                /\ s[First(s, i)].op = t[First(t, i)].op
<1>1. s[i] = t[i]
  BY DEF SameUpTo
<1>2. First(s, i) = First(t, i) /\ Wire(s, i) = Wire(t, i)
  BY FirstSame, WireSame
<1>3. Misplaced(s, i) <=> Misplaced(t, i)
  <2>1. i - 1 \in Nat /\ (i - 1) + 1 = i /\ SameUpTo(s, t, i - 1)
    BY DEF SameUpTo
  <2>2. UnderWay(s, i) <=> UnderWay(t, i)
    BY <2>1, UnderWaySame
  <2> QED
    BY <1>1, <2>2 DEF Misplaced
<1>4. ASSUME ~Misplaced(s, i), IsData(s[i])
      PROVE  /\ s[First(s, i)] = t[First(t, i)] /\ Compressed(s, i) = Compressed(t, i)
             /\ Content(s, i) = Content(t, i)
  <2>1. s[First(s, i)] = t[First(t, i)]
    BY <1>2, <1>4, PlacedHasFirst DEF SameUpTo
  <2> QED
    BY <1>2, <2>1 DEF Compressed, Content
<1>5. ~Misplaced(s, i) => (NotText(s, i) <=> NotText(t, i))
  BY <1>1, <1>2, <1>4 DEF NotText
<1>6. Verdict(s, i) = Verdict(t, i)
  BY <1>1, <1>3, <1>5 DEF Verdict
<1>7. Completes(s, i) => IsData(s[i]) /\ ~Misplaced(s, i)
  BY DEF Completes, Verdict
<1> QED
  BY <1>1, <1>4, <1>6, <1>7 DEF Completes

\* The fields of a frame.
LEMMA FrameFields ==
    ASSUME NEW f \in Frames
    PROVE  /\ f.op \in Nat /\ f.bytes \in Seq(Nat) /\ f.code \in Nat
           /\ f.fin \in BOOLEAN /\ f.z \in BOOLEAN
BY FramesAssumption

\* One frame more leaves those before it.
LEMMA OneFrameMore ==
    ASSUME NEW s \in Seq(Frames), NEW f \in Frames
    PROVE  /\ Append(s, f) \in Seq(Frames) /\ Len(Append(s, f)) = Len(s) + 1
           /\ Append(s, f)[Len(s) + 1] = f
           /\ \A i \in 0..Len(s) : SameUpTo(s, Append(s, f), i)
<1>1. \A i \in 1..Len(s) : s[i] = Append(s, f)[i]
  OBVIOUS
<1>2. \A i \in 0..Len(s) : \A j \in 1..i : j \in 1..Len(s)
  OBVIOUS
<1> QED
  BY <1>1, <1>2 DEF SameUpTo

\* What Wire joins.
WireParts(s, i) ==
    [k \in 1..i |-> IF k >= First(s, i) /\ IsData(s[k]) THEN s[k].bytes ELSE <<>>]

\* They are sequences of bytes, and Wire is them joined.
LEMMA WireIs ==
    ASSUME NEW s \in Seq(Frames), NEW i \in 0..Len(s)
    PROVE  /\ WireParts(s, i) \in Seq(Seq(Nat)) /\ Wire(s, i) = FlattenSeq(WireParts(s, i))
           /\ Wire(s, i) \in Seq(Nat)
<1>1. i \in Nat /\ \A k \in 1..i : s[k] \in Frames
  OBVIOUS
<1>2. \A k \in 1..i : s[k].bytes \in Seq(Nat)
  BY <1>1, FrameFields
<1> DEFINE part(k) == IF k >= First(s, i) /\ IsData(s[k]) THEN s[k].bytes ELSE <<>>
<1>3. \A k \in 1..i : part(k) \in Seq(Nat)
  BY <1>2
<1> HIDE DEF part
<1>4. [k \in 1..i |-> part(k)] \in Seq(Seq(Nat))
  BY <1>1, <1>3
<1>5. WireParts(s, i) \in Seq(Seq(Nat)) /\ Wire(s, i) = FlattenSeq(WireParts(s, i))
  BY <1>4 DEF WireParts, Wire, part
<1>6. FlattenSeq(WireParts(s, i)) \in Seq(Nat)
  <2>1. <<>> \in Seq(Nat)
    OBVIOUS
  <2> QED
    BY <1>5, <2>1, FlattenAppend
<1> QED
  BY <1>5, <1>6

\* What appending makes, place by place.
LEMMA AppendIs ==
    ASSUME NEW S, NEW q \in Seq(S), NEW x \in S, NEW n \in Nat, Len(q) = n
    PROVE  Append(q, x) = [k \in 1..(n + 1) |-> IF k = n + 1 THEN x ELSE q[k]]
<1> DEFINE A == Append(q, x)
<1>1. /\ A \in Seq(S) /\ Len(A) = n + 1 /\ A[n + 1] = x
      /\ \A k \in 1..n : A[k] = q[k]
  BY AppendProperties
<1> HIDE DEF A
<1>2. A = [k \in 1..(n + 1) |-> A[k]]
  BY <1>1
<1>3. \A k \in 1..(n + 1) : A[k] = IF k = n + 1 THEN x ELSE q[k]
  <2>1. \A k \in 1..(n + 1) : k # n + 1 => k \in 1..n
    OBVIOUS
  <2> QED
    BY <1>1, <2>1
<1> QED
  BY <1>2, <1>3 DEF A

\* A frame that begins a message: its bytes are what there is of it.
LEMMA WireStarts ==
    ASSUME NEW s \in Seq(Frames), NEW f \in Frames, Starts(f)
    PROVE  LET t == Append(s, f)
               N == Len(s) + 1
           IN  First(t, N) = N /\ Wire(t, N) = f.bytes
<1> DEFINE t == Append(s, f)
           n == Len(s)
           N == n + 1
           p == [k \in 1..n |-> <<>>]
<1>1. t \in Seq(Frames) /\ Len(t) = N /\ t[N] = f /\ n \in Nat
  BY OneFrameMore
<1> HIDE DEF t, n
<1>2. First(t, N) = N
  <2>1. N \in 1..N /\ (N + 1)..N = {}
    BY <1>1
  <2> QED
    BY <1>1, <2>1, FirstIs
<1>3. WireParts(t, N) = Append(p, f.bytes)
  <2>1. \A k \in 1..N : (k >= N <=> k = N) /\ (k # N => k \in 1..n)
    BY <1>1
  <2>2. IsData(f)
    BY DEF IsData, Starts
  <2>3. WireParts(t, N) = [k \in 1..N |-> IF k = N THEN f.bytes ELSE <<>>]
    BY <1>1, <1>2, <2>1, <2>2 DEF WireParts
  <2>4. Append(p, f.bytes) = [k \in 1..N |-> IF k = N THEN f.bytes ELSE <<>>]
    <3>1. p \in Seq(Seq(Nat)) /\ Len(p) = n /\ f.bytes \in Seq(Nat)
      BY <1>1, FrameFields
    <3>2. \A k \in 1..N : k # N => p[k] = <<>>
      BY <2>1
    <3> HIDE DEF p
    <3>3. Append(p, f.bytes) = [k \in 1..N |-> IF k = N THEN f.bytes ELSE p[k]]
      BY <1>1, <3>1, AppendIs
    <3> QED
      BY <3>2, <3>3
  <2> QED
    BY <2>3, <2>4
<1>4. p \in Seq(Seq(Nat)) /\ Len(p) = n /\ \A k \in 1..n : p[k] = <<>>
  BY <1>1
<1> HIDE DEF p
<1>5. FlattenSeq(p) = <<>> /\ f.bytes \in Seq(Nat)
  BY <1>4, FlattenNone, FrameFields
<1>6. Wire(t, N) = <<>> \o f.bytes
  <2>1. N \in 0..Len(t)
    BY <1>1
  <2>2. Wire(t, N) = FlattenSeq(WireParts(t, N))
    BY <1>1, <2>1, WireIs
  <2> QED
    BY <1>3, <1>4, <1>5, <2>2, FlattenAppend
<1>7. <<>> \o f.bytes = f.bytes
  BY <1>5
<1> QED
  BY <1>2, <1>6, <1>7 DEF t, n

\* Another frame of it, or a control frame between.
LEMMA WireGoesOn ==
    ASSUME NEW s \in Seq(Frames), NEW f \in Frames, ~Starts(f), First(s, Len(s)) \in 1..Len(s)
    PROVE  LET t == Append(s, f)
               N == Len(s) + 1
           IN  /\ First(t, N) = First(s, Len(s)) /\ t[First(t, N)] = s[First(s, Len(s))]
               /\ Wire(t, N) = IF IsData(f) THEN Wire(s, Len(s)) \o f.bytes ELSE Wire(s, Len(s))
<1> DEFINE t == Append(s, f)
           n == Len(s)
           N == n + 1
           d == First(s, n)
           x == IF IsData(f) THEN f.bytes ELSE <<>>
<1>1. /\ t \in Seq(Frames) /\ Len(t) = N /\ t[N] = f /\ n \in Nat
      /\ \A k \in 1..n : t[k] = s[k]
  BY OneFrameMore
<1> HIDE DEF t
<1>2. First(t, N) = d
  <2>1. {j \in 1..N : Starts(t[j])} = {j \in 1..n : Starts(s[j])}
    <3>1. \A j \in 1..N : j \in 1..n \/ j = N
      BY <1>1
    <3>2. \A j \in 1..n : j \in 1..N
      BY <1>1
    <3> QED
      BY <1>1, <3>1, <3>2
  <2> QED
    BY <2>1 DEF First
<1>3. WireParts(t, N) = Append(WireParts(s, n), x)
  <2> DEFINE p == WireParts(s, n)
  <2>1. p = [k \in 1..n |-> IF k >= d /\ IsData(s[k]) THEN s[k].bytes ELSE <<>>]
    BY DEF WireParts
  <2>2. Len(p) = n
    BY <1>1, <2>1
  <2>3. Append(p, x) = [k \in 1..N |-> IF k = N THEN x ELSE p[k]]
    <3>1. p \in Seq(Seq(Nat))
      BY <1>1, WireIs
    <3>2. x \in Seq(Nat)
      BY FrameFields
    <3> HIDE DEF p, x
    <3> QED
      BY <1>1, <2>2, <3>1, <3>2, AppendIs
  <2> HIDE DEF p, x
  <2>4. ASSUME NEW k \in 1..N
        PROVE  (IF k >= d /\ IsData(t[k]) THEN t[k].bytes ELSE <<>>) = IF k = N THEN x ELSE p[k]
    <3>1. CASE k = N
      <4>1. k >= d
        BY <1>1, <3>1
      <4> QED
        BY <1>1, <3>1, <4>1 DEF x
    <3>2. CASE k # N
      <4>1. k \in 1..n
        BY <1>1, <3>2
      <4> QED
        BY <1>1, <2>1, <3>2, <4>1
    <3> QED
      BY <3>1, <3>2
  <2>5. WireParts(t, N) = [k \in 1..N |-> IF k = N THEN x ELSE p[k]]
    BY <1>2, <2>4 DEF WireParts
  <2> QED
    BY <2>3, <2>5 DEF p
<1>4. x \in Seq(Nat)
  BY FrameFields
<1>5. Wire(t, N) = Wire(s, n) \o x
  <2>1. N \in 0..Len(t) /\ n \in 0..n
    BY <1>1
  <2> HIDE DEF x
  <2>2. /\ Wire(t, N) = FlattenSeq(WireParts(t, N))
        /\ Wire(s, n) = FlattenSeq(WireParts(s, n)) /\ WireParts(s, n) \in Seq(Seq(Nat))
    BY <1>1, <2>1, WireIs
  <2> QED
    BY <1>3, <1>4, <2>2, FlattenAppend
<1>6. Wire(s, n) \o <<>> = Wire(s, n)
  <2>1. Wire(s, n) \in Seq(Nat)
    BY <1>1, WireIs
  <2> QED
    BY <2>1
<1>7. t[First(t, N)] = s[d]
  BY <1>1, <1>2
<1> QED
  BY <1>2, <1>5, <1>6, <1>7 DEF t

\* Whether a message is under way after one more frame.
LEMMA UnderWayNext ==
    ASSUME NEW s \in Seq(Frames), NEW f \in Frames
    PROVE  LET t == Append(s, f)
               n == Len(s)
           IN  /\ UnderWay(t, n + 1) <=> UnderWay(s, n + 1)
               /\ UnderWay(t, n + 2) => \/ Starts(f) /\ ~f.fin
                                        \/ UnderWay(s, n + 1) /\ ~(f.op = 0 /\ f.fin)
<1> DEFINE t == Append(s, f)
           n == Len(s)
<1>1. /\ Len(t) = n + 1 /\ t[n + 1] = f /\ n \in Nat
      /\ \A k \in 1..n : t[k] = s[k]
      /\ SameUpTo(s, t, n)
  BY OneFrameMore
<1> HIDE DEF t, n
<1>2. UnderWay(t, n + 1) <=> UnderWay(s, n + 1)
  BY <1>1, UnderWaySame
<1>3. ASSUME UnderWay(t, n + 2), ~(Starts(f) /\ ~f.fin)
      PROVE  UnderWay(s, n + 1) /\ ~(f.op = 0 /\ f.fin)
  <2>1. (n + 2) - 1 = n + 1 /\ (n + 1) - 1 = n
    BY <1>1
  <2>2. PICK j \in 1..(n + 1) : /\ Starts(t[j]) /\ ~t[j].fin
                                /\ \A k \in (j + 1)..(n + 1) : ~(t[k].op = 0 /\ t[k].fin)
    BY <1>3, <2>1 DEF UnderWay
  <2>3. j \in 1..n
    BY <1>1, <1>3, <2>2
  <2>4. n + 1 \in (j + 1)..(n + 1) /\ \A k \in (j + 1)..n : k \in (j + 1)..(n + 1) /\ k \in 1..n
    BY <1>1, <2>3
  <2>5. ~(f.op = 0 /\ f.fin)
    BY <1>1, <2>2, <2>4
  <2>6. /\ Starts(s[j]) /\ ~s[j].fin
        /\ \A k \in (j + 1)..n : ~(s[k].op = 0 /\ s[k].fin)
    BY <1>1, <2>2, <2>3, <2>4
  <2> QED
    BY <2>1, <2>3, <2>5, <2>6 DEF UnderWay
<1> QED
  BY <1>2, <1>3 DEF t, n

-----------------------------------------------------------------------------
(* The receiver: a frame is taken.                                         *)

\* What a frame the loop takes, the last of t, must do: be answered with the code it
\* deserves, or do what it asks for and leave the message under way.
Taking(t) ==
    LET N == Len(t)
        f == t[N]
        code == Verdict(t, N)
        whole == [kind |-> t[First(t, N)].op, bytes |-> Content(t, N)] IN
    /\ code = 0 =>
          /\ terminating' = terminating /\ Holding(t, message', validator')
          /\ answers' = IF f.op = 9 THEN Append(answers, <<"pong", f.bytes>>) ELSE answers
          /\ delivered' = IF IsData(f) /\ f.fin THEN Append(delivered, whole) ELSE delivered
    /\ code # 0 =>
          terminating' /\ answers' = Append(answers, <<"close", code>>) /\ delivered' = delivered

\* What inflates is bytes.
LEMMA InflatedBytes ==
    ASSUME NEW b \in Seq(Nat), Inflates(b)
    PROVE  Inflate(b) \in Seq(Nat)
<1>1. Len(b) \in Nat /\ DOMAIN b = 1..Len(b) /\ \A i \in 1..Len(b) : b[i] \in Nat
  OBVIOUS
<1>2. \A i \in 1..Len(b) : b[i] - Deflated \in Nat
  BY <1>1 DEF Inflates, Deflated
<1>3. [i \in 1..Len(b) |-> b[i] - Deflated] \in Seq(Nat)
  BY <1>1, <1>2
<1> QED
  BY <1>1, <1>3 DEF Inflate

\* What Assemble knows of the message when it gets it.
Fragment(t, m, v0, f) ==
    LET N == Len(t)
        d == First(t, N) IN
    /\ m \in Assembled /\ m.inProgress
    /\ d \in 1..N /\ Starts(t[d])
    /\ m.opcode = t[d].op /\ m.z = t[d].z /\ m.bytes = Wire(t, N)
    /\ IF m.opcode = Text /\ ~m.z
       THEN ValidateChunk(v0, f.bytes) = ValidateChunk(Fresh, m.bytes)
       ELSE v0 = Fresh

\* Assemble's validator after the fragment, its content at the end, and what it refuses.
ValidatorAfter(m, v0, f) == IF m.opcode = Text /\ ~m.z THEN ValidateChunk(v0, f.bytes) ELSE v0
ContentOf(m) == IF m.z THEN Inflate(m.bytes) ELSE m.bytes
FinalOf(m, v0, f) == IF m.z THEN ValidateChunk(Fresh, ContentOf(m)) ELSE ValidatorAfter(m, v0, f)
Refuses(m, v0, f) ==
    \/ ValidatorAfter(m, v0, f) = Invalid
    \/ f.fin /\ m.z /\ ~Inflates(m.bytes)
    \/ f.fin /\ m.opcode = Text /\ ~ValidateFinal(FinalOf(m, v0, f))

\* Assemble refuses a fragment exactly when what there is of the message is no text, or no
\* start of one.
LEMMA AssembleRefuses ==
    ASSUME NEW t, NEW m, NEW v0, NEW f, f = t[Len(t)], f.fin \in BOOLEAN, IsData(f),
           Fragment(t, m, v0, f)
    PROVE  /\ NotText(t, Len(t)) <=> Refuses(m, v0, f)
           /\ ContentOf(m) = Content(t, Len(t))
<1> DEFINE N == Len(t)
           W == Wire(t, N)
           v == ValidatorAfter(m, v0, f)
           content == ContentOf(m)
           final == FinalOf(m, v0, f)
           bad == \/ v = Invalid
                  \/ f.fin /\ m.z /\ ~Inflates(m.bytes)
                  \/ f.fin /\ m.opcode = Text /\ ~ValidateFinal(final)
<1>1. /\ m.bytes = W /\ W \in Seq(Nat) /\ m.z \in BOOLEAN
      /\ t[First(t, N)].op = m.opcode /\ Compressed(t, N) = m.z
  BY DEF Fragment, Assembled, Compressed
<1>2. content = Content(t, N)
  BY <1>1 DEF Content, ContentOf
<1>3. NotText(t, N) <=>
          \/ f.fin /\ m.z /\ ~Inflates(W)
          \/ /\ m.opcode = Text
             /\ \/ f.fin /\ ~WellFormed(content)
                \/ ~f.fin /\ ~m.z /\ ~Completable(W)
  BY <1>1, <1>2 DEF NotText
<1>4. Fresh # Invalid
  BY DEF Fresh, Invalid
<1>5. ASSUME m.opcode = Text /\ ~m.z PROVE NotText(t, N) <=> bad
  <2>1. v = ValidateChunk(Fresh, W) /\ content = W /\ final = v
    BY <1>1, <1>5 DEF Fragment, ValidatorAfter, ContentOf, FinalOf
  <2>2. (v # Invalid <=> Completable(W)) /\ (ValidateFinal(v) <=> WellFormed(W))
    BY <1>1, <2>1, ValidatorDecides
  <2>3. ValidateFinal(v) => v # Invalid
    BY DEF ValidateFinal
  <2> HIDE DEF v, final, content
  <2> QED
    BY <1>1, <1>2, <1>3, <1>5, <2>1, <2>2, <2>3
<1>6. ASSUME m.opcode = Text /\ m.z PROVE NotText(t, N) <=> bad
  <2>1. v = Fresh /\ content = Inflate(W) /\ final = ValidateChunk(Fresh, content)
    BY <1>1, <1>6 DEF Fragment, ValidatorAfter, ContentOf, FinalOf
  <2>2. Inflates(W) => (ValidateFinal(final) <=> WellFormed(content))
    BY <1>1, <2>1, InflatedBytes, ValidatorDecides
  <2> HIDE DEF v, final, content
  <2> QED
    BY <1>1, <1>2, <1>3, <1>4, <1>6, <2>1, <2>2
<1>7. ASSUME m.opcode # Text PROVE NotText(t, N) <=> bad
  <2>1. v = Fresh
    BY <1>7 DEF Fragment, ValidatorAfter
  <2> HIDE DEF v, final, content
  <2> QED
    BY <1>1, <1>2, <1>3, <1>4, <1>7, <2>1
<1>8. NotText(t, N) <=> bad
  BY <1>1, <1>5, <1>6, <1>7
<1> QED
  BY <1>2, <1>8 DEF Refuses

\* A fragment is taken as it must.
LEMMA FragmentTaken ==
    ASSUME NEW t \in Seq(Frames), Len(t) # 0, NEW m, NEW v0, NEW f \in Frames, f = t[Len(t)],
           IsData(f), ~Misplaced(t, Len(t)), Fragment(t, m, v0, f), Assemble(m, v0, f),
           f.fin => ~UnderWay(t, Len(t) + 1),
           ~f.fin => LET d == First(t, Len(t))
                     IN  ~t[d].fin /\ \A k \in (d + 1)..Len(t) :
                                          ~Starts(t[k]) /\ ~(t[k].op = 0 /\ t[k].fin)
    PROVE  Taking(t)
<1> DEFINE N == Len(t)
           d == First(t, N)
<1>1. f.fin \in BOOLEAN /\ f.op \in {0, Text, Binary} /\ f.op # 8 /\ f.op # 9
  BY FrameFields DEF IsData, Text, Binary
<1>2. (NotText(t, N) <=> Refuses(m, v0, f)) /\ ContentOf(m) = Content(t, N)
  BY <1>1, AssembleRefuses
<1>3. /\ IF Refuses(m, v0, f) THEN EndWith(1007)
         ELSE IF f.fin THEN Deliver(m.opcode, ContentOf(m)) ELSE Silently
      /\ message' = IF f.fin THEN NoMessage ELSE m
      /\ validator' = ValidatorAfter(m, v0, f)
  BY DEF Assemble, Refuses, ContentOf, FinalOf, ValidatorAfter
<1> DEFINE v == ValidatorAfter(m, v0, f)
           bad == Refuses(m, v0, f)
<1>4. /\ v = IF m.opcode = Text /\ ~m.z THEN ValidateChunk(Fresh, m.bytes) ELSE Fresh
      /\ v = Invalid => bad
  BY DEF Fragment, ValidatorAfter, Refuses
<1> HIDE DEF v, bad
<1>5. Verdict(t, N) = IF bad THEN 1007 ELSE 0
  BY <1>1, <1>2 DEF Verdict, bad
<1>6. CASE bad
  BY <1>3, <1>5, <1>6 DEF Taking, EndWith, bad
<1>7. CASE ~bad /\ f.fin
  <2>1. Holding(t, message', validator')
    BY <1>3, <1>7 DEF Holding, NoMessage
  <2>2. [kind |-> t[d].op, bytes |-> Content(t, N)] = [kind |-> m.opcode, bytes |-> ContentOf(m)]
    BY <1>2 DEF Fragment
  <2> QED
    BY <1>1, <1>3, <1>5, <1>7, <2>1, <2>2 DEF Taking, Deliver, bad
<1>8. CASE ~bad /\ ~f.fin
  <2>1. Holding(t, message', validator')
    <3>1. message' = m /\ validator' = v /\ v # Invalid
      BY <1>3, <1>4, <1>8 DEF v
    <3> QED
      BY <1>4, <1>8, <3>1 DEF Holding, Fragment
  <2> QED
    BY <1>1, <1>3, <1>5, <1>8, <2>1 DEF Taking, Silently, bad
<1> QED
  BY <1>6, <1>7, <1>8

\* What HandleFrame does with a frame whose payload is there.
TakesFrame(f) ==
    \/ f.op = 0 /\ Continuation_(f)
    \/ f.op \in {Text, Binary} /\ DataFrame(f)
    \/ f.op = 8 /\ EndWith(CloseCode(f)) /\ UNCHANGED assembly
    \/ /\ f.op \in {9, 10}
       /\ answers' = IF f.op = 9 THEN Append(answers, <<"pong", f.bytes>>) ELSE answers
       /\ UNCHANGED <<terminating, delivered, assembly>>
    \/ f.op \notin {0, Text, Binary, 8, 9, 10} /\ EndWith(1002) /\ UNCHANGED assembly

\* A message is held exactly while one is under way.
LEMMA HeldUnderWay ==
    ASSUME NEW s \in Seq(Frames), NEW m, NEW v, Holding(s, m, v)
    PROVE  m.inProgress <=> UnderWay(s, Len(s) + 1)
<1>1. (Len(s) + 1) - 1 = Len(s)
  OBVIOUS
<1>2. m.inProgress => UnderWay(s, Len(s) + 1)
  BY <1>1 DEF Holding, UnderWay
<1>3. ~m.inProgress => ~UnderWay(s, Len(s) + 1)
  BY DEF Holding
<1> QED
  BY <1>2, <1>3

\* A control frame leaves the message that is under way.
LEMMA ControlHolds ==
    ASSUME NEW s \in Seq(Frames), NEW f \in Frames, NEW m, NEW v, Holding(s, m, v), ~IsData(f)
    PROVE  Holding(Append(s, f), m, v)
<1> DEFINE t == Append(s, f)
           n == Len(s)
           N == n + 1
           d == First(s, n)
<1>1. /\ t \in Seq(Frames) /\ Len(t) = N /\ t[N] = f /\ n \in Nat
      /\ \A k \in 1..n : t[k] = s[k]
  BY OneFrameMore
<1>2. ~Starts(f) /\ ~(f.op = 0)
  BY DEF IsData, Starts
<1>3. ASSUME m.inProgress
      PROVE  /\ First(t, N) \in 1..N /\ Starts(t[First(t, N)]) /\ ~t[First(t, N)].fin
             /\ \A k \in (First(t, N) + 1)..N : ~Starts(t[k]) /\ ~(t[k].op = 0 /\ t[k].fin)
             /\ m.opcode = t[First(t, N)].op /\ m.z = t[First(t, N)].z /\ m.bytes = Wire(t, N)
  <2>1. /\ d \in 1..n /\ Starts(s[d]) /\ ~s[d].fin
        /\ \A k \in (d + 1)..n : ~Starts(s[k]) /\ ~(s[k].op = 0 /\ s[k].fin)
        /\ m.opcode = s[d].op /\ m.z = s[d].z /\ m.bytes = Wire(s, n)
    BY <1>3 DEF Holding
  <2>2. First(t, N) = d /\ t[First(t, N)] = s[d] /\ Wire(t, N) = Wire(s, n)
    BY <1>2, <2>1, WireGoesOn
  <2> HIDE DEF t, n, d
  <2>3. d \in 1..N /\ \A k \in (d + 1)..N : k = N \/ (k \in (d + 1)..n /\ k \in 1..n)
    BY <1>1, <2>1
  <2>4. \A k \in (d + 1)..N : ~Starts(t[k]) /\ ~(t[k].op = 0 /\ t[k].fin)
    BY <1>1, <1>2, <2>1, <2>3
  <2> QED
    BY <2>1, <2>2, <2>3, <2>4
<1>4. ASSUME m.inProgress
      PROVE  /\ v = IF m.opcode = Text /\ ~m.z THEN ValidateChunk(Fresh, m.bytes) ELSE Fresh
             /\ v # Invalid
  BY <1>4 DEF Holding
<1>5. ASSUME ~m.inProgress PROVE ~UnderWay(t, N + 1)
  <2>1. ~UnderWay(s, N)
    BY <1>5 DEF Holding
  <2>2. N + 1 = n + 2
    BY <1>1
  <2> QED
    BY <1>2, <2>1, <2>2, UnderWayNext
<1> HIDE DEF t, N, d
<1> QED
  BY <1>1, <1>3, <1>4, <1>5 DEF Holding, t, N

\* A frame in the wrong place, or one that closes.
LEMMA EndTaken ==
    ASSUME NEW t, NEW code \in Nat \ {0}, Verdict(t, Len(t)) = code, EndWith(code)
    PROVE  Taking(t)
BY DEF Taking, EndWith

\* The loop takes a frame as it must.
LEMMA FrameTaken ==
    ASSUME NEW s \in Seq(Frames), NEW f \in Frames, message \in Assembled,
           Holding(s, message, validator), ~HeaderRefused(f), TakesFrame(f)
    PROVE  Taking(Append(s, f))
<1> DEFINE t == Append(s, f)
           n == Len(s)
           N == n + 1
           d == First(s, n)
<1>1. /\ t \in Seq(Frames) /\ Len(t) = N /\ t[N] = f /\ n \in Nat /\ N # 0
      /\ \A k \in 1..n : t[k] = s[k]
  BY OneFrameMore
<1>2. /\ f.op \in Nat /\ f.bytes \in Seq(Nat) /\ f.code \in Nat
      /\ f.fin \in BOOLEAN /\ f.z \in BOOLEAN
  BY FrameFields
<1>3. /\ message.inProgress <=> UnderWay(t, N)
      /\ UnderWay(t, N + 1) => \/ Starts(f) /\ ~f.fin
                               \/ message.inProgress /\ ~(f.op = 0 /\ f.fin)
  <2>1. message.inProgress <=> UnderWay(s, N)
    BY HeldUnderWay
  <2>2. N + 1 = n + 2
    BY <1>1
  <2> QED
    BY <2>1, <2>2, UnderWayNext
<1>4. /\ f.op \in {0, Text, Binary} <=> IsData(f)
      /\ f.op \in {Text, Binary} <=> Starts(f)
      /\ f.op = 0 => ~Starts(f)
  BY DEF IsData, Starts, Text, Binary
<1> HIDE DEF t, n, d
<1>5. Misplaced(t, N) <=> \/ f.op \notin {0, Text, Binary, 8, 9, 10}
                          \/ f.op = 0 /\ ~message.inProgress
                          \/ Starts(f) /\ message.inProgress
  BY <1>1, <1>3 DEF Misplaced
<1>6. ASSUME Misplaced(t, N), EndWith(1002) PROVE Taking(t)
  BY <1>1, <1>6, EndTaken DEF Verdict
<1>7. ASSUME f.op = 0 /\ Continuation_(f) PROVE Taking(t)
  <2>1. CASE ~message.inProgress
    BY <1>5, <1>6, <1>7, <2>1 DEF Continuation_
  <2>2. CASE message.inProgress
    <3> DEFINE m == [message EXCEPT !.bytes = @ \o f.bytes]
    <3>1. Assemble(m, validator, f)
      BY <1>7, <2>2 DEF Continuation_
    <3>2. /\ d \in 1..n /\ Starts(s[d]) /\ ~s[d].fin
          /\ \A k \in (d + 1)..n : ~Starts(s[k]) /\ ~(s[k].op = 0 /\ s[k].fin)
          /\ message.opcode = s[d].op /\ message.z = s[d].z /\ message.bytes = Wire(s, n)
          /\ validator = IF message.opcode = Text /\ ~message.z
                         THEN ValidateChunk(Fresh, message.bytes) ELSE Fresh
      BY <2>2 DEF Holding, n, d
    <3>3. First(t, N) = d /\ t[d] = s[d] /\ Wire(t, N) = Wire(s, n) \o f.bytes
      BY <1>4, <1>7, <3>2, WireGoesOn DEF t, n, d
    <3>4. message.bytes \in Seq(Nat) /\ message.bytes \o f.bytes \in Seq(Nat)
      <4>1. message.bytes \in Seq(Nat)
        BY DEF Assembled
      <4> QED
        BY <1>2, <4>1
    <3>5. /\ m \in Assembled /\ m.inProgress = message.inProgress /\ m.opcode = message.opcode
          /\ m.z = message.z /\ m.bytes = message.bytes \o f.bytes
      BY <3>4 DEF Assembled
    <3> HIDE DEF m
    <3>6. Fragment(t, m, validator, f)
      <4>1. m.opcode = Text /\ ~m.z =>
              ValidateChunk(validator, f.bytes) = ValidateChunk(Fresh, m.bytes)
        <5>1. Fresh \in States
          BY DEF Fresh, States
        <5>2. ValidateChunk(ValidateChunk(Fresh, message.bytes), f.bytes)
              = ValidateChunk(Fresh, message.bytes \o f.bytes)
          BY <1>2, <3>4, <5>1, ChunksJoin
        <5> QED
          BY <3>2, <3>5, <5>2
      <4>2. d \in 1..N
        BY <1>1, <3>2
      <4> QED
        BY <1>1, <2>2, <3>2, <3>3, <3>5, <4>1, <4>2 DEF Fragment
    <3>7. IsData(f) /\ ~Misplaced(t, N) /\ (f.fin => ~UnderWay(t, N + 1))
      BY <1>3, <1>4, <1>5, <1>7, <2>2
    <3>8. ~f.fin => /\ ~t[d].fin
                    /\ \A k \in (d + 1)..N : ~Starts(t[k]) /\ ~(t[k].op = 0 /\ t[k].fin)
      <4>1. \A k \in (d + 1)..N : k = N \/ (k \in (d + 1)..n /\ k \in 1..n)
        BY <1>1, <3>2
      <4> QED
        BY <1>1, <1>4, <1>7, <3>2, <3>3, <4>1
    <3> QED
      BY <1>1, <3>1, <3>3, <3>6, <3>7, <3>8, FragmentTaken
  <2> QED
    BY <2>1, <2>2
<1>8. ASSUME f.op \in {Text, Binary} /\ DataFrame(f) PROVE Taking(t)
  <2>1. CASE message.inProgress
    BY <1>4, <1>5, <1>6, <1>8, <2>1 DEF DataFrame
  <2>2. CASE ~message.inProgress
    <3> DEFINE m == [inProgress |-> TRUE, opcode |-> f.op, z |-> f.z, bytes |-> f.bytes]
    <3>1. Assemble(m, Fresh, f)
      BY <1>8, <2>2 DEF DataFrame
    <3>2. First(t, N) = N /\ Wire(t, N) = f.bytes
      BY <1>4, <1>8, WireStarts DEF t, n
    <3>3. m \in Assembled
      BY <1>2 DEF Assembled
    <3>4. Fragment(t, m, Fresh, f)
      <4>1. N \in 1..N
        BY <1>1
      <4> QED
        BY <1>1, <1>4, <1>8, <3>2, <3>3, <4>1 DEF Fragment
    <3> HIDE DEF m
    <3>5. IsData(f) /\ ~Misplaced(t, N) /\ (f.fin => ~UnderWay(t, N + 1))
      BY <1>3, <1>4, <1>5, <1>8, <2>2 DEF Text, Binary
    <3>6. ~f.fin => /\ ~t[N].fin
                    /\ \A k \in (N + 1)..N : ~Starts(t[k]) /\ ~(t[k].op = 0 /\ t[k].fin)
      BY <1>1
    <3> QED
      BY <1>1, <3>1, <3>2, <3>4, <3>5, <3>6, FragmentTaken
  <2> QED
    BY <2>1, <2>2
<1>9. ASSUME f.op = 8 /\ EndWith(CloseCode(f)) /\ UNCHANGED assembly PROVE Taking(t)
  <2>1. ~Misplaced(t, N) /\ ~IsData(f)
    BY <1>4, <1>5, <1>9 DEF Text, Binary
  <2>2. Verdict(t, N) = CloseCode(f)
    BY <1>1, <1>9, <2>1 DEF Verdict, NotText
  <2>3. CloseCode(f) \in Nat \ {0}
    BY <1>2 DEF CloseCode
  <2> QED
    BY <1>1, <1>9, <2>2, <2>3, EndTaken
<1>10. ASSUME f.op \in {9, 10},
              answers' = IF f.op = 9 THEN Append(answers, <<"pong", f.bytes>>) ELSE answers,
              UNCHANGED <<terminating, delivered, assembly>>
       PROVE  Taking(t)
  <2>1. ~Misplaced(t, N) /\ ~IsData(f)
    BY <1>4, <1>5, <1>10 DEF Text, Binary
  <2>2. Verdict(t, N) = 0
    BY <1>1, <1>10, <2>1 DEF Verdict, NotText
  <2>3. message' = message /\ validator' = validator
    BY <1>10 DEF assembly
  <2>4. Holding(t, message', validator')
    BY <2>1, <2>3, ControlHolds DEF t
  <2> QED
    BY <1>1, <1>10, <2>1, <2>2, <2>4 DEF Taking
<1>11. ASSUME f.op \notin {0, Text, Binary, 8, 9, 10} /\ EndWith(1002) /\ UNCHANGED assembly
       PROVE  Taking(t)
  <2>1. Misplaced(t, N)
    BY <1>5, <1>11
  <2>2. EndWith(1002)
    BY <1>11
  <2> QED
    BY <1>6, <2>1, <2>2
<1> QED
  BY <1>7, <1>8, <1>9, <1>10, <1>11 DEF TakesFrame, t

-----------------------------------------------------------------------------
(* The receiver: the account is kept.                                      *)

\* FlattenSeq of one sequence more, of one element or none.
LEMMA FlattenOne ==
    ASSUME NEW S, NEW q \in Seq(Seq(S))
    PROVE  /\ FlattenSeq(q) \in Seq(S)
           /\ FlattenSeq(Append(q, <<>>)) = FlattenSeq(q)
           /\ \A y \in S : FlattenSeq(Append(q, <<y>>)) = Append(FlattenSeq(q), y)
<1>1. <<>> \in Seq(S) /\ \A y \in S : <<y>> \in Seq(S)
  OBVIOUS
<1>2. FlattenSeq(q) \in Seq(S) /\ FlattenSeq(Append(q, <<>>)) = FlattenSeq(q) \o <<>>
  BY <1>1, FlattenAppend
<1>3. \A y \in S : FlattenSeq(Append(q, <<y>>)) = FlattenSeq(q) \o <<y>>
  BY <1>1, FlattenAppend
<1>4. FlattenSeq(q) \o <<>> = FlattenSeq(q)
  BY <1>2
<1>5. \A y \in S : FlattenSeq(q) \o <<y>> = Append(FlattenSeq(q), y)
  BY <1>2, AppendIsConcat
<1> QED
  BY <1>2, <1>3, <1>4, <1>5

\* The messages and the pongs after one frame more.
LEMMA MessagesNext ==
    ASSUME NEW s \in Seq(Frames), NEW f \in Frames
    PROVE  LET t == Append(s, f)
               N == Len(s) + 1
           IN  Messages(t) = IF Completes(t, N)
                             THEN Append(Messages(s),
                                         [kind |-> t[First(t, N)].op, bytes |-> Content(t, N)])
                             ELSE Messages(s)
<1> DEFINE t == Append(s, f)
           n == Len(s)
           N == n + 1
           what(r, i) == [kind |-> r[First(r, i)].op, bytes |-> Content(r, i)]
           part(r, i) == IF Completes(r, i) THEN <<what(r, i)>> ELSE <<>>
           S == {what(t, i) : i \in 1..N}
           q == [i \in 1..n |-> part(s, i)]
           p == [i \in 1..N |-> part(t, i)]
<1>1. /\ t \in Seq(Frames) /\ Len(t) = N /\ n \in Nat
      /\ \A i \in 0..n : SameUpTo(s, t, i)
      /\ DOMAIN s = 1..n /\ DOMAIN t = 1..N
  BY OneFrameMore
<1>2. Messages(s) = FlattenSeq(q) /\ Messages(t) = FlattenSeq(p)
  BY <1>1 DEF Messages
<1>3. \A i \in 1..n : part(s, i) = part(t, i)
  <2> TAKE i \in 1..n
  <2>1. i \in Nat \ {0} /\ SameUpTo(s, t, i)
    BY <1>1
  <2>2. /\ Completes(s, i) <=> Completes(t, i)
        /\ Completes(s, i) => /\ Content(s, i) = Content(t, i)
                              /\ s[First(s, i)].op = t[First(t, i)].op
    BY <2>1, VerdictSame
  <2> QED
    BY <2>2
<1>4. \A i \in 1..N : what(t, i) \in S /\ part(t, i) \in Seq(S)
  <2>1. \A i \in 1..N : what(t, i) \in S
    OBVIOUS
  <2> HIDE DEF S, what
  <2>2. <<>> \in Seq(S) /\ \A y \in S : <<y>> \in Seq(S)
    OBVIOUS
  <2> QED
    BY <2>1, <2>2
<1> HIDE DEF t, n, S, part
<1>5. \A i \in 1..n : i \in 1..N
  BY <1>1
<1>6. q \in Seq(Seq(S)) /\ Len(q) = n
  <2>1. \A i \in 1..n : part(s, i) \in Seq(S)
    BY <1>3, <1>4, <1>5
  <2> QED
    BY <1>1, <2>1
<1>7. p = Append(q, part(t, N))
  <2>1. part(t, N) \in Seq(S)
    <3>1. n \in Nat
      BY <1>1
    <3>2. N \in 1..N
      BY <3>1
    <3> QED
      BY <1>4, <3>2, Zenon
  <2>2. Append(q, part(t, N)) = [i \in 1..N |-> IF i = N THEN part(t, N) ELSE q[i]]
    <3> HIDE DEF q
    <3>1. n \in Nat /\ q \in Seq(Seq(S)) /\ Len(q) = n
      BY <1>1, <1>6
    <3>2. \A x \in Seq(S) :
             Append(q, x) = [i \in 1..(n + 1) |-> IF i = n + 1 THEN x ELSE q[i]]
      BY <3>1, AppendIs
    <3> QED
      BY <2>1, <3>2
  <2>3. \A i \in 1..N : part(t, i) = IF i = N THEN part(t, N) ELSE q[i]
    <3>1. \A i \in 1..N : i # N => i \in 1..n
      BY <1>1
    <3> QED
      BY <1>3, <3>1
  <2> QED
    BY <2>2, <2>3
<1> HIDE DEF p, q
<1>8. CASE Completes(t, N)
  <2>1. N \in 1..N
    BY <1>1
  <2>2. p = Append(q, <<what(t, N)>>) /\ what(t, N) \in S
    BY <1>4, <1>7, <1>8, <2>1 DEF part
  <2> HIDE DEF what
  <2>3. FlattenSeq(p) = Append(FlattenSeq(q), what(t, N))
    BY <1>6, <2>2, FlattenOne
  <2>4. Messages(t) = Append(Messages(s), what(t, N))
    BY <1>2, <2>3
  <2> QED
    BY <1>8, <2>4 DEF what, t, n
<1>9. CASE ~Completes(t, N)
  <2>1. p = Append(q, <<>>)
    BY <1>7, <1>9 DEF part
  <2>2. FlattenSeq(p) = FlattenSeq(q)
    BY <1>6, <2>1, FlattenOne
  <2> QED
    BY <1>2, <1>9, <2>2 DEF t, n
<1> QED
  BY <1>8, <1>9

\* One frame more asks for one pong more, or none.
LEMMA PongsNext ==
    ASSUME NEW s \in Seq(Frames), NEW f \in Frames
    PROVE  Pongs(Append(s, f)) = IF f.op = 9 THEN Append(Pongs(s), <<"pong", f.bytes>>)
                                 ELSE Pongs(s)
<1> DEFINE t == Append(s, f)
           n == Len(s)
           N == n + 1
           what(r, i) == <<"pong", r[i].bytes>>
           part(r, i) == IF r[i].op = 9 THEN <<what(r, i)>> ELSE <<>>
           S == {what(t, i) : i \in 1..N}
           q == [i \in 1..n |-> part(s, i)]
           p == [i \in 1..N |-> part(t, i)]
<1>1. /\ t \in Seq(Frames) /\ Len(t) = N /\ n \in Nat /\ t[N] = f
      /\ \A i \in 1..n : s[i] = t[i]
      /\ DOMAIN s = 1..n /\ DOMAIN t = 1..N
  BY OneFrameMore
<1>2. Pongs(s) = FlattenSeq(q) /\ Pongs(t) = FlattenSeq(p)
  BY <1>1 DEF Pongs
<1>3. \A i \in 1..n : part(s, i) = part(t, i)
  BY <1>1
<1>4. \A i \in 1..N : what(t, i) \in S /\ part(t, i) \in Seq(S)
  <2>1. \A i \in 1..N : what(t, i) \in S
    OBVIOUS
  <2> HIDE DEF S, what
  <2>2. <<>> \in Seq(S) /\ \A y \in S : <<y>> \in Seq(S)
    OBVIOUS
  <2> QED
    BY <2>1, <2>2
<1> HIDE DEF t, n, S, part
<1>5. \A i \in 1..n : i \in 1..N
  BY <1>1
<1>6. q \in Seq(Seq(S)) /\ Len(q) = n
  <2>1. \A i \in 1..n : part(s, i) \in Seq(S)
    BY <1>3, <1>4, <1>5
  <2> QED
    BY <1>1, <2>1
<1>7. p = Append(q, part(t, N))
  <2>1. part(t, N) \in Seq(S)
    <3>1. n \in Nat
      BY <1>1
    <3>2. N \in 1..N
      BY <3>1
    <3> QED
      BY <1>4, <3>2, Zenon
  <2>2. Append(q, part(t, N)) = [i \in 1..N |-> IF i = N THEN part(t, N) ELSE q[i]]
    <3> HIDE DEF q
    <3>1. n \in Nat /\ q \in Seq(Seq(S)) /\ Len(q) = n
      BY <1>1, <1>6
    <3>2. \A x \in Seq(S) :
             Append(q, x) = [i \in 1..(n + 1) |-> IF i = n + 1 THEN x ELSE q[i]]
      BY <3>1, AppendIs
    <3> QED
      BY <2>1, <3>2
  <2>3. \A i \in 1..N : part(t, i) = IF i = N THEN part(t, N) ELSE q[i]
    <3>1. \A i \in 1..N : i # N => i \in 1..n
      BY <1>1
    <3> QED
      BY <1>3, <3>1
  <2> QED
    BY <2>2, <2>3
<1> HIDE DEF p, q
<1>8. CASE f.op = 9
  <2>1. N \in 1..N
    BY <1>1
  <2>2. p = Append(q, <<what(t, N)>>) /\ what(t, N) \in S
    BY <1>1, <1>4, <1>7, <1>8, <2>1 DEF part
  <2> HIDE DEF what
  <2>3. FlattenSeq(p) = Append(FlattenSeq(q), what(t, N))
    BY <1>6, <2>2, FlattenOne
  <2>4. Pongs(t) = Append(Pongs(s), what(t, N))
    BY <1>2, <2>3
  <2> QED
    BY <1>1, <1>8, <2>4 DEF what, t
<1>9. CASE f.op # 9
  <2>1. p = Append(q, <<>>)
    BY <1>1, <1>7, <1>9 DEF part
  <2>2. FlattenSeq(p) = FlattenSeq(q)
    BY <1>6, <2>1, FlattenOne
  <2> QED
    BY <1>2, <1>9, <2>2 DEF t
<1> QED
  BY <1>8, <1>9

\* The frames taken, before and after one more.
LEMMA TakenIs ==
    ASSUME NEW q \in Seq(Frames), NEW n \in 0..Len(q)
    PROVE  /\ SubSeq(q, 1, n) \in Seq(Frames) /\ Len(SubSeq(q, 1, n)) = n
           /\ n < Len(q) => SubSeq(q, 1, n + 1) = Append(SubSeq(q, 1, n), q[n + 1])
           /\ \A f \in Frames : SubSeq(Append(q, f), 1, n) = SubSeq(q, 1, n)
<1>1. SubSeq(q, 1, n) = [i \in 1..n |-> q[i]]
  OBVIOUS
<1>2. SubSeq(q, 1, n) \in Seq(Frames) /\ Len(SubSeq(q, 1, n)) = n
  OBVIOUS
<1>3. ASSUME n < Len(q) PROVE SubSeq(q, 1, n + 1) = Append(SubSeq(q, 1, n), q[n + 1])
  <2>1. SubSeq(q, 1, n + 1) = [i \in 1..(n + 1) |-> q[i]]
    BY <1>3
  <2>2. q[n + 1] \in Frames /\ n \in Nat
    BY <1>3
  <2> DEFINE p == SubSeq(q, 1, n)
  <2>3. Append(p, q[n + 1]) = [i \in 1..(n + 1) |-> IF i = n + 1 THEN q[n + 1] ELSE p[i]]
    <3> HIDE DEF p
    <3> QED
      BY <1>2, <2>2, AppendIs DEF p
  <2>4. \A i \in 1..(n + 1) : q[i] = IF i = n + 1 THEN q[n + 1] ELSE p[i]
    <3>1. \A i \in 1..(n + 1) : i # n + 1 => i \in 1..n
      OBVIOUS
    <3> QED
      BY <1>1, <3>1
  <2> QED
    BY <2>1, <2>3, <2>4
<1>4. ASSUME NEW f \in Frames PROVE SubSeq(Append(q, f), 1, n) = SubSeq(q, 1, n)
  <2>1. /\ Append(q, f) \in Seq(Frames) /\ Len(Append(q, f)) = Len(q) + 1
        /\ \A i \in 1..Len(q) : Append(q, f)[i] = q[i]
    OBVIOUS
  <2>2. SubSeq(Append(q, f), 1, n) = [i \in 1..n |-> Append(q, f)[i]]
    BY <2>1
  <2>3. \A i \in 1..n : Append(q, f)[i] = q[i]
    BY <2>1
  <2> QED
    BY <1>1, <2>2, <2>3
<1> QED
  BY <1>2, <1>3, <1>4

\* One frame more, taken as it must be, keeps the account of what was delivered and answered.
LEMMA TakenKeeps ==
    ASSUME NEW s \in Seq(Frames), NEW f \in Frames, Taking(Append(s, f)), ~HeaderRefused(f),
           delivered = Messages(s), answers = Pongs(s)
    PROVE  LET t == Append(s, f)
               code == Verdict(t, Len(t))
           IN  /\ delivered' = Messages(t)
               /\ code = 0 => /\ terminating' = terminating /\ answers' = Pongs(t)
                              /\ Holding(t, message', validator')
               /\ code # 0 => terminating' /\ answers' = Append(Pongs(t), <<"close", code>>)
<1> DEFINE t == Append(s, f)
           N == Len(s) + 1
           code == Verdict(t, N)
           rec == [kind |-> t[First(t, N)].op, bytes |-> Content(t, N)]
<1>1. Len(t) = N /\ t[N] = f
  BY OneFrameMore
<1>2. Completes(t, N) <=> IsData(f) /\ f.fin /\ code = 0
  BY <1>1 DEF Completes
<1>3. Messages(t) = IF Completes(t, N) THEN Append(Messages(s), rec) ELSE Messages(s)
  BY MessagesNext
<1>4. Pongs(t) = IF f.op = 9 THEN Append(Pongs(s), <<"pong", f.bytes>>) ELSE Pongs(s)
  BY PongsNext
<1>5. f.op = 9 => code = 0
  <2>1. f.op = 9 => ~Misplaced(t, N) /\ ~NotText(t, N)
    BY <1>1 DEF Misplaced, NotText, IsData, Starts, Text, Binary
  <2> QED
    BY <1>1, <2>1 DEF Verdict
<1>6. /\ code = 0 =>
            /\ terminating' = terminating /\ Holding(t, message', validator')
            /\ answers' = IF f.op = 9 THEN Append(answers, <<"pong", f.bytes>>) ELSE answers
            /\ delivered' = IF IsData(f) /\ f.fin THEN Append(delivered, rec) ELSE delivered
      /\ code # 0 =>
            terminating' /\ answers' = Append(answers, <<"close", code>>) /\ delivered' = delivered
  BY <1>1 DEF Taking
<1> HIDE DEF t, N, code, rec
<1>7. delivered' = Messages(t)
  BY <1>2, <1>3, <1>6
<1>8. code = 0 => answers' = Pongs(t)
  BY <1>4, <1>6
<1>9. code # 0 => answers' = Append(Pongs(t), <<"close", code>>)
  BY <1>4, <1>5, <1>6
<1> QED
  BY <1>1, <1>6, <1>7, <1>8, <1>9 DEF t, code

\* A step that takes no frame and says nothing keeps the account.
LEMMA RestKeeps ==
    ASSUME RxTypes, Received,
           Taken' = Taken, handled' = handled, handled <= Len(stream'),
           UNCHANGED <<delivered, message, validator, answers>>,
           terminating => terminating', Refuse => Refuse',
           partial' => handled < Len(stream'),
           Waits' => handled = Len(stream') - (IF partial' THEN 1 ELSE 0) /\ ~Refuse'
    PROVE  Received'
<1>1. /\ delivered' = Messages(Taken') /\ CodeOf(Taken') = CodeOf(Taken)
      /\ \A i \in 1..(handled' - 1) : Verdict(Taken', i) = 0
  BY DEF Received
<1>2. Answered'
  BY DEF Received, Answered
<1>3. ~terminating' => /\ CodeOf(Taken') = 0 /\ answers' = Pongs(Taken')
                       /\ Holding(Taken', message', validator')
  BY DEF Received
<1> QED
  BY <1>1, <1>2, <1>3 DEF Received

\* So does a frame of the loop.
LEMMA FrameKeeps ==
    ASSUME RxTypes, Received, HandleFrame
    PROVE  Received'
<1> DEFINE f == stream[handled + 1]
           s == Taken
<1>1. /\ reading /\ ~terminating /\ handled < Len(stream) /\ stream' = stream
      /\ partial' = partial /\ reading' = reading
      /\ handled \in Nat /\ stream \in Seq(Frames) /\ Len(stream) \in Nat
  BY DEF HandleFrame, input, RxTypes
<1>2. /\ f \in Frames /\ handled \in 0..Len(stream)
  BY <1>1
<1>3. /\ s \in Seq(Frames) /\ Len(s) = handled
      /\ SubSeq(stream, 1, handled + 1) = Append(s, f)
  BY <1>1, <1>2, TakenIs DEF Taken
<1>4. /\ delivered = Messages(s) /\ answers = Pongs(s) /\ CodeOf(s) = 0
      /\ Holding(s, message, validator)
      /\ \A i \in 1..(handled - 1) : Verdict(s, i) = 0
  BY <1>1 DEF Received
<1>5. ~Waits'
  BY <1>1 DEF Waits
<1>6. CASE HeaderRefused(f) /\ EndWith(1002) /\ UNCHANGED <<handled, assembly>>
  <2>1. Taken' = Taken /\ handled' = handled /\ delivered' = delivered
    BY <1>1, <1>6 DEF Taken, EndWith
  <2>2. terminating' /\ answers' = Append(Pongs(s), <<"close", 1002>>)
    BY <1>4, <1>6 DEF EndWith
  <2>3. Refuse'
    BY <1>1, <1>6, <2>1 DEF Refuse
  <2>4. Answered'
    BY <1>4, <2>1, <2>2, <2>3 DEF Answered
  <2>5. partial' => handled' < Len(stream')
    BY <1>1, <2>1
  <2> QED
    BY <1>1, <1>4, <1>5, <2>1, <2>2, <2>4, <2>5 DEF Received
<1>7. CASE /\ ~HeaderRefused(f) /\ (handled + 1 < Len(stream) \/ ~partial)
           /\ handled' = handled + 1 /\ TakesFrame(f)
  <2> DEFINE t == Append(s, f)
             code == Verdict(t, Len(t))
  <2>1. Taken' = t /\ Len(t) = handled' /\ handled' # 0 /\ handled' - 1 = handled
    BY <1>1, <1>3, <1>7, OneFrameMore, <1>2 DEF Taken
  <2>2. Taking(t)
    BY <1>2, <1>3, <1>4, <1>7, FrameTaken DEF RxTypes
  <2>3. /\ delivered' = Messages(t)
        /\ code = 0 => /\ terminating' = terminating /\ answers' = Pongs(t)
                       /\ Holding(t, message', validator')
        /\ code # 0 => terminating' /\ answers' = Append(Pongs(t), <<"close", code>>)
    BY <1>2, <1>3, <1>4, <1>7, <2>2, TakenKeeps
  <2>4. \A i \in 1..handled : Verdict(t, i) = 0
    <3> TAKE i \in 1..handled
    <3>1. i \in Nat \ {0} /\ SameUpTo(s, t, i)
      BY <1>1, <1>2, <1>3, OneFrameMore
    <3>2. Verdict(t, i) = Verdict(s, i)
      BY <3>1, VerdictSame
    <3>3. CASE i = handled
      BY <1>1, <1>3, <1>4, <3>2, <3>3 DEF CodeOf
    <3>4. CASE i # handled
      <4>1. i \in 1..(handled - 1)
        BY <1>1, <3>4
      <4> QED
        BY <1>4, <3>2, <4>1
    <3> QED
      BY <3>3, <3>4
  <2>5. CodeOf(t) = code
    BY <2>1 DEF CodeOf
  <2> HIDE DEF t, code
  <2>6. Answered'
    BY <2>1, <2>3, <2>5 DEF Answered
  <2>7. ~terminating' => /\ CodeOf(Taken') = 0 /\ answers' = Pongs(Taken')
                         /\ Holding(Taken', message', validator')
    BY <2>1, <2>3, <2>5
  <2>8. handled' <= Len(stream') /\ (partial' => handled' < Len(stream'))
    BY <1>1, <1>7 DEF Received
  <2>9. \A i \in 1..(handled' - 1) : Verdict(Taken', i) = 0
    BY <2>1, <2>4
  <2>10. delivered' = Messages(Taken')
    BY <2>1, <2>3
  <2> QED
    BY <1>5, <2>6, <2>7, <2>8, <2>9, <2>10 DEF Received
<1> QED
  BY <1>6, <1>7 DEF HandleFrame, TakesFrame

\* So does every step of the receiver.
LEMMA ReceiverKeeps ==
    ASSUME RxTypes, Received, RxNext
    PROVE  Received'
<1>1. stream \in Seq(Frames) /\ Len(stream) \in Nat /\ handled \in 0..Len(stream)
  BY DEF RxTypes, Received
<1>2. CASE Upgrade
  BY <1>1, <1>2, RestKeeps DEF Upgrade, assembly, Taken, Refuse, Waits, Received
<1>3. CASE ArriveRest
  BY <1>1, <1>3, RestKeeps DEF ArriveRest, assembly, Taken, Refuse, Waits, Received
<1>4. CASE StopRequested
  BY <1>1, <1>4, RestKeeps DEF StopRequested, input, assembly, Taken, Refuse, Waits, Received
<1>5. CASE StopReading
  BY <1>1, <1>5, RestKeeps DEF StopReading, input, assembly, Taken, Refuse, Waits, Received
<1>6. ASSUME NEW f \in Frames, NEW part \in BOOLEAN, Arrive(f, part)
      PROVE  Received'
  <2>1. /\ stream' = Append(stream, f) /\ Len(stream') = Len(stream) + 1
        /\ \A i \in 1..Len(stream) : stream'[i] = stream[i]
    BY <1>1, <1>6 DEF Arrive
  <2>2. Taken' = Taken
    BY <1>1, <1>6, <2>1, TakenIs DEF Arrive, Taken
  <2>3. Refuse => Refuse'
    BY <1>1, <1>6, <2>1 DEF Refuse, Arrive
  <2> QED
    BY <1>1, <1>6, <2>1, <2>2, <2>3, RestKeeps DEF Arrive, assembly, Waits
<1> QED
  BY <1>2, <1>3, <1>4, <1>5, <1>6, FrameKeeps DEF RxNext

\* The account before the first frame.
LEMMA ReceivedInit == ASSUME Init PROVE Received
<1>1. stream = <<>> /\ handled = 0 /\ Taken = <<>> /\ Len(<<>>) = 0
  BY DEF Init, RxInit, Taken
<1>2. Messages(<<>>) = <<>> /\ Pongs(<<>>) = <<>>
  <2>1. /\ \A x : [i \in DOMAIN <<>> |-> x] = <<>>
    OBVIOUS
  <2> QED
    BY DEF Messages, Pongs, FlattenSeq
<1>3. Holding(<<>>, NoMessage, Fresh)
  BY <1>1 DEF Holding, NoMessage, UnderWay
<1> QED
  BY <1>1, <1>2, <1>3 DEF Init, RxInit, Received, Answered, CodeOf, Waits, Refuse

\* A step of the receiver and its callback, or of the media thread, keeps the account.
LEMMA AccountKept ==
    ASSUME RxTypes, Received, [Next]_vars
    PROVE  Received'
<1>1. CASE EventThread
  BY <1>1, ReceiverKeeps DEF EventThread
<1>2. CASE UNCHANGED rxVars
  <2>1. /\ UNCHANGED <<stream, partial, handled, reading, terminating, delivered, answers>>
        /\ UNCHANGED <<message, validator>>
    BY <1>2 DEF rxVars, input, assembly
  <2>2. Taken' = Taken
    BY <2>1 DEF Taken
  <2>3. (Waits' <=> Waits) /\ (Refuse' <=> Refuse)
    BY <2>1 DEF Waits, Refuse
  <2>4. handled <= Len(stream) /\ (partial => handled < Len(stream))
    BY DEF Received
  <2>5. Waits => handled = Len(stream) - (IF partial THEN 1 ELSE 0) /\ ~Refuse
    BY DEF Received
  <2> QED
    BY <2>1, <2>2, <2>3, <2>4, <2>5, RestKeeps
<1> QED
  BY <1>1, <1>2 DEF Next, MediaThread, vars

\* WebSocketReceiver's loop (WebSocketReceiver.cpp) has done, after every frame, what the
\* protocol says of the frames it has taken, whatever the peer sends and however TCP cuts it.
THEOREM ReceiverAccounts == Spec => []Received
<1>1. Init => Received
  BY ReceivedInit
<1>2. DownlinkInv /\ Received /\ [Next]_vars => Received'
  BY AccountKept DEF DownlinkInv
<1> QED
  BY <1>1, <1>2, Downlinks, PTL DEF Spec

\* The application gets exactly the messages the peer completed, whole and in order, and no
\* frame that is there waits for another to arrive (onData, handleDataFrame,
\* handleContinuationFrame).
THEOREM MessagesAreDelivered == Spec => []DeliversMessages
<1>1. Received => DeliversMessages
  BY DEF Received, DeliversMessages
<1> QED
  BY <1>1, ReceiverAccounts, PTL

\* Every ping is answered, and the first frame that breaks the protocol, is no text where
\* text was begun, or closes, gets the closing code it deserves and is the last one taken.
THEOREM AnswersFollowProtocol == Spec => []AnswersByProtocol
<1>1. RxTypes /\ Received => AnswersByProtocol
  <2> SUFFICES ASSUME RxTypes, Received PROVE AnswersByProtocol
    OBVIOUS
  <2>1. Len(Taken) = handled
    BY TakenIs DEF RxTypes, Received, Taken
  <2> QED
    BY <2>1 DEF Received, Answered, AnswersByProtocol, CodeOf, Refuse
<1>2. DownlinkInv => RxTypes
  BY DEF DownlinkInv
<1> QED
  BY <1>1, <1>2, Downlinks, ReceiverAccounts, PTL
=============================================================================
