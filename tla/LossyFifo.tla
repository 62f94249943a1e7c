----------------------------- MODULE LossyFifo -----------------------------
(***************************************************************************)
(* What the downlink queue of a call promises to whoever plays it: items   *)
(* come out in the order they went in, each at most once; the buffer never *)
(* holds more than Cap; an item may be lost, but only the oldest one       *)
(* waiting, and never one that was already given out.                      *)
(***************************************************************************)
EXTENDS Naturals, Sequences

CONSTANTS Item, Cap

VARIABLES
    buf,    \* items waiting, oldest first
    out,    \* items given out, in order
    lost    \* items discarded

fifoVars == <<buf, out, lost>>

Items(q) == {q[i] : i \in DOMAIN q}
Fresh(f) == f \notin Items(buf) \union Items(out) \union lost

Init == buf = <<>> /\ out = <<>> /\ lost = {}

Put(f) ==
    /\ Fresh(f) /\ Len(buf) < Cap
    /\ buf' = Append(buf, f)
    /\ UNCHANGED <<out, lost>>

\* The oldest item leaves, given out or lost; a new one may take its place in
\* the same step.
Leave ==
    /\ buf # <<>>
    /\ \/ out' = Append(out, Head(buf)) /\ UNCHANGED lost
       \/ lost' = lost \union {Head(buf)} /\ UNCHANGED out
    /\ \/ buf' = Tail(buf)
       \/ \E f \in Item : Fresh(f) /\ buf' = Append(Tail(buf), f)

Next == Leave \/ \E f \in Item : Put(f)

Spec == Init /\ [][Next]_fifoVars
=============================================================================
