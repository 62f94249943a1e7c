----------------------------- MODULE EventBus -----------------------------
(***************************************************************************)
(* bridge.EventBus (src/bridge/eventbus.go): a fan-out with one buffered   *)
(* channel per subscription.  Every operation runs under the bus mutex, so *)
(* each is one step; receiving from a channel is not an operation of the   *)
(* bus and is a step of its own.                                           *)
(***************************************************************************)
EXTENDS Naturals, Sequences

CONSTANTS
    Sub,        \* subscriptions (each Subscribe call makes a new channel)
    Buf         \* the buffer size given to Subscribe

VARIABLES
    subs,       \* b.subs: the subscriptions Publish sends to
    chan,       \* what is buffered in each subscription's channel
    shut        \* channels closed by their unsubscribe function

busVars == <<subs, chan, shut>>

BusInit == subs = {} /\ chan = [c \in Sub |-> <<>>] /\ shut = {}

Subscribe(c) ==
    /\ c \notin subs \union shut
    /\ subs' = subs \union {c}
    /\ UNCHANGED <<chan, shut>>

\* Mutant: the channel is closed and the subscription stays in the map.
UnsubscribeKeepingEntry(c) ==
    /\ c \in subs
    /\ subs' = subs
    /\ shut' = shut \union {c}
    /\ UNCHANGED chan

\* Mutant: the subscription leaves the map, its channel is never closed.
UnsubscribeWithoutClose(c) ==
    /\ c \in subs
    /\ subs' = subs \ {c}
    /\ UNCHANGED <<chan, shut>>

\* The returned function: leave the map, then close the channel.
Unsubscribe(c) ==
    /\ c \in subs
    /\ subs' = subs \ {c}
    /\ shut' = shut \union {c}
    /\ UNCHANGED chan

HasRoomFor(c) == Len(chan[c]) < Buf

\* A subscriber whose channel is full misses the event; nobody waits.
Publish(e) ==
    /\ chan' = [c \in Sub |-> IF c \in subs /\ HasRoomFor(c)
                              THEN Append(chan[c], e) ELSE chan[c]]
    /\ UNCHANGED <<subs, shut>>

Receive(c) ==
    /\ chan[c] # <<>>
    /\ chan' = [chan EXCEPT ![c] = Tail(@)]
    /\ UNCHANGED <<subs, shut>>

\* A range over the channel ends: closed and nothing left in it.
RangeEnds(c) == c \in shut /\ chan[c] = <<>>

\* Publish never sends on a closed channel (which would panic the bridge).
NoSendOnClosed == subs \intersect shut = {}
=============================================================================
