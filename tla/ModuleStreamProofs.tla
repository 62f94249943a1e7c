------------------------- MODULE ModuleStreamProofs -------------------------
(***************************************************************************)
(* Proofs about ModuleStream, for any number of start commands and of      *)
(* threads that run the others.                                            *)
(***************************************************************************)
EXTENDS ModuleStream, SequenceTheorems, TLAPS

-----------------------------------------------------------------------------
(* Types.                                                                  *)

Places == {"none", "checked", "refused", "connected", "mutexes", "buffers", "bug", "failed",
           "done"}
Unmade == {"none", "refused", "checked", "connected"}
Seeking == {"find", "lock", "mark"}
Cleaning == {"remove", "release", "disconnect", "join", "destroy"}
Audio == {"read", "write"}
Steps == Seeking \union Cleaning \union Audio
            \union {"text", "pause", "open", "binary", "request"}

Word == [paused : BOOLEAN, closing : BOOLEAN, cleaning : BOOLEAN]

FrameSet ==
    {f \in [at : Steps, of : Streams \union {None}, closing : BOOLEAN, owns : BOOLEAN,
            word : Word] : f.at # "find" => f.of \in Streams}

\* The frames of a stack, and those below its top.
All(q) == {q[i] : i \in DOMAIN q}
Below(q) == {q[i] : i \in DOMAIN q \ {1}}

Types ==
    /\ start \in [Streams -> Places] /\ private \in Streams \union {None}
    /\ bug \in [Streams -> {"none", "attached", "removed"}]
    /\ mutexes \in [Streams -> {"none", "live", "gone"}]
    /\ buffer \in [Streams -> BOOLEAN] /\ streamer \in [Streams -> BOOLEAN]
    /\ cleaned \in [Streams -> BOOLEAN] /\ flags \in [Streams -> Word]
    /\ event \in [Streams -> {"none", "running", "ended"}]
    /\ stray \subseteq Streams /\ torn \in BOOLEAN

\* Only a clean-up that takes the bug out runs another thing inside of it.
Stacks ==
    /\ stack \in [Threads -> Seq(FrameSet)]
    /\ \A t \in Threads : \A f \in Below(stack[t]) : f.at = "release"

-----------------------------------------------------------------------------
(* Stacks and frames.                                                      *)

\* The frames of an empty stack, and of one with a frame more.
LEMMA PushIs ==
    ASSUME NEW q \in Seq(FrameSet), NEW f \in FrameSet
    PROVE  /\ <<f>> \o q \in Seq(FrameSet) /\ Head(<<f>> \o q) = f /\ <<f>> \o q # <<>>
           /\ All(<<f>> \o q) = {f} \union All(q)
           /\ Below(<<f>> \o q) = All(q)
<1> DEFINE r == <<f>> \o q
<1>1. <<f>> \in Seq(FrameSet) /\ Len(<<f>>) = 1 /\ <<f>>[1] = f
  OBVIOUS
<1>2. /\ r \in Seq(FrameSet) /\ Len(q) \in Nat /\ Len(r) = 1 + Len(q)
      /\ \A i \in 1..(1 + Len(q)) : r[i] = IF i <= 1 THEN <<f>>[i] ELSE q[i - 1]
  BY <1>1, ConcatProperties
<1> HIDE DEF r
<1>3. DOMAIN r = 1..(1 + Len(q)) /\ DOMAIN q = 1..Len(q)
  BY <1>2
<1>4. /\ r[1] = f /\ 1 \in DOMAIN r
      /\ \A i \in DOMAIN q : i + 1 \in DOMAIN r \ {1} /\ r[i + 1] = q[i]
      /\ \A i \in DOMAIN r \ {1} : i - 1 \in DOMAIN q /\ r[i] = q[i - 1]
  BY <1>1, <1>2, <1>3
<1>5. Below(r) = All(q)
  BY <1>4 DEF Below, All
<1>6. All(r) = {f} \union Below(r)
  BY <1>4 DEF Below, All
<1>7. Head(r) = f /\ r # <<>>
  BY <1>2, <1>3, <1>4
<1> QED BY <1>2, <1>5, <1>6, <1>7 DEF r

\* A stack that is not empty: its top, and what is below.
LEMMA TopIs ==
    ASSUME NEW q \in Seq(FrameSet), q # <<>>
    PROVE  /\ Head(q) \in FrameSet /\ Tail(q) \in Seq(FrameSet)
           /\ All(q) = {Head(q)} \union Below(q)
           /\ All(Tail(q)) = Below(q) /\ Below(Tail(q)) \subseteq Below(q)
<1>1. /\ Len(q) \in Nat \ {0} /\ Head(q) = q[1] /\ Head(q) \in FrameSet
      /\ Tail(q) \in Seq(FrameSet) /\ Len(Tail(q)) = Len(q) - 1
      /\ \A i \in 1..(Len(q) - 1) : Tail(q)[i] = q[i + 1]
  BY HeadTailProperties, EmptySeq
<1>2. DOMAIN q = 1..Len(q) /\ DOMAIN Tail(q) = 1..(Len(q) - 1)
  BY <1>1
<1>3. /\ 1 \in DOMAIN q
      /\ \A i \in DOMAIN Tail(q) : i + 1 \in DOMAIN q \ {1} /\ Tail(q)[i] = q[i + 1]
      /\ \A i \in DOMAIN q \ {1} : i - 1 \in DOMAIN Tail(q) /\ Tail(q)[i - 1] = q[i]
  BY <1>1, <1>2
<1>4. All(q) = {Head(q)} \union Below(q)
  BY <1>1, <1>3 DEF All, Below
<1>5. All(Tail(q)) = Below(q)
  <2>1. ASSUME NEW f \in All(Tail(q)) PROVE f \in Below(q)
    <3>1. PICK i \in DOMAIN Tail(q) : f = Tail(q)[i]
      BY DEF All
    <3> QED BY <3>1, <1>3 DEF Below
  <2>2. ASSUME NEW f \in Below(q) PROVE f \in All(Tail(q))
    <3>1. PICK i \in DOMAIN q \ {1} : f = q[i]
      BY DEF Below
    <3> QED BY <3>1, <1>3 DEF All
  <2> QED BY <2>1, <2>2
<1>6. Below(Tail(q)) \subseteq All(Tail(q))
  BY DEF All, Below
<1> QED BY <1>1, <1>4, <1>5, <1>6

\* An empty stack has no frames.
LEMMA EmptyIs == All(<<>>) = {} /\ Below(<<>>) = {} /\ <<>> \in Seq(FrameSet)
BY EmptySeq DEF All, Below

Others(t) == \A u \in Threads \ {t} : stack'[u] = stack[u]

\* All a step changes is what t is inside of: `old` goes, `new` comes.
Changed(t, old, new) ==
    /\ \A u \in Threads : \A f \in All(stack'[u]) : f \in All(stack[u]) \/ (u = t /\ f \in new)
    /\ \A u \in Threads : \A f \in All(stack[u]) : f \in All(stack'[u]) \/ (u = t /\ f \in old)
    /\ old \subseteq All(stack[t]) /\ new \subseteq All(stack'[t])

\* An idle thread that begins something is inside of that alone.
LEMMA CallIs ==
    ASSUME Stacks, NEW t \in Threads, NEW f \in FrameSet, Idle(t), Call(t, f)
    PROVE  /\ Stacks' /\ Changed(t, {}, {f})
           /\ All(stack[t]) = {} /\ All(stack'[t]) = {f}
<1>1. stack[t] = <<>> /\ stack' = [stack EXCEPT ![t] = <<f>> \o <<>>]
  BY DEF Idle, Call, Stacks
<1> DEFINE q == <<f>> \o <<>>
<1>2. q \in Seq(FrameSet) /\ All(q) = {f} /\ Below(q) = {}
  <2> DEFINE e == <<>>
  <2>1. e \in Seq(FrameSet) /\ All(e) = {}
    BY EmptyIs
  <2> HIDE DEF e
  <2>2. /\ <<f>> \o e \in Seq(FrameSet)
        /\ All(<<f>> \o e) = {f} \union All(e) /\ Below(<<f>> \o e) = All(e)
    BY <2>1, PushIs
  <2>3. q = <<f>> \o e
    BY DEF e
  <2> HIDE DEF q
  <2> QED BY <2>1, <2>2, <2>3
<1> HIDE DEF q
<1>3. stack' = [stack EXCEPT ![t] = q]
  BY <1>1 DEF q
<1>4. stack' \in [Threads -> Seq(FrameSet)] /\ stack'[t] = q /\ Others(t)
  BY <1>2, <1>3 DEF Stacks, Others
<1>5. \A u \in Threads : \A g \in Below(stack'[u]) : g.at = "release"
  BY <1>2, <1>4 DEF Stacks, Others
<1>6. All(stack[t]) = {} /\ All(stack'[t]) = {f}
  BY <1>1, <1>2, <1>4, EmptyIs
<1>7. Changed(t, {}, {f})
  BY <1>4, <1>6 DEF Changed, Others
<1> QED BY <1>4, <1>5, <1>6, <1>7 DEF Stacks

\* A thread that goes on to the next thing is inside of that instead.
LEMMA GotoIs ==
    ASSUME Stacks, NEW t \in Threads, NEW f \in FrameSet, ~Idle(t), Goto(t, f)
    PROVE  /\ Stacks' /\ Changed(t, {Top(t)}, {f})
           /\ Top(t) \in FrameSet /\ Top(t) \in All(stack[t])
           /\ All(stack[t]) = {Top(t)} \union Below(stack[t])
           /\ All(stack'[t]) = {f} \union Below(stack[t])
<1> DEFINE q == <<f>> \o Tail(stack[t])
<1>1. stack[t] \in Seq(FrameSet) /\ stack[t] # <<>> /\ stack' = [stack EXCEPT ![t] = q]
  BY DEF Idle, Goto, Stacks
<1>2. /\ Top(t) \in FrameSet /\ All(stack[t]) = {Top(t)} \union Below(stack[t])
      /\ Tail(stack[t]) \in Seq(FrameSet) /\ All(Tail(stack[t])) = Below(stack[t])
  BY <1>1, TopIs DEF Top
<1>3. q \in Seq(FrameSet) /\ All(q) = {f} \union Below(stack[t]) /\ Below(q) = Below(stack[t])
  BY <1>2, PushIs
<1> HIDE DEF q
<1>4. stack' \in [Threads -> Seq(FrameSet)] /\ stack'[t] = q /\ Others(t)
  BY <1>1, <1>3 DEF Stacks, Others
<1>5. \A u \in Threads : \A g \in Below(stack'[u]) : g.at = "release"
  BY <1>3, <1>4 DEF Stacks, Others
<1>6. Changed(t, {Top(t)}, {f})
  BY <1>2, <1>3, <1>4 DEF Changed, Others
<1> QED BY <1>2, <1>3, <1>4, <1>5, <1>6 DEF Stacks

\* A thread that returns is inside of what was below.
LEMMA ReturnIs ==
    ASSUME Stacks, NEW t \in Threads, ~Idle(t), Return(t)
    PROVE  /\ Stacks' /\ Changed(t, {Top(t)}, {})
           /\ Top(t) \in FrameSet /\ Top(t) \in All(stack[t])
           /\ All(stack[t]) = {Top(t)} \union Below(stack[t])
           /\ All(stack'[t]) = Below(stack[t])
<1> DEFINE q == Tail(stack[t])
<1>1. stack[t] \in Seq(FrameSet) /\ stack[t] # <<>> /\ stack' = [stack EXCEPT ![t] = q]
  BY DEF Idle, Return, Stacks
<1>2. /\ Top(t) \in FrameSet /\ All(stack[t]) = {Top(t)} \union Below(stack[t])
      /\ q \in Seq(FrameSet) /\ All(q) = Below(stack[t])
      /\ Below(q) \subseteq Below(stack[t])
  BY <1>1, TopIs DEF Top
<1> HIDE DEF q
<1>4. stack' \in [Threads -> Seq(FrameSet)] /\ stack'[t] = q /\ Others(t)
  BY <1>1, <1>2 DEF Stacks, Others
<1>5. \A u \in Threads : \A g \in Below(stack'[u]) : g.at = "release"
  BY <1>2, <1>4 DEF Stacks, Others
<1>6. Changed(t, {Top(t)}, {})
  BY <1>2, <1>4 DEF Changed, Others
<1> QED BY <1>2, <1>4, <1>5, <1>6 DEF Stacks

\* A thread that takes a bug out runs the CLOSE callback inside of it.
LEMMA NestIs ==
    ASSUME Stacks, NEW t \in Threads, NEW f \in FrameSet, NEW g \in FrameSet, ~Idle(t),
           g.at = "release", stack' = [stack EXCEPT ![t] = <<f, g>> \o Tail(@)]
    PROVE  /\ Stacks' /\ Changed(t, {Top(t)}, {f, g})
           /\ Top(t) \in FrameSet /\ Top(t) \in All(stack[t])
           /\ All(stack[t]) = {Top(t)} \union Below(stack[t])
           /\ All(stack'[t]) = {f, g} \union Below(stack[t])
<1> DEFINE r == <<g>> \o Tail(stack[t])
           q == <<f>> \o r
<1>1. stack[t] \in Seq(FrameSet) /\ stack[t] # <<>>
  BY DEF Idle, Stacks
<1>2. /\ Top(t) \in FrameSet /\ All(stack[t]) = {Top(t)} \union Below(stack[t])
      /\ Tail(stack[t]) \in Seq(FrameSet) /\ All(Tail(stack[t])) = Below(stack[t])
  BY <1>1, TopIs DEF Top
<1>3. r \in Seq(FrameSet) /\ All(r) = {g} \union Below(stack[t])
  BY <1>2, PushIs
<1>4. <<f, g>> \o Tail(stack[t]) = q
  <2>1. <<f, g>> = <<f>> \o <<g>>
    <3>1. <<f>> \in Seq(FrameSet) /\ <<g>> \in Seq(FrameSet) /\ Len(<<f>>) = 1 /\ Len(<<g>>) = 1
      OBVIOUS
    <3>2. /\ <<f>> \o <<g>> \in Seq(FrameSet) /\ Len(<<f>> \o <<g>>) = 2
          /\ \A i \in 1..2 : (<<f>> \o <<g>>)[i] = IF i <= 1 THEN <<f>>[i] ELSE <<g>>[i - 1]
      BY <3>1, ConcatProperties
    <3>3. <<f, g>> \in Seq(FrameSet) /\ Len(<<f, g>>) = 2 /\ <<f, g>>[1] = f /\ <<f, g>>[2] = g
      OBVIOUS
    <3>4. \A i \in 1..2 : <<f, g>>[i] = (<<f>> \o <<g>>)[i]
      BY <3>2, <3>3
    <3> HIDE DEF q, r
    <3> QED BY <3>2, <3>3, <3>4, SeqEqual
  <2>2. <<f>> \in Seq(FrameSet) /\ <<g>> \in Seq(FrameSet)
    OBVIOUS
  <2> QED BY <2>1, <2>2, <1>2, ConcatAssociative
<1>5. stack' = [stack EXCEPT ![t] = q]
  BY <1>4 DEF Stacks
<1> HIDE DEF r
<1>6. q \in Seq(FrameSet) /\ All(q) = {f} \union All(r) /\ Below(q) = All(r)
  BY <1>3, PushIs
<1> HIDE DEF q
<1>7. stack' \in [Threads -> Seq(FrameSet)] /\ stack'[t] = q /\ Others(t)
  BY <1>5, <1>6 DEF Stacks, Others
<1>8. \A u \in Threads : \A h \in Below(stack'[u]) : h.at = "release"
  BY <1>3, <1>6, <1>7 DEF Stacks, Others
<1>9. All(stack'[t]) = {f, g} \union Below(stack[t])
  BY <1>3, <1>6, <1>7
<1>10. Changed(t, {Top(t)}, {f, g})
  BY <1>2, <1>7, <1>9 DEF Changed, Others
<1> QED BY <1>2, <1>7, <1>8, <1>9, <1>10 DEF Stacks

\* The frames the actions make.
LEMMA FrameIs ==
    ASSUME NEW at \in Steps, NEW p \in Streams \union {None}, at = "find" \/ p \in Streams
    PROVE  /\ Frame(at, p) \in FrameSet /\ Frame(at, p).at = at /\ Frame(at, p).of = p
           /\ Frame(at, p).closing = FALSE /\ Frame(at, p).owns = FALSE
           /\ Frame(at, p).word = Clear
BY DEF Frame, FrameSet, Word, Clear

\* A CLOSE callback begins by looking for the stream.
LEMMA CloseFrameIs ==
    ASSUME NEW p \in Streams, NEW w \in Word
    PROVE  /\ CloseFrame(p, w) \in FrameSet
           /\ CloseFrame(p, w).at = "find" /\ CloseFrame(p, w).of = p
           /\ w.closing => CloseFrame(p, w).closing = FALSE
<1> DEFINE closing == IF w.closing THEN FALSE ELSE TRUE
<1>1. closing \in BOOLEAN /\ Clear \in Word /\ "find" \in Steps
  BY DEF Word, Clear, Steps, Seeking
<1>2. CloseFrame(p, w) = [Frame("find", p) EXCEPT !.closing = closing]
  <2>1. closing = (~w.closing)
    BY DEF Word
  <2> QED BY <2>1 DEF CloseFrame
<1> HIDE DEF closing
<1>3. CloseFrame(p, w) = [at |-> "find", of |-> p, closing |-> closing, owns |-> FALSE,
                          word |-> Clear]
  BY <1>2 DEF Frame
<1>4. /\ CloseFrame(p, w) \in FrameSet
      /\ CloseFrame(p, w).at = "find" /\ CloseFrame(p, w).of = p
      /\ CloseFrame(p, w).closing = closing
  BY <1>1, <1>3 DEF FrameSet
<1> QED BY <1>4 DEF closing

\* A frame that goes on keeps what it is about.
LEMMA NextFrameIs ==
    ASSUME NEW f \in FrameSet, f.of \in Streams, NEW at \in Steps
    PROVE  /\ [f EXCEPT !.at = at] \in FrameSet /\ [f EXCEPT !.at = at].at = at
           /\ [f EXCEPT !.at = at].of = f.of /\ [f EXCEPT !.at = at].owns = f.owns
BY DEF FrameSet

-----------------------------------------------------------------------------
(* The inductive invariant, of a run without a crash and a torn word.      *)

\* The media thread is done with the stream: its bug is out, and no media callback
\* of it runs.
Detached(p) == bug[p] = "removed" /\ \A f \in All(stack[Media]) : f.at \in Audio => f.of # p

\* So is the event thread.
Quiet(p) ==
    Detached(p) /\ cleaned[p] /\ \A f \in All(stack[p]) : f.at # "binary"

\* A clean-up that may still come to the stream, and one that works on it.
Sought(p) == \E t \in Threads : \E f \in All(stack[t]) : f.at \in Seeking /\ f.of = p
Cleaned(p) == \E t \in Threads : \E f \in All(stack[t]) : f.at \in Cleaning /\ f.of = p

\* What a stream has at each place of its start command.
Stage(p) ==
    /\ start[p] \in Unmade => ~buffer[p]
    /\ start[p] \in Unmade => gone \/ mutexes[p] = "none"
    /\ start[p] \in {"none", "refused", "checked"} => event[p] = "none"
    /\ start[p] \in {"mutexes", "buffers", "bug"} => mutexes[p] = "live" /\ streamer[p]
    /\ start[p] = "done" => mutexes[p] # "none"
    /\ start[p] \in {"bug", "done"} <=> bug[p] # "none"
    /\ start[p] # "done" => private # p /\ ~flags[p].cleaning
    /\ start[p] = "failed" => p \in stray
    /\ start[p] = "done" /\ ~flags[p].cleaning => streamer[p]
    /\ gone => ~Starting(p)
    /\ event[p] = "ended" => \A f \in All(stack[p]) : f.at # "binary"

\* What a thread that is inside of f has done and may count on.
FrameOk(t, f) ==
    /\ f.at = "find" /\ f.closing => f.of \in Streams /\ Detached(f.of)
    /\ f.at \in {"lock", "mark", "request", "pause", "text"} \union Cleaning =>
         start[f.of] = "done"
    /\ f.at \in {"lock", "mark"} /\ f.closing /\ f.of \notin stray => Detached(f.of)
    /\ f.at = "mark" => ~f.word.cleaning
    /\ f.at \in Cleaning => flags[f.of].cleaning /\ (f.of \notin stray => f.owns)
    /\ f.at \in Cleaning \ {"remove"} /\ f.of \notin stray => Detached(f.of)
    /\ f.at \in {"disconnect", "join", "destroy"} /\ f.of \notin stray => cleaned[f.of]
    /\ f.at = "destroy" /\ f.of \notin stray => event[f.of] = "ended" \/ t = f.of
    /\ f.at = "binary" => t = f.of /\ start[f.of] \notin Unmade
    /\ f.at \in Audio => t = Media /\ bug[f.of] # "none"

\* The clean-up of a stream nobody cut off is neither skipped nor run too early.
Kept(p) ==
    p \notin stray =>
        /\ start[p] = "done" /\ private = p => ~flags[p].cleaning
        /\ start[p] = "done" /\ private = p /\ bug[p] = "removed" => Sought(p)
        /\ start[p] = "done" /\ private # p => mutexes[p] = "gone" \/ Cleaned(p)
        /\ start[p] \notin {"none", "refused"} /\ mutexes[p] = "gone" =>
             start[p] = "done" /\ private # p /\ Quiet(p)

Frames == \A t \in Threads : \A f \in All(stack[t]) : FrameOk(t, f)
Stages == \A p \in Streams : Stage(p)
AllKept == \A p \in Streams : Kept(p)

Core == Stages /\ Frames /\ AllKept

-----------------------------------------------------------------------------
(* What no step takes back.                                                *)

Grows(t, old, new) ==
    /\ Changed(t, old, new)
    /\ stray \subseteq stray'
    /\ \A p \in Streams :
        /\ start[p] = "done" => start'[p] = "done"
        /\ start[p] \notin Unmade => start'[p] \notin Unmade
        /\ bug[p] # "none" => bug'[p] # "none"
        /\ bug[p] = "removed" => bug'[p] = "removed"
        /\ flags[p].cleaning => flags'[p].cleaning
        /\ cleaned[p] => cleaned'[p]
        /\ event[p] = "ended" => event'[p] = "ended"
    /\ \A f \in new :
        /\ f.at \in Audio => bug[f.of] = "attached"
        /\ f.at = "binary" => ~cleaned[f.of] /\ event[f.of] = "running" /\ t = f.of

\* A stream the media thread, or both threads, are done with stays so.
LEMMA DetachedStays ==
    ASSUME NEW t \in Threads, NEW old, NEW new, Grows(t, old, new),
           NEW p \in Streams, Detached(p)
    PROVE  Detached(p)'
<1>1. bug'[p] = "removed"
  BY DEF Grows, Detached
<1>2. ASSUME NEW f \in All(stack'[Media]), f.at \in Audio PROVE f.of # p
  BY <1>2 DEF Grows, Changed, Detached, Threads
<1> QED BY <1>1, <1>2 DEF Detached

\* And so does one both threads are done with.
LEMMA QuietStays ==
    ASSUME NEW t \in Threads, NEW old, NEW new, Grows(t, old, new),
           NEW p \in Streams, Quiet(p)
    PROVE  Quiet(p)'
<1>1. Detached(p)' /\ cleaned'[p]
  BY DetachedStays DEF Quiet, Grows
<1>2. ASSUME NEW f \in All(stack'[p]) PROVE f.at # "binary"
  BY <1>2 DEF Grows, Changed, Quiet, Threads
<1> QED BY <1>1, <1>2 DEF Quiet

\* So a step need only answer for the frames it makes.
LEMMA FramesKept ==
    ASSUME Stacks, Frames, Stacks', NEW t \in Threads, NEW old, NEW new, Grows(t, old, new),
           \A f \in new : FrameOk(t, f)'
    PROVE  Frames'
<1> SUFFICES ASSUME NEW u \in Threads, NEW f \in All(stack'[u]) PROVE FrameOk(u, f)'
  BY DEF Frames
<1>1. CASE u = t /\ f \in new
  BY <1>1
<1>2. CASE f \in All(stack[u])
  <2>1. FrameOk(u, f)
    BY <1>2 DEF Frames
  <2>2. f \in FrameSet
    BY <1>2 DEF Stacks, All
  <2>3. f.at # "find" => f.of \in Streams
    BY <2>2 DEF FrameSet
  <2>4. f.of \in Streams =>
          /\ start[f.of] = "done" => start'[f.of] = "done"
          /\ start[f.of] \notin Unmade => start'[f.of] \notin Unmade
          /\ bug[f.of] # "none" => bug'[f.of] # "none"
          /\ flags[f.of].cleaning => flags'[f.of].cleaning
          /\ cleaned[f.of] => cleaned'[f.of]
          /\ event[f.of] = "ended" => event'[f.of] = "ended"
          /\ f.of \notin stray' => f.of \notin stray
          /\ Detached(f.of) => Detached(f.of)'
    BY DetachedStays DEF Grows
  <2> HIDE DEF Unmade, Cleaning, Audio
  <2> QED BY <2>1, <2>3, <2>4 DEF FrameOk, Cleaning, Audio
<1> QED BY <1>1, <1>2 DEF Grows, Changed

\* A step that moves no stream on: it may end event threads and replace frames.
Plain(t, old, new) ==
    /\ UNCHANGED <<startVars, mutexes, buffer, streamer, gone>>
    /\ \A p \in Streams :
        /\ flags'[p].cleaning = flags[p].cleaning
        /\ \/ event'[p] = event[p]
           \/ /\ event[p] = "running" /\ event'[p] = "ended"
              /\ \A f \in All(stack'[p]) : f.at # "binary"
    /\ \A f \in old : f.of \in Streams \ stray' =>
        /\ f.at \in Seeking /\ f.of = private =>
             \E g \in new : g.at \in Seeking /\ g.of = f.of
        /\ f.at \in Cleaning /\ f.of # private =>
             \E g \in new : g.at \in Cleaning /\ g.of = f.of

\* Where the streams are, a step that does not move them on leaves as it was.
LEMMA StagesStay ==
    ASSUME Stages, NEW t \in Threads, NEW old, NEW new, Grows(t, old, new), Plain(t, old, new)
    PROVE  Stages'
<1> SUFFICES ASSUME NEW p \in Streams PROVE Stage(p)'
  BY DEF Stages
<1>1. Stage(p) /\ p \in Threads
  BY DEF Stages, Threads
<1>2. /\ start' = start /\ private' = private /\ bug' = bug /\ mutexes' = mutexes
      /\ buffer' = buffer /\ streamer' = streamer /\ gone' = gone
      /\ flags'[p].cleaning = flags[p].cleaning /\ (p \in stray => p \in stray')
  BY DEF Plain, Grows, startVars
<1>3. event'[p] = "ended" => \A f \in All(stack'[p]) : f.at # "binary"
  <2>1. CASE event'[p] = event[p]
    <3> SUFFICES ASSUME event[p] = "ended", NEW f \in All(stack'[p]) PROVE f.at # "binary"
      BY <2>1
    <3>1. f \in All(stack[p]) \/ (p = t /\ f \in new)
      BY <1>1 DEF Grows, Changed
    <3> QED BY <1>1, <3>1 DEF Stage, Grows
  <2> QED BY <2>1 DEF Plain
<1>4. start[p] \in {"none", "refused", "checked"} => event'[p] = "none"
  BY <1>1 DEF Plain, Stage
<1> HIDE DEF Unmade
<1> QED BY <1>1, <1>2, <1>3, <1>4 DEF Stage, Starting

\* Nor does it take a clean-up away that a stream is still to get.
LEMMA KeptStays ==
    ASSUME AllKept, NEW t \in Threads, NEW old, NEW new, Grows(t, old, new), Plain(t, old, new)
    PROVE  AllKept'
<1> SUFFICES ASSUME NEW p \in Streams, p \notin stray' PROVE Kept(p)'
  BY DEF AllKept, Kept
<1>1. /\ start' = start /\ private' = private /\ bug' = bug /\ mutexes' = mutexes
      /\ flags'[p].cleaning = flags[p].cleaning /\ p \notin stray
  BY DEF Plain, Grows, startVars
<1>2. Kept(p)
  BY DEF AllKept
<1>3. ASSUME Sought(p), private = p PROVE Sought(p)'
  <2>1. PICK u \in Threads : \E f \in All(stack[u]) : f.at \in Seeking /\ f.of = p
    BY <1>3 DEF Sought
  <2>2. PICK f \in All(stack[u]) : f.at \in Seeking /\ f.of = p
    BY <2>1
  <2>3. CASE f \in All(stack'[u])
    BY <2>2, <2>3 DEF Sought
  <2>4. CASE u = t /\ f \in old
    <3>1. PICK g \in new : g.at \in Seeking /\ g.of = p
      BY <2>2, <2>4, <1>3 DEF Plain
    <3>2. g \in All(stack'[t])
      BY DEF Grows, Changed
    <3> QED BY <3>1, <3>2 DEF Sought
  <2> QED BY <2>3, <2>4 DEF Grows, Changed
<1>4. ASSUME Cleaned(p), private # p PROVE Cleaned(p)'
  <2>1. PICK u \in Threads : \E f \in All(stack[u]) : f.at \in Cleaning /\ f.of = p
    BY <1>4 DEF Cleaned
  <2>2. PICK f \in All(stack[u]) : f.at \in Cleaning /\ f.of = p
    BY <2>1
  <2>3. CASE f \in All(stack'[u])
    BY <2>2, <2>3 DEF Cleaned
  <2>4. CASE u = t /\ f \in old
    <3>1. PICK g \in new : g.at \in Cleaning /\ g.of = p
      BY <2>2, <2>4, <1>4 DEF Plain
    <3>2. g \in All(stack'[t])
      BY DEF Grows, Changed
    <3> QED BY <3>1, <3>2 DEF Cleaned
  <2> QED BY <2>3, <2>4 DEF Grows, Changed
<1>5. Quiet(p) => Quiet(p)'
  BY QuietStays
<1> QED BY <1>1, <1>2, <1>3, <1>4, <1>5 DEF Kept

\* Together: such a step keeps the invariant.
LEMMA CoreStays ==
    ASSUME Core, Stacks, Stacks', NEW t \in Threads, NEW old, NEW new, Grows(t, old, new),
           Plain(t, old, new), \A f \in new : FrameOk(t, f)'
    PROVE  Core'
BY FramesKept, StagesStay, KeptStays DEF Core

-----------------------------------------------------------------------------
(* The shapes of the steps.                                                *)

\* The thread that takes a step is inside of something, and knows what.
LEMMA TopOk ==
    ASSUME Stacks, Frames, NEW t \in Threads, NEW at, At(t, at)
    PROVE  /\ ~Idle(t) /\ Top(t) \in FrameSet /\ Top(t) \in All(stack[t]) /\ Top(t).at = at
           /\ FrameOk(t, Top(t))
           /\ at # "find" => Top(t).of \in Streams
           /\ All(stack[t]) = {Top(t)} \union Below(stack[t])
           /\ \A f \in Below(stack[t]) : f.at = "release"
<1>1. stack[t] \in Seq(FrameSet) /\ stack[t] # <<>> /\ Top(t).at = at
      /\ \A f \in Below(stack[t]) : f.at = "release"
  BY DEF Stacks, At
<1>2. Top(t) \in FrameSet /\ All(stack[t]) = {Top(t)} \union Below(stack[t])
  BY <1>1, TopIs DEF Top
<1>3. at # "find" => Top(t).of \in Streams
  BY <1>1, <1>2 DEF FrameSet
<1> QED BY <1>1, <1>2, <1>3 DEF Idle, Frames

\* A step that touches no stack.
LEMMA NothingIs ==
    ASSUME Stacks, NEW t \in Threads, UNCHANGED stack
    PROVE  Stacks' /\ Changed(t, {}, {})
BY DEF Stacks, Changed

\* A step that moves no stream and ends no event thread.
Still ==
    /\ UNCHANGED <<startVars, mutexes, buffer, streamer, event, gone>> /\ stray \subseteq stray'
    /\ \A p \in Streams :
        flags'[p].cleaning = flags[p].cleaning /\ (cleaned[p] => cleaned'[p])

\* It is one of the steps above.
LEMMA StillIs ==
    ASSUME Still, NEW t \in Threads, NEW old, NEW new, Changed(t, old, new),
           \A f \in new : /\ f.at \in Audio => bug[f.of] = "attached"
                          /\ f.at = "binary" => ~cleaned[f.of] /\ event[f.of] = "running" /\ t = f.of,
           \A f \in old : f.of \in Streams \ stray' =>
                /\ f.at \in Seeking /\ f.of = private =>
                     \E g \in new : g.at \in Seeking /\ g.of = f.of
                /\ f.at \in Cleaning /\ f.of # private =>
                     \E g \in new : g.at \in Cleaning /\ g.of = f.of
    PROVE  Grows(t, old, new) /\ Plain(t, old, new)
<1>1. /\ start' = start /\ private' = private /\ bug' = bug /\ mutexes' = mutexes
      /\ buffer' = buffer /\ streamer' = streamer /\ event' = event /\ gone' = gone
      /\ stray \subseteq stray'
      /\ \A p \in Streams : flags'[p].cleaning = flags[p].cleaning /\ (cleaned[p] => cleaned'[p])
  BY DEF Still, startVars
<1>2. Grows(t, old, new)
  BY <1>1 DEF Grows
<1>3. Plain(t, old, new)
  BY <1>1 DEF Plain, startVars
<1> QED BY <1>2, <1>3

\* A step that returns from anything but a clean-up.
LEMMA ReturnKeeps ==
    ASSUME Core, Stacks, Still, NEW t \in Threads, ~Idle(t), Return(t),
           Top(t).at \notin Seeking \union Cleaning
    PROVE  Stacks' /\ Core'
<1>1. Stacks' /\ Changed(t, {Top(t)}, {})
  BY ReturnIs
<1>2. Grows(t, {Top(t)}, {}) /\ Plain(t, {Top(t)}, {})
  BY <1>1, StillIs
<1> QED BY <1>1, <1>2, CoreStays

\* A step by which an idle thread begins something.
LEMMA CallKeeps ==
    ASSUME Core, Stacks, Still, NEW t \in Threads, NEW f \in FrameSet, Idle(t), Call(t, f),
           FrameOk(t, f)', f.at \in Audio => bug[f.of] = "attached",
           f.at = "binary" => ~cleaned[f.of] /\ event[f.of] = "running" /\ t = f.of
    PROVE  Stacks' /\ Core'
<1>1. Stacks' /\ Changed(t, {}, {f})
  BY CallIs
<1>2. Grows(t, {}, {f}) /\ Plain(t, {}, {f})
  BY <1>1, StillIs
<1> QED BY <1>1, <1>2, CoreStays

\* A step after which the thread is inside of the same clean-up, further on.
LEMMA GotoKeeps ==
    ASSUME Core, Stacks, Still, NEW t \in Threads, NEW f \in FrameSet, ~Idle(t), Goto(t, f),
           FrameOk(t, f)', f.at \notin Audio, f.at # "binary",
           Top(t).of \in Streams \ stray' =>
                /\ Top(t).at \in Seeking /\ Top(t).of = private => f.at \in Seeking /\ f.of = private
                /\ Top(t).at \in Cleaning => f.at \in Cleaning /\ f.of = Top(t).of
    PROVE  Stacks' /\ Core'
<1>1. Stacks' /\ Changed(t, {Top(t)}, {f})
  BY GotoIs
<1>2. Grows(t, {Top(t)}, {f}) /\ Plain(t, {Top(t)}, {f})
  BY <1>1, StillIs
<1> QED BY <1>1, <1>2, CoreStays

\* A step that touches no stack and moves no stream.
LEMMA NothingKeeps ==
    ASSUME Core, Stacks, Still, UNCHANGED stack
    PROVE  Stacks' /\ Core'
<1>1. Media \in Threads
  BY DEF Threads
<1>2. Stacks' /\ Changed(Media, {}, {})
  BY <1>1, NothingIs
<1>3. Grows(Media, {}, {}) /\ Plain(Media, {}, {})
  BY <1>1, <1>2, StillIs
<1> QED BY <1>1, <1>2, <1>3, CoreStays

-----------------------------------------------------------------------------
(* The commands that only talk, the event threads and the media thread.    *)

\* Sound is what holds of a run without a crash and a torn word.
Sound == Types /\ Stacks /\ Core

\* stop begins a clean-up of nothing in particular.
LEMMA StopKeeps ==
    ASSUME Sound, NEW c \in Commands, Stop(c)
    PROVE  Stacks' /\ Core'
<1> DEFINE f == Frame("find", None)
<1>1. f \in FrameSet /\ f.at = "find" /\ f.closing = FALSE
  BY FrameIs DEF Steps, Seeking
<1>2. FrameOk(c, f)'
  BY <1>1 DEF FrameOk, Cleaning, Audio
<1>3. Still /\ c \in Threads /\ Idle(c) /\ Call(c, f)
  BY DEF Stop, Still, pvtVars, connVars, callVars, ghosts, Sound, Threads
<1> HIDE DEF f
<1> QED BY <1>1, <1>2, <1>3, CallKeeps DEF Sound, Audio

\* The stream the channel names has been started.
LEMMA PrivateIs ==
    ASSUME Types, Stages, private # None
    PROVE  private \in Streams /\ start[private] = "done"
BY DEF Types, Stages, Stage

\* send_text takes the private data of the stream the channel names.
LEMMA SendTextKeeps ==
    ASSUME Sound, NEW c \in Commands, SendText(c)
    PROVE  Stacks' /\ Core'
<1> PICK f : f = Frame("text", private)
  OBVIOUS
<1>0. private \in Streams /\ start[private] = "done" /\ start' = start
  BY PrivateIs DEF Sound, Core, SendText, startVars
<1>1. f \in FrameSet /\ f.at = "text" /\ f.of = private
  BY <1>0, FrameIs DEF Steps
<1>2. FrameOk(c, f)'
  BY <1>0, <1>1 DEF FrameOk, Cleaning, Audio
<1>3. Still /\ c \in Threads /\ Idle(c) /\ Call(c, f)
  BY DEF SendText, Still, pvtVars, connVars, callVars, ghosts, Sound, Threads
<1> QED BY <1>1, <1>2, <1>3, CallKeeps DEF Sound, Audio

\* pause and resume load the word of the stream the channel names.
LEMMA PauseKeeps ==
    ASSUME Sound, NEW c \in Commands, Pause(c)
    PROVE  Stacks' /\ Core'
<1> PICK f : f = [Frame("pause", private) EXCEPT !.word = flags[private]]
  OBVIOUS
<1>0. private \in Streams /\ start[private] = "done" /\ start' = start
  BY PrivateIs DEF Sound, Core, Pause, startVars
<1>1. f \in FrameSet /\ f.at = "pause" /\ f.of = private
  <2>1. Frame("pause", private) \in FrameSet /\ Frame("pause", private).at = "pause"
        /\ Frame("pause", private).of = private /\ flags[private] \in Word
    BY <1>0, FrameIs DEF Steps, Sound, Types
  <2> QED BY <2>1 DEF FrameSet
<1>2. FrameOk(c, f)'
  BY <1>0, <1>1 DEF FrameOk, Cleaning, Audio
<1>3. Still /\ c \in Threads /\ Idle(c) /\ Call(c, f)
  BY DEF Pause, Still, pvtVars, connVars, callVars, ghosts, Sound, Threads
<1> QED BY <1>1, <1>2, <1>3, CallKeeps DEF Sound, Audio

\* send_text locks the stream's mutex to copy the streamer.
LEMMA LockForTextKeeps ==
    ASSUME Sound, NEW c \in Commands, LockForText(c), crash' = None
    PROVE  Stacks' /\ Core'
<1>1. c \in Threads /\ Still
  BY DEF LockForText, Still, pvtVars, connVars, callVars, Sound, Threads
<1>3. ~Idle(c) /\ Top(c).at = "text" /\ Top(c).of \in Streams
  BY <1>1, TopOk DEF LockForText, Sound, Core
<1>2. Return(c)
  BY <1>3, NoneAssumption DEF LockForText, Crash
<1> QED BY <1>1, <1>2, <1>3, ReturnKeeps DEF Sound, Seeking, Cleaning

\* pause and resume store the word with one bit changed.
LEMMA StorePausedKeeps ==
    ASSUME Sound, NEW c \in Commands, StorePaused(c), ~torn'
    PROVE  Stacks' /\ Core'
<1> DEFINE p == Top(c).of
<1>1. c \in Threads /\ ~Idle(c) /\ Top(c).at = "pause" /\ p \in Streams /\ Return(c)
  BY TopOk DEF StorePaused, Sound, Core, Threads
<1>2. flags[p] = Top(c).word /\ flags \in [Streams -> Word]
  BY DEF StorePaused, Store, Sound, Types
<1>3. PICK b \in BOOLEAN : flags' = [flags EXCEPT ![p] = [flags[p] EXCEPT !.paused = b]]
  BY <1>2 DEF StorePaused, Store
<1>4. \A q \in Streams : flags'[q].cleaning = flags[q].cleaning
  BY <1>1, <1>2, <1>3 DEF Word
<1>5. Still
  BY <1>4 DEF StorePaused, Still, connVars, callVars, startVars
<1> QED BY <1>1, <1>5, ReturnKeeps DEF Sound, Seeking, Cleaning

\* A callback that finds its mutex leaves nothing behind.
LEMMA LockBrieflyKeeps ==
    ASSUME Sound, NEW t \in Threads, NEW p \in Streams, LockBriefly(t, p), crash' = None,
           ~Idle(t), Top(t).at \in {"binary", "read", "write"}
    PROVE  Stacks' /\ Core'
<1>1. Still
  BY DEF LockBriefly, Still, pvtVars, connVars, callVars
<1>2. Return(t)
  BY NoneAssumption DEF LockBriefly, Crash
<1> QED BY <1>1, <1>2, ReturnKeeps DEF Sound, Seeking, Cleaning

\* A connection opens, and its thread runs on_open if somebody still wants to hear of it.
LEMMA OpenKeeps ==
    ASSUME Sound, NEW p \in Streams, Open(p)
    PROVE  Stacks' /\ Core'
<1> PICK f : f = Frame("open", p)
  OBVIOUS
<1>1. f \in FrameSet /\ f.at = "open" /\ f.of = p
  BY FrameIs DEF Steps
<1>2. FrameOk(p, f)'
  BY <1>1 DEF FrameOk, Cleaning, Audio
<1>3. Still /\ p \in Threads /\ Idle(p)
  BY DEF Open, Ready, Still, pvtVars, callVars, ghosts, Sound, Threads
<1>4. UNCHANGED stack \/ Call(p, f)
  BY DEF Open
<1> QED BY <1>1, <1>2, <1>3, <1>4, CallKeeps, NothingKeeps DEF Sound, Audio

\* on_open sends the metadata.
LEMMA OnOpenKeeps ==
    ASSUME Sound, NEW p \in Streams, OnOpen(p)
    PROVE  Stacks' /\ Core'
<1>1. Still /\ p \in Threads /\ Return(p)
  BY DEF OnOpen, Still, pvtVars, connVars, callVars, ghosts, Threads
<1>2. ~Idle(p) /\ Top(p).at = "open"
  BY <1>1, TopOk DEF OnOpen, Sound, Core
<1> QED BY <1>1, <1>2, ReturnKeeps DEF Sound, Seeking, Cleaning

\* Audio finds a play_buffer, or a freed session, after the start has made the mutexes.
LEMMA OnBinaryKeeps ==
    ASSUME Sound, NEW p \in Streams, OnBinary(p)
    PROVE  Stacks' /\ Core'
<1> PICK f : f = Frame("binary", p)
  OBVIOUS
<1>1. f \in FrameSet /\ f.at = "binary" /\ f.of = p
  BY FrameIs DEF Steps
<1>2. Still /\ p \in Threads /\ Idle(p) /\ Call(p, f)
  BY DEF OnBinary, Receives, Ready, Still, pvtVars, connVars, callVars, ghosts, Threads
<1>3. ~cleaned[p] /\ event[p] = "running"
  BY DEF OnBinary, Receives, Ready
<1>4. start[p] \notin Unmade
  <2>1. Stage(p)
    BY DEF Sound, Core, Stages
  <2> QED BY <1>3, <2>1 DEF OnBinary, Stage, Starting, Unmade
<1>5. start' = start
  BY DEF OnBinary, startVars
<1>6. FrameOk(p, f)'
  BY <1>1, <1>4, <1>5 DEF FrameOk, Cleaning, Audio
<1> QED BY <1>1, <1>2, <1>3, <1>6, CallKeeps DEF Sound, Audio

\* clearPlayback finds its mutex.
LEMMA OnClearKeeps ==
    ASSUME Sound, NEW p \in Streams, OnClear(p), crash' = None
    PROVE  Stacks' /\ Core'
<1>1. Still
  BY DEF OnClear, Still, pvtVars, connVars, callVars
<1>2. UNCHANGED stack
  BY NoneAssumption DEF OnClear, Crash
<1> QED BY <1>1, <1>2, NothingKeeps DEF Sound

\* onBinary finds its mutex.
LEMMA BinaryKeeps ==
    ASSUME Sound, NEW p \in Streams, Binary(p), crash' = None
    PROVE  Stacks' /\ Core'
<1>1. p \in Threads /\ ~Idle(p) /\ Top(p).at = "binary"
  BY TopOk DEF Binary, Sound, Core, Threads
<1> QED BY <1>1, LockBrieflyKeeps DEF Binary

\* A connection that fails asks for the stream the channel names to be closed.
LEMMA FailKeeps ==
    ASSUME Sound, NEW p \in Streams, Fail(p)
    PROVE  Stacks' /\ Core'
<1>1. Still /\ p \in Threads /\ Idle(p)
  BY DEF Fail, Ready, Still, pvtVars, callVars, ghosts, Threads
<1>2. CASE UNCHANGED stack
  BY <1>1, <1>2, NothingKeeps DEF Sound
<1>3. CASE private # None /\ Call(p, [Frame("request", private) EXCEPT !.word = flags[private]])
  <2> PICK f : f = [Frame("request", private) EXCEPT !.word = flags[private]]
    OBVIOUS
  <2>0. private \in Streams /\ start[private] = "done" /\ start' = start
    BY <1>3, PrivateIs DEF Sound, Core, Fail, startVars
  <2>1. f \in FrameSet /\ f.at = "request" /\ f.of = private
    <3>1. /\ Frame("request", private) \in FrameSet /\ Frame("request", private).at = "request"
          /\ Frame("request", private).of = private /\ flags[private] \in Word
      BY <2>0, FrameIs DEF Steps, Sound, Types
    <3> QED BY <3>1 DEF FrameSet
  <2>2. FrameOk(p, f)'
    BY <2>0, <2>1 DEF FrameOk, Cleaning, Audio
  <2> QED BY <1>1, <1>3, <2>1, <2>2, CallKeeps DEF Sound, Audio
<1> QED BY <1>2, <1>3 DEF Fail

\* The request marks the stream, so that the clean-up takes its bug out.
LEMMA RequestCloseKeeps ==
    ASSUME Sound, NEW p \in Streams, RequestClose(p), ~torn'
    PROVE  Stacks' /\ Core'
<1> DEFINE q == Top(p).of
<1>1. p \in Threads /\ ~Idle(p) /\ Top(p).at = "request" /\ q \in Streams
  BY TopOk DEF RequestClose, Sound, Core, Threads
<1>2. flags[q] = Top(p).word /\ flags \in [Streams -> Word]
  BY DEF RequestClose, Store, Sound, Types
<1> PICK word : word = [flags[q] EXCEPT !.closing = TRUE]
  OBVIOUS
<1>3. flags' = [flags EXCEPT ![q] = word]
  BY <1>2 DEF RequestClose, Store
<1>4. word \in Word /\ word.closing = TRUE /\ word.cleaning = flags[q].cleaning
  BY <1>1, <1>2 DEF Word
<1>5. \A r \in Streams : flags'[r].cleaning = flags[r].cleaning
  BY <1>1, <1>2, <1>3, <1>4
<1>6. Still
  BY <1>5 DEF RequestClose, Still, connVars, callVars, startVars
<1>7. CASE Return(p)
  BY <1>1, <1>6, <1>7, ReturnKeeps DEF Sound, Seeking, Cleaning
<1>8. CASE Goto(p, CloseFrame(q, word))
  <2> PICK f : f = CloseFrame(q, word)
    OBVIOUS
  <2>1. f \in FrameSet /\ f.at = "find" /\ f.closing = FALSE
    <3>1. f \in FrameSet /\ f.at = "find" /\ (word.closing => f.closing = FALSE)
      BY <1>1, <1>4, CloseFrameIs
    <3> QED BY <3>1, <1>4
  <2>2. FrameOk(p, f)'
    BY <2>1 DEF FrameOk, Cleaning, Audio
  <2> QED BY <1>1, <1>6, <1>8, <2>1, <2>2, GotoKeeps DEF Sound, Audio, Seeking, Cleaning
<1> QED BY <1>2, <1>7, <1>8 DEF RequestClose

\* A connection the bridge closes says so.
LEMMA DroppedKeeps ==
    ASSUME Sound, NEW p \in Streams, Dropped(p)
    PROVE  Stacks' /\ Core'
<1>1. Still /\ UNCHANGED stack
  BY DEF Dropped, Still, pvtVars, callVars, ghosts
<1> QED BY <1>1, NothingKeeps DEF Sound

\* An event thread ends outside of its callbacks.
LEMMA EventEndsKeeps ==
    ASSUME Sound, NEW p \in Streams, EventEnds(p)
    PROVE  Stacks' /\ Core'
<1>1. /\ start' = start /\ private' = private /\ bug' = bug /\ mutexes' = mutexes
      /\ buffer' = buffer /\ streamer' = streamer /\ gone' = gone /\ stray' = stray
      /\ flags' = flags /\ cleaned' = cleaned /\ stack' = stack
      /\ event[p] = "running" /\ event' = [event EXCEPT ![p] = "ended"] /\ stack[p] = <<>>
  BY DEF EventEnds, Ready, Idle, startVars, pvtVars, callVars, ghosts
<1>2. p \in Threads /\ event \in [Streams -> {"none", "running", "ended"}]
  BY DEF Sound, Types, Threads
<1>3. Stacks' /\ Changed(p, {}, {})
  BY <1>1, <1>2, NothingIs DEF Sound
<1>4. \A q \in Streams :
        event'[q] = event[q] \/ (q = p /\ event'[q] = "ended" /\ event[q] = "running")
  <2>1. event' = [event EXCEPT ![p] = "ended"] /\ event[p] = "running"
    BY <1>1
  <2> QED BY <1>2, <2>1
<1>5. Grows(p, {}, {})
  BY <1>1, <1>3, <1>4 DEF Grows
<1>6. \A f \in All(stack'[p]) : f.at # "binary"
  BY <1>1, EmptyIs
<1>7. Plain(p, {}, {})
  BY <1>1, <1>4, <1>6 DEF Plain, startVars
<1> QED BY <1>2, <1>3, <1>5, <1>7, CoreStays DEF Sound

\* A media callback begins only for a bug that is attached.
LEMMA CaptureKeeps ==
    ASSUME Sound, NEW p \in Streams, Capture(p)
    PROVE  Stacks' /\ Core'
<1> PICK at \in Audio : Call(Media, Frame(at, p))
  BY DEF Capture, Audio
<1> PICK f : f = Frame(at, p)
  OBVIOUS
<1>1. f \in FrameSet /\ f.at = at /\ f.of = p
  BY FrameIs DEF Steps
<1>2. Still /\ Media \in Threads /\ Idle(Media) /\ bug[p] = "attached" /\ bug' = bug
  BY DEF Capture, MediaIdle, Still, startVars, pvtVars, connVars, callVars, ghosts, Threads
<1>3. FrameOk(Media, f)'
  BY <1>1, <1>2 DEF FrameOk, Cleaning, Audio
<1> QED BY <1>1, <1>2, <1>3, CallKeeps DEF Sound, Audio

\* The media callbacks find their mutexes.
LEMMA FrameStepsKeep ==
    ASSUME Sound, StreamFrame \/ PlaybackFrame, crash' = None
    PROVE  Stacks' /\ Core'
<1>1. PICK at \in Audio : At(Media, at) /\ LockBriefly(Media, Top(Media).of)
  BY DEF StreamFrame, PlaybackFrame, Audio
<1>2. /\ Media \in Threads /\ ~Idle(Media) /\ Top(Media).at = at
      /\ Top(Media).of \in Streams
  BY <1>1, TopOk DEF Sound, Core, Threads, Audio
<1> QED BY <1>1, <1>2, LockBrieflyKeeps DEF Audio

\* A hangup touches no stream yet.
LEMMA HangupKeeps ==
    ASSUME Sound, Hangup
    PROVE  Stacks' /\ Core'
<1>1. Still /\ UNCHANGED stack
  BY DEF Hangup, Still, pvtVars, connVars, ghosts
<1> QED BY <1>1, NothingKeeps DEF Sound

-----------------------------------------------------------------------------
(* The clean-up.                                                           *)

\* A clean-up goes for the stream the channel names; if that is not the one it was
\* called for, the stream counts as cut off.
LEMMA FindKeeps ==
    ASSUME Sound, NEW t \in Threads, Find(t)
    PROVE  Stacks' /\ Core'
<1>1. ~Idle(t) /\ Top(t) \in FrameSet /\ Top(t).at = "find" /\ FrameOk(t, Top(t))
  BY TopOk DEF Find, Sound, Core
<1>2. stray \subseteq Streams /\ private \in Streams \union {None}
  BY DEF Sound, Types
<1>3. CASE private = None /\ Return(t) /\ UNCHANGED stray
  <2>1. Still
    BY <1>3 DEF Find, Still, startVars, pvtVars, connVars, callVars
  <2>2. Stacks' /\ Changed(t, {Top(t)}, {})
    BY <1>1, <1>3, ReturnIs DEF Sound
  <2>3. Grows(t, {Top(t)}, {}) /\ Plain(t, {Top(t)}, {})
    BY <1>1, <1>3, <2>1, <2>2, NoneAssumption, StillIs DEF Seeking, Cleaning
  <2> QED BY <2>2, <2>3, CoreStays DEF Sound
<1>4. CASE /\ private # None
           /\ Goto(t, [Top(t) EXCEPT !.at = "lock", !.of = private])
           /\ stray' = stray \union (IF Top(t).of \in {None, private} THEN {} ELSE {private})
  <2> PICK f : f = [Top(t) EXCEPT !.at = "lock", !.of = private]
    OBVIOUS
  <2>0. private \in Streams /\ start[private] = "done" /\ start' = start
    BY <1>4, PrivateIs DEF Sound, Core, Find, startVars
  <2>1. f \in FrameSet /\ f.at = "lock" /\ f.of = private /\ f.closing = Top(t).closing
    BY <1>1, <2>0 DEF FrameSet, Steps, Seeking
  <2>2. Still /\ stack' = [stack EXCEPT ![t] = <<f>> \o Tail(@)]
    BY <1>4 DEF Find, Still, startVars, pvtVars, connVars, callVars, Goto
  <2>3. Goto(t, f)
    BY <2>2 DEF Goto
  <2>4. Stacks' /\ Changed(t, {Top(t)}, {f})
    BY <1>1, <2>1, <2>3, GotoIs DEF Sound
  <2>5. Grows(t, {Top(t)}, {f})
    BY <2>1, <2>2, <2>4, <1>1, StillIs DEF Audio, Seeking, Cleaning
  <2>6. ASSUME f.closing, private \notin stray' PROVE Detached(private)'
    <3>1. Top(t).of = private
      BY <1>1, <1>4, <2>1, <2>6, NoneAssumption DEF FrameOk
    <3>2. Detached(private)
      BY <1>1, <2>1, <2>6, <3>1 DEF FrameOk
    <3> PICK p \in Streams : p = private
      BY <2>0
    <3>3. Detached(p)'
      BY <2>5, <3>2, DetachedStays
    <3>4. private' = private
      BY <2>2 DEF Still, startVars
    <3> QED BY <3>3, <3>4 DEF Detached
  <2>7. FrameOk(t, f)'
    <3>1. private' = private
      BY <2>2 DEF Still, startVars
    <3> QED BY <2>0, <2>1, <2>6, <3>1 DEF FrameOk, Cleaning, Audio
  <2> QED BY <1>1, <2>1, <2>2, <2>3, <2>7, GotoKeeps DEF Sound, Audio, Seeking, Cleaning
<1> QED BY <1>3, <1>4 DEF Find

\* The lock lets one clean-up of a stream by, the one that will mark it.
LEMMA LockStreamKeeps ==
    ASSUME Sound, NEW t \in Threads, LockStream(t), crash' = None
    PROVE  Stacks' /\ Core'
<1> PICK p : p = Top(t).of
  OBVIOUS
<1>1. /\ ~Idle(t) /\ Top(t) \in FrameSet /\ Top(t).at = "lock" /\ FrameOk(t, Top(t))
      /\ p \in Streams
  BY TopOk DEF LockStream, Sound, Core
<1>2. Still
  BY DEF LockStream, Still, startVars, connVars, callVars
<1>3. CASE flags[p].cleaning /\ Return(t)
  <2>1. Stacks' /\ Changed(t, {Top(t)}, {})
    BY <1>1, <1>3, ReturnIs DEF Sound
  <2>2. stray' = stray /\ start[p] = "done" /\ Kept(p)
    BY <1>1 DEF LockStream, FrameOk, Sound, Core, AllKept
  <2>3. Grows(t, {Top(t)}, {}) /\ Plain(t, {Top(t)}, {})
    BY <1>1, <1>2, <1>3, <2>1, <2>2, StillIs DEF Kept, Seeking, Cleaning
  <2> QED BY <2>1, <2>3, CoreStays DEF Sound
<1>4. CASE ~flags[p].cleaning /\ Goto(t, [Top(t) EXCEPT !.at = "mark", !.word = flags[p]])
  <2> PICK f : f = [Top(t) EXCEPT !.at = "mark", !.word = flags[p]]
    OBVIOUS
  <2>1. /\ f \in FrameSet /\ f.at = "mark" /\ f.of = p /\ f.closing = Top(t).closing
        /\ ~f.word.cleaning
    <3>1. flags[p] \in Word
      BY <1>1 DEF Sound, Types
    <3> QED BY <1>1, <1>4, <3>1 DEF FrameSet, Steps, Seeking
  <2>2. stray' = stray /\ start' = start
    BY DEF LockStream, startVars
  <2>3. Goto(t, f)
    BY <1>4
  <2>4. Changed(t, {Top(t)}, {f})
    BY <1>1, <2>1, <2>3, GotoIs DEF Sound
  <2>5. Grows(t, {Top(t)}, {f})
    BY <2>1, <1>2, <2>4, <1>1, StillIs DEF Audio, Seeking, Cleaning
  <2>6. ASSUME f.closing, p \notin stray' PROVE Detached(p)'
    BY <1>1, <2>1, <2>2, <2>5, <2>6, DetachedStays DEF FrameOk
  <2>7. FrameOk(t, f)'
    BY <1>1, <2>1, <2>2, <2>6 DEF FrameOk, Cleaning, Audio
  <2> QED BY <1>1, <1>2, <2>1, <2>3, <2>7, GotoKeeps DEF Sound, Audio, Seeking, Cleaning
<1> QED BY <1>1, <1>3, <1>4, NoneAssumption DEF LockStream, Crash

\* markCleanedUp comes before the disconnect.
LEMMA ReleaseKeeps ==
    ASSUME Sound, NEW t \in Threads, Release(t)
    PROVE  Stacks' /\ Core'
<1> PICK p : p = Top(t).of
  OBVIOUS
<1>1. /\ ~Idle(t) /\ Top(t) \in FrameSet /\ Top(t).at = "release" /\ FrameOk(t, Top(t))
      /\ p \in Streams
  BY TopOk DEF Release, Sound, Core
<1> PICK at : /\ Step(t, at)
              /\ \/ Top(t).owns /\ at = "disconnect" /\ cleaned' = [cleaned EXCEPT ![p] = TRUE]
                 \/ ~Top(t).owns /\ at = "destroy" /\ cleaned' = cleaned
  BY DEF Release
<1> PICK f : f = [Top(t) EXCEPT !.at = at]
  OBVIOUS
<1>2. f \in FrameSet /\ f.at = at /\ f.of = p /\ f.owns = Top(t).owns
  BY <1>1, NextFrameIs DEF Steps, Cleaning
<1>3. /\ \A q \in Streams : cleaned[q] => cleaned'[q]
      /\ Top(t).owns => cleaned'[p]
  BY <1>1 DEF Sound, Types
<1>4. Still /\ flags' = flags /\ stray' = stray /\ start' = start
  BY <1>3 DEF Release, Still, startVars, pvtVars, callVars, ghosts
<1>5. Goto(t, f) /\ Changed(t, {Top(t)}, {f})
  BY <1>1, <1>2, GotoIs DEF Step, Sound
<1>6. Grows(t, {Top(t)}, {f})
  BY <1>1, <1>2, <1>4, <1>5, StillIs DEF Audio, Seeking, Cleaning
<1>7. Detached(p) => Detached(p)'
  BY <1>1, <1>6, DetachedStays
<1>8. FrameOk(t, f)'
  BY <1>1, <1>2, <1>3, <1>4, <1>7 DEF FrameOk, Cleaning, Audio
<1> QED BY <1>1, <1>2, <1>4, <1>5, <1>8, GotoKeeps DEF Sound, Audio, Seeking, Cleaning

\* Who destroys a stream has joined its event thread, or is it.
LEMMA DisconnectKeeps ==
    ASSUME Sound, NEW t \in Threads, Disconnect(t) \/ Join(t)
    PROVE  Stacks' /\ Core'
<1> PICK p : p = Top(t).of
  OBVIOUS
<1>1. /\ ~Idle(t) /\ Top(t) \in FrameSet /\ Top(t).at \in {"disconnect", "join"}
      /\ FrameOk(t, Top(t)) /\ p \in Streams
  BY TopOk DEF Disconnect, Join, Sound, Core
<1> PICK at : /\ Step(t, at)
              /\ at = "join" \/ (at = "destroy" /\ (t = p \/ event[p] = "ended"))
  BY DEF Disconnect, Join
<1> PICK f : f = [Top(t) EXCEPT !.at = at]
  OBVIOUS
<1>2. f \in FrameSet /\ f.at = at /\ f.of = p /\ f.owns = Top(t).owns
  BY <1>1, NextFrameIs DEF Steps, Cleaning
<1>4. /\ Still /\ flags' = flags /\ stray' = stray /\ start' = start /\ cleaned' = cleaned
      /\ event' = event
  BY DEF Disconnect, Join, Still, startVars, pvtVars, connVars, callVars, ghosts
<1>5. Goto(t, f) /\ Changed(t, {Top(t)}, {f})
  BY <1>1, <1>2, GotoIs DEF Step, Sound
<1>6. Grows(t, {Top(t)}, {f})
  BY <1>1, <1>2, <1>4, <1>5, StillIs DEF Audio, Seeking, Cleaning
<1>7. Detached(p) => Detached(p)'
  BY <1>1, <1>6, DetachedStays
<1>8. FrameOk(t, f)'
  BY <1>1, <1>2, <1>4, <1>7 DEF FrameOk, Cleaning, Audio
<1> QED BY <1>1, <1>2, <1>4, <1>5, <1>8, GotoKeeps DEF Sound, Audio, Seeking, Cleaning

\* What a step does to a stream it does not move.
Aside(q, old, new) ==
    /\ start'[q] = start[q] /\ bug'[q] = bug[q] /\ mutexes'[q] = mutexes[q]
    /\ buffer'[q] = buffer[q] /\ streamer'[q] = streamer[q] /\ event'[q] = event[q]
    /\ flags'[q].cleaning = flags[q].cleaning /\ gone' = gone
    /\ private' = q => private = q
    /\ q \notin stray' =>
        /\ private = q => private' = q
        /\ \A f \in old : f.of = q =>
            /\ f.at \in Seeking => \E g \in new : g.at \in Seeking /\ g.of = f.of
            /\ f.at \in Cleaning => \E g \in new : g.at \in Cleaning /\ g.of = f.of

\* An event thread that has ended runs no callback.
LEMMA EndedStays ==
    ASSUME NEW t \in Threads, NEW old, NEW new, Grows(t, old, new),
           NEW p \in Streams, Stage(p), event'[p] = event[p]
    PROVE  event'[p] = "ended" => \A f \in All(stack'[p]) : f.at # "binary"
<1> SUFFICES ASSUME event[p] = "ended", NEW f \in All(stack'[p]) PROVE f.at # "binary"
  OBVIOUS
<1>1. f \in All(stack[p]) \/ (p = t /\ f \in new)
  BY DEF Grows, Changed, Threads
<1> QED BY <1>1 DEF Stage, Grows

\* Such a stream stays as it was.
LEMMA AsideStays ==
    ASSUME Stages, AllKept, NEW t \in Threads, NEW old, NEW new, Grows(t, old, new),
           NEW p \in Streams, Aside(p, old, new)
    PROVE  Stage(p)' /\ Kept(p)'
<1>1. Stage(p) /\ Kept(p) /\ p \in Threads
  BY DEF Stages, AllKept, Threads
<1>2. p \in stray => p \in stray'
  BY DEF Grows
<1>3. event'[p] = "ended" => \A f \in All(stack'[p]) : f.at # "binary"
  BY <1>1, EndedStays DEF Aside
<1>4. Stage(p)'
  <2> HIDE DEF Unmade
  <2> QED BY <1>1, <1>2, <1>3 DEF Stage, Starting, Aside
<1>5. ASSUME Sought(p), p \notin stray' PROVE Sought(p)'
  <2>1. PICK u \in Threads : \E f \in All(stack[u]) : f.at \in Seeking /\ f.of = p
    BY <1>5 DEF Sought
  <2>2. PICK f \in All(stack[u]) : f.at \in Seeking /\ f.of = p
    BY <2>1
  <2>3. CASE f \in All(stack'[u])
    BY <2>2, <2>3 DEF Sought
  <2>4. CASE u = t /\ f \in old
    <3>1. PICK g \in new : g.at \in Seeking /\ g.of = p
      BY <2>2, <2>4, <1>5 DEF Aside
    <3>2. g \in All(stack'[t])
      BY DEF Grows, Changed
    <3> QED BY <3>1, <3>2 DEF Sought
  <2> QED BY <2>3, <2>4 DEF Grows, Changed
<1>6. ASSUME Cleaned(p), p \notin stray' PROVE Cleaned(p)'
  <2>1. PICK u \in Threads : \E f \in All(stack[u]) : f.at \in Cleaning /\ f.of = p
    BY <1>6 DEF Cleaned
  <2>2. PICK f \in All(stack[u]) : f.at \in Cleaning /\ f.of = p
    BY <2>1
  <2>3. CASE f \in All(stack'[u])
    BY <2>2, <2>3 DEF Cleaned
  <2>4. CASE u = t /\ f \in old
    <3>1. PICK g \in new : g.at \in Cleaning /\ g.of = p
      BY <2>2, <2>4, <1>6 DEF Aside
    <3>2. g \in All(stack'[t])
      BY DEF Grows, Changed
    <3> QED BY <3>1, <3>2 DEF Cleaned
  <2> QED BY <2>3, <2>4 DEF Grows, Changed
<1>7. Quiet(p) => Quiet(p)'
  BY QuietStays
<1>8. ASSUME p \notin stray' PROVE private' = p <=> private = p
  BY <1>8 DEF Aside
<1>9. Kept(p)'
  BY <1>1, <1>2, <1>5, <1>6, <1>7, <1>8 DEF Kept, Aside
<1> QED BY <1>4, <1>9

\* The critical section takes the stream out of the channel, and sees to it that the
\* clean-up goes on.
LEMMA MarkKeeps ==
    ASSUME Sound, NEW t \in Threads, Mark(t), ~torn'
    PROVE  Stacks' /\ Core'
<1> PICK p : p = Top(t).of
  OBVIOUS
<1>1. /\ ~Idle(t) /\ Top(t) \in FrameSet /\ Top(t).at = "mark" /\ FrameOk(t, Top(t))
      /\ p \in Streams
  BY TopOk DEF Mark, Sound, Core
<1> PICK f : f = [Frame(IF Top(t).closing THEN "release" ELSE "remove", p)
                    EXCEPT !.owns = streamer[p]]
  OBVIOUS
<1>2. /\ f \in FrameSet /\ f.of = p /\ f.owns = streamer[p]
      /\ f.at \in {"release", "remove"} /\ (f.at = "release" => Top(t).closing)
  <2>1. PICK at \in {"release", "remove"} :
          at = (IF Top(t).closing THEN "release" ELSE "remove")
    OBVIOUS
  <2>2. Frame(at, p) \in FrameSet /\ Frame(at, p).at = at /\ Frame(at, p).of = p
    BY <1>1, FrameIs DEF Steps, Cleaning
  <2>3. streamer[p] \in BOOLEAN
    BY <1>1 DEF Sound, Types
  <2>4. f = [Frame(at, p) EXCEPT !.owns = streamer[p]]
    BY <2>1
  <2> QED BY <2>1, <2>2, <2>3, <2>4 DEF FrameSet
<1>3. Stacks' /\ Changed(t, {Top(t)}, {f})
  BY <1>1, <1>2, GotoIs DEF Mark, Sound
<1>4. /\ start' = start /\ bug' = bug /\ mutexes' = mutexes /\ buffer' = buffer
      /\ cleaned' = cleaned /\ event' = event /\ gone' = gone
      /\ stray' = stray \union ({private} \ {None, p}) /\ private' = None
      /\ streamer' = [streamer EXCEPT ![p] = FALSE]
  BY DEF Mark, connVars, callVars
<1>5. flags[p] = Top(t).word /\ flags' = [flags EXCEPT ![p] = [flags[p] EXCEPT !.cleaning = TRUE]]
  BY DEF Mark, Store
<1>6. flags' \in [Streams -> Word] /\ flags'[p].cleaning /\ ~flags[p].cleaning
      /\ \A q \in Streams \ {p} : flags'[q] = flags[q]
  <2>1. flags \in [Streams -> Word]
    BY DEF Sound, Types
  <2>2. [flags[p] EXCEPT !.cleaning = TRUE] \in Word
    BY <1>1, <2>1 DEF Word
  <2>3. [flags[p] EXCEPT !.cleaning = TRUE].cleaning
    BY <1>1, <2>1 DEF Word
  <2> QED BY <1>1, <1>5, <2>1, <2>2, <2>3 DEF FrameOk
<1>7. start[p] = "done" /\ Stage(p) /\ streamer[p]
  <2>1. start[p] = "done" /\ Stage(p)
    BY <1>1 DEF FrameOk, Sound, Core, Stages
  <2> QED BY <2>1, <1>6 DEF Stage
<1>8. Grows(t, {Top(t)}, {f})
  BY <1>2, <1>3, <1>4, <1>6 DEF Grows, Audio
<1>9. FrameOk(t, f)'
  <2>1. f.at = "release" /\ p \notin stray' => Detached(p)'
    BY <1>1, <1>2, <1>4, <1>8, DetachedStays DEF FrameOk
  <2>2. f.owns = TRUE
    BY <1>2, <1>7 DEF Sound, Types
  <2> QED BY <1>2, <1>4, <1>6, <1>7, <2>1, <2>2 DEF FrameOk, Cleaning, Audio
<1>10. Frames'
  BY <1>3, <1>8, <1>9, FramesKept DEF Sound, Core
<1>11. ASSUME NEW q \in Streams \ {p} PROVE Stage(q)' /\ Kept(q)'
  <2>1. private' = q => private = q
    BY <1>4, NoneAssumption
  <2>2. q \notin stray' => private # q
    BY <1>4, NoneAssumption
  <2>3. streamer'[q] = streamer[q]
    BY <1>1, <1>4 DEF Sound, Types
  <2>4. Aside(q, {Top(t)}, {f})
    BY <1>4, <1>6, <2>1, <2>2, <2>3 DEF Aside
  <2> QED BY <1>8, <2>4, AsideStays DEF Sound, Core
<1>12. Stage(p)'
  <2>1. event'[p] = "ended" => \A g \in All(stack'[p]) : g.at # "binary"
    BY <1>1, <1>4, <1>7, <1>8, EndedStays
  <2> QED BY <1>4, <1>6, <1>7, <2>1, NoneAssumption DEF Stage, Starting, Unmade
<1>13. Kept(p)'
  <2>1. Kept(p) /\ Quiet(p) => Quiet(p)'
    BY <1>1, <1>8, QuietStays
  <2>2. Cleaned(p)'
    BY <1>2, <1>3 DEF Cleaned, Changed, Cleaning
  <2>3. Kept(p) /\ (p \in stray => p \in stray')
    BY <1>1, <1>4 DEF Sound, Core, AllKept
  <2>4. private' # p
    BY <1>1, <1>4, NoneAssumption
  <2>5. p \notin stray /\ mutexes[p] = "gone" => Quiet(p)
    BY <1>7, <2>3 DEF Kept
  <2> QED BY <1>4, <1>7, <2>1, <2>2, <2>3, <2>4, <2>5 DEF Kept
<1>14. Stages' /\ AllKept'
  BY <1>11, <1>12, <1>13 DEF Stages, AllKept
<1> QED BY <1>3, <1>10, <1>14 DEF Core

\* Nobody waits in a callback of the stream once its bug is out.
LEMMA RemoveKeeps ==
    ASSUME Sound, NEW t \in Threads, Remove(t)
    PROVE  Stacks' /\ Core'
<1> PICK p : p = Top(t).of
  OBVIOUS
<1>1. /\ ~Idle(t) /\ Top(t) \in FrameSet /\ Top(t).at = "remove" /\ FrameOk(t, Top(t))
      /\ p \in Streams /\ start[p] = "done" /\ flags[p].cleaning
  BY TopOk DEF Remove, Sound, Core, FrameOk, Cleaning
<1> PICK g : g = [Top(t) EXCEPT !.at = "release"]
  OBVIOUS
<1>2. g \in FrameSet /\ g.at = "release" /\ g.of = p /\ g.owns = Top(t).owns
  BY <1>1, NextFrameIs DEF Steps, Cleaning
<1>3. /\ start' = start /\ private' = private /\ mutexes' = mutexes /\ buffer' = buffer
      /\ flags' = flags /\ cleaned' = cleaned /\ event' = event /\ gone' = gone
      /\ streamer' = streamer /\ stray' = stray
  BY DEF Remove, pvtVars, connVars, callVars, ghosts
<1>4. \A f \in All(stack[Media]) : f.at \notin Audio
  <2>1. CASE t = Media
    BY <1>1, <2>1, TopOk DEF Remove, Sound, Core, Audio
  <2>2. CASE Idle(Media)
    BY <2>2, EmptyIs DEF Idle
  <2>3. CASE t # Media /\ ~Idle(Media)
    <3>1. Top(Media).at \notin Audio
      BY <2>3 DEF Remove, InCallback, Audio
    <3>2. Media \in Threads /\ At(Media, Top(Media).at)
      BY <2>3 DEF Remove, At, Idle, Threads
    <3>3. /\ All(stack[Media]) = {Top(Media)} \union Below(stack[Media])
          /\ \A f \in Below(stack[Media]) : f.at = "release"
      BY <3>2, TopOk DEF Sound, Core
    <3> QED BY <3>1, <3>3 DEF Audio
  <2> QED BY <2>1, <2>2, <2>3
<1>5. Stage(p) /\ Kept(p) /\ bug[p] # "none" /\ bug \in [Streams -> {"none", "attached", "removed"}]
  <2>1. Stage(p) /\ Kept(p) /\ bug \in [Streams -> {"none", "attached", "removed"}]
    BY <1>1 DEF Sound, Core, Stages, AllKept, Types
  <2> QED BY <1>1, <2>1 DEF Stage
<1>6. CASE bug[p] # "attached" /\ UNCHANGED bug /\ Step(t, "release")
  <2>1. Still /\ Goto(t, g)
    BY <1>3, <1>6 DEF Still, startVars, Step
  <2>2. Detached(p)'
    <3>1. Changed(t, {Top(t)}, {g})
      BY <1>1, <1>2, <2>1, GotoIs DEF Sound
    <3>2. Grows(t, {Top(t)}, {g})
      BY <1>3, <1>6, <1>2, <3>1 DEF Grows, Audio
    <3> QED BY <1>4, <1>5, <1>6, <1>1, <3>2, DetachedStays DEF Detached
  <2>3. FrameOk(t, g)'
    BY <1>1, <1>2, <1>3, <2>2 DEF FrameOk, Cleaning, Audio
  <2> QED BY <1>1, <1>2, <2>1, <2>3, GotoKeeps DEF Sound, Audio, Seeking, Cleaning
<1>7. CASE /\ bug[p] = "attached" /\ bug' = [bug EXCEPT ![p] = "removed"]
           /\ stack' = [stack EXCEPT ![t] = <<CloseFrame(p, flags[p]), g>> \o Tail(@)]
  <2> PICK f : f = CloseFrame(p, flags[p])
    OBVIOUS
  <2>1. f \in FrameSet /\ f.at = "find" /\ f.of = p
    <3>1. PICK w \in Word : w = flags[p]
      BY <1>1 DEF Sound, Types
    <3>2. p \in Streams
      BY <1>1
    <3>3. /\ CloseFrame(p, w) \in FrameSet
          /\ CloseFrame(p, w).at = "find" /\ CloseFrame(p, w).of = p
      BY <3>2, CloseFrameIs
    <3> QED BY <3>1, <3>3
  <2>2. Stacks' /\ Changed(t, {Top(t)}, {f, g})
    BY <1>1, <1>2, <1>7, <2>1, NestIs DEF Sound
  <2>3. bug'[p] = "removed" /\ \A q \in Streams \ {p} : bug'[q] = bug[q]
    BY <1>1, <1>5, <1>7
  <2>4. Grows(t, {Top(t)}, {f, g})
    BY <1>2, <1>3, <1>7, <2>1, <2>2, <2>3 DEF Grows, Audio
  <2>5. Detached(p)'
    BY <1>2, <1>4, <2>1, <2>2, <2>3 DEF Detached, Changed, Audio, Threads
  <2>6. FrameOk(t, f)' /\ FrameOk(t, g)'
    BY <1>1, <1>2, <1>3, <2>1, <2>5 DEF FrameOk, Cleaning, Audio
  <2>7. Frames'
    BY <2>2, <2>4, <2>6, FramesKept DEF Sound, Core
  <2>8. ASSUME NEW q \in Streams \ {p} PROVE Stage(q)' /\ Kept(q)'
    <3>1. Aside(q, {Top(t)}, {f, g})
      BY <1>3, <2>3 DEF Aside
    <3> QED BY <2>4, <3>1, AsideStays DEF Sound, Core
  <2>9. Stage(p)'
    <3>1. event'[p] = "ended" => \A h \in All(stack'[p]) : h.at # "binary"
      BY <1>1, <1>3, <1>5, <2>4, EndedStays
    <3> QED BY <1>1, <1>3, <1>5, <2>3, <3>1 DEF Stage, Starting, Unmade
  <2>10. Kept(p)'
    <3>1. Cleaned(p)'
      BY <1>2, <2>2 DEF Cleaned, Changed, Cleaning
    <3>2. Quiet(p) => Quiet(p)'
      BY <1>1, <2>4, QuietStays
    <3> QED BY <1>1, <1>3, <1>5, <3>1, <3>2 DEF Kept
  <2>11. Stages' /\ AllKept'
    BY <2>8, <2>9, <2>10 DEF Stages, AllKept
  <2> QED BY <2>2, <2>7, <2>11 DEF Core
<1> QED BY <1>6, <1>7 DEF Remove

\* What is freed is freed when both threads are done with it.
LEMMA DestroyKeeps ==
    ASSUME Sound, NEW t \in Threads, Destroy(t)
    PROVE  Stacks' /\ Core'
<1> PICK p : p = Top(t).of
  OBVIOUS
<1>1. /\ ~Idle(t) /\ Top(t) \in FrameSet /\ Top(t).at = "destroy" /\ FrameOk(t, Top(t))
      /\ p \in Streams /\ start[p] = "done" /\ flags[p].cleaning
  BY TopOk DEF Destroy, Sound, Core, FrameOk, Cleaning
<1>2. Stacks' /\ Changed(t, {Top(t)}, {})
  BY <1>1, ReturnIs DEF Destroy, Sound
<1>3. /\ start' = start /\ private' = private /\ bug' = bug /\ buffer' = buffer
      /\ flags' = flags /\ cleaned' = cleaned /\ event' = event /\ gone' = gone
      /\ streamer' = streamer /\ stray' = stray
      /\ mutexes' = [mutexes EXCEPT ![p] = "gone"]
  BY DEF Destroy, startVars, connVars, callVars, ghosts
<1>4. mutexes'[p] = "gone" /\ \A q \in Streams \ {p} : mutexes'[q] = mutexes[q]
  BY <1>1, <1>3 DEF Sound, Types
<1>5. Stage(p) /\ Kept(p)
  BY <1>1 DEF Sound, Core, Stages, AllKept
<1>6. Grows(t, {Top(t)}, {})
  BY <1>2, <1>3 DEF Grows
<1>7. Frames'
  BY <1>2, <1>6, FramesKept DEF Sound, Core
<1>8. ASSUME NEW q \in Streams \ {p} PROVE Stage(q)' /\ Kept(q)'
  <2>1. Aside(q, {Top(t)}, {})
    BY <1>3, <1>4 DEF Aside
  <2> QED BY <1>6, <2>1, AsideStays DEF Sound, Core
<1>9. Stage(p)'
  <2>1. event'[p] = "ended" => \A h \in All(stack'[p]) : h.at # "binary"
    BY <1>1, <1>3, <1>5, <1>6, EndedStays
  <2> QED BY <1>1, <1>3, <1>4, <1>5, <2>1 DEF Stage, Starting, Unmade
<1>10. ASSUME p \notin stray PROVE Quiet(p)
  <2>1. Detached(p) /\ cleaned[p] /\ (event[p] = "ended" \/ t = p)
    BY <1>1, <1>10 DEF FrameOk, Cleaning
  <2>2. \A f \in All(stack[p]) : f.at # "binary"
    <3>1. CASE event[p] = "ended"
      BY <1>5, <3>1 DEF Stage
    <3>2. CASE t = p
      BY <1>1, <3>2, TopOk DEF Destroy, Sound, Core
    <3> QED BY <2>1, <3>1, <3>2
  <2> QED BY <2>1, <2>2 DEF Quiet
<1>11. Kept(p)'
  BY <1>1, <1>3, <1>4, <1>5, <1>6, <1>10, QuietStays DEF Kept
<1>12. Stages' /\ AllKept'
  BY <1>8, <1>9, <1>11 DEF Stages, AllKept
<1> QED BY <1>2, <1>7, <1>12 DEF Core

-----------------------------------------------------------------------------
(* The start command, and what FreeSWITCH does to a call that ends.        *)

\* A bug that is taken out on the call's own thread, which is idle: its CLOSE callback
\* looks for the stream.
LEMMA TakeOutKeeps ==
    ASSUME Sound, NEW p \in Streams, Prune(p) \/ CloseBug(p)
    PROVE  Stacks' /\ Core'
<1> PICK f : f = CloseFrame(p, flags[p])
  OBVIOUS
<1>1. f \in FrameSet /\ f.at = "find" /\ f.of = p
  <2>1. flags[p] \in Word
    BY DEF Sound, Types
  <2> QED BY <2>1, CloseFrameIs
<1>2. /\ start' = start /\ private' = private /\ mutexes' = mutexes /\ buffer' = buffer
      /\ flags' = flags /\ cleaned' = cleaned /\ event' = event /\ gone' = gone
      /\ streamer' = streamer /\ stray' = stray
      /\ bug[p] = "attached" /\ bug' = [bug EXCEPT ![p] = "removed"]
      /\ Idle(Media) /\ Call(Media, f) /\ Media \in Threads
  BY DEF Prune, CloseBug, MediaIdle, pvtVars, connVars, callVars, ghosts, Threads
<1>3. /\ Stacks' /\ Changed(Media, {}, {f}) /\ All(stack'[Media]) = {f}
  BY <1>1, <1>2, CallIs DEF Sound
<1>4. bug'[p] = "removed" /\ \A q \in Streams \ {p} : bug'[q] = bug[q]
  BY <1>2 DEF Sound, Types
<1>5. Grows(Media, {}, {f})
  BY <1>1, <1>2, <1>3, <1>4 DEF Grows, Audio
<1>6. Detached(p)'
  BY <1>1, <1>3, <1>4 DEF Detached, Audio
<1>7. FrameOk(Media, f)'
  BY <1>1, <1>6 DEF FrameOk, Cleaning, Audio
<1>8. Frames'
  BY <1>2, <1>3, <1>5, <1>7, FramesKept DEF Sound, Core
<1>9. ASSUME NEW q \in Streams \ {p} PROVE Stage(q)' /\ Kept(q)'
  <2>1. Aside(q, {}, {f})
    BY <1>2, <1>4 DEF Aside
  <2> QED BY <1>2, <1>5, <2>1, AsideStays DEF Sound, Core
<1>10. Stage(p) /\ Kept(p)
  BY DEF Sound, Core, Stages, AllKept
<1>11. Stage(p)'
  <2>1. event'[p] = "ended" => \A h \in All(stack'[p]) : h.at # "binary"
    BY <1>2, <1>5, <1>10, EndedStays
  <2> QED BY <1>2, <1>4, <1>10, <2>1 DEF Stage, Starting, Unmade
<1>12. Kept(p)'
  <2>1. Sought(p)'
    BY <1>1, <1>2, <1>3 DEF Sought, Seeking
  <2>2. Quiet(p) => Quiet(p)'
    BY <1>2, <1>5, QuietStays
  <2>3. Cleaned(p) => Cleaned(p)'
    BY <1>3 DEF Cleaned, Changed
  <2> QED BY <1>2, <1>10, <2>1, <2>2, <2>3 DEF Kept
<1>13. Stages' /\ AllKept'
  BY <1>9, <1>11, <1>12 DEF Stages, AllKept
<1> QED BY <1>3, <1>8, <1>13 DEF Core

\* The session is freed when no start and no clean-up of it is under way.
LEMMA FreeSessionKeeps ==
    ASSUME Sound, FreeSession
    PROVE  Stacks' /\ Core'
<1>1. /\ start' = start /\ private' = private /\ bug' = bug /\ buffer' = buffer
      /\ flags' = flags /\ cleaned' = cleaned /\ event' = event /\ stack' = stack
      /\ streamer' = streamer /\ stray' = stray /\ gone' = TRUE /\ Media \in Threads
      /\ \A p \in Streams : mutexes'[p] = "gone" /\ bug[p] # "attached" /\ ~Starting(p)
      /\ \A t \in Threads : ~Located(t)
  BY DEF FreeSession, InUse, startVars, connVars, ghosts, Threads
<1>2. ASSUME NEW t \in Threads, NEW f \in All(stack[t]) PROVE f.at = "binary"
  BY <1>1 DEF Located, All
<1>3. Stacks' /\ Changed(Media, {}, {})
  BY <1>1, NothingIs DEF Sound
<1>4. Grows(Media, {}, {})
  BY <1>1, <1>3 DEF Grows
<1>5. Frames'
  BY <1>1, <1>3, <1>4, FramesKept DEF Sound, Core
<1>6. ASSUME NEW p \in Streams PROVE Stage(p)' /\ Kept(p)'
  <2>1. Stage(p) /\ Kept(p) /\ start[p] \in Places
    BY DEF Sound, Core, Stages, AllKept, Types
  <2>2. start[p] \in {"none", "done", "refused", "failed"} /\ ~Starting(p)
    BY <1>1 DEF Starting
  <2>3. event'[p] = "ended" => \A h \in All(stack'[p]) : h.at # "binary"
    BY <1>1, <1>4, <2>1, EndedStays
  <2>4. Stage(p)'
    BY <1>1, <2>1, <2>2, <2>3 DEF Stage, Starting, Unmade
  <2>5. ~Sought(p) /\ ~Cleaned(p)
    BY <1>2 DEF Sought, Cleaned, Seeking, Cleaning
  <2>6. bug[p] \in {"none", "removed"}
    BY <1>1 DEF Sound, Types
  <2>7. p \notin stray => start[p] # "failed" /\ (start[p] = "done" => private # p /\ Quiet(p))
    BY <2>1, <2>5, <2>6 DEF Stage, Kept
  <2>8. Quiet(p) => Quiet(p)'
    BY <1>1, <1>4, QuietStays
  <2> QED BY <1>1, <2>2, <2>4, <2>7, <2>8 DEF Kept
<1>7. Stages' /\ AllKept'
  BY <1>6 DEF Stages, AllKept
<1> QED BY <1>3, <1>5, <1>7 DEF Core

\* A step of a start command: it answers for its own stream.
LEMMA StartKeeps ==
    ASSUME Sound, NEW p \in Streams, UNCHANGED stack, Grows(Media, {}, {}),
           \A q \in Streams \ {p} : Aside(q, {}, {}),
           (event'[p] = "ended" => \A f \in All(stack'[p]) : f.at # "binary") => Stage(p)',
           event'[p] = event[p] \/ event'[p] # "ended", Kept(p)'
    PROVE  Stacks' /\ Core'
<1>1. Media \in Threads
  BY DEF Threads
<1>2. Stacks'
  BY <1>1, NothingIs DEF Sound
<1>3. Frames'
  BY <1>1, <1>2, FramesKept DEF Sound, Core
<1>4. ASSUME NEW q \in Streams \ {p} PROVE Stage(q)' /\ Kept(q)'
  BY <1>1, AsideStays DEF Sound, Core
<1>5. Stage(p)'
  <2>1. Stage(p)
    BY DEF Sound, Core, Stages
  <2> QED BY <1>1, <2>1, EndedStays
<1>6. Stages' /\ AllKept'
  BY <1>4, <1>5 DEF Stages, AllKept
<1> QED BY <1>2, <1>3, <1>6 DEF Core

\* A start goes ahead when the channel names no stream.
LEMMA CheckPrivateKeeps ==
    ASSUME Sound, NEW p \in Streams, CheckPrivate(p)
    PROVE  Stacks' /\ Core'
<1>1. /\ private' = private /\ bug' = bug /\ buffer' = buffer /\ mutexes' = mutexes
      /\ flags' = flags /\ cleaned' = cleaned /\ event' = event /\ stack' = stack
      /\ streamer' = streamer /\ stray' = stray /\ gone' = gone /\ ~gone /\ start[p] = "none"
  BY DEF CheckPrivate, From, pvtVars, connVars, callVars, ghosts
<1>2. PICK b \in {"checked", "refused"} : start' = [start EXCEPT ![p] = b]
  BY DEF CheckPrivate, From
<1>3. start'[p] = b /\ \A q \in Streams \ {p} : start'[q] = start[q]
  BY <1>2 DEF Sound, Types
<1>4. Changed(Media, {}, {})
  BY <1>1, NothingIs DEF Sound, Threads
<1>5. Grows(Media, {}, {})
  BY <1>1, <1>3, <1>4 DEF Grows, Unmade
<1>6. \A q \in Streams \ {p} : Aside(q, {}, {})
  BY <1>1, <1>3 DEF Aside
<1>7. Stage(p) /\ Kept(p)
  BY DEF Sound, Core, Stages, AllKept
<1>8. (event'[p] = "ended" => \A f \in All(stack'[p]) : f.at # "binary") => Stage(p)'
  BY <1>1, <1>3, <1>7 DEF Stage, Starting, Unmade
<1>9. Kept(p)'
  BY <1>1, <1>3, <1>7 DEF Kept, Stage, Unmade
<1> QED BY <1>1, <1>5, <1>6, <1>8, <1>9, StartKeeps

\* From here the event thread runs.
LEMMA ConnectKeeps ==
    ASSUME Sound, NEW p \in Streams, Connect(p)
    PROVE  Stacks' /\ Core'
<1>1. /\ private' = private /\ bug' = bug /\ buffer' = buffer /\ mutexes' = mutexes
      /\ flags' = flags /\ cleaned' = cleaned /\ stack' = stack
      /\ streamer' = streamer /\ stray' = stray /\ gone' = gone /\ start[p] = "checked"
      /\ start' = [start EXCEPT ![p] = "connected"] /\ event' = [event EXCEPT ![p] = "running"]
  BY DEF Connect, From, pvtVars, callVars, ghosts
<1>2. start'[p] = "connected" /\ event'[p] = "running"
      /\ \A q \in Streams \ {p} : start'[q] = start[q] /\ event'[q] = event[q]
  BY <1>1 DEF Sound, Types
<1>4. Changed(Media, {}, {})
  BY <1>1, NothingIs DEF Sound, Threads
<1>7. Stage(p) /\ Kept(p)
  BY DEF Sound, Core, Stages, AllKept
<1>5. Grows(Media, {}, {})
  BY <1>1, <1>2, <1>4, <1>7 DEF Grows, Unmade, Stage
<1>6. \A q \in Streams \ {p} : Aside(q, {}, {})
  BY <1>1, <1>2 DEF Aside
<1>8. (event'[p] = "ended" => \A f \in All(stack'[p]) : f.at # "binary") => Stage(p)'
  BY <1>1, <1>2, <1>7 DEF Stage, Starting, Unmade
<1>9. Kept(p)'
  BY <1>1, <1>2, <1>7 DEF Kept, Stage, Starting, Unmade
<1> QED BY <1>1, <1>2, <1>5, <1>6, <1>8, <1>9, StartKeeps

\* The mutexes are there before the playback buffer is.
LEMMA InitMutexesKeeps ==
    ASSUME Sound, NEW p \in Streams, InitMutexes(p)
    PROVE  Stacks' /\ Core'
<1>1. /\ private' = private /\ bug' = bug /\ buffer' = buffer /\ flags' = flags
      /\ cleaned' = cleaned /\ event' = event /\ stack' = stack /\ stray' = stray
      /\ gone' = gone
      /\ start[p] = "connected" /\ start' = [start EXCEPT ![p] = "mutexes"]
      /\ streamer' = [streamer EXCEPT ![p] = TRUE]
      /\ mutexes' = [mutexes EXCEPT ![p] = "live"]
  BY DEF InitMutexes, From, pvtVars, connVars, callVars, ghosts
<1>3. /\ start'[p] = "mutexes" /\ streamer'[p] /\ mutexes'[p] = "live"
      /\ \A q \in Streams \ {p} : start'[q] = start[q]
            /\ streamer'[q] = streamer[q] /\ mutexes'[q] = mutexes[q]
  BY <1>1 DEF Sound, Types
<1>4. Changed(Media, {}, {})
  BY <1>1, NothingIs DEF Sound, Threads
<1>5. Stage(p) /\ Kept(p)
  BY DEF Sound, Core, Stages, AllKept
<1>6. Grows(Media, {}, {})
  BY <1>1, <1>3, <1>4, <1>5 DEF Grows, Unmade, Stage
<1>7. \A q \in Streams \ {p} : Aside(q, {}, {})
  BY <1>1, <1>3 DEF Aside
<1>8. (event'[p] = "ended" => \A f \in All(stack'[p]) : f.at # "binary") => Stage(p)'
  BY <1>1, <1>3, <1>5 DEF Stage, Starting, Unmade
<1>9. Kept(p)'
  BY <1>1, <1>3, <1>5 DEF Kept, Stage, Starting, Unmade
<1> QED BY <1>1, <1>6, <1>7, <1>8, <1>9, StartKeeps

\* The playback buffer is what onBinary asks for.
LEMMA InitBuffersKeeps ==
    ASSUME Sound, NEW p \in Streams, InitBuffers(p)
    PROVE  Stacks' /\ Core'
<1>1. /\ private' = private /\ bug' = bug /\ mutexes' = mutexes /\ flags' = flags
      /\ cleaned' = cleaned /\ event' = event /\ stack' = stack /\ streamer' = streamer
      /\ stray' = stray /\ gone' = gone
      /\ start[p] = "mutexes" /\ start' = [start EXCEPT ![p] = "buffers"]
      /\ buffer' = [buffer EXCEPT ![p] = TRUE]
  BY DEF InitBuffers, From, pvtVars, connVars, callVars, ghosts
<1>3. /\ start'[p] = "buffers" /\ buffer'[p]
      /\ \A q \in Streams \ {p} : start'[q] = start[q] /\ buffer'[q] = buffer[q]
  BY <1>1 DEF Sound, Types
<1>4. Changed(Media, {}, {})
  BY <1>1, NothingIs DEF Sound, Threads
<1>5. Stage(p) /\ Kept(p)
  BY DEF Sound, Core, Stages, AllKept
<1>6. Grows(Media, {}, {})
  BY <1>1, <1>3, <1>4, <1>5 DEF Grows, Unmade, Stage
<1>7. \A q \in Streams \ {p} : Aside(q, {}, {})
  BY <1>1, <1>3 DEF Aside
<1>8. (event'[p] = "ended" => \A f \in All(stack'[p]) : f.at # "binary") => Stage(p)'
  BY <1>1, <1>3, <1>5 DEF Stage, Starting, Unmade
<1>9. Kept(p)'
  BY <1>1, <1>3, <1>5 DEF Kept, Stage, Starting, Unmade
<1> QED BY <1>1, <1>6, <1>7, <1>8, <1>9, StartKeeps

\* A start that fails cuts its own connection off.
LEMMA InitFailsKeeps ==
    ASSUME Sound, NEW p \in Streams, InitFails(p)
    PROVE  Stacks' /\ Core'
<1>1. /\ private' = private /\ bug' = bug /\ flags' = flags /\ cleaned' = cleaned
      /\ event' = event /\ stack' = stack /\ streamer' = streamer /\ gone' = gone
      /\ start[p] = "mutexes" /\ start' = [start EXCEPT ![p] = "failed"]
      /\ (\E b \in BOOLEAN : buffer' = [buffer EXCEPT ![p] = b])
      /\ mutexes' = [mutexes EXCEPT ![p] = "gone"] /\ stray' = stray \union {p}
  BY DEF InitFails, From, pvtVars, connVars, callVars, ghosts
<1>3. /\ start'[p] = "failed" /\ p \in stray' /\ mutexes'[p] = "gone"
      /\ \A q \in Streams \ {p} : start'[q] = start[q]
            /\ buffer'[q] = buffer[q] /\ mutexes'[q] = mutexes[q]
  BY <1>1 DEF Sound, Types
<1>4. Changed(Media, {}, {})
  BY <1>1, NothingIs DEF Sound, Threads
<1>5. Stage(p) /\ Kept(p)
  BY DEF Sound, Core, Stages, AllKept
<1>6. Grows(Media, {}, {})
  BY <1>1, <1>3, <1>4, <1>5 DEF Grows, Unmade, Stage
<1>7. \A q \in Streams \ {p} : Aside(q, {}, {})
  BY <1>1, <1>3 DEF Aside
<1>8. (event'[p] = "ended" => \A f \in All(stack'[p]) : f.at # "binary") => Stage(p)'
  BY <1>1, <1>3, <1>5 DEF Stage, Starting, Unmade
<1>9. Kept(p)'
  BY <1>1, <1>3, <1>5 DEF Kept, Stage, Starting, Unmade
<1> QED BY <1>1, <1>6, <1>7, <1>8, <1>9, StartKeeps

\* The bug is attached when all it needs is there.
LEMMA AddBugKeeps ==
    ASSUME Sound, NEW p \in Streams, AddBug(p)
    PROVE  Stacks' /\ Core'
<1>1. /\ private' = private /\ buffer' = buffer /\ mutexes' = mutexes /\ flags' = flags
      /\ cleaned' = cleaned /\ event' = event /\ stack' = stack /\ streamer' = streamer
      /\ stray' = stray /\ gone' = gone
      /\ start[p] = "buffers" /\ start' = [start EXCEPT ![p] = "bug"]
      /\ bug' = [bug EXCEPT ![p] = "attached"]
  BY DEF AddBug, From, pvtVars, connVars, callVars, ghosts
<1>3. /\ start'[p] = "bug" /\ bug'[p] = "attached"
      /\ \A q \in Streams \ {p} : start'[q] = start[q] /\ bug'[q] = bug[q]
  BY <1>1 DEF Sound, Types
<1>4. Changed(Media, {}, {})
  BY <1>1, NothingIs DEF Sound, Threads
<1>5. Stage(p) /\ Kept(p)
  BY DEF Sound, Core, Stages, AllKept
<1>6. Grows(Media, {}, {})
  BY <1>1, <1>3, <1>4, <1>5 DEF Grows, Unmade, Stage
<1>7. \A q \in Streams \ {p} : Aside(q, {}, {})
  BY <1>1, <1>3 DEF Aside
<1>8. (event'[p] = "ended" => \A f \in All(stack'[p]) : f.at # "binary") => Stage(p)'
  BY <1>1, <1>3, <1>5 DEF Stage, Starting, Unmade
<1>9. Kept(p)'
  BY <1>1, <1>3, <1>5 DEF Kept, Stage, Starting, Unmade
<1> QED BY <1>1, <1>6, <1>7, <1>8, <1>9, StartKeeps

\* A start that gets no bug leaves its connection to itself.
LEMMA AddBugFailsKeeps ==
    ASSUME Sound, NEW p \in Streams, AddBugFails(p)
    PROVE  Stacks' /\ Core'
<1>1. /\ private' = private /\ bug' = bug /\ buffer' = buffer /\ mutexes' = mutexes
      /\ flags' = flags /\ cleaned' = cleaned /\ event' = event /\ stack' = stack
      /\ streamer' = streamer /\ gone' = gone
      /\ start[p] = "buffers" /\ start' = [start EXCEPT ![p] = "failed"]
      /\ stray' = stray \union {p}
  BY DEF AddBugFails, From, pvtVars, connVars, callVars, ghosts
<1>3. /\ start'[p] = "failed" /\ p \in stray'
      /\ \A q \in Streams \ {p} : start'[q] = start[q]
  BY <1>1 DEF Sound, Types
<1>4. Changed(Media, {}, {})
  BY <1>1, NothingIs DEF Sound, Threads
<1>5. Stage(p) /\ Kept(p)
  BY DEF Sound, Core, Stages, AllKept
<1>6. Grows(Media, {}, {})
  BY <1>1, <1>3, <1>4, <1>5 DEF Grows, Unmade, Stage
<1>7. \A q \in Streams \ {p} : Aside(q, {}, {})
  BY <1>1, <1>3 DEF Aside
<1>8. (event'[p] = "ended" => \A f \in All(stack'[p]) : f.at # "binary") => Stage(p)'
  BY <1>1, <1>3, <1>5 DEF Stage, Starting, Unmade
<1>9. Kept(p)'
  BY <1>1, <1>3, <1>5 DEF Kept, Stage, Starting, Unmade
<1> QED BY <1>1, <1>6, <1>7, <1>8, <1>9, StartKeeps

\* The stream the variable named before is cut off, and the new one if its bug is out.
LEMMA SetPrivateKeeps ==
    ASSUME Sound, NEW p \in Streams, SetPrivate(p)
    PROVE  Stacks' /\ Core'
<1>1. /\ bug' = bug /\ buffer' = buffer /\ mutexes' = mutexes /\ flags' = flags
      /\ cleaned' = cleaned /\ event' = event /\ stack' = stack /\ streamer' = streamer
      /\ gone' = gone
      /\ start[p] = "bug" /\ start' = [start EXCEPT ![p] = "done"]
      /\ private' = p
      /\ stray' = stray \union ({private} \ {None}) \union (IF bug[p] = "removed" THEN {p} ELSE {})
  BY DEF SetPrivate, From, pvtVars, connVars, callVars, ghosts
<1>3. /\ start'[p] = "done"
      /\ \A q \in Streams \ {p} : start'[q] = start[q]
  BY <1>1 DEF Sound, Types
<1>4. Changed(Media, {}, {})
  BY <1>1, NothingIs DEF Sound, Threads
<1>5. Stage(p) /\ Kept(p)
  BY DEF Sound, Core, Stages, AllKept
<1>6. Grows(Media, {}, {})
  BY <1>1, <1>3, <1>4, <1>5 DEF Grows, Unmade, Stage
<1>7. \A q \in Streams \ {p} : Aside(q, {}, {})
  BY <1>1, <1>3, NoneAssumption DEF Aside
<1>8. (event'[p] = "ended" => \A f \in All(stack'[p]) : f.at # "binary") => Stage(p)'
  BY <1>1, <1>3, <1>5, NoneAssumption DEF Stage, Starting, Unmade
<1>9. Kept(p)'
  BY <1>1, <1>3, <1>5, NoneAssumption DEF Kept, Stage, Starting, Unmade
<1> QED BY <1>1, <1>6, <1>7, <1>8, <1>9, StartKeeps

-----------------------------------------------------------------------------
(* Types, the crash and the theorem.                                       *)

\* The step of a start command.
LEMMA StartTypes ==
    ASSUME Sound, NEW p \in Streams, StartStep(p)
    PROVE  Types'
<1>1. Types
  BY DEF Sound
<1>2. CASE CheckPrivate(p) \/ Connect(p) \/ InitMutexes(p) \/ InitBuffers(p)
  BY <1>1, <1>2 DEF Types, CheckPrivate, Connect, InitMutexes, InitBuffers, From, Places,
     pvtVars, connVars, callVars, ghosts
<1>3. CASE InitFails(p) \/ AddBug(p) \/ AddBugFails(p)
  BY <1>1, <1>3 DEF Types, InitFails, AddBug, AddBugFails, From, Places,
     pvtVars, connVars, callVars, ghosts
<1>4. CASE SetPrivate(p)
  BY <1>1, <1>4 DEF Types, SetPrivate, From, Places, pvtVars, connVars, callVars, ghosts
<1> QED BY <1>2, <1>3, <1>4 DEF StartStep

\* The step of a clean-up.
LEMMA CleanupTypes ==
    ASSUME Sound, NEW t \in Threads, CleanupStep(t)
    PROVE  Types'
<1>1. Types
  BY DEF Sound
<1> PICK f : f = Top(t)
  OBVIOUS
<1>2. ASSUME NEW at, At(t, at) PROVE f \in FrameSet /\ (at # "find" => f.of \in Streams)
  BY <1>2, TopOk DEF Sound, Core
<1>3. CASE Find(t)
  BY <1>1, <1>3 DEF Types, Find, startVars, pvtVars, connVars, callVars
<1>4. CASE LockStream(t)
  BY <1>1, <1>4 DEF Types, LockStream, startVars, connVars, callVars
<1>5. CASE Mark(t)
  <2>1. f.of \in Streams /\ f.word \in Word
    BY <1>2, <1>5 DEF Mark, FrameSet
  <2>2. [f.word EXCEPT !.cleaning = TRUE] \in Word
    BY <2>1 DEF Word
  <2>3. /\ flags' = [flags EXCEPT ![f.of] = [f.word EXCEPT !.cleaning = TRUE]]
        /\ torn' = (torn \/ flags[f.of] # f.word)
        /\ stray' = stray \union ({private} \ {None, f.of}) /\ private' = None
        /\ streamer' = [streamer EXCEPT ![f.of] = FALSE]
        /\ start' = start /\ bug' = bug /\ mutexes' = mutexes /\ buffer' = buffer
        /\ cleaned' = cleaned /\ event' = event
    BY <1>5 DEF Mark, Store, connVars
  <2>4. torn' \in BOOLEAN
    BY <2>3
  <2>5. flags' \in [Streams -> Word] /\ streamer' \in [Streams -> BOOLEAN]
    BY <1>1, <2>1, <2>2, <2>3 DEF Types
  <2> QED BY <1>1, <2>3, <2>4, <2>5 DEF Types
<1>6. CASE Remove(t)
  <2>1. f.of \in Streams
    BY <1>2, <1>6 DEF Remove
  <2>2. bug' = bug \/ bug' = [bug EXCEPT ![f.of] = "removed"]
    BY <1>6 DEF Remove
  <2> QED BY <1>1, <1>6, <2>1, <2>2 DEF Types, Remove, pvtVars, connVars, callVars, ghosts
<1>7. CASE Release(t)
  <2>1. cleaned' = cleaned \/ cleaned' = [cleaned EXCEPT ![f.of] = TRUE]
    BY <1>7 DEF Release
  <2> QED BY <1>1, <1>7, <2>1 DEF Types, Release, startVars, pvtVars, callVars, ghosts
<1>8. CASE Disconnect(t) \/ Join(t)
  BY <1>1, <1>8 DEF Types, Disconnect, Join, startVars, pvtVars, connVars, callVars, ghosts
<1>9. CASE Destroy(t)
  BY <1>1, <1>9 DEF Types, Destroy, startVars, connVars, callVars, ghosts
<1> QED BY <1>3, <1>4, <1>5, <1>6, <1>7, <1>8, <1>9 DEF CleanupStep

\* The step of a command, of an event thread or of the media thread.
LEMMA OtherTypes ==
    ASSUME Sound,
           \/ \E c \in Commands :
                Stop(c) \/ SendText(c) \/ LockForText(c) \/ Pause(c) \/ StorePaused(c)
           \/ \E p \in Streams : EventStep(p) \/ Capture(p)
           \/ Hangup \/ MediaStep
    PROVE  Types'
<1>1. Types
  BY DEF Sound
<1>2. ASSUME NEW c \in Commands, Stop(c) \/ SendText(c) \/ LockForText(c) \/ Pause(c)
      PROVE  Types'
  BY <1>1, <1>2 DEF Types, Stop, SendText, LockForText, Pause, startVars, pvtVars, connVars,
     callVars, ghosts
<1>3. ASSUME NEW c \in Commands, StorePaused(c) PROVE Types'
  <2> PICK f : f = Top(c)
    OBVIOUS
  <2>1. f.of \in Streams /\ f.word \in Word
    BY <1>3, TopOk DEF StorePaused, Sound, Core, FrameSet, Threads
  <2>2. PICK b \in BOOLEAN : /\ flags' = [flags EXCEPT ![f.of] = [f.word EXCEPT !.paused = b]]
                             /\ torn' = (torn \/ flags[f.of] # f.word)
    BY <1>3 DEF StorePaused, Store
  <2>3. [f.word EXCEPT !.paused = b] \in Word
    BY <2>1 DEF Word
  <2>4. flags' \in [Streams -> Word]
    BY <1>1, <2>1, <2>2, <2>3 DEF Types
  <2>5. torn' \in BOOLEAN
    BY <2>2
  <2>6. /\ start' = start /\ private' = private /\ bug' = bug /\ mutexes' = mutexes
        /\ buffer' = buffer /\ streamer' = streamer /\ cleaned' = cleaned /\ event' = event
        /\ stray' = stray
    BY <1>3 DEF StorePaused, startVars, connVars, callVars
  <2> QED BY <1>1, <2>4, <2>5, <2>6 DEF Types
<1>4. ASSUME NEW p \in Streams,
             \/ Open(p) \/ OnOpen(p) \/ OnBinary(p) \/ OnClear(p) \/ Binary(p) \/ Fail(p)
             \/ Dropped(p) \/ EventEnds(p) \/ Capture(p)
      PROVE  Types'
  BY <1>1, <1>4 DEF Types, Open, OnOpen, OnBinary, OnClear, Binary, LockBriefly, Fail, Dropped,
     EventEnds, Capture, startVars, pvtVars, connVars, callVars, ghosts
<1>5. ASSUME NEW p \in Streams, RequestClose(p) PROVE Types'
  <2> PICK f : f = Top(p)
    OBVIOUS
  <2>1. f.of \in Streams /\ f.word \in Word
    BY <1>5, TopOk DEF RequestClose, Sound, Core, FrameSet, Threads
  <2>2. /\ flags' = [flags EXCEPT ![f.of] = [f.word EXCEPT !.closing = TRUE]]
        /\ torn' = (torn \/ flags[f.of] # f.word) /\ stray' = stray \union ({f.of} \ {p})
    BY <1>5 DEF RequestClose, Store
  <2>3. [f.word EXCEPT !.closing = TRUE] \in Word
    BY <2>1 DEF Word
  <2>4. flags' \in [Streams -> Word]
    BY <1>1, <2>1, <2>2, <2>3 DEF Types
  <2>5. torn' \in BOOLEAN /\ stray' \subseteq Streams
    BY <1>1, <2>1, <2>2 DEF Types
  <2>6. /\ start' = start /\ private' = private /\ bug' = bug /\ mutexes' = mutexes
        /\ buffer' = buffer /\ streamer' = streamer /\ cleaned' = cleaned /\ event' = event
    BY <1>5 DEF RequestClose, startVars, connVars, callVars
  <2> QED BY <1>1, <2>4, <2>5, <2>6 DEF Types
<1>6. CASE Hangup \/ StreamFrame \/ PlaybackFrame \/ FreeSession
  BY <1>1, <1>6 DEF Types, Hangup, StreamFrame, PlaybackFrame, LockBriefly, FreeSession, startVars,
     pvtVars, connVars, callVars, ghosts
<1>7. ASSUME NEW p \in Streams, Prune(p) \/ CloseBug(p) PROVE Types'
  BY <1>1, <1>7 DEF Types, Prune, CloseBug, pvtVars, connVars, callVars, ghosts
<1> QED BY <1>2, <1>3, <1>4, <1>5, <1>6, <1>7 DEF EventStep, MediaStep

\* Nothing is there, and nobody is inside of anything.
LEMMA InitSound == Init => Sound
<1> SUFFICES ASSUME Init PROVE Sound
  OBVIOUS
<1>1. Types
  BY DEF Init, Types, Places, Clear, Word
<1>2. \A t \in Threads : stack[t] = <<>> /\ All(stack[t]) = {} /\ Below(stack[t]) = {}
  BY EmptyIs DEF Init
<1>3. Stacks
  <2>1. stack \in [Threads -> Seq(FrameSet)]
    BY EmptyIs DEF Init
  <2> QED BY <1>2, <2>1 DEF Stacks
<1>4. Frames
  BY <1>2 DEF Frames
<1>5. ASSUME NEW p \in Streams PROVE Stage(p) /\ Kept(p)
  <2>1. p \in Threads
    BY DEF Threads
  <2> QED BY <1>2, <2>1, NoneAssumption DEF Init, Stage, Kept, Starting, Unmade, Clear
<1> QED BY <1>1, <1>3, <1>4, <1>5 DEF Sound, Core, Stages, AllKept

\* After a crash there are no steps.
LEMMA CrashEnds == Next => crash = None
BY ZenonT(60)
   DEF Next, StartStep, EventStep, Capture, CleanupStep, Stop, SendText, LockForText, Pause,
   StorePaused, Hangup, MediaStep, CheckPrivate, Connect, InitMutexes, InitBuffers, InitFails,
   AddBug, AddBugFails, SetPrivate, From, Open, OnOpen, OnBinary, OnClear, Binary, Fail,
   RequestClose, Dropped, EventEnds, Receives, Ready, At, Find, LockStream, Mark, Remove, Release,
   Disconnect, Join, Destroy, Prune, CloseBug, StreamFrame, PlaybackFrame, FreeSession, MediaIdle

\* A run without a crash and a torn word stays sound.
LEMMA NextSound ==
    ASSUME Sound, Next, crash' = None, ~torn'
    PROVE  Sound'
<1>1. Types'
  BY StartTypes, CleanupTypes, OtherTypes DEF Next
<1>2. Stacks' /\ Core'
  <2>1. ASSUME NEW p \in Streams, StartStep(p) PROVE Stacks' /\ Core'
    BY <2>1, CheckPrivateKeeps, ConnectKeeps, InitMutexesKeeps, InitBuffersKeeps, InitFailsKeeps,
       AddBugKeeps, AddBugFailsKeeps, SetPrivateKeeps DEF StartStep
  <2>2. ASSUME NEW p \in Streams, EventStep(p) PROVE Stacks' /\ Core'
    BY <2>2, OpenKeeps, OnOpenKeeps, OnBinaryKeeps, OnClearKeeps, BinaryKeeps, FailKeeps,
       RequestCloseKeeps, DroppedKeeps, EventEndsKeeps DEF EventStep
  <2>3. ASSUME NEW t \in Threads, CleanupStep(t) PROVE Stacks' /\ Core'
    BY <2>3, FindKeeps, LockStreamKeeps, MarkKeeps, RemoveKeeps, ReleaseKeeps, DisconnectKeeps,
       DestroyKeeps DEF CleanupStep
  <2>4. ASSUME NEW c \in Commands,
               Stop(c) \/ SendText(c) \/ LockForText(c) \/ Pause(c) \/ StorePaused(c)
        PROVE  Stacks' /\ Core'
    BY <2>4, StopKeeps, SendTextKeeps, LockForTextKeeps, PauseKeeps, StorePausedKeeps
  <2>5. CASE MediaStep
    BY <2>5, FrameStepsKeep, FreeSessionKeeps, TakeOutKeeps DEF MediaStep
  <2> QED BY <2>1, <2>2, <2>3, <2>4, <2>5, CaptureKeeps, HangupKeeps DEF Next
<1> QED BY <1>1, <1>2 DEF Sound

\* The mutexes of a stream nobody cut off are there for who runs a callback of it.
LEMMA LiveForCallback ==
    ASSUME Sound, NEW p \in Streams, p \notin stray, mutexes[p] # "live", start[p] # "connected"
    PROVE  /\ event[p] # "none" => cleaned[p]
           /\ \A t \in Threads : \A f \in All(stack[t]) : f.at \in {"binary"} \union Audio => f.of # p
<1>1. Stage(p) /\ Kept(p) /\ start[p] \in Places /\ mutexes[p] \in {"none", "live", "gone"}
  BY DEF Sound, Core, Stages, AllKept, Types
<1>2. start[p] \in {"none", "refused", "checked"} \/ (start[p] = "done" /\ mutexes[p] = "gone")
  BY <1>1 DEF Stage, Places
<1>3. event[p] # "none" => start[p] = "done" /\ Quiet(p)
  BY <1>1, <1>2 DEF Stage, Kept
<1>4. ASSUME NEW t \in Threads, NEW f \in All(stack[t]), f.at \in {"binary"} \union Audio, f.of = p
      PROVE  FALSE
  <2>1. FrameOk(t, f)
    BY DEF Sound, Core, Frames
  <2>2. start[p] = "done"
    BY <1>1, <1>2, <1>4, <2>1 DEF FrameOk, Stage, Unmade
  <2>3. Quiet(p)
    BY <1>1, <1>2, <2>2 DEF Kept
  <2> QED BY <1>4, <2>1, <2>3 DEF FrameOk, Quiet, Detached, Audio
<1> QED BY <1>3, <1>4 DEF Quiet

\* The steps that may crash.
LEMMA CrashIs ==
    ASSUME Next
    PROVE  \/ crash' = crash
           \/ \E t \in Threads : LockStream(t)
           \/ \E c \in Commands : LockForText(c)
           \/ \E p \in Streams : OnClear(p) \/ Binary(p)
           \/ StreamFrame \/ PlaybackFrame
BY DEF Next, StartStep, EventStep, Capture, CleanupStep, Stop, SendText, Pause,
   StorePaused, Hangup, MediaStep, CheckPrivate, Connect, InitMutexes, InitBuffers, InitFails,
   AddBug, AddBugFails, SetPrivate, Open, OnOpen, OnBinary, Fail,
   RequestClose, Dropped, EventEnds, Find, Mark, Remove, Release,
   Disconnect, Join, Destroy, Prune, CloseBug, FreeSession, ghosts

\* So a crash that a callback makes has one of the reasons it may have.
LEMMA CrashHasReason ==
    ASSUME Sound, Next
    PROVE  CallbackSafe'
<1> SUFFICES ASSUME crash' # None, crash'.by = "callback"
             PROVE  torn' \/ crash'.of \in stray' \/ start'[crash'.of] = "connected"
  BY DEF CallbackSafe
<1>1. CASE \E t \in Threads, p \in Streams :
             LockBriefly(t, p) /\ ~Idle(t) /\ Top(t) \in All(stack[t])
                /\ Top(t).at \in {"binary"} \union Audio /\ Top(t).of = p /\ crash = None
  <2> PICK t \in Threads, p \in Streams :
             LockBriefly(t, p) /\ ~Idle(t) /\ Top(t) \in All(stack[t])
                /\ Top(t).at \in {"binary"} \union Audio /\ Top(t).of = p /\ crash = None
    BY <1>1
  <2>1. mutexes[p] # "live" /\ crash' = [by |-> "callback", of |-> p]
    BY DEF LockBriefly, Crash
  <2>2. p \in stray \/ start[p] = "connected"
    BY <2>1, LiveForCallback
  <2> QED BY <2>1, <2>2 DEF LockBriefly, startVars
<1>2. CASE \E p \in Streams : OnClear(p)
  <2> PICK p \in Streams : OnClear(p)
    BY <1>2
  <2>1. mutexes[p] # "live" /\ crash' = [by |-> "callback", of |-> p]
    BY DEF OnClear, Crash, Receives, Ready
  <2>2. p \in stray \/ start[p] = "connected"
    BY <2>1, LiveForCallback DEF OnClear, Receives, Ready
  <2> QED BY <2>1, <2>2 DEF OnClear, startVars
<1>3. ASSUME NEW t \in Threads, LockStream(t) PROVE FALSE
  BY <1>3, CrashEnds DEF LockStream, Crash
<1>4. ASSUME NEW c \in Commands, LockForText(c) PROVE FALSE
  BY <1>4, CrashEnds DEF LockForText, Crash
<1>5. CASE crash' = crash
  BY <1>5, CrashEnds
<1>6. ASSUME NEW p \in Streams, Binary(p)
      PROVE  p \in Threads /\ LockBriefly(p, p) /\ ~Idle(p) /\ Top(p) \in All(stack[p])
             /\ Top(p).at \in {"binary"} \union Audio /\ Top(p).of = p
  <2>1. p \in Threads /\ At(p, "binary") /\ LockBriefly(p, p)
    BY <1>6 DEF Binary, Threads
  <2> QED BY <2>1, TopOk DEF FrameOk, Sound, Core
<1>7. ASSUME StreamFrame \/ PlaybackFrame
      PROVE  /\ Media \in Threads /\ Top(Media).of \in Streams
             /\ LockBriefly(Media, Top(Media).of) /\ ~Idle(Media)
             /\ Top(Media) \in All(stack[Media]) /\ Top(Media).at \in {"binary"} \union Audio
  <2>1. Media \in Threads /\ \E at \in Audio : At(Media, at) /\ LockBriefly(Media, Top(Media).of)
    BY <1>7 DEF StreamFrame, PlaybackFrame, Threads, Audio
  <2> QED BY <2>1, TopOk DEF Sound, Core, Audio
<1> QED BY <1>1, <1>2, <1>3, <1>4, <1>5, <1>6, <1>7, CrashIs, CrashEnds

\* The inductive invariant: CallbackSafe looks at a state after which there are no steps,
\* Sound at the states before it.
IInv == CallbackSafe /\ (crash = None /\ ~torn => Sound)

\* A word that was torn once stays so.
LEMMA TornStays ==
    ASSUME Next, torn
    PROVE  torn'
BY DEF Next, StartStep, EventStep, Capture, CleanupStep, Stop, SendText, LockForText, Pause,
   StorePaused, Store, Hangup, MediaStep, CheckPrivate, Connect, InitMutexes, InitBuffers,
   InitFails, AddBug, AddBugFails, SetPrivate, Open, OnOpen, OnBinary, OnClear, Binary,
   LockBriefly, Fail, RequestClose, Dropped, EventEnds, Find, LockStream, Mark, Remove, Release,
   Disconnect, Join, Destroy, Prune, CloseBug, StreamFrame, PlaybackFrame, FreeSession, ghosts

\* The audio callbacks find the mutexes of their stream: stream_session_cleanup takes the bug
\* out and joins the event thread before it destroys them, except for a stream that a failed
\* start or a race of two starts cut off and for a connection that delivers too early.
THEOREM CallbacksAreSafe == Spec => []CallbackSafe
<1>1. Init => IInv
  BY InitSound DEF Init, IInv, CallbackSafe
<1>2. IInv /\ [Next]_vars => IInv'
  <2> SUFFICES ASSUME IInv, [Next]_vars PROVE IInv'
    OBVIOUS
  <2>1. CASE Next
    <3>1. crash = None
      BY <2>1, CrashEnds
    <3>2. CASE torn
      BY <2>1, <3>2, TornStays DEF IInv, CallbackSafe
    <3>3. CASE ~torn
      <4>1. Sound
        BY <3>1, <3>3 DEF IInv
      <4> QED BY <2>1, <4>1, CrashHasReason, NextSound DEF IInv
    <3> QED BY <3>2, <3>3
  <2>2. CASE UNCHANGED vars
    <3>1. /\ start' = start /\ private' = private /\ bug' = bug /\ mutexes' = mutexes
          /\ buffer' = buffer /\ flags' = flags /\ streamer' = streamer /\ cleaned' = cleaned
          /\ event' = event /\ stack' = stack /\ gone' = gone /\ crash' = crash
          /\ stray' = stray /\ torn' = torn
      BY <2>2 DEF vars, startVars, pvtVars, connVars, callVars, ghosts
    <3>2. Types' = Types /\ Stacks' = Stacks
      BY <3>1 DEF Types, Stacks
    <3>3. Core' = Core
      BY <3>1 DEF Core, Stages, Frames, AllKept, Stage, FrameOk, Kept, Detached, Quiet, Sought,
         Cleaned, Starting
    <3> QED BY <3>1, <3>2, <3>3 DEF IInv, CallbackSafe, Sound
  <2> QED BY <2>1, <2>2
<1>3. IInv => CallbackSafe
  BY DEF IInv
<1> QED BY <1>1, <1>2, <1>3, PTL DEF Spec
=============================================================================
