---------------------------- MODULE FxPlatformProofs ----------------------------
(***************************************************************************)
(* Proofs about FxPlatform, for any number of Runnables, nested loops,     *)
(* events and windows: deferred Runnables are run once and in order, loops *)
(* return in order, and the platform is found idle exactly when it is.     *)
(***************************************************************************)
EXTENDS FxPlatform, SequenceFacts, FiniteSetTheorems

-----------------------------------------------------------------------------
(***************************************************************************)
(* The inductive invariant.                                                *)
(***************************************************************************)
Deferred == {"app", "dummy", "leave"}
Items == {r \in [kind : Deferred \union {"wait"}, n : Nat] : r.kind = "wait" => r.n = 0}

Loops == [k : {"loop"}, el : Nat, quit : Deferred \union {"no", "event", "wait"}]
Runs == [k : {"run"}, kind : Deferred \union {"event", "wait"}, n : Nat,
         at : {"app", "fin", "leave", "end", "exited"}, nested : BOOLEAN]
Lefts == [k : {"left"}, el : Nat, ret : Nat]
Frames == Loops \union Runs \union Lefts

TypeInv ==
  /\ deque \in Seq(Items) /\ native \in Seq(Items) /\ fx \in Seq(Frames) /\ Len(fx) >= 1
  /\ stack \in Seq(1 .. MaxLoops) /\ state \in [1 .. MaxLoops -> {"IDLE", "ACTIVE", "LEAVING"}]
  /\ posted \in Nat /\ started \in Nat /\ made \in 0 .. MaxLoops /\ batch \in 0 .. Len(native)
  /\ eventLoopExitEnterPassValue \in Nat
  /\ disp \in {"take", "check", "defer", "submit", "wait"}
  /\ disp \in {"check", "submit", "wait"} => hand \in Items /\ hand.kind \in Deferred
  /\ \A i \in 1 .. Len(deque) : deque[i].kind \in Deferred
  /\ pendingRunnables \in Nat /\ numWindows \in {0, 1} /\ caller \in {"idle", "defers"}

\* The dispatcher has handed so many Runnables to the native queue.
Submitted == posted - Len(deque) - (IF disp \in {"check", "submit"} THEN 1 ELSE 0)

\* The numbers of the Runnables, from the end of the deque to the native queue.
QueueInv ==
  /\ \A i \in 1 .. Len(deque) : deque[i].n = posted - Len(deque) + i
  /\ disp \in {"check", "submit"} => hand.n = Submitted + 1
  /\ started <= Submitted
  /\ \A i \in 1 .. Len(native) : native[i].kind # "wait" => native[i].n \in started + 1 .. Submitted
  /\ \A m \in started + 1 .. Submitted :
       \E i \in 1 .. Len(native) : native[i].kind # "wait" /\ native[i].n = m
  /\ \A i, j \in 1 .. Len(native) :
       i < j /\ native[i].kind # "wait" /\ native[j].kind # "wait" => native[i].n < native[j].n

\* The Runnable that the dispatcher waits for is the only one in the native queue,
\* unless the dispatcher was misled.
HandInv ==
  /\ disp = "wait" => hand.n \in 1 .. Submitted
  /\ disp = "wait" /\ futureDone => hand.n <= started
  /\ ~misled => \A i \in 1 .. Len(native) :
                  native[i].kind # "wait" => disp = "wait" /\ native[i] = hand

\* Native loops and what runs in them alternate, the main loop outermost; what is
\* below a nested loop is inside enterNestedEventLoop.
FrameInv ==
  /\ fx[Len(fx)].k = "loop" /\ fx[Len(fx)].el = 0
  /\ \A i \in 1 .. Len(fx) - 1 : /\ fx[i].k = "run" <=> fx[i + 1].k # "run"
                                 /\ fx[i].k # "run" => fx[i].el \in 1 .. made
  /\ \A i \in 2 .. Len(fx) : fx[i].k # "left" /\ (fx[i].k = "run" => fx[i].at = "app")

\* Where a Runnable or handler can be, by its kind. What runs has been started, the
\* inner Runnables after the outer ones.
RunInv ==
  /\ \A i \in 1 .. Len(fx) : fx[i].k = "run" =>
       /\ fx[i].kind = "event" => fx[i].at \in {"app", "exited"}
       /\ fx[i].kind = "wait" => fx[i].at \in {"app", "exited", "end"}
       /\ fx[i].kind = "app" => fx[i].at \in {"app", "exited", "fin", "end"}
       /\ fx[i].kind = "dummy" => fx[i].at \in {"fin", "end"}
       /\ fx[i].kind = "leave" => fx[i].at \in {"leave", "end"}
       /\ fx[i].at = "exited" => fx[i].nested
       /\ fx[i].kind \in Deferred => fx[i].n \in 1 .. started
       /\ fx[i].kind \notin Deferred => fx[i].n = 0
  /\ \A i, j \in 1 .. Len(fx) :
       i < j /\ fx[i].k = "run" /\ fx[j].k = "run" /\ fx[i].n > 0 => fx[i].n > fx[j].n

\* The FX thread is in the loop e of EventLoop.
Is(f, e) == f.k # "run" /\ f.el = e
Entered(e) == \E i \in 1 .. Len(fx) : Is(fx[i], e)

\* The stack of EventLoop has these loops, the newest first, and they are not IDLE.
StackInv ==
  /\ \A e \in 1 .. MaxLoops : /\ (\E i \in 1 .. Len(stack) : stack[i] = e) <=> Entered(e)
                              /\ state[e] # "IDLE" <=> Entered(e)
  /\ \A i, j \in 1 .. Len(stack) : i < j => stack[i] > stack[j]
  /\ \A i, j \in 1 .. Len(fx) : i < j /\ fx[i].k # "run" /\ fx[j].k # "run" => fx[i].el > fx[j].el

\* A loop is left natively only when EventLoop has left it, and the value that is
\* passed belongs to the innermost one.
LoopInv ==
  /\ \A i \in 1 .. Len(fx) :
       fx[i].k = "left" \/ (fx[i].k = "loop" /\ fx[i].quit # "no") =>
         fx[i].el \in 1 .. MaxLoops /\ state[fx[i].el] = "LEAVING"
  /\ \A i \in 1 .. Len(fx) : i <= 2 /\ fx[i].k = "loop" /\ fx[i].quit # "no" =>
       eventLoopExitEnterPassValue \in {0, fx[i].el}
  /\ fx[1].k = "left" => fx[1].ret \in {0, fx[1].el} /\ eventLoopExitEnterPassValue = 0

\* A Runnable of the dispatcher runs in the innermost loop, or has left it.
Leaving ==
  \/ fx[1].k = "run" /\ fx[1].kind \in Deferred
  \/ \E i \in 1 .. Len(fx) : i <= 2 /\ fx[i].k = "loop" /\ fx[i].quit \in {"app", "leave"}

\* Behind it there is no other in its batch.
BatchInv ==
  /\ fx[1].k = "left" => batch = 0
  /\ Leaving /\ ~misled => \A i \in 1 .. batch : native[i].kind = "wait"

\* A Runnable of runLater that has not come to its finally clause.
Holds(q, kind, m) == \E i \in 1 .. Len(q) : q[i].kind = kind /\ q[i].n = m
Busy(f, kind, m) == f.k = "run" /\ f.kind = kind /\ f.n = m /\ f.at # "end"
Doing(kind, m) == \E i \in 1 .. Len(fx) : Busy(fx[i], kind, m)
Due(kind, m) ==
  \/ Holds(native, kind, m) \/ Holds(deque, kind, m) \/ Doing(kind, m)
  \/ disp \in {"check", "submit"} /\ hand.kind = kind /\ hand.n = m

CountInv == IsFiniteSet(Unfinished) /\ PendingCounts

\* A nested loop runs: there are three frames at least.
Nesting == Len(fx) >= 3

\* While no window is open there is somebody who will look again.
IdleInv ==
  /\ reallyIdle => numWindows = 0
  /\ numWindows = 0 /\ ~notified =>
       pendingRunnables > 0 \/ Nesting \/ (fx[1].k = "run" /\ fx[1].at = "exited")
  /\ IdleIsReal

Inv ==
  /\ TypeInv /\ QueueInv /\ HandInv /\ FrameInv /\ RunInv /\ StackInv /\ LoopInv /\ BatchInv
  /\ CountInv /\ IdleInv

-----------------------------------------------------------------------------
(***************************************************************************)
(* Sequences, frames and finite sets.                                      *)
(***************************************************************************)
LEMMA SeqAt ==
  ASSUME NEW S, NEW q \in Seq(S)
  PROVE  Len(q) \in Nat /\ \A i \in 1 .. Len(q) : q[i] \in S
OBVIOUS

\* A value in front of a sequence.
LEMMA PushAt ==
  ASSUME NEW S, NEW q \in Seq(S), NEW e \in S
  PROVE  /\ <<e>> \o q \in Seq(S) /\ Len(<<e>> \o q) = Len(q) + 1 /\ (<<e>> \o q)[1] = e
         /\ Len(q) \in Nat
         /\ \A i \in 2 .. Len(q) + 1 : (<<e>> \o q)[i] = q[i - 1]
         /\ \A i \in 1 .. Len(q) : (<<e>> \o q)[i + 1] = q[i]
OBVIOUS

\* A value in the place of the first one.
LEMMA SwapAt ==
  ASSUME NEW S, NEW q \in Seq(S), NEW e \in S, Len(q) >= 1
  PROVE  /\ <<e>> \o Tail(q) \in Seq(S) /\ Len(<<e>> \o Tail(q)) = Len(q)
         /\ (<<e>> \o Tail(q))[1] = e
         /\ \A i \in 2 .. Len(q) : (<<e>> \o Tail(q))[i] = q[i]
<1>1. q # <<>>
  OBVIOUS
<1>2. /\ Tail(q) \in Seq(S) /\ Len(Tail(q)) = Len(q) - 1 /\ Len(q) \in Nat
      /\ \A i \in 1 .. Len(q) - 1 : Tail(q)[i] = q[i + 1]
  BY <1>1, TailAt
<1> QED BY <1>2, PushAt

\* A value in the place of the first two.
LEMMA PopSwapAt ==
  ASSUME NEW S, NEW q \in Seq(S), NEW e \in S, Len(q) >= 2
  PROVE  /\ <<e>> \o Tail(Tail(q)) \in Seq(S) /\ Len(<<e>> \o Tail(Tail(q))) = Len(q) - 1
         /\ (<<e>> \o Tail(Tail(q)))[1] = e
         /\ \A i \in 2 .. Len(q) - 1 : (<<e>> \o Tail(Tail(q)))[i] = q[i + 1]
<1>1. q # <<>>
  OBVIOUS
<1>2. /\ Tail(q) \in Seq(S) /\ Len(Tail(q)) = Len(q) - 1 /\ Len(q) \in Nat
      /\ \A i \in 1 .. Len(q) - 1 : Tail(q)[i] = q[i + 1]
  BY <1>1, TailAt
<1>3. DEFINE t == Tail(q)
<1> HIDE DEF t
<1>4. /\ <<e>> \o Tail(t) \in Seq(S) /\ Len(<<e>> \o Tail(t)) = Len(t)
      /\ (<<e>> \o Tail(t))[1] = e
      /\ \A i \in 2 .. Len(t) : (<<e>> \o Tail(t))[i] = t[i]
  <2>1. t \in Seq(S) /\ Len(t) >= 1
    BY <1>2 DEF t
  <2> QED BY <2>1, SwapAt
<1> QED BY <1>2, <1>4 DEF t

\* What a queue of Runnables holds.
LEMMA PushHolds ==
  ASSUME NEW S, NEW q \in Seq(S), NEW e \in S, NEW kind, NEW m
  PROVE  Holds(<<e>> \o q, kind, m) <=> Holds(q, kind, m) \/ (e.kind = kind /\ e.n = m)
<1> DEFINE r == <<e>> \o q
<1>1. /\ Len(r) = Len(q) + 1 /\ r[1] = e /\ Len(q) \in Nat
      /\ \A i \in 2 .. Len(q) + 1 : r[i] = q[i - 1]
      /\ \A i \in 1 .. Len(q) : r[i + 1] = q[i]
  BY PushAt
<1> HIDE DEF r
<1>2. ASSUME Holds(r, kind, m) PROVE Holds(q, kind, m) \/ (e.kind = kind /\ e.n = m)
  BY <1>1, <1>2 DEF Holds
<1>3. ASSUME Holds(q, kind, m) PROVE Holds(r, kind, m)
  <2>1. PICK i \in 1 .. Len(q) : q[i].kind = kind /\ q[i].n = m
    BY <1>3 DEF Holds
  <2>2. i + 1 \in 1 .. Len(r) /\ r[i + 1] = q[i]
    BY <1>1
  <2> QED BY <2>1, <2>2 DEF Holds
<1>4. ASSUME e.kind = kind, e.n = m PROVE Holds(r, kind, m)
  BY <1>1, <1>4 DEF Holds
<1> QED BY <1>2, <1>3, <1>4 DEF r

LEMMA TailHolds ==
  ASSUME NEW S, NEW q \in Seq(S), q # <<>>, NEW kind, NEW m
  PROVE  Holds(q, kind, m) <=> \/ Holds(Tail(q), kind, m)
                               \/ Head(q).kind = kind /\ Head(q).n = m
<1>1. q = <<Head(q)>> \o Tail(q) /\ Tail(q) \in Seq(S) /\ Head(q) \in S
  OBVIOUS
<1> DEFINE t == Tail(q)
           h == Head(q)
<1>2. q = <<h>> \o t /\ t \in Seq(S) /\ h \in S
  BY <1>1
<1> HIDE DEF t, h
<1>3. Holds(<<h>> \o t, kind, m) <=> Holds(t, kind, m) \/ (h.kind = kind /\ h.n = m)
  BY <1>2, PushHolds
<1> QED BY <1>2, <1>3 DEF t, h

LEMMA AppendHolds ==
  ASSUME NEW S, NEW q \in Seq(S), NEW e \in S, NEW kind, NEW m
  PROVE  Holds(Append(q, e), kind, m) <=> Holds(q, kind, m) \/ (e.kind = kind /\ e.n = m)
<1> DEFINE r == Append(q, e)
<1>1. /\ Len(r) = Len(q) + 1 /\ r[Len(q) + 1] = e /\ Len(q) \in Nat
      /\ \A i \in 1 .. Len(q) : r[i] = q[i]
  BY AppendAt
<1> HIDE DEF r
<1>2. ASSUME Holds(r, kind, m) PROVE Holds(q, kind, m) \/ (e.kind = kind /\ e.n = m)
  <2>1. PICK i \in 1 .. Len(r) : r[i].kind = kind /\ r[i].n = m
    BY <1>2 DEF Holds
  <2>2. i \in 1 .. Len(q) \/ i = Len(q) + 1
    BY <1>1
  <2> QED BY <2>1, <2>2, <1>1 DEF Holds
<1>3. ASSUME Holds(q, kind, m) PROVE Holds(r, kind, m)
  BY <1>1, <1>3 DEF Holds
<1>4. ASSUME e.kind = kind, e.n = m PROVE Holds(r, kind, m)
  <2>1. Len(q) + 1 \in 1 .. Len(r)
    BY <1>1
  <2> QED BY <1>1, <1>4, <2>1 DEF Holds
<1> QED BY <1>2, <1>3, <1>4 DEF r

\* The fields of a frame.
LEMMA FrameKinds ==
  ASSUME NEW f \in Frames
  PROVE  /\ f.k \in {"loop", "run", "left"}
         /\ f.k = "loop" => f \in Loops
         /\ f.k = "run" => f \in Runs
         /\ f.k = "left" => f \in Lefts
BY DEF Frames, Loops, Runs, Lefts

\* A Runnable that goes on to its next part.
LEMMA RunAt ==
  ASSUME NEW f \in Runs, NEW label \in {"app", "fin", "leave", "end", "exited"}
  PROVE  LET g == [f EXCEPT !.at = label] IN
         /\ g \in Frames /\ g.k = "run" /\ g.kind = f.kind /\ g.n = f.n
         /\ g.at = label /\ g.nested = f.nested
BY DEF Runs, Frames

\* A loop that is told to quit.
LEMMA LoopQuit ==
  ASSUME NEW f \in Loops, NEW kind \in Deferred \union {"event", "wait"}
  PROVE  LET g == [f EXCEPT !.quit = kind] IN
         g \in Frames /\ g.k = "loop" /\ g.el = f.el /\ g.quit = kind
BY DEF Loops, Frames

\* A Runnable begins.
LEMMA RunBegins ==
  ASSUME NEW r \in [kind : Deferred \union {"event", "wait"}, n : Nat]
  PROVE  LET g == Frame(r, Entry(r.kind)) IN
         /\ g \in Frames /\ g.k = "run" /\ g.kind = r.kind /\ g.n = r.n
         /\ g.at = Entry(r.kind) /\ g.nested = FALSE
BY DEF Runs, Frames, Frame, Entry, Deferred

\* The FX thread is always in something.
LEMMA HeadOfFx ==
  ASSUME TypeInv
  PROVE  /\ Head(fx) = fx[1] /\ fx # <<>> /\ Len(fx) \in Nat /\ Len(fx) >= 1
         /\ \A i \in 1 .. Len(fx) : fx[i] \in Frames
BY DEF TypeInv

\* What is unfinished, without positions.
LEMMA UnfinishedIs ==
  TypeInv => \A p : p \in Unfinished <=>
    \E kind \in {"app", "dummy"}, m \in Nat : p = <<kind, m>> /\ Due(kind, m)
<1> SUFFICES ASSUME TypeInv, NEW p
             PROVE  p \in Unfinished <=>
                      \E kind \in {"app", "dummy"}, m \in Nat : p = <<kind, m>> /\ Due(kind, m)
  OBVIOUS
<1> DEFINE Pair(r) == <<r.kind, r.n>>
           Below == \E i \in 1 .. Len(fx) : /\ fx[i].k = "run" /\ fx[i].kind \in {"app", "dummy"}
                                            /\ fx[i].at # "end" /\ p = <<fx[i].kind, fx[i].n>>
           In(q) == \E i \in 1 .. Len(q) : q[i].kind \in {"app", "dummy"}
                                           /\ p = <<q[i].kind, q[i].n>>
<1>1. DOMAIN fx = 1 .. Len(fx) /\ DOMAIN native = 1 .. Len(native)
      /\ DOMAIN deque = 1 .. Len(deque)
  BY DEF TypeInv
<1>2. p \in Unfinished <=> In(native) \/ In(InHand) \/ In(deque) \/ Below
  <2> DEFINE Of(q) == {<<q[i].kind, q[i].n>> : i \in DOMAIN q}
             Under == {i \in DOMAIN fx : fx[i].k = "run" /\ fx[i].kind \in {"app", "dummy"}
                                         /\ fx[i].at # "end"}
             Held == {r \in Of(native) \union Of(InHand) \union Of(deque) :
                        r[1] \in {"app", "dummy"}}
             Run == {<<fx[i].kind, fx[i].n>> : i \in Under}
  <2>1. DOMAIN InHand = 1 .. Len(InHand)
    <3>1. CASE disp \in {"check", "submit"}
      BY <3>1 DEF InHand
    <3>2. CASE disp \notin {"check", "submit"}
      BY <3>2 DEF InHand
    <3> QED BY <3>1, <3>2
  <2>2. Unfinished = Held \union Run
    BY Zenon DEF Unfinished
  <2>3. p \in Run <=> Below
    BY <1>1
  <2>4. ASSUME NEW q, DOMAIN q = 1 .. Len(q)
        PROVE  p \in Of(q) /\ p[1] \in {"app", "dummy"} <=> In(q)
    BY <2>4
  <2>5. p \in Held <=> In(native) \/ In(InHand) \/ In(deque)
    <3> HIDE DEF Of, In
    <3>1. /\ p \in Of(native) /\ p[1] \in {"app", "dummy"} <=> In(native)
          /\ p \in Of(InHand) /\ p[1] \in {"app", "dummy"} <=> In(InHand)
          /\ p \in Of(deque) /\ p[1] \in {"app", "dummy"} <=> In(deque)
      BY <2>4, <2>1, <1>1
    <3> QED BY <3>1
  <2> HIDE DEF Held, Run
  <2> QED BY <2>2, <2>3, <2>5
<1>3. In(InHand) <=> disp \in {"check", "submit"} /\ hand.kind \in {"app", "dummy"}
                     /\ p = <<hand.kind, hand.n>>
  BY DEF InHand
<1>4. /\ \A i \in 1 .. Len(native) : native[i].n \in Nat
      /\ \A i \in 1 .. Len(deque) : deque[i].n \in Nat
      /\ disp \in {"check", "submit"} => hand.n \in Nat
  <2>1. /\ \A i \in 1 .. Len(native) : native[i] \in Items
        /\ \A i \in 1 .. Len(deque) : deque[i] \in Items
        /\ disp \in {"check", "submit"} => hand \in Items
    BY DEF TypeInv
  <2> QED BY <2>1 DEF Items
<1>5. ASSUME NEW i \in 1 .. Len(fx), fx[i].k = "run" PROVE fx[i].n \in Nat
  BY <1>5, HeadOfFx, FrameKinds DEF Runs
<1>6. ASSUME p \in Unfinished
      PROVE  \E kind \in {"app", "dummy"}, m \in Nat : p = <<kind, m>> /\ Due(kind, m)
  <2>1. CASE In(native)
    BY <2>1, <1>4 DEF Due, Holds
  <2>2. CASE In(InHand)
    BY <2>2, <1>3, <1>4 DEF Due
  <2>3. CASE In(deque)
    BY <2>3, <1>4 DEF Due, Holds
  <2>4. CASE Below
    BY <2>4, <1>5 DEF Due, Doing, Busy
  <2> QED BY <1>6, <1>2, <2>1, <2>2, <2>3, <2>4
<1>7. ASSUME NEW kind \in {"app", "dummy"}, NEW m \in Nat, p = <<kind, m>>, Due(kind, m)
      PROVE  p \in Unfinished
  BY <1>7, <1>2, <1>3 DEF Due, Holds, Doing, Busy
<1> QED BY <1>6, <1>7

LEMMA UnfinishedIsNext ==
  TypeInv' => \A p : p \in Unfinished' <=>
    \E kind \in {"app", "dummy"}, m \in Nat : p = <<kind, m>> /\ Due(kind, m)'
<1>1. (TypeInv => \A p : p \in Unfinished <=>
         \E kind \in {"app", "dummy"}, m \in Nat : p = <<kind, m>> /\ Due(kind, m))'
  BY UnfinishedIs, PTL
<1> QED BY <1>1

\* Nothing is added to what is unfinished and nothing taken from it.
LEMMA DueSame ==
  ASSUME TypeInv, TypeInv',
         \A kind \in {"app", "dummy"}, m \in Nat : Due(kind, m)' <=> Due(kind, m)
  PROVE  Unfinished' = Unfinished
<1>1. \A p : p \in Unfinished' <=> p \in Unfinished
  BY UnfinishedIs, UnfinishedIsNext
<1> QED BY <1>1

\* One Runnable is added.
LEMMA DueAdd ==
  ASSUME TypeInv, TypeInv', IsFiniteSet(Unfinished),
         NEW new \in {"app", "dummy"}, NEW last \in Nat, ~Due(new, last),
         \A kind \in {"app", "dummy"}, m \in Nat :
           Due(kind, m)' <=> Due(kind, m) \/ (kind = new /\ m = last)
  PROVE  /\ IsFiniteSet(Unfinished') /\ Cardinality(Unfinished) \in Nat
         /\ Cardinality(Unfinished') = Cardinality(Unfinished) + 1
<1>1. <<new, last>> \notin Unfinished
  BY UnfinishedIs
<1>2. \A p : p \in Unfinished' <=> p \in Unfinished \/ p = <<new, last>>
  BY UnfinishedIs, UnfinishedIsNext
<1>3. Unfinished' = Unfinished \union {<<new, last>>}
  BY <1>2
<1> QED BY <1>1, <1>3, FS_AddElement, FS_CardinalityType

\* One Runnable is taken away.
LEMMA DueDrop ==
  ASSUME TypeInv, TypeInv', IsFiniteSet(Unfinished),
         NEW old \in {"app", "dummy"}, NEW o \in Nat, Due(old, o),
         \A kind \in {"app", "dummy"}, m \in Nat :
           Due(kind, m)' <=> Due(kind, m) /\ ~(kind = old /\ m = o)
  PROVE  /\ IsFiniteSet(Unfinished') /\ Cardinality(Unfinished) \in Nat
         /\ Cardinality(Unfinished') = Cardinality(Unfinished) - 1
<1>1. <<old, o>> \in Unfinished
  BY UnfinishedIs
<1>2. \A p : p \in Unfinished' <=> p \in Unfinished /\ p # <<old, o>>
  BY UnfinishedIs, UnfinishedIsNext
<1>3. Unfinished' = Unfinished \ {<<old, o>>}
  BY <1>2
<1> QED BY <1>1, <1>3, FS_RemoveElement, FS_CardinalityType

\* One Runnable is taken away and another one added.
LEMMA DueReplace ==
  ASSUME TypeInv, TypeInv', IsFiniteSet(Unfinished),
         NEW old \in {"app", "dummy"}, NEW o \in Nat, Due(old, o),
         NEW new \in {"app", "dummy"}, NEW last \in Nat, ~Due(new, last),
         \A kind \in {"app", "dummy"}, m \in Nat :
           Due(kind, m)' <=> \/ Due(kind, m) /\ ~(kind = old /\ m = o)
                             \/ kind = new /\ m = last
  PROVE  /\ IsFiniteSet(Unfinished') /\ Cardinality(Unfinished) \in Nat
         /\ Cardinality(Unfinished') = Cardinality(Unfinished)
<1>1. <<old, o>> \in Unfinished /\ <<new, last>> \notin Unfinished
  BY UnfinishedIs
<1>2. \A p : p \in Unfinished' <=> (p \in Unfinished /\ p # <<old, o>>) \/ p = <<new, last>>
  BY UnfinishedIs, UnfinishedIsNext
<1> DEFINE Rest == Unfinished \ {<<old, o>>}
<1>3. Unfinished' = Rest \union {<<new, last>>} /\ <<new, last>> \notin Rest
  BY <1>1, <1>2
<1>4. IsFiniteSet(Rest) /\ Cardinality(Rest) = Cardinality(Unfinished) - 1
  BY <1>1, FS_RemoveElement
<1> HIDE DEF Rest
<1>5. Cardinality(Unfinished) \in Nat /\ Cardinality(Rest) \in Nat
  BY <1>4, FS_CardinalityType
<1>6. IsFiniteSet(Unfinished') /\ Cardinality(Unfinished') = Cardinality(Rest) + 1
  BY <1>3, <1>4, FS_AddElement
<1> QED BY <1>4, <1>5, <1>6

\* Nested loops run if and only if there are three frames.
LEMMA NestingIs ==
  ASSUME TypeInv, FrameInv
  PROVE  /\ NestedLoops = {} <=> ~Nesting
         /\ Len(fx) = 3 => Cardinality(NestedLoops) = 1
<1>1. DOMAIN fx = 1 .. Len(fx) /\ Len(fx) \in Nat /\ Len(fx) >= 1
      /\ \A i \in 1 .. Len(fx) : fx[i] \in Frames
  BY HeadOfFx DEF TypeInv
<1>2. \A i \in 1 .. Len(fx) : i \in NestedLoops <=> fx[i].k # "run" /\ fx[i].el # 0
  BY <1>1, FrameKinds DEF NestedLoops
<1>3. \A i \in 1 .. Len(fx) - 1 : fx[i].k # "run" => fx[i].el # 0
  BY DEF FrameInv
<1>4. ASSUME Nesting PROVE NestedLoops # {}
  BY <1>4, <1>1, <1>2, <1>3 DEF FrameInv, Nesting
<1>5. ASSUME ~Nesting PROVE NestedLoops = {}
  BY <1>5, <1>1, <1>2 DEF FrameInv, Nesting, NestedLoops
<1>6. ASSUME Len(fx) = 3 PROVE Cardinality(NestedLoops) = 1
  <2>1. fx[3].el = 0 /\ fx[2].k = "run" /\ fx[1].k # "run"
    BY <1>6 DEF FrameInv
  <2>2. 1 .. Len(fx) = {1, 2, 3}
    BY <1>6
  <2>3. NestedLoops = {1}
    BY <2>1, <2>2, <1>1, <1>2, <1>3, <1>6 DEF NestedLoops
  <2> QED BY <2>3, FS_Singleton
<1> QED BY <1>4, <1>5, <1>6

\* The innermost loop is on top of EventLoop's stack, and is followed by no other there.
LEMMA TopOfStack ==
  ASSUME TypeInv, FrameInv, StackInv
  PROVE  \A i \in 1 .. Len(fx) : i <= 2 /\ fx[i].k # "run" =>
           /\ stack = <<>> <=> fx[i].el = 0
           /\ stack # <<>> => Head(stack) = fx[i].el /\ stack[1] = fx[i].el /\ Len(stack) >= 1
<1> SUFFICES ASSUME NEW i \in 1 .. Len(fx), i <= 2, fx[i].k # "run"
             PROVE  /\ stack = <<>> <=> fx[i].el = 0
                    /\ stack # <<>> => /\ Head(stack) = fx[i].el /\ stack[1] = fx[i].el
                                       /\ Len(stack) >= 1
  OBVIOUS
<1>1. /\ Len(fx) \in Nat /\ Len(stack) \in Nat
      /\ \A j \in 1 .. Len(stack) : stack[j] \in 1 .. MaxLoops
      /\ stack # <<>> => Head(stack) = stack[1] /\ Len(stack) >= 1
  <2>1. stack \in Seq(1 .. MaxLoops) /\ fx \in Seq(Frames)
    BY DEF TypeInv
  <2>2. /\ Len(fx) \in Nat /\ Len(stack) \in Nat
        /\ \A j \in 1 .. Len(stack) : stack[j] \in 1 .. MaxLoops
    BY <2>1, SeqAt
  <2>3. stack # <<>> => Head(stack) = stack[1] /\ Len(stack) >= 1
    BY <2>1, TailAt
  <2> QED BY <2>2, <2>3
<1>2. made \in Nat /\ made <= MaxLoops
  BY LoopsAssumption DEF TypeInv
<1>3. \A j \in 1 .. Len(fx) : fx[j].k # "run" => fx[j].el \in 0 .. MaxLoops
  BY <1>1, <1>2, LoopsAssumption DEF FrameInv
<1>4. \A j \in 1 .. Len(fx) : fx[j].k # "run" => j >= i
  BY <1>1, HeadOfFx DEF FrameInv
<1>5. \A j \in 1 .. Len(fx) : fx[j].k # "run" => fx[j].el <= fx[i].el
  <2> SUFFICES ASSUME NEW j \in 1 .. Len(fx), fx[j].k # "run" PROVE fx[j].el <= fx[i].el
    OBVIOUS
  <2>1. CASE j = i
    BY <2>1, <1>3
  <2>2. CASE j > i
    BY <2>2, <1>3 DEF StackInv
  <2> QED BY <2>1, <2>2, <1>4, <1>1
<1>6. ASSUME fx[i].el = 0 PROVE stack = <<>>
  <2> SUFFICES ASSUME stack # <<>> PROVE FALSE
    OBVIOUS
  <2>1. stack[1] \in 1 .. MaxLoops /\ 1 \in 1 .. Len(stack)
    BY <1>1
  <2>2. Entered(stack[1])
    BY <2>1 DEF StackInv
  <2> QED BY <2>1, <2>2, <1>3, <1>5, <1>6 DEF Entered, Is
<1>7. ASSUME fx[i].el # 0
      PROVE  stack # <<>> /\ Head(stack) = fx[i].el /\ stack[1] = fx[i].el /\ Len(stack) >= 1
  <2>1. fx[i].el \in 1 .. MaxLoops
    BY <1>3, <1>7, LoopsAssumption
  <2>2. Entered(fx[i].el)
    BY DEF Entered, Is
  <2>3. PICK s \in 1 .. Len(stack) : stack[s] = fx[i].el
    BY <2>1, <2>2 DEF StackInv
  <2>4. stack # <<>> /\ Len(stack) >= 1
    BY <2>3, <1>1
  <2>5. stack[1] \in 1 .. MaxLoops /\ Entered(stack[1])
    BY <2>4, <1>1 DEF StackInv
  <2>6. stack[1] <= fx[i].el
    BY <2>5, <1>5 DEF Entered, Is
  <2>7. s > 1 => stack[1] > stack[s]
    BY <2>3, <2>4, <1>1 DEF StackInv
  <2>8. stack[1] = fx[i].el
    BY <2>3, <2>5, <2>6, <2>7, <2>1, <1>1, LoopsAssumption
  <2> QED BY <2>4, <2>8, <1>1
<1> QED BY <1>6, <1>7

-----------------------------------------------------------------------------
(***************************************************************************)
(* How the FX thread's frames change.                                      *)
(***************************************************************************)
\* What is below the first frame.
EnteredBelow(e) == \E i \in 2 .. Len(fx) : Is(fx[i], e)
DoingBelow(kind, m) == \E i \in 2 .. Len(fx) : Busy(fx[i], kind, m)

LEMMA FirstFrame ==
  ASSUME TypeInv
  PROVE  /\ \A e : Entered(e) <=> EnteredBelow(e) \/ Is(fx[1], e)
         /\ \A kind, m : Doing(kind, m) <=> DoingBelow(kind, m) \/ Busy(fx[1], kind, m)
<1>1. Len(fx) \in Nat /\ Len(fx) >= 1
  BY HeadOfFx
<1>2. \A i : i \in 1 .. Len(fx) <=> i = 1 \/ i \in 2 .. Len(fx)
  BY <1>1
<1> QED BY <1>2 DEF Entered, EnteredBelow, Doing, DoingBelow

\* A frame is put on top.
LEMMA PushFrame ==
  ASSUME TypeInv, NEW g \in Frames, fx' = <<g>> \o fx
  PROVE  /\ fx' \in Seq(Frames) /\ Len(fx') = Len(fx) + 1 /\ fx'[1] = g
         /\ \A i \in 1 .. Len(fx) : fx'[i + 1] = fx[i]
         /\ \A i \in 1 .. Len(fx') : i = 1 \/ (i - 1 \in 1 .. Len(fx) /\ fx'[i] = fx[i - 1])
         /\ \A e : Entered(e)' <=> Entered(e) \/ Is(g, e)
         /\ \A kind, m : Doing(kind, m)' <=> Doing(kind, m) \/ Busy(g, kind, m)
<1>1. /\ fx \in Seq(Frames) /\ Len(fx) \in Nat
  BY DEF TypeInv
<1>2. /\ fx' \in Seq(Frames) /\ Len(fx') = Len(fx) + 1 /\ fx'[1] = g
      /\ \A i \in 2 .. Len(fx) + 1 : fx'[i] = fx[i - 1]
      /\ \A i \in 1 .. Len(fx) : fx'[i + 1] = fx[i]
  BY <1>1, PushAt
<1>3. \A i \in 1 .. Len(fx') : i = 1 \/ (i - 1 \in 1 .. Len(fx) /\ fx'[i] = fx[i - 1])
  BY <1>1, <1>2
<1>4. 1 \in 1 .. Len(fx') /\ \A i \in 1 .. Len(fx) : i + 1 \in 1 .. Len(fx')
  BY <1>1, <1>2
<1>5. \A e : Entered(e)' <=> Entered(e) \/ Is(g, e)
  BY <1>2, <1>3, <1>4 DEF Entered
<1>6. \A kind, m : Doing(kind, m)' <=> Doing(kind, m) \/ Busy(g, kind, m)
  BY <1>2, <1>3, <1>4 DEF Doing
<1> QED BY <1>2, <1>3, <1>5, <1>6

\* The frame on top is replaced.
LEMMA SwapFrame ==
  ASSUME TypeInv, NEW g \in Frames, fx' = <<g>> \o Tail(fx)
  PROVE  /\ fx' \in Seq(Frames) /\ Len(fx') = Len(fx) /\ fx'[1] = g
         /\ \A i \in 2 .. Len(fx) : fx'[i] = fx[i]
         /\ \A e : Entered(e)' <=> EnteredBelow(e) \/ Is(g, e)
         /\ \A kind, m : Doing(kind, m)' <=> DoingBelow(kind, m) \/ Busy(g, kind, m)
<1>1. fx \in Seq(Frames) /\ Len(fx) \in Nat /\ Len(fx) >= 1
  BY DEF TypeInv
<1>2. /\ fx' \in Seq(Frames) /\ Len(fx') = Len(fx) /\ fx'[1] = g
      /\ \A i \in 2 .. Len(fx) : fx'[i] = fx[i]
  BY <1>1, SwapAt
<1>3. \A i : i \in 1 .. Len(fx') <=> i = 1 \/ i \in 2 .. Len(fx)
  BY <1>1, <1>2
<1>4. \A e : Entered(e)' <=> EnteredBelow(e) \/ Is(g, e)
  BY <1>2, <1>3 DEF Entered, EnteredBelow
<1>5. \A kind, m : Doing(kind, m)' <=> DoingBelow(kind, m) \/ Busy(g, kind, m)
  BY <1>2, <1>3 DEF Doing, DoingBelow
<1> QED BY <1>2, <1>4, <1>5

\* The frame on top is taken away.
LEMMA PopFrame ==
  ASSUME TypeInv, Len(fx) >= 2, fx' = Tail(fx)
  PROVE  /\ fx' \in Seq(Frames) /\ Len(fx') = Len(fx) - 1
         /\ \A i \in 1 .. Len(fx') : i + 1 \in 2 .. Len(fx) /\ fx'[i] = fx[i + 1]
         /\ \A i \in 2 .. Len(fx) : i - 1 \in 1 .. Len(fx') /\ fx'[i - 1] = fx[i]
         /\ \A e : Entered(e)' <=> EnteredBelow(e)
         /\ \A kind, m : Doing(kind, m)' <=> DoingBelow(kind, m)
<1>1. fx \in Seq(Frames) /\ Len(fx) \in Nat /\ fx # <<>>
  BY DEF TypeInv
<1>2. /\ fx' \in Seq(Frames) /\ Len(fx') = Len(fx) - 1
      /\ \A i \in 1 .. Len(fx) - 1 : fx'[i] = fx[i + 1]
  BY <1>1, TailAt
<1>3. /\ \A i \in 1 .. Len(fx') : i + 1 \in 2 .. Len(fx) /\ fx'[i] = fx[i + 1]
      /\ \A i \in 2 .. Len(fx) : i - 1 \in 1 .. Len(fx') /\ fx'[i - 1] = fx[i]
  <2>1. \A i \in 1 .. Len(fx') : i + 1 \in 2 .. Len(fx)
    BY <1>1, <1>2
  <2>2. ASSUME NEW i \in 2 .. Len(fx) PROVE i - 1 \in 1 .. Len(fx') /\ fx'[i - 1] = fx[i]
    <3>1. i - 1 \in 1 .. Len(fx) - 1 /\ (i - 1) + 1 = i
      BY <1>1
    <3> QED BY <3>1, <1>2
  <2> QED BY <2>1, <2>2, <1>2
<1>4. \A e : Entered(e)' <=> EnteredBelow(e)
  BY <1>3 DEF Entered, EnteredBelow
<1>5. \A kind, m : Doing(kind, m)' <=> DoingBelow(kind, m)
  BY <1>3 DEF Doing, DoingBelow
<1> QED BY <1>2, <1>3, <1>4, <1>5

\* A Runnable on top goes on to its next part: only that changes.
LEMMA NextPart ==
  ASSUME TypeInv, fx[1].k = "run", NEW label \in {"app", "fin", "leave", "end", "exited"},
         At(label)
  PROVE  /\ fx' \in Seq(Frames) /\ Len(fx') = Len(fx)
         /\ \A i \in 1 .. Len(fx) : /\ fx'[i].k = fx[i].k
                                    /\ fx[i].k # "run" => fx'[i] = fx[i]
         /\ \A i \in 2 .. Len(fx) : fx'[i] = fx[i]
         /\ fx'[1].k = "run" /\ fx'[1].kind = fx[1].kind /\ fx'[1].n = fx[1].n
         /\ fx'[1].at = label /\ fx'[1].nested = fx[1].nested
         /\ \A e : Entered(e)' <=> Entered(e)
         /\ \A kind, m : Doing(kind, m)' <=> \/ DoingBelow(kind, m)
                                             \/ /\ fx[1].kind = kind /\ fx[1].n = m
                                                /\ label # "end"
<1> DEFINE g == [fx[1] EXCEPT !.at = label]
<1>1. Head(fx) = fx[1] /\ Len(fx) \in Nat /\ Len(fx) >= 1 /\ fx[1] \in Frames
  BY HeadOfFx
<1>2. fx[1] \in Runs
  BY <1>1, FrameKinds
<1>3. /\ g \in Frames /\ g.k = "run" /\ g.kind = fx[1].kind /\ g.n = fx[1].n
      /\ g.at = label /\ g.nested = fx[1].nested
  BY <1>2, RunAt
<1>4. fx' = <<g>> \o Tail(fx)
  BY <1>1 DEF At
<1> HIDE DEF g
<1>5. /\ fx' \in Seq(Frames) /\ Len(fx') = Len(fx) /\ fx'[1] = g
      /\ \A i \in 2 .. Len(fx) : fx'[i] = fx[i]
      /\ \A e : Entered(e)' <=> EnteredBelow(e) \/ Is(g, e)
      /\ \A kind, m : Doing(kind, m)' <=> DoingBelow(kind, m) \/ Busy(g, kind, m)
  BY <1>3, <1>4, SwapFrame
<1>6. \A i \in 1 .. Len(fx) : fx'[i].k = fx[i].k /\ (fx[i].k # "run" => fx'[i] = fx[i])
  BY <1>1, <1>3, <1>5
<1>7. \A e : Entered(e)' <=> Entered(e)
  BY <1>3, <1>5, FirstFrame DEF Is
<1>8. \A kind, m : Doing(kind, m)' <=> \/ DoingBelow(kind, m)
                                       \/ fx[1].kind = kind /\ fx[1].n = m /\ label # "end"
  BY <1>3, <1>5 DEF Busy
<1> QED BY <1>3, <1>5, <1>6, <1>7, <1>8

\* A Runnable or handler on top ends.
LEMMA PopRun ==
  ASSUME Inv, fx[1].k = "run", fx' = Tail(fx),
         UNCHANGED <<made, started, stack, state, eventLoopExitEnterPassValue, batch, native,
                     misled>>
  PROVE  /\ fx' \in Seq(Frames) /\ Len(fx') >= 1 /\ FrameInv' /\ RunInv' /\ StackInv' /\ LoopInv'
         /\ BatchInv' /\ (Nesting => Nesting')
         /\ \A kind, m : Doing(kind, m)' \/ Busy(fx[1], kind, m) <=> Doing(kind, m)
<1> USE DEF Inv
<1>1. Len(fx) \in Nat /\ Len(fx) >= 2 /\ fx[2].k = "loop"
  <2>1. Len(fx) \in Nat /\ Len(fx) >= 1 /\ \A i \in 1 .. Len(fx) : fx[i] \in Frames
    BY HeadOfFx
  <2>2. Len(fx) >= 2
    BY <2>1 DEF FrameInv
  <2> QED BY <2>1, <2>2, FrameKinds DEF FrameInv
<1>2. /\ fx' \in Seq(Frames) /\ Len(fx') = Len(fx) - 1
      /\ \A i \in 1 .. Len(fx') : i + 1 \in 2 .. Len(fx) /\ fx'[i] = fx[i + 1]
      /\ \A i \in 2 .. Len(fx) : i - 1 \in 1 .. Len(fx') /\ fx'[i - 1] = fx[i]
      /\ \A e : Entered(e)' <=> EnteredBelow(e)
      /\ \A kind, m : Doing(kind, m)' <=> DoingBelow(kind, m)
  BY <1>1, PopFrame
<1>3. \A i \in 1 .. Len(fx') : i + 1 \in 1 .. Len(fx) /\ fx'[i] = fx[i + 1]
  BY <1>1, <1>2
<1>4. FrameInv'
  <2>1. fx'[Len(fx')] = fx[Len(fx)] /\ Len(fx') >= 1
    BY <1>1, <1>2
  <2>2. ASSUME NEW i \in 1 .. Len(fx') - 1
        PROVE  /\ i + 1 \in 1 .. Len(fx) - 1
               /\ fx'[i] = fx[i + 1] /\ fx'[i + 1] = fx[(i + 1) + 1]
    BY <1>1, <1>2
  <2>3. ASSUME NEW i \in 2 .. Len(fx') PROVE i + 1 \in 2 .. Len(fx) /\ fx'[i] = fx[i + 1]
    BY <1>1, <1>2
  <2> QED BY <2>1, <2>2, <2>3 DEF FrameInv
<1>5. RunInv'
  <2>1. ASSUME NEW i \in 1 .. Len(fx'), NEW j \in 1 .. Len(fx'), i < j PROVE i + 1 < j + 1
    BY <2>1
  <2> QED BY <2>1, <1>3 DEF RunInv
<1>6. StackInv'
  <2>1. \A e : Entered(e)' <=> Entered(e)
    BY <1>2, FirstFrame DEF Is
  <2>2. ASSUME NEW i \in 1 .. Len(fx'), NEW j \in 1 .. Len(fx'), i < j, fx'[i].k # "run",
               fx'[j].k # "run"
        PROVE  fx'[i].el > fx'[j].el
    <3>1. i + 1 < j + 1
      BY <2>2
    <3> QED BY <2>2, <3>1, <1>3 DEF StackInv
  <2> QED BY <2>1, <2>2 DEF StackInv
<1>7. Len(fx') >= 2 => fx'[2].k = "run"
  <2>1. Len(fx) >= 3 => fx[3].k = "run"
    BY <1>1 DEF FrameInv
  <2> QED BY <2>1, <1>1, <1>2
<1>8. fx'[1] = fx[2]
  BY <1>1, <1>2
<1>9. LoopInv'
  <2>1. \A i \in 1 .. Len(fx') : fx'[i].k = "left" \/ (fx'[i].k = "loop" /\ fx'[i].quit # "no") =>
          fx'[i].el \in 1 .. MaxLoops /\ state[fx'[i].el] = "LEAVING"
    BY <1>3 DEF LoopInv
  <2>2. \A i \in 1 .. Len(fx') : i <= 2 /\ fx'[i].k = "loop" => i = 1
    BY <1>7, <1>1, <1>2
  <2>3. fx[2].quit # "no" => eventLoopExitEnterPassValue \in {0, fx[2].el}
    BY <1>1 DEF LoopInv
  <2> QED BY <2>1, <2>2, <2>3, <1>1, <1>8 DEF LoopInv
<1>10. BatchInv'
  <2>1. Leaving' => Leaving
    <3>1. ASSUME NEW i \in 1 .. Len(fx'), i <= 2, fx'[i].k = "loop" PROVE i = 1
      BY <3>1, <1>7, <1>1, <1>2
    <3> QED BY <3>1, <1>1, <1>8 DEF Leaving
  <2> QED BY <2>1, <1>1, <1>8 DEF BatchInv
<1>11. Nesting => Nesting'
  <2>1. Len(fx) # 3
    BY <1>1 DEF FrameInv
  <2> QED BY <2>1, <1>1, <1>2 DEF Nesting
<1>12. \A kind, m : Doing(kind, m)' \/ Busy(fx[1], kind, m) <=> Doing(kind, m)
  BY <1>2, FirstFrame
<1> QED BY <1>1, <1>2, <1>4, <1>5, <1>6, <1>9, <1>10, <1>11, <1>12

\* A Runnable or handler on top goes on to a part that is one of its own.
LEMMA PartRun ==
  ASSUME Inv, fx[1].k = "run", NEW label \in {"app", "fin", "leave", "end", "exited"}, At(label),
         UNCHANGED <<made, started, stack, state, eventLoopExitEnterPassValue, batch, native,
                     misled>>,
         fx[1].kind = "event" => label = "app",
         fx[1].kind = "wait" => label \in {"app", "end"},
         fx[1].kind = "app" => label \in {"app", "fin", "end"},
         fx[1].kind = "dummy" => label \in {"fin", "end"},
         fx[1].kind = "leave" => label \in {"leave", "end"}, label # "exited"
  PROVE  /\ fx' \in Seq(Frames) /\ Len(fx') = Len(fx)
         /\ FrameInv' /\ RunInv' /\ StackInv' /\ LoopInv' /\ BatchInv'
<1> USE DEF Inv
<1>1. /\ fx' \in Seq(Frames) /\ Len(fx') = Len(fx)
      /\ \A i \in 1 .. Len(fx) : /\ fx'[i].k = fx[i].k
                                 /\ fx[i].k # "run" => fx'[i] = fx[i]
      /\ \A i \in 2 .. Len(fx) : fx'[i] = fx[i]
      /\ fx'[1].k = "run" /\ fx'[1].kind = fx[1].kind /\ fx'[1].n = fx[1].n
      /\ fx'[1].at = label /\ fx'[1].nested = fx[1].nested
      /\ \A e : Entered(e)' <=> Entered(e)
  BY NextPart
<1>2. Len(fx) \in Nat /\ Len(fx) >= 2
  <2>1. Len(fx) \in Nat /\ Len(fx) >= 1
    BY HeadOfFx
  <2> QED BY <2>1 DEF FrameInv
<1>3. FrameInv'
  BY <1>1, <1>2 DEF FrameInv
<1>4. RunInv'
  <2>1. \A i \in 1 .. Len(fx) : i = 1 \/ i \in 2 .. Len(fx)
    BY <1>2
  <2>2. \A i \in 1 .. Len(fx) : fx'[i].n = fx[i].n /\ fx'[i].k = fx[i].k /\ fx'[i].kind = fx[i].kind
    BY <1>1, <2>1
  <2>3. \A i, j \in 1 .. Len(fx') :
          i < j /\ fx'[i].k = "run" /\ fx'[j].k = "run" /\ fx'[i].n > 0 => fx'[i].n > fx'[j].n
    BY <2>2, <1>1 DEF RunInv
  <2>4. ASSUME NEW i \in 1 .. Len(fx'), fx'[i].k = "run"
        PROVE  /\ fx'[i].kind = "event" => fx'[i].at \in {"app", "exited"}
               /\ fx'[i].kind = "wait" => fx'[i].at \in {"app", "exited", "end"}
               /\ fx'[i].kind = "app" => fx'[i].at \in {"app", "exited", "fin", "end"}
               /\ fx'[i].kind = "dummy" => fx'[i].at \in {"fin", "end"}
               /\ fx'[i].kind = "leave" => fx'[i].at \in {"leave", "end"}
               /\ fx'[i].at = "exited" => fx'[i].nested
    <3>1. CASE i = 1
      BY <3>1, <1>1
    <3>2. CASE i \in 2 .. Len(fx)
      BY <3>2, <2>2, <2>4, <1>1 DEF RunInv
    <3> QED BY <3>1, <3>2, <2>1, <1>1
  <2>5. ASSUME NEW i \in 1 .. Len(fx'), fx'[i].k = "run"
        PROVE  /\ fx'[i].kind \in Deferred => fx'[i].n \in 1 .. started'
               /\ fx'[i].kind \notin Deferred => fx'[i].n = 0
    BY <2>2, <2>5, <1>1 DEF RunInv
  <2> QED BY <2>3, <2>4, <2>5 DEF RunInv
<1>5. StackInv'
  BY <1>1 DEF StackInv
<1>6. LoopInv'
  BY <1>1, <1>2 DEF LoopInv
<1>7. BatchInv'
  BY <1>1, <1>2 DEF BatchInv, Leaving
<1> QED BY <1>1, <1>3, <1>4, <1>5, <1>6, <1>7

\* The innermost loop is told to quit by what runs in it.
LEMMA QuitAt ==
  ASSUME NEW f \in Seq(Frames), Len(f) >= 2, f[1].k = "run", f[2].k = "loop",
         NEW kind \in Deferred \union {"event", "wait"}
  PROVE  LET q == Quit(f, kind) IN
         /\ q \in Seq(Frames) /\ Len(q) = Len(f) /\ q[1] = f[1]
         /\ q[2].k = "loop" /\ q[2].el = f[2].el /\ q[2].quit = kind
         /\ \A i \in 3 .. Len(f) : q[i] = f[i]
<1>1. Len(f) \in Nat /\ DOMAIN f = 1 .. Len(f) /\ \A i \in 1 .. Len(f) : f[i] \in Frames
  BY SeqAt
<1> DEFINE First(j) == f[j].k = "loop" /\ \A l \in 1 .. (j - 1) : f[l].k # "loop"
<1>2. \A j \in DOMAIN f : First(j) <=> j = 2
  BY <1>1
<1>3. (CHOOSE j \in DOMAIN f : First(j)) = 2
  BY <1>1, <1>2
<1> DEFINE g == [f[2] EXCEPT !.quit = kind]
<1>4. Quit(f, kind) = [f EXCEPT ![2] = g]
  BY <1>3 DEF Quit
<1>5. f[2] \in Loops
  BY <1>1, FrameKinds
<1>6. g \in Frames /\ g.k = "loop" /\ g.el = f[2].el /\ g.quit = kind
  BY <1>5, LoopQuit
<1> HIDE DEF g
<1> DEFINE q == [f EXCEPT ![2] = g]
<1>7. q \in Seq(Frames) /\ Len(q) = Len(f)
  BY <1>6
<1>8. q[1] = f[1] /\ q[2] = g /\ \A i \in 3 .. Len(f) : q[i] = f[i]
  BY <1>1
<1> HIDE DEF q
<1> QED BY <1>4, <1>6, <1>7, <1>8 DEF q

\* The loop around what is on top.
LEMMA AroundRun ==
  ASSUME TypeInv, FrameInv, fx[1].k = "run"
  PROVE  /\ Len(fx) \in Nat /\ Len(fx) >= 2 /\ fx[2].k = "loop"
         /\ \A i \in 1 .. Len(fx) : i = 1 \/ i = 2 \/ i \in 3 .. Len(fx)
<1>1. Len(fx) \in Nat /\ Len(fx) >= 1 /\ \A i \in 1 .. Len(fx) : fx[i] \in Frames
  BY HeadOfFx
<1>2. Len(fx) >= 2
  BY <1>1 DEF FrameInv
<1>3. fx[2].k # "run" /\ fx[2].k # "left" /\ fx[2] \in Frames
  BY <1>1, <1>2 DEF FrameInv
<1> QED BY <1>1, <1>2, <1>3, FrameKinds

\* EventLoop leaves the innermost loop, and perhaps the Runnable that did it ends.
LEMMA QuitInnermost ==
  ASSUME Inv, fx[1].k = "run",
         NEW f \in Seq(Frames), Len(f) = Len(fx), \A i \in 2 .. Len(fx) : f[i] = fx[i],
         f[1].k = "run", f[1].kind = fx[1].kind, f[1].n = fx[1].n, f[1].nested = fx[1].nested,
         f[1].at = fx[1].at \/ (fx[1].kind = "leave" /\ f[1].at = "end"),
         NEW kind \in Deferred \union {"event", "wait"},
         kind \in {"app", "leave"} => fx[1].kind \in Deferred,
         fx' = Quit(f, kind), UNCHANGED <<made, started, stack, batch, native, misled>>,
         fx[2].el \in 1 .. MaxLoops, eventLoopExitEnterPassValue' = fx[2].el,
         state'[fx[2].el] = "LEAVING",
         \A e \in 1 .. MaxLoops : /\ state[e] # "IDLE" <=> state'[e] # "IDLE"
                                  /\ state[e] = "LEAVING" => state'[e] = "LEAVING"
  PROVE  /\ fx' \in Seq(Frames) /\ Len(fx') = Len(fx) /\ fx'[1] = f[1]
         /\ FrameInv' /\ RunInv' /\ StackInv' /\ LoopInv' /\ BatchInv'
         /\ \A k \in {"app", "dummy"} : \A m : Doing(k, m)' <=> Doing(k, m)
<1> USE DEF Inv
<1>1. /\ Len(fx) \in Nat /\ Len(fx) >= 2 /\ fx[2].k = "loop"
      /\ \A i \in 1 .. Len(fx) : i = 1 \/ i = 2 \/ i \in 3 .. Len(fx)
  BY AroundRun
<1>2. f[2] = fx[2] /\ \A i \in 3 .. Len(fx) : f[i] = fx[i]
  BY <1>1
<1>3. /\ fx' \in Seq(Frames) /\ Len(fx') = Len(fx) /\ fx'[1] = f[1]
      /\ fx'[2].k = "loop" /\ fx'[2].el = fx[2].el /\ fx'[2].quit = kind
      /\ \A i \in 3 .. Len(fx) : fx'[i] = fx[i]
  BY <1>1, <1>2, QuitAt
<1>4. \A i \in 1 .. Len(fx) : /\ fx'[i].k = fx[i].k
                              /\ fx[i].k = "run" => fx'[i].kind = fx[i].kind /\ fx'[i].n = fx[i].n
                              /\ fx[i].k # "run" => fx'[i].el = fx[i].el
                              /\ i >= 3 => fx'[i] = fx[i]
  BY <1>1, <1>3
<1> HIDE DEF Inv
<1>i. TypeInv /\ FrameInv /\ RunInv /\ StackInv /\ LoopInv /\ BatchInv
  BY DEF Inv
<1>5. FrameInv'
  <2>1. /\ fx'[Len(fx')].k = "loop" /\ fx'[Len(fx')].el = 0
    BY <1>i, <1>1, <1>3, <1>4 DEF FrameInv
  <2>2. \A i \in 1 .. Len(fx') - 1 : /\ fx'[i].k = "run" <=> fx'[i + 1].k # "run"
                                     /\ fx'[i].k # "run" => fx'[i].el \in 1 .. made
    BY <1>i, <1>1, <1>3, <1>4 DEF FrameInv
  <2>3. ASSUME NEW i \in 2 .. Len(fx')
        PROVE  fx'[i].k # "left" /\ (fx'[i].k = "run" => fx'[i].at = "app")
    <3>1. CASE i = 2
      BY <3>1, <1>3
    <3>2. CASE i \in 3 .. Len(fx)
      BY <3>2, <1>i, <1>1, <1>3 DEF FrameInv
    <3> QED BY <3>1, <3>2, <1>1, <1>3
  <2> QED BY <2>1, <2>2, <2>3 DEF FrameInv
<1>6. RunInv'
  <2>1. ASSUME NEW i \in 1 .. Len(fx'), fx'[i].k = "run"
        PROVE  /\ fx'[i].kind = "event" => fx'[i].at \in {"app", "exited"}
               /\ fx'[i].kind = "wait" => fx'[i].at \in {"app", "exited", "end"}
               /\ fx'[i].kind = "app" => fx'[i].at \in {"app", "exited", "fin", "end"}
               /\ fx'[i].kind = "dummy" => fx'[i].at \in {"fin", "end"}
               /\ fx'[i].kind = "leave" => fx'[i].at \in {"leave", "end"}
               /\ fx'[i].at = "exited" => fx'[i].nested
    <3>1. CASE i = 1
      BY <3>1, <1>i, <1>1, <1>3 DEF RunInv
    <3>2. CASE i \in 3 .. Len(fx)
      BY <3>2, <2>1, <1>i, <1>1, <1>3 DEF RunInv
    <3> QED BY <3>1, <3>2, <2>1, <1>1, <1>3
  <2>2. ASSUME NEW i \in 1 .. Len(fx'), fx'[i].k = "run"
        PROVE  /\ fx'[i].kind \in Deferred => fx'[i].n \in 1 .. started'
               /\ fx'[i].kind \notin Deferred => fx'[i].n = 0
    BY <2>2, <1>i, <1>3, <1>4 DEF RunInv
  <2>3. \A i, j \in 1 .. Len(fx') :
          i < j /\ fx'[i].k = "run" /\ fx'[j].k = "run" /\ fx'[i].n > 0 => fx'[i].n > fx'[j].n
    BY <1>i, <1>3, <1>4 DEF RunInv
  <2> QED BY <2>1, <2>2, <2>3 DEF RunInv
<1>7. StackInv'
  <2>1. \A e : Entered(e)' <=> Entered(e)
    BY <1>3, <1>4 DEF Entered, Is
  <2>2. \A i, j \in 1 .. Len(fx') :
          i < j /\ fx'[i].k # "run" /\ fx'[j].k # "run" => fx'[i].el > fx'[j].el
    BY <1>i, <1>3, <1>4 DEF StackInv
  <2> QED BY <1>i, <2>1, <2>2 DEF StackInv
<1>8. LoopInv'
  <2>1. ASSUME NEW i \in 1 .. Len(fx'),
               fx'[i].k = "left" \/ (fx'[i].k = "loop" /\ fx'[i].quit # "no")
        PROVE  fx'[i].el \in 1 .. MaxLoops /\ state'[fx'[i].el] = "LEAVING"
    <3>1. i # 1
      BY <2>1, <1>3
    <3>2. CASE i = 2
      BY <3>2, <1>3
    <3>3. CASE i \in 3 .. Len(fx)
      BY <3>3, <2>1, <1>i, <1>1, <1>3 DEF LoopInv
    <3> QED BY <3>1, <3>2, <3>3, <1>1, <1>3
  <2>2. \A i \in 1 .. Len(fx') : i <= 2 /\ fx'[i].k = "loop" => i = 2
    BY <1>1, <1>3
  <2> QED BY <2>1, <2>2, <1>3 DEF LoopInv
<1>9. BatchInv'
  <2>1. Leaving' => Leaving
    <3>1. \A i \in 1 .. Len(fx') : i <= 2 /\ fx'[i].k = "loop" => i = 2
      BY <1>1, <1>3
    <3> QED BY <3>1, <1>3 DEF Leaving
  <2> QED BY <2>1, <1>i, <1>3 DEF BatchInv
<1>10. \A k \in {"app", "dummy"} : \A m : Doing(k, m)' <=> Doing(k, m)
  <2> TAKE k \in {"app", "dummy"}
  <2> TAKE m
  <2>1. \A i \in 1 .. Len(fx) : Busy(fx'[i], k, m) <=> Busy(fx[i], k, m)
    <3>1. Busy(fx'[1], k, m) <=> Busy(fx[1], k, m)
      BY <1>3 DEF Busy
    <3>2. ~Busy(fx'[2], k, m) /\ ~Busy(fx[2], k, m)
      BY <1>1, <1>3 DEF Busy
    <3> QED BY <3>1, <3>2, <1>1, <1>3
  <2> QED BY <2>1, <1>3 DEF Doing
<1> QED BY <1>3, <1>5, <1>6, <1>7, <1>8, <1>9, <1>10

-----------------------------------------------------------------------------
(***************************************************************************)
(* The dispatcher keeps the invariant.                                     *)
(***************************************************************************)
\* The first Runnable of the deque is taken.
LEMMA DispatcherTakeKeeps ==
  ASSUME Inv, ~notified, DispatcherTake, UNCHANGED platformVars
  PROVE  Inv'
<1> USE DEF Inv, DispatcherTake, dispVars, flags, loopVars, waitVars, platformVars
<1>d. /\ Len(deque) \in Nat /\ Len(deque) >= 1 /\ Len(deque') = Len(deque) - 1
      /\ deque' \in Seq(Items) /\ hand' = deque[1] /\ hand' \in Items
      /\ \A i \in 1 .. Len(deque) - 1 : deque'[i] = deque[i + 1]
  BY TailAt DEF TypeInv
<1>1. TypeInv'
  BY <1>d DEF TypeInv
<1>2. QueueInv'
  <2>1. posted \in Nat /\ Submitted' = Submitted /\ Submitted = posted - Len(deque)
    BY <1>d DEF Submitted, TypeInv
  <2>2. ASSUME NEW i \in 1 .. Len(deque') PROVE deque'[i].n = posted - Len(deque') + i
    <3>1. i + 1 \in 1 .. Len(deque) /\ deque'[i] = deque[i + 1]
      BY <1>d
    <3>2. deque[i + 1].n = posted - Len(deque) + (i + 1)
      BY <3>1 DEF QueueInv
    <3> QED BY <3>1, <3>2, <2>1, <1>d
  <2>3. hand'.n = Submitted' + 1
    BY <2>1, <1>d DEF QueueInv
  <2> QED BY <2>1, <2>2, <2>3 DEF QueueInv
<1>3. HandInv'
  BY <1>d DEF HandInv, Submitted
<1>4. FrameInv'
  BY DEF FrameInv
<1>5. RunInv'
  BY DEF RunInv
<1>6. StackInv'
  BY DEF StackInv, Entered
<1>7. LoopInv'
  BY DEF LoopInv
<1>8. BatchInv'
  BY DEF BatchInv, Leaving
<1>9. CountInv'
  <2>1. \A kind \in {"app", "dummy"}, m \in Nat : Due(kind, m)' <=> Due(kind, m)
    <3> TAKE kind \in {"app", "dummy"}, m \in Nat
    <3>1. Holds(deque, kind, m) <=> Holds(deque', kind, m) \/ (hand'.kind = kind /\ hand'.n = m)
      BY TailHolds DEF TypeInv
    <3> QED BY <3>1 DEF Due, Doing
  <2>2. Unfinished' = Unfinished
    BY <2>1, <1>1, DueSame
  <2> QED BY <2>2 DEF CountInv, PendingCounts
<1>10. IdleInv'
  BY DEF IdleInv, IdleIsReal, Nesting
<1> QED BY <1>1, <1>2, <1>3, <1>4, <1>5, <1>6, <1>7, <1>8, <1>9, <1>10

\* While a loop is being left the Runnable goes back in front of the others.
LEMMA DispatcherCheckKeeps ==
  ASSUME Inv, ~notified, DispatcherCheck, UNCHANGED platformVars
  PROVE  Inv'
<1> USE DEF Inv, DispatcherCheck, dispVars, flags, loopVars, waitVars, platformVars
<1>d. ASSUME leavingNestedEventLoop
      PROVE  /\ Len(deque) \in Nat /\ Len(deque') = Len(deque) + 1
             /\ deque' \in Seq(Items) /\ deque'[1] = hand /\ hand.kind \in Deferred
             /\ \A i \in 2 .. Len(deque) + 1 : deque'[i] = deque[i - 1]
             /\ \A i \in 1 .. Len(deque) : deque'[i + 1] = deque[i]
  <2>1. hand \in Items /\ deque \in Seq(Items) /\ hand.kind \in Deferred
    BY DEF TypeInv
  <2>2. deque' = <<hand>> \o deque
    BY <1>d
  <2> QED BY <2>1, <2>2, PushAt
<1>e. disp = "check" /\ UNCHANGED <<posted, started, native>>
      /\ (leavingNestedEventLoop => disp' = "defer")
  OBVIOUS
<1>1. TypeInv'
  <2>1. CASE leavingNestedEventLoop
    <3>1. ASSUME NEW i \in 1 .. Len(deque') PROVE deque'[i].kind \in Deferred
      <4>1. CASE i = 1
        BY <2>1, <4>1, <1>d
      <4>2. CASE i # 1
        <5>1. i - 1 \in 1 .. Len(deque) /\ deque'[i] = deque[i - 1]
          BY <4>2, <2>1, <1>d
        <5> QED BY <5>1 DEF TypeInv
      <4> QED BY <4>1, <4>2
    <3> QED BY <2>1, <3>1, <1>d DEF TypeInv
  <2>2. CASE ~leavingNestedEventLoop
    BY <2>2 DEF TypeInv
  <2> QED BY <2>1, <2>2
<1>2. QueueInv'
  <2>1. CASE leavingNestedEventLoop
    <3>0. Len(deque) \in Nat /\ Len(deque') = Len(deque) + 1
      BY <2>1, <1>d
    <3> HIDE DEF DispatcherCheck
    <3>1. posted \in Nat /\ Submitted' = Submitted /\ Submitted = posted - Len(deque) - 1
      BY <2>1, <3>0, <1>e DEF Submitted, TypeInv
    <3>2. ASSUME NEW i \in 1 .. Len(deque') PROVE deque'[i].n = posted - Len(deque') + i
      <4>1. CASE i = 1
        <5>1. deque'[i] = hand
          BY <4>1, <2>1, <1>d
        <5>2. hand.n = Submitted + 1
          BY <1>e DEF QueueInv
        <5> QED BY <5>1, <5>2, <4>1, <3>0, <3>1
      <4>2. CASE i # 1
        <5>1. i - 1 \in 1 .. Len(deque) /\ deque'[i] = deque[i - 1]
          BY <4>2, <2>1, <1>d
        <5>2. deque[i - 1].n = posted - Len(deque) + (i - 1)
          BY <5>1 DEF QueueInv
        <5> QED BY <5>1, <5>2, <3>1, <3>0
      <4> QED BY <4>1, <4>2
    <3> QED BY <2>1, <3>1, <3>2, <1>e DEF QueueInv
  <2>2. CASE ~leavingNestedEventLoop
    BY <2>2 DEF QueueInv, Submitted
  <2> QED BY <2>1, <2>2
<1>3. HandInv'
  BY DEF HandInv, Submitted
<1>4. FrameInv'
  BY DEF FrameInv
<1>5. RunInv'
  BY DEF RunInv
<1>6. StackInv'
  BY DEF StackInv, Entered
<1>7. LoopInv'
  BY DEF LoopInv
<1>8. BatchInv'
  BY DEF BatchInv, Leaving
<1>9. CountInv'
  <2>1. \A kind \in {"app", "dummy"}, m \in Nat : Due(kind, m)' <=> Due(kind, m)
    <3>1. CASE leavingNestedEventLoop
      <4> TAKE kind \in {"app", "dummy"}, m \in Nat
      <4>1. hand \in Items /\ deque \in Seq(Items) /\ deque' = <<hand>> \o deque
        BY <3>1 DEF TypeInv
      <4>2. Holds(deque', kind, m) <=> Holds(deque, kind, m) \/ (hand.kind = kind /\ hand.n = m)
        BY <4>1, PushHolds
      <4> QED BY <4>2, <3>1 DEF Due, Doing
    <3>2. CASE ~leavingNestedEventLoop
      BY <3>2 DEF Due, Doing
    <3> QED BY <3>1, <3>2
  <2>2. Unfinished' = Unfinished
    BY <2>1, <1>1, DueSame
  <2> QED BY <2>2 DEF CountInv, PendingCounts
<1>10. IdleInv'
  BY DEF IdleInv, IdleIsReal, Nesting
<1> QED BY <1>1, <1>2, <1>3, <1>4, <1>5, <1>6, <1>7, <1>8, <1>9, <1>10

LEMMA DispatcherDeferKeeps ==
  ASSUME Inv, ~notified, DispatcherDefer, UNCHANGED platformVars
  PROVE  Inv'
<1> USE DEF Inv, DispatcherDefer, dispVars, flags, loopVars, waitVars, platformVars
<1>1. TypeInv'
  BY DEF TypeInv
<1>2. QueueInv'
  BY DEF QueueInv, Submitted
<1>3. HandInv'
  BY DEF HandInv, Submitted
<1>4. FrameInv'
  BY DEF FrameInv
<1>5. RunInv'
  BY DEF RunInv
<1>6. StackInv'
  BY DEF StackInv, Entered
<1>7. LoopInv'
  BY DEF LoopInv
<1>8. BatchInv'
  BY DEF BatchInv, Leaving
<1>9. CountInv'
  <2>1. \A kind \in {"app", "dummy"}, m \in Nat : Due(kind, m)' <=> Due(kind, m)
    BY DEF Due, Doing
  <2>2. Unfinished' = Unfinished
    BY <2>1, <1>1, DueSame
  <2> QED BY <2>2 DEF CountInv, PendingCounts
<1>10. IdleInv'
  BY DEF IdleInv, IdleIsReal, Nesting
<1> QED BY <1>1, <1>2, <1>3, <1>4, <1>5, <1>6, <1>7, <1>8, <1>9, <1>10

\* The Runnable is handed to the native queue.
LEMMA DispatcherSubmitKeeps ==
  ASSUME Inv, ~notified, DispatcherSubmit, UNCHANGED platformVars
  PROVE  Inv'
<1> USE DEF Inv, DispatcherSubmit, dispVars, flags, loopVars, waitVars, platformVars
<1>d. /\ Len(native) \in Nat /\ Len(native') = Len(native) + 1
      /\ native' \in Seq(Items) /\ native'[Len(native) + 1] = hand
      /\ hand \in Items /\ hand.kind \in Deferred /\ hand.kind # "wait"
      /\ \A i \in 1 .. Len(native) : native'[i] = native[i]
  BY AppendAt DEF TypeInv, Deferred
<1>n. /\ hand.n \in Nat /\ Len(deque) \in Nat /\ posted \in Nat /\ started \in Nat
  BY <1>d DEF TypeInv, Items
<1>1. TypeInv'
  BY <1>d DEF TypeInv
<1>2. QueueInv'
  <2>1. Submitted' = Submitted + 1 /\ Submitted \in Int /\ hand.n = Submitted'
    BY <1>n DEF Submitted, QueueInv
  <2>2. ASSUME NEW i \in 1 .. Len(native'), native'[i].kind # "wait"
        PROVE  native'[i].n \in started + 1 .. Submitted'
    <3>1. CASE i \in 1 .. Len(native)
      BY <2>1, <2>2, <3>1, <1>d, <1>n DEF QueueInv
    <3>2. CASE i = Len(native) + 1
      BY <2>1, <3>2, <1>d, <1>n DEF QueueInv
    <3> QED BY <3>1, <3>2, <1>d
  <2>3. ASSUME NEW m \in started + 1 .. Submitted'
        PROVE  \E i \in 1 .. Len(native') : native'[i].kind # "wait" /\ native'[i].n = m
    <3>1. CASE m \in started + 1 .. Submitted
      <4>1. PICK i \in 1 .. Len(native) : native[i].kind # "wait" /\ native[i].n = m
        BY <3>1 DEF QueueInv
      <4> QED BY <4>1, <1>d
    <3>2. CASE m = Submitted'
      <4>1. Len(native) + 1 \in 1 .. Len(native')
        BY <1>d
      <4> QED BY <4>1, <3>2, <2>1, <1>d
    <3> QED BY <3>1, <3>2, <2>1, <1>n
  <2>4. ASSUME NEW i \in 1 .. Len(native'), NEW j \in 1 .. Len(native'), i < j,
               native'[i].kind # "wait", native'[j].kind # "wait"
        PROVE  native'[i].n < native'[j].n
    <3>1. i \in 1 .. Len(native) /\ native'[i] = native[i]
      BY <2>4, <1>d
    <3>2. CASE j \in 1 .. Len(native)
      BY <2>4, <3>1, <3>2, <1>d DEF QueueInv
    <3>3. CASE j = Len(native) + 1
      <4>1. native[i].n \in started + 1 .. Submitted
        BY <2>4, <3>1 DEF QueueInv
      <4> QED BY <4>1, <3>1, <3>3, <2>1, <1>d, <1>n
    <3> QED BY <3>2, <3>3, <1>d
  <2>5. /\ \A i \in 1 .. Len(deque') : deque'[i].n = posted' - Len(deque') + i
        /\ started' <= Submitted' /\ disp' \notin {"check", "submit"} /\ started' = started
    BY <2>1, <1>n DEF QueueInv
  <2> HIDE DEF DispatcherSubmit
  <2> QED BY <2>2, <2>3, <2>4, <2>5 DEF QueueInv
<1>3. HandInv'
  BY <1>d, <1>n DEF HandInv, QueueInv, Submitted
<1>4. FrameInv'
  BY DEF FrameInv
<1>5. RunInv'
  BY DEF RunInv
<1>6. StackInv'
  BY DEF StackInv, Entered
<1>7. LoopInv'
  BY DEF LoopInv
<1>8. BatchInv'
  BY <1>d DEF BatchInv, Leaving, TypeInv
<1>9. CountInv'
  <2>1. \A kind \in {"app", "dummy"}, m \in Nat : Due(kind, m)' <=> Due(kind, m)
    <3> TAKE kind \in {"app", "dummy"}, m \in Nat
    <3>1. Holds(native', kind, m) <=> Holds(native, kind, m) \/ (hand.kind = kind /\ hand.n = m)
      BY <1>d, AppendHolds DEF TypeInv
    <3> QED BY <3>1 DEF Due, Doing
  <2>2. Unfinished' = Unfinished
    BY <2>1, <1>1, DueSame
  <2> QED BY <2>2 DEF CountInv, PendingCounts
<1>10. IdleInv'
  BY DEF IdleInv, IdleIsReal, Nesting
<1> QED BY <1>1, <1>2, <1>3, <1>4, <1>5, <1>6, <1>7, <1>8, <1>9, <1>10

\* If the dispatcher believes an end that was not one, it knows that it is misled.
LEMMA DispatcherWaitKeeps ==
  ASSUME Inv, ~notified, DispatcherWait, UNCHANGED platformVars
  PROVE  Inv'
<1> USE DEF Inv, DispatcherWait, dispVars, flags, loopVars, waitVars, platformVars
<1>1. TypeInv'
  BY DEF TypeInv
<1>2. QueueInv'
  BY DEF QueueInv, Submitted
<1>3. HandInv'
  <2>1. disp' # "wait"
    OBVIOUS
  <2>2. ASSUME ~misled', NEW i \in 1 .. Len(native), native[i].kind # "wait" PROVE FALSE
    <3>1. native[i] = hand /\ ~misled
      BY <2>2 DEF HandInv
    <3>2. native[i].n > started /\ started \in Nat /\ native[i].n \in Int
      BY <2>2 DEF QueueInv, TypeInv, Submitted
    <3>3. ~futureDone
      BY <3>1, <3>2 DEF HandInv
    <3>4. Contains(native, hand)
      BY <3>1 DEF Contains
    <3> QED BY <2>2, <3>3, <3>4
  <2> QED BY <2>1, <2>2 DEF HandInv
<1>4. FrameInv'
  BY DEF FrameInv
<1>5. RunInv'
  BY DEF RunInv
<1>6. StackInv'
  BY DEF StackInv, Entered
<1>7. LoopInv'
  BY DEF LoopInv
<1>8. BatchInv'
  BY DEF BatchInv, Leaving
<1>9. CountInv'
  <2>1. \A kind \in {"app", "dummy"}, m \in Nat : Due(kind, m)' <=> Due(kind, m)
    BY DEF Due, Doing
  <2>2. Unfinished' = Unfinished
    BY <2>1, <1>1, DueSame
  <2> QED BY <2>2 DEF CountInv, PendingCounts
<1>10. IdleInv'
  BY DEF IdleInv, IdleIsReal, Nesting
<1> QED BY <1>1, <1>2, <1>3, <1>4, <1>5, <1>6, <1>7, <1>8, <1>9, <1>10

\* invokeAndWait goes past the deque.
LEMMA InvokeAndWaitKeeps ==
  ASSUME Inv, ~notified, InvokeAndWait, UNCHANGED platformVars
  PROVE  Inv'
<1> USE DEF Inv, InvokeAndWait, dispVars, flags, loopVars, waitVars, platformVars
<1>d. /\ Len(native) \in Nat /\ Len(native') = Len(native) + 1
      /\ native' \in Seq(Items) /\ native'[Len(native) + 1] = [kind |-> "wait", n |-> 0]
      /\ \A i \in 1 .. Len(native) : native'[i] = native[i]
  <2>1. [kind |-> "wait", n |-> 0] \in Items
    BY DEF Items
  <2> QED BY <2>1, AppendAt DEF TypeInv
<1>1. TypeInv'
  BY <1>d DEF TypeInv
<1>2. QueueInv'
  <2>1. Submitted' = Submitted
    BY DEF Submitted
  <2>2. ASSUME NEW i \in 1 .. Len(native'), native'[i].kind # "wait"
        PROVE  i \in 1 .. Len(native) /\ native'[i] = native[i]
    BY <2>2, <1>d
  <2>3. ASSUME NEW m \in started + 1 .. Submitted
        PROVE  \E i \in 1 .. Len(native') : native'[i].kind # "wait" /\ native'[i].n = m
    <3>1. PICK i \in 1 .. Len(native) : native[i].kind # "wait" /\ native[i].n = m
      BY DEF QueueInv
    <3> QED BY <3>1, <1>d
  <2>4. ASSUME NEW i \in 1 .. Len(native'), NEW j \in 1 .. Len(native'), i < j,
               native'[i].kind # "wait", native'[j].kind # "wait"
        PROVE  native'[i].n < native'[j].n
    <3>1. /\ i \in 1 .. Len(native) /\ native'[i] = native[i]
          /\ j \in 1 .. Len(native) /\ native'[j] = native[j]
      BY <2>2, <2>4
    <3> QED BY <2>4, <3>1 DEF QueueInv
  <2>5. UNCHANGED <<deque, posted, disp, hand, started>> /\ QueueInv
    OBVIOUS
  <2> HIDE DEF InvokeAndWait, Inv
  <2> QED BY <2>1, <2>2, <2>3, <2>4, <2>5 DEF QueueInv
<1>3. HandInv'
  BY <1>d DEF HandInv, Submitted
<1>4. FrameInv'
  BY DEF FrameInv
<1>5. RunInv'
  BY DEF RunInv
<1>6. StackInv'
  BY DEF StackInv, Entered
<1>7. LoopInv'
  BY DEF LoopInv
<1>8. BatchInv'
  BY <1>d DEF BatchInv, Leaving, TypeInv
<1>9. CountInv'
  <2>1. \A kind \in {"app", "dummy"}, m \in Nat : Due(kind, m)' <=> Due(kind, m)
    <3> TAKE kind \in {"app", "dummy"}, m \in Nat
    <3> DEFINE w == [kind |-> "wait", n |-> 0]
    <3>1. w \in Items /\ native \in Seq(Items) /\ native' = Append(native, w) /\ w.kind # kind
      BY DEF Items, TypeInv
    <3> HIDE DEF w
    <3>2. Holds(native', kind, m) <=> Holds(native, kind, m)
      BY <3>1, AppendHolds
    <3> QED BY <3>2 DEF Due, Doing
  <2>2. Unfinished' = Unfinished
    BY <2>1, <1>1, DueSame
  <2> QED BY <2>2 DEF CountInv, PendingCounts
<1>10. IdleInv'
  BY DEF IdleInv, IdleIsReal, Nesting
<1> QED BY <1>1, <1>2, <1>3, <1>4, <1>5, <1>6, <1>7, <1>8, <1>9, <1>10

-----------------------------------------------------------------------------
(***************************************************************************)
(* A Runnable is deferred.                                                 *)
(***************************************************************************)
LEMMA InvokeLaterAt ==
  ASSUME TypeInv, NEW kind \in Deferred, invokeLater(kind)
  PROVE  /\ deque' \in Seq(Items) /\ Len(deque) \in Nat /\ Len(deque') = Len(deque) + 1
         /\ deque'[Len(deque) + 1].n = posted + 1 /\ posted \in Nat /\ posted' = posted + 1
         /\ \A i \in 1 .. Len(deque) : deque'[i] = deque[i]
         /\ \A i \in 1 .. Len(deque') : deque'[i].kind \in Deferred
         /\ \A k, m : Holds(deque', k, m) <=> Holds(deque, k, m) \/ (k = kind /\ m = posted + 1)
<1> DEFINE r == [kind |-> kind, n |-> posted + 1]
<1>1. /\ posted \in Nat /\ posted' = posted + 1 /\ deque' = Append(deque, r)
      /\ deque \in Seq(Items)
  BY DEF TypeInv, invokeLater
<1>2. r \in Items /\ r.n = posted + 1 /\ r.kind = kind
  BY <1>1 DEF Items, Deferred
<1> HIDE DEF r
<1>3. /\ deque' \in Seq(Items) /\ Len(deque) \in Nat /\ Len(deque') = Len(deque) + 1
      /\ deque'[Len(deque) + 1] = r
      /\ \A i \in 1 .. Len(deque) : deque'[i] = deque[i]
  BY <1>1, <1>2, AppendAt
<1>4. ASSUME NEW i \in 1 .. Len(deque') PROVE deque'[i].kind \in Deferred
  <2>1. i \in 1 .. Len(deque) \/ i = Len(deque) + 1
    BY <1>3
  <2> QED BY <2>1, <1>2, <1>3 DEF TypeInv
<1>5. \A k, m : Holds(deque', k, m) <=> Holds(deque, k, m) \/ (k = kind /\ m = posted + 1)
  <2> TAKE k, m
  <2>1. Holds(Append(deque, r), k, m) <=> Holds(deque, k, m) \/ (r.kind = k /\ r.n = m)
    BY <1>1, <1>2, AppendHolds
  <2> QED BY <2>1, <1>1, <1>2
<1> QED BY <1>1, <1>2, <1>3, <1>4, <1>5

LEMMA InvokeLaterQueues ==
  ASSUME TypeInv, QueueInv, NEW kind \in Deferred, invokeLater(kind),
         UNCHANGED <<native, disp, hand, started>>
  PROVE  QueueInv' /\ Submitted' = Submitted
<1>1. /\ Len(deque) \in Nat /\ Len(deque') = Len(deque) + 1
      /\ deque'[Len(deque) + 1].n = posted + 1 /\ posted \in Nat /\ posted' = posted + 1
      /\ \A i \in 1 .. Len(deque) : deque'[i] = deque[i]
  BY InvokeLaterAt
<1>2. Submitted' = Submitted
  BY <1>1 DEF Submitted
<1>3. ASSUME NEW i \in 1 .. Len(deque') PROVE deque'[i].n = posted' - Len(deque') + i
  <2>1. CASE i \in 1 .. Len(deque)
    <3>1. deque[i].n = posted - Len(deque) + i /\ deque'[i] = deque[i]
      BY <1>1, <2>1 DEF QueueInv
    <3> QED BY <3>1, <1>1
  <2>2. CASE i = Len(deque) + 1
    BY <2>2, <1>1
  <2> QED BY <2>1, <2>2, <1>1
<1> QED BY <1>2, <1>3 DEF QueueInv

\* Its number is new.
LEMMA FreshNumber ==
  ASSUME TypeInv, QueueInv, RunInv
  PROVE  \A kind \in {"app", "dummy"} : ~Due(kind, posted + 1)
<1> SUFFICES ASSUME NEW kind \in {"app", "dummy"}, Due(kind, posted + 1) PROVE FALSE
  OBVIOUS
<1>1. posted \in Nat /\ Len(deque) \in Nat /\ started \in Nat
  BY DEF TypeInv
<1>2. Submitted \in Int /\ Submitted <= posted
  BY <1>1 DEF Submitted
<1>3. ~Holds(native, kind, posted + 1)
  BY <1>1, <1>2 DEF Holds, QueueInv
<1>4. ~Holds(deque, kind, posted + 1)
  BY <1>1 DEF Holds, QueueInv
<1>5. ~Doing(kind, posted + 1)
  BY <1>1, <1>2 DEF Doing, Busy, RunInv, QueueInv, Deferred
<1>6. ~(disp \in {"check", "submit"} /\ hand.n = posted + 1)
  BY <1>1 DEF QueueInv, Submitted
<1> QED BY <1>3, <1>4, <1>5, <1>6 DEF Due

-----------------------------------------------------------------------------
(***************************************************************************)
(* runLater keeps the invariant.                                           *)
(***************************************************************************)
\* A Runnable is counted before it is deferred.
LEMMA RunLaterKeeps ==
  ASSUME Inv, ~notified, RunLater
  PROVE  Inv'
<1> USE DEF Inv, RunLater, glassVars, dispVars, flags, loopVars, waitVars, platformVars
<1>1. TypeInv'
  BY DEF TypeInv
<1>2. QueueInv'
  BY DEF QueueInv, Submitted
<1>3. HandInv'
  BY DEF HandInv, Submitted
<1>4. FrameInv'
  BY DEF FrameInv
<1>5. RunInv'
  BY DEF RunInv
<1>6. StackInv'
  BY DEF StackInv, Entered
<1>7. LoopInv'
  BY DEF LoopInv
<1>8. BatchInv'
  BY DEF BatchInv, Leaving
<1>9. CountInv'
  <2>1. \A kind \in {"app", "dummy"}, m \in Nat : Due(kind, m)' <=> Due(kind, m)
    BY DEF Due, Doing
  <2>2. Unfinished' = Unfinished
    BY <2>1, <1>1, DueSame
  <2>3. Cardinality(Unfinished) \in Nat
    BY FS_CardinalityType DEF CountInv
  <2> QED BY <2>2, <2>3 DEF CountInv, PendingCounts
<1>10. IdleInv'
  BY DEF IdleInv, IdleIsReal, Nesting, TypeInv
<1> QED BY <1>1, <1>2, <1>3, <1>4, <1>5, <1>6, <1>7, <1>8, <1>9, <1>10

\* The Runnable that was counted is deferred.
LEMMA DeferKeeps ==
  ASSUME Inv, ~notified, Defer
  PROVE  Inv'
<1> USE DEF Inv, Defer, invokeLater, dispVars, flags, loopVars, waitVars, platformVars
<1>a. "app" \in Deferred
  BY DEF Deferred
<1>d. /\ deque' \in Seq(Items) /\ Len(deque) \in Nat /\ Len(deque') = Len(deque) + 1
      /\ posted \in Nat /\ posted' = posted + 1
      /\ \A i \in 1 .. Len(deque') : deque'[i].kind \in Deferred
      /\ \A k, m : Holds(deque', k, m) <=> Holds(deque, k, m) \/ (k = "app" /\ m = posted + 1)
  BY <1>a, InvokeLaterAt
<1>q. QueueInv' /\ Submitted' = Submitted
  BY <1>a, InvokeLaterQueues
<1>u. /\ UNCHANGED <<disp, hand, futureDone, native, batch, fx, stack, state, made, started,
                      misled, eventLoopExitEnterPassValue, numWindows, reallyIdle, notified>>
      /\ caller = "defers" /\ caller' = "idle" /\ pendingRunnables' = pendingRunnables
  OBVIOUS
<1> HIDE DEF Defer, invokeLater
<1>1. TypeInv'
  BY <1>d, <1>u DEF TypeInv
<1>2. QueueInv'
  BY <1>q
<1>3. HandInv'
  BY <1>q, <1>u DEF HandInv
<1>4. FrameInv'
  BY <1>u DEF FrameInv
<1>5. RunInv'
  BY <1>u DEF RunInv
<1>6. StackInv'
  BY <1>u DEF StackInv, Entered
<1>7. LoopInv'
  BY <1>u DEF LoopInv
<1>8. BatchInv'
  BY <1>u DEF BatchInv, Leaving
<1>9. CountInv'
  <2>1. \A kind \in {"app", "dummy"}, m \in Nat :
          Due(kind, m)' <=> Due(kind, m) \/ (kind = "app" /\ m = posted + 1)
    BY <1>d, <1>u DEF Due, Doing
  <2>2. ~Due("app", posted + 1) /\ posted + 1 \in Nat
    BY <1>d, FreshNumber
  <2>3. /\ IsFiniteSet(Unfinished') /\ Cardinality(Unfinished) \in Nat
        /\ Cardinality(Unfinished') = Cardinality(Unfinished) + 1
    BY <2>1, <2>2, <1>1, DueAdd DEF CountInv
  <2> QED BY <2>3, <1>u DEF CountInv, PendingCounts
<1>10. IdleInv'
  BY <1>u DEF IdleInv, IdleIsReal, Nesting, TypeInv
<1> QED BY <1>1, <1>2, <1>3, <1>4, <1>5, <1>6, <1>7, <1>8, <1>9, <1>10

\* On the FX thread both happen at once.
LEMMA RunLaterOnFxKeeps ==
  ASSUME Inv, ~notified, RunLaterOnFx
  PROVE  Inv'
<1> USE DEF Inv, RunLaterOnFx, invokeLater, dispVars, flags, loopVars, waitVars, platformVars
<1>a. "app" \in Deferred
  BY DEF Deferred
<1>d. /\ deque' \in Seq(Items) /\ Len(deque) \in Nat /\ Len(deque') = Len(deque) + 1
      /\ posted \in Nat /\ posted' = posted + 1
      /\ \A i \in 1 .. Len(deque') : deque'[i].kind \in Deferred
      /\ \A k, m : Holds(deque', k, m) <=> Holds(deque, k, m) \/ (k = "app" /\ m = posted + 1)
  BY <1>a, InvokeLaterAt
<1>q. QueueInv' /\ Submitted' = Submitted
  BY <1>a, InvokeLaterQueues
<1>u. /\ UNCHANGED <<disp, hand, futureDone, native, batch, fx, stack, state, made, started,
                      misled, eventLoopExitEnterPassValue, numWindows, reallyIdle, notified>>
      /\ caller' = caller /\ pendingRunnables' = pendingRunnables + 1
  OBVIOUS
<1> HIDE DEF RunLaterOnFx, invokeLater
<1>1. TypeInv'
  BY <1>d, <1>u DEF TypeInv
<1>2. QueueInv'
  BY <1>q
<1>3. HandInv'
  BY <1>q, <1>u DEF HandInv
<1>4. FrameInv'
  BY <1>u DEF FrameInv
<1>5. RunInv'
  BY <1>u DEF RunInv
<1>6. StackInv'
  BY <1>u DEF StackInv, Entered
<1>7. LoopInv'
  BY <1>u DEF LoopInv
<1>8. BatchInv'
  BY <1>u DEF BatchInv, Leaving
<1>9. CountInv'
  <2>1. \A kind \in {"app", "dummy"}, m \in Nat :
          Due(kind, m)' <=> Due(kind, m) \/ (kind = "app" /\ m = posted + 1)
    BY <1>d, <1>u DEF Due, Doing
  <2>2. ~Due("app", posted + 1) /\ posted + 1 \in Nat
    BY <1>d, FreshNumber
  <2>3. /\ IsFiniteSet(Unfinished') /\ Cardinality(Unfinished) \in Nat
        /\ Cardinality(Unfinished') = Cardinality(Unfinished) + 1
    BY <2>1, <2>2, <1>1, DueAdd DEF CountInv
  <2> QED BY <2>3, <1>u DEF CountInv, PendingCounts
<1>10. IdleInv'
  BY <1>u DEF IdleInv, IdleIsReal, Nesting, TypeInv
<1> QED BY <1>1, <1>2, <1>3, <1>4, <1>5, <1>6, <1>7, <1>8, <1>9, <1>10

-----------------------------------------------------------------------------
(***************************************************************************)
(* The native loop keeps the invariant.                                    *)
(***************************************************************************)
\* A loop takes a batch only when it was not left.
LEMMA IterateKeeps ==
  ASSUME Inv, ~notified, Iterate, UNCHANGED platformVars
  PROVE  Inv'
<1> USE DEF Inv, Iterate, InLoop, dispVars, flags, loopVars, waitVars, platformVars
<1>1. TypeInv'
  BY DEF TypeInv
<1>2. QueueInv'
  BY DEF QueueInv, Submitted
<1>3. HandInv'
  BY DEF HandInv, Submitted
<1>4. FrameInv'
  BY DEF FrameInv
<1>5. RunInv'
  BY DEF RunInv
<1>6. StackInv'
  BY DEF StackInv, Entered
<1>7. LoopInv'
  BY DEF LoopInv
<1>8. BatchInv'
  <2>1. ~Leaving'
    <3>1. fx[1].k = "loop" /\ fx[1].quit = "no" /\ Len(fx) \in Nat
      BY HeadOfFx
    <3>2. Len(fx) >= 2 => fx[2].k = "run"
      BY <3>1 DEF FrameInv
    <3> QED BY <3>1, <3>2 DEF Leaving
  <2>2. fx'[1].k # "left"
    BY HeadOfFx
  <2> QED BY <2>1, <2>2 DEF BatchInv
<1>9. CountInv'
  <2>1. \A kind \in {"app", "dummy"}, m \in Nat : Due(kind, m)' <=> Due(kind, m)
    BY DEF Due, Doing
  <2>2. Unfinished' = Unfinished
    BY <2>1, <1>1, DueSame
  <2> QED BY <2>2 DEF CountInv, PendingCounts
<1>10. IdleInv'
  BY DEF IdleInv, IdleIsReal, Nesting
<1> QED BY <1>1, <1>2, <1>3, <1>4, <1>5, <1>6, <1>7, <1>8, <1>9, <1>10

\* The next Runnable of the batch starts.
LEMMA DispatchKeeps ==
  ASSUME Inv, ~notified, Dispatch, UNCHANGED platformVars
  PROVE  Inv'
<1> USE DEF Inv, Dispatch, InLoop, dispVars, flags, loopVars, waitVars, platformVars
<1>h. /\ Head(fx) = fx[1] /\ Len(fx) \in Nat /\ Len(fx) >= 1 /\ fx[1].k = "loop"
      /\ (Len(fx) >= 2 => fx[2].k = "run")
  BY HeadOfFx DEF FrameInv
<1> DEFINE r == native[1]
           g == Frame(r, Entry(r.kind))
<1>n. /\ Len(native) \in Nat /\ Len(native) >= 1 /\ r \in Items /\ Head(native) = r
      /\ native' \in Seq(Items) /\ Len(native') = Len(native) - 1
      /\ \A i \in 1 .. Len(native') : i + 1 \in 2 .. Len(native) /\ native'[i] = native[i + 1]
  <2>1. native \in Seq(Items) /\ native # <<>>
    BY DEF TypeInv
  <2>2. /\ Len(native) \in Nat /\ Len(native) >= 1 /\ r \in Items /\ Head(native) = r
        /\ native' \in Seq(Items) /\ Len(native') = Len(native) - 1
        /\ \A i \in 1 .. Len(native) - 1 : native'[i] = native[i + 1]
    BY <2>1, TailAt
  <2> HIDE DEF Dispatch
  <2> QED BY <2>2
<1>t. \A k, m : Holds(native, k, m) <=> Holds(native', k, m) \/ (r.kind = k /\ r.n = m)
  <2>1. native \in Seq(Items) /\ native # <<>>
    BY DEF TypeInv
  <2> QED BY <1>n, <2>1, TailHolds
<1>r. /\ r.kind \in Deferred \union {"wait"} /\ r.n \in Nat /\ (r.kind = "wait" => r.n = 0)
      /\ r \in [kind : Deferred \union {"event", "wait"}, n : Nat]
      /\ "wait" \notin Deferred /\ "app" \in Deferred
  BY <1>n DEF Items, Deferred
<1>g. /\ g \in Frames /\ g.k = "run" /\ g.kind = r.kind /\ g.n = r.n
      /\ g.at = Entry(r.kind) /\ g.nested = FALSE
  BY <1>r, RunBegins
<1>u. /\ fx' = <<g>> \o fx /\ started' = (IF r.kind = "wait" THEN started ELSE r.n)
      /\ batch' = batch - 1 /\ batch > 0
      /\ misled' = (misled /\ \E i \in DOMAIN native' : native'[i].kind # "wait")
      /\ UNCHANGED <<deque, posted, disp, hand, futureDone, stack, state, made, notified,
                     eventLoopExitEnterPassValue, numWindows, reallyIdle, pendingRunnables,
                     caller>>
  BY <1>h, <1>n
<1>k. \A i \in 1 .. Len(native') : i + 1 \in 1 .. Len(native) /\ i + 1 > 1
  <2> HIDE DEF Dispatch
  <2> QED BY <1>n
<1>m. ~misled' /\ misled => \A i \in 1 .. Len(native') : native'[i].kind = "wait"
  <2>1. DOMAIN native' = 1 .. Len(native')
    BY <1>n
  <2> QED BY <2>1, <1>u
<1> HIDE DEF Dispatch, r, g
<1>f. /\ fx' \in Seq(Frames) /\ Len(fx') = Len(fx) + 1 /\ fx'[1] = g
      /\ \A i \in 1 .. Len(fx) : fx'[i + 1] = fx[i]
      /\ \A i \in 1 .. Len(fx') : i = 1 \/ (i - 1 \in 1 .. Len(fx) /\ fx'[i] = fx[i - 1])
      /\ \A e : Entered(e)' <=> Entered(e) \/ Is(g, e)
      /\ \A kind, m : Doing(kind, m)' <=> Doing(kind, m) \/ Busy(g, kind, m)
  BY <1>g, <1>u, PushFrame
<1>i. started \in Nat /\ posted \in Nat /\ Submitted \in Int /\ Submitted' = Submitted
      /\ started <= Submitted
  BY <1>u DEF TypeInv, Submitted, QueueInv
<1>s. r.kind # "wait" => r.n = started + 1 /\ r.n <= Submitted
  <2> SUFFICES ASSUME r.kind # "wait" PROVE r.n = started + 1 /\ r.n <= Submitted
    OBVIOUS
  <2>1. r.n \in started + 1 .. Submitted /\ 1 \in 1 .. Len(native)
    BY <1>n DEF QueueInv, r
  <2>2. PICK i \in 1 .. Len(native) : native[i].kind # "wait" /\ native[i].n = started + 1
    <3>1. started + 1 \in started + 1 .. Submitted
      BY <2>1, <1>i
    <3> QED BY <3>1 DEF QueueInv
  <2>3. i # 1 => r.n < native[i].n
    BY <2>1, <2>2, <1>n DEF QueueInv, r
  <2> QED BY <2>1, <2>2, <2>3, <1>r, <1>i DEF r
<1>w. \A i \in 1 .. Len(native') : native'[i].kind # "wait" => native'[i].n > started'
  <2> SUFFICES ASSUME NEW i \in 1 .. Len(native'), native'[i].kind # "wait"
               PROVE  native'[i].n > started'
    OBVIOUS
  <2>1. i + 1 \in 2 .. Len(native) /\ native'[i] = native[i + 1]
    BY <1>n
  <2>2. native[i + 1].n \in started + 1 .. Submitted
    BY <2>1, <1>n DEF QueueInv
  <2>3. r.kind # "wait" => r.n < native[i + 1].n
    BY <2>1, <1>n DEF QueueInv, r
  <2> QED BY <2>1, <2>2, <2>3, <1>i, <1>u, <1>r
<1>1. TypeInv'
  <2>1. batch' \in 0 .. Len(native')
    BY <1>n, <1>u DEF TypeInv
  <2>2. started' \in Nat
    BY <1>i, <1>r, <1>u
  <2> QED BY <2>1, <2>2, <1>n, <1>u, <1>f, <1>h DEF TypeInv
<1>2. QueueInv'
  <2>1. /\ \A i \in 1 .. Len(deque') : deque'[i].n = posted' - Len(deque') + i
        /\ disp' \in {"check", "submit"} => hand'.n = Submitted' + 1
    BY <1>u, <1>i DEF QueueInv
  <2>2. started' <= Submitted' /\ started' \in Nat
    BY <1>s, <1>i, <1>r, <1>u
  <2>3. ASSUME NEW i \in 1 .. Len(native'), native'[i].kind # "wait"
        PROVE  native'[i].n \in started' + 1 .. Submitted'
    <3>1. i + 1 \in 1 .. Len(native) /\ native'[i] = native[i + 1]
      BY <1>n
    <3>2. native[i + 1].n \in started + 1 .. Submitted
      BY <3>1, <2>3 DEF QueueInv
    <3> QED BY <3>1, <3>2, <2>2, <2>3, <1>w, <1>i
  <2>4. ASSUME NEW m \in started' + 1 .. Submitted'
        PROVE  \E i \in 1 .. Len(native') : native'[i].kind # "wait" /\ native'[i].n = m
    <3>1. m \in started + 1 .. Submitted /\ m > started'
      BY <2>2, <1>i, <1>s, <1>u
    <3>2. PICK i \in 1 .. Len(native) : native[i].kind # "wait" /\ native[i].n = m
      BY <3>1 DEF QueueInv
    <3>3. i # 1
      BY <3>1, <3>2, <1>u, <1>s, <1>i DEF r
    <3>4. i - 1 \in 1 .. Len(native') /\ (i - 1) + 1 = i
      BY <3>3, <1>n
    <3>5. native'[i - 1] = native[i]
      BY <3>4, <1>n
    <3> QED BY <3>2, <3>4, <3>5
  <2>5. ASSUME NEW i \in 1 .. Len(native'), NEW j \in 1 .. Len(native'), i < j,
               native'[i].kind # "wait", native'[j].kind # "wait"
        PROVE  native'[i].n < native'[j].n
    <3>1. /\ i + 1 \in 1 .. Len(native) /\ native'[i] = native[i + 1]
          /\ j + 1 \in 1 .. Len(native) /\ native'[j] = native[j + 1]
      BY <1>n, <1>k
    <3>2. i + 1 < j + 1
      BY <2>5
    <3>3. \A a, b \in 1 .. Len(native) :
            a < b /\ native[a].kind # "wait" /\ native[b].kind # "wait" => native[a].n < native[b].n
      BY DEF QueueInv
    <3> HIDE DEF Inv
    <3> QED BY <2>5, <3>1, <3>2, <3>3
  <2> QED BY <2>1, <2>2, <2>3, <2>4, <2>5 DEF QueueInv
<1>3. HandInv'
  <2>1. started' >= started /\ started' \in Nat
    BY <1>i, <1>s, <1>u, <1>r
  <2>2. disp = "wait" => hand.n \in Nat
    BY DEF TypeInv, Items
  <2>3. /\ disp' = "wait" => hand'.n \in 1 .. Submitted'
        /\ disp' = "wait" /\ futureDone' => hand'.n <= started'
    BY <2>1, <2>2, <1>i, <1>u DEF HandInv
  <2>4. ASSUME ~misled', NEW i \in 1 .. Len(native'), native'[i].kind # "wait"
        PROVE  disp' = "wait" /\ native'[i] = hand'
    <3>1. ~misled
      BY <2>4, <1>m
    <3>2. i + 1 \in 1 .. Len(native) /\ native'[i] = native[i + 1]
      BY <1>n
    <3> QED BY <2>4, <3>1, <3>2, <1>u DEF HandInv
  <2> QED BY <2>3, <2>4 DEF HandInv
<1>4. FrameInv'
  BY <1>f, <1>g, <1>h, <1>u DEF FrameInv
<1>5. RunInv'
  <2>1. ASSUME NEW j \in 1 .. Len(fx), fx[j].k = "run" PROVE fx[j].n \in 0 .. started
    BY <2>1, <1>i DEF RunInv
  <2>2. started' \in Nat /\ started' >= started /\ (r.kind # "wait" => r.n \in 1 .. started')
        /\ (r.n > 0 => r.n > started)
    BY <1>i, <1>s, <1>r, <1>u
  <2>3. g.kind # "event" /\ (g.kind = "wait" => g.at = "app" /\ g.n = 0)
        /\ (g.kind = "app" => g.at = "app") /\ (g.kind = "dummy" => g.at = "fin")
        /\ (g.kind = "leave" => g.at = "leave") /\ g.at # "exited"
        /\ (g.kind \in Deferred => g.n \in 1 .. started')
        /\ (g.kind \notin Deferred => g.n = 0) /\ g.n \in Nat
    BY <1>r, <1>g, <2>2 DEF Entry, Deferred
  <2>4. \A n \in 1 .. started : n \in 1 .. started'
    BY <2>2, <1>i
  <2>5. ASSUME NEW i \in 1 .. Len(fx'), fx'[i].k = "run", i # 1
        PROVE  i - 1 \in 1 .. Len(fx) /\ fx'[i] = fx[i - 1] /\ fx[i - 1].k = "run"
    BY <2>5, <1>f
  <2>6. ASSUME NEW i \in 1 .. Len(fx'), NEW j \in 1 .. Len(fx'), i < j, fx'[i].k = "run",
               fx'[j].k = "run", fx'[i].n > 0
        PROVE  fx'[i].n > fx'[j].n
    <3>1. j # 1
      BY <2>6
    <3>2. CASE i = 1
      <4>1. fx'[i] = g /\ g.n = r.n /\ r.n > started
        BY <2>6, <3>2, <2>2, <1>f, <1>g
      <4>2. fx'[j] = fx[j - 1] /\ fx[j - 1].n \in 0 .. started
        BY <2>6, <3>1, <2>5, <2>1
      <4> QED BY <4>1, <4>2, <1>i, <1>r
    <3>3. CASE i # 1
      <4>1. i - 1 < j - 1
        BY <2>6
      <4> QED BY <2>6, <3>1, <3>3, <4>1, <2>5 DEF RunInv
    <3> QED BY <3>2, <3>3
  <2>7. ASSUME NEW i \in 1 .. Len(fx'), fx'[i].k = "run"
        PROVE  /\ fx'[i].kind = "event" => fx'[i].at \in {"app", "exited"}
               /\ fx'[i].kind = "wait" => fx'[i].at \in {"app", "exited", "end"}
               /\ fx'[i].kind = "app" => fx'[i].at \in {"app", "exited", "fin", "end"}
               /\ fx'[i].kind = "dummy" => fx'[i].at \in {"fin", "end"}
               /\ fx'[i].kind = "leave" => fx'[i].at \in {"leave", "end"}
               /\ fx'[i].at = "exited" => fx'[i].nested
               /\ fx'[i].kind \in Deferred => fx'[i].n \in 1 .. started'
               /\ fx'[i].kind \notin Deferred => fx'[i].n = 0
    <3>1. CASE i = 1
      BY <3>1, <2>3, <1>f
    <3>2. CASE i # 1
      BY <3>2, <2>4, <2>5, <2>7 DEF RunInv
    <3> QED BY <3>1, <3>2
  <2> QED BY <2>6, <2>7 DEF RunInv
<1>6. StackInv'
  <2>1. \A e : Entered(e)' <=> Entered(e)
    BY <1>f, <1>g DEF Is
  <2>2. ASSUME NEW i \in 1 .. Len(fx'), NEW j \in 1 .. Len(fx'), i < j, fx'[i].k # "run",
               fx'[j].k # "run"
        PROVE  fx'[i].el > fx'[j].el
    <3>1. /\ i - 1 \in 1 .. Len(fx) /\ fx'[i] = fx[i - 1]
          /\ j - 1 \in 1 .. Len(fx) /\ fx'[j] = fx[j - 1]
      BY <2>2, <1>f, <1>g
    <3>2. i - 1 < j - 1
      BY <2>2
    <3> QED BY <2>2, <3>1, <3>2 DEF StackInv
  <2> QED BY <2>1, <2>2, <1>u DEF StackInv
<1>7. LoopInv'
  BY <1>f, <1>g, <1>h, <1>u DEF LoopInv
<1>8. BatchInv'
  <2>1. fx'[1].k = "run"
    BY <1>f, <1>g
  <2>2. ASSUME Leaving', ~misled', NEW i \in 1 .. batch', native'[i].kind # "wait" PROVE FALSE
    <3>1. /\ i \in 1 .. Len(native') /\ i + 1 \in 1 .. Len(native) /\ i + 1 \in 1 .. batch
          /\ native'[i] = native[i + 1]
      <4>1. i \in 1 .. Len(native') /\ i + 1 \in 1 .. batch
        <5>1. batch \in 0 .. Len(native)
          BY DEF TypeInv
        <5>2. i \in 1 .. batch - 1
          BY <1>u
        <5> HIDE DEF Inv
        <5> QED BY <5>1, <5>2, <1>n
      <4> QED BY <4>1, <1>n, <1>k
    <3>2. ~misled
      BY <2>2, <3>1, <1>m
    <3>3. native[i + 1] = hand
      BY <2>2, <3>1, <3>2 DEF HandInv
    <3>4. CASE r.kind # "wait"
      <4>1. native[1] = hand /\ 1 \in 1 .. Len(native) /\ 1 < i + 1
        BY <3>2, <3>4, <1>n DEF HandInv, r
      <4>2. native[1].n < native[i + 1].n
        BY <2>2, <3>1, <3>4, <4>1 DEF QueueInv, r
      <4> QED BY <3>3, <4>1, <4>2, <1>r DEF r
    <3>5. CASE r.kind = "wait"
      <4>1. fx'[1].kind \notin Deferred
        BY <3>5, <1>f, <1>g, <1>r
      <4>2. fx'[2] = fx[1]
        BY <1>f, <1>h
      <4>3. fx[1].quit \in {"app", "leave"}
        BY <2>2, <2>1, <4>1, <4>2, <1>f DEF Leaving
      <4>4. Leaving
        BY <4>3, <1>h DEF Leaving
      <4> QED BY <4>4, <3>1, <3>2, <2>2 DEF BatchInv
    <3> QED BY <3>4, <3>5
  <2> QED BY <2>1, <2>2 DEF BatchInv
<1>9. CountInv'
  <2>1. \A kind \in {"app", "dummy"}, m \in Nat : Due(kind, m)' <=> Due(kind, m)
    <3> TAKE kind \in {"app", "dummy"}, m \in Nat
    <3>1. Busy(g, kind, m) <=> r.kind = kind /\ r.n = m
      BY <1>g, <1>r DEF Busy, Entry, Deferred
    <3> QED BY <3>1, <1>f, <1>t, <1>u DEF Due
  <2>2. Unfinished' = Unfinished
    BY <2>1, <1>1, DueSame
  <2> QED BY <2>2 DEF CountInv, PendingCounts
<1>10. IdleInv'
  BY <1>f, <1>h, <1>u DEF IdleInv, IdleIsReal, Nesting
<1> QED BY <1>1, <1>2, <1>3, <1>4, <1>5, <1>6, <1>7, <1>8, <1>9, <1>10

\* An event is dispatched.
LEMMA EventKeeps ==
  ASSUME Inv, ~notified, Event, UNCHANGED platformVars
  PROVE  Inv'
<1> USE DEF Inv, Event, InLoop, dispVars, flags, loopVars, waitVars, platformVars
<1>h. /\ Head(fx) = fx[1] /\ Len(fx) \in Nat /\ Len(fx) >= 1 /\ fx[1].k = "loop"
      /\ (Len(fx) >= 2 => fx[2].k = "run")
  BY HeadOfFx DEF FrameInv
<1> DEFINE g == Frame([kind |-> "event", n |-> 0], "app")
<1>g. /\ g \in Frames /\ g.k = "run" /\ g.kind = "event" /\ g.n = 0 /\ g.at = "app"
      /\ "event" \notin Deferred
  BY DEF Frame, Frames, Runs, Deferred
<1>u. /\ fx' = <<g>> \o fx /\ batch = 0
      /\ UNCHANGED <<deque, posted, disp, hand, futureDone, native, batch, stack, state, made,
                     started, misled, eventLoopExitEnterPassValue, notified>>
  OBVIOUS
<1> HIDE DEF g, Event
<1>f. /\ fx' \in Seq(Frames) /\ Len(fx') = Len(fx) + 1 /\ fx'[1] = g
      /\ \A i \in 1 .. Len(fx) : fx'[i + 1] = fx[i]
      /\ \A i \in 1 .. Len(fx') : i = 1 \/ (i - 1 \in 1 .. Len(fx) /\ fx'[i] = fx[i - 1])
      /\ \A e : Entered(e)' <=> Entered(e) \/ Is(g, e)
      /\ \A kind, m : Doing(kind, m)' <=> Doing(kind, m) \/ Busy(g, kind, m)
  BY <1>g, <1>u, PushFrame
<1>1. TypeInv'
  BY <1>f, <1>h, <1>u DEF TypeInv
<1>2. QueueInv'
  BY <1>u DEF QueueInv, Submitted
<1>3. HandInv'
  BY <1>u DEF HandInv, Submitted
<1>4. FrameInv'
  BY <1>f, <1>g, <1>h, <1>u DEF FrameInv
<1>5. RunInv'
  <2>1. ASSUME NEW i \in 1 .. Len(fx'), NEW j \in 1 .. Len(fx'), i < j, fx'[i].k = "run",
               fx'[j].k = "run", fx'[i].n > 0
        PROVE  fx'[i].n > fx'[j].n
    <3>1. i # 1 /\ j # 1
      BY <2>1, <1>f, <1>g
    <3>2. i - 1 < j - 1
      BY <2>1
    <3>3. /\ i - 1 \in 1 .. Len(fx) /\ fx'[i] = fx[i - 1]
          /\ j - 1 \in 1 .. Len(fx) /\ fx'[j] = fx[j - 1]
      BY <3>1, <1>f
    <3> QED BY <2>1, <3>2, <3>3 DEF RunInv
  <2> QED BY <2>1, <1>f, <1>g, <1>u DEF RunInv
<1>6. StackInv'
  <2>1. \A e : Entered(e)' <=> Entered(e)
    BY <1>f, <1>g DEF Is
  <2>2. ASSUME NEW i \in 1 .. Len(fx'), NEW j \in 1 .. Len(fx'), i < j, fx'[i].k # "run",
               fx'[j].k # "run"
        PROVE  fx'[i].el > fx'[j].el
    <3>1. /\ i - 1 \in 1 .. Len(fx) /\ fx'[i] = fx[i - 1]
          /\ j - 1 \in 1 .. Len(fx) /\ fx'[j] = fx[j - 1]
      BY <2>2, <1>f, <1>g
    <3>2. i - 1 < j - 1
      BY <2>2
    <3> QED BY <2>2, <3>1, <3>2 DEF StackInv
  <2> QED BY <2>1, <2>2, <1>u DEF StackInv
<1>7. LoopInv'
  BY <1>f, <1>g, <1>h, <1>u DEF LoopInv
<1>8. BatchInv'
  BY <1>f, <1>g, <1>u DEF BatchInv
<1>9. CountInv'
  <2>1. \A kind \in {"app", "dummy"}, m \in Nat : Due(kind, m)' <=> Due(kind, m)
    BY <1>f, <1>g, <1>u DEF Due, Busy
  <2>2. Unfinished' = Unfinished
    BY <2>1, <1>1, DueSame
  <2> QED BY <2>2 DEF CountInv, PendingCounts
<1>10. IdleInv'
  BY <1>f, <1>h, <1>u DEF IdleInv, IdleIsReal, Nesting
<1> QED BY <1>1, <1>2, <1>3, <1>4, <1>5, <1>6, <1>7, <1>8, <1>9, <1>10

\* A loop that was left returns, with the value that was passed to it or none.
LEMMA LoopReturnKeeps ==
  ASSUME Inv, ~notified, LoopReturn, UNCHANGED platformVars
  PROVE  Inv'
<1> USE DEF Inv, LoopReturn, InLoop, dispVars, flags, loopVars, waitVars, platformVars
<1>h. /\ Head(fx) = fx[1] /\ Len(fx) \in Nat /\ Len(fx) >= 1 /\ fx[1].k = "loop"
      /\ fx[1].quit # "no"
  BY HeadOfFx
<1>l. fx[1].el \in 1 .. MaxLoops /\ state[fx[1].el] = "LEAVING"
      /\ eventLoopExitEnterPassValue \in {0, fx[1].el}
  BY <1>h DEF LoopInv
<1>m. Len(fx) >= 2 /\ fx[2].k = "run"
  <2>1. Len(fx) # 1
    BY <1>l DEF FrameInv
  <2> QED BY <2>1, <1>h DEF FrameInv
<1> DEFINE g == [k |-> "left", el |-> fx[1].el, ret |-> eventLoopExitEnterPassValue]
<1>g. /\ g \in Frames /\ g.k = "left" /\ g.el = fx[1].el /\ g.ret = eventLoopExitEnterPassValue
  <2>1. fx[1].el \in Nat /\ eventLoopExitEnterPassValue \in Nat
    BY <1>l, LoopsAssumption DEF TypeInv
  <2> QED BY <2>1 DEF Frames, Lefts
<1>u. fx' = <<g>> \o Tail(fx) /\ batch = 0
  BY <1>h
<1> HIDE DEF g
<1>f. /\ fx' \in Seq(Frames) /\ Len(fx') = Len(fx) /\ fx'[1] = g
      /\ \A i \in 2 .. Len(fx) : fx'[i] = fx[i]
      /\ \A e : Entered(e)' <=> EnteredBelow(e) \/ Is(g, e)
      /\ \A kind, m : Doing(kind, m)' <=> DoingBelow(kind, m) \/ Busy(g, kind, m)
  BY <1>g, <1>u, SwapFrame
<1>p. \A i \in 1 .. Len(fx) : i = 1 \/ i \in 2 .. Len(fx)
  BY <1>h
<1>1. TypeInv'
  BY <1>f, <1>h DEF TypeInv
<1>2. QueueInv'
  BY DEF QueueInv, Submitted
<1>3. HandInv'
  BY DEF HandInv, Submitted
<1>4. FrameInv'
  BY <1>f, <1>g, <1>h, <1>m DEF FrameInv
<1>5. RunInv'
  BY <1>f, <1>g, <1>p DEF RunInv
<1>6. StackInv'
  <2>1. \A e : Entered(e)' <=> Entered(e)
    BY <1>f, <1>g, <1>h, FirstFrame DEF Is
  <2>2. \A i \in 1 .. Len(fx) : (fx'[i].k = "run" <=> fx[i].k = "run")
                                /\ (fx[i].k # "run" => fx'[i].el = fx[i].el)
    BY <1>f, <1>g, <1>h, <1>p
  <2> QED BY <2>1, <2>2, <1>f DEF StackInv
<1>7. LoopInv'
  <2>1. \A i \in 1 .. Len(fx') : i <= 2 => fx'[i].k # "loop"
    BY <1>f, <1>g, <1>m, <1>h
  <2>2. ASSUME NEW i \in 1 .. Len(fx'),
               fx'[i].k = "left" \/ (fx'[i].k = "loop" /\ fx'[i].quit # "no")
        PROVE  fx'[i].el \in 1 .. MaxLoops /\ state[fx'[i].el] = "LEAVING"
    <3>1. CASE i = 1
      BY <3>1, <1>f, <1>g, <1>l
    <3>2. CASE i \in 2 .. Len(fx)
      BY <3>2, <2>2, <1>f DEF LoopInv
    <3> QED BY <3>1, <3>2, <1>p, <1>f
  <2> QED BY <2>1, <2>2, <1>f, <1>g, <1>l DEF LoopInv
<1>8. BatchInv'
  BY <1>u DEF BatchInv
<1>9. CountInv'
  <2>1. \A kind \in {"app", "dummy"}, m \in Nat : Due(kind, m)' <=> Due(kind, m)
    BY <1>f, <1>g, <1>h, FirstFrame DEF Due, Busy
  <2>2. Unfinished' = Unfinished
    BY <2>1, <1>1, DueSame
  <2> QED BY <2>2 DEF CountInv, PendingCounts
<1>10. IdleInv'
  BY <1>f, <1>g, <1>h DEF IdleInv, IdleIsReal, Nesting
<1> QED BY <1>1, <1>2, <1>3, <1>4, <1>5, <1>6, <1>7, <1>8, <1>9, <1>10

-----------------------------------------------------------------------------
(***************************************************************************)
(* Runnables and handlers keep the invariant.                              *)
(***************************************************************************)
\* A Runnable ends.
LEMMA FutureRunKeeps ==
  ASSUME Inv, ~notified, FutureRun, UNCHANGED platformVars
  PROVE  Inv'
<1> USE DEF Inv, FutureRun, dispVars, flags, loopVars, waitVars, platformVars
<1>h. Head(fx) = fx[1] /\ fx[1].k = "run" /\ fx[1].at = "end"
  BY HeadOfFx
<1>p. /\ fx' \in Seq(Frames) /\ Len(fx') >= 1 /\ FrameInv' /\ RunInv' /\ StackInv' /\ LoopInv'
      /\ BatchInv' /\ (Nesting => Nesting')
      /\ \A kind, m : Doing(kind, m)' \/ Busy(fx[1], kind, m) <=> Doing(kind, m)
  BY <1>h, PopRun
<1>1. TypeInv'
  BY <1>p DEF TypeInv
<1>2. QueueInv'
  BY DEF QueueInv, Submitted
<1>3. HandInv'
  <2>1. fx[1].n \in 0 .. started /\ started \in Nat
    BY <1>h, HeadOfFx DEF RunInv, TypeInv
  <2>2. disp = "wait" /\ futureDone' => hand.n <= started
    <3>1. futureDone' => futureDone \/ fx[1].n = hand.n
      BY <1>h
    <3> QED BY <2>1, <3>1 DEF HandInv
  <2> QED BY <2>2 DEF HandInv, Submitted
<1>4. FrameInv'
  BY <1>p
<1>5. RunInv'
  BY <1>p
<1>6. StackInv'
  BY <1>p
<1>7. LoopInv'
  BY <1>p
<1>8. BatchInv'
  BY <1>p
<1>9. CountInv'
  <2>1. \A kind \in {"app", "dummy"}, m \in Nat : Due(kind, m)' <=> Due(kind, m)
    BY <1>p, <1>h DEF Due, Busy
  <2>2. Unfinished' = Unfinished
    BY <2>1, <1>1, DueSame
  <2> QED BY <2>2 DEF CountInv, PendingCounts
<1>10. IdleInv'
  BY <1>p, <1>h DEF IdleInv, IdleIsReal
<1> QED BY <1>1, <1>2, <1>3, <1>4, <1>5, <1>6, <1>7, <1>8, <1>9, <1>10

\* A handler returns, or a Runnable comes to what follows it.
LEMMA ReturnKeeps ==
  ASSUME Inv, ~notified, Return, UNCHANGED platformVars
  PROVE  Inv'
<1> USE DEF Inv, Return, InApp, dispVars, flags, loopVars, waitVars, platformVars
<1>h. Head(fx) = fx[1] /\ fx[1].k = "run" /\ fx[1].at = "app" /\ Len(fx) \in Nat
  BY HeadOfFx
<1>t. TypeInv
  OBVIOUS
<1>p. ASSUME fx[1].kind = "event"
      PROVE  /\ fx' \in Seq(Frames) /\ Len(fx') >= 1 /\ FrameInv' /\ RunInv' /\ StackInv'
             /\ LoopInv' /\ BatchInv' /\ (Nesting => Nesting')
             /\ \A kind, m : Doing(kind, m)' \/ Busy(fx[1], kind, m) <=> Doing(kind, m)
  <2>1. fx' = Tail(fx)
    BY <1>p, <1>h
  <2> QED BY <2>1, <1>h, PopRun
<1>q. ASSUME fx[1].kind # "event"
      PROVE  \E label \in {"fin", "end"} :
               At(label) /\ (fx[1].kind = "wait" => label = "end")
                         /\ (fx[1].kind # "wait" => label = "fin" /\ fx[1].kind = "app")
  <2>1. fx[1].kind \in {"wait", "app"}
    <3>1. fx[1] \in Runs
      BY <1>h, HeadOfFx, FrameKinds
    <3>2. fx[1].kind \in {"app", "dummy", "leave", "event", "wait"}
      BY <3>1 DEF Runs, Deferred
    <3> QED BY <1>q, <1>h, <3>2, HeadOfFx DEF RunInv
  <2> QED BY <1>q, <1>h, <2>1
<1>r. ASSUME fx[1].kind # "event"
      PROVE  /\ fx' \in Seq(Frames) /\ Len(fx') = Len(fx) /\ FrameInv' /\ RunInv' /\ StackInv'
             /\ LoopInv' /\ BatchInv'
             /\ \A kind \in {"app", "dummy"} : \A m : Doing(kind, m)' <=> Doing(kind, m)
  <2>1. PICK label \in {"fin", "end"} :
               At(label) /\ (fx[1].kind = "wait" => label = "end")
                         /\ (fx[1].kind # "wait" => label = "fin" /\ fx[1].kind = "app")
    BY <1>q, <1>r
  <2>2. /\ fx' \in Seq(Frames) /\ Len(fx') = Len(fx) /\ FrameInv' /\ RunInv' /\ StackInv'
        /\ LoopInv' /\ BatchInv'
    BY <2>1, <1>h, <1>r, PartRun
  <2>3. \A kind, m : Doing(kind, m)' <=>
          DoingBelow(kind, m) \/ (fx[1].kind = kind /\ fx[1].n = m /\ label # "end")
    <3>1. label \in {"app", "fin", "leave", "end", "exited"} /\ At(label)
      BY <2>1
    <3> HIDE DEF Return, InApp, Inv
    <3> QED BY <3>1, <1>h, <1>t, NextPart
  <2>4. \A kind \in {"app", "dummy"} : \A m : Doing(kind, m)' <=> Doing(kind, m)
    BY <2>1, <2>3, <1>h, FirstFrame DEF Busy
  <2> QED BY <2>2, <2>4
<1>u. UNCHANGED <<deque, posted, disp, hand, futureDone, native, batch, stack, state, made, started,
                  misled, eventLoopExitEnterPassValue, notified>>
  OBVIOUS
<1> HIDE DEF Return
<1>1. TypeInv'
  <2>1. fx' \in Seq(Frames) /\ Len(fx') >= 1
    BY <1>p, <1>r, <1>h DEF TypeInv
  <2> QED BY <2>1, <1>u DEF TypeInv
<1>2. QueueInv'
  BY <1>u DEF QueueInv, Submitted
<1>3. HandInv'
  BY <1>u DEF HandInv, Submitted
<1>4. FrameInv'
  BY <1>p, <1>r
<1>5. RunInv'
  BY <1>p, <1>r
<1>6. StackInv'
  BY <1>p, <1>r
<1>7. LoopInv'
  BY <1>p, <1>r
<1>8. BatchInv'
  BY <1>p, <1>r
<1>9. CountInv'
  <2>1. \A kind \in {"app", "dummy"}, m \in Nat : Due(kind, m)' <=> Due(kind, m)
    <3>1. \A kind \in {"app", "dummy"} : \A m : Doing(kind, m)' <=> Doing(kind, m)
      BY <1>p, <1>r DEF Busy
    <3> QED BY <3>1, <1>u DEF Due
  <2>2. Unfinished' = Unfinished
    BY <2>1, <1>1, DueSame
  <2> QED BY <2>2 DEF CountInv, PendingCounts
<1>10. IdleInv'
  <2>1. Nesting => Nesting'
    BY <1>p, <1>r DEF Nesting
  <2> QED BY <2>1, <1>h, <1>u DEF IdleInv, IdleIsReal
<1> QED BY <1>1, <1>2, <1>3, <1>4, <1>5, <1>6, <1>7, <1>8, <1>9, <1>10

-----------------------------------------------------------------------------
(***************************************************************************)
(* EventLoop keeps the invariant.                                          *)
(***************************************************************************)
\* A nested loop is entered.
LEMMA EnterKeeps ==
  ASSUME Inv, ~notified, Enter, UNCHANGED platformVars
  PROVE  Inv'
<1> USE DEF Inv, Enter, InApp, dispVars, flags, loopVars, waitVars, platformVars
<1>h. /\ Head(fx) = fx[1] /\ fx[1].k = "run" /\ fx[1].at = "app" /\ Len(fx) \in Nat
      /\ Len(fx) >= 2 /\ made \in Nat /\ made + 1 \in 1 .. MaxLoops /\ made < MaxLoops
  BY HeadOfFx, AroundRun, LoopsAssumption DEF TypeInv
<1> DEFINE g == [k |-> "loop", el |-> made + 1, quit |-> "no"]
<1>g. g \in Frames /\ g.k = "loop" /\ g.el = made + 1 /\ g.quit = "no"
  BY <1>h DEF Frames, Loops
<1>u. /\ fx' = <<g>> \o fx /\ batch' = 0 /\ made' = made + 1 /\ stack' = <<made + 1>> \o stack
      /\ state' = [state EXCEPT ![made + 1] = "ACTIVE"]
      /\ UNCHANGED <<deque, posted, disp, hand, futureDone, native, started, misled,
                     eventLoopExitEnterPassValue, notified>>
  OBVIOUS
<1> HIDE DEF g, Enter
<1>f. /\ fx' \in Seq(Frames) /\ Len(fx') = Len(fx) + 1 /\ fx'[1] = g
      /\ \A i \in 1 .. Len(fx) : fx'[i + 1] = fx[i]
      /\ \A i \in 1 .. Len(fx') : i = 1 \/ (i - 1 \in 1 .. Len(fx) /\ fx'[i] = fx[i - 1])
      /\ \A e : Entered(e)' <=> Entered(e) \/ Is(g, e)
      /\ \A kind, m : Doing(kind, m)' <=> Doing(kind, m) \/ Busy(g, kind, m)
  BY <1>g, <1>u, PushFrame
<1>s. /\ stack' \in Seq(1 .. MaxLoops) /\ Len(stack) \in Nat /\ Len(stack') = Len(stack) + 1
      /\ stack'[1] = made + 1
      /\ \A i \in 2 .. Len(stack) + 1 : stack'[i] = stack[i - 1]
      /\ \A i \in 1 .. Len(stack) : stack'[i + 1] = stack[i] /\ stack[i] \in 1 .. MaxLoops
  <2>1. stack \in Seq(1 .. MaxLoops)
    BY DEF TypeInv
  <2>2. /\ stack' \in Seq(1 .. MaxLoops) /\ Len(stack) \in Nat /\ Len(stack') = Len(stack) + 1
        /\ stack'[1] = made + 1
        /\ \A i \in 2 .. Len(stack) + 1 : stack'[i] = stack[i - 1]
        /\ \A i \in 1 .. Len(stack) : stack'[i + 1] = stack[i]
    BY <2>1, <1>h, <1>u, PushAt
  <2>3. \A i \in 1 .. Len(stack) : stack[i] \in 1 .. MaxLoops
    BY <2>1, SeqAt
  <2> QED BY <2>2, <2>3
<1>e. \A i \in 1 .. Len(fx) : fx[i].k # "run" => fx[i].el \in 0 .. made
  BY <1>h DEF FrameInv
<1>t. \A e \in 1 .. MaxLoops : /\ state'[e] = IF e = made + 1 THEN "ACTIVE" ELSE state[e]
  BY <1>u DEF TypeInv
<1>1. TypeInv'
  <2>1. state' \in [1 .. MaxLoops -> {"IDLE", "ACTIVE", "LEAVING"}]
    BY <1>u, <1>h DEF TypeInv
  <2>2. made' \in 0 .. MaxLoops /\ batch' \in 0 .. Len(native')
    BY <1>u, <1>h, LoopsAssumption DEF TypeInv
  <2> QED BY <2>1, <2>2, <1>f, <1>h, <1>s, <1>u DEF TypeInv
<1>2. QueueInv'
  BY <1>u DEF QueueInv, Submitted
<1>3. HandInv'
  BY <1>u DEF HandInv, Submitted
<1>4. FrameInv'
  <2>1. fx'[Len(fx')] = fx[Len(fx)]
    BY <1>f, <1>h
  <2>2. ASSUME NEW i \in 1 .. Len(fx') - 1
        PROVE  /\ fx'[i].k = "run" <=> fx'[i + 1].k # "run"
               /\ fx'[i].k # "run" => fx'[i].el \in 1 .. made'
    <3>1. CASE i = 1
      BY <3>1, <1>f, <1>g, <1>h, <1>u
    <3>2. CASE i # 1
      <4>1. /\ i - 1 \in 1 .. Len(fx) - 1 /\ fx'[i] = fx[i - 1]
            /\ (i - 1) + 1 = i /\ fx'[i + 1] = fx[i]
        <5>1. i \in 1 .. Len(fx) /\ i \in 1 .. Len(fx') /\ i - 1 \in 1 .. Len(fx) - 1
              /\ (i - 1) + 1 = i
          BY <3>2, <1>f, <1>h
        <5> QED BY <5>1, <3>2, <1>f
      <4>2. fx[i - 1].k = "run" <=> fx[(i - 1) + 1].k # "run"
        BY <4>1 DEF FrameInv
      <4>3. fx[i - 1].k # "run" => fx[i - 1].el \in 1 .. made
        BY <4>1 DEF FrameInv
      <4> QED BY <4>1, <4>2, <4>3, <1>u, <1>h
    <3> QED BY <3>1, <3>2
  <2>3. ASSUME NEW i \in 2 .. Len(fx')
        PROVE  fx'[i].k # "left" /\ (fx'[i].k = "run" => fx'[i].at = "app")
    <3>1. CASE i = 2
      BY <3>1, <1>f, <1>h
    <3>2. CASE i # 2
      <4>1. i - 1 \in 2 .. Len(fx) /\ fx'[i] = fx[i - 1]
        BY <3>2, <1>f, <1>h
      <4> QED BY <4>1 DEF FrameInv
    <3> QED BY <3>1, <3>2
  <2> QED BY <2>1, <2>2, <2>3 DEF FrameInv
<1>5. RunInv'
  <2>1. ASSUME NEW i \in 1 .. Len(fx'), fx'[i].k = "run"
        PROVE  i - 1 \in 1 .. Len(fx) /\ fx'[i] = fx[i - 1]
    BY <2>1, <1>f, <1>g
  <2>2. ASSUME NEW i \in 1 .. Len(fx'), NEW j \in 1 .. Len(fx'), i < j PROVE i - 1 < j - 1
    BY <2>2
  <2>3. ASSUME NEW i \in 1 .. Len(fx'), NEW j \in 1 .. Len(fx'), i < j, fx'[i].k = "run",
               fx'[j].k = "run", fx'[i].n > 0
        PROVE  fx'[i].n > fx'[j].n
    <3>1. \A a, b \in 1 .. Len(fx) :
            a < b /\ fx[a].k = "run" /\ fx[b].k = "run" /\ fx[a].n > 0 => fx[a].n > fx[b].n
      BY DEF RunInv
    <3> HIDE DEF Inv
    <3> QED BY <2>1, <2>2, <2>3, <3>1
  <2>4. ASSUME NEW i \in 1 .. Len(fx'), fx'[i].k = "run"
        PROVE  /\ fx'[i].kind = "event" => fx'[i].at \in {"app", "exited"}
               /\ fx'[i].kind = "wait" => fx'[i].at \in {"app", "exited", "end"}
               /\ fx'[i].kind = "app" => fx'[i].at \in {"app", "exited", "fin", "end"}
               /\ fx'[i].kind = "dummy" => fx'[i].at \in {"fin", "end"}
               /\ fx'[i].kind = "leave" => fx'[i].at \in {"leave", "end"}
               /\ fx'[i].at = "exited" => fx'[i].nested
               /\ fx'[i].kind \in Deferred => fx'[i].n \in 1 .. started'
               /\ fx'[i].kind \notin Deferred => fx'[i].n = 0
    BY <2>1, <2>4, <1>u DEF RunInv
  <2> QED BY <2>3, <2>4 DEF RunInv
<1>6. StackInv'
  <2>1. ASSUME NEW e \in 1 .. MaxLoops, Entered(e) PROVE e <= made
    BY <2>1, <1>e, <1>h DEF Entered, Is
  <2>2. ASSUME NEW e \in 1 .. MaxLoops
        PROVE  (\E i \in 1 .. Len(stack') : stack'[i] = e) <=> Entered(e)'
    <3>1. Entered(e)' <=> Entered(e) \/ e = made + 1
      BY <1>f, <1>g DEF Is
    <3>2. (\E i \in 1 .. Len(stack) : stack[i] = e) <=> Entered(e)
      BY DEF StackInv
    <3>3. ASSUME NEW i \in 1 .. Len(stack'), stack'[i] = e PROVE Entered(e)'
      <4>1. CASE i = 1
        BY <3>1, <3>3, <4>1, <1>s
      <4>2. CASE i # 1
        <5>1. i - 1 \in 1 .. Len(stack) /\ stack'[i] = stack[i - 1]
          BY <4>2, <1>s
        <5> QED BY <3>1, <3>2, <3>3, <5>1
      <4> QED BY <4>1, <4>2
    <3>4. ASSUME Entered(e)' PROVE \E i \in 1 .. Len(stack') : stack'[i] = e
      <4>1. CASE e = made + 1
        <5>1. 1 \in 1 .. Len(stack')
          BY <1>s
        <5> QED BY <4>1, <5>1, <1>s
      <4>2. CASE Entered(e)
        <5>1. PICK i \in 1 .. Len(stack) : stack[i] = e
          BY <3>2, <4>2
        <5>2. i + 1 \in 1 .. Len(stack')
          BY <1>s
        <5> QED BY <5>1, <5>2, <1>s
      <4> QED BY <3>1, <3>4, <4>1, <4>2
    <3> QED BY <3>3, <3>4
  <2>3. ASSUME NEW e \in 1 .. MaxLoops PROVE state'[e] # "IDLE" <=> Entered(e)'
    BY <1>f, <1>g, <1>t DEF StackInv, Is
  <2>4. ASSUME NEW i \in 1 .. Len(stack'), NEW j \in 1 .. Len(stack'), i < j
        PROVE  stack'[i] > stack'[j]
    <3>1. j - 1 \in 1 .. Len(stack) /\ stack'[j] = stack[j - 1] /\ stack[j - 1] \in 1 .. MaxLoops
      BY <2>4, <1>s
    <3>2. Entered(stack[j - 1])
      BY <3>1 DEF StackInv
    <3>3. CASE i = 1
      BY <3>1, <3>2, <3>3, <2>1, <1>s, <1>h
    <3>4. CASE i # 1
      <4>1. i - 1 \in 1 .. Len(stack) /\ stack'[i] = stack[i - 1] /\ i - 1 < j - 1
        BY <2>4, <3>4, <1>s
      <4> QED BY <3>1, <4>1 DEF StackInv
    <3> QED BY <3>3, <3>4
  <2>5. ASSUME NEW i \in 1 .. Len(fx'), NEW j \in 1 .. Len(fx'), i < j, fx'[i].k # "run",
               fx'[j].k # "run"
        PROVE  fx'[i].el > fx'[j].el
    <3>1. j - 1 \in 1 .. Len(fx) /\ fx'[j] = fx[j - 1]
      BY <2>5, <1>f
    <3>2. CASE i = 1
      <4>1. fx[j - 1].el \in 0 .. made
        BY <2>5, <3>1, <1>e
      <4> QED BY <4>1, <3>1, <3>2, <1>f, <1>g, <1>h
    <3>3. CASE i # 1
      <4>1. i - 1 \in 1 .. Len(fx) /\ fx'[i] = fx[i - 1] /\ i - 1 < j - 1
        BY <2>5, <3>3, <1>f
      <4> QED BY <2>5, <3>1, <4>1 DEF StackInv
    <3> QED BY <3>2, <3>3
  <2> QED BY <2>2, <2>3, <2>4, <2>5 DEF StackInv
<1>7. LoopInv'
  <2>1. ASSUME NEW i \in 1 .. Len(fx'),
               fx'[i].k = "left" \/ (fx'[i].k = "loop" /\ fx'[i].quit # "no")
        PROVE  fx'[i].el \in 1 .. MaxLoops /\ state'[fx'[i].el] = "LEAVING"
    <3>1. i - 1 \in 1 .. Len(fx) /\ fx'[i] = fx[i - 1]
      BY <2>1, <1>f, <1>g
    <3>2. fx[i - 1].el \in 1 .. MaxLoops /\ state[fx[i - 1].el] = "LEAVING"
      BY <2>1, <3>1 DEF LoopInv
    <3>3. fx[i - 1].el \in 0 .. made
      BY <2>1, <3>1, <1>e
    <3> QED BY <3>1, <3>2, <3>3, <1>t, <1>h
  <2>2. \A i \in 1 .. Len(fx') : i <= 2 /\ fx'[i].k = "loop" => fx'[i].quit = "no"
    BY <1>f, <1>g, <1>h
  <2>3. fx'[1].k # "left"
    BY <1>f, <1>g
  <2> QED BY <2>1, <2>2, <2>3 DEF LoopInv
<1>8. BatchInv'
  BY <1>u DEF BatchInv
<1>9. CountInv'
  <2>1. \A kind \in {"app", "dummy"}, m \in Nat : Due(kind, m)' <=> Due(kind, m)
    BY <1>f, <1>g, <1>u DEF Due, Busy
  <2>2. Unfinished' = Unfinished
    BY <2>1, <1>1, DueSame
  <2> QED BY <2>2 DEF CountInv, PendingCounts
<1>10. IdleInv'
  BY <1>f, <1>h, <1>u DEF IdleInv, IdleIsReal, Nesting
<1> QED BY <1>1, <1>2, <1>3, <1>4, <1>5, <1>6, <1>7, <1>8, <1>9, <1>10

\* A loop is left, at once or when it is the innermost one.
LEMMA LeaveKeeps ==
  ASSUME Inv, ~notified, NEW e \in 1 .. MaxLoops, Leave(e), UNCHANGED platformVars
  PROVE  Inv'
<1> USE DEF Inv, Leave, InApp, dispVars, flags, loopVars, waitVars, platformVars
<1>h. /\ Head(fx) = fx[1] /\ fx[1].k = "run" /\ fx[1].at = "app" /\ Len(fx) \in Nat
      /\ Len(fx) >= 2 /\ fx[2].k = "loop"
  BY HeadOfFx, AroundRun
<1>k. fx[1].kind \in Deferred \union {"event", "wait"}
  <2>1. fx[1] \in Runs
    BY <1>h, HeadOfFx, FrameKinds
  <2> QED BY <2>1 DEF Runs
<1>t. /\ \A i \in 1 .. MaxLoops : state'[i] = IF i = e THEN "LEAVING" ELSE state[i]
      /\ state' \in [1 .. MaxLoops -> {"IDLE", "ACTIVE", "LEAVING"}] /\ state[e] = "ACTIVE"
  BY DEF TypeInv
<1>u. UNCHANGED <<deque, posted, disp, hand, futureDone, native, batch, stack, made, started,
                  misled, notified, numWindows, reallyIdle, pendingRunnables, caller>>
  OBVIOUS
<1>c. \A i \in 1 .. MaxLoops : /\ state[i] # "IDLE" <=> state'[i] # "IDLE"
                               /\ state[i] = "LEAVING" => state'[i] = "LEAVING"
  <2> HIDE DEF Leave
  <2> QED BY <1>t
<1>a. ASSUME Head(stack) = e
      PROVE  /\ fx' \in Seq(Frames) /\ Len(fx') = Len(fx) /\ fx'[1] = fx[1]
             /\ FrameInv' /\ RunInv' /\ StackInv' /\ LoopInv' /\ BatchInv'
             /\ \A kind \in {"app", "dummy"} : \A m : Doing(kind, m)' <=> Doing(kind, m)
             /\ eventLoopExitEnterPassValue' \in Nat
  <2>1. fx' = Quit(fx, fx[1].kind) /\ eventLoopExitEnterPassValue' = e
    BY <1>a, <1>h DEF leaveNestedEventLoop
  <2>2. fx[2].el = e
    <3>1. Entered(e)
      BY <1>t DEF StackInv
    <3>2. \E i \in 1 .. Len(stack) : stack[i] = e
      BY <3>1 DEF StackInv
    <3>3. stack # <<>>
      <4>1. Len(stack) \in Nat /\ (stack = <<>> => Len(stack) = 0)
        BY DEF TypeInv
      <4> QED BY <3>2, <4>1
    <3> QED BY <3>3, <1>a, <1>h, TopOfStack
  <2>3. fx[1].kind \in {"app", "leave"} => fx[1].kind \in Deferred
    BY DEF Deferred
  <2>4. fx \in Seq(Frames) /\ fx[2].el \in 1 .. MaxLoops /\ state'[fx[2].el] = "LEAVING"
    BY <2>2, <1>t DEF TypeInv
  <2>5. e \in Nat
    BY LoopsAssumption
  <2>6. Inv /\ UNCHANGED <<made, started, stack, batch, native, misled>>
    BY <1>u
  <2> HIDE DEF Inv, Leave, InApp
  <2> QED BY <2>1, <2>2, <2>3, <2>4, <2>5, <2>6, <1>c, <1>h, <1>k, QuitInnermost
<1>b. ASSUME Head(stack) # e
      PROVE  /\ fx' \in Seq(Frames) /\ Len(fx') = Len(fx) /\ fx'[1] = fx[1]
             /\ FrameInv' /\ RunInv' /\ StackInv' /\ LoopInv' /\ BatchInv'
             /\ \A kind \in {"app", "dummy"} : \A m : Doing(kind, m)' <=> Doing(kind, m)
             /\ eventLoopExitEnterPassValue' \in Nat
  <2>1. UNCHANGED <<fx, eventLoopExitEnterPassValue>>
    BY <1>b
  <2>2. TypeInv /\ FrameInv /\ RunInv /\ StackInv /\ LoopInv /\ BatchInv
    OBVIOUS
  <2> HIDE DEF Inv, Leave, InApp
  <2>3. StackInv'
    BY <2>1, <2>2, <1>c, <1>u DEF StackInv, Entered
  <2>4. LoopInv'
    BY <2>1, <2>2, <1>c, <1>u DEF LoopInv
  <2>5. FrameInv' /\ RunInv' /\ BatchInv'
    BY <2>1, <2>2, <1>u DEF FrameInv, RunInv, BatchInv, Leaving
  <2>6. /\ fx' \in Seq(Frames) /\ Len(fx') = Len(fx) /\ fx'[1] = fx[1]
        /\ eventLoopExitEnterPassValue' \in Nat
    BY <2>1, <2>2 DEF TypeInv
  <2>7. \A kind \in {"app", "dummy"} : \A m : Doing(kind, m)' <=> Doing(kind, m)
    BY <2>1 DEF Doing
  <2> QED BY <2>3, <2>4, <2>5, <2>6, <2>7
<1>f. /\ fx' \in Seq(Frames) /\ Len(fx') = Len(fx) /\ fx'[1] = fx[1]
      /\ FrameInv' /\ RunInv' /\ StackInv' /\ LoopInv' /\ BatchInv'
      /\ \A kind \in {"app", "dummy"} : \A m : Doing(kind, m)' <=> Doing(kind, m)
      /\ eventLoopExitEnterPassValue' \in Nat
  BY <1>a, <1>b
<1> HIDE DEF Leave
<1>1. TypeInv'
  BY <1>f, <1>t, <1>u DEF TypeInv
<1>2. QueueInv'
  BY <1>u DEF QueueInv, Submitted
<1>3. HandInv'
  BY <1>u DEF HandInv, Submitted
<1>4. FrameInv'
  BY <1>f
<1>5. RunInv'
  BY <1>f
<1>6. StackInv'
  BY <1>f
<1>7. LoopInv'
  BY <1>f
<1>8. BatchInv'
  BY <1>f
<1>9. CountInv'
  <2>1. \A kind \in {"app", "dummy"}, m \in Nat : Due(kind, m)' <=> Due(kind, m)
    BY <1>f, <1>u DEF Due
  <2>2. Unfinished' = Unfinished
    BY <2>1, <1>1, DueSame
  <2> QED BY <2>2 DEF CountInv, PendingCounts
<1>10. IdleInv'
  BY <1>f, <1>h, <1>u DEF IdleInv, IdleIsReal, Nesting
<1> QED BY <1>1, <1>2, <1>3, <1>4, <1>5, <1>6, <1>7, <1>8, <1>9, <1>10

\* The second half of a leave acts on the loop that is innermost by then.
LEMMA LeaveAgainKeeps ==
  ASSUME Inv, ~notified, LeaveAgain, UNCHANGED platformVars
  PROVE  Inv'
<1> USE DEF Inv, LeaveAgain, dispVars, flags, loopVars, waitVars, platformVars
<1>h. /\ Head(fx) = fx[1] /\ fx[1].k = "run" /\ fx[1].at = "leave" /\ Len(fx) \in Nat
      /\ Len(fx) >= 2 /\ fx[2].k = "loop"
  BY HeadOfFx, AroundRun
<1>k. fx[1].kind = "leave" /\ fx[1] \in Runs
  <2>1. fx[1] \in Runs
    BY <1>h, HeadOfFx, FrameKinds
  <2>2. fx[1].kind \in {"app", "dummy", "leave", "event", "wait"}
    BY <2>1 DEF Runs, Deferred
  <2> QED BY <2>1, <2>2, <1>h DEF RunInv
<1> DEFINE g == [fx[1] EXCEPT !.at = "end"]
           f == <<g>> \o Tail(fx)
<1>u. UNCHANGED <<deque, posted, disp, hand, futureDone, native, batch, stack, state, made, started,
                  misled, notified, numWindows, reallyIdle, pendingRunnables, caller>>
  OBVIOUS
<1>g. /\ g \in Frames /\ g.k = "run" /\ g.kind = fx[1].kind /\ g.n = fx[1].n
      /\ g.at = "end" /\ g.nested = fx[1].nested
  BY <1>k, RunAt
<1>c. \/ /\ stack # <<>> /\ state[Head(stack)] = "LEAVING" /\ fx' = Quit(f, "leave")
         /\ eventLoopExitEnterPassValue' = Head(stack)
      \/ At("end") /\ eventLoopExitEnterPassValue' = eventLoopExitEnterPassValue
  BY <1>h DEF leaveNestedEventLoop, At
<1>i. Inv /\ TypeInv /\ FrameInv /\ RunInv /\ StackInv
  OBVIOUS
<1> HIDE DEF LeaveAgain, Inv, g
<1>a. ASSUME stack # <<>>, state[Head(stack)] = "LEAVING", fx' = Quit(f, "leave"),
             eventLoopExitEnterPassValue' = Head(stack)
      PROVE  /\ fx' \in Seq(Frames) /\ Len(fx') = Len(fx) /\ fx'[1].at # "exited"
             /\ FrameInv' /\ RunInv' /\ StackInv' /\ LoopInv' /\ BatchInv'
             /\ \A kind \in {"app", "dummy"} : \A m : Doing(kind, m)' <=> Doing(kind, m)
             /\ eventLoopExitEnterPassValue' \in Nat
  <2>1. /\ f \in Seq(Frames) /\ Len(f) = Len(fx) /\ f[1] = g
        /\ \A i \in 2 .. Len(fx) : f[i] = fx[i]
    <3>1. fx \in Seq(Frames) /\ Len(fx) >= 1
      BY <1>h, <1>i DEF TypeInv
    <3> QED BY <3>1, <1>g, SwapAt
  <2>2. Head(stack) = fx[2].el
    BY <1>a, <1>h, <1>i, TopOfStack
  <2>3. Head(stack) \in 1 .. MaxLoops /\ Head(stack) \in Nat
    <3>1. stack \in Seq(1 .. MaxLoops)
      BY <1>i DEF TypeInv
    <3> QED BY <3>1, <1>a, LoopsAssumption, TailAt
  <2>4. "leave" \in Deferred
    BY DEF Deferred
  <2>5. UNCHANGED <<made, started, stack, state, batch, native, misled>>
    BY <1>u
  <2>6. /\ f[1].k = "run" /\ f[1].kind = fx[1].kind /\ f[1].n = fx[1].n
        /\ f[1].nested = fx[1].nested /\ f[1].at = "end" /\ fx[1].kind = "leave"
    BY <2>1, <1>g, <1>k
  <2> HIDE DEF f
  <2> QED BY <2>1, <2>2, <2>3, <2>4, <2>5, <2>6, <1>a, <1>h, <1>i, QuitInnermost
<1>b. ASSUME At("end"), eventLoopExitEnterPassValue' = eventLoopExitEnterPassValue
      PROVE  /\ fx' \in Seq(Frames) /\ Len(fx') = Len(fx) /\ fx'[1].at # "exited"
             /\ FrameInv' /\ RunInv' /\ StackInv' /\ LoopInv' /\ BatchInv'
             /\ \A kind \in {"app", "dummy"} : \A m : Doing(kind, m)' <=> Doing(kind, m)
             /\ eventLoopExitEnterPassValue' \in Nat
  <2>1. /\ fx' \in Seq(Frames) /\ Len(fx') = Len(fx) /\ FrameInv' /\ RunInv' /\ StackInv'
        /\ LoopInv' /\ BatchInv'
    BY <1>b, <1>h, <1>i, <1>k, <1>u, PartRun
  <2>2. /\ fx'[1].at = "end"
        /\ \A kind, m : Doing(kind, m)' <=> \/ DoingBelow(kind, m)
                                            \/ /\ fx[1].kind = kind /\ fx[1].n = m
                                               /\ "end" # "end"
    BY <1>b, <1>h, <1>i, NextPart
  <2>3. \A kind \in {"app", "dummy"} : \A m : Doing(kind, m)' <=> Doing(kind, m)
    BY <2>2, <1>i, <1>k, FirstFrame DEF Busy
  <2>4. eventLoopExitEnterPassValue' \in Nat
    BY <1>b, <1>i DEF TypeInv
  <2> QED BY <2>1, <2>2, <2>3, <2>4
<1>f. /\ fx' \in Seq(Frames) /\ Len(fx') = Len(fx) /\ fx'[1].at # "exited"
      /\ FrameInv' /\ RunInv' /\ StackInv' /\ LoopInv' /\ BatchInv'
      /\ \A kind \in {"app", "dummy"} : \A m : Doing(kind, m)' <=> Doing(kind, m)
      /\ eventLoopExitEnterPassValue' \in Nat
  BY <1>a, <1>b, <1>c
<1> USE DEF Inv
<1>1. TypeInv'
  BY <1>f, <1>u DEF TypeInv
<1>2. QueueInv'
  BY <1>u DEF QueueInv, Submitted
<1>3. HandInv'
  BY <1>u DEF HandInv, Submitted
<1>4. FrameInv'
  BY <1>f
<1>5. RunInv'
  BY <1>f
<1>6. StackInv'
  BY <1>f
<1>7. LoopInv'
  BY <1>f
<1>8. BatchInv'
  BY <1>f
<1>9. CountInv'
  <2>1. \A kind \in {"app", "dummy"}, m \in Nat : Due(kind, m)' <=> Due(kind, m)
    BY <1>f, <1>u DEF Due
  <2>2. Unfinished' = Unfinished
    BY <2>1, <1>1, DueSame
  <2> QED BY <2>2 DEF CountInv, PendingCounts
<1>10. IdleInv'
  BY <1>f, <1>h, <1>u DEF IdleInv, IdleIsReal, Nesting
<1> QED BY <1>1, <1>2, <1>3, <1>4, <1>5, <1>6, <1>7, <1>8, <1>9, <1>10

\* A loop that returned is taken off the stack, and its caller goes on.
LEMMA LoopPopKeeps ==
  ASSUME Inv, ~notified, LoopPop, UNCHANGED platformVars
  PROVE  Inv'
<1> USE DEF Inv, LoopPop, dispVars, flags, loopVars, waitVars, platformVars
<1>h. /\ Head(fx) = fx[1] /\ fx[1].k = "left" /\ Len(fx) \in Nat
      /\ \A i \in 1 .. Len(fx) : fx[i] \in Frames
  BY HeadOfFx
<1>m. /\ Len(fx) >= 3 /\ fx[2].k = "run" /\ fx[2].at = "app" /\ fx[3].k # "run"
  <2>1. Len(fx) >= 2
    BY <1>h, HeadOfFx DEF FrameInv
  <2>2. fx[2].k = "run" /\ Len(fx) # 2
    BY <2>1, <1>h DEF FrameInv
  <2> QED BY <2>1, <2>2, <1>h DEF FrameInv
<1>l. /\ fx[1].el \in 1 .. MaxLoops /\ eventLoopExitEnterPassValue = 0 /\ batch = 0
  BY <1>h, <1>m DEF LoopInv, BatchInv
<1> DEFINE label == IF Cardinality(NestedLoops) = 1 THEN "exited" ELSE "app"
           g == [fx[2] EXCEPT !.at = label, !.nested = TRUE]
<1>r. fx[2] \in Runs
  BY <1>h, <1>m, FrameKinds
<1>g. /\ g \in Frames /\ g.k = "run" /\ g.kind = fx[2].kind /\ g.n = fx[2].n /\ g.at = label
      /\ g.nested = TRUE
  BY <1>r DEF Runs, Frames
<1>k. fx[2].kind \in {"app", "event", "wait"}
  <2>1. fx[2].kind \in {"app", "dummy", "leave", "event", "wait"}
    BY <1>r DEF Runs, Deferred
  <2> QED BY <2>1, <1>h, <1>m DEF RunInv
<1>u. /\ fx' = <<g>> \o Tail(Tail(fx)) /\ stack' = Tail(stack)
      /\ state' = [state EXCEPT ![fx[1].el] = "IDLE"]
      /\ UNCHANGED <<disp, hand, futureDone, native, batch, made, eventLoopExitEnterPassValue,
                     started, misled, notified, numWindows, reallyIdle, pendingRunnables, caller>>
  BY <1>h DEF Resume
<1>q. /\ QueueInv' /\ Submitted' = Submitted /\ deque' \in Seq(Items) /\ posted' \in Nat
      /\ \A i \in 1 .. Len(deque') : deque'[i].kind \in Deferred
      /\ \A k \in {"app", "dummy"} : \A m : Holds(deque', k, m) <=> Holds(deque, k, m)
  <2>1. invokeLater("leave") \/ UNCHANGED <<deque, posted>>
    OBVIOUS
  <2>2. TypeInv /\ QueueInv /\ UNCHANGED <<disp, hand, native, started>>
    BY <1>u
  <2> HIDE DEF LoopPop, Inv
  <2>3. CASE invokeLater("leave")
    <3>1. "leave" \in Deferred
      BY DEF Deferred
    <3>2. QueueInv' /\ Submitted' = Submitted
      BY <2>2, <2>3, <3>1, InvokeLaterQueues
    <3>3. /\ deque' \in Seq(Items) /\ posted \in Nat /\ posted' = posted + 1
          /\ \A i \in 1 .. Len(deque') : deque'[i].kind \in Deferred
          /\ \A k, m : Holds(deque', k, m) <=> Holds(deque, k, m) \/ (k = "leave" /\ m = posted + 1)
      BY <2>2, <2>3, <3>1, InvokeLaterAt
    <3> QED BY <3>2, <3>3
  <2>4. CASE UNCHANGED <<deque, posted>>
    BY <2>2, <2>4 DEF QueueInv, Submitted, TypeInv
  <2> QED BY <2>1, <2>3, <2>4
<1>i. TypeInv /\ FrameInv /\ RunInv /\ StackInv /\ LoopInv
  OBVIOUS
<1> HIDE DEF LoopPop, Resume, g
<1>f. /\ fx' \in Seq(Frames) /\ Len(fx') = Len(fx) - 1 /\ fx'[1] = g
      /\ \A i \in 2 .. Len(fx) - 1 : fx'[i] = fx[i + 1]
  <2>1. fx \in Seq(Frames)
    BY DEF TypeInv
  <2> QED BY <2>1, <1>g, <1>m, <1>u, PopSwapAt
<1>p. \A i \in 1 .. Len(fx') : i = 1 \/ (i + 1 \in 3 .. Len(fx) /\ fx'[i] = fx[i + 1])
  BY <1>f, <1>h
<1>s. /\ stack' \in Seq(1 .. MaxLoops) /\ stack[1] = fx[1].el
      /\ Len(stack) \in Nat /\ Len(stack') = Len(stack) - 1 /\ Len(stack) >= 1
      /\ \A i \in 1 .. Len(stack) - 1 : stack'[i] = stack[i + 1]
  <2>1. fx[1].el # 0
    BY <1>l, LoopsAssumption
  <2>2. stack # <<>> /\ stack[1] = fx[1].el
    BY <2>1, <1>h, <1>i, <1>m, TopOfStack
  <2>3. stack \in Seq(1 .. MaxLoops)
    BY DEF TypeInv
  <2> QED BY <2>2, <2>3, <1>u, TailAt
<1>t. /\ \A e \in 1 .. MaxLoops : state'[e] = IF e = fx[1].el THEN "IDLE" ELSE state[e]
      /\ state' \in [1 .. MaxLoops -> {"IDLE", "ACTIVE", "LEAVING"}]
  BY <1>u, <1>l DEF TypeInv
<1>e. \A i \in 3 .. Len(fx) : fx[i].k # "run" => fx[i].el # fx[1].el
  <2> SUFFICES ASSUME NEW i \in 3 .. Len(fx), fx[i].k # "run" PROVE fx[i].el # fx[1].el
    OBVIOUS
  <2>1. fx[1].el > fx[i].el
    BY <1>h, <1>i, <1>m DEF StackInv
  <2> QED BY <2>1, <1>l, LoopsAssumption
<1>1. TypeInv'
  <2>1. fx' \in Seq(Frames) /\ Len(fx') >= 1
    BY <1>f, <1>h, <1>m
  <2> QED BY <2>1, <1>q, <1>s, <1>t, <1>u DEF TypeInv
<1>2. QueueInv'
  BY <1>q
<1>3. HandInv'
  BY <1>q, <1>u DEF HandInv
<1>4. FrameInv'
  <2>1. fx'[Len(fx')] = fx[Len(fx)]
    BY <1>f, <1>h, <1>m
  <2>2. ASSUME NEW i \in 1 .. Len(fx') - 1
        PROVE  /\ fx'[i].k = "run" <=> fx'[i + 1].k # "run"
               /\ fx'[i].k # "run" => fx'[i].el \in 1 .. made'
    <3>1. CASE i = 1
      BY <3>1, <1>f, <1>g, <1>h, <1>m
    <3>2. CASE i # 1
      <4>1. /\ i + 1 \in 1 .. Len(fx) - 1 /\ fx'[i] = fx[i + 1] /\ fx'[i + 1] = fx[(i + 1) + 1]
        BY <3>2, <1>f, <1>h
      <4> QED BY <4>1, <1>u DEF FrameInv
    <3> QED BY <3>1, <3>2
  <2>3. ASSUME NEW i \in 2 .. Len(fx')
        PROVE  fx'[i].k # "left" /\ (fx'[i].k = "run" => fx'[i].at = "app")
    <3>1. i + 1 \in 2 .. Len(fx) /\ fx'[i] = fx[i + 1]
      BY <1>f, <1>h
    <3> QED BY <3>1 DEF FrameInv
  <2> QED BY <2>1, <2>2, <2>3 DEF FrameInv
<1>5. RunInv'
  <2>1. /\ 2 \in 1 .. Len(fx) /\ \A i \in 3 .. Len(fx) : i \in 1 .. Len(fx) /\ 2 < i
    BY <1>h, <1>m
  <2>2. ASSUME NEW i \in 1 .. Len(fx'), fx'[i].k = "run"
        PROVE  /\ fx'[i].kind = "event" => fx'[i].at \in {"app", "exited"}
               /\ fx'[i].kind = "wait" => fx'[i].at \in {"app", "exited", "end"}
               /\ fx'[i].kind = "app" => fx'[i].at \in {"app", "exited", "fin", "end"}
               /\ fx'[i].kind = "dummy" => fx'[i].at \in {"fin", "end"}
               /\ fx'[i].kind = "leave" => fx'[i].at \in {"leave", "end"}
               /\ fx'[i].at = "exited" => fx'[i].nested
               /\ fx'[i].kind \in Deferred => fx'[i].n \in 1 .. started'
               /\ fx'[i].kind \notin Deferred => fx'[i].n = 0
    <3>1. CASE i = 1
      <4>1. label \in {"app", "exited"}
        OBVIOUS
      <4>2. /\ fx[2].kind \in Deferred => fx[2].n \in 1 .. started
            /\ fx[2].kind \notin Deferred => fx[2].n = 0
        BY <2>1, <1>m DEF RunInv
      <4> HIDE DEF label, Inv
      <4> QED BY <3>1, <4>1, <4>2, <1>f, <1>g, <1>k, <1>u
    <3>2. CASE i # 1
      <4>1. i + 1 \in 1 .. Len(fx) /\ fx'[i] = fx[i + 1]
        BY <3>2, <2>1, <1>p
      <4> QED BY <4>1, <2>2, <1>u DEF RunInv
    <3> QED BY <3>1, <3>2
  <2>3. ASSUME NEW i \in 1 .. Len(fx'), NEW j \in 1 .. Len(fx'), i < j, fx'[i].k = "run",
               fx'[j].k = "run", fx'[i].n > 0
        PROVE  fx'[i].n > fx'[j].n
    <3>1. j + 1 \in 3 .. Len(fx) /\ fx'[j] = fx[j + 1]
      BY <2>3, <1>p
    <3>2. CASE i = 1
      BY <3>1, <3>2, <2>1, <2>3, <1>f, <1>g, <1>m DEF RunInv
    <3>3. CASE i # 1
      <4>1. i + 1 \in 3 .. Len(fx) /\ fx'[i] = fx[i + 1] /\ i + 1 < j + 1
        BY <2>3, <3>3, <1>p
      <4> QED BY <2>1, <2>3, <3>1, <4>1 DEF RunInv
    <3> QED BY <3>2, <3>3
  <2> QED BY <2>2, <2>3 DEF RunInv
<1>6. StackInv'
  <2>1. ASSUME NEW e \in 1 .. MaxLoops PROVE Entered(e)' <=> Entered(e) /\ e # fx[1].el
    <3>1. ASSUME Entered(e)' PROVE Entered(e) /\ e # fx[1].el
      <4>1. PICK i \in 1 .. Len(fx') : Is(fx'[i], e)
        BY <3>1 DEF Entered
      <4>2. i # 1
        BY <4>1, <1>f, <1>g DEF Is
      <4>3. i + 1 \in 3 .. Len(fx) /\ fx'[i] = fx[i + 1] /\ i + 1 \in 1 .. Len(fx)
        BY <4>2, <1>p, <1>h
      <4> QED BY <4>1, <4>3, <1>e DEF Entered, Is
    <3>2. ASSUME Entered(e), e # fx[1].el PROVE Entered(e)'
      <4>1. PICK i \in 1 .. Len(fx) : Is(fx[i], e)
        BY <3>2 DEF Entered
      <4>2. i # 1 /\ i # 2
        BY <4>1, <3>2, <1>m DEF Is
      <4>3. i - 1 \in 2 .. Len(fx) - 1 /\ (i - 1) + 1 = i /\ i - 1 \in 1 .. Len(fx')
        BY <4>2, <1>f, <1>h
      <4>4. fx'[i - 1] = fx[i]
        BY <4>3, <1>f
      <4> QED BY <4>1, <4>3, <4>4 DEF Entered
    <3> QED BY <3>1, <3>2
  <2>2. ASSUME NEW e \in 1 .. MaxLoops
        PROVE  (\E i \in 1 .. Len(stack') : stack'[i] = e) <=> Entered(e)'
    <3>0. (\E i \in 1 .. Len(stack) : stack[i] = e) <=> Entered(e)
      BY DEF StackInv
    <3>1. ASSUME NEW i \in 1 .. Len(stack'), stack'[i] = e PROVE Entered(e)'
      <4>1. i + 1 \in 1 .. Len(stack) /\ stack[i + 1] = e /\ 1 \in 1 .. Len(stack) /\ 1 < i + 1
        BY <3>1, <1>s
      <4>2. stack[1] > stack[i + 1]
        BY <4>1 DEF StackInv
      <4>3. e # fx[1].el
        BY <4>1, <4>2, <1>s, <1>l, LoopsAssumption
      <4> QED BY <3>0, <4>1, <4>3, <2>1
    <3>2. ASSUME Entered(e)' PROVE \E i \in 1 .. Len(stack') : stack'[i] = e
      <4>1. PICK i \in 1 .. Len(stack) : stack[i] = e
        BY <3>0, <3>2, <2>1
      <4>2. i # 1
        BY <4>1, <3>2, <2>1, <1>s
      <4>3. i - 1 \in 1 .. Len(stack') /\ i - 1 \in 1 .. Len(stack) - 1 /\ (i - 1) + 1 = i
        BY <4>2, <1>s
      <4>4. stack'[i - 1] = stack[i]
        BY <4>3, <1>s
      <4> QED BY <4>1, <4>3, <4>4
    <3> QED BY <3>1, <3>2
  <2>3. ASSUME NEW e \in 1 .. MaxLoops PROVE state'[e] # "IDLE" <=> Entered(e)'
    BY <2>1, <1>t DEF StackInv
  <2>4. ASSUME NEW i \in 1 .. Len(stack'), NEW j \in 1 .. Len(stack'), i < j
        PROVE  stack'[i] > stack'[j]
    <3>1. /\ i + 1 \in 1 .. Len(stack) /\ stack'[i] = stack[i + 1]
          /\ j + 1 \in 1 .. Len(stack) /\ stack'[j] = stack[j + 1] /\ i + 1 < j + 1
      BY <2>4, <1>s
    <3> QED BY <3>1 DEF StackInv
  <2>5. ASSUME NEW i \in 1 .. Len(fx'), NEW j \in 1 .. Len(fx'), i < j, fx'[i].k # "run",
               fx'[j].k # "run"
        PROVE  fx'[i].el > fx'[j].el
    <3>1. i # 1 /\ j # 1
      BY <2>5, <1>f, <1>g
    <3>2. /\ i + 1 \in 1 .. Len(fx) /\ fx'[i] = fx[i + 1]
          /\ j + 1 \in 1 .. Len(fx) /\ fx'[j] = fx[j + 1] /\ i + 1 < j + 1
      BY <2>5, <3>1, <1>h, <1>p
    <3> QED BY <2>5, <3>2 DEF StackInv
  <2> QED BY <2>2, <2>3, <2>4, <2>5 DEF StackInv
<1>7. LoopInv'
  <2>1. ASSUME NEW i \in 1 .. Len(fx'),
               fx'[i].k = "left" \/ (fx'[i].k = "loop" /\ fx'[i].quit # "no")
        PROVE  fx'[i].el \in 1 .. MaxLoops /\ state'[fx'[i].el] = "LEAVING"
    <3>1. i # 1
      BY <2>1, <1>f, <1>g
    <3>2. i + 1 \in 3 .. Len(fx) /\ fx'[i] = fx[i + 1] /\ i + 1 \in 1 .. Len(fx)
      BY <3>1, <1>p, <1>h
    <3>3. fx[i + 1].el \in 1 .. MaxLoops /\ state[fx[i + 1].el] = "LEAVING"
      BY <2>1, <3>2 DEF LoopInv
    <3>4. fx[i + 1].el # fx[1].el
      BY <2>1, <3>2, <1>e
    <3> QED BY <3>2, <3>3, <3>4, <1>t
  <2>2. fx'[1].k # "left"
    BY <1>f, <1>g
  <2> QED BY <2>1, <2>2, <1>l, <1>u DEF LoopInv
<1>8. BatchInv'
  <2>1. batch' = 0
    BY <1>l, <1>u
  <2> QED BY <2>1 DEF BatchInv
<1>9. CountInv'
  <2>1. \A kind \in {"app", "dummy"}, m \in Nat : Due(kind, m)' <=> Due(kind, m)
    <3> TAKE kind \in {"app", "dummy"}, m \in Nat
    <3>1. label # "end"
      OBVIOUS
    <3> HIDE DEF label
    <3>2. Busy(g, kind, m) <=> Busy(fx[2], kind, m)
      BY <3>1, <1>g, <1>m DEF Busy
    <3>3. ~Busy(fx[1], kind, m)
      BY <1>h DEF Busy
    <3>4. ASSUME Doing(kind, m)' PROVE Doing(kind, m)
      <4>1. PICK i \in 1 .. Len(fx') : Busy(fx'[i], kind, m)
        BY <3>4 DEF Doing
      <4>2. i = 1 => Busy(fx[2], kind, m) /\ 2 \in 1 .. Len(fx)
        BY <4>1, <3>2, <1>f, <1>h, <1>m
      <4>3. i # 1 => i + 1 \in 1 .. Len(fx) /\ fx'[i] = fx[i + 1]
        BY <1>p, <1>h
      <4> QED BY <4>1, <4>2, <4>3 DEF Doing
    <3>5. ASSUME Doing(kind, m) PROVE Doing(kind, m)'
      <4>1. PICK i \in 1 .. Len(fx) : Busy(fx[i], kind, m)
        BY <3>5 DEF Doing
      <4>2. i # 1
        BY <4>1, <3>3
      <4>3. CASE i = 2
        <5>1. 1 \in 1 .. Len(fx') /\ Busy(fx'[1], kind, m)
          BY <4>1, <4>3, <3>2, <1>f, <1>m, <1>h
        <5> QED BY <5>1 DEF Doing
      <4>4. CASE i # 2
        <5>1. i - 1 \in 2 .. Len(fx) - 1 /\ (i - 1) + 1 = i /\ i - 1 \in 1 .. Len(fx')
          BY <4>2, <4>4, <1>f, <1>h
        <5>2. fx'[i - 1] = fx[i]
          BY <5>1, <1>f
        <5> QED BY <4>1, <5>1, <5>2 DEF Doing
      <4> QED BY <4>3, <4>4
    <3> QED BY <3>4, <3>5, <1>q, <1>u DEF Due
  <2>2. Unfinished' = Unfinished
    BY <2>1, <1>1, DueSame
  <2> QED BY <2>2 DEF CountInv, PendingCounts
<1>10. IdleInv'
  <2>1. Nesting' \/ fx'[1].at = "exited"
    <3>1. CASE Len(fx) = 3
      <4>1. label = "exited"
        BY <3>1, <1>i, NestingIs
      <4> HIDE DEF label
      <4> QED BY <4>1, <1>f, <1>g
    <3>2. CASE Len(fx) # 3
      BY <3>2, <1>f, <1>h, <1>m DEF Nesting
    <3> QED BY <3>1, <3>2
  <2> HIDE DEF label
  <2> QED BY <2>1, <1>f, <1>g, <1>u DEF IdleInv, IdleIsReal
<1> QED BY <1>1, <1>2, <1>3, <1>4, <1>5, <1>6, <1>7, <1>8, <1>9, <1>10

-----------------------------------------------------------------------------
(***************************************************************************)
(* The idle check keeps the invariant.                                     *)
(***************************************************************************)
LEMMA NestingIsNext == TypeInv' /\ FrameInv' => (NestedLoops' = {} <=> ~Nesting')
<1>1. TypeInv /\ FrameInv => (NestedLoops = {} <=> ~Nesting)
  BY NestingIs
<1>2. (TypeInv /\ FrameInv => (NestedLoops = {} <=> ~Nesting))'
  BY <1>1, PTL
<1> QED BY <1>2

\* What checkIdle decides: to look again, to tell the listeners, or nothing.
LEMMA CheckIdleIs ==
  ASSUME NEW pending \in Nat, NEW windows, checkIdle(pending, windows)
  PROVE  /\ reallyIdle' => windows = 0
         /\ notified' => /\ windows = 0 /\ reallyIdle /\ NestedLoops = {}
                         /\ pendingRunnables' = 0
         /\ windows = 0 /\ ~notified' => pendingRunnables' > 0 \/ NestedLoops # {}
         /\ \/ invokeLater("dummy") /\ pendingRunnables' = pending + 1
            \/ UNCHANGED <<deque, posted>> /\ pendingRunnables' = pending
<1> DEFINE quiet == windows = 0 /\ pending = 0 /\ NestedLoops = {}
           really == windows = 0 /\ reallyIdle
<1>1. /\ reallyIdle' = (really \/ quiet) /\ notified' = (quiet /\ really)
      /\ quiet /\ ~really => invokeLater("dummy") /\ pendingRunnables' = pending + 1
      /\ ~(quiet /\ ~really) => UNCHANGED <<deque, posted>> /\ pendingRunnables' = pending
  BY DEF checkIdle
<1>2. /\ reallyIdle' => windows = 0
      /\ notified' => quiet /\ really
      /\ ~notified' => ~(quiet /\ really)
  <2>1. (reallyIdle' <=> really \/ quiet) /\ (notified' <=> quiet /\ really)
    BY <1>1, Zenon
  <2> QED BY <2>1
<1>3. CASE quiet /\ ~really
  <2>1. invokeLater("dummy") /\ pendingRunnables' = pending + 1 /\ ~notified'
    BY <1>1, <1>2, <1>3
  <2> QED BY <2>1, <1>2
<1>4. CASE ~(quiet /\ ~really)
  <2>1. UNCHANGED <<deque, posted>> /\ pendingRunnables' = pending
    BY <1>1, <1>4
  <2>2. windows = 0 /\ ~notified' => pending # 0 \/ NestedLoops # {}
    BY <1>2, <1>4
  <2> QED BY <2>1, <2>2, <1>2
<1> QED BY <1>3, <1>4

\* Two ways to come to the check: with nothing done, or with a Runnable finished.
Finishes(old, o) ==
  /\ Doing(old, o)
  /\ \A kind \in {"app", "dummy"} : \A m :
       Doing(kind, m)' <=> Doing(kind, m) /\ ~(kind = old /\ m = o)

LEMMA CheckIdleKeeps ==
  ASSUME Inv, NEW pending \in Nat, NEW windows \in {0, 1}, checkIdle(pending, windows),
         numWindows' = windows,
         UNCHANGED <<disp, hand, futureDone, native, batch, stack, state, made, started, misled,
                     eventLoopExitEnterPassValue, caller>>,
         fx' \in Seq(Frames), Len(fx') = Len(fx),
         FrameInv', RunInv', StackInv', LoopInv', BatchInv',
         \/ /\ pending = pendingRunnables
            /\ \A kind \in {"app", "dummy"} : \A m : Doing(kind, m)' <=> Doing(kind, m)
         \/ /\ pending = pendingRunnables - 1
            /\ \E old \in {"app", "dummy"}, o \in 1 .. started : Finishes(old, o),
         notified' /\ InApp' => Head(fx').nested
  PROVE  Inv'
<1>i. /\ TypeInv /\ QueueInv /\ HandInv /\ FrameInv /\ RunInv /\ CountInv /\ IsFiniteSet(Unfinished)
      /\ posted \in Nat /\ started \in Nat /\ pendingRunnables \in Nat
  BY DEF Inv, CountInv, TypeInv
<1>c. /\ reallyIdle' => windows = 0
      /\ notified' => /\ windows = 0 /\ reallyIdle /\ NestedLoops = {}
                      /\ pendingRunnables' = 0
      /\ windows = 0 /\ ~notified' => pendingRunnables' > 0 \/ NestedLoops # {}
      /\ \/ invokeLater("dummy") /\ pendingRunnables' = pending + 1
         \/ UNCHANGED <<deque, posted>> /\ pendingRunnables' = pending
  BY CheckIdleIs
<1>d. "dummy" \in Deferred
  BY DEF Deferred
<1>a. ASSUME invokeLater("dummy")
      PROVE  /\ QueueInv' /\ Submitted' = Submitted /\ deque' \in Seq(Items) /\ posted' \in Nat
             /\ \A i \in 1 .. Len(deque') : deque'[i].kind \in Deferred
             /\ \A k, m : Holds(deque', k, m) <=>
                            Holds(deque, k, m) \/ (k = "dummy" /\ m = posted + 1)
  <2>1. QueueInv' /\ Submitted' = Submitted
    BY <1>a, <1>d, <1>i, InvokeLaterQueues
  <2>2. /\ deque' \in Seq(Items) /\ posted \in Nat /\ posted' = posted + 1
        /\ \A i \in 1 .. Len(deque') : deque'[i].kind \in Deferred
        /\ \A k, m : Holds(deque', k, m) <=>
                       Holds(deque, k, m) \/ (k = "dummy" /\ m = posted + 1)
    BY <1>a, <1>d, <1>i, InvokeLaterAt
  <2> QED BY <2>1, <2>2
<1>b. ASSUME UNCHANGED <<deque, posted>>
      PROVE  /\ QueueInv' /\ Submitted' = Submitted /\ deque' \in Seq(Items) /\ posted' \in Nat
             /\ \A i \in 1 .. Len(deque') : deque'[i].kind \in Deferred
             /\ \A k, m : Holds(deque', k, m) <=> Holds(deque, k, m)
  BY <1>b, <1>i DEF QueueInv, Submitted, TypeInv
<1>q. /\ QueueInv' /\ Submitted' = Submitted /\ deque' \in Seq(Items) /\ posted' \in Nat
      /\ \A i \in 1 .. Len(deque') : deque'[i].kind \in Deferred
  BY <1>a, <1>b, <1>c
<1>1. TypeInv'
  <2>1. pendingRunnables' \in Nat
    BY <1>c
  <2>2. Len(fx') >= 1
    BY <1>i DEF TypeInv
  <2> QED BY <2>1, <2>2, <1>i, <1>q DEF TypeInv
<1>3. HandInv'
  BY <1>i, <1>q DEF HandInv
<1>f. ~Due("dummy", posted + 1) /\ posted + 1 \in Nat
  BY <1>i, FreshNumber
<1>n. Cardinality(Unfinished) \in Nat
  BY <1>i, FS_CardinalityType
<1>4. CountInv'
  <2>1. ASSUME pending = pendingRunnables,
               \A kind \in {"app", "dummy"} : \A m : Doing(kind, m)' <=> Doing(kind, m)
        PROVE  CountInv'
    <3>1. CASE invokeLater("dummy") /\ pendingRunnables' = pending + 1
      <4>1. \A kind \in {"app", "dummy"}, m \in Nat :
              Due(kind, m)' <=> Due(kind, m) \/ (kind = "dummy" /\ m = posted + 1)
        BY <2>1, <3>1, <1>a DEF Due
      <4>2. /\ IsFiniteSet(Unfinished')
            /\ Cardinality(Unfinished') = Cardinality(Unfinished) + 1
        BY <4>1, <1>1, <1>f, <1>i, DueAdd
      <4> QED BY <4>2, <3>1, <2>1, <1>i, <1>n DEF CountInv, PendingCounts
    <3>2. CASE UNCHANGED <<deque, posted>> /\ pendingRunnables' = pending
      <4>1. \A kind \in {"app", "dummy"}, m \in Nat : Due(kind, m)' <=> Due(kind, m)
        BY <2>1, <3>2, <1>b DEF Due
      <4>2. Unfinished' = Unfinished
        BY <4>1, <1>1, <1>i, DueSame
      <4> QED BY <4>2, <3>2, <2>1, <1>i DEF CountInv, PendingCounts
    <3> QED BY <3>1, <3>2, <1>c
  <2>2. ASSUME pending = pendingRunnables - 1,
               NEW old \in {"app", "dummy"}, NEW o \in 1 .. started, Finishes(old, o)
        PROVE  CountInv'
    <3>1. o \in Nat /\ Due(old, o)
      BY <2>2, <1>i DEF Due, Finishes
    <3>2. Submitted \in Int /\ started <= Submitted /\ Len(deque) \in Nat
          /\ Submitted <= posted - Len(deque)
      BY <1>i DEF QueueInv, Submitted, TypeInv
    <3>3. ~Holds(native, old, o)
      <4>1. ASSUME NEW i \in 1 .. Len(native), native[i].kind = old, native[i].n = o PROVE FALSE
        <5>1. native[i].n \in started + 1 .. Submitted
          BY <4>1, <1>i DEF QueueInv
        <5> QED BY <4>1, <5>1, <1>i
      <4> QED BY <4>1 DEF Holds
    <3>4. ~Holds(deque, old, o)
      <4>1. ASSUME NEW i \in 1 .. Len(deque), deque[i].n = o PROVE FALSE
        BY <4>1, <3>1, <3>2, <1>i DEF QueueInv
      <4> QED BY <4>1 DEF Holds
    <3>5. ~(disp \in {"check", "submit"} /\ hand.n = o)
      BY <3>1, <3>2, <1>i DEF QueueInv
    <3>6. CASE invokeLater("dummy") /\ pendingRunnables' = pending + 1
      <4>1. \A kind \in {"app", "dummy"}, m \in Nat :
              Due(kind, m)' <=> \/ Due(kind, m) /\ ~(kind = old /\ m = o)
                                \/ kind = "dummy" /\ m = posted + 1
        BY <2>2, <3>3, <3>4, <3>5, <3>6, <1>a DEF Due, Finishes
      <4>2. /\ IsFiniteSet(Unfinished')
            /\ Cardinality(Unfinished') = Cardinality(Unfinished)
        <5> DEFINE last == posted + 1
        <5>1. /\ last \in Nat /\ ~Due("dummy", last)
              /\ \A kind \in {"app", "dummy"}, m \in Nat :
                   Due(kind, m)' <=> \/ Due(kind, m) /\ ~(kind = old /\ m = o)
                                     \/ kind = "dummy" /\ m = last
          BY <4>1, <1>f
        <5>2. TypeInv /\ IsFiniteSet(Unfinished)
          BY <1>i
        <5> HIDE DEF last
        <5> QED BY <3>1, <5>1, <5>2, <1>1, DueReplace
      <4> QED BY <4>2, <3>6, <2>2, <1>i, <1>n DEF CountInv, PendingCounts
    <3>7. CASE UNCHANGED <<deque, posted>> /\ pendingRunnables' = pending
      <4>1. \A kind \in {"app", "dummy"}, m \in Nat :
              Due(kind, m)' <=> Due(kind, m) /\ ~(kind = old /\ m = o)
        BY <2>2, <3>3, <3>4, <3>5, <3>7, <1>b DEF Due, Finishes
      <4>2. /\ IsFiniteSet(Unfinished')
            /\ Cardinality(Unfinished') = Cardinality(Unfinished) - 1
        BY <3>1, <4>1, <1>1, <1>i, DueDrop
      <4> QED BY <4>2, <3>7, <2>2, <1>i, <1>n DEF CountInv, PendingCounts
    <3> QED BY <3>6, <3>7, <1>c
  <2> QED BY <2>1, <2>2
<1>5. IdleInv'
  <2>1. NestedLoops = {} <=> ~Nesting
    BY <1>i, NestingIs
  <2>2. NestedLoops' = {} <=> ~Nesting'
    BY <1>1, NestingIsNext
  <2>3. Nesting' <=> Nesting
    BY DEF Nesting
  <2>4. ASSUME notified'
        PROVE  /\ numWindows' = 0 /\ NestedLoops' = {} /\ Unfinished' = {} /\ caller' = "idle"
               /\ InApp' => Head(fx').nested
    <3>1. Cardinality(Unfinished') \in Nat /\ IsFiniteSet(Unfinished')
      BY <1>4, FS_CardinalityType DEF CountInv
    <3>2. Cardinality(Unfinished') = 0 /\ caller' # "defers"
      BY <2>4, <3>1, <1>4, <1>c DEF CountInv, PendingCounts
    <3>3. Unfinished' = {}
      BY <3>1, <3>2, FS_EmptySet
    <3>4. caller' = "idle"
      BY <3>2, <1>1 DEF TypeInv
    <3> QED BY <2>1, <2>2, <2>3, <2>4, <3>3, <3>4, <1>c
  <2> QED BY <2>1, <2>3, <2>4, <1>c DEF IdleInv, IdleIsReal
<1> QED BY <1>1, <1>3, <1>4, <1>5, <1>q DEF Inv

\* A window is shown or the last one closed; the first check is never believed.
LEMMA ChangedTopLevelWindowsKeeps ==
  ASSUME Inv, NEW w \in {0, 1}, ChangedTopLevelWindows(w)
  PROVE  Inv'
<1> USE DEF ChangedTopLevelWindows, dispVars, flags, loopVars, waitVars
<1>i. /\ TypeInv /\ FrameInv /\ RunInv /\ StackInv /\ LoopInv /\ BatchInv /\ IdleInv
      /\ pendingRunnables \in Nat /\ numWindows \in {0, 1}
  BY DEF Inv, TypeInv
<1>u. /\ UNCHANGED <<disp, hand, futureDone, native, batch, fx, stack, state, made, started, misled,
                     eventLoopExitEnterPassValue, caller>>
      /\ numWindows' = w /\ w # numWindows /\ checkIdle(pendingRunnables, w)
  OBVIOUS
<1> HIDE DEF ChangedTopLevelWindows
<1>1. FrameInv' /\ RunInv' /\ BatchInv'
  BY <1>i, <1>u DEF FrameInv, RunInv, BatchInv, Leaving
<1>2. StackInv' /\ LoopInv'
  BY <1>i, <1>u DEF StackInv, Entered, LoopInv
<1>3. \A kind \in {"app", "dummy"} : \A m : Doing(kind, m)' <=> Doing(kind, m)
  BY <1>u DEF Doing
<1>4. ~notified'
  <2>1. notified' => w = 0 /\ reallyIdle
    BY <1>i, <1>u, CheckIdleIs
  <2> QED BY <2>1, <1>i, <1>u DEF IdleInv
<1>5. fx' \in Seq(Frames) /\ Len(fx') = Len(fx)
  BY <1>i, <1>u DEF TypeInv
<1> QED BY <1>1, <1>2, <1>3, <1>4, <1>5, <1>i, <1>u, CheckIdleKeeps

\* The last nested loop has ended in a handler or Runnable.
LEMMA ExitedLastNestedLoopKeeps ==
  ASSUME Inv, ExitedLastNestedLoop
  PROVE  Inv'
<1> USE DEF ExitedLastNestedLoop, dispVars, flags, loopVars, waitVars
<1>i. /\ TypeInv /\ FrameInv /\ RunInv /\ pendingRunnables \in Nat /\ numWindows \in {0, 1}
  BY DEF Inv, TypeInv
<1>h. Head(fx) = fx[1] /\ fx[1].k = "run" /\ fx[1].at = "exited" /\ Len(fx) \in Nat /\ Len(fx) >= 1
  BY <1>i, HeadOfFx
<1>k. fx[1].kind \notin {"dummy", "leave"} /\ fx[1].nested
  BY <1>h, <1>i DEF RunInv
<1>u. /\ UNCHANGED <<disp, hand, futureDone, native, batch, stack, state, made, started, misled,
                     eventLoopExitEnterPassValue, caller, numWindows>>
      /\ At("app") /\ checkIdle(pendingRunnables, numWindows)
  OBVIOUS
<1> HIDE DEF ExitedLastNestedLoop
<1>1. /\ fx' \in Seq(Frames) /\ Len(fx') = Len(fx)
      /\ FrameInv' /\ RunInv' /\ StackInv' /\ LoopInv' /\ BatchInv'
  BY <1>h, <1>k, <1>u, PartRun
<1>2. /\ fx'[1].nested = fx[1].nested
      /\ \A kind, m : Doing(kind, m)' <=> \/ DoingBelow(kind, m)
                                          \/ /\ fx[1].kind = kind /\ fx[1].n = m
                                             /\ "app" # "end"
  BY <1>h, <1>i, <1>u, NextPart
<1>3. \A kind \in {"app", "dummy"} : \A m : Doing(kind, m)' <=> Doing(kind, m)
  BY <1>2, <1>h, <1>i, FirstFrame DEF Busy
<1>4. Head(fx').nested
  <2>1. Head(fx') = fx'[1]
    BY <1>1, <1>h
  <2> QED BY <2>1, <1>2, <1>k
<1> QED BY <1>1, <1>3, <1>4, <1>i, <1>u, CheckIdleKeeps

\* A Runnable of runLater is finished.
LEMMA FinallyKeeps ==
  ASSUME Inv, Finally
  PROVE  Inv'
<1> USE DEF Finally, dispVars, flags, loopVars, waitVars
<1>i. /\ TypeInv /\ FrameInv /\ RunInv /\ CountInv /\ pendingRunnables \in Nat
      /\ numWindows \in {0, 1} /\ started \in Nat
  BY DEF Inv, TypeInv
<1>h. Head(fx) = fx[1] /\ fx[1].k = "run" /\ fx[1].at = "fin" /\ Len(fx) \in Nat /\ Len(fx) >= 1
      /\ fx[1] \in Frames
  BY <1>i, HeadOfFx
<1>k. fx[1].kind \in {"app", "dummy"} /\ fx[1].n \in 1 .. started
  <2>1. fx[1] \in Runs
    BY <1>h, FrameKinds
  <2>2. fx[1].kind \in {"app", "dummy", "leave", "event", "wait"}
    BY <2>1 DEF Runs, Deferred
  <2> QED BY <2>2, <1>h, <1>i DEF RunInv, Deferred
<1>u. /\ UNCHANGED <<disp, hand, futureDone, native, batch, stack, state, made, started, misled,
                     eventLoopExitEnterPassValue, caller, numWindows>>
      /\ At("end") /\ checkIdle(pendingRunnables - 1, numWindows)
  OBVIOUS
<1> HIDE DEF Finally
<1>1. /\ fx' \in Seq(Frames) /\ Len(fx') = Len(fx)
      /\ FrameInv' /\ RunInv' /\ StackInv' /\ LoopInv' /\ BatchInv'
  BY <1>h, <1>k, <1>u, PartRun
<1>2. /\ fx'[1].at = "end"
      /\ \A kind, m : Doing(kind, m)' <=> \/ DoingBelow(kind, m)
                                          \/ /\ fx[1].kind = kind /\ fx[1].n = m
                                             /\ "end" # "end"
  BY <1>h, <1>i, <1>u, NextPart
<1>3. Finishes(fx[1].kind, fx[1].n)
  <2>1. ~DoingBelow(fx[1].kind, fx[1].n)
    <3> SUFFICES ASSUME DoingBelow(fx[1].kind, fx[1].n) PROVE FALSE
      OBVIOUS
    <3>1. PICK j \in 2 .. Len(fx) : Busy(fx[j], fx[1].kind, fx[1].n)
      BY DEF DoingBelow
    <3>2. j \in 1 .. Len(fx) /\ 1 < j /\ 1 \in 1 .. Len(fx)
      BY <1>h
    <3>3. fx[1].n > fx[j].n /\ fx[j].n = fx[1].n
      BY <3>1, <3>2, <1>h, <1>i, <1>k DEF RunInv, Busy
    <3> QED BY <3>3, <1>k, <1>i
  <2>2. \A kind, m : Doing(kind, m) <=> DoingBelow(kind, m) \/ Busy(fx[1], kind, m)
    BY <1>i, FirstFrame
  <2> QED BY <2>1, <2>2, <1>2, <1>h DEF Finishes, Busy
<1>4. pendingRunnables - 1 \in Nat
  <2>1. <<fx[1].kind, fx[1].n>> \in Unfinished
    <3>1. Due(fx[1].kind, fx[1].n) /\ fx[1].n \in Nat
      BY <1>3, <1>k, <1>i DEF Due, Finishes
    <3> QED BY <3>1, <1>i, <1>k, UnfinishedIs
  <2>2. Cardinality(Unfinished) \in Nat /\ Cardinality(Unfinished) # 0
    BY <2>1, <1>i, FS_CardinalityType, FS_EmptySet DEF CountInv
  <2> QED BY <2>2, <1>i DEF CountInv, PendingCounts
<1>5. ~InApp'
  <2>1. Head(fx') = fx'[1]
    BY <1>1, <1>h
  <2> QED BY <2>1, <1>2 DEF InApp
<1>6. /\ pendingRunnables - 1 = pendingRunnables - 1
      /\ \E old \in {"app", "dummy"}, o \in 1 .. started : Finishes(old, o)
  BY <1>3, <1>k
<1> DEFINE left == pendingRunnables - 1
<1>7. left \in Nat /\ left = pendingRunnables - 1 /\ checkIdle(left, numWindows)
  BY <1>4, <1>u
<1> HIDE DEF left
<1> QED BY <1>1, <1>5, <1>6, <1>7, <1>i, <1>u, CheckIdleKeeps

-----------------------------------------------------------------------------
(***************************************************************************)
(* The theorems.                                                           *)
(***************************************************************************)
LEMMA InitHolds == Init => Inv
<1> SUFFICES ASSUME Init PROVE Inv
  OBVIOUS
<1>1. /\ deque = <<>> /\ native = <<>> /\ stack = <<>> /\ fx = <<MainLoop>>
      /\ posted = 0 /\ started = 0 /\ made = 0 /\ batch = 0 /\ eventLoopExitEnterPassValue = 0
      /\ disp = "take" /\ state = [e \in 1 .. MaxLoops |-> "IDLE"]
      /\ pendingRunnables = 0 /\ numWindows = 1 /\ caller = "idle"
      /\ reallyIdle = FALSE /\ notified = FALSE
  BY DEF Init, GlassInit
<1>2. /\ MainLoop \in Frames /\ MainLoop.k = "loop" /\ MainLoop.el = 0 /\ MainLoop.quit = "no"
  BY DEF MainLoop, Frames, Loops
<1>3. fx \in Seq(Frames) /\ Len(fx) = 1 /\ fx[1] = MainLoop
  BY <1>1, <1>2
<1>4. /\ deque \in Seq(Items) /\ native \in Seq(Items) /\ stack \in Seq(1 .. MaxLoops)
      /\ Len(deque) = 0 /\ Len(native) = 0 /\ Len(stack) = 0
  BY <1>1
<1>5. TypeInv
  BY <1>1, <1>3, <1>4, LoopsAssumption DEF TypeInv
<1>6. QueueInv /\ HandInv
  BY <1>1, <1>4 DEF QueueInv, HandInv, Submitted
<1>7. FrameInv /\ RunInv
  BY <1>2, <1>3 DEF FrameInv, RunInv
<1>8. StackInv
  BY <1>1, <1>2, <1>3, <1>4 DEF StackInv, Entered, Is
<1>9. LoopInv /\ BatchInv
  BY <1>1, <1>2, <1>3 DEF LoopInv, BatchInv, Leaving
<1>10. Unfinished = {}
  <2>1. \A kind, m : ~Due(kind, m)
    BY <1>1, <1>2, <1>3, <1>4 DEF Due, Holds, Doing, Busy
  <2> QED BY <2>1, <1>5, UnfinishedIs
<1>11. CountInv
  BY <1>1, <1>10, FS_EmptySet DEF CountInv, PendingCounts
<1>12. IdleInv
  BY <1>1 DEF IdleInv, IdleIsReal
<1> QED BY <1>5, <1>6, <1>7, <1>8, <1>9, <1>11, <1>12 DEF Inv

LEMMA StutterKeeps == Inv /\ UNCHANGED vars => Inv'
<1> SUFFICES ASSUME Inv, UNCHANGED vars PROVE Inv'
  OBVIOUS
<1>u. UNCHANGED <<deque, posted, disp, hand, futureDone, native, batch, fx, stack, state, made,
                  started, misled, eventLoopExitEnterPassValue, pendingRunnables, numWindows,
                  reallyIdle, caller, notified>>
  BY DEF vars, glassVars, platformVars, dispVars, loopVars
<1> USE <1>u DEF Inv
<1>1. TypeInv'
  BY DEF TypeInv
<1>2. QueueInv' /\ HandInv'
  BY DEF QueueInv, HandInv, Submitted
<1>3. FrameInv' /\ RunInv'
  BY DEF FrameInv, RunInv
<1>4. StackInv' /\ LoopInv' /\ BatchInv'
  BY DEF StackInv, Entered, LoopInv, BatchInv, Leaving
<1>5. Unfinished' = Unfinished /\ NestedLoops' = NestedLoops
  <2>1. \A kind \in {"app", "dummy"}, m \in Nat : Due(kind, m)' <=> Due(kind, m)
    BY DEF Due, Doing
  <2> QED BY <2>1, <1>1, DueSame DEF NestedLoops
<1>6. CountInv'
  BY <1>5 DEF CountInv, PendingCounts
<1>7. IdleInv'
  BY <1>5 DEF IdleInv, IdleIsReal, Nesting, InApp
<1> QED BY <1>1, <1>2, <1>3, <1>4, <1>6, <1>7

\* Every step of the specification keeps the invariant.
LEMMA StepKeeps == Inv /\ [Next]_vars => Inv'
<1> SUFFICES ASSUME Inv, [Next]_vars PROVE Inv'
  OBVIOUS
<1>1. CASE UNCHANGED vars
  BY <1>1, StutterKeeps
<1>2. ASSUME ~notified, Glass PROVE Inv'
  <2>1. CASE Dispatcher
    BY <1>2, <2>1, DispatcherTakeKeeps, DispatcherCheckKeeps, DispatcherDeferKeeps,
       DispatcherSubmitKeeps, DispatcherWaitKeeps DEF Glass, Dispatcher
  <2>2. CASE FxLoops
    BY <1>2, <2>2, IterateKeeps, DispatchKeeps, LoopReturnKeeps, LoopPopKeeps, LeaveAgainKeeps,
       FutureRunKeeps DEF Glass, FxLoops
  <2>3. CASE Event \/ InvokeAndWait \/ Enter \/ Return
    BY <1>2, <2>3, EventKeeps, InvokeAndWaitKeeps, EnterKeeps, ReturnKeeps DEF Glass
  <2>4. CASE \E e \in 1 .. MaxLoops : Leave(e)
    BY <1>2, <2>4, LeaveKeeps DEF Glass
  <2> QED BY <1>2, <2>1, <2>2, <2>3, <2>4 DEF Glass
<1>3. ASSUME ~notified, Platform PROVE Inv'
  <2>1. CASE RunLater \/ Defer \/ RunLaterOnFx
    BY <1>3, <2>1, RunLaterKeeps, DeferKeeps, RunLaterOnFxKeeps
  <2>2. CASE ExitedLastNestedLoop \/ Finally
    BY <2>2, ExitedLastNestedLoopKeeps, FinallyKeeps
  <2>3. CASE \E w \in {0, 1} : ChangedTopLevelWindows(w)
    BY <2>3, ChangedTopLevelWindowsKeeps
  <2> QED BY <1>3, <2>1, <2>2, <2>3 DEF Platform
<1> QED BY <1>1, <1>2, <1>3 DEF Next

LEMMA InvHolds == Spec => []Inv
BY InitHolds, StepKeeps, PTL DEF Spec

\* The invariant says that the three places of a deferred Runnable are one queue.
LEMMA OneQueueHolds == Inv => OneQueue
<1> SUFFICES ASSUME Inv PROVE OneQueue
  OBVIOUS
<1> DEFINE c == Len(InHand)
           q == native \o InHand \o deque
<1>1. /\ native \in Seq(Items) /\ deque \in Seq(Items) /\ posted \in Nat /\ started \in Nat
      /\ QueueInv /\ Len(native) \in Nat /\ Len(deque) \in Nat
      /\ \A i \in 1 .. Len(deque) : deque[i].kind # "wait"
  <2>1. TypeInv /\ QueueInv
    BY DEF Inv
  <2>2. /\ native \in Seq(Items) /\ deque \in Seq(Items) /\ posted \in Nat /\ started \in Nat
        /\ \A i \in 1 .. Len(deque) : deque[i].kind \in Deferred
    BY <2>1 DEF TypeInv
  <2>3. "wait" \notin Deferred
    BY DEF Deferred
  <2>4. Len(native) \in Nat /\ Len(deque) \in Nat
    BY <2>2
  <2> QED BY <2>1, <2>2, <2>3, <2>4
<1>2. /\ InHand \in Seq(Items) /\ c \in {0, 1} /\ Submitted = posted - Len(deque) - c
      /\ c = 1 => InHand[1].n = Submitted + 1 /\ InHand[1].kind # "wait"
  <2>1. CASE disp \in {"check", "submit"}
    <3>1. hand \in Items /\ hand.kind # "wait" /\ hand.n = Submitted + 1
      BY <2>1 DEF Inv, TypeInv, Deferred, QueueInv
    <3>2. InHand = <<hand>>
      BY <2>1 DEF InHand
    <3>3. Submitted = posted - Len(deque) - 1
      BY <2>1 DEF Submitted
    <3> QED BY <3>1, <3>2, <3>3
  <2>2. CASE disp \notin {"check", "submit"}
    <3>1. InHand = <<>>
      BY <2>2 DEF InHand
    <3>2. Submitted = posted - Len(deque)
      BY <2>2, <1>1 DEF Submitted
    <3> QED BY <3>1, <3>2, <1>1
  <2> QED BY <2>1, <2>2
<1> DEFINE n == Len(native)
           d == Len(deque)
<1> HIDE DEF c
<1>3. /\ q \in Seq(Items) /\ Len(q) = n + c + d /\ DOMAIN q = 1 .. n + c + d
      /\ \A i \in 1 .. n : q[i] = native[i]
      /\ c = 1 => q[n + 1] = InHand[1]
      /\ \A i \in 1 .. d : q[n + c + i] = deque[i]
  <2> DEFINE p == native \o InHand
  <2>1. /\ p \in Seq(Items) /\ Len(p) = n + c
        /\ \A i \in 1 .. n : p[i] = native[i]
        /\ \A i \in 1 .. c : p[n + i] = InHand[i]
    BY <1>1, <1>2, ConcatAt DEF c
  <2> HIDE DEF p
  <2>2. /\ p \o deque \in Seq(Items) /\ Len(p \o deque) = n + c + d
        /\ \A i \in 1 .. n + c : (p \o deque)[i] = p[i]
        /\ \A i \in 1 .. d : (p \o deque)[n + c + i] = deque[i]
    <3>1. /\ p \o deque \in Seq(Items) /\ Len(p \o deque) = Len(p) + Len(deque)
          /\ \A i \in 1 .. Len(p) : (p \o deque)[i] = p[i]
          /\ \A i \in 1 .. Len(deque) : (p \o deque)[Len(p) + i] = deque[i]
      <4>1. p \in Seq(Items) /\ deque \in Seq(Items)
        BY <2>1, <1>1
      <4> QED BY <4>1, ConcatAt
    <3>2. Len(p) = n + c
      BY <2>1
    <3> QED BY <3>1, <3>2
  <2>3. q = p \o deque
    BY DEF p
  <2> HIDE DEF q
  <2>4. DOMAIN q = 1 .. n + c + d
    BY <2>2, <2>3
  <2> QED BY <2>1, <2>2, <2>3, <2>4, <1>1, <1>2
<1> HIDE DEF q
\* The number at a position that has one.
<1>4. ASSUME NEW i \in 1 .. n + c + d
      PROVE  /\ i <= n => q[i] = native[i] /\ i \in 1 .. n
             /\ i > n => q[i].kind # "wait" /\ q[i].n = Submitted + (i - n)
  <2>1. CASE i <= n
    BY <2>1, <1>1, <1>3
  <2>2. CASE i > n /\ i <= n + c
    <3>1. c = 1 /\ i = n + 1 /\ i - n = 1
      BY <2>2, <1>1, <1>2
    <3>2. q[i] = InHand[1] /\ InHand[1].n = Submitted + 1 /\ InHand[1].kind # "wait"
      BY <3>1, <1>2, <1>3
    <3> QED BY <2>2, <3>1, <3>2
  <2>3. CASE i > n + c
    <3> DEFINE j == i - n - c
    <3>1. j \in 1 .. d /\ n + c + j = i
      BY <2>3, <1>1, <1>2
    <3>2. q[i] = deque[j]
      BY <3>1, <1>3
    <3>3. deque[j].n = posted - d + j /\ deque[j].kind # "wait"
      BY <3>1, <1>1 DEF QueueInv
    <3> QED BY <2>3, <3>2, <3>3, <1>1, <1>2
  <2> QED BY <2>1, <2>2, <2>3, <1>1, <1>2
<1>5. \A i : i \in Later(q) <=> i \in 1 .. n + c + d /\ q[i].kind # "wait"
  BY <1>3 DEF Later
<1>6. Submitted \in Int /\ started <= Submitted /\ Submitted + c + d = posted
  BY <1>1, <1>2 DEF QueueInv
<1>7. ASSUME NEW i \in Later(q) PROVE q[i].n \in started + 1 .. posted
  <2>1. CASE i <= n
    <3>1. native[i].n \in started + 1 .. Submitted
      BY <2>1, <1>1, <1>4, <1>5 DEF QueueInv
    <3> QED BY <2>1, <3>1, <1>1, <1>2, <1>4, <1>5, <1>6
  <2>2. CASE i > n
    <3>1. i \in 1 .. n + c + d /\ q[i].n = Submitted + (i - n)
      BY <2>2, <1>4, <1>5
    <3> DEFINE s == i - n
    <3>2. s \in 1 .. c + d
      BY <2>2, <3>1, <1>1, <1>2
    <3>3. q[i].n = Submitted + s
      BY <3>1
    <3> HIDE DEF s
    <3> QED BY <3>2, <3>3, <1>1, <1>2, <1>6
  <2>3. i \in Int /\ n \in Int
    BY <1>1, <1>2, <1>5
  <2> QED BY <2>1, <2>2, <2>3
<1>8. ASSUME NEW m \in started + 1 .. posted PROVE \E i \in Later(q) : q[i].n = m
  <2>1. CASE m <= Submitted
    <3>1. m \in started + 1 .. Submitted
      BY <2>1, <1>1, <1>6
    <3>2. PICK i \in 1 .. n : native[i].kind # "wait" /\ native[i].n = m
      BY <3>1, <1>1 DEF QueueInv
    <3>3. i \in 1 .. n + c + d /\ q[i] = native[i]
      BY <1>1, <1>2, <1>3
    <3> QED BY <3>2, <3>3, <1>5
  <2>2. CASE m > Submitted
    <3> DEFINE i == n + (m - Submitted)
    <3>1. i \in 1 .. n + c + d /\ i > n /\ i - n = m - Submitted
      BY <2>2, <1>1, <1>2, <1>6
    <3> HIDE DEF i
    <3>2. q[i].kind # "wait" /\ q[i].n = Submitted + (i - n)
      BY <3>1, <1>4
    <3>3. q[i].n = m
      BY <3>1, <3>2, <1>1, <1>6
    <3> QED BY <3>1, <3>2, <3>3, <1>5
  <2> QED BY <2>1, <2>2, <1>1, <1>6
<1>9. ASSUME NEW i \in Later(q), NEW j \in Later(q), i < j PROVE q[i].n < q[j].n
  <2>1. /\ i \in 1 .. n + c + d /\ j \in 1 .. n + c + d
        /\ q[i].kind # "wait" /\ q[j].kind # "wait"
    BY <1>5
  <2>2. CASE j <= n
    <3>1. i <= n
      BY <2>1, <2>2, <1>1, <1>2, <1>9
    <3>2. q[i] = native[i] /\ i \in 1 .. n /\ q[j] = native[j] /\ j \in 1 .. n
      BY <2>1, <2>2, <3>1, <1>4
    <3> QED BY <2>1, <3>2, <1>1, <1>9 DEF QueueInv
  <2>3. CASE i > n
    <3>1. j > n
      BY <2>1, <2>3, <1>1, <1>2, <1>9
    <3>2. q[i].n = Submitted + (i - n) /\ q[j].n = Submitted + (j - n)
      BY <2>1, <2>3, <3>1, <1>4
    <3> QED BY <2>1, <3>2, <1>1, <1>2, <1>6, <1>9
  <2>4. CASE i <= n /\ j > n
    <3>1. native[i].n \in started + 1 .. Submitted /\ q[i] = native[i]
      BY <2>1, <2>4, <1>1, <1>4 DEF QueueInv
    <3>2. q[j].n = Submitted + (j - n)
      BY <2>1, <2>4, <1>4
    <3> QED BY <2>1, <2>4, <3>1, <3>2, <1>1, <1>2, <1>6
  <2> QED BY <2>1, <2>2, <2>3, <2>4, <1>1, <1>2
<1>10. {q[i].n : i \in Later(q)} = started + 1 .. posted
  BY <1>7, <1>8
<1> QED BY <1>9, <1>10 DEF OneQueue, q

\* It says that loops are entered, left and returned from in order.
LEMMA DisciplineHolds == Inv => LoopDiscipline
<1> SUFFICES ASSUME Inv PROVE LoopDiscipline
  OBVIOUS
<1>1. TypeInv /\ FrameInv /\ StackInv /\ LoopInv /\ BatchInv
  BY DEF Inv
<1>2. /\ Head(fx) = fx[1] /\ Len(fx) \in Nat /\ Len(fx) >= 1 /\ DOMAIN fx = 1 .. Len(fx)
      /\ \A i \in 1 .. Len(fx) : fx[i] \in Frames
  BY <1>1, HeadOfFx DEF TypeInv
<1>3. DOMAIN stack = 1 .. Len(stack) /\ Len(stack) \in Nat
      /\ \A i \in 1 .. Len(stack) : stack[i] \in 1 .. MaxLoops
  <2>1. stack \in Seq(1 .. MaxLoops)
    BY <1>1 DEF TypeInv
  <2>2. DOMAIN stack = 1 .. Len(stack)
    BY <2>1
  <2> QED BY <2>1, <2>2, SeqAt
<1>4. TypeOK
  BY <1>1 DEF TypeInv, TypeOK
<1>5. StackAgrees
  <2>1. \A i : i \in NestedLoops <=> i \in 1 .. Len(fx) /\ fx[i].k # "run" /\ fx[i].el # 0
    BY <1>2, FrameKinds DEF NestedLoops
  <2>2. \A i \in NestedLoops : fx[i].el \in 1 .. MaxLoops
    <3>1. made \in Nat /\ made <= MaxLoops
      BY <1>1, LoopsAssumption DEF TypeInv
    <3>2. \A i \in 1 .. Len(fx) - 1 : fx[i].k # "run" => fx[i].el \in 1 .. MaxLoops
      BY <3>1, <1>1, LoopsAssumption DEF FrameInv
    <3>3. \A i \in NestedLoops : i \in 1 .. Len(fx) - 1
      BY <2>1, <1>1, <1>2 DEF FrameInv
    <3> QED BY <2>1, <3>2, <3>3
  <2>3. \A e \in 1 .. MaxLoops : Entered(e) <=> \E i \in NestedLoops : fx[i].el = e
    BY <2>1, LoopsAssumption DEF Entered, Is
  <2>4. \A e : e \in {stack[i] : i \in DOMAIN stack} <=> e \in {fx[i].el : i \in NestedLoops}
    <3> TAKE e
    <3>1. ASSUME NEW i \in DOMAIN stack PROVE \E j \in NestedLoops : fx[j].el = stack[i]
      BY <1>1, <1>3, <2>3 DEF StackInv
    <3>2. ASSUME NEW j \in NestedLoops PROVE \E i \in DOMAIN stack : stack[i] = fx[j].el
      BY <1>1, <1>3, <2>2, <2>3 DEF StackInv
    <3> QED BY <3>1, <3>2
  <2>5. {stack[i] : i \in DOMAIN stack} = {fx[i].el : i \in NestedLoops}
    BY <2>4
  <2>6. \A i, j \in DOMAIN stack : i < j => stack[i] > stack[j]
    BY <1>1, <1>3 DEF StackInv
  <2>7. \A i, j \in NestedLoops : i < j => fx[i].el > fx[j].el
    BY <2>1, <1>1 DEF StackInv
  <2> QED BY <2>5, <2>6, <2>7 DEF StackAgrees
<1>6. ReturnsInOrder
  <2> SUFFICES ASSUME fx[1].k = "left"
               PROVE  /\ Head(stack) = fx[1].el /\ state[fx[1].el] = "LEAVING"
                      /\ fx[1].ret \in {0, fx[1].el}
    BY <1>2 DEF ReturnsInOrder
  <2>1. fx[1].el \in 1 .. MaxLoops /\ state[fx[1].el] = "LEAVING" /\ fx[1].ret \in {0, fx[1].el}
    BY <1>1, <1>2 DEF LoopInv
  <2>2. Head(stack) = fx[1].el
    BY <2>1, <1>1, <1>2, TopOfStack, LoopsAssumption
  <2> QED BY <2>1, <2>2
<1>7. LeaverIsLast
  <2> SUFFICES ASSUME fx[1].k = "loop", fx[1].quit \in {"app", "leave"}, batch > 0, ~misled
               PROVE  Head(native).kind = "wait"
    BY <1>2 DEF LeaverIsLast, InLoop
  <2>1. Leaving
    BY <1>2 DEF Leaving
  <2>2. native[1].kind = "wait"
    BY <2>1, <1>1 DEF BatchInv, TypeInv
  <2>3. native \in Seq(Items) /\ native # <<>>
    BY <1>1 DEF TypeInv
  <2> QED BY <2>2, <2>3, TailAt
<1> QED BY <1>4, <1>5, <1>6, <1>7 DEF LoopDiscipline

\* It says that the platform is found idle when it is, and only then.
LEMMA IdleHolds == Inv => IdleIsExact
<1> SUFFICES ASSUME Inv PROVE IdleIsExact
  OBVIOUS
<1>1. TypeInv /\ CountInv /\ IdleInv
  BY DEF Inv
<1>2. ASSUME Quiescent, numWindows = 0 PROVE notified
  <2>1. /\ fx = <<MainLoop>> /\ deque = <<>> /\ native = <<>> /\ caller = "idle"
        /\ disp \notin {"check", "submit"} /\ MainLoop.k = "loop"
    BY <1>2 DEF Quiescent, MainLoop
  <2>2. Len(fx) = 1 /\ fx[1] = MainLoop /\ Len(deque) = 0 /\ Len(native) = 0
    BY <2>1
  <2>3. \A kind, m : ~Due(kind, m)
    BY <2>1, <2>2 DEF Due, Holds, Doing, Busy
  <2>4. Unfinished = {}
    BY <2>3, <1>1, UnfinishedIs
  <2>5. pendingRunnables = 0
    BY <2>1, <2>4, <1>1, FS_EmptySet DEF CountInv, PendingCounts
  <2> QED BY <2>1, <2>2, <2>5, <1>1, <1>2 DEF IdleInv, Nesting
<1> QED BY <1>1, <1>2 DEF IdleIsExact, IdleIsNoticed, CountInv, IdleInv

\* Application.invokeLater and InvokeLaterDispatcher: every deferred Runnable that
\* has not started is in one of three places, and together they are one queue in the
\* order of the calls. None is lost, started twice or overtaken, whatever loops are
\* entered and left, also while the dispatcher puts a Runnable back.
THEOREM RunnablesAreOneQueue == Spec => []OneQueue
BY InvHolds, OneQueueHolds, PTL

\* EventLoop: its stack is the stack of the native loops, a loop returns only when it
\* is the innermost one and was left, never with the value of another, and the
\* Runnable that leaves a loop is the last one to run in it unless the dispatcher
\* took a loop that was entered elsewhere for its Runnable's.
THEOREM LoopsAreDisciplined == Spec => []LoopDiscipline
BY InvHolds, DisciplineHolds, PTL

\* PlatformImpl: pendingRunnables counts exactly the Runnables that were accepted and
\* have not ended, the listeners are told that the platform is idle only when it is,
\* and when everything has ended with no window open they have been told.
THEOREM IdleIsFoundExactly == Spec => []IdleIsExact
BY InvHolds, IdleHolds, PTL
=============================================================================
