---------------------------- MODULE FxTaskProofs ----------------------------
(***************************************************************************)
(* Proofs about FxTask for every set of threads, every set of payloads and *)
(* every bound: type correctness, the coalescing of updates, and the life  *)
(* of a Task as its Future and the FX thread show it.                      *)
(***************************************************************************)
EXTENDS FxTask, SequenceFacts

(***************************************************************************)
(* The type invariant holds with one strengthening: the pool thread is in  *)
(* the catch clause with a Throwable in hand.                              *)
(***************************************************************************)
TypeInv == TypeOK /\ (wpc = "threw" => thrown \in Causes)

LEMMA StatementTypes ==
  /\ \A v \in States : SetState(v) \in Statement /\ SetRunning(v) \in Statement
  /\ Fire \in Statement /\ SetValue(Result) \in Statement
  /\ \A x \in Causes : SetException(x) \in Statement
  /\ \A c \in Channel : Apply(c) \in Statement
BY DEF Statement

LEMMA RunnableIsStatements == \A r \in Runnable : r \in Seq(Statement)
<1>1. StartRunnable \in Seq(Statement) /\ CancelledRunnable \in Seq(Statement)
  BY StatementTypes DEF StartRunnable, CancelledRunnable, States, Ending
<1>2. SucceedRunnable \in Seq(Statement)
  BY StatementTypes DEF SucceedRunnable, States, Ending
<1>3. \A x \in Causes : FailRunnable(x) \in Seq(Statement)
  BY StatementTypes DEF FailRunnable, States, Ending
<1>4. \A c \in Channel : UpdateRunnable(c) \in Seq(Statement)
  BY StatementTypes DEF UpdateRunnable
<1> QED BY <1>1, <1>2, <1>3, <1>4 DEF Runnable

\* The argument of a statement is of the kind its operation expects.
LEMMA StatementArgs ==
  ASSUME NEW s \in Statement
  PROVE  /\ s.do \in {"setState", "setRunning"} => s.arg \in States
         /\ s.do = "setException" => s.arg \in Causes
         /\ s.do = "apply" => s.arg \in Channel /\ s = Apply(s.arg)
         /\ \A c : s = Apply(c) => s.do = "apply" /\ s.arg = c
BY DEF Statement, SetState, SetRunning, SetException, Apply, Fire, SetValue

LEMMA TypeInit == Init => TypeInv
<1> SUFFICES ASSUME Init PROVE TypeInv
  OBVIOUS
<1>0. queue = <<>> /\ todo = <<>> /\ updates = 0
  BY DEF Init
<1>1. queue \in Seq(Runnable) /\ todo \in Seq(Statement)
  BY <1>0
<1>2. pend \in [Bg -> Runnable \cup {None}]
  BY DEF Init
<1>3. DOMAIN prop = Channel /\ DOMAIN slot = Channel /\ DOMAIN last = Channel
  BY DEF Init
<1>4. updates \in 0 .. MaxUpdates
  BY <1>0, BoundAssumption
<1> QED BY <1>1, <1>2, <1>3, <1>4 DEF Init, TypeInv, TypeOK, States

LEMMA TypeStep == TypeInv /\ [Next]_vars => TypeInv'
<1> SUFFICES ASSUME TypeInv, [Next]_vars PROVE TypeInv'
  OBVIOUS
<1> USE DEF TypeInv, TypeOK
<1>1. CASE FxTake
  BY <1>1, RunnableIsStatements DEF FxTake, wkVars, updVars
<1>2. CASE FxSetState
  <2> DEFINE v == Head(todo).arg
  <2>1. Head(todo) \in Statement /\ Tail(todo) \in Seq(Statement)
    BY <1>2 DEF FxSetState
  <2>2. v \in States
    BY <1>2, <2>1, StatementArgs DEF FxSetState
  <2>3. <<SetRunning(v), Fire>> \o Tail(todo) \in Seq(Statement)
    BY <2>1, <2>2, StatementTypes
  <2>4. todo' \in Seq(Statement) /\ state' \in States /\ site' \in {"none", "listener"}
    BY <1>2, <2>1, <2>2, <2>3 DEF FxSetState, SetStateEffect
  <2> QED BY <1>2, <2>4 DEF FxSetState, wkVars, updVars
<1>3. CASE FxSetRunning
  BY <1>3 DEF FxSetRunning, RunningAs, wkVars, updVars
<1>4. CASE FxFire
  BY <1>4 DEF FxFire, wkVars, updVars
<1>5. CASE FxSetException
  BY <1>5, StatementArgs DEF FxSetException, wkVars, updVars
<1>6. CASE FxSetValue
  BY <1>6 DEF FxSetValue, wkVars, updVars
<1>7. CASE FxApply
  BY <1>7 DEF FxApply, ApplyEffect, wkVars, updVars
<1>8. CASE FxCancel
  BY <1>8, RunnableIsStatements DEF FxCancel, Runnable, wkVars, updVars
<1>9. ASSUME NEW c \in Updatable, NEW a \in Args(c), FxUpdate(c, a) PROVE TypeInv'
  BY <1>9, BoundAssumption DEF FxUpdate, fxVars, wkVars, updVars
<1>10. CASE WorkerRun
  BY <1>10 DEF WorkerRun, HandOver, Runnable, fxVars, updVars
<1>11. CASE CallReturns \/ CallThrows
  BY <1>11 DEF CallReturns, CallThrows, Causes, fxVars, updVars
<1>12. CASE WorkerReturned
  BY <1>12 DEF WorkerReturned, HandOver, Runnable, Causes, fxVars, updVars
<1>13. CASE WorkerThrew
  BY <1>13 DEF WorkerThrew, HandOver, Runnable, fxVars, updVars
<1>14. CASE FutureDone
  BY <1>14 DEF FutureDone, fxVars, updVars
<1>15. ASSUME NEW t \in Bg, Post(t) PROVE TypeInv'
  <2>1. pend[t] \in Runnable
    BY <1>15 DEF Post
  <2> QED BY <1>15, <2>1 DEF Post, fxVars, wkVars, updVars
<1>16. ASSUME NEW t \in Bg, BgCancelTask(t) PROVE TypeInv'
  BY <1>16 DEF BgCancelTask, HandOver, Runnable, fxVars, updVars
<1>17. ASSUME NEW t \in Bg, NEW c \in Updatable, NEW a \in Args(c), BgUpdate(t, c, a)
       PROVE  TypeInv'
  BY <1>17, BoundAssumption, ChannelAssumption, SMTT(30)
     DEF BgUpdate, Publish, HandOver, Runnable, fxVars, wkVars
<1>18. CASE Done \/ UNCHANGED vars
  BY <1>18 DEF Done, vars, fxVars, wkVars, updVars
<1> QED
  BY <1>1, <1>2, <1>3, <1>4, <1>5, <1>6, <1>7, <1>8, <1>9, <1>10, <1>11, <1>12,
     <1>13, <1>14, <1>15, <1>16, <1>17, <1>18 DEF Next, Fx, WorkerStep

\* The type invariant of Task holds in every reachable state.
THEOREM TypeCorrect == Spec => []TypeOK
<1>1. TypeInv => TypeOK BY DEF TypeInv
<1> QED BY TypeInit, TypeStep, <1>1, PTL DEF Spec

-----------------------------------------------------------------------------
(***************************************************************************)
(* A value that occurs nowhere, or exactly once, in a sequence; how the    *)
(* operations on the two sequences of the model change that.               *)
(***************************************************************************)
Absent(q, x) == \A i \in 1 .. Len(q) : q[i] # x
Once(q, x) == \E i \in 1 .. Len(q) : q[i] = x /\ \A j \in 1 .. Len(q) : q[j] = x => j = i

LEMMA AppendOther ==
  ASSUME NEW S, NEW q \in Seq(S), NEW e \in S, NEW x, e # x
  PROVE  /\ Absent(q, x) => Absent(Append(q, e), x)
         /\ Once(q, x) => Once(Append(q, e), x)
<1>1. Len(Append(q, e)) = Len(q) + 1 /\ Append(q, e)[Len(q) + 1] = e
  OBVIOUS
<1>2. \A i \in 1 .. Len(q) : Append(q, e)[i] = q[i]
  OBVIOUS
<1>3. Len(q) \in Nat
  OBVIOUS
<1>4. Absent(q, x) => Absent(Append(q, e), x)
  BY <1>1, <1>2, <1>3 DEF Absent
<1>5. ASSUME Once(q, x) PROVE Once(Append(q, e), x)
  <2>1. PICK i \in 1 .. Len(q) : q[i] = x /\ \A j \in 1 .. Len(q) : q[j] = x => j = i
    BY <1>5 DEF Once
  <2>2. i \in 1 .. Len(Append(q, e)) /\ Append(q, e)[i] = x
    BY <2>1, <1>1, <1>2, <1>3
  <2>3. \A j \in 1 .. Len(Append(q, e)) : Append(q, e)[j] = x => j = i
    BY <2>1, <1>1, <1>2, <1>3
  <2> QED BY <2>2, <2>3 DEF Once
<1> QED BY <1>4, <1>5

LEMMA AppendSame ==
  ASSUME NEW S, NEW q \in Seq(S), NEW x \in S, Absent(q, x)
  PROVE  Once(Append(q, x), x)
<1>1. Len(q) + 1 \in 1 .. Len(Append(q, x)) /\ Append(q, x)[Len(q) + 1] = x
  OBVIOUS
<1>2. \A j \in 1 .. Len(Append(q, x)) : Append(q, x)[j] = x => j = Len(q) + 1
  BY DEF Absent
<1> QED BY <1>1, <1>2 DEF Once

LEMMA TailOther ==
  ASSUME NEW S, NEW q \in Seq(S), q # <<>>, NEW x, Head(q) # x
  PROVE  /\ Absent(q, x) => Absent(Tail(q), x)
         /\ Once(q, x) => Once(Tail(q), x)
<1>1. /\ Len(q) \in Nat /\ Len(q) >= 1 /\ Len(Tail(q)) = Len(q) - 1 /\ q[1] # x
      /\ \A i \in 1 .. Len(q) - 1 : Tail(q)[i] = q[i + 1]
  OBVIOUS
<1>2. Absent(q, x) => Absent(Tail(q), x)
  BY <1>1 DEF Absent
<1>3. ASSUME Once(q, x) PROVE Once(Tail(q), x)
  <2>1. PICK i \in 1 .. Len(q) : q[i] = x /\ \A j \in 1 .. Len(q) : q[j] = x => j = i
    BY <1>3 DEF Once
  <2>2. i - 1 \in 1 .. Len(Tail(q)) /\ Tail(q)[i - 1] = x
    BY <2>1, <1>1
  <2>3. \A j \in 1 .. Len(Tail(q)) : Tail(q)[j] = x => j = i - 1
    BY <2>1, <1>1
  <2> QED BY <2>2, <2>3 DEF Once
<1> QED BY <1>2, <1>3

LEMMA TailSame ==
  ASSUME NEW S, NEW q \in Seq(S), q # <<>>, Once(q, Head(q))
  PROVE  Absent(Tail(q), Head(q))
BY DEF Once, Absent

LEMMA ConcatOther ==
  ASSUME NEW S, NEW p \in Seq(S), NEW q \in Seq(S), NEW x, Absent(p, x)
  PROVE  /\ Absent(q, x) => Absent(p \o q, x)
         /\ Once(q, x) => Once(p \o q, x)
<1> DEFINE r == p \o q
<1>1. /\ Len(p) \in Nat /\ Len(q) \in Nat /\ Len(r) = Len(p) + Len(q)
      /\ \A i \in 1 .. Len(p) : r[i] = p[i]
      /\ \A i \in 1 .. Len(r) : i > Len(p) => r[i] = q[i - Len(p)]
  OBVIOUS
<1> HIDE DEF r
<1>2. Absent(q, x) => Absent(r, x)
  BY <1>1 DEF Absent
<1>3. ASSUME Once(q, x) PROVE Once(r, x)
  <2>1. PICK i \in 1 .. Len(q) : q[i] = x /\ \A j \in 1 .. Len(q) : q[j] = x => j = i
    BY <1>3 DEF Once
  <2>2. i + Len(p) \in 1 .. Len(r) /\ r[i + Len(p)] = x
    <3>1. i + Len(p) \in 1 .. Len(r) /\ i + Len(p) > Len(p)
      BY <1>1
    <3>2. (i + Len(p)) - Len(p) = i
      BY <1>1
    <3> QED BY <3>1, <3>2, <2>1, <1>1
  <2>3. ASSUME NEW j \in 1 .. Len(r), r[j] = x PROVE j = i + Len(p)
    <3>1. j > Len(p)
      BY <2>3, <1>1 DEF Absent
    <3>2. j - Len(p) \in 1 .. Len(q) /\ q[j - Len(p)] = x
      BY <3>1, <2>3, <1>1
    <3>3. j - Len(p) = i
      BY <3>2, <2>1
    <3> QED BY <3>3, <1>1
  <2> QED BY <2>2, <2>3 DEF Once
<1> QED BY <1>2, <1>3 DEF r

LEMMA ConcatSame ==
  ASSUME NEW S, NEW q \in Seq(S), NEW x \in S, Absent(q, x)
  PROVE  Once(<<x>> \o q, x)
<1> DEFINE r == <<x>> \o q
<1>1. /\ Len(q) \in Nat /\ Len(r) = 1 + Len(q) /\ r[1] = x
      /\ \A i \in 1 .. Len(r) : i > 1 => r[i] = q[i - 1]
  OBVIOUS
<1> HIDE DEF r
<1>2. 1 \in 1 .. Len(r) /\ \A j \in 1 .. Len(r) : r[j] = x => j = 1
  BY <1>1 DEF Absent
<1> QED BY <1>1, <1>2 DEF Once, r

-----------------------------------------------------------------------------
(***************************************************************************)
(* The inductive invariant of coalescing. The Runnable that will read the  *)
(* slot of channel c is in the queue, in a background thread's hands or    *)
(* being executed: in exactly one place if the slot is full, and nowhere   *)
(* if it is empty. The pool thread hands nothing over while it still holds *)
(* an update.                                                              *)
(***************************************************************************)
PendAbsent(c) == \A t \in Bg : pend[t] # UpdateRunnable(c)
PendOnce(c) ==
  \E t \in Bg : pend[t] = UpdateRunnable(c) /\ \A u \in Bg : pend[u] = UpdateRunnable(c) => u = t

OneCarrier(c) ==
  IF slot[c] = Null
  THEN Absent(queue, UpdateRunnable(c)) /\ PendAbsent(c) /\ Absent(todo, Apply(c))
  ELSE \/ Once(queue, UpdateRunnable(c)) /\ PendAbsent(c) /\ Absent(todo, Apply(c))
       \/ Absent(queue, UpdateRunnable(c)) /\ PendOnce(c) /\ Absent(todo, Apply(c))
       \/ Absent(queue, UpdateRunnable(c)) /\ PendAbsent(c) /\ Once(todo, Apply(c))

HandsFree == wpc \in {"idle", "returned", "threw"} => pend[Worker] = None

CoalesceInv ==
  /\ TypeInv
  /\ HandsFree
  /\ \A c \in Channel : NeverNull(c) => OneCarrier(c)

\* Only the Runnable of a channel contains the statement that reads its slot.
LEMMA OnlyUpdateApplies ==
  ASSUME NEW c \in Channel, NEW r \in Runnable, r # UpdateRunnable(c)
  PROVE  Absent(r, Apply(c))
<1>1. /\ Absent(StartRunnable, Apply(c)) /\ Absent(SucceedRunnable, Apply(c))
      /\ Absent(CancelledRunnable, Apply(c)) /\ \A x : Absent(FailRunnable(x), Apply(c))
  BY DEF StartRunnable, SucceedRunnable, CancelledRunnable, FailRunnable, Absent,
         SetState, SetValue, SetException, Apply
<1>2. \A d \in Channel : d # c => Absent(UpdateRunnable(d), Apply(c))
  BY DEF UpdateRunnable, Absent, Apply
<1> QED BY <1>1, <1>2 DEF Runnable

\* Nothing but an update is the Runnable of a channel.
LEMMA OtherRunnables ==
  ASSUME NEW c
  PROVE  /\ None # UpdateRunnable(c) /\ StartRunnable # UpdateRunnable(c)
         /\ SucceedRunnable # UpdateRunnable(c) /\ CancelledRunnable # UpdateRunnable(c)
         /\ \A x : FailRunnable(x) # UpdateRunnable(c)
         /\ \A d : d # c => UpdateRunnable(d) # UpdateRunnable(c)
<1>1. None # UpdateRunnable(c)
  BY DEF None, UpdateRunnable
<1>2. StartRunnable # UpdateRunnable(c) /\ SucceedRunnable # UpdateRunnable(c)
  BY DEF StartRunnable, SucceedRunnable, UpdateRunnable
<1>3. \A x : FailRunnable(x) # UpdateRunnable(c)
  BY DEF FailRunnable, UpdateRunnable
<1>4. CancelledRunnable # UpdateRunnable(c)
  BY DEF CancelledRunnable, UpdateRunnable, SetState, Apply
<1>5. \A d : d # c => UpdateRunnable(d) # UpdateRunnable(c)
  BY DEF UpdateRunnable, Apply
<1> QED BY <1>1, <1>2, <1>3, <1>4, <1>5

LEMMA CoalesceInit == Init => CoalesceInv
<1> SUFFICES ASSUME Init PROVE CoalesceInv
  OBVIOUS
<1>1. queue = <<>> /\ todo = <<>> /\ pend = [t \in Bg |-> None] /\ slot = [c \in Channel |-> Null]
  BY DEF Init
<1>2. HandsFree
  BY <1>1 DEF HandsFree, Bg
<1>3. ASSUME NEW c \in Channel PROVE OneCarrier(c)
  <2>1. Absent(queue, UpdateRunnable(c)) /\ Absent(todo, Apply(c))
    BY <1>1 DEF Absent
  <2>2. PendAbsent(c)
    BY <1>1, OtherRunnables DEF PendAbsent
  <2> QED BY <1>1, <2>1, <2>2 DEF OneCarrier
<1> QED BY <1>2, <1>3, TypeInit DEF CoalesceInv

\* A background thread with nothing in hand takes something else in hand.
LEMMA HandOverOther ==
  ASSUME TypeInv, NEW c \in Channel, OneCarrier(c),
         NEW t \in Bg, pend[t] = None, NEW r, r # UpdateRunnable(c), HandOver(t, r),
         UNCHANGED <<queue, todo, slot>>
  PROVE  OneCarrier(c)'
<1>1. \A u \in Bg : pend'[u] = UpdateRunnable(c) <=> pend[u] = UpdateRunnable(c)
  BY OtherRunnables DEF HandOver, TypeInv, TypeOK
<1> QED BY <1>1 DEF OneCarrier, PendAbsent, PendOnce

\* A statement that does not read channel c's slot is executed.
LEMMA StatementOther ==
  ASSUME TypeInv, NEW c \in Channel, OneCarrier(c), todo # <<>>, Head(todo) # Apply(c),
         NEW p \in Seq(Statement), Absent(p, Apply(c)), todo' = p \o Tail(todo),
         UNCHANGED <<queue, pend>>, slot'[c] = slot[c]
  PROVE  OneCarrier(c)'
<1>1. todo \in Seq(Statement) /\ Tail(todo) \in Seq(Statement)
  BY DEF TypeInv, TypeOK
<1>2. /\ Absent(todo, Apply(c)) => Absent(todo', Apply(c))
      /\ Once(todo, Apply(c)) => Once(todo', Apply(c))
  BY <1>1, TailOther, ConcatOther
<1> QED BY <1>2 DEF OneCarrier, PendAbsent, PendOnce

LEMMA OneCarrierStep ==
  ASSUME CoalesceInv, Next, NEW c \in Channel, NeverNull(c)
  PROVE  OneCarrier(c)'
<1> DEFINE U == UpdateRunnable(c)
<1>0. /\ TypeInv /\ HandsFree /\ OneCarrier(c) /\ Worker \in Bg
      /\ queue \in Seq(Runnable) /\ todo \in Seq(Statement)
  BY DEF CoalesceInv, TypeInv, TypeOK, Bg
<1>1. CASE FxTake
  <2>1. Head(queue) \in Runnable /\ Head(queue) \in Seq(Statement)
    BY <1>0, <1>1, RunnableIsStatements DEF FxTake
  <2>2. CASE Head(queue) # U
    <3>1. /\ Absent(todo, Apply(c)) => Absent(todo', Apply(c))
          /\ Once(todo, Apply(c)) => Once(todo', Apply(c))
      BY <1>0, <1>1, <2>1, <2>2, OnlyUpdateApplies, ConcatOther DEF FxTake
    <3>2. (Absent(queue, U) => Absent(queue', U)) /\ (Once(queue, U) => Once(queue', U))
      BY <1>0, <1>1, <2>2, TailOther DEF FxTake
    <3> QED BY <1>0, <1>1, <3>1, <3>2 DEF FxTake, OneCarrier, PendAbsent, PendOnce, updVars
  <2>3. CASE Head(queue) = U
    <3>1. ~ Absent(queue, U)
      BY <1>0, <1>1, <2>3 DEF FxTake, Absent
    <3>2. slot[c] # Null /\ Once(queue, U) /\ PendAbsent(c) /\ Absent(todo, Apply(c))
      BY <1>0, <3>1 DEF OneCarrier
    <3>3. Absent(queue', U)
      BY <1>0, <1>1, <2>3, <3>2, TailSame DEF FxTake
    <3>4. Once(todo', Apply(c))
      BY <1>0, <1>1, <2>3, <3>2, ConcatSame, StatementTypes DEF FxTake, UpdateRunnable
    <3> QED BY <1>1, <3>2, <3>3, <3>4 DEF FxTake, OneCarrier, PendAbsent, updVars
  <2> QED BY <2>2, <2>3
<1>2. CASE FxSetState
  <2> DEFINE v == Head(todo).arg
  <2>1. Head(todo) \in Statement /\ Head(todo) # Apply(c) /\ v \in States
    BY <1>0, <1>2, StatementArgs DEF FxSetState
  <2>2. <<SetRunning(v), Fire>> \in Seq(Statement)
    BY <2>1, StatementTypes
  <2>3. Absent(<<SetRunning(v), Fire>>, Apply(c)) /\ Absent(<<>>, Apply(c))
    BY DEF Absent, SetRunning, Fire, Apply
  <2>4. todo' = <<SetRunning(v), Fire>> \o Tail(todo) \/ todo' = <<>> \o Tail(todo)
    BY <1>0, <1>2 DEF FxSetState, SetStateEffect
  <2>5. PICK p \in Seq(Statement) : Absent(p, Apply(c)) /\ todo' = p \o Tail(todo)
    <3>1. <<>> \in Seq(Statement)
      OBVIOUS
    <3> QED BY <2>2, <2>3, <2>4, <3>1
  <2>6. todo # <<>> /\ UNCHANGED <<queue, pend, slot>>
    BY <1>2 DEF FxSetState, updVars
  <2> QED BY <1>0, <2>1, <2>5, <2>6, StatementOther
<1>3. CASE FxSetRunning \/ FxFire \/ FxSetException \/ FxSetValue
  <2>1. Head(todo) # Apply(c)
    BY <1>3 DEF FxSetRunning, FxFire, FxSetException, FxSetValue, Apply
  <2>2. todo # <<>> /\ todo' = <<>> \o Tail(todo) /\ UNCHANGED <<queue, pend, slot>>
    BY <1>0, <1>3 DEF FxSetRunning, FxFire, FxSetException, FxSetValue, updVars
  <2>3. <<>> \in Seq(Statement) /\ Absent(<<>>, Apply(c))
    BY DEF Absent
  <2> QED BY <1>0, <2>1, <2>2, <2>3, StatementOther
<1>4. CASE FxApply
  <2>1. Head(todo) \in Statement /\ Head(todo).arg \in Channel /\ Head(todo) = Apply(Head(todo).arg)
    BY <1>0, <1>4, StatementArgs DEF FxApply
  <2>2. CASE Head(todo) = Apply(c)
    <3>1. ~ Absent(todo, Apply(c))
      BY <1>0, <1>4, <2>2 DEF FxApply, Absent
    <3>2. Absent(queue, U) /\ PendAbsent(c) /\ Once(todo, Apply(c))
      BY <1>0, <3>1 DEF OneCarrier
    <3>3. Absent(todo', Apply(c))
      BY <1>0, <1>4, <2>2, <3>2, TailSame DEF FxApply
    <3>4. slot'[c] = Null
      BY <1>0, <1>4, <2>2 DEF FxApply, ApplyEffect, Apply, TypeInv, TypeOK
    <3> QED BY <1>4, <3>2, <3>3, <3>4 DEF FxApply, OneCarrier, PendAbsent
  <2>3. CASE Head(todo) # Apply(c)
    <3>1. Head(todo).arg # c
      BY <2>1, <2>3
    <3>2. slot'[c] = slot[c]
      BY <1>0, <1>4, <3>1 DEF FxApply, ApplyEffect, TypeInv, TypeOK
    <3>3. <<>> \in Seq(Statement) /\ Absent(<<>>, Apply(c)) /\ todo' = <<>> \o Tail(todo)
      BY <1>0, <1>4 DEF Absent, FxApply
    <3> QED BY <1>0, <1>4, <2>3, <3>2, <3>3, StatementOther DEF FxApply
  <2> QED BY <2>2, <2>3
<1>5. CASE FxCancel
  <2>1. CancelledRunnable \in Seq(Statement) /\ Absent(CancelledRunnable, Apply(c))
    BY RunnableIsStatements, OnlyUpdateApplies, OtherRunnables DEF Runnable
  <2>2. /\ Absent(todo, Apply(c)) => Absent(todo', Apply(c))
        /\ Once(todo, Apply(c)) => Once(todo', Apply(c))
    BY <1>0, <1>5, <2>1, ConcatOther DEF FxCancel
  <2> QED BY <1>0, <1>5, <2>2 DEF FxCancel, OneCarrier, PendAbsent, PendOnce, updVars
<1>6. ASSUME NEW d \in Updatable, NEW a \in Args(d), FxUpdate(d, a) PROVE OneCarrier(c)'
  BY <1>0, <1>6 DEF FxUpdate, OneCarrier, PendAbsent, PendOnce, fxVars
<1>7. CASE WorkerRun \/ WorkerReturned \/ WorkerThrew
  <2>1. UNCHANGED <<queue, todo, slot>> /\ pend[Worker] = None
    BY <1>0, <1>7 DEF WorkerRun, WorkerReturned, WorkerThrew, HandsFree, fxVars, updVars
  <2>2. CASE UNCHANGED pend
    BY <1>0, <2>1, <2>2 DEF OneCarrier, PendAbsent, PendOnce
  <2>3. CASE ~ UNCHANGED pend
    <3>1. PICK r : r # U /\ HandOver(Worker, r)
      BY <1>7, <2>3, OtherRunnables DEF WorkerRun, WorkerReturned, WorkerThrew
    <3> QED BY <1>0, <2>1, <3>1, HandOverOther
  <2> QED BY <2>2, <2>3
<1>8. CASE CallReturns \/ CallThrows \/ FutureDone \/ Done
  BY <1>0, <1>8 DEF CallReturns, CallThrows, FutureDone, Done, OneCarrier, PendAbsent, PendOnce,
                    fxVars, updVars, vars
<1>9. ASSUME NEW t \in Bg, Post(t) PROVE OneCarrier(c)'
  <2>0. pend[t] \in Runnable /\ pend \in [Bg -> Runnable \cup {None}]
    BY <1>0, <1>9 DEF Post, TypeInv, TypeOK
  <2>1. CASE pend[t] # U
    <3>1. \A u \in Bg : pend'[u] = U <=> pend[u] = U
      BY <1>9, <2>0, <2>1, OtherRunnables DEF Post
    <3>2. (Absent(queue, U) => Absent(queue', U)) /\ (Once(queue, U) => Once(queue', U))
      BY <1>0, <1>9, <2>0, <2>1, AppendOther DEF Post
    <3> QED BY <1>0, <1>9, <3>1, <3>2 DEF Post, OneCarrier, PendAbsent, PendOnce, fxVars, updVars
  <2>2. CASE pend[t] = U
    <3>1. slot[c] # Null /\ Absent(queue, U) /\ PendOnce(c) /\ Absent(todo, Apply(c))
      BY <1>0, <2>2 DEF OneCarrier, PendAbsent
    <3>2. Once(queue', U)
      BY <1>0, <1>9, <2>0, <2>2, <3>1, AppendSame DEF Post
    <3>3. PendAbsent(c)'
      BY <1>9, <2>0, <2>2, <3>1, OtherRunnables DEF Post, PendAbsent, PendOnce
    <3> QED BY <1>9, <3>1, <3>2, <3>3 DEF Post, OneCarrier, fxVars, updVars
  <2> QED BY <2>1, <2>2
<1>10. ASSUME NEW t \in Bg, BgCancelTask(t) PROVE OneCarrier(c)'
  BY <1>0, <1>10, HandOverOther, OtherRunnables DEF BgCancelTask, BgFree, fxVars, updVars
<1>11. ASSUME NEW t \in Bg, NEW d \in Updatable, NEW a \in Args(d), BgUpdate(t, d, a)
       PROVE  OneCarrier(c)'
  <2>0. /\ pend[t] = None /\ UNCHANGED <<queue, todo>> /\ d \in Channel
        /\ slot' = [slot EXCEPT ![d] = Encode(d, a)]
        /\ slot[d] = Null => HandOver(t, UpdateRunnable(d))
        /\ slot[d] # Null => UNCHANGED pend
    BY <1>11, ChannelAssumption DEF BgUpdate, BgFree, Publish, fxVars
  <2>1. CASE d # c
    <3>1. slot'[c] = slot[c]
      BY <1>0, <2>0, <2>1 DEF TypeInv, TypeOK
    <3>2. \A u \in Bg : pend'[u] = U <=> pend[u] = U
      BY <1>0, <2>0, <2>1, OtherRunnables DEF HandOver, TypeInv, TypeOK
    <3> QED BY <1>0, <2>0, <3>1, <3>2 DEF OneCarrier, PendAbsent, PendOnce
  <2>2. CASE d = c
    <3>1. slot'[c] # Null
      BY <1>0, <1>11, <2>0, <2>2, ProgressNotNull DEF TypeInv, TypeOK, NeverNull, Encode, Args
    <3>2. CASE slot[c] = Null
      <4>1. PendOnce(c)'
        BY <1>0, <2>0, <2>2, <3>2 DEF HandOver, PendOnce, PendAbsent, OneCarrier, TypeInv, TypeOK
      <4> QED BY <1>0, <2>0, <3>1, <3>2, <4>1 DEF OneCarrier
    <3>3. CASE slot[c] # Null
      BY <1>0, <2>0, <2>2, <3>1, <3>3 DEF OneCarrier, PendAbsent, PendOnce
    <3> QED BY <3>2, <3>3
  <2> QED BY <2>1, <2>2
<1> QED
  BY <1>1, <1>2, <1>3, <1>4, <1>5, <1>6, <1>7, <1>8, <1>9, <1>10, <1>11 DEF Next, Fx, WorkerStep

LEMMA HandsFreeStep ==
  ASSUME CoalesceInv, Next
  PROVE  HandsFree'
<1>0. Worker \in Bg /\ pend \in [Bg -> Runnable \cup {None}]
  BY DEF CoalesceInv, TypeInv, TypeOK, Bg
<1>1. CASE Fx \/ FxCancel \/ \E c \in Updatable : \E a \in Args(c) : FxUpdate(c, a)
  <2>1. UNCHANGED <<wpc, pend>>
    BY <1>1 DEF Fx, FxTake, FxSetState, FxSetRunning, FxFire, FxSetException, FxSetValue,
                FxApply, FxCancel, FxUpdate, wkVars
  <2> QED BY <2>1 DEF CoalesceInv, HandsFree
<1>2. CASE WorkerStep \/ CallReturns \/ CallThrows \/ Done
  BY <1>0, <1>2 DEF WorkerStep, WorkerRun, WorkerReturned, WorkerThrew, FutureDone, CallReturns,
                    CallThrows, Done, HandOver, CoalesceInv, HandsFree, vars, wkVars
<1>3. ASSUME NEW t \in Bg, Post(t) PROVE HandsFree'
  BY <1>0, <1>3 DEF Post, CoalesceInv, HandsFree, wkVars
<1>4. ASSUME NEW t \in Bg, BgCancelTask(t) PROVE HandsFree'
  BY <1>0, <1>4 DEF BgCancelTask, BgFree, HandOver, CoalesceInv, HandsFree
<1>5. ASSUME NEW t \in Bg, NEW c \in Updatable, NEW a \in Args(c), BgUpdate(t, c, a)
      PROVE  HandsFree'
  BY <1>0, <1>5 DEF BgUpdate, BgFree, Publish, HandOver, CoalesceInv, HandsFree, wkVars
<1> QED BY <1>1, <1>2, <1>3, <1>4, <1>5 DEF Next

LEMMA CoalesceStep == CoalesceInv /\ [Next]_vars => CoalesceInv'
<1> SUFFICES ASSUME CoalesceInv, [Next]_vars PROVE CoalesceInv'
  OBVIOUS
<1>1. TypeInv'
  BY TypeStep DEF CoalesceInv
<1>2. CASE Next
  <2>1. \A c \in Channel : NeverNull(c) => OneCarrier(c)'
    BY <1>2, OneCarrierStep
  <2>2. \A c \in Channel : NeverNull(c)' <=> NeverNull(c)
    BY DEF NeverNull
  <2> QED BY <1>1, <1>2, <2>1, <2>2, HandsFreeStep DEF CoalesceInv
<1>3. CASE UNCHANGED vars
  BY <1>1, <1>3 DEF CoalesceInv, HandsFree, OneCarrier, PendAbsent, PendOnce, NeverNull, vars,
                    wkVars, fxVars, updVars
<1> QED BY <1>2, <1>3

\* The invariant says what Coalesced says of the set of Runnables.
LEMMA OneCarrierIsCoalesced ==
  ASSUME TypeInv, NEW c \in Channel, OneCarrier(c)
  PROVE  IF slot[c] = Null THEN Carried(c) = {} ELSE \E r \in Carried(c) : Carried(c) = {r}
<1> DEFINE Q == {<<"queue", i>> : i \in {j \in DOMAIN queue : queue[j] = UpdateRunnable(c)}}
           H == {<<"pend", t>> : t \in {u \in Bg : pend[u] = UpdateRunnable(c)}}
           D == {<<"todo", i>> : i \in {j \in DOMAIN todo : todo[j] = Apply(c)}}
<1>0. Carried(c) = Q \cup H \cup D
  BY DEF Carried
<1>1. DOMAIN queue = 1 .. Len(queue) /\ DOMAIN todo = 1 .. Len(todo)
  BY DEF TypeInv, TypeOK
<1>2. (Absent(queue, UpdateRunnable(c)) => Q = {}) /\ (Absent(todo, Apply(c)) => D = {})
  BY <1>1 DEF Absent
<1>3. PendAbsent(c) => H = {}
  BY DEF PendAbsent
<1>4. Once(queue, UpdateRunnable(c)) => \E r \in Q : Q = {r}
  <2> SUFFICES ASSUME Once(queue, UpdateRunnable(c)) PROVE \E r \in Q : Q = {r}
    OBVIOUS
  <2>1. PICK i \in DOMAIN queue : {j \in DOMAIN queue : queue[j] = UpdateRunnable(c)} = {i}
    BY <1>1 DEF Once
  <2>2. Q = {<<"queue", i>>}
    BY <2>1
  <2> QED BY <2>2
<1>5. Once(todo, Apply(c)) => \E r \in D : D = {r}
  <2> SUFFICES ASSUME Once(todo, Apply(c)) PROVE \E r \in D : D = {r}
    OBVIOUS
  <2>1. PICK i \in DOMAIN todo : {j \in DOMAIN todo : todo[j] = Apply(c)} = {i}
    BY <1>1 DEF Once
  <2>2. D = {<<"todo", i>>}
    BY <2>1
  <2> QED BY <2>2
<1>6. PendOnce(c) => \E r \in H : H = {r}
  <2> SUFFICES ASSUME PendOnce(c) PROVE \E r \in H : H = {r}
    OBVIOUS
  <2>1. PICK t \in Bg : {u \in Bg : pend[u] = UpdateRunnable(c)} = {t}
    BY DEF PendOnce
  <2>2. H = {<<"pend", t>>}
    BY <2>1
  <2> QED BY <2>2
<1> HIDE DEF Q, H, D
<1> QED BY <1>0, <1>2, <1>3, <1>4, <1>5, <1>6 DEF OneCarrier

\* Updates are coalesced: however many threads call the update methods, a
\* channel that is never given null has one Runnable under way while an update
\* waits in its slot (so no update is stranded), and none otherwise (so the
\* event queue is not flooded).
THEOREM UpdatesAreCoalesced == Spec => []Coalesced
<1>1. CoalesceInv => Coalesced
  BY OneCarrierIsCoalesced DEF CoalesceInv, Coalesced
<1> QED BY CoalesceInit, CoalesceStep, <1>1, PTL DEF Spec

\* updateProgress's Runnable never dereferences a null ProgressUpdate.
THEOREM ProgressIsNeverNull == Spec => []ProgressUpdateNotNull
<1>1. CoalesceInv => ProgressUpdateNotNull
  <2> SUFFICES ASSUME CoalesceInv, todo # <<>>, Head(todo) = Apply("progress")
               PROVE  slot["progress"] # Null
    BY DEF ProgressUpdateNotNull
  <2>1. OneCarrier("progress") /\ todo \in Seq(Statement)
    BY DEF CoalesceInv, Channel, NeverNull, TypeInv, TypeOK
  <2>2. ~ Absent(todo, Apply("progress"))
    BY <2>1 DEF Absent
  <2> QED BY <2>1, <2>2 DEF OneCarrier
<1> QED BY CoalesceInit, CoalesceStep, <1>1, PTL DEF Spec

-----------------------------------------------------------------------------
(***************************************************************************)
(* Coalescing loses intermediate updates only. The assumptions name the    *)
(* three ways in which the code does lose an update: a null payload, which *)
(* an AtomicReference cannot tell from an empty slot, and two writers of   *)
(* the property (the FX thread's own update calls; the result of call() on *)
(* a value channel that background threads update).                        *)
(***************************************************************************)
Shown(c) ==
  /\ slot[c] # Null => last[c] = <<slot[c]>>
  /\ slot[c] = Null /\ last[c] # <<>> => prop[c] = Decode(c, last[c][1])
  /\ c \notin Updatable => slot[c] = Null

ShownInv == CoalesceInv /\ \A c \in Channel : Shown(c)

BackgroundWriters == FxUpdates = FALSE /\ "value" \notin Updatable /\ Null \notin Texts

LEMMA ShownStep ==
  ASSUME BackgroundWriters, ShownInv, [Next]_vars, NEW c \in Channel
  PROVE  Shown(c)'
<1>0. /\ Shown(c) /\ OneCarrier(c) /\ todo \in Seq(Statement)
      /\ DOMAIN prop = Channel /\ DOMAIN slot = Channel /\ DOMAIN last = Channel
  BY DEF ShownInv, CoalesceInv, NeverNull, BackgroundWriters, TypeInv, TypeOK
<1>1. CASE FxTake \/ FxSetState \/ FxSetRunning \/ FxFire \/ FxSetException \/ FxCancel
  <2>1. UNCHANGED updVars
    BY <1>1 DEF FxTake, FxSetState, FxSetRunning, FxFire, FxSetException, FxCancel
  <2> QED BY <1>0, <2>1 DEF updVars, Shown
<1>2. CASE FxSetValue
  <2>1. CASE c = "value"
    <3>1. slot'[c] = Null /\ prop'[c] = Head(todo).arg /\ last'[c] = <<Head(todo).arg>>
      BY <1>0, <1>2, <2>1 DEF FxSetValue, Shown, BackgroundWriters
    <3> QED BY <2>1, <3>1 DEF Shown, Decode
  <2>2. CASE c # "value"
    <3>1. slot'[c] = slot[c] /\ prop'[c] = prop[c] /\ last'[c] = last[c]
      BY <1>0, <1>2, <2>2 DEF FxSetValue
    <3> QED BY <1>0, <3>1 DEF Shown
  <2> QED BY <2>1, <2>2
<1>3. CASE FxApply
  <2> DEFINE d == Head(todo).arg
  <2>1. d \in Channel /\ Head(todo) = Apply(d) /\ todo # <<>>
    BY <1>0, <1>3, StatementArgs DEF FxApply
  <2>2. CASE d = c
    <3>1. ~ Absent(todo, Apply(c))
      BY <1>0, <2>1, <2>2 DEF Absent
    <3>2. slot[c] # Null
      BY <1>0, <3>1 DEF OneCarrier
    <3>3. prop'[c] = Decode(c, slot[c]) /\ slot'[c] = Null /\ last' = last
      BY <1>0, <1>3, <2>2, <3>2 DEF FxApply, ApplyEffect
    <3>4. last[c] = <<slot[c]>>
      BY <1>0, <3>2 DEF Shown
    <3>5. last'[c][1] = slot[c]
      BY <3>3, <3>4
    <3> QED BY <3>3, <3>5 DEF Shown
  <2>3. CASE d # c
    <3>1. slot'[c] = slot[c] /\ prop'[c] = prop[c] /\ last'[c] = last[c]
      BY <1>0, <1>3, <2>1, <2>3 DEF FxApply, ApplyEffect
    <3> QED BY <1>0, <3>1 DEF Shown
  <2> QED BY <2>2, <2>3
<1>4. ASSUME NEW t \in Bg, NEW d \in Updatable, NEW a \in Args(d), BgUpdate(t, d, a)
      PROVE  Shown(c)'
  <2>1. CASE d = c
    <3>1. slot'[c] = Encode(c, a) /\ last'[c] = <<Encode(c, a)>>
      BY <1>0, <1>4, <2>1 DEF BgUpdate, Publish
    <3>2. Encode(c, a) # Null
      BY <1>4, <2>1, ProgressNotNull DEF Encode, Args, BackgroundWriters
    <3> QED BY <1>4, <2>1, <3>1, <3>2 DEF Shown
  <2>2. CASE d # c
    <3>1. slot'[c] = slot[c] /\ prop'[c] = prop[c] /\ last'[c] = last[c]
      BY <1>0, <1>4, <2>2 DEF BgUpdate, Publish
    <3> QED BY <1>0, <3>1 DEF Shown
  <2> QED BY <2>1, <2>2
<1>5. CASE WorkerStep \/ CallReturns \/ CallThrows \/ \E t \in Bg : Post(t) \/ BgCancelTask(t)
  <2>1. UNCHANGED updVars
    BY <1>5 DEF WorkerStep, WorkerRun, WorkerReturned, WorkerThrew, FutureDone, CallReturns,
                CallThrows, Post, BgCancelTask
  <2> QED BY <1>0, <2>1 DEF updVars, Shown
<1>6. CASE Done \/ UNCHANGED vars
  BY <1>0, <1>6 DEF Done, vars, updVars, Shown
<1>7. \A d \in Updatable : \A a \in Args(d) : ~ FxUpdate(d, a)
  BY DEF BackgroundWriters, FxUpdate
<1> QED BY <1>1, <1>2, <1>3, <1>4, <1>5, <1>6, <1>7 DEF Next, Fx

\* When background threads are the only writers of a channel and publish no
\* null, the last update any of them issued is the one that stays visible.
THEOREM LastUpdateIsShown ==
  ASSUME BackgroundWriters
  PROVE  Spec => []NoUpdateLost
<1>1. Init => ShownInv
  <2> SUFFICES ASSUME Init PROVE \A c \in Channel : Shown(c)
    BY CoalesceInit DEF ShownInv
  <2>1. slot = [c \in Channel |-> Null] /\ last = [c \in Channel |-> <<>>]
    BY DEF Init
  <2> QED BY <2>1 DEF Shown
<1>2. ShownInv /\ [Next]_vars => ShownInv'
  BY ShownStep, CoalesceStep DEF ShownInv
<1>3. ShownInv => NoUpdateLost
  <2> SUFFICES ASSUME ShownInv, NEW c \in Channel, Carried(c) = {}, last[c] # <<>>
               PROVE  prop[c] = Decode(c, last[c][1])
    BY DEF NoUpdateLost
  <2>1. OneCarrier(c) /\ TypeInv /\ Shown(c)
    BY DEF ShownInv, CoalesceInv, NeverNull, BackgroundWriters
  <2>2. slot[c] = Null
    BY <2>1, OneCarrierIsCoalesced
  <2> QED BY <2>1, <2>2 DEF Shown
<1> QED BY <1>1, <1>2, <1>3, PTL DEF Spec

-----------------------------------------------------------------------------
(***************************************************************************)
(* The progress property. The arguments of updateProgress are numbers, NaN *)
(* or infinite; with a total of zero the quotient is NaN or infinite, which*)
(* is why the theorem leaves it out.                                       *)
(***************************************************************************)
NonZeroTotals ==
  /\ NaN \notin Int \X Int /\ Inf \notin Int \X Int
  /\ \A a \in ProgressArgs : /\ a[1] \in Int \cup {NaN, Inf}
                             /\ a[2] \in (Int \ {0}) \cup {NaN, Inf}

\* What the progress property may be.
InRange(p) == p \notin {NaN, Inf} /\ (p[1] = Indeterminate \/ (0 <= p[1] /\ p[1] <= p[2]))

\* updateProgress normalises and clamps: the quotient it leads to is in range.
LEMMA ClampInRange ==
  ASSUME NonZeroTotals, NEW a \in ProgressArgs
  PROVE  InRange(Applied(Clamp(a)).progress)
<1> DEFINE w == Normalise(a[1])
           m == Normalise(a[2])
<1>1. w \in Int /\ m \in Int /\ w >= -1 /\ (m = -1 \/ m >= 1)
  BY DEF NonZeroTotals, Normalise, Indeterminate
<1> HIDE DEF w, m
<1>2. Clamp(a) = IF w > m THEN <<m, m>> ELSE <<w, m>>
  BY DEF Clamp, w, m
<1>3. PICK x \in Int, y \in Int :
        Clamp(a) = <<x, y>> /\ x >= -1 /\ x <= y /\ (y = -1 \/ y >= 1)
  BY <1>1, <1>2
<1>4. Applied(<<x, y>>).progress = IF x = -1 THEN <<-1, 1>> ELSE <<x, y>>
  BY <1>3 DEF Applied, Divide, Indeterminate
<1>5. <<-1, 1>> \notin {NaN, Inf} /\ <<x, y>> \notin {NaN, Inf}
  BY DEF NonZeroTotals
<1> QED BY <1>3, <1>4, <1>5 DEF InRange, Indeterminate

ProgressInv ==
  /\ TypeInv
  /\ InRange(prop["progress"].progress)
  /\ slot["progress"] # Null => \E a \in ProgressArgs : slot["progress"] = Clamp(a)

LEMMA ProgressStep ==
  ASSUME NonZeroTotals, ProgressInv, [Next]_vars
  PROVE  ProgressInv'
<1>0. TypeInv' /\ DOMAIN prop = Channel /\ DOMAIN slot = Channel /\ "progress" \in Channel
  BY TypeStep DEF ProgressInv, TypeInv, TypeOK, Channel
<1>1. CASE FxApply
  <2> DEFINE c == Head(todo).arg
  <2>1. CASE c = "progress" /\ slot[c] # Null
    <3>1. PICK a \in ProgressArgs : slot["progress"] = Clamp(a)
      BY <2>1 DEF ProgressInv
    <3>2. prop'["progress"] = Applied(Clamp(a)) /\ slot'["progress"] = Null
      BY <1>0, <1>1, <2>1, <3>1 DEF FxApply, ApplyEffect, Decode
    <3> QED BY <1>0, <3>2, ClampInRange DEF ProgressInv
  <2>2. CASE c # "progress" \/ slot[c] = Null
    <3>1. prop'["progress"] = prop["progress"] /\ slot'["progress"] \in {slot["progress"], Null}
      BY <1>0, <1>1, <2>2 DEF FxApply, ApplyEffect
    <3> QED BY <1>0, <3>1 DEF ProgressInv
  <2> QED BY <2>1, <2>2
<1>2. CASE FxSetValue
  <2>1. prop'["progress"] = prop["progress"] /\ slot' = slot
    BY <1>0, <1>2 DEF FxSetValue
  <2> QED BY <1>0, <2>1 DEF ProgressInv
<1>3. ASSUME NEW c \in Updatable, NEW a \in Args(c), FxUpdate(c, a) PROVE ProgressInv'
  <2>1. slot' = slot /\ prop' = [prop EXCEPT ![c] = Decode(c, Encode(c, a))]
    BY <1>3 DEF FxUpdate
  <2>2. CASE c = "progress"
    <3>1. a \in ProgressArgs /\ prop'["progress"] = Applied(Clamp(a))
      BY <1>0, <1>3, <2>1, <2>2 DEF Args, Decode, Encode
    <3> QED BY <1>0, <2>1, <3>1, ClampInRange DEF ProgressInv
  <2>3. CASE c # "progress"
    <3>1. prop'["progress"] = prop["progress"]
      BY <1>0, <2>1, <2>3
    <3> QED BY <1>0, <2>1, <3>1 DEF ProgressInv
  <2> QED BY <2>2, <2>3
<1>4. ASSUME NEW t \in Bg, NEW c \in Updatable, NEW a \in Args(c), BgUpdate(t, c, a)
      PROVE  ProgressInv'
  <2>1. prop' = prop /\ slot' = [slot EXCEPT ![c] = Encode(c, a)]
    BY <1>4 DEF BgUpdate, Publish
  <2>2. CASE c = "progress"
    <3>1. a \in ProgressArgs /\ slot'["progress"] = Clamp(a)
      BY <1>0, <1>4, <2>1, <2>2 DEF Args, Encode
    <3> QED BY <1>0, <2>1, <3>1 DEF ProgressInv
  <2>3. CASE c # "progress"
    <3>1. slot'["progress"] = slot["progress"]
      BY <1>0, <2>1, <2>3
    <3> QED BY <1>0, <2>1, <3>1 DEF ProgressInv
  <2> QED BY <2>2, <2>3
<1>5. CASE \/ FxTake \/ FxSetState \/ FxSetRunning \/ FxFire \/ FxSetException \/ FxCancel
           \/ WorkerStep \/ CallReturns \/ CallThrows \/ \E t \in Bg : Post(t) \/ BgCancelTask(t)
           \/ Done \/ UNCHANGED vars
  <2>1. UNCHANGED <<prop, slot>>
    BY <1>5 DEF FxTake, FxSetState, FxSetRunning, FxFire, FxSetException, FxCancel, WorkerStep,
       WorkerRun, WorkerReturned, WorkerThrew, FutureDone, CallReturns, CallThrows, Post,
       BgCancelTask, Done, vars, updVars
  <2> QED BY <1>0, <2>1 DEF ProgressInv
<1> QED BY <1>1, <1>2, <1>3, <1>4, <1>5 DEF Next, Fx

\* updateProgress: whatever numbers, NaN or infinities the threads pass, the
\* progress property is -1 or a number between 0 and 1, as long as no total is 0.
THEOREM ProgressStaysInRange ==
  ASSUME NonZeroTotals
  PROVE  Spec => []ProgressInRange
<1>1. Init => ProgressInv
  <2> SUFFICES ASSUME Init PROVE ProgressInv
    OBVIOUS
  <2>1. prop["progress"] = NoProgress /\ slot["progress"] = Null
    BY DEF Init, Channel
  <2>2. InRange(NoProgress.progress)
    <3>1. <<-1, 1>> \notin {NaN, Inf}
      BY DEF NonZeroTotals
    <3> QED BY <3>1 DEF InRange, NoProgress, Indeterminate
  <2> QED BY <2>1, <2>2, TypeInit DEF ProgressInv
<1>2. ProgressInv /\ [Next]_vars => ProgressInv'
  BY ProgressStep
<1>3. ProgressInv => ProgressInRange
  BY DEF ProgressInv, ProgressInRange, InRange
<1> QED BY <1>1, <1>2, <1>3, PTL DEF Spec

-----------------------------------------------------------------------------
(***************************************************************************)
(* The life of a Task, for every set of threads, channels and              *)
(* payloads: what the FX thread sees is the life cycle of a Worker, the    *)
(* Future and the Worker tell the same story, and the FX properties agree  *)
(* with the state. All of it rests on Runnables being run one after the    *)
(* other: an application that enters a nested event loop in a callback can *)
(* see RUNNING after SUCCEEDED.                                            *)
(***************************************************************************)

\* No callback of the task enters a nested event loop.
NoNesting == NestedLoops = FALSE

\* The Runnables with the outcome of call(), and the statement that shows each.
Outcomes == {SucceedRunnable} \cup {FailRunnable(x) : x \in Causes}
Shows(v) == Has(todo, SetState(v))

\* The Runnable that schedules and runs the task, and the one with its outcome,
\* are still to be taken by the FX thread.
StartAhead == wpc = "idle" \/ pend[Worker] = StartRunnable \/ Has(queue, StartRunnable)
OutcomeQueued == \E r \in Outcomes : Has(queue, r)
OutcomeAhead ==
  wpc \in {"idle", "call", "returned", "threw"} \/ pend[Worker] \in Outcomes \/ OutcomeQueued

\* Only the pool thread hands these Runnables over, each at its place in run().
HandInv ==
  /\ HandsFree
  /\ \A t \in Helpers : pend[t] \notin Outcomes \cup {StartRunnable}
  /\ pend[Worker] = StartRunnable => wpc = "call"
  /\ pend[Worker] \in Outcomes => wpc \in {"set", "setException"}

\* In the queue each of them is there once, and the start before the outcome.
QueueInv ==
  /\ Single(queue, StartRunnable)
  /\ wpc = "idle" \/ pend[Worker] = StartRunnable => ~Has(queue, StartRunnable)
  /\ wpc \in {"idle", "call", "returned", "threw"} \/ pend[Worker] \in Outcomes => ~OutcomeQueued
  /\ \A r \in Outcomes : /\ Single(queue, r) /\ Before(queue, StartRunnable, r)
                         /\ \A s \in Outcomes : Has(queue, r) /\ Has(queue, s) => r = s

\* What the FX thread is executing comes from one of them, and the others wait.
TodoInv ==
  /\ ~Shows("READY")
  /\ \A v \in {"SCHEDULED", "RUNNING", "SUCCEEDED", "FAILED"} : Single(todo, SetState(v))
  /\ Before(todo, SetState("SCHEDULED"), SetState("RUNNING"))
  /\ Shows("SCHEDULED") => Shows("RUNNING")
  /\ StartAhead => ~Shows("RUNNING")
  /\ StartAhead \/ Shows("RUNNING") => OutcomeAhead
  /\ OutcomeAhead => ~Shows("SUCCEEDED") /\ ~Shows("FAILED")
  /\ ~(Shows("SUCCEEDED") /\ Shows("FAILED"))

\* The state is the one that the Runnables still to come expect, or CANCELLED.
StateInv ==
  state # "CANCELLED" =>
    /\ StartAhead \/ Shows("SCHEDULED") => state = "READY"
    /\ Shows("RUNNING") /\ ~Shows("SCHEDULED") => state = "SCHEDULED"
    /\ ~StartAhead /\ ~Shows("RUNNING") /\ (OutcomeAhead \/ Shows("SUCCEEDED") \/ Shows("FAILED"))
         => state = "RUNNING"

LifeInv == TypeInv /\ HandInv /\ QueueInv /\ TodoInv /\ StateInv

\* A cancel that has not shown yet is on its way to the FX thread.
CancelAhead ==
  (\E t \in Bg : pend[t] = CancelledRunnable) \/ Has(queue, CancelledRunnable) \/ Shows("CANCELLED")

\* The FutureTask's state is the one that shows or is still to be shown.
FutureInv ==
  /\ CancelAhead \/ state = "CANCELLED" <=> fut = "CANCELLED"
  /\ fut \in {"NORMAL", "EXCEPTIONAL"} => wpc = "end"
  /\ wpc = "end" => fut # "NEW"
  /\ wpc = "set" \/ fut = "NORMAL" =>
       \/ pend[Worker] = SucceedRunnable \/ Has(queue, SucceedRunnable) \/ Shows("SUCCEEDED")
       \/ state \in {"SUCCEEDED", "CANCELLED"}
  /\ wpc = "setException" \/ fut = "EXCEPTIONAL" =>
       \/ \E x \in Causes : pend[Worker] = FailRunnable(x) \/ Has(queue, FailRunnable(x))
       \/ Shows("FAILED") \/ state \in {"FAILED", "CANCELLED"}

-----------------------------------------------------------------------------
(***************************************************************************)
(* The Runnables and the statements are told apart, and what each Runnable *)
(* holds.                                                                  *)
(***************************************************************************)
LEMMA StatementsDiffer ==
  /\ \A v, w : SetState(v) = SetState(w) <=> v = w
  /\ \A s : s.do # "setState" => \A v : s # SetState(v)
  /\ \A v : SetState(v).do = "setState" /\ SetState(v).arg = v
  /\ \A v, w : SetState(v) # SetRunning(w) /\ SetState(v) # Fire /\ SetState(v) # SetValue(w)
               /\ SetState(v) # SetException(w) /\ SetState(v) # Apply(w)
BY DEF SetState, SetRunning, Fire, SetValue, SetException, Apply

LEMMA RunnablesDiffer ==
  /\ Outcomes \subseteq Runnable /\ StartRunnable \in Runnable /\ CancelledRunnable \in Runnable
  /\ StartRunnable \notin Outcomes /\ CancelledRunnable \notin Outcomes \cup {StartRunnable}
  /\ \A x : SucceedRunnable # FailRunnable(x)
  /\ \A c : UpdateRunnable(c) \notin Outcomes \cup {StartRunnable, CancelledRunnable}
  /\ None \notin Runnable
<1> USE StatementsDiffer
<1>1. StartRunnable[1] = SetState("SCHEDULED") /\ Len(StartRunnable) = 2
  BY DEF StartRunnable
<1>2. SucceedRunnable[1] = SetValue(Result) /\ Len(SucceedRunnable) = 2
  BY DEF SucceedRunnable
<1>3. \A x : FailRunnable(x)[1] = SetException(x) /\ Len(FailRunnable(x)) = 2
  BY DEF FailRunnable
<1>4. CancelledRunnable[1] = SetState("CANCELLED") /\ Len(CancelledRunnable) = 1
  BY DEF CancelledRunnable
<1>5. \A c : UpdateRunnable(c)[1] = Apply(c) /\ Len(UpdateRunnable(c)) = 1
  BY DEF UpdateRunnable
<1>6. \A x : SetValue(Result) # SetException(x)
  BY DEF SetValue, SetException
<1>7. Len(None) = 0
  BY DEF None
<1>8. \A r \in Outcomes : Len(r) = 2 /\ r[1] # SetState("SCHEDULED")
  BY <1>2, <1>3 DEF Outcomes
<1>9. \A c : UpdateRunnable(c) \notin Outcomes \cup {StartRunnable, CancelledRunnable}
  BY <1>1, <1>4, <1>5, <1>8
<1>10. \A x : SucceedRunnable # FailRunnable(x)
  BY <1>2, <1>3, <1>6
<1>11. StartRunnable \notin Outcomes /\ CancelledRunnable \notin Outcomes \cup {StartRunnable}
  BY <1>1, <1>4, <1>8
<1>12. None \notin Runnable
  BY <1>1, <1>2, <1>3, <1>4, <1>5, <1>7 DEF Runnable
<1> QED BY <1>9, <1>10, <1>11, <1>12 DEF Outcomes, Runnable

LEMMA RunnableHolds ==
  /\ \A v : /\ Has(StartRunnable, SetState(v)) <=> v \in {"SCHEDULED", "RUNNING"}
            /\ Has(SucceedRunnable, SetState(v)) <=> v = "SUCCEEDED"
            /\ \A x : Has(FailRunnable(x), SetState(v)) <=> v = "FAILED"
            /\ Has(CancelledRunnable, SetState(v)) <=> v = "CANCELLED"
            /\ \A c : ~Has(UpdateRunnable(c), SetState(v))
  /\ \A r \in Runnable : \A v : Single(r, SetState(v))
  /\ Before(StartRunnable, SetState("SCHEDULED"), SetState("RUNNING"))
<1>1. /\ \A v : /\ Has(StartRunnable, SetState(v)) <=> v \in {"SCHEDULED", "RUNNING"}
                /\ Single(StartRunnable, SetState(v))
      /\ Before(StartRunnable, SetState("SCHEDULED"), SetState("RUNNING"))
  BY TwoHas, StatementsDiffer DEF StartRunnable
<1>2. \A v : /\ Has(SucceedRunnable, SetState(v)) <=> v = "SUCCEEDED"
             /\ Single(SucceedRunnable, SetState(v))
  BY TwoHas, StatementsDiffer DEF SucceedRunnable
<1>3. \A x, v : /\ Has(FailRunnable(x), SetState(v)) <=> v = "FAILED"
                /\ Single(FailRunnable(x), SetState(v))
  BY TwoHas, StatementsDiffer DEF FailRunnable
<1>4. \A v : /\ Has(CancelledRunnable, SetState(v)) <=> v = "CANCELLED"
             /\ Single(CancelledRunnable, SetState(v))
  BY OneHas, StatementsDiffer DEF CancelledRunnable
<1>5. \A c, v : ~Has(UpdateRunnable(c), SetState(v)) /\ Single(UpdateRunnable(c), SetState(v))
  BY OneHas, StatementsDiffer DEF UpdateRunnable
<1> QED BY <1>1, <1>2, <1>3, <1>4, <1>5 DEF Runnable

\* The empty todo list shows nothing.
LEMMA EmptyTodo ==
  todo = <<>> => \A x, y : ~Has(todo, x) /\ Single(todo, x) /\ Before(todo, x, y)
BY EmptyHas

-----------------------------------------------------------------------------
LEMMA LifeInit == Init => LifeInv /\ FutureInv
<1> SUFFICES ASSUME Init PROVE LifeInv /\ FutureInv
  OBVIOUS
<1>1. TypeInv
  BY TypeInit
<1>2. /\ \A x : ~Has(queue, x) /\ Single(queue, x) /\ ~Has(todo, x) /\ Single(todo, x)
      /\ \A x, y : Before(queue, x, y) /\ Before(todo, x, y)
  BY EmptyHas DEF Init
<1>3. \A t \in Bg : pend[t] = None
  BY DEF Init
<1>4. \A t \in Bg : pend[t] \notin Outcomes \cup {StartRunnable, CancelledRunnable}
  BY <1>3, RunnablesDiffer
<1>5. HandInv /\ QueueInv
  BY <1>2, <1>3, <1>4 DEF Init, HandInv, HandsFree, QueueInv, OutcomeQueued, Bg
<1>6. TodoInv /\ StateInv
  BY <1>2 DEF Init, TodoInv, StateInv, Shows, StartAhead, OutcomeAhead
<1>7. FutureInv
  BY <1>2, <1>4 DEF Init, FutureInv, CancelAhead, Shows
<1> QED BY <1>1, <1>5, <1>6, <1>7 DEF LifeInv

\* A statement that is not a setState is done: nothing changes for the life cycle.
LEMMA OtherStatement ==
  ASSUME LifeInv, FxSetRunning \/ FxFire \/ FxSetException \/ FxSetValue \/ FxApply
  PROVE  /\ UNCHANGED <<queue, pend, wpc, fut, state>>
         /\ \A v : Shows(v)' <=> Shows(v)
         /\ \A v : Single(todo, SetState(v)) => Single(todo', SetState(v))
         /\ \A v, w : Before(todo, SetState(v), SetState(w))
                        => Before(todo', SetState(v), SetState(w))
<1>1. UNCHANGED <<queue, pend, wpc, fut, state>> /\ todo # <<>> /\ todo' = Tail(todo)
      /\ Head(todo).do # "setState"
  BY DEF FxSetRunning, FxFire, FxSetException, FxSetValue, FxApply, wkVars
<1>2. todo \in Seq(Statement)
  BY DEF LifeInv, TypeInv, TypeOK
<1>3. \A v : Head(todo) # SetState(v)
  BY <1>1, StatementsDiffer
<1> QED BY <1>1, <1>2, <1>3, TailHas DEF Shows

\* The next Runnable is taken when the one before has been executed.
LEMMA LifeTake ==
  ASSUME NoNesting, LifeInv, FutureInv, FxTake
  PROVE  HandInv' /\ QueueInv' /\ TodoInv' /\ StateInv' /\ FutureInv'
<1> DEFINE r == Head(queue)
<1>1. /\ queue # <<>> /\ todo = <<>> /\ queue' = Tail(queue)
      /\ UNCHANGED <<pend, wpc, fut, state>>
  BY DEF FxTake, NoNesting, wkVars
<1>2. queue \in Seq(Runnable) /\ r \in Runnable /\ r \in Seq(Statement)
  BY <1>1, RunnableIsStatements DEF LifeInv, TypeInv, TypeOK
<1>3. todo' = r
  BY <1>1, <1>2 DEF FxTake
<1>4. \A x : /\ Has(queue, x) <=> r = x \/ Has(queue', x)
             /\ Single(queue, x) => Single(queue', x) /\ (r = x => ~Has(queue', x))
             /\ \A y : Before(queue, x, y) => Before(queue', x, y) /\ (r = y => ~Has(queue, x))
  BY <1>1, <1>2, TailHas
<1>5. \A v : ~Shows(v)
  BY <1>1, EmptyTodo DEF Shows
<1> HIDE DEF r
<1>6. HandInv'
  BY <1>1 DEF LifeInv, HandInv, HandsFree
<1>7. QueueInv'
  BY <1>1, <1>4 DEF LifeInv, QueueInv, OutcomeQueued
<1>8. CASE r = StartRunnable
  <2>1. /\ \A v : Shows(v)' <=> v \in {"SCHEDULED", "RUNNING"}
        /\ \A v : Single(todo', SetState(v))
        /\ Before(todo', SetState("SCHEDULED"), SetState("RUNNING"))
    BY <1>2, <1>3, <1>8, RunnableHolds DEF Shows
  <2>2. StartAhead /\ ~StartAhead' /\ OutcomeAhead /\ OutcomeAhead'
    BY <1>1, <1>4, <1>8, RunnablesDiffer
       DEF LifeInv, QueueInv, HandInv, TodoInv, StartAhead, OutcomeAhead, OutcomeQueued
  <2>3. TodoInv' /\ StateInv'
    BY <1>1, <1>5, <2>1, <2>2 DEF LifeInv, TodoInv, StateInv
  <2>4. FutureInv'
    BY <1>1, <1>4, <1>5, <1>8, <2>1, RunnablesDiffer DEF FutureInv, CancelAhead, Outcomes
  <2> QED BY <1>6, <1>7, <2>3, <2>4
<1>9. CASE r \in Outcomes
  <2>1. /\ \A v : Single(todo', SetState(v))
        /\ \A v : Shows(v)' => v = IF r = SucceedRunnable THEN "SUCCEEDED" ELSE "FAILED"
        /\ r = SucceedRunnable => Shows("SUCCEEDED")'
        /\ \A x \in Causes : r = FailRunnable(x) => Shows("FAILED")'
    BY <1>2, <1>3, <1>9, RunnableHolds, RunnablesDiffer DEF Shows, Outcomes
  <2>2. Before(todo', SetState("SCHEDULED"), SetState("RUNNING"))
    BY <2>1 DEF Shows, Before, Has
  <2>3. OutcomeAhead /\ ~OutcomeAhead' /\ ~StartAhead /\ ~StartAhead'
    BY <1>1, <1>4, <1>9, RunnablesDiffer
       DEF LifeInv, QueueInv, HandInv, StartAhead, OutcomeAhead, OutcomeQueued
  <2>4. TodoInv' /\ StateInv'
    BY <1>1, <1>5, <2>1, <2>2, <2>3 DEF LifeInv, TodoInv, StateInv
  <2>5. FutureInv'
    BY <1>1, <1>4, <1>5, <1>9, <2>1, RunnablesDiffer DEF FutureInv, CancelAhead, Outcomes
  <2> QED BY <1>6, <1>7, <2>4, <2>5
<1>10. CASE r \notin Outcomes \cup {StartRunnable}
  <2>1. \A v : Single(todo', SetState(v)) /\ (Shows(v)' <=> r = CancelledRunnable /\ v = "CANCELLED")
    BY <1>2, <1>3, <1>10, RunnableHolds, RunnablesDiffer DEF Shows, Outcomes, Runnable
  <2>2. Before(todo', SetState("SCHEDULED"), SetState("RUNNING"))
    BY <2>1 DEF Shows, Before, Has
  <2>3. (OutcomeAhead' <=> OutcomeAhead) /\ (StartAhead' <=> StartAhead)
    BY <1>1, <1>4, <1>10 DEF StartAhead, OutcomeAhead, OutcomeQueued
  <2>4. TodoInv' /\ StateInv'
    BY <1>1, <1>5, <2>1, <2>2, <2>3 DEF LifeInv, TodoInv, StateInv
  <2>5. FutureInv'
    BY <1>1, <1>4, <1>5, <1>10, <2>1 DEF FutureInv, CancelAhead, Outcomes
  <2> QED BY <1>6, <1>7, <2>4, <2>5
<1> QED BY <1>8, <1>9, <1>10

\* setState shows the state that the one before allows.
LEMMA LifeSetState ==
  ASSUME LifeInv, FutureInv, FxSetState
  PROVE  /\ HandInv' /\ QueueInv' /\ TodoInv' /\ StateInv' /\ FutureInv'
         /\ state' # state =>
              \/ state = "READY" /\ state' = "SCHEDULED"
              \/ state = "SCHEDULED" /\ state' = "RUNNING"
              \/ state = "RUNNING" /\ state' \in {"SUCCEEDED", "FAILED"}
              \/ state # "CANCELLED" /\ state' = "CANCELLED"
<1> DEFINE v == Head(todo).arg
<1>1. todo # <<>> /\ Head(todo).do = "setState" /\ UNCHANGED <<queue, pend, wpc, fut>>
  BY DEF FxSetState, wkVars
<1>2. todo \in Seq(Statement) /\ Head(todo) \in Statement /\ Tail(todo) \in Seq(Statement)
  BY <1>1 DEF LifeInv, TypeInv, TypeOK
<1>3. v \in States /\ Head(todo) = SetState(v)
  BY <1>1, <1>2, StatementArgs DEF Statement, SetState, SetRunning, SetException, Apply, Fire, SetValue
<1>4. todo' = Tail(todo) \/ todo' = <<SetRunning(v), Fire>> \o Tail(todo)
  BY DEF FxSetState, SetStateEffect
<1>5. /\ state = "CANCELLED" => state' = state
      /\ state # "CANCELLED" => state' = v
  BY DEF FxSetState, SetStateEffect
<1> HIDE DEF v
<1>6. /\ <<SetRunning(v), Fire>> \in Seq(Statement)
      /\ \A w : ~Has(<<SetRunning(v), Fire>>, SetState(w))
  BY <1>3, StatementTypes, TwoHas, StatementsDiffer
<1>7. \A w : /\ Shows(w)' <=> Has(Tail(todo), SetState(w))
             /\ Single(Tail(todo), SetState(w)) => Single(todo', SetState(w))
             /\ \A u : Before(Tail(todo), SetState(w), SetState(u))
                         => Before(todo', SetState(w), SetState(u))
  <2>1. CASE todo' = Tail(todo)
    BY <2>1 DEF Shows
  <2>2. CASE todo' = <<SetRunning(v), Fire>> \o Tail(todo)
    <3> TAKE w
    <3>1. /\ Has(todo', SetState(w)) <=> Has(Tail(todo), SetState(w))
          /\ Single(Tail(todo), SetState(w)) => Single(todo', SetState(w))
      BY <1>2, <1>6, <2>2, ConcatHas
    <3>2. \A u : Before(Tail(todo), SetState(w), SetState(u))
                   => Before(todo', SetState(w), SetState(u))
      BY <1>2, <1>6, <2>2, ConcatHas
    <3> QED BY <3>1, <3>2 DEF Shows
  <2> QED BY <1>4, <2>1, <2>2
<1>8. \A w : /\ Shows(w) <=> v = w \/ Shows(w)'
             /\ Single(todo, SetState(w)) => Single(todo', SetState(w)) /\ (v = w => ~Shows(w)')
             /\ \A u : Before(todo, SetState(w), SetState(u))
                  => Before(todo', SetState(w), SetState(u)) /\ (v = u => ~Shows(w))
  BY <1>1, <1>2, <1>3, <1>7, TailHas, StatementsDiffer DEF Shows
<1>9. (OutcomeAhead' <=> OutcomeAhead) /\ (StartAhead' <=> StartAhead)
  BY <1>1 DEF StartAhead, OutcomeAhead, OutcomeQueued
<1>10. HandInv' /\ QueueInv'
  BY <1>1 DEF LifeInv, HandInv, HandsFree, QueueInv, OutcomeQueued
<1>11. v # "READY" /\ state \in States
  BY <1>8 DEF LifeInv, TodoInv, TypeInv, TypeOK
<1>12. TodoInv'
  BY <1>8, <1>9 DEF LifeInv, TodoInv
<1>13. state # "CANCELLED" =>
         \/ state = "READY" /\ v = "SCHEDULED" /\ Shows("RUNNING") /\ ~StartAhead
         \/ state = "SCHEDULED" /\ v = "RUNNING" /\ ~StartAhead /\ OutcomeAhead
         \/ state = "RUNNING" /\ v \in {"SUCCEEDED", "FAILED"} /\ ~StartAhead /\ ~OutcomeAhead
              /\ ~Shows("RUNNING")
         \/ v = "CANCELLED"
  BY <1>3, <1>8, <1>11 DEF LifeInv, TodoInv, StateInv, States, Ending
<1>14. StateInv'
  BY <1>5, <1>8, <1>9, <1>13 DEF LifeInv, TodoInv, StateInv
<1>15. FutureInv'
  BY <1>1, <1>5, <1>8, <1>13 DEF FutureInv, CancelAhead
<1> QED BY <1>5, <1>10, <1>12, <1>13, <1>14, <1>15

\* What decides the life cycle is the same if the FX thread's list shows the same
\* states in the same order.
LEMMA LifeUnchanged ==
  ASSUME LifeInv, FutureInv, UNCHANGED <<queue, pend, wpc, fut, state>>,
         \A v : Shows(v)' <=> Shows(v),
         \A v : Single(todo, SetState(v)) => Single(todo', SetState(v)),
         \A v, w : Before(todo, SetState(v), SetState(w)) => Before(todo', SetState(v), SetState(w))
  PROVE  HandInv' /\ QueueInv' /\ TodoInv' /\ StateInv' /\ FutureInv'
<1>1. (OutcomeAhead' <=> OutcomeAhead) /\ (StartAhead' <=> StartAhead)
  BY DEF StartAhead, OutcomeAhead, OutcomeQueued
<1>2. HandInv' /\ QueueInv'
  BY DEF LifeInv, HandInv, HandsFree, QueueInv, OutcomeQueued
<1>3. TodoInv' /\ StateInv'
  BY <1>1 DEF LifeInv, TodoInv, StateInv
<1>4. FutureInv'
  BY DEF FutureInv, CancelAhead
<1> QED BY <1>2, <1>3, <1>4

\* cancel() on the FX thread puts one more statement in front.
LEMMA LifeCancel ==
  ASSUME LifeInv, FutureInv, FxCancel
  PROVE  HandInv' /\ QueueInv' /\ TodoInv' /\ StateInv' /\ FutureInv'
<1>1. /\ todo' = CancelledRunnable \o todo /\ UNCHANGED <<queue, pend, wpc, state>>
      /\ fut = "NEW" /\ fut' = "CANCELLED"
  BY DEF FxCancel
<1>2. todo \in Seq(Statement) /\ CancelledRunnable \in Seq(Statement)
  BY RunnableIsStatements, RunnablesDiffer DEF LifeInv, TypeInv, TypeOK
<1>3. \A v : Has(CancelledRunnable, SetState(v)) <=> v = "CANCELLED"
  BY RunnableHolds
<1>4. \A v : /\ Shows(v)' <=> v = "CANCELLED" \/ Shows(v)
             /\ Single(todo, SetState(v)) /\ v # "CANCELLED" => Single(todo', SetState(v))
             /\ \A w : Before(todo, SetState(v), SetState(w)) /\ w # "CANCELLED"
                         => Before(todo', SetState(v), SetState(w))
  <2> TAKE v
  <2>1. /\ Has(todo', SetState(v)) <=> Has(CancelledRunnable, SetState(v)) \/ Has(todo, SetState(v))
        /\ Single(todo, SetState(v)) /\ ~Has(CancelledRunnable, SetState(v))
             => Single(todo', SetState(v))
    BY <1>1, <1>2, ConcatHas
  <2>2. \A w : Before(todo, SetState(v), SetState(w)) /\ ~Has(CancelledRunnable, SetState(w))
                 => Before(todo', SetState(v), SetState(w))
    BY <1>1, <1>2, ConcatHas
  <2> QED BY <1>3, <2>1, <2>2 DEF Shows
<1>5. (OutcomeAhead' <=> OutcomeAhead) /\ (StartAhead' <=> StartAhead)
  BY <1>1 DEF StartAhead, OutcomeAhead, OutcomeQueued
<1>6. HandInv' /\ QueueInv'
  BY <1>1 DEF LifeInv, HandInv, HandsFree, QueueInv, OutcomeQueued
<1>7. TodoInv' /\ StateInv'
  BY <1>1, <1>4, <1>5 DEF LifeInv, TodoInv, StateInv
<1>8. FutureInv'
  BY <1>1, <1>4 DEF FutureInv, CancelAhead
<1> QED BY <1>6, <1>7, <1>8

\* The pool thread's own steps.
LEMMA LifeWorker ==
  ASSUME LifeInv, FutureInv, WorkerStep \/ CallReturns \/ CallThrows
  PROVE  HandInv' /\ QueueInv' /\ TodoInv' /\ StateInv' /\ FutureInv'
<1> USE RunnablesDiffer
<1>1. UNCHANGED <<queue, todo, state>> /\ pend \in [Bg -> Runnable \cup {None}]
      /\ Worker \in Bg /\ Worker \notin Helpers
  BY ThreadAssumption DEF WorkerStep, WorkerRun, WorkerReturned, WorkerThrew, FutureDone,
     CallReturns, CallThrows, fxVars, LifeInv, TypeInv, TypeOK, Bg
<1>2. \A v : Shows(v)' <=> Shows(v)
  BY <1>1 DEF Shows
<1>3. /\ OutcomeQueued' <=> OutcomeQueued
      /\ \A t \in Bg : t # Worker => pend'[t] = pend[t]
  BY <1>1 DEF OutcomeQueued, WorkerStep, WorkerRun, WorkerReturned, WorkerThrew, FutureDone,
     CallReturns, CallThrows, HandOver
<1>4. /\ HandInv /\ HandsFree /\ QueueInv /\ TodoInv /\ StateInv
      /\ wpc = "threw" => thrown \in Causes
  BY DEF LifeInv, HandInv, TypeInv
<1>5. CASE WorkerRun /\ fut = "NEW"
  <2>1. /\ wpc = "idle" /\ wpc' = "call" /\ pend[Worker] = None /\ pend'[Worker] = StartRunnable
        /\ fut' = fut
    BY <1>1, <1>4, <1>5 DEF WorkerRun, HandOver, HandsFree
  <2>2. HandInv' /\ QueueInv'
    BY <1>1, <1>3, <1>4, <2>1 DEF HandInv, HandsFree, QueueInv, Bg
  <2>3. OutcomeAhead /\ OutcomeAhead' /\ StartAhead /\ StartAhead'
    BY <2>1 DEF StartAhead, OutcomeAhead
  <2>4. TodoInv' /\ StateInv'
    BY <1>1, <1>2, <1>4, <2>3 DEF TodoInv, StateInv
  <2>5. FutureInv'
    BY <1>1, <1>2, <1>3, <1>4, <1>5, <2>1 DEF FutureInv, CancelAhead
  <2> QED BY <2>2, <2>4, <2>5
<1>6. CASE WorkerRun /\ fut # "NEW"
  <2>1. /\ wpc = "idle" /\ wpc' = "end" /\ pend[Worker] = None /\ pend' = pend /\ fut' = fut
    BY <1>1, <1>4, <1>6 DEF WorkerRun, HandsFree
  <2>2. HandInv' /\ QueueInv'
    BY <1>1, <1>3, <1>4, <2>1 DEF HandInv, HandsFree, QueueInv
  <2>3. OutcomeAhead /\ ~OutcomeAhead' /\ StartAhead /\ ~StartAhead'
    BY <1>1, <1>3, <1>4, <2>1 DEF StartAhead, OutcomeAhead, QueueInv, Outcomes, Runnable
  <2>4. TodoInv' /\ StateInv'
    BY <1>1, <1>2, <1>4, <2>3 DEF TodoInv, StateInv
  <2>5. FutureInv'
    BY <1>1, <1>2, <1>4, <1>6, <2>1 DEF FutureInv, CancelAhead
  <2> QED BY <2>2, <2>4, <2>5
<1>7. CASE CallReturns \/ CallThrows \/ (WorkerReturned /\ fut = "CANCELLED")
  <2>1. /\ wpc \in {"call", "returned"} /\ wpc' \in {"returned", "threw"} /\ pend[Worker] = None
        /\ pend' = pend /\ fut' = fut
    BY <1>1, <1>4, <1>7 DEF WorkerReturned, CallReturns, CallThrows, HandsFree
  <2>2. HandInv' /\ QueueInv'
    BY <1>1, <1>3, <1>4, <2>1 DEF HandInv, HandsFree, QueueInv
  <2>3. OutcomeAhead /\ OutcomeAhead' /\ (StartAhead' <=> StartAhead)
    BY <1>1, <1>4, <2>1 DEF StartAhead, OutcomeAhead
  <2>4. TodoInv' /\ StateInv'
    BY <1>1, <1>2, <1>4, <2>3 DEF TodoInv, StateInv
  <2>5. FutureInv'
    BY <1>1, <1>2, <1>4, <2>1 DEF FutureInv, CancelAhead
  <2> QED BY <2>2, <2>4, <2>5
<1>8. CASE (WorkerReturned /\ fut # "CANCELLED") \/ WorkerThrew
  <2>1. /\ wpc \in {"returned", "threw"} /\ pend[Worker] = None /\ pend'[Worker] \in Outcomes
        /\ \/ wpc' = "set" /\ pend'[Worker] = SucceedRunnable
           \/ wpc' = "setException" /\ \E x \in Causes : pend'[Worker] = FailRunnable(x)
        /\ fut' = fut
    BY <1>1, <1>4, <1>8 DEF WorkerReturned, WorkerThrew, HandsFree, HandOver, Outcomes
  <2>2. HandInv' /\ QueueInv'
    BY <1>1, <1>3, <1>4, <2>1 DEF HandInv, HandsFree, QueueInv, Bg
  <2>3. OutcomeAhead /\ OutcomeAhead' /\ (StartAhead' <=> StartAhead)
    BY <1>1, <1>4, <2>1 DEF StartAhead, OutcomeAhead
  <2>4. TodoInv' /\ StateInv'
    BY <1>1, <1>2, <1>4, <2>3 DEF TodoInv, StateInv
  <2>5. FutureInv'
    BY <1>1, <1>2, <1>3, <1>4, <2>1 DEF FutureInv, CancelAhead
  <2> QED BY <2>2, <2>4, <2>5
<1>9. CASE FutureDone
  <2>1. /\ wpc \in {"set", "setException"} /\ wpc' = "end" /\ pend[Worker] = None /\ pend' = pend
        /\ fut' = IF fut = "NEW" THEN IF wpc = "set" THEN "NORMAL" ELSE "EXCEPTIONAL" ELSE fut
    BY <1>9 DEF FutureDone
  <2>2. HandInv' /\ QueueInv'
    BY <1>1, <1>3, <1>4, <2>1 DEF HandInv, HandsFree, QueueInv
  <2>3. (OutcomeAhead' <=> OutcomeAhead) /\ (StartAhead' <=> StartAhead)
    BY <1>1, <1>3, <2>1 DEF StartAhead, OutcomeAhead
  <2>4. TodoInv' /\ StateInv'
    BY <1>1, <1>2, <1>4, <2>3 DEF TodoInv, StateInv
  <2>5. FutureInv'
    BY <1>1, <1>2, <1>4, <2>1 DEF FutureInv, CancelAhead, LifeInv, TypeInv, TypeOK
  <2> QED BY <2>2, <2>4, <2>5
<1> QED BY <1>5, <1>6, <1>7, <1>8, <1>9 DEF WorkerStep

\* Platform.runLater: what a thread had in hand joins the queue.
LEMMA LifePost ==
  ASSUME LifeInv, FutureInv, NEW t \in Bg, Post(t)
  PROVE  HandInv' /\ QueueInv' /\ TodoInv' /\ StateInv' /\ FutureInv'
<1> DEFINE r == pend[t]
<1>1. /\ queue' = Append(queue, r) /\ r # None /\ UNCHANGED <<wpc, fut, todo, state>>
      /\ pend' = [pend EXCEPT ![t] = None]
  BY DEF Post, wkVars, fxVars
<1>2. /\ pend \in [Bg -> Runnable \cup {None}] /\ queue \in Seq(Runnable) /\ r \in Runnable
      /\ Worker \in Bg /\ Worker \notin Helpers
  BY <1>1, ThreadAssumption DEF LifeInv, TypeInv, TypeOK, Bg
<1>3. pend'[t] = None /\ \A u \in Bg : u # t => pend'[u] = pend[u]
  BY <1>1, <1>2
<1>4. \A x : /\ Has(queue', x) <=> Has(queue, x) \/ r = x
             /\ Single(queue, x) /\ (r = x => ~Has(queue, x)) => Single(queue', x)
             /\ \A y : Before(queue, x, y) /\ x # y /\ (r = x => ~Has(queue, y))
                         => Before(queue', x, y)
  BY <1>1, <1>2, AppendHas
<1>5. /\ HandInv /\ HandsFree /\ QueueInv /\ TodoInv /\ StateInv
      /\ t # Worker => r \notin Outcomes \cup {StartRunnable}
  BY <1>2 DEF LifeInv, HandInv, Bg
<1>6. \A v : Shows(v)' <=> Shows(v)
  BY <1>1 DEF Shows
<1>7. None \notin Outcomes \cup {StartRunnable, CancelledRunnable} /\ StartRunnable \notin Outcomes
  BY RunnablesDiffer
<1> HIDE DEF r
<1>8. HandInv'
  BY <1>1, <1>2, <1>3, <1>5, <1>7 DEF HandInv, HandsFree, Bg
\* The Runnable leaves the hand for the queue.
<1>9. /\ Has(queue', StartRunnable) \/ pend'[Worker] = StartRunnable
           <=> Has(queue, StartRunnable) \/ pend[Worker] = StartRunnable
      /\ OutcomeQueued' \/ pend'[Worker] \in Outcomes <=> OutcomeQueued \/ pend[Worker] \in Outcomes
  BY <1>2, <1>3, <1>4, <1>5, <1>7 DEF OutcomeQueued, r
<1>10. (OutcomeAhead' <=> OutcomeAhead) /\ (StartAhead' <=> StartAhead)
  BY <1>1, <1>9 DEF StartAhead, OutcomeAhead
<1>11. QueueInv'
  <2>1. CASE t # Worker
    BY <1>1, <1>2, <1>3, <1>4, <1>5, <1>7, <2>1 DEF QueueInv, OutcomeQueued
  <2>2. CASE t = Worker /\ r = StartRunnable
    BY <1>1, <1>2, <1>3, <1>4, <1>5, <1>7, <2>2 DEF QueueInv, HandInv, OutcomeQueued, r
  <2>3. CASE t = Worker /\ r \in Outcomes
    BY <1>1, <1>2, <1>3, <1>4, <1>5, <1>7, <2>3 DEF QueueInv, HandInv, OutcomeQueued, r
  <2>4. CASE t = Worker /\ r \notin Outcomes \cup {StartRunnable}
    BY <1>1, <1>2, <1>3, <1>4, <1>5, <1>7, <2>4 DEF QueueInv, OutcomeQueued, r
  <2> QED BY <2>1, <2>2, <2>3, <2>4
<1>12. TodoInv' /\ StateInv'
  BY <1>1, <1>5, <1>6, <1>10 DEF TodoInv, StateInv
<1>13. FutureInv'
  <2>1. CancelAhead' <=> CancelAhead
    BY <1>2, <1>3, <1>4, <1>6, <1>7 DEF CancelAhead, r
  <2>2. \A x \in Outcomes : Has(queue', x) \/ pend'[Worker] = x <=> Has(queue, x) \/ pend[Worker] = x
    BY <1>2, <1>3, <1>4, <1>5, <1>7 DEF r
  <2> QED BY <1>1, <1>6, <2>1, <2>2 DEF FutureInv, Outcomes
<1> QED BY <1>8, <1>11, <1>12, <1>13

\* A background thread updates a channel or cancels: what it has in hand is
\* neither the start nor the outcome.
LEMMA LifeBackground ==
  ASSUME LifeInv, FutureInv, NEW t \in Bg,
         \/ BgCancelTask(t)
         \/ \E c \in Updatable : \E a \in Args(c) : BgUpdate(t, c, a)
  PROVE  HandInv' /\ QueueInv' /\ TodoInv' /\ StateInv' /\ FutureInv'
<1>1. /\ UNCHANGED <<queue, wpc, todo, state>> /\ pend[t] = None /\ (t = Worker => wpc = "call")
      /\ \/ fut = "NEW" /\ fut' = "CANCELLED" /\ pend' = [pend EXCEPT ![t] = CancelledRunnable]
         \/ fut' = fut /\ pend' = pend
         \/ fut' = fut /\ \E c \in Channel : pend' = [pend EXCEPT ![t] = UpdateRunnable(c)]
  BY ChannelAssumption DEF BgCancelTask, BgUpdate, BgFree, Publish, HandOver, wkVars, fxVars
<1>2. pend \in [Bg -> Runnable \cup {None}] /\ Worker \in Bg /\ Worker \notin Helpers
  BY ThreadAssumption DEF LifeInv, TypeInv, TypeOK, Bg
<1>3. None \notin Outcomes \cup {StartRunnable, CancelledRunnable}
  BY RunnablesDiffer
<1>4. /\ \A u \in Bg : u # t => pend'[u] = pend[u]
      /\ pend'[t] \notin Outcomes \cup {StartRunnable}
      /\ pend'[t] = CancelledRunnable <=> fut' # fut
  BY <1>1, <1>2, <1>3, RunnablesDiffer
<1>5. HandInv /\ HandsFree /\ QueueInv /\ TodoInv /\ StateInv
  BY DEF LifeInv, HandInv
<1>6. HandInv' /\ QueueInv'
  BY <1>1, <1>2, <1>3, <1>4, <1>5 DEF HandInv, HandsFree, QueueInv, OutcomeQueued, Bg
<1>7. (OutcomeAhead' <=> OutcomeAhead) /\ (StartAhead' <=> StartAhead)
  BY <1>1, <1>2, <1>3, <1>4 DEF StartAhead, OutcomeAhead, OutcomeQueued
<1>8. \A v : Shows(v)' <=> Shows(v)
  BY <1>1 DEF Shows
<1>9. TodoInv' /\ StateInv'
  BY <1>1, <1>5, <1>7, <1>8 DEF TodoInv, StateInv
<1>10. FutureInv'
  <2>1. CancelAhead' <=> CancelAhead \/ fut' # fut
    BY <1>1, <1>2, <1>3, <1>4, <1>8 DEF CancelAhead
  <2>2. pend'[Worker] \in Outcomes <=> pend[Worker] \in Outcomes
    BY <1>1, <1>2, <1>3, <1>4
  <2>3. \A x \in Outcomes : pend'[Worker] = x <=> pend[Worker] = x
    BY <1>1, <1>2, <1>3, <1>4
  <2> QED BY <1>1, <1>8, <2>1, <2>3 DEF FutureInv, Outcomes
<1> QED BY <1>6, <1>9, <1>10

LEMMA LifeStep ==
  ASSUME NoNesting, LifeInv, FutureInv, [Next]_vars
  PROVE  /\ LifeInv' /\ FutureInv'
         /\ state' # state =>
              \/ state = "READY" /\ state' = "SCHEDULED"
              \/ state = "SCHEDULED" /\ state' = "RUNNING"
              \/ state = "RUNNING" /\ state' \in {"SUCCEEDED", "FAILED"}
              \/ state # "CANCELLED" /\ state' = "CANCELLED"
<1>0. TypeInv'
  BY TypeStep DEF LifeInv
<1>1. CASE FxTake
  <2>1. state' = state
    BY <1>1 DEF FxTake
  <2> QED BY <1>0, <1>1, <2>1, LifeTake DEF LifeInv
<1>2. CASE FxSetState
  BY <1>0, <1>2, LifeSetState DEF LifeInv
<1>3. CASE FxSetRunning \/ FxFire \/ FxSetException \/ FxSetValue \/ FxApply
  <2>1. HandInv' /\ QueueInv' /\ TodoInv' /\ StateInv' /\ FutureInv' /\ state' = state
    BY <1>3, OtherStatement, LifeUnchanged
  <2> QED BY <1>0, <2>1 DEF LifeInv
<1>4. CASE FxCancel
  <2>1. state' = state
    BY <1>4 DEF FxCancel
  <2> QED BY <1>0, <1>4, <2>1, LifeCancel DEF LifeInv
<1>5. CASE WorkerStep \/ CallReturns \/ CallThrows
  <2>1. state' = state
    BY <1>5 DEF WorkerStep, WorkerRun, WorkerReturned, WorkerThrew, FutureDone,
                CallReturns, CallThrows, fxVars
  <2> QED BY <1>0, <1>5, <2>1, LifeWorker DEF LifeInv
<1>6. ASSUME NEW t \in Bg, Post(t)
      PROVE  HandInv' /\ QueueInv' /\ TodoInv' /\ StateInv' /\ FutureInv' /\ state' = state
  <2>1. state' = state
    BY <1>6 DEF Post, fxVars
  <2> QED BY <1>6, <2>1, LifePost
<1>7. ASSUME NEW t \in Bg, \/ BgCancelTask(t)
                           \/ \E c \in Updatable : \E a \in Args(c) : BgUpdate(t, c, a)
      PROVE  HandInv' /\ QueueInv' /\ TodoInv' /\ StateInv' /\ FutureInv' /\ state' = state
  <2>1. state' = state
    BY <1>7 DEF BgCancelTask, BgUpdate, fxVars
  <2> QED BY <1>7, <2>1, LifeBackground
<1>8. CASE \/ \E c \in Updatable : \E a \in Args(c) : FxUpdate(c, a)
           \/ Done \/ UNCHANGED vars
  <2>1. UNCHANGED <<queue, pend, wpc, fut, state, todo>>
    BY <1>8 DEF FxUpdate, Done, vars, wkVars, fxVars
  <2>2. HandInv' /\ QueueInv' /\ TodoInv' /\ StateInv' /\ FutureInv'
    BY <2>1, LifeUnchanged DEF Shows
  <2> QED BY <1>0, <2>1, <2>2 DEF LifeInv
<1> QED BY <1>0, <1>1, <1>2, <1>3, <1>4, <1>5, <1>6, <1>7, <1>8 DEF Next, Fx, LifeInv

\* What the FX thread sees of a task implements the life cycle of a Worker
\* (with a late cancel): nothing is skipped, nothing is repeated and CANCELLED is
\* never left, however cancel(), the pool thread and the helpers interleave, as
\* long as no callback enters a nested event loop.
THEOREM TaskImplementsWorker ==
  ASSUME NoNesting
  PROVE  Spec => LifeCycle
<1>1. Init => Life!Init
  BY DEF Init, Life!Init
<1>2. LifeInv /\ FutureInv /\ [Next]_vars => [Life!Next]_state
  <2> SUFFICES ASSUME LifeInv, FutureInv, [Next]_vars, state' # state PROVE Life!Next
    OBVIOUS
  <2> QED BY LifeStep DEF Life!Next, Life!Schedule, Life!Run, Life!Conclude, Life!Cancel
<1>3. LifeInv /\ FutureInv /\ [Next]_vars => LifeInv' /\ FutureInv'
  BY LifeStep
<1> QED BY LifeInit, <1>1, <1>2, <1>3, PTL DEF Spec, LifeCycle, Life!Spec

\* The Future and the Worker tell the same story: once everything that was handed
\* over has run, the state that the FX thread shows is the outcome that get() and
\* isCancelled() report, as long as no callback enters a nested event loop.
THEOREM FutureAndWorkerAgree ==
  ASSUME NoNesting
  PROVE  Spec => []FutureAgrees
<1>1. LifeInv /\ FutureInv => FutureAgrees
  <2> SUFFICES ASSUME LifeInv, FutureInv, Quiescent
               PROVE  state = (CASE fut = "NORMAL" -> "SUCCEEDED"
                                 [] fut = "EXCEPTIONAL" -> "FAILED"
                                 [] fut = "CANCELLED" -> "CANCELLED"
                                 [] OTHER -> "READY")
    BY DEF FutureAgrees
  <2>1. \A x : ~Has(queue, x) /\ ~Has(todo, x)
    BY EmptyHas DEF Quiescent
  <2>2. \A t \in Bg : pend[t] \notin Outcomes \cup {CancelledRunnable}
    BY RunnablesDiffer DEF Quiescent
  <2>3. ~CancelAhead /\ Worker \in Bg
    BY <2>1, <2>2 DEF CancelAhead, Shows, Bg
  <2>4. /\ state = "CANCELLED" <=> fut = "CANCELLED"
        /\ fut = "NORMAL" => state \in {"SUCCEEDED", "CANCELLED"}
        /\ fut = "EXCEPTIONAL" => state \in {"FAILED", "CANCELLED"}
        /\ fut # "NEW" /\ fut \in {"NEW", "NORMAL", "EXCEPTIONAL", "CANCELLED"}
    BY <2>1, <2>2, <2>3 DEF FutureInv, Quiescent, Shows, Outcomes, LifeInv, TypeInv, TypeOK
  <2> QED BY <2>4
<1>2. LifeInv /\ FutureInv /\ [Next]_vars => LifeInv' /\ FutureInv'
  BY LifeStep
<1> QED BY LifeInit, <1>1, <1>2, PTL DEF Spec

-----------------------------------------------------------------------------
(***************************************************************************)
(* The properties that go with the state.                                  *)
(***************************************************************************)
\* The application does not call cancel() from a property listener: there the
\* statement setRunning of the interrupted setState is still to come.
HandlersOnly == CallbackSites \subseteq {"handler"}

\* At most the next statement is a setRunning, and then it is about the state.
NoRunning(q) == \A i \in 1 .. Len(q) : q[i].do # "setRunning"
RunningInv ==
  IF todo # <<>> /\ Head(todo).do = "setRunning"
  THEN Head(todo).arg = state /\ site # "handler" /\ NoRunning(Tail(todo))
  ELSE NoRunning(todo) /\ running = RunningAs(state)

\* The value property is left to the result of call().
ValueIsResult == "value" \notin Updatable

\* Nothing is under way that would set the value to something else.
ValueInv ==
  /\ ~Has(queue, UpdateRunnable("value")) /\ ~Has(todo, Apply("value"))
  /\ \A t \in Bg : pend[t] # UpdateRunnable("value")

\* The value and the cause are set before the state that announces them.
OutcomeInv ==
  /\ Before(todo, SetValue(Result), SetState("SUCCEEDED"))
  /\ Shows("SUCCEEDED") => Has(todo, SetValue(Result)) \/ prop["value"] = Result
  /\ state = "SUCCEEDED" => prop["value"] = Result
  /\ \A x \in Causes : Before(todo, SetException(x), SetState("FAILED"))
  /\ Shows("FAILED") => (\E x \in Causes : Has(todo, SetException(x))) \/ exception # Null
  /\ state = "FAILED" => exception # Null

LEMMA RunnableHasNoRunning == \A r \in Runnable : NoRunning(r)
BY DEF Runnable, NoRunning, StartRunnable, SucceedRunnable, CancelledRunnable, FailRunnable,
       UpdateRunnable, SetState, SetValue, SetException, Apply

LEMMA NoRunningParts ==
  /\ \A q \in Seq(Statement) : NoRunning(q) /\ q # <<>>
       => Head(q).do # "setRunning" /\ NoRunning(Tail(q))
  /\ \A p, q \in Seq(Statement) : NoRunning(p) /\ NoRunning(q) => NoRunning(p \o q)
<1>1. ASSUME NEW q \in Seq(Statement), NoRunning(q), q # <<>>
      PROVE  Head(q).do # "setRunning" /\ NoRunning(Tail(q))
  <2>1. 1 \in 1 .. Len(q) /\ Head(q) = q[1]
    BY <1>1, TailAt
  <2>2. \A i \in 1 .. Len(Tail(q)) : i + 1 \in 1 .. Len(q) /\ Tail(q)[i] = q[i + 1]
    BY <1>1, TailAt
  <2> QED BY <1>1, <2>1, <2>2 DEF NoRunning
<1>2. ASSUME NEW p \in Seq(Statement), NEW q \in Seq(Statement), NoRunning(p), NoRunning(q)
      PROVE  NoRunning(p \o q)
  <2>1. \A i \in 1 .. Len(p \o q) : \/ i \in 1 .. Len(p) /\ (p \o q)[i] = p[i]
                                    \/ i - Len(p) \in 1 .. Len(q) /\ (p \o q)[i] = q[i - Len(p)]
    BY ConcatAt
  <2> QED BY <1>2, <2>1 DEF NoRunning
<1> QED BY <1>1, <1>2

LEMMA RunningStep ==
  ASSUME NoNesting, HandlersOnly, TypeInv, RunningInv, [Next]_vars
  PROVE  RunningInv'
<1>1. todo \in Seq(Statement) /\ queue \in Seq(Runnable)
  BY DEF TypeInv, TypeOK
<1>2. ASSUME todo # <<>> PROVE NoRunning(Tail(todo))
  <2>1. CASE Head(todo).do = "setRunning"
    BY <1>2, <2>1 DEF RunningInv
  <2>2. CASE Head(todo).do # "setRunning"
    <3>1. NoRunning(todo)
      BY <2>2 DEF RunningInv
    <3> QED BY <1>1, <1>2, <3>1, NoRunningParts
  <2> QED BY <2>1, <2>2
<1>3. CASE FxTake
  <2>1. queue # <<>> /\ todo = <<>> /\ Head(queue) \in Runnable /\ Head(queue) \in Seq(Statement)
    BY <1>1, <1>3, RunnableIsStatements DEF FxTake, NoNesting
  <2>2. todo' = Head(queue) /\ state' = state /\ running' = running
    BY <1>3, <2>1 DEF FxTake
  <2>3. NoRunning(todo')
    BY <2>1, <2>2, RunnableHasNoRunning
  <2>4. todo' # <<>> => Head(todo').do # "setRunning"
    BY <2>1, <2>2, <2>3, NoRunningParts
  <2>5. running = RunningAs(state)
    BY <2>1 DEF RunningInv
  <2> QED BY <2>2, <2>3, <2>4, <2>5 DEF RunningInv, RunningAs
<1>4. CASE FxSetState
  <2> DEFINE v == Head(todo).arg
  <2>1. todo # <<>> /\ Head(todo).do = "setState" /\ running' = running
    BY <1>4 DEF FxSetState
  <2>2. Tail(todo) \in Seq(Statement) /\ NoRunning(Tail(todo)) /\ running = RunningAs(state)
    BY <1>1, <1>2, <2>1 DEF RunningInv
  <2>3. CASE state = "CANCELLED"
    <3>1. todo' = Tail(todo) /\ state' = state
      BY <1>4, <2>3 DEF FxSetState, SetStateEffect
    <3>2. todo' # <<>> => Head(todo').do # "setRunning"
      BY <2>2, <3>1, NoRunningParts
    <3> QED BY <2>1, <2>2, <3>1, <3>2 DEF RunningInv, RunningAs
  <2>4. CASE state # "CANCELLED"
    <3>1. /\ todo' = <<SetRunning(v), Fire>> \o Tail(todo) /\ state' = v
          /\ site' \in {"listener", "none"}
      BY <1>4, <2>4 DEF FxSetState, SetStateEffect
    <3>2. v \in States
      BY <1>1, <2>1, StatementArgs
    <3>3. <<SetRunning(v), Fire>> \in Seq(Statement)
      BY <3>2, StatementTypes
    <3>4. Head(todo') = SetRunning(v) /\ Tail(todo') = <<Fire>> \o Tail(todo) /\ todo' # <<>>
      BY <2>2, <3>1, <3>3
    <3>5. NoRunning(<<Fire>> \o Tail(todo))
      <4>1. <<Fire>> \in Seq(Statement)
        BY StatementTypes
      <4>2. NoRunning(<<Fire>>)
        BY DEF NoRunning, Fire
      <4> QED BY <2>2, <4>1, <4>2, NoRunningParts
    <3>6. SetRunning(v).do = "setRunning" /\ SetRunning(v).arg = v
      BY DEF SetRunning
    <3> QED BY <3>1, <3>4, <3>5, <3>6 DEF RunningInv
  <2> QED BY <2>3, <2>4
<1>5. CASE FxSetRunning
  <2>1. /\ todo # <<>> /\ Head(todo).do = "setRunning" /\ todo' = Tail(todo) /\ state' = state
        /\ running' = RunningAs(Head(todo).arg)
    BY <1>5 DEF FxSetRunning
  <2>2. Head(todo).arg = state /\ NoRunning(todo') /\ todo' \in Seq(Statement)
    BY <1>1, <1>2, <2>1 DEF RunningInv
  <2>3. todo' # <<>> => Head(todo').do # "setRunning"
    BY <2>2, NoRunningParts
  <2> QED BY <2>1, <2>2, <2>3 DEF RunningInv, RunningAs
<1>6. CASE FxFire \/ FxSetException \/ FxSetValue \/ FxApply
  <2>1. /\ todo # <<>> /\ Head(todo).do # "setRunning" /\ todo' = Tail(todo) /\ state' = state
        /\ running' = running
    BY <1>6 DEF FxFire, FxSetException, FxSetValue, FxApply
  <2>2. NoRunning(todo') /\ todo' \in Seq(Statement) /\ running = RunningAs(state)
    BY <1>1, <1>2, <2>1 DEF RunningInv
  <2>3. todo' # <<>> => Head(todo').do # "setRunning"
    BY <2>2, NoRunningParts
  <2> QED BY <2>1, <2>2, <2>3 DEF RunningInv, RunningAs
<1>7. CASE FxCancel
  <2>1. /\ todo = <<>> \/ site = "handler"
        /\ todo' = CancelledRunnable \o todo /\ state' = state /\ running' = running
    BY <1>7 DEF FxCancel, FxFree, AtCallback, HandlersOnly
  <2>2. NoRunning(todo) /\ running = RunningAs(state)
    BY <2>1 DEF RunningInv
  <2>3. /\ CancelledRunnable \in Seq(Statement) /\ Len(CancelledRunnable) = 1
        /\ CancelledRunnable[1] = SetState("CANCELLED")
    BY RunnableIsStatements, RunnablesDiffer DEF CancelledRunnable
  <2>4. todo' \in Seq(Statement) /\ todo' # <<>> /\ Head(todo') = SetState("CANCELLED")
    BY <1>1, <2>1, <2>3
  <2>6. NoRunning(todo')
    BY <1>1, <2>1, <2>2, <2>3, NoRunningParts, RunnableHasNoRunning, RunnablesDiffer
  <2> QED BY <2>1, <2>2, <2>4, <2>6 DEF RunningInv, RunningAs, SetState
<1>8. CASE \/ \E c \in Updatable : \E a \in Args(c) : FxUpdate(c, a)
           \/ WorkerStep \/ CallReturns \/ CallThrows
           \/ \E t \in Bg : \/ Post(t) \/ BgCancelTask(t)
                            \/ \E c \in Updatable : \E a \in Args(c) : BgUpdate(t, c, a)
           \/ Done \/ UNCHANGED vars
  <2>1. UNCHANGED fxVars
    BY <1>8 DEF FxUpdate, WorkerStep, WorkerRun, WorkerReturned, WorkerThrew, FutureDone,
                CallReturns, CallThrows, Post, BgCancelTask, BgUpdate, Done, vars
  <2> QED BY <2>1 DEF fxVars, RunningInv, RunningAs, NoRunning
<1> QED BY <1>3, <1>4, <1>5, <1>6, <1>7, <1>8 DEF Next, Fx

LEMMA ValueStep ==
  ASSUME TypeInv, ValueIsResult, ValueInv, [Next]_vars
  PROVE  ValueInv'
<1> DEFINE u == UpdateRunnable("value")
           a == Apply("value")
<1>1. todo \in Seq(Statement) /\ queue \in Seq(Runnable) /\ pend \in [Bg -> Runnable \cup {None}]
  BY DEF TypeInv, TypeOK
<1>2. \A r \in Runnable : r # u => ~Has(r, a)
  <2>1. /\ \A v : a # SetState(v) /\ a # SetException(v) /\ a # SetValue(v) /\ a # SetRunning(v)
        /\ a # Fire /\ \A c : c # "value" => Apply(c) # a
    BY DEF Apply, SetState, SetException, SetValue, SetRunning, Fire
  <2>2. \A c : UpdateRunnable(c) # u => c # "value"
    OBVIOUS
  <2> HIDE DEF u, a
  <2>3. ~Has(StartRunnable, a) /\ ~Has(SucceedRunnable, a)
    BY <2>1, TwoHas DEF StartRunnable, SucceedRunnable
  <2>4. ~Has(CancelledRunnable, a) /\ \A x : ~Has(FailRunnable(x), a)
    BY <2>1, OneHas, TwoHas DEF CancelledRunnable, FailRunnable
  <2>5. \A c : UpdateRunnable(c) # u => ~Has(UpdateRunnable(c), a)
    BY <2>1, <2>2, OneHas DEF UpdateRunnable
  <2> QED BY <2>3, <2>4, <2>5 DEF Runnable
<1>3. /\ StartRunnable # u /\ CancelledRunnable # u /\ SucceedRunnable # u /\ None # u
      /\ \A x : FailRunnable(x) # u
      /\ \A c : c # "value" => UpdateRunnable(c) # u
  BY DEF None, UpdateRunnable, StartRunnable, CancelledRunnable, SucceedRunnable, FailRunnable,
         Apply, SetState, SetValue
<1>4. ~Has(queue, u) /\ ~Has(todo, a) /\ \A t \in Bg : pend[t] # u
  BY DEF ValueInv
<1> HIDE DEF u, a
<1>5. CASE FxTake
  <2>1. Head(queue) \in Runnable /\ Head(queue) # u /\ ~Has(queue', u)
    BY <1>1, <1>4, <1>5, TailHas, TailAt DEF FxTake
  <2>2. Head(queue) \in Seq(Statement) /\ todo' = Head(queue) \o todo /\ pend' = pend
    BY <1>5, <2>1, RunnableIsStatements DEF FxTake
  <2>3. ~Has(todo', a)
    BY <1>1, <1>2, <1>4, <2>1, <2>2, ConcatHas
  <2> QED BY <1>4, <2>1, <2>2, <2>3 DEF ValueInv, u, a
<1>6. CASE FxSetState
  <2>1. todo # <<>> /\ UNCHANGED <<queue, pend>> /\ ~Has(Tail(todo), a) /\ Tail(todo) \in Seq(Statement)
    BY <1>1, <1>4, <1>6, TailHas DEF FxSetState
  <2>2. \A v \in States : /\ <<SetRunning(v), Fire>> \in Seq(Statement)
                          /\ ~Has(<<SetRunning(v), Fire>>, a)
    <3>1. \A v : SetRunning(v) # a /\ Fire # a
      BY DEF SetRunning, Fire, a, Apply
    <3> QED BY <3>1, TwoHas, StatementTypes
  <2>3. Head(todo).arg \in States
    BY <1>1, <1>6, StatementArgs DEF FxSetState
  <2> DEFINE p == <<SetRunning(Head(todo).arg), Fire>>
  <2>4. ~Has(p \o Tail(todo), a)
    <3>1. p \in Seq(Statement) /\ ~Has(p, a)
      BY <2>2, <2>3
    <3> HIDE DEF p
    <3> QED BY <2>1, <3>1, ConcatHas
  <2>5. ~Has(todo', a)
    BY <1>6, <2>1, <2>4 DEF FxSetState, SetStateEffect
  <2> QED BY <1>4, <2>1, <2>5 DEF ValueInv, u, a
<1>7. CASE FxSetRunning \/ FxFire \/ FxSetException \/ FxSetValue \/ FxApply
  <2>1. todo # <<>> /\ todo' = Tail(todo) /\ UNCHANGED <<queue, pend>>
    BY <1>7 DEF FxSetRunning, FxFire, FxSetException, FxSetValue, FxApply
  <2>2. ~Has(todo', a)
    BY <1>1, <1>4, <2>1, TailHas
  <2> QED BY <1>4, <2>1, <2>2 DEF ValueInv, u, a
<1>8. CASE FxCancel
  <2>1. todo' = CancelledRunnable \o todo /\ UNCHANGED <<queue, pend>>
    BY <1>8 DEF FxCancel
  <2>2. ~Has(todo', a)
    BY <1>1, <1>2, <1>3, <1>4, <2>1, ConcatHas, RunnableIsStatements, RunnablesDiffer
  <2> QED BY <1>4, <2>1, <2>2 DEF ValueInv, u, a
<1>9. CASE WorkerStep \/ CallReturns \/ CallThrows
  <2>1. UNCHANGED <<queue, todo>> /\ \A t \in Bg : pend'[t] # u
    BY <1>1, <1>3, <1>4, <1>9 DEF WorkerStep, WorkerRun, WorkerReturned, WorkerThrew, FutureDone,
       CallReturns, CallThrows, HandOver, fxVars
  <2> QED BY <1>4, <2>1 DEF ValueInv, u, a
<1>10. ASSUME NEW t \in Bg, Post(t) PROVE ValueInv'
  <2>1. pend[t] \in Runnable /\ queue' = Append(queue, pend[t]) /\ todo' = todo
    BY <1>1, <1>10 DEF Post, fxVars
  <2>2. ~Has(queue', u)
    BY <1>1, <1>4, <2>1, AppendHas
  <2>3. \A w \in Bg : pend'[w] # u
    BY <1>1, <1>3, <1>4, <1>10 DEF Post
  <2> QED BY <1>4, <2>1, <2>2, <2>3 DEF ValueInv, u, a
<1>11. ASSUME NEW t \in Bg, \/ BgCancelTask(t)
                            \/ \E c \in Updatable : \E x \in Args(c) : BgUpdate(t, c, x)
       PROVE  ValueInv'
  <2>1. UNCHANGED <<queue, todo>> /\ \A w \in Bg : pend'[w] # u
    BY <1>1, <1>3, <1>4, <1>11 DEF BgCancelTask, BgUpdate, Publish, HandOver, ValueIsResult, fxVars
  <2> QED BY <1>4, <2>1 DEF ValueInv, u, a
<1>12. CASE \/ \E c \in Updatable : \E x \in Args(c) : FxUpdate(c, x)
            \/ Done \/ UNCHANGED vars
  <2>1. UNCHANGED <<queue, todo, pend>>
    BY <1>12 DEF FxUpdate, Done, vars, fxVars
  <2> QED BY <2>1 DEF ValueInv
<1> QED BY <1>5, <1>6, <1>7, <1>8, <1>9, <1>10, <1>11, <1>12 DEF Next, Fx

\* The part of OutcomeInv about a list of statements.
LEMMA BeforeAbsent == \A q, x, y : ~Has(q, y) => Before(q, x, y)
BY DEF Has, Before

LEMMA OutcomeTake ==
  ASSUME NoNesting, TypeInv, OutcomeInv, FxTake
  PROVE  OutcomeInv'
<1> DEFINE r == Head(queue)
           U == SetState("SUCCEEDED")
           F == SetState("FAILED")
<1>1. /\ queue # <<>> /\ todo = <<>> /\ queue \in Seq(Runnable) /\ r \in Runnable
      /\ UNCHANGED <<state, exception, prop>>
  BY DEF FxTake, NoNesting, TypeInv, TypeOK, updVars
<1>2. todo' = r
  BY <1>1, RunnableIsStatements DEF FxTake
<1> HIDE DEF r
<1>3. CASE r = SucceedRunnable
  <2>1. Has(r, SetValue(Result)) /\ Before(r, SetValue(Result), U) /\ ~Has(r, F)
    BY <1>3, TwoHas, StatementsDiffer DEF SucceedRunnable
  <2> QED BY <1>1, <1>2, <2>1, BeforeAbsent DEF OutcomeInv, Shows
<1>4. ASSUME NEW x \in Causes, r = FailRunnable(x) PROVE OutcomeInv'
  <2>1. Has(r, SetException(x)) /\ Before(r, SetException(x), F) /\ ~Has(r, U)
    BY <1>4, TwoHas, StatementsDiffer DEF FailRunnable
  <2>2. ASSUME NEW y \in Causes, y # x PROVE Before(r, SetException(y), F)
    <3>1. SetException(y) # SetException(x) /\ SetException(y) # F
      BY <2>2 DEF SetException, SetState
    <3>2. ~Has(r, SetException(y))
      BY <1>4, <3>1, TwoHas DEF FailRunnable
    <3> QED BY <3>2 DEF Has, Before
  <2>3. \A y \in Causes : Before(r, SetException(y), F)
    BY <2>1, <2>2
  <2> QED BY <1>1, <1>2, <2>1, <2>3, BeforeAbsent DEF OutcomeInv, Shows
<1>5. CASE r \notin Outcomes
  <2>1. ~Has(r, U) /\ ~Has(r, F)
    BY <1>1, <1>5, RunnableHolds DEF Runnable, Outcomes
  <2> QED BY <1>1, <1>2, <2>1, BeforeAbsent DEF OutcomeInv, Shows
<1> QED BY <1>3, <1>4, <1>5 DEF Outcomes

LEMMA OutcomeSetState ==
  ASSUME TypeInv, OutcomeInv, FxSetState
  PROVE  OutcomeInv'
<1> DEFINE v == Head(todo).arg
           U == SetState("SUCCEEDED")
           F == SetState("FAILED")
           V == SetValue(Result)
           p == <<SetRunning(v), Fire>>
<1>1. /\ todo # <<>> /\ todo \in Seq(Statement) /\ Head(todo) \in Statement
      /\ Head(todo).do = "setState" /\ UNCHANGED <<exception, prop>>
  BY DEF FxSetState, TypeInv, TypeOK, updVars
<1>2. v \in States /\ Head(todo) = SetState(v)
  BY <1>1, StatementArgs DEF Statement, SetState, SetRunning, SetException, Apply, Fire, SetValue
<1>3. /\ todo' = Tail(todo) \/ todo' = p \o Tail(todo)
      /\ state' = state \/ state' = v
  BY DEF FxSetState, SetStateEffect
<1>4. /\ p \in Seq(Statement) /\ ~Has(p, U) /\ ~Has(p, F) /\ ~Has(p, V)
      /\ \A x : ~Has(p, SetException(x))
  <2>1. \A x : /\ x # SetRunning(v) /\ x # Fire => ~Has(p, x)
    BY TwoHas
  <2>2. V # SetRunning(v) /\ V # Fire /\ \A x : SetException(x) # SetRunning(v) /\ SetException(x) # Fire
    BY DEF SetRunning, Fire, SetValue, SetException
  <2> QED BY <1>2, <2>1, <2>2, StatementTypes, StatementsDiffer
<1> HIDE DEF p, v
<1>5. Tail(todo) \in Seq(Statement)
  BY <1>1
<1>6. /\ (Has(todo', U) => Has(Tail(todo), U)) /\ (Has(todo', F) => Has(Tail(todo), F))
      /\ Has(Tail(todo), V) => Has(todo', V)
      /\ \A x : Has(Tail(todo), SetException(x)) => Has(todo', SetException(x))
      /\ Before(Tail(todo), V, U) => Before(todo', V, U)
      /\ \A x : Before(Tail(todo), SetException(x), F) => Before(todo', SetException(x), F)
  <2>1. CASE todo' = Tail(todo)
    BY <2>1
  <2>2. CASE todo' = p \o Tail(todo)
    <3>1. /\ (Has(todo', U) => Has(Tail(todo), U)) /\ (Has(todo', F) => Has(Tail(todo), F))
          /\ Has(Tail(todo), V) => Has(todo', V)
          /\ \A x : Has(Tail(todo), SetException(x)) => Has(todo', SetException(x))
      BY <1>4, <1>5, <2>2, ConcatHas
    <3>2. Before(Tail(todo), V, U) => Before(todo', V, U)
      BY <1>4, <1>5, <2>2, ConcatHas
    <3>3. \A x : Before(Tail(todo), SetException(x), F) => Before(todo', SetException(x), F)
      BY <1>4, <1>5, <2>2, ConcatHas
    <3> QED BY <3>1, <3>2, <3>3
  <2> QED BY <1>3, <2>1, <2>2
<1>7. /\ Head(todo) # V /\ \A x : Head(todo) # SetException(x)
      /\ (Head(todo) = U <=> v = "SUCCEEDED") /\ (Head(todo) = F <=> v = "FAILED")
  BY <1>2, StatementsDiffer
<1>8. /\ (Has(Tail(todo), U) => Shows("SUCCEEDED")) /\ (v = "SUCCEEDED" => Shows("SUCCEEDED"))
      /\ (Has(Tail(todo), F) => Shows("FAILED")) /\ (v = "FAILED" => Shows("FAILED"))
      /\ Has(todo, V) <=> Has(Tail(todo), V)
      /\ \A x : Has(todo, SetException(x)) <=> Has(Tail(todo), SetException(x))
  BY <1>1, <1>7, TailHas DEF Shows
<1>9. /\ Before(todo, V, U) => Before(Tail(todo), V, U) /\ (v = "SUCCEEDED" => ~Has(todo, V))
      /\ \A x : Before(todo, SetException(x), F)
           => Before(Tail(todo), SetException(x), F) /\ (v = "FAILED" => ~Has(todo, SetException(x)))
  BY <1>1, <1>7, TailHas
<1> QED BY <1>1, <1>3, <1>6, <1>8, <1>9 DEF OutcomeInv, Shows

LEMMA OutcomeOther ==
  ASSUME TypeInv, ValueInv, OutcomeInv,
         FxSetRunning \/ FxFire \/ FxSetException \/ FxSetValue \/ FxApply
  PROVE  OutcomeInv'
<1> DEFINE U == SetState("SUCCEEDED")
           F == SetState("FAILED")
           V == SetValue(Result)
<1>1. /\ todo # <<>> /\ todo \in Seq(Statement) /\ Head(todo) \in Statement /\ state' = state
      /\ todo' = Tail(todo) /\ DOMAIN prop = Channel
  BY DEF FxSetRunning, FxFire, FxSetException, FxSetValue, FxApply, TypeInv, TypeOK
<1>2. /\ Has(todo', U) => Has(todo, U)
      /\ Has(todo', F) => Has(todo, F)
      /\ Has(todo, V) => Head(todo) = V \/ Has(todo', V)
      /\ \A x : Has(todo, SetException(x)) => Head(todo) = SetException(x) \/ Has(todo', SetException(x))
  BY <1>1, TailHas
<1>3. /\ Before(todo, V, U) => Before(todo', V, U)
      /\ \A x : Before(todo, SetException(x), F) => Before(todo', SetException(x), F)
  BY <1>1, TailHas
<1>4. CASE FxSetValue
  <2>1. Head(todo).arg = Result
    BY <1>1, <1>4 DEF FxSetValue, Statement, SetState, SetRunning, SetException, Apply, Fire, SetValue
  <2>2. prop'["value"] = Result /\ exception' = exception
    BY <1>1, <1>4, <2>1 DEF FxSetValue, Channel
  <2>3. \A x : Head(todo) # SetException(x)
    BY <1>4 DEF FxSetValue, SetException
  <2> QED BY <1>1, <1>2, <1>3, <2>2, <2>3 DEF OutcomeInv, Shows
<1>5. CASE FxSetException
  <2>1. exception' # Null /\ prop' = prop /\ Head(todo) # V
    BY <1>1, <1>5, StatementArgs, CauseNotNull DEF FxSetException, Causes, SetValue, updVars
  <2> QED BY <1>1, <1>2, <1>3, <2>1 DEF OutcomeInv, Shows
<1>6. CASE FxSetRunning \/ FxFire \/ FxApply
  <2>1. /\ exception' = exception /\ Head(todo) # V /\ \A x : Head(todo) # SetException(x)
    BY <1>6 DEF FxSetRunning, FxFire, FxApply, SetValue, SetException
  <2>2. FxApply => Head(todo).arg \in Channel /\ Head(todo).arg # "value"
    BY <1>1, StatementArgs, TailHas DEF FxApply, ValueInv
  <2>3. prop'["value"] = prop["value"]
    BY <1>1, <1>6, <2>2 DEF FxSetRunning, FxFire, FxApply, ApplyEffect, updVars, Channel
  <2> QED BY <1>1, <1>2, <1>3, <2>1, <2>3 DEF OutcomeInv, Shows
<1> QED BY <1>4, <1>5, <1>6

LEMMA OutcomeStep ==
  ASSUME NoNesting, ValueIsResult, TypeInv, ValueInv, OutcomeInv, [Next]_vars
  PROVE  OutcomeInv'
<1>1. CASE FxTake
  BY <1>1, OutcomeTake
<1>2. CASE FxSetState
  BY <1>2, OutcomeSetState
<1>3. CASE FxSetRunning \/ FxFire \/ FxSetException \/ FxSetValue \/ FxApply
  BY <1>3, OutcomeOther
<1>4. CASE FxCancel
  <2> DEFINE c == CancelledRunnable
  <2>1. todo' = c \o todo /\ UNCHANGED <<state, exception, prop>>
    BY <1>4 DEF FxCancel, updVars
  <2>2. todo \in Seq(Statement) /\ c \in Seq(Statement)
    BY RunnableIsStatements, RunnablesDiffer DEF TypeInv, TypeOK
  <2>3. ~Has(c, SetState("SUCCEEDED")) /\ ~Has(c, SetState("FAILED"))
    BY RunnableHolds
  <2> HIDE DEF c
  <2>4. /\ Shows("SUCCEEDED")' => Shows("SUCCEEDED")
        /\ Shows("FAILED")' => Shows("FAILED")
        /\ \A x : Has(todo, x) => Has(todo', x)
    BY <2>1, <2>2, <2>3, ConcatHas DEF Shows
  <2>5. \A x : /\ Before(todo, x, SetState("SUCCEEDED")) => Before(todo', x, SetState("SUCCEEDED"))
               /\ Before(todo, x, SetState("FAILED")) => Before(todo', x, SetState("FAILED"))
    BY <2>1, <2>2, <2>3, ConcatHas
  <2> QED BY <2>1, <2>4, <2>5 DEF OutcomeInv
<1>5. ASSUME NEW c \in Updatable, NEW a \in Args(c), FxUpdate(c, a) PROVE OutcomeInv'
  <2>1. UNCHANGED <<todo, state, exception>> /\ prop'["value"] = prop["value"]
    BY <1>5 DEF FxUpdate, fxVars, ValueIsResult, Channel, TypeInv, TypeOK
  <2> QED BY <2>1 DEF OutcomeInv, Shows
<1>6. CASE \/ WorkerStep \/ CallReturns \/ CallThrows
           \/ \E t \in Bg : \/ Post(t) \/ BgCancelTask(t)
                            \/ \E c \in Updatable : \E a \in Args(c) : BgUpdate(t, c, a)
           \/ Done \/ UNCHANGED vars
  <2>1. UNCHANGED <<todo, state, exception, prop>>
    BY <1>6 DEF WorkerStep, WorkerRun, WorkerReturned, WorkerThrew, FutureDone,
                CallReturns, CallThrows, Post, BgCancelTask, BgUpdate, Done, vars, fxVars, updVars
  <2> QED BY <2>1 DEF OutcomeInv, Shows
<1> QED BY <1>1, <1>2, <1>3, <1>4, <1>5, <1>6 DEF Next, Fx

\* The properties of a Task agree with its state as Worker promises: running
\* between two events, the value when SUCCEEDED is seen and the exception when
\* FAILED is. The hypotheses name the three ways in which an application breaks it:
\* a nested event loop, cancel() from a property listener, and updateValue.
THEOREM PropertiesFollowState ==
  ASSUME NoNesting, HandlersOnly, ValueIsResult
  PROVE  Spec => []PropertiesAgree
<1> DEFINE PInv == TypeInv /\ RunningInv /\ ValueInv /\ OutcomeInv
<1>1. Init => PInv
  <2> SUFFICES ASSUME Init PROVE PInv
    OBVIOUS
  <2>1. todo = <<>> /\ queue = <<>> /\ state = "READY" /\ running = FALSE
    BY DEF Init
  <2>2. RunningInv
    <3>1. NoRunning(<<>>)
      BY DEF NoRunning
    <3>2. running = RunningAs(state)
      <4>1. RunningAs("READY") = FALSE
        BY DEF RunningAs
      <4> QED BY <2>1, <4>1
    <3> QED BY <2>1, <3>1, <3>2 DEF RunningInv
  <2>3. UpdateRunnable("value") # None
    BY DEF UpdateRunnable, None
  <2>4. ValueInv
    BY <2>1, <2>3, EmptyHas DEF Init, ValueInv
  <2>5. OutcomeInv
    BY <2>1, EmptyHas DEF OutcomeInv, Shows
  <2> QED BY <2>2, <2>4, <2>5, TypeInit
<1>2. PInv /\ [Next]_vars => PInv'
  BY TypeStep, RunningStep, ValueStep, OutcomeStep
<1>3. PInv => PropertiesAgree
  BY DEF PropertiesAgree, RunningAgrees, OutcomeVisible, RunningInv, RunningAs, OutcomeInv
<1> QED BY <1>1, <1>2, <1>3, PTL DEF Spec
=============================================================================
