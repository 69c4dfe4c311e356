--------------------------- MODULE FxServiceProofs ---------------------------
(***************************************************************************)
(* Theorems about FxService and FxScheduledService.                        *)
(*                                                                         *)
(* For every number of tasks and of calls, a Service shows one task, leaves*)
(* none working that it has let go of, its properties agree with its state,*)
(* and it implements the life cycle of a reusable Worker. The event        *)
(* handlers of the Service do not call it: otherwise the first three fail, *)
(* as the README reports.                                                  *)
(*                                                                         *)
(* A ScheduledService, also for every clock, delay, period and failure     *)
(* limit, keeps to its failure limit, is never left waiting for a run that *)
(* nothing will begin, and its assertions about the timer hold. Its        *)
(* handlers may call cancel() for the first two.                           *)
(***************************************************************************)
EXTENDS FxScheduledService, SequenceFacts

\* No event handler of the Service calls it.
NoHandlerCalls == HandlerCalls = {}

-----------------------------------------------------------------------------
(***************************************************************************)
(* What the FX thread is in, statement by statement. Without calls from    *)
(* handlers it is in one Runnable or one method at a time, and possibly in *)
(* the handlers that a statement of it has called.                         *)
(***************************************************************************)
Cons(s, c) == <<s>> \o c

HookOf(v) == St("hook", Null, v)
SetRunning(k, v) == St("setRunning", k, v)
SetValue(k) == St("setValue", k, "READY")
CancelTask(k) == St("cancelTask", k, "READY")
CancelOwn == St("setOwn", Null, "CANCELLED")

\* What is left of a method or Runnable after one of its statements.
Ret == Cons(Return, <<>>)
Exec == Cons(Do("execute"), Ret)
GoOn(k) == Cons(SetState(k, "RUNNING"), Ret)
StartCall == Cons(Do("start"), Ret)
ResetThen(c) == Cons(Do("resetRest"), c)
Renew == Cons(Do("abandon"), Cons(Do("reset"), ResetThen(StartCall)))

\* What is left to do after the handlers that run now.
Rest == IF At("hook") THEN Tail(todo) ELSE todo

\* The FX thread is in the Runnable that announces RUNNING, before it does, ...
Takes(k) ==
  \/ Rest = StartRunnable(k)
  \/ Rest = Cons(SetRunning(k, "SCHEDULED"), GoOn(k)) /\ tstate[k] = "SCHEDULED"
  \/ Rest = GoOn(k)

\* ... or in the one that announces the outcome, before it does.
Succeeds(k) == Rest = Cons(SetState(k, "SUCCEEDED"), Ret)
Ends(k) == Rest = SucceedRunnable(k) \/ Succeeds(k) \/ Rest = FailRunnable(k)

\* It sets the other property after state, for a start, a Runnable or a cancel.
Runs(k) ==
  \/ Rest = Cons(SetRunning(k, "SCHEDULED"), Exec) /\ tstate[k] = "SCHEDULED" /\ k = task
  \/ Rest = Cons(SetRunning(k, "SCHEDULED"), GoOn(k)) /\ tstate[k] = "SCHEDULED"
  \/ \E v \in {"RUNNING", "SUCCEEDED", "FAILED"} :
       Rest = Cons(SetRunning(k, v), Ret) /\ tstate[k] = v
  \/ \E c \in {Ret, Renew} :
       Rest = Cons(SetRunning(k, "CANCELLED"), c) /\ tstate[k] = "CANCELLED" /\ k = task

Unbegun(k) == tstate[k] \in {"READY", "SCHEDULED", "CANCELLED"}

\* start(), or the Runnable of an off-FX start.
Starting ==
  \/ Rest = StartCall
  \/ Rest = OffFxRunnable /\ \A k \in Tasks : Unbegun(k)
  \/ task # Null /\ Rest = Cons(SetState(task, "SCHEDULED"), Exec) /\ Unbegun(task)
  \/ task # Null /\ Rest = Exec /\ tstate[task] # "READY"

\* cancel(), also as the first part of restart().
Cancelling ==
  \/ task # Null /\ \E c \in {Ret, Renew} : Rest = Cons(CancelTask(task), c)
  \/ task # Null /\ \E c \in {Ret, Renew} :
       Rest = Cons(SetState(task, "CANCELLED"), c) /\ fut[task] = "CANCELLED"
  \/ task # Null /\ Rest = Renew /\ fut[task] # "NEW"
  \/ task = Null /\ Rest = Cons(CancelOwn, Ret)

\* reset(), also as the second part of restart().
Resetting ==
  \E c \in {Ret, StartCall} :
    \/ Rest = Cons(Do("reset"), ResetThen(c))
    \/ Rest = ResetThen(c) /\ task = Null

Stage ==
  \/ Rest = <<>> \/ Rest = Ret
  \/ Starting \/ Cancelling \/ Resetting
  \/ \E k \in Tasks : Takes(k) \/ Ends(k) \/ Runs(k)

\* A handler runs in front of the rest.
Aside == todo = Rest \/ \E v \in States : todo = Cons(HookOf(v), Rest)
TodoInv == Stage /\ Aside

-----------------------------------------------------------------------------
(***************************************************************************)
(* The inductive invariant.                                                *)
(***************************************************************************)
Runnables ==
  {OffFxRunnable} \cup UNION {{StartRunnable(k), SucceedRunnable(k), FailRunnable(k)} : k \in Tasks}

TypeInv == TypeOK /\ queue \in Seq(Runnables)

\* All bindings are to the task in the field, but for the time in which reset()
\* has unbound the state and not yet the rest.
BindInv ==
  /\ stateBound = task
  /\ restBound # task => task = Null /\ Resetting
  /\ ownState \in {"READY", "CANCELLED"} /\ ownRunning = FALSE /\ ownValue = Null

StartDue(k) == Has(queue, StartRunnable(k)) \/ Takes(k)
EndDue(k) == Has(queue, SucceedRunnable(k)) \/ Has(queue, FailRunnable(k)) \/ Ends(k)

\* A task's Runnables are handed over once and in order, ...
OrderInv == \A k \in Tasks :
  /\ Single(queue, StartRunnable(k)) /\ (Takes(k) => ~Has(queue, StartRunnable(k)))
  /\ Single(queue, SucceedRunnable(k)) /\ Single(queue, FailRunnable(k))
  /\ ~(Has(queue, SucceedRunnable(k)) /\ Has(queue, FailRunnable(k)))
  /\ Ends(k) => /\ ~Has(queue, SucceedRunnable(k)) /\ ~Has(queue, FailRunnable(k))
                /\ ~Has(queue, StartRunnable(k))
  /\ Before(queue, StartRunnable(k), SucceedRunnable(k))
  /\ Before(queue, StartRunnable(k), FailRunnable(k))

\* ... the state of the task follows them, ...
StateInv == \A k \in Tasks :
  /\ wpc[k] = "new" => Unbegun(k) /\ ~StartDue(k) /\ ~EndDue(k)
  /\ wpc[k] = "queued" => tstate[k] \in {"SCHEDULED", "CANCELLED"} /\ ~StartDue(k) /\ ~EndDue(k)
  /\ wpc[k] = "call" => ~EndDue(k) /\ (StartDue(k) \/ tstate[k] \in {"RUNNING", "CANCELLED"})
  /\ wpc[k] # "new" => tstate[k] # "READY"
  /\ StartDue(k) => tstate[k] \in {"SCHEDULED", "CANCELLED"}
  /\ EndDue(k) => StartDue(k) \/ tstate[k] \in {"RUNNING", "CANCELLED"}

\* ... and the Runnable of an off-FX start comes before all of them.
OffFxInv ==
  Has(queue, OffFxRunnable) =>
    /\ Head(queue) = OffFxRunnable /\ Single(queue, OffFxRunnable)
    /\ \A k \in Tasks : Unbegun(k) /\ ~Takes(k) /\ ~Ends(k)

\* The FutureTask, the value and running follow the state.
TaskInv == \A k \in Tasks :
  /\ k > created => wpc[k] = "new" /\ tstate[k] = "READY"
  /\ tstate[k] = "CANCELLED" => fut[k] = "CANCELLED"
  /\ fut[k] \in {"NORMAL", "EXCEPTIONAL"} => wpc[k] = "end"
  /\ tstate[k] = "SUCCEEDED" \/ Succeeds(k) => tvalue[k]
  /\ \/ trunning[k] <=> tstate[k] \in {"SCHEDULED", "RUNNING"}
     \/ Runs(k)

\* A task that was let go of is cancelled or does not work any more.
LetGoInv == \A k \in Tasks :
  k # task /\ wpc[k] \in {"queued", "call"} => fut[k] = "CANCELLED"

\* Before the first start there is nothing to be started.
OnceInv == ~startedOnce => created = 0 /\ queue = <<>>

Inv ==
  /\ TypeInv /\ TodoInv /\ BindInv /\ OrderInv /\ StateInv /\ OffFxInv
  /\ TaskInv /\ LetGoInv /\ OnceInv

-----------------------------------------------------------------------------
(***************************************************************************)
(* Programs: what they begin with and what is left of them.                *)
(***************************************************************************)
Dos == {"setState", "setRunning", "setValue", "cancelTask", "execute", "schedule", "setOwn",
        "abandon", "reset", "resetRest", "start", "return", "hook"}
Stmt == [do : Dos, k : 0 .. MaxTasks, v : States]

LEMMA ConsFacts ==
  ASSUME NEW s \in Stmt, NEW c \in Seq(Stmt)
  PROVE  /\ Cons(s, c) \in Seq(Stmt) /\ Cons(s, c) # <<>>
         /\ Head(Cons(s, c)) = s /\ Tail(Cons(s, c)) = c
<1>1. Len(<<s>>) = 1 /\ <<s>>[1] = s /\ <<s>> \in Seq(Stmt)
  OBVIOUS
<1> DEFINE p == <<s>>
<1> HIDE DEF p
<1>2. /\ p \o c \in Seq(Stmt) /\ Len(p \o c) = 1 + Len(c) /\ (p \o c)[1] = s /\ Len(c) \in Nat
      /\ \A i \in 1 .. Len(c) : (p \o c)[1 + i] = c[i]
  BY <1>1, ConcatAt DEF p
<1> DEFINE r == p \o c
<1> HIDE DEF r
<1>3. r \in Seq(Stmt) /\ r # <<>> /\ Head(r) = s
  BY <1>2 DEF r
<1>4. Tail(r) \in Seq(Stmt) /\ Len(Tail(r)) = Len(c) /\ \A i \in 1 .. Len(c) : Tail(r)[i] = c[i]
  BY <1>2, <1>3, TailAt DEF r
<1>5. Tail(r) = c
  BY <1>4
<1> QED BY <1>3, <1>5 DEF Cons, p, r

LEMMA StatementTypes ==
  /\ Do("execute") \in Stmt /\ Do("schedule") \in Stmt /\ Do("abandon") \in Stmt
  /\ Do("reset") \in Stmt /\ Do("resetRest") \in Stmt /\ Do("start") \in Stmt
  /\ Return \in Stmt /\ CancelOwn \in Stmt
  /\ \A v \in States : HookOf(v) \in Stmt
  /\ \A k \in Tasks : /\ \A v \in States : SetState(k, v) \in Stmt /\ SetRunning(k, v) \in Stmt
                      /\ SetValue(k) \in Stmt /\ CancelTask(k) \in Stmt
<1>1. 0 \in 0 .. MaxTasks /\ Tasks \subseteq 0 .. MaxTasks
  BY BoundAssumption DEF Tasks
<1> QED BY <1>1 DEF Stmt, Dos, States, Ending, St, Do, Return, CancelOwn, HookOf, SetState, SetRunning,
                    SetValue, CancelTask, Null

LEMMA ProgramTypes ==
  /\ <<>> \in Seq(Stmt) /\ Ret \in Seq(Stmt) /\ Exec \in Seq(Stmt)
  /\ StartCall \in Seq(Stmt) /\ Renew \in Seq(Stmt)
  /\ \A c \in Seq(Stmt) : ResetThen(c) \in Seq(Stmt)
  /\ \A k \in Tasks : GoOn(k) \in Seq(Stmt)
<1>1. <<>> \in Seq(Stmt)
  OBVIOUS
<1>2. Ret \in Seq(Stmt)
  BY <1>1, ConsFacts, StatementTypes DEF Ret
<1>3. Exec \in Seq(Stmt) /\ StartCall \in Seq(Stmt)
  BY <1>2, ConsFacts, StatementTypes DEF Exec, StartCall
<1>4. \A c \in Seq(Stmt) : ResetThen(c) \in Seq(Stmt)
  BY ConsFacts, StatementTypes DEF ResetThen
<1>5. Cons(Do("reset"), ResetThen(StartCall)) \in Seq(Stmt)
  BY <1>3, <1>4, ConsFacts, StatementTypes
<1>6. Renew \in Seq(Stmt)
  BY <1>5, ConsFacts, StatementTypes DEF Renew
<1>7. \A k \in Tasks : SetState(k, "RUNNING") \in Stmt
  BY StatementTypes DEF States
<1>8. \A k \in Tasks : GoOn(k) \in Seq(Stmt)
  BY <1>2, <1>7, ConsFacts DEF GoOn
<1> QED BY <1>1, <1>2, <1>3, <1>4, <1>6, <1>8

\* Short programs, written out.
LEMMA Triples ==
  ASSUME NEW S, NEW a \in S, NEW b \in S, NEW c \in S
  PROVE  <<a>> \o <<>> = <<a>> /\ <<a>> \o <<b>> = <<a, b>> /\ <<a>> \o <<b, c>> = <<a, b, c>>
<1>1. ASSUME NEW p \in Seq(S), NEW q \in Seq(S), Len(p) = Len(q), \A i \in 1 .. Len(q) : p[i] = q[i]
      PROVE  p = q
  BY <1>1
<1>2. <<a>> \o <<>> = <<a>>
  OBVIOUS
<1>3. <<a>> \o <<b>> = <<a, b>>
  <2> DEFINE q == <<a, b>>
             p == <<a>> \o <<b>>
  <2>1. q \in Seq(S) /\ Len(q) = 2 /\ q[1] = a /\ q[2] = b
    OBVIOUS
  <2>2. p \in Seq(S) /\ Len(p) = 2 /\ p[1] = a /\ p[2] = b
    OBVIOUS
  <2> HIDE DEF p, q
  <2>3. p = q
    BY <2>1, <2>2, <1>1
  <2> QED BY <2>3 DEF p, q
<1>4. <<a>> \o <<b, c>> = <<a, b, c>>
  <2> DEFINE q == <<a, b, c>>
             p == <<a>> \o <<b, c>>
  <2>1. q \in Seq(S) /\ Len(q) = 3 /\ q[1] = a /\ q[2] = b /\ q[3] = c
    OBVIOUS
  <2>2. p \in Seq(S) /\ Len(p) = 3 /\ p[1] = a /\ p[2] = b /\ p[3] = c
    OBVIOUS
  <2> HIDE DEF p, q
  <2>3. p = q
    BY <2>1, <2>2, <1>1
  <2> QED BY <2>3 DEF p, q
<1> QED BY <1>2, <1>3, <1>4

\* The Runnables as programs.
LEMMA RunnableIs ==
  /\ OffFxRunnable = Cons(Do("schedule"), Exec)
  /\ \A k \in Tasks : /\ StartRunnable(k) = Cons(SetState(k, "SCHEDULED"), GoOn(k))
                      /\ SucceedRunnable(k) = Cons(SetValue(k), Cons(SetState(k, "SUCCEEDED"), Ret))
                      /\ FailRunnable(k) = Cons(SetState(k, "FAILED"), Ret)
<1>1. Ret = <<Return>>
  BY Triples DEF Ret, Cons
<1>2. ASSUME NEW a PROVE Cons(a, Ret) = <<a, Return>>
  <2> DEFINE S == {a, Return}
  <2>1. a \in S /\ Return \in S
    OBVIOUS
  <2> HIDE DEF S
  <2> QED BY <1>1, <2>1, Triples DEF Cons
<1>3. ASSUME NEW a, NEW b PROVE Cons(a, Cons(b, Ret)) = <<a, b, Return>>
  <2> DEFINE S == {a, b, Return}
  <2>1. a \in S /\ b \in S /\ Return \in S
    OBVIOUS
  <2> HIDE DEF S
  <2>2. Cons(a, Cons(b, Ret)) = <<a>> \o <<b, Return>>
    BY <1>2 DEF Cons
  <2> QED BY <2>1, <2>2, Triples
<1>4. OffFxRunnable = Cons(Do("schedule"), Exec)
  BY <1>3 DEF OffFxRunnable, Exec
<1> QED BY <1>2, <1>3, <1>4 DEF StartRunnable, SucceedRunnable, FailRunnable, GoOn, SetValue

-----------------------------------------------------------------------------
(***************************************************************************)
(* Where the FX thread can be when it executes a given statement.          *)
(***************************************************************************)
\* The statement sets the state of k to v, and c follows.
Sets(k, v, c) ==
  \/ v = "SCHEDULED" /\ c = Exec /\ k = task /\ Unbegun(k)
  \/ v = "SCHEDULED" /\ c = GoOn(k) /\ Takes(k)
  \/ v = "RUNNING" /\ c = Ret /\ Takes(k)
  \/ v = "SUCCEEDED" /\ c = Ret /\ Succeeds(k) /\ Ends(k)
  \/ v = "FAILED" /\ c = Ret /\ Ends(k)
  \/ v = "CANCELLED" /\ c \in {Ret, Renew} /\ k = task /\ fut[k] = "CANCELLED"

\* What is left, by the statement that comes next.
ByHead(d) ==
  /\ d \in Dos \ {"hook"}
  /\ d = "return" => Rest = Ret
  /\ d = "start" => Rest = StartCall
  /\ d = "schedule" => Rest = OffFxRunnable /\ \A k \in Tasks : Unbegun(k)
  /\ d = "execute" => Rest = Exec /\ task # Null /\ tstate[task] # "READY"
  /\ d = "setState" => \E k \in Tasks, v \in States, c \in Seq(Stmt) :
                         Rest = Cons(SetState(k, v), c) /\ Sets(k, v, c)
  /\ d = "setRunning" => \E k \in Tasks : Runs(k)
  /\ d = "setValue" => \E k \in Tasks : Rest = SucceedRunnable(k)
  /\ d = "cancelTask" => task # Null /\ \E c \in {Ret, Renew} : Rest = Cons(CancelTask(task), c)
  /\ d = "abandon" => Rest = Renew /\ task # Null /\ fut[task] # "NEW"
  /\ d = "setOwn" => Rest = Cons(CancelOwn, Ret) /\ task = Null
  /\ d = "reset" => \E c \in {Ret, StartCall} : Rest = Cons(Do("reset"), ResetThen(c))
  /\ d = "resetRest" => task = Null /\ \E c \in {Ret, StartCall} : Rest = ResetThen(c)

LEMMA DoIs ==
  /\ \A d, k, v : St(d, k, v).do = d /\ St(d, k, v).k = k /\ St(d, k, v).v = v
  /\ \A d : Do(d).do = d
  /\ Return.do = "return" /\ CancelOwn.do = "setOwn"
  /\ \A v : HookOf(v).do = "hook"
  /\ \A k, v : /\ SetState(k, v).do = "setState" /\ SetState(k, v).k = k /\ SetState(k, v).v = v
              /\ SetRunning(k, v).do = "setRunning"
              /\ SetRunning(k, v).k = k /\ SetRunning(k, v).v = v
  /\ \A k : /\ SetValue(k).do = "setValue" /\ SetValue(k).k = k
           /\ CancelTask(k).do = "cancelTask" /\ CancelTask(k).k = k
BY DEF St, Do, Return, CancelOwn, HookOf, SetState, SetRunning, SetValue, CancelTask

LEMMA Cases ==
  ASSUME TypeInv, Stage, Rest # <<>>
  PROVE  Rest \in Seq(Stmt) /\ ByHead(Head(Rest).do)
<1> DEFINE d == Head(Rest).do
<1> USE DEF Dos
<1>t. task # Null => task \in Tasks
  BY BoundAssumption DEF TypeInv, TypeOK, Tasks, Null
<1>s. {"READY", "SCHEDULED", "RUNNING", "SUCCEEDED", "FAILED", "CANCELLED"} \subseteq States
  BY DEF States, Ending
<1>1. CASE Rest = Ret
  <2>1. Rest \in Seq(Stmt) /\ d = "return"
    BY <1>1, ConsFacts, StatementTypes, ProgramTypes, DoIs DEF Ret
  <2> QED BY <1>1, <2>1 DEF ByHead
<1>2. CASE Starting
  <2>1. CASE Rest = StartCall
    <3>1. Rest \in Seq(Stmt) /\ d = "start"
      BY <2>1, ConsFacts, StatementTypes, ProgramTypes, DoIs, ZenonT(30) DEF StartCall
    <3> QED BY <2>1, <3>1 DEF ByHead
  <2>2. CASE Rest = OffFxRunnable /\ \A k \in Tasks : Unbegun(k)
    <3>1. Rest \in Seq(Stmt) /\ d = "schedule"
      BY <2>2, ConsFacts, StatementTypes, ProgramTypes, DoIs, RunnableIs, ZenonT(30)
    <3> QED BY <2>2, <3>1 DEF ByHead
  <2>3. CASE task # Null /\ Rest = Cons(SetState(task, "SCHEDULED"), Exec) /\ Unbegun(task)
    <3>0. SetState(task, "SCHEDULED") \in Stmt /\ Exec \in Seq(Stmt)
      BY <2>3, <1>t, <1>s, StatementTypes, ProgramTypes
    <3>h. Rest \in Seq(Stmt) /\ Head(Rest) = SetState(task, "SCHEDULED")
      BY <2>3, <3>0, ConsFacts
    <3>1. Rest \in Seq(Stmt) /\ d = "setState"
      BY <3>h DEF SetState, St
    <3>2. Sets(task, "SCHEDULED", Exec)
      BY <2>3 DEF Sets
    <3> QED BY <2>3, <3>1, <3>2, <1>t, <1>s, ProgramTypes DEF ByHead
  <2>4. CASE task # Null /\ Rest = Exec /\ tstate[task] # "READY"
    <3>1. Rest \in Seq(Stmt) /\ d = "execute"
      BY <2>4, ConsFacts, StatementTypes, ProgramTypes, DoIs, ZenonT(30) DEF Exec
    <3> QED BY <2>4, <3>1 DEF ByHead
  <2> QED BY <1>2, <2>1, <2>2, <2>3, <2>4 DEF Starting
<1>3. CASE Cancelling
  <2>1. CASE task # Null /\ \E c \in {Ret, Renew} : Rest = Cons(CancelTask(task), c)
    <3>0. CancelTask(task) \in Stmt /\ {Ret, Renew} \subseteq Seq(Stmt)
      BY <2>1, <1>t, StatementTypes, ProgramTypes
    <3>h. Rest \in Seq(Stmt) /\ Head(Rest) = CancelTask(task)
      BY <2>1, <3>0, ConsFacts
    <3>1. Rest \in Seq(Stmt) /\ d = "cancelTask"
      BY <3>h DEF CancelTask, St
    <3> QED BY <2>1, <3>1 DEF ByHead
  <2>2. ASSUME task # Null, NEW c \in {Ret, Renew}, fut[task] = "CANCELLED",
               Rest = Cons(SetState(task, "CANCELLED"), c)
        PROVE  Rest \in Seq(Stmt) /\ ByHead(d)
    <3>0. SetState(task, "CANCELLED") \in Stmt /\ c \in Seq(Stmt)
      BY <2>2, <1>t, <1>s, StatementTypes, ProgramTypes
    <3>h. Rest \in Seq(Stmt) /\ Head(Rest) = SetState(task, "CANCELLED")
      BY <2>2, <3>0, ConsFacts
    <3>1. Rest \in Seq(Stmt) /\ d = "setState"
      BY <3>h DEF SetState, St
    <3>2. Sets(task, "CANCELLED", c)
      BY <2>2 DEF Sets
    <3> QED BY <2>2, <3>1, <3>2, <1>t, <1>s, ProgramTypes DEF ByHead
  <2>3. CASE task # Null /\ Rest = Renew /\ fut[task] # "NEW"
    <3>0. Cons(Do("reset"), ResetThen(StartCall)) \in Seq(Stmt)
      BY ConsFacts, StatementTypes, ProgramTypes
    <3>1. Rest \in Seq(Stmt) /\ d = "abandon"
      BY <2>3, <3>0, ConsFacts, StatementTypes, DoIs, ZenonT(30) DEF Renew
    <3> QED BY <2>3, <3>1 DEF ByHead
  <2>4. CASE task = Null /\ Rest = Cons(CancelOwn, Ret)
    <3>1. Rest \in Seq(Stmt) /\ d = "setOwn"
      BY <2>4, ConsFacts, StatementTypes, ProgramTypes, DoIs
    <3> QED BY <2>4, <3>1 DEF ByHead
  <2> QED BY <1>3, <2>1, <2>2, <2>3, <2>4 DEF Cancelling
<1>4. ASSUME NEW c \in {Ret, StartCall}, Rest = Cons(Do("reset"), ResetThen(c))
      PROVE  Rest \in Seq(Stmt) /\ ByHead(d)
  <2>0. Do("reset") \in Stmt /\ ResetThen(c) \in Seq(Stmt)
    BY <1>4, StatementTypes, ProgramTypes
  <2>1. Rest \in Seq(Stmt) /\ d = "reset"
    BY <1>4, <2>0, ConsFacts, DoIs, ZenonT(30)
  <2> QED BY <1>4, <2>1 DEF ByHead
<1>5. ASSUME NEW c \in {Ret, StartCall}, Rest = ResetThen(c), task = Null
      PROVE  Rest \in Seq(Stmt) /\ ByHead(d)
  <2>0. Do("resetRest") \in Stmt /\ c \in Seq(Stmt)
    BY <1>5, StatementTypes, ProgramTypes
  <2>1. Rest \in Seq(Stmt) /\ d = "resetRest"
    BY <1>5, <2>0, ConsFacts, DoIs, ZenonT(30) DEF ResetThen
  <2> QED BY <1>5, <2>1 DEF ByHead
<1>6. ASSUME NEW k \in Tasks, Runs(k)
      PROVE  Rest \in Seq(Stmt) /\ ByHead(d)
  <2>1. PICK v \in States, c \in Seq(Stmt) : Rest = Cons(SetRunning(k, v), c)
    BY <1>6, <1>s, ProgramTypes DEF Runs
  <2>0. SetRunning(k, v) \in Stmt
    BY StatementTypes
  <2>h. Rest \in Seq(Stmt) /\ Head(Rest) = SetRunning(k, v)
    BY <2>0, <2>1, ConsFacts
  <2>2. Rest \in Seq(Stmt) /\ d = "setRunning"
    BY <2>h DEF SetRunning, St
  <2> QED BY <1>6, <2>2 DEF ByHead
<1>7. ASSUME NEW k \in Tasks, Takes(k) \/ Ends(k)
      PROVE  Rest \in Seq(Stmt) /\ ByHead(d)
  <2>1. CASE Rest = Cons(SetRunning(k, "SCHEDULED"), GoOn(k)) /\ tstate[k] = "SCHEDULED"
    BY <2>1, <1>6 DEF Runs
  <2>2. CASE Rest = SucceedRunnable(k)
    <3>0. SetValue(k) \in Stmt /\ SetState(k, "SUCCEEDED") \in Stmt /\ Ret \in Seq(Stmt)
      BY <1>s, StatementTypes, ProgramTypes
    <3>a. Cons(SetState(k, "SUCCEEDED"), Ret) \in Seq(Stmt)
      BY <3>0, ConsFacts
    <3>h. Rest \in Seq(Stmt) /\ Head(Rest) = SetValue(k)
      BY <2>2, <3>0, <3>a, RunnableIs, ConsFacts, ZenonT(30)
    <3>1. Rest \in Seq(Stmt) /\ d = "setValue"
      BY <3>h DEF SetValue, St
    <3> QED BY <2>2, <3>1 DEF ByHead
  <2>3. CASE Rest = StartRunnable(k) \/ Rest = GoOn(k) \/ Succeeds(k) \/ Rest = FailRunnable(k)
    <3>1. PICK v \in States, c \in Seq(Stmt) : Rest = Cons(SetState(k, v), c) /\ Sets(k, v, c)
      BY <2>3, <1>s, RunnableIs, ProgramTypes DEF Sets, Takes, Ends, Succeeds, GoOn
    <3>0. SetState(k, v) \in Stmt
      BY StatementTypes
    <3>h. Rest \in Seq(Stmt) /\ Head(Rest) = SetState(k, v)
      BY <3>0, <3>1, ConsFacts
    <3>2. Rest \in Seq(Stmt) /\ d = "setState"
      BY <3>h DEF SetState, St
    <3> QED BY <3>1, <3>2 DEF ByHead
  <2> QED BY <1>7, <2>1, <2>2, <2>3 DEF Takes, Ends
<1> QED BY <1>1, <1>2, <1>3, <1>4, <1>5, <1>6, <1>7 DEF Stage, Resetting

-----------------------------------------------------------------------------
(***************************************************************************)
(* What a statement leaves to be done.                                     *)
(***************************************************************************)
Plain(r) == r \in Seq(Stmt) /\ (r = <<>> \/ Head(r).do # "hook")
Goes(r) == todo' = r \/ \E v \in States : todo' = Cons(HookOf(v), r)

LEMMA PlainCons ==
  ASSUME NEW t \in Stmt, NEW c \in Seq(Stmt), t.do # "hook"
  PROVE  Plain(Cons(t, c))
BY ConsFacts DEF Plain

LEMMA PlainPrograms ==
  /\ Plain(<<>>) /\ Plain(Ret) /\ Plain(Exec) /\ Plain(StartCall) /\ Plain(Renew)
  /\ \A c \in Seq(Stmt) : Plain(ResetThen(c)) /\ Plain(Cons(Do("reset"), ResetThen(c)))
  /\ \A k \in Tasks : Plain(GoOn(k))
  /\ \A k \in Tasks, v \in States, c \in Seq(Stmt) :
       Plain(Cons(SetState(k, v), c)) /\ Plain(Cons(SetRunning(k, v), c))
<1>1. Plain(<<>>)
  BY DEF Plain
<1>2. Plain(Ret) /\ Plain(Exec) /\ Plain(StartCall)
  <2>1. Return.do # "hook" /\ Do("execute").do # "hook" /\ Do("start").do # "hook"
    BY DoIs
  <2>2. Plain(Ret)
    BY <2>1, PlainCons, StatementTypes, ProgramTypes DEF Ret
  <2>3. Plain(Exec)
    BY <2>1, PlainCons, StatementTypes, ProgramTypes DEF Exec
  <2>4. Plain(StartCall)
    BY <2>1, PlainCons, StatementTypes, ProgramTypes DEF StartCall
  <2> QED BY <2>2, <2>3, <2>4
<1>3. \A c \in Seq(Stmt) : Plain(ResetThen(c)) /\ Plain(Cons(Do("reset"), ResetThen(c)))
  <2>1. Do("reset").do # "hook" /\ Do("resetRest").do # "hook"
    BY DoIs
  <2> QED BY <2>1, PlainCons, StatementTypes, ProgramTypes DEF ResetThen
<1>4. Plain(Renew)
  <2>1. Cons(Do("reset"), ResetThen(StartCall)) \in Seq(Stmt)
    BY <1>3, ProgramTypes DEF Plain
  <2> QED BY <2>1, PlainCons, StatementTypes, DoIs DEF Renew
<1>5. ASSUME NEW k \in Tasks, NEW v \in States, NEW c \in Seq(Stmt)
      PROVE  Plain(Cons(SetState(k, v), c)) /\ Plain(Cons(SetRunning(k, v), c))
  <2>1. SetState(k, v) \in Stmt /\ SetRunning(k, v) \in Stmt
    BY StatementTypes
  <2>2. SetState(k, v).do # "hook" /\ SetRunning(k, v).do # "hook"
    BY DEF SetState, SetRunning, St
  <2> QED BY <2>1, <2>2, PlainCons
<1>6. \A k \in Tasks : Plain(GoOn(k))
  <2>1. "RUNNING" \in States
    BY DEF States
  <2> QED BY <1>5, <2>1, ProgramTypes DEF GoOn
<1> QED BY <1>1, <1>2, <1>3, <1>4, <1>5, <1>6

LEMMA NextRest ==
  ASSUME NEW r, Plain(r), Goes(r)
  PROVE  Rest' = r /\ Aside'
<1>1. CASE todo' = r
  <2>1. ~At("hook")'
    BY <1>1 DEF At, Plain
  <2>2. Rest' = r
    BY <1>1, <2>1 DEF Rest
  <2> QED BY <1>1, <2>2 DEF Aside
<1>2. ASSUME NEW v \in States, todo' = Cons(HookOf(v), r)
      PROVE  Rest' = r /\ Aside'
  <2>1. HookOf(v) \in Stmt /\ r \in Seq(Stmt)
    BY StatementTypes DEF Plain
  <2>2. todo' # <<>> /\ Head(todo') = HookOf(v) /\ Tail(todo') = r
    BY <1>2, <2>1, ConsFacts
  <2>3. At("hook")'
    BY <2>2 DEF At, HookOf, St
  <2>4. Rest' = r
    BY <2>2, <2>3 DEF Rest
  <2> QED BY <1>2, <2>4 DEF Aside
<1> QED BY <1>1, <1>2 DEF Goes

LEMMA AtIs ==
  ASSUME TypeInv, TodoInv, NEW d \in Dos \ {"hook"}, At(d)
  PROVE  todo = Rest /\ Rest # <<>> /\ Rest \in Seq(Stmt) /\ ByHead(d)
<1>1. ~At("hook") /\ todo # <<>> /\ Head(todo).do = d
  BY DEF At
<1>2. todo = Rest
  BY <1>1 DEF Rest
<1> QED BY <1>1, <1>2, Cases DEF TodoInv

LEMMA ThenGoes ==
  ASSUME NEW s \in Stmt, NEW c \in Seq(Stmt), todo = Cons(s, c)
  PROVE  /\ Head(todo) = s
         /\ Then(<<>>) => Goes(c)
         /\ \A t \in Stmt : Then(<<t>>) => Goes(Cons(t, c))
         /\ \A v \in States : Then(HookOn(v)) => Goes(c)
         /\ \A v \in States, t \in Stmt : Then(HookOn(v) \o <<t>>) => Goes(Cons(t, c))
<1>1. Head(todo) = s /\ Tail(todo) = c
  BY ConsFacts
<1>2. <<>> \o c = c
  OBVIOUS
<1>3. \A v \in States : HookOn(v) = <<HookOf(v)>> \/ HookOn(v) = <<>>
  BY DEF HookOn, HookOf
<1>4. \A v \in States, t \in Stmt : (<<HookOf(v)>> \o <<t>>) \o c = Cons(HookOf(v), Cons(t, c))
  <2> SUFFICES ASSUME NEW v \in States, NEW t \in Stmt
               PROVE  (<<HookOf(v)>> \o <<t>>) \o c = <<HookOf(v)>> \o (<<t>> \o c)
    BY DEF Cons
  <2>1. <<HookOf(v)>> \in Seq(Stmt) /\ <<t>> \in Seq(Stmt)
    BY StatementTypes
  <2> QED BY <2>1
<1>5. \A t \in Stmt : <<>> \o <<t>> = <<t>>
  OBVIOUS
<1>6. Then(<<>>) => Goes(c)
  BY <1>1, <1>2 DEF Then, Goes
<1>7. \A t \in Stmt : Then(<<t>>) => Goes(Cons(t, c))
  BY <1>1 DEF Then, Goes, Cons
<1>8. \A v \in States : Then(HookOn(v)) => Goes(c)
  BY <1>1, <1>2, <1>3 DEF Then, Goes, Cons
<1>9. \A v \in States, t \in Stmt : Then(HookOn(v) \o <<t>>) => Goes(Cons(t, c))
  BY <1>1, <1>3, <1>4, <1>5, <1>7 DEF Then, Goes
<1> QED BY <1>1, <1>6, <1>7, <1>8, <1>9

\* A method that throws: it has one return, at its end.
OneReturn(r) ==
  /\ r \in Seq(Stmt) /\ Len(r) > 0 /\ r[Len(r)] = Return
  /\ \A i \in 1 .. Len(r) : r[i] = Return => i = Len(r)

LEMMA ReturnsOnce ==
  /\ OneReturn(Ret)
  /\ \A s \in Stmt, c \in Seq(Stmt) : OneReturn(c) /\ s # Return => OneReturn(Cons(s, c))
<1>1. OneReturn(Ret)
  <2>1. Ret = <<Return>>
    BY StatementTypes DEF Ret, Cons
  <2> QED BY <2>1, StatementTypes DEF OneReturn
<1>2. ASSUME NEW s \in Stmt, NEW c \in Seq(Stmt), OneReturn(c), s # Return
      PROVE  OneReturn(Cons(s, c))
  <2> DEFINE p == <<s>>
             r == p \o c
  <2>1. p \in Seq(Stmt) /\ Len(p) = 1 /\ p[1] = s
    OBVIOUS
  <2> HIDE DEF p
  <2>2. /\ r \in Seq(Stmt) /\ Len(r) = 1 + Len(c) /\ r[1] = s /\ Len(c) \in Nat
    BY <2>1, ConcatAt
  <2>6. \A i \in 1 .. Len(c) : r[1 + i] = c[i]
    BY <2>1, ConcatAt
  <2> HIDE DEF r
  <2>3. r[Len(r)] = Return
    BY <2>2, <2>6, <1>2 DEF OneReturn
  <2>4. ASSUME NEW i \in 1 .. Len(r), r[i] = Return PROVE i = Len(r)
    <3>1. i > 1
      BY <2>2, <2>4, <1>2
    <3>2. i - 1 \in 1 .. Len(c) /\ 1 + (i - 1) = i
      BY <2>2, <3>1
    <3>3. c[i - 1] = Return
      BY <2>4, <2>6, <3>2
    <3> QED BY <3>2, <3>3, <1>2, <2>2 DEF OneReturn
  <2>5. OneReturn(r)
    BY <2>2, <2>3, <2>4 DEF OneReturn
  <2> QED BY <2>5 DEF Cons, r, p
<1> QED BY <1>1, <1>2

LEMMA AbortGoes ==
  ASSUME OneReturn(todo), Abort
  PROVE  Goes(<<>>)
<1> DEFINE n == Len(todo)
           ends == {i \in DOMAIN todo : todo[i] = Return}
           end == CHOOSE i \in ends : \A j \in ends : i <= j
<1>1. ends = {n} /\ n \in Nat
  BY DEF OneReturn
<1>2. end = n
  BY <1>1
<1>3. todo' = SubSeq(todo, n + 1, n)
  BY <1>2 DEF Abort
<1>4. SubSeq(todo, n + 1, n) = <<>>
  BY <1>1 DEF OneReturn
<1> QED BY <1>3, <1>4 DEF Goes

\* What the methods that may throw look like.
LEMMA Throwing ==
  /\ OneReturn(StartCall) /\ OneReturn(OffFxRunnable)
  /\ \A c \in {Ret, StartCall} : OneReturn(Cons(Do("reset"), ResetThen(c)))
<1>1. /\ Do("start") # Return /\ Do("execute") # Return /\ Do("schedule") # Return
      /\ Do("reset") # Return /\ Do("resetRest") # Return
  BY DEF Do, Return, St
<1>2. OneReturn(StartCall) /\ OneReturn(Exec)
  BY <1>1, ReturnsOnce, StatementTypes, ProgramTypes DEF StartCall, Exec
<1>3. OneReturn(OffFxRunnable)
  BY <1>1, <1>2, ReturnsOnce, StatementTypes, ProgramTypes, RunnableIs
<1>4. \A c \in {Ret, StartCall} : OneReturn(ResetThen(c))
  BY <1>1, <1>2, ReturnsOnce, StatementTypes, ProgramTypes DEF ResetThen
<1>5. \A c \in {Ret, StartCall} : ResetThen(c) \in Seq(Stmt)
  BY ProgramTypes
<1> QED BY <1>1, <1>2, <1>3, <1>4, <1>5, ReturnsOnce, StatementTypes

-----------------------------------------------------------------------------
(***************************************************************************)
(* What each step of the FX thread does to what is left.                   *)
(***************************************************************************)
LEMMA SetStateEffect ==
  ASSUME TypeInv, TodoInv, TaskSetState
  PROVE  \E k \in Tasks, v \in States, c \in Seq(Stmt) :
           /\ Rest = Cons(SetState(k, v), c) /\ Sets(k, v, c) /\ Aside'
           /\ \/ /\ tstate[k] # "CANCELLED" /\ tstate' = [tstate EXCEPT ![k] = v]
                 /\ Rest' = Cons(SetRunning(k, v), c)
              \/ /\ tstate[k] = "CANCELLED" /\ tstate' = tstate /\ Rest' = c
<1>1. At("setState")
  BY DEF TaskSetState
<1>2. todo = Rest /\ ByHead("setState")
  BY <1>1, AtIs DEF Dos
<1>3. PICK k \in Tasks, v \in States, c \in Seq(Stmt) :
        Rest = Cons(SetState(k, v), c) /\ Sets(k, v, c)
  BY <1>2 DEF ByHead
<1>4. SetState(k, v) \in Stmt /\ SetRunning(k, v) \in Stmt
  BY StatementTypes
<1>5. Head(todo) = SetState(k, v)
  BY <1>2, <1>3, <1>4, ThenGoes
<1>6. Head(todo).k = k /\ Head(todo).v = v
  BY <1>5 DEF SetState, St
<1>7. Plain(Cons(SetRunning(k, v), c)) /\ Plain(c)
  BY <1>3, PlainPrograms DEF Sets
<1>8. CASE tstate[k] # "CANCELLED"
  <2>1. tstate' = [tstate EXCEPT ![k] = v]
    BY <1>6, <1>8 DEF TaskSetState
  <2>2. Then(HookOn(v) \o <<SetRunning(k, v)>>) \/ Then(<<SetRunning(k, v)>>)
    BY <1>6, <1>8 DEF TaskSetState, SetRunning
  <2>3. Goes(Cons(SetRunning(k, v), c))
    BY <1>2, <1>3, <1>4, <2>2, ThenGoes
  <2>4. Rest' = Cons(SetRunning(k, v), c) /\ Aside'
    BY <2>3, <1>7, NextRest
  <2> QED BY <1>3, <1>8, <2>1, <2>4
<1>9. CASE tstate[k] = "CANCELLED"
  <2>1. tstate' = tstate /\ Then(<<>>)
    BY <1>6, <1>9 DEF TaskSetState
  <2>2. Goes(c)
    BY <1>2, <1>3, <1>4, <2>1, ThenGoes
  <2>3. Rest' = c /\ Aside'
    BY <2>2, <1>7, NextRest
  <2> QED BY <1>3, <1>9, <2>1, <2>3
<1> QED BY <1>8, <1>9

\* What may follow running.set(...), after the state of k became v.
Follows(k, v, c) ==
  \/ v = "SCHEDULED" /\ c = Exec /\ k = task
  \/ v = "SCHEDULED" /\ c = GoOn(k)
  \/ v \in {"RUNNING", "SUCCEEDED", "FAILED"} /\ c = Ret
  \/ v = "CANCELLED" /\ c \in {Ret, Renew} /\ k = task

LEMMA SetRunningEffect ==
  ASSUME TypeInv, TodoInv, TaskSetRunning
  PROVE  \E k \in Tasks, v \in States, c \in Seq(Stmt) :
           /\ Rest = Cons(SetRunning(k, v), c) /\ Runs(k) /\ tstate[k] = v /\ Follows(k, v, c)
           /\ Rest' = c /\ Aside'
           /\ trunning' = [trunning EXCEPT ![k] = v \in {"SCHEDULED", "RUNNING"}]
<1>1. At("setRunning")
  BY DEF TaskSetRunning
<1>2. todo = Rest /\ ByHead("setRunning")
  BY <1>1, AtIs DEF Dos
<1>3. PICK k \in Tasks : Runs(k)
  BY <1>2 DEF ByHead
<1>4. {"SCHEDULED", "RUNNING", "SUCCEEDED", "FAILED", "CANCELLED"} \subseteq States
  BY DEF States, Ending
<1>5. PICK v \in States, c \in Seq(Stmt) :
        Rest = Cons(SetRunning(k, v), c) /\ tstate[k] = v /\ Follows(k, v, c)
  BY <1>3, <1>4, ProgramTypes DEF Runs, Follows
<1>6. SetRunning(k, v) \in Stmt
  BY StatementTypes
<1>7. Head(todo) = SetRunning(k, v) /\ Goes(c)
  BY <1>2, <1>5, <1>6, ThenGoes DEF TaskSetRunning
<1>8. Head(todo).k = k /\ Head(todo).v = v
  BY <1>7 DEF SetRunning, St
<1>9. Plain(c)
  BY <1>5, PlainPrograms DEF Follows
<1>10. Rest' = c /\ Aside'
  BY <1>7, <1>9, NextRest
<1>11. trunning' = [trunning EXCEPT ![k] = v \in {"SCHEDULED", "RUNNING"}]
  BY <1>8 DEF TaskSetRunning
<1> QED BY <1>3, <1>5, <1>10, <1>11

LEMMA SetValueEffect ==
  ASSUME TypeInv, TodoInv, TaskSetValue
  PROVE  \E k \in Tasks :
           /\ Rest = SucceedRunnable(k) /\ Rest' = Cons(SetState(k, "SUCCEEDED"), Ret) /\ Aside'
           /\ tvalue' = [tvalue EXCEPT ![k] = TRUE]
<1>1. todo = Rest /\ ByHead("setValue")
  BY AtIs DEF Dos, TaskSetValue
<1>2. PICK k \in Tasks : Rest = SucceedRunnable(k)
  BY <1>1 DEF ByHead
<1> DEFINE c == Cons(SetState(k, "SUCCEEDED"), Ret)
<1>3. "SUCCEEDED" \in States
  BY DEF States, Ending
<1>4. SetValue(k) \in Stmt /\ Plain(c) /\ c \in Seq(Stmt)
  BY <1>3, StatementTypes, PlainPrograms, ProgramTypes DEF Plain
<1>5. todo = Cons(SetValue(k), c)
  BY <1>1, <1>2, RunnableIs
<1> HIDE DEF c
<1>6. Head(todo) = SetValue(k) /\ Goes(c)
  BY <1>4, <1>5, ThenGoes DEF TaskSetValue
<1>7. Head(todo).k = k
  BY <1>6 DEF SetValue, St
<1>8. Rest' = c /\ Aside'
  BY <1>4, <1>6, NextRest
<1> QED BY <1>2, <1>7, <1>8 DEF TaskSetValue, c

LEMMA CancelEffect ==
  ASSUME TypeInv, TodoInv, TaskCancel
  PROVE  /\ task # Null /\ task \in Tasks /\ Aside'
         /\ \E c \in {Ret, Renew} :
              /\ Rest = Cons(CancelTask(task), c)
              /\ \/ /\ fut[task] = "NEW" /\ fut' = [fut EXCEPT ![task] = "CANCELLED"]
                    /\ Rest' = Cons(SetState(task, "CANCELLED"), c)
                 \/ /\ fut[task] # "NEW" /\ fut' = fut /\ Rest' = c
<1>1. todo = Rest /\ ByHead("cancelTask")
  BY AtIs DEF Dos, TaskCancel
<1>2. PICK c \in {Ret, Renew} : Rest = Cons(CancelTask(task), c)
  BY <1>1 DEF ByHead
<1>3. task # Null /\ task \in Tasks
  BY <1>1, BoundAssumption DEF ByHead, TypeInv, TypeOK, Tasks, Null
<1>4. "CANCELLED" \in States
  BY DEF States, Ending
<1>5. CancelTask(task) \in Stmt /\ SetState(task, "CANCELLED") \in Stmt /\ c \in Seq(Stmt)
  BY <1>3, <1>4, StatementTypes, ProgramTypes
<1>6. Plain(c) /\ Plain(Cons(SetState(task, "CANCELLED"), c))
  BY <1>3, <1>4, <1>5, PlainPrograms
<1>7. /\ Head(todo) = CancelTask(task) /\ (Then(<<>>) => Goes(c))
      /\ Then(<<SetState(task, "CANCELLED")>>) => Goes(Cons(SetState(task, "CANCELLED"), c))
  BY <1>1, <1>2, <1>5, ThenGoes
<1>8. Head(todo).k = task
  BY <1>7 DEF CancelTask, St
<1>9. CASE fut[task] = "NEW"
  <2>1. fut' = [fut EXCEPT ![task] = "CANCELLED"] /\ Then(<<SetState(task, "CANCELLED")>>)
    BY <1>8, <1>9 DEF TaskCancel
  <2>2. Rest' = Cons(SetState(task, "CANCELLED"), c) /\ Aside'
    BY <2>1, <1>6, <1>7, NextRest
  <2> QED BY <1>2, <1>3, <1>9, <2>1, <2>2
<1>10. CASE fut[task] # "NEW"
  <2>1. fut' = fut /\ Then(<<>>)
    BY <1>8, <1>10 DEF TaskCancel
  <2>2. Rest' = c /\ Aside'
    BY <2>1, <1>6, <1>7, NextRest
  <2> QED BY <1>2, <1>3, <1>10, <2>1, <2>2
<1> QED BY <1>9, <1>10

LEMMA ExecuteEffect ==
  ASSUME TypeInv, TodoInv, Execute
  PROVE  /\ Rest = Exec /\ Rest' = Ret /\ Aside' /\ task \in Tasks /\ tstate[task] # "READY"
         /\ wpc' = IF wpc[task] = "new" THEN [wpc EXCEPT ![task] = "queued"] ELSE wpc
<1>1. todo = Rest /\ ByHead("execute")
  BY AtIs DEF Dos, Execute
<1>2. Rest = Exec /\ task # Null /\ tstate[task] # "READY"
  BY <1>1 DEF ByHead
<1>3. task \in Tasks
  BY <1>2, BoundAssumption DEF TypeInv, TypeOK, Tasks, Null
<1>4. Goes(Ret)
  BY <1>1, <1>2, ThenGoes, StatementTypes, ProgramTypes DEF Execute, Exec
<1>5. Rest' = Ret /\ Aside'
  BY <1>4, NextRest, PlainPrograms
<1> QED BY <1>2, <1>3, <1>5 DEF Execute

LEMMA ScheduleEffect ==
  ASSUME TypeInv, TodoInv, Schedule
  PROVE  /\ Rest = OffFxRunnable /\ Aside' /\ \A k \in Tasks : Unbegun(k)
         /\ \/ task \in Tasks /\ Rest' = Cons(SetState(task, "SCHEDULED"), Exec)
            \/ task = Null /\ Rest' = <<>>
<1>1. todo = Rest /\ ByHead("schedule")
  BY AtIs DEF Dos, Schedule
<1>2. Rest = OffFxRunnable /\ \A k \in Tasks : Unbegun(k)
  BY <1>1 DEF ByHead
<1>3. todo = Cons(Do("schedule"), Exec)
  BY <1>1, <1>2, RunnableIs
<1>4. CASE task # Null
  <2>1. task \in Tasks
    BY <1>4, BoundAssumption DEF TypeInv, TypeOK, Tasks, Null
  <2>2. "SCHEDULED" \in States
    BY DEF States
  <2>3. SetState(task, "SCHEDULED") \in Stmt /\ Do("schedule") \in Stmt /\ Exec \in Seq(Stmt)
    BY <2>1, <2>2, StatementTypes, ProgramTypes
  <2>4. Then(<<SetState(task, "SCHEDULED")>>)
    BY <1>4 DEF Schedule
  <2>5. Goes(Cons(SetState(task, "SCHEDULED"), Exec))
    BY <1>3, <2>3, <2>4, ThenGoes
  <2>6. Plain(Cons(SetState(task, "SCHEDULED"), Exec))
    BY <2>1, <2>2, <2>3, PlainPrograms
  <2> QED BY <1>2, <2>1, <2>5, <2>6, NextRest
<1>5. CASE task = Null
  <2>1. Goes(<<>>)
    BY <1>1, <1>2, <1>5, AbortGoes, Throwing DEF Schedule
  <2> QED BY <1>2, <1>5, <2>1, NextRest, PlainPrograms
<1> QED BY <1>4, <1>5

LEMMA SetOwnEffect ==
  ASSUME TypeInv, TodoInv, SetOwnState
  PROVE  Rest = Cons(CancelOwn, Ret) /\ task = Null /\ Rest' = Ret /\ Aside' /\ ownState' = "CANCELLED"
<1>1. todo = Rest /\ ByHead("setOwn")
  BY AtIs DEF Dos, SetOwnState
<1>2. Rest = Cons(CancelOwn, Ret) /\ task = Null
  BY <1>1 DEF ByHead
<1>3. CancelOwn \in Stmt /\ Ret \in Seq(Stmt)
  BY StatementTypes, ProgramTypes
<1>4. Head(todo) = CancelOwn
  BY <1>1, <1>2, <1>3, ThenGoes
<1>5. Head(todo).v = "CANCELLED"
  BY <1>4 DEF CancelOwn, St
<1>6. Then(HookOn("CANCELLED")) /\ ownState' = "CANCELLED" /\ "CANCELLED" \in States
  BY <1>5 DEF SetOwnState, States, Ending
<1>7. Goes(Ret)
  BY <1>1, <1>2, <1>3, <1>6, ThenGoes
<1> QED BY <1>2, <1>6, <1>7, NextRest, PlainPrograms

LEMMA AbandonEffect ==
  ASSUME TypeInv, TodoInv, Abandon
  PROVE  /\ Rest = Renew /\ task \in Tasks /\ fut[task] # "NEW"
         /\ Rest' = Cons(Do("reset"), ResetThen(StartCall)) /\ Aside'
<1>1. todo = Rest /\ ByHead("abandon")
  BY AtIs DEF Dos, Abandon
<1>2. Rest = Renew /\ task # Null /\ fut[task] # "NEW"
  BY <1>1 DEF ByHead
<1>3. task \in Tasks
  BY <1>2, BoundAssumption DEF TypeInv, TypeOK, Tasks, Null
<1> DEFINE c == Cons(Do("reset"), ResetThen(StartCall))
<1>4. Plain(c) /\ c \in Seq(Stmt) /\ Do("abandon") \in Stmt
  BY PlainPrograms, ProgramTypes, StatementTypes DEF Plain
<1>5. todo = Cons(Do("abandon"), c)
  BY <1>1, <1>2 DEF Renew
<1> HIDE DEF c
<1>6. Then(HookOn("CANCELLED")) /\ "CANCELLED" \in States
  BY DEF Abandon, States, Ending
<1>7. Goes(c)
  BY <1>4, <1>5, <1>6, ThenGoes
<1>8. Rest' = c /\ Aside'
  BY <1>4, <1>7, NextRest
<1> QED BY <1>2, <1>3, <1>8 DEF c

LEMMA ResetStateEffect ==
  ASSUME TypeInv, TodoInv, ResetState
  PROVE  /\ Aside'
         /\ \E c \in {Ret, StartCall} :
              /\ Rest = Cons(Do("reset"), ResetThen(c))
              /\ \/ /\ state \in {"SCHEDULED", "RUNNING"} /\ Rest' = <<>>
                    /\ UNCHANGED <<task, stateBound, ownState>>
                 \/ /\ state \notin {"SCHEDULED", "RUNNING"} /\ Rest' = ResetThen(c)
                    /\ task' = Null /\ stateBound' = Null /\ ownState' = "READY"
<1>1. todo = Rest /\ ByHead("reset")
  BY AtIs DEF Dos, ResetState
<1>2. PICK c \in {Ret, StartCall} : Rest = Cons(Do("reset"), ResetThen(c))
  BY <1>1 DEF ByHead
<1>3. Plain(ResetThen(c)) /\ ResetThen(c) \in Seq(Stmt) /\ Do("reset") \in Stmt
  BY PlainPrograms, ProgramTypes, StatementTypes
<1>4. CASE state \in {"SCHEDULED", "RUNNING"}
  <2>1. Goes(<<>>) /\ UNCHANGED <<task, stateBound, ownState>>
    BY <1>1, <1>2, <1>4, AbortGoes, Throwing DEF ResetState
  <2> QED BY <1>2, <1>4, <2>1, NextRest, PlainPrograms
<1>5. CASE state \notin {"SCHEDULED", "RUNNING"}
  <2>1. Then(HookOn("READY")) /\ task' = Null /\ stateBound' = Null /\ ownState' = "READY"
    BY <1>5 DEF ResetState
  <2>2. "READY" \in States
    BY DEF States
  <2>3. Goes(ResetThen(c))
    BY <1>1, <1>2, <1>3, <2>1, <2>2, ThenGoes
  <2> QED BY <1>2, <1>3, <1>5, <2>1, <2>3, NextRest
<1> QED BY <1>4, <1>5

LEMMA ResetRestEffect ==
  ASSUME TypeInv, TodoInv, ResetRest
  PROVE  /\ Aside' /\ task = Null
         /\ \E c \in {Ret, StartCall} : Rest = ResetThen(c) /\ Rest' = c
<1>1. todo = Rest /\ ByHead("resetRest")
  BY AtIs DEF Dos, ResetRest
<1>2. PICK c \in {Ret, StartCall} : Rest = ResetThen(c)
  BY <1>1 DEF ByHead
<1>3. Plain(c) /\ c \in Seq(Stmt) /\ Do("resetRest") \in Stmt
  BY PlainPrograms, ProgramTypes, StatementTypes
<1>4. Goes(c)
  BY <1>1, <1>2, <1>3, ThenGoes DEF ResetThen, ResetRest
<1> QED BY <1>1, <1>2, <1>3, <1>4, NextRest DEF ByHead

LEMMA StartEffect ==
  ASSUME TypeInv, TodoInv, Start
  PROVE  /\ Rest = StartCall /\ Aside'
         /\ \/ state # "READY" /\ Rest' = <<>> /\ UNCHANGED <<taskVars, svVars>>
            \/ /\ state = "READY" /\ CreateAndBind /\ created' \in Tasks
               /\ Rest' = Cons(SetState(created', "SCHEDULED"), Exec)
<1>1. todo = Rest /\ ByHead("start")
  BY AtIs DEF Dos, Start
<1>2. Rest = StartCall
  BY <1>1 DEF ByHead
<1>3. CASE state # "READY"
  <2>1. Goes(<<>>) /\ UNCHANGED <<taskVars, svVars>>
    BY <1>1, <1>2, <1>3, AbortGoes, Throwing DEF Start
  <2> QED BY <1>2, <1>3, <2>1, NextRest, PlainPrograms
<1>4. CASE state = "READY"
  <2>1. CreateAndBind /\ Then(<<SetState(created', "SCHEDULED"), Do("execute")>>)
    BY <1>4 DEF Start
  <2>2. created' \in Tasks /\ "SCHEDULED" \in States
    BY <2>1, BoundAssumption DEF CreateAndBind, Tasks, TypeInv, TypeOK, States
  <2>3. PICK s \in Stmt : s = SetState(created', "SCHEDULED")
    BY <2>2, StatementTypes
  <2>4. Do("execute") \in Stmt /\ Do("start") \in Stmt /\ Ret \in Seq(Stmt)
    BY StatementTypes, ProgramTypes
  <2>5. Tail(todo) = Ret
    BY <1>1, <1>2, <2>4, ConsFacts DEF StartCall
  <2>6. <<s, Do("execute")>> \o Ret = <<s>> \o (<<Do("execute")>> \o Ret)
    <3>1. <<s, Do("execute")>> = <<s>> \o <<Do("execute")>>
      BY <2>4, Triples
    <3>2. <<s>> \in Seq(Stmt) /\ <<Do("execute")>> \in Seq(Stmt)
      BY <2>4
    <3>3. (<<s>> \o <<Do("execute")>>) \o Ret = <<s>> \o (<<Do("execute")>> \o Ret)
      BY <2>4, <3>2
    <3> QED BY <3>1, <3>3
  <2>7. Goes(Cons(SetState(created', "SCHEDULED"), Exec))
    BY <2>1, <2>3, <2>5, <2>6 DEF Then, Goes, Cons, Exec
  <2>8. Plain(Cons(SetState(created', "SCHEDULED"), Exec))
    BY <2>2, PlainPrograms, ProgramTypes
  <2> QED BY <1>2, <1>4, <2>1, <2>2, <2>7, <2>8, NextRest
<1> QED BY <1>3, <1>4

LEMMA ReturnEffect ==
  ASSUME TypeInv, TodoInv, MethodReturn
  PROVE  Rest = Ret /\ Rest' = <<>> /\ Aside'
<1>1. todo = Rest /\ ByHead("return")
  BY AtIs DEF Dos, MethodReturn
<1>2. Rest = Ret
  BY <1>1 DEF ByHead
<1>3. Goes(<<>>)
  BY <1>1, <1>2, ThenGoes, StatementTypes, ProgramTypes DEF Ret, MethodReturn
<1> QED BY <1>2, <1>3, NextRest, PlainPrograms

LEMMA HookEffect ==
  ASSUME TypeInv, TodoInv, Hook
  PROVE  Rest' = Rest /\ Aside'
<1>1. todo # <<>> /\ Rest = Tail(todo) /\ todo' = <<>> \o Tail(todo)
  BY DEF Hook, At, Rest, Then
<1>2. Plain(Rest)
  <2>1. CASE Rest = <<>>
    BY <2>1, PlainPrograms
  <2>2. CASE Rest # <<>>
    BY <2>2, Cases DEF TodoInv, ByHead, Plain
  <2> QED BY <2>1, <2>2
<1>3. todo' = Rest
  BY <1>1, <1>2 DEF Plain
<1> QED BY <1>2, <1>3, NextRest DEF Goes

\* What the FX thread takes from the queue is a Runnable, in full.
LEMMA TakeEffect ==
  ASSUME TypeInv, FxTake
  PROVE  /\ todo = <<>> /\ Rest = <<>> /\ Rest' = Head(queue) /\ Aside'
         /\ queue # <<>> /\ queue' = Tail(queue)
         /\ \/ Head(queue) = OffFxRunnable
            \/ \E k \in Tasks : Head(queue) \in {StartRunnable(k), SucceedRunnable(k), FailRunnable(k)}
<1>1. Rest = <<>>
  BY DEF FxTake, Rest, At
<1>2. \/ Head(queue) = OffFxRunnable
      \/ \E k \in Tasks : Head(queue) \in {StartRunnable(k), SucceedRunnable(k), FailRunnable(k)}
  <2>1. Head(queue) \in Runnables
    BY TailAt DEF FxTake, TypeInv
  <2> QED BY <2>1 DEF Runnables
<1>3. "SCHEDULED" \in States /\ "SUCCEEDED" \in States /\ "FAILED" \in States
  BY DEF States, Ending
<1>4. Plain(Head(queue))
  <2>1. Plain(OffFxRunnable)
    <3>1. Do("schedule").do # "hook"
      BY DoIs
    <3> QED BY <3>1, RunnableIs, PlainCons, StatementTypes, ProgramTypes
  <2>2. ASSUME NEW k \in Tasks PROVE Plain(SucceedRunnable(k))
    <3>1. SetValue(k).do # "hook" /\ SetValue(k) \in Stmt
      BY StatementTypes DEF SetValue, St
    <3>2. Cons(SetState(k, "SUCCEEDED"), Ret) \in Seq(Stmt)
      BY <1>3, PlainPrograms, ProgramTypes DEF Plain
    <3> QED BY <3>1, <3>2, RunnableIs, PlainCons
  <2>3. ASSUME NEW k \in Tasks PROVE Plain(StartRunnable(k)) /\ Plain(FailRunnable(k))
    BY <1>3, RunnableIs, PlainPrograms, ProgramTypes
  <2> QED BY <1>2, <2>1, <2>2, <2>3
<1>5. Goes(Head(queue))
  BY DEF FxTake, Goes
<1> QED BY <1>1, <1>2, <1>4, <1>5, NextRest DEF FxTake

\* The methods of the Service, as programs.
LEMMA PairCons ==
  ASSUME NEW a \in Stmt, NEW b \in Stmt, NEW c \in Seq(Stmt)
  PROVE  <<a, b>> \o c = Cons(a, Cons(b, c))
<1>1. <<a, b>> = <<a>> \o <<b>>
  BY Triples
<1>2. (<<a>> \o <<b>>) \o c = <<a>> \o (<<b>> \o c)
  OBVIOUS
<1> QED BY <1>1, <1>2 DEF Cons

LEMMA TripleCons ==
  ASSUME NEW a \in Stmt, NEW b \in Stmt, NEW d \in Stmt, NEW c \in Seq(Stmt)
  PROVE  <<a, b, d>> \o c = Cons(a, Cons(b, Cons(d, c)))
<1>1. <<a, b, d>> = <<a>> \o <<b, d>>
  BY Triples
<1>2. (<<a>> \o <<b, d>>) \o c = <<a>> \o (<<b, d>> \o c)
  OBVIOUS
<1>3. <<b, d>> \o c = Cons(b, Cons(d, c))
  BY PairCons
<1> QED BY <1>1, <1>2, <1>3 DEF Cons

LEMMA CallEffect ==
  ASSUME NoHandlerCalls, TypeInv, NEW m \in Methods, Call(m)
  PROVE  /\ todo = <<>> /\ Rest = <<>> /\ Aside'
         /\ \/ Rest' = StartCall \/ Rest' = Ret
            \/ \E c \in {Ret, StartCall} : Rest' = Cons(Do("reset"), ResetThen(c))
            \/ task \in Tasks /\ \E c \in {Ret, Renew} : Rest' = Cons(CancelTask(task), c)
            \/ task = Null /\ Rest' = Cons(CancelOwn, Ret)
<1>1. todo = <<>>
  BY DEF Call, NoHandlerCalls
<1>2. Rest = <<>>
  BY <1>1 DEF Rest, At
<1>3. Ret = <<Return>> /\ Ret \in Seq(Stmt)
  BY ProgramTypes DEF Ret, Cons
<1>t. task # Null => task \in Tasks
  BY BoundAssumption DEF TypeInv, TypeOK, Tasks, Null
<1>s. /\ Do("start") \in Stmt /\ Do("reset") \in Stmt /\ Do("resetRest") \in Stmt
      /\ Do("abandon") \in Stmt /\ CancelOwn \in Stmt /\ Return \in Stmt
      /\ task # Null => CancelTask(task) \in Stmt
  BY <1>t, StatementTypes
\* What follows a body.
<1>4. ASSUME NEW p \in Seq(Stmt), Body(m) = p, Plain(p \o Ret)
      PROVE  Rest' = p \o Ret /\ Aside'
  <2>1. (p \o <<Return>>) \o <<>> = p \o <<Return>>
    BY <1>4, <1>3
  <2>2. todo' = p \o Ret
    BY <1>1, <1>3, <1>4, <2>1 DEF Call
  <2> QED BY <1>4, <2>2, NextRest DEF Goes
<1>5. CASE m = "start"
  <2>1. Body(m) = <<Do("start")>> /\ <<Do("start")>> \o Ret = StartCall
    BY <1>5 DEF Body, StartCall, Cons
  <2>2. <<Do("start")>> \in Seq(Stmt)
    BY <1>s
  <2>3. Rest' = StartCall /\ Aside'
    BY <1>4, <2>1, <2>2, PlainPrograms
  <2> QED BY <1>1, <1>2, <2>3
<1>6. CASE m = "reset"
  <2> DEFINE p == <<Do("reset"), Do("resetRest")>>
  <2>1. Body(m) = p /\ p \in Seq(Stmt)
    BY <1>6, <1>s DEF Body
  <2>2. p \o Ret = Cons(Do("reset"), ResetThen(Ret))
    BY <1>s, <1>3, PairCons DEF ResetThen
  <2>3. Rest' = Cons(Do("reset"), ResetThen(Ret)) /\ Aside'
    <3> HIDE DEF p
    <3> QED BY <1>3, <1>4, <2>1, <2>2, PlainPrograms
  <2> QED BY <1>1, <1>2, <2>3
<1>7. CASE m = "cancel"
  <2>1. CASE task # Null
    <3> DEFINE p == <<CancelTask(task)>>
    <3>1. Body(m) = p /\ p \in Seq(Stmt) /\ p \o Ret = Cons(CancelTask(task), Ret)
      BY <1>7, <1>s, <2>1 DEF Body, Cons, CancelTask
    <3>2. CancelTask(task).do # "hook"
      BY DEF CancelTask, St
    <3>3. Plain(Cons(CancelTask(task), Ret))
      BY <3>2, <2>1, <1>3, <1>s, PlainCons
    <3>4. Rest' = Cons(CancelTask(task), Ret) /\ Aside'
      <4> HIDE DEF p
      <4> QED BY <1>4, <3>1, <3>3
    <3> QED BY <1>1, <1>2, <1>t, <2>1, <3>4
  <2>2. CASE task = Null /\ state \in {"CANCELLED", "SUCCEEDED"}
    <3>1. Body(m) = <<>>
      BY <1>7, <2>2 DEF Body
    <3>2. <<>> \o Ret = Ret
      BY <1>3
    <3>3. Rest' = Ret /\ Aside'
      BY <1>4, <3>1, <3>2, ProgramTypes, PlainPrograms
    <3> QED BY <1>1, <1>2, <3>3
  <2>3. CASE task = Null /\ state \notin {"CANCELLED", "SUCCEEDED"}
    <3> DEFINE p == <<CancelOwn>>
    <3>1. Body(m) = p /\ p \in Seq(Stmt) /\ p \o Ret = Cons(CancelOwn, Ret)
      BY <1>7, <1>s, <2>3 DEF Body, Cons, CancelOwn
    <3>2. CancelOwn.do # "hook"
      BY DEF CancelOwn, St
    <3>3. Plain(Cons(CancelOwn, Ret))
      BY <3>2, <1>3, <1>s, PlainCons
    <3>4. Rest' = Cons(CancelOwn, Ret) /\ Aside'
      <4> HIDE DEF p
      <4> QED BY <1>4, <3>1, <3>3
    <3> QED BY <1>1, <1>2, <2>3, <3>4
  <2> QED BY <2>1, <2>2, <2>3
<1>8. CASE m = "restart"
  <2> DEFINE q == <<Do("reset"), Do("resetRest"), Do("start")>>
             r == Cons(Do("reset"), ResetThen(StartCall))
  <2>1. q \in Seq(Stmt) /\ Body(m) = CancelAndLetGo \o q
    BY <1>8, <1>s DEF Body
  <2>2. q \o Ret = r
    <3>1. q \o Ret = Cons(Do("reset"), Cons(Do("resetRest"), Cons(Do("start"), Ret)))
      BY <1>s, ProgramTypes, TripleCons
    <3> QED BY <3>1 DEF ResetThen, StartCall
  <2>3. Plain(r) /\ r \in Seq(Stmt)
    BY PlainPrograms, ProgramTypes DEF Plain
  <2> HIDE DEF q, r
  <2>4. CASE task = Null
    <3>1. CancelAndLetGo = <<>> /\ <<>> \o q = q
      BY <2>1, <2>4 DEF CancelAndLetGo
    <3>2. Rest' = r /\ Aside'
      BY <1>4, <2>1, <2>2, <2>3, <3>1
    <3> QED BY <1>1, <1>2, <3>2 DEF r
  <2>5. CASE task # Null
    <3> DEFINE p == <<CancelTask(task), Do("abandon")>>
    <3>1. CancelAndLetGo = p
      BY <2>5 DEF CancelAndLetGo, CancelTask
    <3>2. p \in Seq(Stmt) /\ p \o r = Cons(CancelTask(task), Cons(Do("abandon"), r))
      BY <1>s, <2>3, <2>5, PairCons
    <3> HIDE DEF p
    <3>3. (p \o q) \o Ret = p \o (q \o Ret) /\ p \o q \in Seq(Stmt)
      BY <3>2, <2>1, <1>3
    <3>4. (p \o q) \o Ret = Cons(CancelTask(task), Renew)
      BY <3>2, <3>3, <2>2 DEF Renew, r
    <3>5. CancelTask(task).do # "hook"
      BY DEF CancelTask, St
    <3>6. Plain(Cons(CancelTask(task), Renew))
      BY <3>5, <2>5, <1>s, ProgramTypes, PlainCons
    <3>7. Rest' = Cons(CancelTask(task), Renew) /\ Aside'
      BY <1>4, <2>1, <3>1, <3>3, <3>4, <3>6
    <3> QED BY <1>1, <1>2, <1>t, <2>5, <3>7
  <2> QED BY <2>4, <2>5
<1> QED BY <1>5, <1>6, <1>7, <1>8 DEF Methods

-----------------------------------------------------------------------------
(***************************************************************************)
(* Which task a program is about, from its first statement.                *)
(***************************************************************************)
LEMMA StatementsDiffer ==
  \A j, k, v, w :
    /\ SetState(k, v) = SetState(j, w) <=> k = j /\ v = w
    /\ SetRunning(k, v) = SetRunning(j, w) <=> k = j /\ v = w
    /\ SetValue(k) = SetValue(j) <=> k = j
    /\ SetState(k, v) # SetRunning(j, w) /\ SetState(k, v) # SetValue(j)
    /\ SetRunning(k, v) # SetValue(j)
BY DEF SetState, SetRunning, SetValue, St

LEMMA OthersDiffer ==
  \A t \in {Return, CancelOwn, Do("execute"), Do("schedule"), Do("abandon"), Do("reset"),
            Do("resetRest"), Do("start")} \cup {CancelTask(i) : i \in Tasks} :
    \A k, v : t # SetState(k, v) /\ t # SetRunning(k, v) /\ t # SetValue(k)
BY DEF Return, CancelOwn, Do, CancelTask, SetState, SetRunning, SetValue, St

LEMMA ProgramsDiffer ==
  /\ Ret # <<>> /\ Exec # Ret /\ Renew # Ret /\ Exec # Renew
  /\ \A k \in Tasks : GoOn(k) # Ret /\ GoOn(k) # Exec /\ GoOn(k) # Renew
  /\ \A j, k \in Tasks : GoOn(j) = GoOn(k) => j = k
<1>1. /\ Ret # <<>> /\ Head(Ret) = Return /\ Head(Exec) = Do("execute")
  BY ConsFacts, StatementTypes, ProgramTypes DEF Ret, Exec
<1>2. Head(Renew) = Do("abandon")
  <2>1. Cons(Do("reset"), ResetThen(StartCall)) \in Seq(Stmt)
    BY PlainPrograms, ProgramTypes DEF Plain
  <2> QED BY <2>1, ConsFacts, StatementTypes DEF Renew
<1>3. \A k \in Tasks : Head(GoOn(k)) = SetState(k, "RUNNING")
  <2>1. "RUNNING" \in States
    BY DEF States
  <2>2. \A k \in Tasks : SetState(k, "RUNNING") \in Stmt
    BY <2>1, StatementTypes
  <2> QED BY <2>2, ConsFacts, ProgramTypes DEF GoOn
<1>4. Return # Do("execute") /\ Return # Do("abandon") /\ Do("execute") # Do("abandon")
  BY DEF Return, Do, St
<1>5. \A k \in Tasks : /\ SetState(k, "RUNNING") # Return /\ SetState(k, "RUNNING") # Do("execute")
                       /\ SetState(k, "RUNNING") # Do("abandon")
  BY DEF SetState, Return, Do, St
<1>6. \A j, k \in Tasks : GoOn(j) = GoOn(k) => j = k
  BY <1>3, StatementsDiffer
<1> QED BY <1>1, <1>2, <1>3, <1>4, <1>5, <1>6

\* No task's Runnable is under way, nor a running.set(...).
Quiet(k) == ~Takes(k) /\ ~Ends(k) /\ ~Succeeds(k) /\ ~Runs(k)

Marks(s, c) ==
  \A k \in Tasks :
    /\ Takes(k) <=> \/ s = SetState(k, "SCHEDULED") /\ c = GoOn(k)
                    \/ s = SetRunning(k, "SCHEDULED") /\ c = GoOn(k) /\ tstate[k] = "SCHEDULED"
                    \/ s = SetState(k, "RUNNING") /\ c = Ret
    /\ Ends(k) <=> \/ s = SetValue(k) /\ c = Cons(SetState(k, "SUCCEEDED"), Ret)
                   \/ s \in {SetState(k, "SUCCEEDED"), SetState(k, "FAILED")} /\ c = Ret
    /\ Succeeds(k) <=> s = SetState(k, "SUCCEEDED") /\ c = Ret
    /\ Runs(k) <=> s = SetRunning(k, tstate[k]) /\ Follows(k, tstate[k], c)

MarksInv ==
  /\ Rest = <<>> => \A k \in Tasks : Quiet(k)
  /\ \A s \in Stmt, c \in Seq(Stmt) : Rest = Cons(s, c) => Marks(s, c)

LEMMA MarksHold == MarksInv
<1>1. ASSUME NEW s \in Stmt, NEW c \in Seq(Stmt), NEW t \in Stmt, NEW d \in Seq(Stmt)
      PROVE  Cons(s, c) = Cons(t, d) <=> s = t /\ c = d
  <2>1. ASSUME Cons(s, c) = Cons(t, d) PROVE s = t /\ c = d
    <3>1. Head(Cons(s, c)) = s /\ Tail(Cons(s, c)) = c
      BY ConsFacts
    <3>2. Head(Cons(t, d)) = t /\ Tail(Cons(t, d)) = d
      BY ConsFacts
    <3> QED BY <2>1, <3>1, <3>2
  <2> QED BY <2>1
<1>2. \A k \in Tasks : /\ \A v \in States : SetState(k, v) \in Stmt /\ SetRunning(k, v) \in Stmt
                       /\ SetValue(k) \in Stmt
  BY StatementTypes
<1>3. {"READY", "SCHEDULED", "RUNNING", "SUCCEEDED", "FAILED", "CANCELLED"} \subseteq States
  BY DEF States, Ending
<1>4. \A k \in Tasks : Cons(SetState(k, "SUCCEEDED"), Ret) \in Seq(Stmt)
  BY <1>2, <1>3, ProgramTypes, ConsFacts
<1>5. ASSUME NEW s \in Stmt, NEW c \in Seq(Stmt), Rest = Cons(s, c), NEW k \in Tasks
      PROVE  Takes(k) <=>
               \/ s = SetState(k, "SCHEDULED") /\ c = GoOn(k)
               \/ s = SetRunning(k, "SCHEDULED") /\ c = GoOn(k) /\ tstate[k] = "SCHEDULED"
               \/ s = SetState(k, "RUNNING") /\ c = Ret
  <2>1. Rest = StartRunnable(k) <=> s = SetState(k, "SCHEDULED") /\ c = GoOn(k)
    BY <1>1, <1>2, <1>3, <1>5, RunnableIs, ProgramTypes
  <2>2. Rest = Cons(SetRunning(k, "SCHEDULED"), GoOn(k))
          <=> s = SetRunning(k, "SCHEDULED") /\ c = GoOn(k)
    BY <1>1, <1>2, <1>3, <1>5, ProgramTypes
  <2>3. Rest = GoOn(k) <=> s = SetState(k, "RUNNING") /\ c = Ret
    BY <1>1, <1>2, <1>3, <1>5, ProgramTypes DEF GoOn
  <2> QED BY <2>1, <2>2, <2>3, Zenon DEF Takes
<1>6. ASSUME NEW s \in Stmt, NEW c \in Seq(Stmt), Rest = Cons(s, c), NEW k \in Tasks
      PROVE  /\ Ends(k) <=> \/ s = SetValue(k) /\ c = Cons(SetState(k, "SUCCEEDED"), Ret)
                            \/ s \in {SetState(k, "SUCCEEDED"), SetState(k, "FAILED")} /\ c = Ret
             /\ Succeeds(k) <=> s = SetState(k, "SUCCEEDED") /\ c = Ret
  <2>1. Rest = SucceedRunnable(k) <=> s = SetValue(k) /\ c = Cons(SetState(k, "SUCCEEDED"), Ret)
    BY <1>1, <1>2, <1>4, <1>6, RunnableIs
  <2>2. Rest = FailRunnable(k) <=> s = SetState(k, "FAILED") /\ c = Ret
    BY <1>1, <1>2, <1>3, <1>6, RunnableIs, ProgramTypes
  <2>3. Succeeds(k) <=> s = SetState(k, "SUCCEEDED") /\ c = Ret
    BY <1>1, <1>2, <1>3, <1>6, ProgramTypes DEF Succeeds
  <2> QED BY <2>1, <2>2, <2>3, Zenon DEF Ends
<1>7. ASSUME NEW s \in Stmt, NEW c \in Seq(Stmt), Rest = Cons(s, c), NEW k \in Tasks
      PROVE  Runs(k) <=> s = SetRunning(k, tstate[k]) /\ Follows(k, tstate[k], c)
  <2>1. \A v \in States, d \in {Exec, GoOn(k), Ret, Renew} :
          Rest = Cons(SetRunning(k, v), d) <=> s = SetRunning(k, v) /\ c = d
    BY <1>1, <1>2, <1>7, ProgramTypes
  <2> HIDE DEF Null
  <2>2. Runs(k) => s = SetRunning(k, tstate[k]) /\ Follows(k, tstate[k], c)
    BY <2>1, <1>3 DEF Runs, Follows
  <2>3. s = SetRunning(k, tstate[k]) /\ Follows(k, tstate[k], c) => Runs(k)
    BY <2>1, <1>3 DEF Runs, Follows
  <2> QED BY <2>2, <2>3
<1>8. ASSUME Rest = <<>>, NEW k \in Tasks PROVE Quiet(k)
  <2>1. \A v \in States, d \in {Exec, GoOn(k), Ret, Renew} :
          /\ Cons(SetState(k, v), d) # <<>> /\ Cons(SetRunning(k, v), d) # <<>>
    BY <1>2, ConsFacts, ProgramTypes
  <2>2. Cons(SetValue(k), Cons(SetState(k, "SUCCEEDED"), Ret)) # <<>>
    BY <1>2, <1>4, ConsFacts
  <2>3. ~Takes(k)
    BY <1>8, <1>3, <2>1, RunnableIs DEF Takes, GoOn
  <2>4. ~Ends(k) /\ ~Succeeds(k)
    BY <1>8, <1>3, <2>1, <2>2, RunnableIs DEF Ends, Succeeds
  <2>5. ~Runs(k)
    BY <1>8, <1>3, <2>1 DEF Runs
  <2> QED BY <2>3, <2>4, <2>5 DEF Quiet
<1> QED BY <1>5, <1>6, <1>7, <1>8, Zenon DEF MarksInv, Marks

LEMMA MarksNext == MarksInv'
BY MarksHold, PTL

\* T, E, S and R are the tasks that the program is about, in the four ways.
About(T, E, S, R) ==
  \A k \in Tasks :
    /\ Takes(k) <=> k \in T
    /\ Ends(k) <=> k \in E
    /\ Succeeds(k) <=> k \in S
    /\ Runs(k) <=> k \in R

AboutInv ==
  /\ Rest \in {<<>>, Ret, Exec, StartCall, Renew, OffFxRunnable, Cons(CancelOwn, Ret)}
       => About({}, {}, {}, {})
  /\ \A c \in Seq(Stmt) : Rest \in {ResetThen(c), Cons(Do("reset"), ResetThen(c))}
       => About({}, {}, {}, {})
  /\ \A i \in Tasks, c \in Seq(Stmt) : Rest = Cons(CancelTask(i), c) => About({}, {}, {}, {})
  /\ \A i \in Tasks : Rest = Cons(SetState(i, "SCHEDULED"), Exec) => About({}, {}, {}, {})
  /\ \A i \in Tasks, c \in {Ret, Renew} :
       Rest = Cons(SetState(i, "CANCELLED"), c) => About({}, {}, {}, {})
  /\ \A i \in Tasks :
       /\ Rest \in {StartRunnable(i), GoOn(i)} => About({i}, {}, {}, {})
       /\ Rest \in {SucceedRunnable(i), FailRunnable(i)} => About({}, {i}, {}, {})
       /\ Rest = Cons(SetState(i, "SUCCEEDED"), Ret) => About({}, {i}, {i}, {})
       /\ Rest = Cons(SetRunning(i, "SCHEDULED"), GoOn(i)) /\ tstate[i] = "SCHEDULED"
            => About({i}, {}, {}, {i})
  /\ \A i \in Tasks, v \in States, c \in {Exec, Ret, Renew} :
       Rest = Cons(SetRunning(i, v), c) /\ tstate[i] = v /\ Follows(i, v, c)
            => About({}, {}, {}, {i})

LEMMA AboutHolds == AboutInv
<1>a. Rest = <<>> => About({}, {}, {}, {})
  BY MarksHold DEF MarksInv, Quiet, About
<1>b. {"READY", "SCHEDULED", "RUNNING", "SUCCEEDED", "FAILED", "CANCELLED"} \subseteq States
  BY DEF States, Ending
<1>c. ASSUME NEW t \in {Return, CancelOwn, Do("execute"), Do("schedule"), Do("abandon"), Do("reset"),
                        Do("resetRest"), Do("start")} \cup {CancelTask(i) : i \in Tasks},
             NEW c \in Seq(Stmt), Rest = Cons(t, c)
      PROVE  About({}, {}, {}, {})
  <2>1. t \in Stmt
    BY StatementTypes
  <2>2. Marks(t, c)
    BY <1>c, <2>1, MarksHold DEF MarksInv
  <2>3. \A k, v : t # SetState(k, v) /\ t # SetRunning(k, v) /\ t # SetValue(k)
    BY OthersDiffer
  <2> QED BY <2>2, <2>3 DEF Marks, About
<1>1. Rest \in {Ret, Exec, StartCall, Renew, OffFxRunnable, Cons(CancelOwn, Ret)}
       => About({}, {}, {}, {})
  <2>1. Cons(Do("reset"), ResetThen(StartCall)) \in Seq(Stmt)
    BY PlainPrograms, ProgramTypes DEF Plain
  <2>2. Rest \in {Ret, Exec, StartCall, Cons(CancelOwn, Ret)} => About({}, {}, {}, {})
    BY <1>c, ProgramTypes DEF Ret, Exec, StartCall
  <2>3. Rest = Renew => About({}, {}, {}, {})
    BY <1>c, <2>1 DEF Renew
  <2>4. Rest = OffFxRunnable => About({}, {}, {}, {})
    BY <1>c, RunnableIs, ProgramTypes
  <2> QED BY <2>2, <2>3, <2>4
<1>2. ASSUME NEW c \in Seq(Stmt), Rest \in {ResetThen(c), Cons(Do("reset"), ResetThen(c))}
      PROVE  About({}, {}, {}, {})
  <2>1. ResetThen(c) \in Seq(Stmt)
    BY ProgramTypes
  <2> QED BY <1>2, <1>c, <2>1 DEF ResetThen
<1>3. ASSUME NEW i \in Tasks, NEW c \in Seq(Stmt), Rest = Cons(CancelTask(i), c)
      PROVE  About({}, {}, {}, {})
  BY <1>3, <1>c
<1>4. ASSUME NEW i \in Tasks, NEW v \in States, NEW c \in Seq(Stmt), Rest = Cons(SetState(i, v), c)
      PROVE  /\ c = Exec \/ (v = "CANCELLED" /\ c \in {Ret, Renew}) => About({}, {}, {}, {})
             /\ v = "SCHEDULED" /\ c = GoOn(i) => About({i}, {}, {}, {})
             /\ v = "RUNNING" /\ c = Ret => About({i}, {}, {}, {})
             /\ v = "FAILED" /\ c = Ret => About({}, {i}, {}, {})
             /\ v = "SUCCEEDED" /\ c = Ret => About({}, {i}, {i}, {})
  <2>1. SetState(i, v) \in Stmt
    BY StatementTypes
  <2>2. Marks(SetState(i, v), c)
    BY <1>4, <2>1, MarksHold DEF MarksInv
  <2>3. /\ c = Exec \/ (v = "CANCELLED" /\ c \in {Ret, Renew}) => About({}, {}, {}, {})
    BY <2>2, StatementsDiffer, ProgramsDiffer DEF Marks, About
  <2>4. v = "SCHEDULED" /\ c = GoOn(i) => About({i}, {}, {}, {})
    BY <2>2, StatementsDiffer, ProgramsDiffer DEF Marks, About
  <2>5. v = "RUNNING" /\ c = Ret => About({i}, {}, {}, {})
    BY <2>2, StatementsDiffer, ProgramsDiffer DEF Marks, About
  <2>6. ASSUME v = "FAILED", c = Ret PROVE About({}, {i}, {}, {})
    <3>1. \A k \in Tasks : Ends(k) <=> k = i
      BY <2>2, <2>6, StatementsDiffer DEF Marks
    <3>2. \A k \in Tasks : ~Takes(k) /\ ~Succeeds(k) /\ ~Runs(k)
      BY <2>2, <2>6, StatementsDiffer DEF Marks
    <3> QED BY <3>1, <3>2, Zenon DEF About
  <2>7. v = "SUCCEEDED" /\ c = Ret => About({}, {i}, {i}, {})
    BY <2>2, StatementsDiffer, ProgramsDiffer DEF Marks, About
  <2> QED BY <2>3, <2>4, <2>5, <2>6, <2>7
<1>5. ASSUME NEW i \in Tasks, Rest = SucceedRunnable(i) PROVE About({}, {i}, {}, {})
  <2> DEFINE c == Cons(SetState(i, "SUCCEEDED"), Ret)
  <2>1. SetValue(i) \in Stmt /\ c \in Seq(Stmt) /\ Rest = Cons(SetValue(i), c)
    BY <1>5, <1>b, StatementTypes, PlainPrograms, ProgramTypes, RunnableIs DEF Plain
  <2> HIDE DEF c
  <2>2. Marks(SetValue(i), c)
    BY <2>1, MarksHold DEF MarksInv
  <2>3. \A k \in Tasks : Ends(k) <=> k = i
    <3>1. \A k \in Tasks :
            Ends(k) <=> SetValue(i) = SetValue(k) /\ c = Cons(SetState(k, "SUCCEEDED"), Ret)
      BY <2>2, StatementsDiffer DEF Marks
    <3> QED BY <3>1, StatementsDiffer DEF c
  <2>4. \A k \in Tasks : ~Takes(k) /\ ~Succeeds(k) /\ ~Runs(k)
    BY <2>2, StatementsDiffer DEF Marks
  <2> QED BY <2>3, <2>4, Zenon DEF About
<1>6. ASSUME NEW i \in Tasks, NEW v \in States, NEW c \in Seq(Stmt), tstate[i] = v,
             Rest = Cons(SetRunning(i, v), c), Follows(i, v, c)
      PROVE  /\ c = GoOn(i) => About({i}, {}, {}, {i})
             /\ c # GoOn(i) => About({}, {}, {}, {i})
  <2>1. SetRunning(i, v) \in Stmt
    BY StatementTypes
  <2>2. Marks(SetRunning(i, v), c)
    BY <1>6, <2>1, MarksHold DEF MarksInv
  <2>3. \A k \in Tasks : ~Ends(k) /\ ~Succeeds(k)
    BY <2>2, StatementsDiffer DEF Marks
  <2>4. \A k \in Tasks : Runs(k) <=> k \in {i}
    BY <2>2, <1>6, StatementsDiffer DEF Marks
  <2>5. c = GoOn(i) => v = "SCHEDULED"
    BY <1>6, ProgramsDiffer DEF Follows
  <2>6. \A k \in Tasks : Takes(k) <=> k = i /\ c = GoOn(i)
    <3>1. \A k \in Tasks : Takes(k) <=> /\ SetRunning(i, v) = SetRunning(k, "SCHEDULED")
                                        /\ c = GoOn(k) /\ tstate[k] = "SCHEDULED"
      BY <2>2, StatementsDiffer DEF Marks
    <3> QED BY <3>1, <2>5, <1>6, StatementsDiffer, ProgramsDiffer
  <2> QED BY <2>3, <2>4, <2>6, Zenon DEF About
<1>7. ASSUME NEW i \in Tasks, Rest = Cons(SetState(i, "SCHEDULED"), Exec)
      PROVE  About({}, {}, {}, {})
  <2>1. "SCHEDULED" \in States /\ Exec \in Seq(Stmt)
    BY <1>b, ProgramTypes
  <2> QED BY <2>1, <1>4, <1>7, Zenon
<1>8. \A i \in Tasks, c \in {Ret, Renew} :
       Rest = Cons(SetState(i, "CANCELLED"), c) => About({}, {}, {}, {})
  BY <1>4, <1>b, ProgramTypes
<1>9. ASSUME NEW i \in Tasks
      PROVE  /\ Rest \in {StartRunnable(i), GoOn(i)} => About({i}, {}, {}, {})
             /\ Rest \in {SucceedRunnable(i), FailRunnable(i)} => About({}, {i}, {}, {})
             /\ Rest = Cons(SetState(i, "SUCCEEDED"), Ret) => About({}, {i}, {i}, {})
             /\ Rest = Cons(SetRunning(i, "SCHEDULED"), GoOn(i)) /\ tstate[i] = "SCHEDULED"
                  => About({i}, {}, {}, {i})
  <2>1. Rest = StartRunnable(i) => About({i}, {}, {}, {})
    BY <1>4, <1>b, ProgramTypes, RunnableIs
  <2>2. Rest = GoOn(i) => About({i}, {}, {}, {})
    BY <1>4, <1>b, ProgramTypes DEF GoOn
  <2>3. Rest = FailRunnable(i) => About({}, {i}, {}, {})
    BY <1>4, <1>b, ProgramTypes, RunnableIs
  <2>4. Rest = Cons(SetState(i, "SUCCEEDED"), Ret) => About({}, {i}, {i}, {})
    BY <1>4, <1>b, ProgramTypes
  <2>5. Rest = Cons(SetRunning(i, "SCHEDULED"), GoOn(i)) /\ tstate[i] = "SCHEDULED"
          => About({i}, {}, {}, {i})
    <3>1. Follows(i, "SCHEDULED", GoOn(i))
      BY DEF Follows
    <3> QED BY <3>1, <1>6, <1>b, ProgramTypes
  <2> QED BY <1>5, <2>1, <2>2, <2>3, <2>4, <2>5
<1>10. \A i \in Tasks, v \in States, c \in {Exec, Ret, Renew} :
       Rest = Cons(SetRunning(i, v), c) /\ tstate[i] = v /\ Follows(i, v, c)
            => About({}, {}, {}, {i})
  BY <1>6, ProgramTypes, ProgramsDiffer
<1> QED BY <1>a, <1>1, <1>2, <1>3, <1>7, <1>8, <1>9, <1>10 DEF AboutInv

LEMMA AboutNext == AboutInv'
BY AboutHolds, PTL

-----------------------------------------------------------------------------
(***************************************************************************)
(* The steps.                                                              *)
(***************************************************************************)
PoolStep == \E k \in Tasks : Pool(k)

LEMMA NextCases ==
  ASSUME [Next]_vars
  PROVE  \/ TaskSetState \/ TaskSetRunning \/ TaskSetValue \/ TaskCancel \/ Execute \/ Schedule
         \/ SetOwnState \/ Abandon \/ ResetState \/ ResetRest \/ Start \/ MethodReturn \/ Hook
         \/ FxTake \/ (\E m \in Methods : Call(m)) \/ StartOffFx \/ PoolStep \/ UNCHANGED vars
BY DEF Next, Fx, FxCommon, Idle, PoolStep

\* Steps that only move the FX thread on.
LEMMA OnlyTodo ==
  ASSUME Schedule \/ MethodReturn \/ Hook \/ \E m \in Methods : Call(m)
  PROVE  UNCHANGED <<taskVars, svVars, queue>>
BY DEF Schedule, MethodReturn, Hook, Call

LEMMA TypeInit == Init => TypeInv
<1> SUFFICES ASSUME Init PROVE TypeInv
  OBVIOUS
<1>1. queue \in Seq(Runnables)
  BY DEF Init
<1>2. "READY" \in States
  BY DEF States
<1>3. trunning \in [Tasks -> BOOLEAN] /\ tvalue \in [Tasks -> BOOLEAN] /\ ownRunning \in BOOLEAN
  BY DEF Init
<1>4. /\ fut \in [Tasks -> {"NEW", "NORMAL", "EXCEPTIONAL", "CANCELLED"}]
      /\ wpc \in [Tasks -> {"new", "queued", "call", "set", "setException", "end"}]
      /\ tstate \in [Tasks -> States] /\ ownState \in States
  BY <1>2 DEF Init
<1>5. /\ created \in 0 .. MaxTasks /\ task \in 0 .. created /\ stateBound \in 0 .. created
      /\ restBound \in 0 .. created /\ ownValue \in 0 .. created /\ calls \in 0 .. MaxCalls
  BY BoundAssumption DEF Init, Null
<1> QED BY <1>1, <1>3, <1>4, <1>5 DEF TypeInv, TypeOK

LEMMA TypeStep ==
  ASSUME NoHandlerCalls, TypeInv, TodoInv, [Next]_vars
  PROVE  TypeInv'
<1> USE BoundAssumption DEF TypeInv, TypeOK, Null
<1>1. CASE TaskSetState
  <2>1. PICK k \in Tasks, v \in States : tstate' = [tstate EXCEPT ![k] = v] \/ tstate' = tstate
    BY <1>1, SetStateEffect
  <2> QED BY <1>1, <2>1 DEF TaskSetState, svVars, bindVars
<1>2. CASE TaskSetRunning
  <2>1. PICK k \in Tasks, v \in States :
          trunning' = [trunning EXCEPT ![k] = v \in {"SCHEDULED", "RUNNING"}]
    BY <1>2, SetRunningEffect
  <2>2. (v \in {"SCHEDULED", "RUNNING"}) \in BOOLEAN
    OBVIOUS
  <2>3. trunning' \in [Tasks -> BOOLEAN]
    BY <2>1, <2>2
  <2> QED BY <1>2, <2>3 DEF TaskSetRunning, svVars, bindVars
<1>3. CASE TaskSetValue
  <2>1. PICK k \in Tasks : tvalue' = [tvalue EXCEPT ![k] = TRUE]
    BY <1>3, SetValueEffect
  <2> QED BY <1>3, <2>1 DEF TaskSetValue, svVars, bindVars
<1>4. CASE TaskCancel
  <2>1. fut' = [fut EXCEPT ![task] = "CANCELLED"] \/ fut' = fut
    BY <1>4, CancelEffect
  <2> QED BY <1>4, <2>1 DEF TaskCancel, svVars, bindVars
<1>5. CASE Execute
  BY <1>5 DEF Execute, svVars, bindVars
<1>6. CASE Schedule \/ MethodReturn \/ Hook
  BY <1>6 DEF Schedule, MethodReturn, Hook, taskVars, svVars, bindVars
<1>7. CASE SetOwnState
  <2>1. ownState' \in States
    BY <1>7, SetOwnEffect DEF States, Ending
  <2> QED BY <1>7, <2>1 DEF SetOwnState, taskVars, svVars, bindVars
<1>8. CASE Abandon
  <2>1. ownState' \in States
    BY <1>8 DEF Abandon, States, Ending
  <2> QED BY <1>8, <2>1 DEF Abandon, taskVars
<1>9. CASE ResetState
  <2>1. ownState' \in States
    BY <1>9 DEF ResetState, States
  <2> QED BY <1>9, <2>1 DEF ResetState, taskVars
<1>10. CASE ResetRest
  <2>1. ownRunning' \in BOOLEAN
    BY <1>10 DEF ResetRest
  <2> QED BY <1>10, <2>1 DEF ResetRest, taskVars
<1>11. CASE Start
  BY <1>11 DEF Start, CreateAndBind, taskVars, svVars, bindVars
<1>12. CASE FxTake
  <2>1. queue' \in Seq(Runnables)
    BY <1>12, TailAt DEF FxTake
  <2> QED BY <1>12, <2>1 DEF FxTake, taskVars, svVars, bindVars
<1>13. ASSUME NEW m \in Methods, Call(m) PROVE TypeInv'
  BY <1>13 DEF Call, taskVars, svVars, bindVars
<1>14. CASE StartOffFx
  <2>1. OffFxRunnable \in Runnables
    BY DEF Runnables
  <2>2. queue' \in Seq(Runnables)
    BY <1>14, <2>1, AppendAt DEF StartOffFx
  <2> QED BY <1>14, <2>2 DEF StartOffFx, CreateAndBind
<1>15. ASSUME NEW k \in Tasks, Pool(k) PROVE TypeInv'
  <2>1. /\ StartRunnable(k) \in Runnables /\ SucceedRunnable(k) \in Runnables
        /\ FailRunnable(k) \in Runnables
    BY DEF Runnables
  <2>2. CASE TaskRun(k)
    <3>0. queue' = Append(queue, StartRunnable(k)) \/ queue' = queue
      BY <2>2 DEF TaskRun
    <3>1. queue' \in Seq(Runnables)
      BY <2>1, <3>0, AppendAt
    <3> QED BY <2>2, <3>1 DEF TaskRun, svVars, bindVars
  <2>3. CASE CallEnds(k)
    <3>0. \/ queue' = Append(queue, SucceedRunnable(k))
          \/ queue' = Append(queue, FailRunnable(k))
      BY <2>3 DEF CallEnds
    <3>1. queue' \in Seq(Runnables)
      <4>1. CASE queue' = Append(queue, SucceedRunnable(k))
        BY <2>1, <4>1, AppendAt
      <4>2. CASE queue' = Append(queue, FailRunnable(k))
        BY <2>1, <4>2, AppendAt
      <4> QED BY <3>0, <4>1, <4>2
    <3> QED BY <2>3, <3>1 DEF CallEnds, svVars, bindVars
  <2>4. CASE FutureDone(k)
    BY <2>4 DEF FutureDone, svVars, bindVars
  <2> QED BY <1>15, <2>2, <2>3, <2>4 DEF Pool
<1>16. CASE UNCHANGED vars
  BY <1>16 DEF vars, taskVars, svVars, bindVars
<1> QED BY <1>1, <1>2, <1>3, <1>4, <1>5, <1>6, <1>7, <1>8, <1>9, <1>10, <1>11, <1>12, <1>13,
           <1>14, <1>15, <1>16, NextCases DEF PoolStep

\* What is left to do stays one of the programs.
LEMMA TodoKept ==
  ASSUME TodoInv, UNCHANGED <<todo, task, tstate>>,
         \A k \in Tasks : fut[k] # "NEW" => fut'[k] = fut[k], TypeInv
  PROVE  TodoInv'
<1>1. Rest' = Rest
  BY DEF Rest, At
<1>2. task # Null => task \in Tasks
  BY BoundAssumption DEF TypeInv, TypeOK, Tasks, Null
<1>3. Aside'
  BY <1>1 DEF TodoInv, Aside
<1>4. \A k \in Tasks : /\ Takes(k)' <=> Takes(k)
                       /\ Ends(k)' <=> Ends(k)
                       /\ Runs(k)' <=> Runs(k)
  BY <1>1 DEF Takes, Ends, Succeeds, Runs
<1>5. Starting => Starting'
  BY <1>1 DEF Starting, Unbegun
<1>6. Cancelling => Cancelling'
  BY <1>1, <1>2 DEF Cancelling
<1>7. Resetting => Resetting'
  BY <1>1 DEF Resetting
<1> QED BY <1>1, <1>3, <1>4, <1>5, <1>6, <1>7 DEF TodoInv, Stage

LEMMA TodoStep ==
  ASSUME NoHandlerCalls, TypeInv, TodoInv, OffFxInv, TaskInv, [Next]_vars
  PROVE  TodoInv'
<1>t. task # Null => task \in Tasks
  BY BoundAssumption DEF TypeInv, TypeOK, Tasks, Null
<1>1. CASE TaskSetState
  <2>0. task' = task /\ fut' = fut
    BY <1>1 DEF TaskSetState, svVars
  <2>1. PICK k \in Tasks, v \in States, c \in Seq(Stmt) :
           /\ Rest = Cons(SetState(k, v), c) /\ Sets(k, v, c) /\ Aside'
           /\ \/ /\ tstate[k] # "CANCELLED" /\ tstate' = [tstate EXCEPT ![k] = v]
                 /\ Rest' = Cons(SetRunning(k, v), c)
              \/ /\ tstate[k] = "CANCELLED" /\ tstate' = tstate /\ Rest' = c
    BY <1>1, SetStateEffect
  <2>2. CASE Rest' = Cons(SetRunning(k, v), c) /\ tstate' = [tstate EXCEPT ![k] = v]
    <3>1. tstate'[k] = v
      BY <2>2 DEF TypeInv, TypeOK
    <3>2. Runs(k)'
      BY <2>0, <2>1, <2>2, <3>1 DEF Sets, Runs
    <3> QED BY <2>1, <3>2 DEF TodoInv, Stage
  <2>3. CASE Rest' = c /\ tstate[k] = "CANCELLED" /\ tstate' = tstate
    <3>1. CASE c = Exec /\ k = task
      <4>1. Starting'
        BY <2>0, <2>3, <3>1 DEF Starting, Null, Tasks
      <4> QED BY <2>1, <4>1 DEF TodoInv, Stage
    <3>2. CASE c = GoOn(k)
      <4>1. Takes(k)'
        BY <2>3, <3>2 DEF Takes
      <4> QED BY <2>1, <4>1 DEF TodoInv, Stage
    <3>3. CASE c = Ret
      BY <2>1, <2>3, <3>3 DEF TodoInv, Stage
    <3>4. CASE c = Renew /\ k = task /\ fut[k] = "CANCELLED"
      <4>1. Cancelling'
        BY <2>0, <2>3, <3>4 DEF Cancelling, Null, Tasks
      <4> QED BY <2>1, <4>1 DEF TodoInv, Stage
    <3> QED BY <2>1, <3>1, <3>2, <3>3, <3>4 DEF Sets
  <2> QED BY <2>1, <2>2, <2>3
<1>2. CASE TaskSetRunning
  <2>0. task' = task /\ fut' = fut /\ tstate' = tstate
    BY <1>2 DEF TaskSetRunning, svVars
  <2>1. PICK k \in Tasks, v \in States, c \in Seq(Stmt) :
          tstate[k] = v /\ Follows(k, v, c) /\ Rest' = c /\ Aside'
    BY <1>2, SetRunningEffect
  <2>2. CASE c = Exec /\ k = task /\ v = "SCHEDULED"
    <3>1. Starting'
      BY <2>0, <2>1, <2>2 DEF Starting, Null, Tasks
    <3> QED BY <2>1, <3>1 DEF TodoInv, Stage
  <2>3. CASE c = GoOn(k)
    <3>1. Takes(k)'
      BY <2>1, <2>3 DEF Takes
    <3> QED BY <2>1, <3>1 DEF TodoInv, Stage
  <2>4. CASE c = Ret
    BY <2>1, <2>4 DEF TodoInv, Stage
  <2>5. CASE c = Renew /\ k = task /\ v = "CANCELLED"
    <3>1. Cancelling'
      BY <2>0, <2>1, <2>5 DEF Cancelling, Null, Tasks, TaskInv
    <3> QED BY <2>1, <3>1 DEF TodoInv, Stage
  <2> QED BY <2>1, <2>2, <2>3, <2>4, <2>5 DEF Follows
<1>3. CASE TaskSetValue
  <2>1. PICK k \in Tasks : Rest' = Cons(SetState(k, "SUCCEEDED"), Ret) /\ Aside'
    BY <1>3, SetValueEffect
  <2>2. Ends(k)'
    BY <2>1 DEF Ends, Succeeds
  <2> QED BY <2>1, <2>2 DEF TodoInv, Stage
<1>4. CASE TaskCancel
  <2>0. task' = task /\ task # Null /\ task \in Tasks /\ Aside'
    BY <1>4, CancelEffect DEF TaskCancel, svVars
  <2>1. PICK c \in {Ret, Renew} :
          \/ /\ fut[task] = "NEW" /\ fut' = [fut EXCEPT ![task] = "CANCELLED"]
             /\ Rest' = Cons(SetState(task, "CANCELLED"), c)
          \/ /\ fut[task] # "NEW" /\ fut' = fut /\ Rest' = c
    BY <1>4, CancelEffect
  <2>2. fut'[task] # "NEW" /\ (fut[task] = "NEW" => fut'[task] = "CANCELLED")
    BY <2>0, <2>1 DEF TypeInv, TypeOK
  <2>3. Cancelling' \/ Rest' = Ret
    BY <2>0, <2>1, <2>2 DEF Cancelling
  <2> QED BY <2>0, <2>3 DEF TodoInv, Stage
<1>5. CASE Execute \/ SetOwnState
  <2>1. Rest' = Ret /\ Aside'
    BY <1>5, ExecuteEffect, SetOwnEffect
  <2> QED BY <2>1 DEF TodoInv, Stage
<1>6. CASE Schedule
  <2>0. task' = task /\ tstate' = tstate
    BY <1>6 DEF Schedule, svVars, taskVars
  <2>1. CASE task \in Tasks /\ Rest' = Cons(SetState(task, "SCHEDULED"), Exec)
    <3>1. Starting'
      BY <1>6, <2>0, <2>1, ScheduleEffect DEF Starting, Unbegun, Null, Tasks
    <3> QED BY <1>6, <3>1, ScheduleEffect DEF TodoInv, Stage
  <2>2. CASE Rest' = <<>>
    BY <1>6, <2>2, ScheduleEffect DEF TodoInv, Stage
  <2> QED BY <1>6, <2>1, <2>2, ScheduleEffect
<1>7. CASE Abandon
  <2>1. Rest' = Cons(Do("reset"), ResetThen(StartCall)) /\ Aside'
    BY <1>7, AbandonEffect
  <2>2. Resetting'
    BY <2>1 DEF Resetting
  <2> QED BY <2>1, <2>2 DEF TodoInv, Stage
<1>8. CASE ResetState
  <2>1. PICK c \in {Ret, StartCall} : Aside' /\ (Rest' = <<>> \/ (Rest' = ResetThen(c) /\ task' = Null))
    BY <1>8, ResetStateEffect
  <2>2. Rest' = <<>> \/ Resetting'
    BY <2>1 DEF Resetting
  <2> QED BY <2>1, <2>2 DEF TodoInv, Stage
<1>9. CASE ResetRest
  <2>1. PICK c \in {Ret, StartCall} : Aside' /\ Rest' = c
    BY <1>9, ResetRestEffect
  <2>2. Rest' = Ret \/ Starting'
    BY <2>1 DEF Starting
  <2> QED BY <2>1, <2>2 DEF TodoInv, Stage
<1>10. CASE Start
  <2>1. CASE Rest' = <<>>
    BY <1>10, <2>1, StartEffect DEF TodoInv, Stage
  <2>2. CASE /\ CreateAndBind /\ created' \in Tasks
             /\ Rest' = Cons(SetState(created', "SCHEDULED"), Exec)
    <3>1. task' = created' /\ tstate' = tstate /\ tstate[created'] = "READY"
      BY <2>2 DEF CreateAndBind, TaskInv, TypeInv, TypeOK
    <3>2. Starting'
      BY <2>2, <3>1 DEF Starting, Unbegun, Null, Tasks
    <3> QED BY <1>10, <3>2, StartEffect DEF TodoInv, Stage
  <2> QED BY <1>10, <2>1, <2>2, StartEffect
<1>11. CASE MethodReturn
  BY <1>11, ReturnEffect DEF TodoInv, Stage
<1>12. CASE Hook
  <2>0. UNCHANGED <<task, tstate, fut>>
    BY <1>12 DEF Hook, svVars, taskVars
  <2>1. Rest' = Rest /\ Aside'
    BY <1>12, HookEffect
  <2>2. \A k \in Tasks : /\ Takes(k)' <=> Takes(k)
                         /\ Ends(k)' <=> Ends(k)
                         /\ Runs(k)' <=> Runs(k)
    BY <2>0, <2>1 DEF Takes, Ends, Succeeds, Runs
  <2>3. (Starting => Starting') /\ (Cancelling => Cancelling') /\ (Resetting => Resetting')
    BY <2>0, <2>1 DEF Starting, Unbegun, Cancelling, Resetting
  <2> QED BY <2>1, <2>2, <2>3 DEF TodoInv, Stage
<1>13. CASE FxTake
  <2>0. Rest' = Head(queue) /\ Aside' /\ queue \in Seq(Runnables) /\ queue # <<>>
    BY <1>13, TakeEffect DEF TypeInv
  <2>1. CASE Head(queue) = OffFxRunnable
    <3>1. Has(queue, OffFxRunnable)
      BY <2>0, <2>1, TailHas
    <3>2. tstate' = tstate /\ \A k \in Tasks : Unbegun(k)
      BY <1>13, <3>1 DEF FxTake, taskVars, OffFxInv
    <3>3. Starting'
      BY <2>0, <2>1, <3>2 DEF Starting, Unbegun
    <3> QED BY <2>0, <3>3 DEF TodoInv, Stage
  <2>2. ASSUME NEW k \in Tasks, Head(queue) \in {StartRunnable(k), SucceedRunnable(k), FailRunnable(k)}
        PROVE  TodoInv'
    <3>1. Takes(k)' \/ Ends(k)'
      BY <2>0, <2>2 DEF Takes, Ends
    <3> QED BY <2>0, <3>1 DEF TodoInv, Stage
  <2> QED BY <1>13, <2>1, <2>2, TakeEffect
<1>14. ASSUME NEW m \in Methods, Call(m) PROVE TodoInv'
  <2>0. task' = task /\ Aside'
    BY <1>14, CallEffect DEF Call, svVars
  <2>1. CASE Rest' = StartCall \/ Rest' = Ret
    <3>1. Rest' = Ret \/ Starting'
      BY <2>1 DEF Starting
    <3> QED BY <2>0, <3>1 DEF TodoInv, Stage
  <2>2. CASE \E c \in {Ret, StartCall} : Rest' = Cons(Do("reset"), ResetThen(c))
    <3>1. Resetting'
      BY <2>2 DEF Resetting
    <3> QED BY <2>0, <3>1 DEF TodoInv, Stage
  <2>3. CASE \/ task \in Tasks /\ \E c \in {Ret, Renew} : Rest' = Cons(CancelTask(task), c)
             \/ task = Null /\ Rest' = Cons(CancelOwn, Ret)
    <3>1. Cancelling'
      BY <2>0, <2>3 DEF Cancelling, Null, Tasks
    <3> QED BY <2>0, <3>1 DEF TodoInv, Stage
  <2> QED BY <1>14, <2>1, <2>2, <2>3, CallEffect
<1>15. CASE StartOffFx
  <2>1. todo' = <<>>
    BY <1>15 DEF StartOffFx
  <2>2. Rest' = <<>> /\ Aside'
    BY <2>1, NextRest, PlainPrograms DEF Goes
  <2> QED BY <2>2 DEF TodoInv, Stage
<1>16. ASSUME NEW k \in Tasks, Pool(k) PROVE TodoInv'
  <2>1. UNCHANGED <<todo, task, tstate>> /\ \A j \in Tasks : fut[j] # "NEW" => fut'[j] = fut[j]
    BY <1>16 DEF Pool, TaskRun, CallEnds, FutureDone, svVars, TypeInv, TypeOK
  <2> QED BY <2>1, TodoKept
<1>17. CASE UNCHANGED vars
  <2>1. UNCHANGED <<todo, task, tstate, fut>>
    BY <1>17 DEF vars, taskVars, svVars
  <2> QED BY <2>1, TodoKept
<1> QED BY <1>1, <1>2, <1>3, <1>4, <1>5, <1>6, <1>7, <1>8, <1>9, <1>10, <1>11, <1>12, <1>13,
           <1>14, <1>15, <1>16, <1>17, NextCases DEF PoolStep

\* The bindings.
LEMMA ResettingIs ==
  ASSUME TypeInv, TodoInv, Resetting
  PROVE  /\ Rest # <<>>
         /\ \A d \in Dos \ {"hook", "reset", "resetRest"} : ~At(d)
<1>1. PICK c \in {Ret, StartCall} : Rest = Cons(Do("reset"), ResetThen(c)) \/ Rest = ResetThen(c)
  BY DEF Resetting
<1>2. /\ Do("reset") \in Stmt /\ Do("resetRest") \in Stmt /\ c \in Seq(Stmt)
      /\ ResetThen(c) \in Seq(Stmt)
  BY StatementTypes, ProgramTypes
<1>3. Rest # <<>> /\ Head(Rest) \in {Do("reset"), Do("resetRest")}
  BY <1>1, <1>2, ConsFacts DEF ResetThen
<1>4. Head(Rest).do \in {"reset", "resetRest"}
  BY <1>3, DoIs
<1>5. ASSUME NEW d \in Dos \ {"hook", "reset", "resetRest"}, At(d) PROVE FALSE
  <2>1. todo = Rest
    BY <1>5 DEF At, Rest
  <2> QED BY <1>4, <1>5, <2>1 DEF At
<1> QED BY <1>3, <1>5

LEMMA BindStep ==
  ASSUME NoHandlerCalls, TypeInv, TodoInv, BindInv, [Next]_vars
  PROVE  BindInv'
<1>1. CASE \/ TaskSetState \/ TaskSetRunning \/ TaskSetValue \/ TaskCancel \/ Execute
           \/ Schedule \/ MethodReturn
  <2>1. UNCHANGED svVars
    BY <1>1 DEF TaskSetState, TaskSetRunning, TaskSetValue, TaskCancel, Execute, Schedule, MethodReturn
  <2>2. \E d \in Dos \ {"hook", "reset", "resetRest"} : At(d)
    BY <1>1 DEF TaskSetState, TaskSetRunning, TaskSetValue, TaskCancel, Execute, Schedule,
                MethodReturn, Dos
  <2>3. ~Resetting
    BY <2>2, ResettingIs
  <2> QED BY <2>1, <2>3 DEF BindInv, svVars, bindVars
<1>2. CASE FxTake \/ \E m \in Methods : Call(m)
  <2>1. UNCHANGED svVars
    BY <1>2 DEF FxTake, Call
  <2>2. Rest = <<>>
    BY <1>2, TakeEffect, CallEffect
  <2>3. ~Resetting
    BY <2>2, ResettingIs
  <2> QED BY <2>1, <2>3 DEF BindInv, svVars, bindVars
<1>3. CASE Hook \/ PoolStep \/ UNCHANGED vars
  <2>1. UNCHANGED svVars
    BY <1>3 DEF Hook, PoolStep, Pool, TaskRun, CallEnds, FutureDone, vars
  <2>2. PoolStep \/ UNCHANGED vars => todo' = todo
    BY DEF PoolStep, Pool, TaskRun, CallEnds, FutureDone, vars
  <2>3. Rest' = Rest
    BY <1>3, <2>2, HookEffect DEF Rest, At
  <2>4. Resetting => Resetting'
    BY <2>1, <2>3 DEF Resetting, svVars
  <2> QED BY <2>1, <2>4 DEF BindInv, svVars, bindVars
<1>4. CASE SetOwnState
  <2>1. At("setOwn") /\ "setOwn" \in Dos \ {"hook", "reset", "resetRest"}
    BY <1>4 DEF SetOwnState, Dos
  <2>2. ~Resetting /\ ownState' = "CANCELLED"
    BY <1>4, <2>1, ResettingIs, SetOwnEffect
  <2> QED BY <1>4, <2>2 DEF BindInv, SetOwnState
<1>5. CASE Abandon
  <2>1. Resetting'
    BY <1>5, AbandonEffect DEF Resetting
  <2> QED BY <1>5, <2>1 DEF BindInv, Abandon
<1>6. CASE ResetState
  <2>0. UNCHANGED <<restBound, ownRunning, ownValue>>
    BY <1>6 DEF ResetState
  <2>1. CASE /\ state \in {"SCHEDULED", "RUNNING"} /\ UNCHANGED <<task, stateBound, ownState>>
    <3>1. restBound = task
      BY <2>1 DEF BindInv, state
    <3> QED BY <2>0, <2>1, <3>1 DEF BindInv
  <2>2. ASSUME NEW c \in {Ret, StartCall}, Rest' = ResetThen(c), task' = Null, stateBound' = Null,
               ownState' = "READY"
        PROVE  BindInv'
    <3>1. Resetting'
      BY <2>2 DEF Resetting
    <3> QED BY <2>0, <2>2, <3>1 DEF BindInv
  <2> QED BY <1>6, <2>1, <2>2, ResetStateEffect
<1>7. CASE ResetRest
  BY <1>7, ResetRestEffect DEF BindInv, ResetRest
<1>8. CASE Start \/ StartOffFx
  <2>1. ~Resetting
    <3>1. CASE Start
      <4>1. At("start") /\ "start" \in Dos \ {"hook", "reset", "resetRest"}
        BY <3>1 DEF Start, Dos
      <4> QED BY <4>1, ResettingIs
    <3>2. CASE StartOffFx
      <4>1. Rest = <<>>
        BY <3>2 DEF StartOffFx, Rest, At
      <4> QED BY <4>1, ResettingIs
    <3> QED BY <1>8, <3>1, <3>2
  <2>2. CreateAndBind \/ UNCHANGED svVars
    BY <1>8 DEF Start, StartOffFx
  <2> QED BY <2>1, <2>2 DEF BindInv, CreateAndBind, svVars, bindVars
<1> QED BY <1>1, <1>2, <1>3, <1>4, <1>5, <1>6, <1>7, <1>8, NextCases

\* Which task the FX thread is about, before and after a step.
Still ==
  \A k \in Tasks :
    /\ Takes(k)' <=> Takes(k)
    /\ Ends(k)' <=> Ends(k)
    /\ Succeeds(k)' <=> Succeeds(k)
    /\ Runs(k)' <=> Runs(k)

LEMMA StillStep ==
  ASSUME NoHandlerCalls, TypeInv, TodoInv,
         \/ TaskCancel \/ Execute \/ Schedule \/ SetOwnState \/ Abandon \/ ResetState \/ ResetRest
         \/ Start \/ MethodReturn \/ (\E m \in Methods : Call(m)) \/ StartOffFx
         \/ Hook \/ PoolStep \/ UNCHANGED vars
  PROVE  Still
<1> DEFINE Calm == About({}, {}, {}, {})
<1>a. Calm /\ Calm' => Still
  BY DEF About, Still
<1>b. UNCHANGED <<Rest, tstate, task>> => Still
  BY DEF Takes, Ends, Succeeds, Runs, Still
<1> HIDE DEF Calm
<1>c. /\ Rest \in {<<>>, Ret, Exec, StartCall, Renew, OffFxRunnable, Cons(CancelOwn, Ret)} => Calm
      /\ \A c \in {Ret, StartCall} : Rest \in {ResetThen(c), Cons(Do("reset"), ResetThen(c))} => Calm
      /\ \A c \in {Ret, Renew} : task \in Tasks /\ Rest = Cons(CancelTask(task), c) => Calm
  BY AboutHolds, ProgramTypes DEF AboutInv, Calm
<1>d. /\ Rest' \in {<<>>, Ret, Exec, StartCall, Renew, OffFxRunnable, Cons(CancelOwn, Ret)} => Calm'
      /\ \A c \in {Ret, StartCall} :
           Rest' \in {ResetThen(c), Cons(Do("reset"), ResetThen(c))} => Calm'
      /\ \A i \in Tasks, c \in {Ret, Renew} : Rest' = Cons(CancelTask(i), c) => Calm'
      /\ \A i \in Tasks, c \in {Ret, Renew} : Rest' = Cons(SetState(i, "CANCELLED"), c) => Calm'
      /\ \A i \in Tasks : Rest' = Cons(SetState(i, "SCHEDULED"), Exec) => Calm'
  BY AboutNext, ProgramTypes DEF AboutInv, Calm
<1>1. CASE TaskCancel
  BY <1>1, <1>a, <1>c, <1>d, CancelEffect
<1>2. CASE Execute
  BY <1>2, <1>a, <1>c, <1>d, ExecuteEffect
<1>3. CASE Schedule
  BY <1>3, <1>a, <1>c, <1>d, ScheduleEffect
<1>4. CASE SetOwnState
  BY <1>4, <1>a, <1>c, <1>d, SetOwnEffect
<1>5. CASE Abandon
  BY <1>5, <1>a, <1>c, <1>d, AbandonEffect
<1>6. CASE ResetState
  BY <1>6, <1>a, <1>c, <1>d, ResetStateEffect
<1>7. CASE ResetRest
  BY <1>7, <1>a, <1>c, <1>d, ResetRestEffect
<1>8. CASE Start
  <2>1. Rest = StartCall
    BY <1>8, StartEffect
  <2>2. Rest' = <<>> \/ \E i \in Tasks : Rest' = Cons(SetState(i, "SCHEDULED"), Exec)
    BY <1>8, StartEffect
  <2> QED BY <2>1, <2>2, <1>a, <1>c, <1>d
<1>9. CASE MethodReturn
  BY <1>9, <1>a, <1>c, <1>d, ReturnEffect
<1>10. ASSUME NEW m \in Methods, Call(m) PROVE Still
  BY <1>10, <1>a, <1>c, <1>d, CallEffect
<1>11. CASE StartOffFx
  <2>1. Rest = <<>> /\ Rest' = <<>>
    BY <1>11 DEF StartOffFx, Rest, At
  <2> QED BY <2>1, <1>a, <1>c, <1>d
<1>12. CASE Hook
  <2>1. UNCHANGED <<tstate, task>>
    BY <1>12 DEF Hook, taskVars, svVars
  <2> QED BY <1>12, <2>1, <1>b, HookEffect
<1>13. CASE PoolStep \/ UNCHANGED vars
  <2>1. UNCHANGED <<todo, tstate, task>>
    BY <1>13 DEF PoolStep, Pool, TaskRun, CallEnds, FutureDone, vars, svVars, taskVars
  <2>2. Rest' = Rest
    BY <2>1 DEF Rest, At
  <2> QED BY <2>1, <2>2, <1>b
<1> QED BY <1>1, <1>2, <1>3, <1>4, <1>5, <1>6, <1>7, <1>8, <1>9, <1>10, <1>11, <1>12, <1>13

\* setState(v) of k: T, E and S are what the program was about, and T1 is what it
\* is about afterwards.
SetsAbout(k, v, T, E, S, T1) ==
  \/ v = "SCHEDULED" /\ Unbegun(k) /\ T = {} /\ E = {} /\ S = {} /\ T1 = {}
  \/ v = "SCHEDULED" /\ T = {k} /\ E = {} /\ S = {} /\ T1 = {k}
  \/ v = "RUNNING" /\ T = {k} /\ E = {} /\ S = {} /\ T1 = {}
  \/ v = "SUCCEEDED" /\ T = {} /\ E = {k} /\ S = {k} /\ T1 = {}
  \/ v = "FAILED" /\ T = {} /\ E = {k} /\ S = {} /\ T1 = {}
  \/ v = "CANCELLED" /\ fut[k] = "CANCELLED" /\ T = {} /\ E = {} /\ S = {} /\ T1 = {}

LEMMA SetStateAbout ==
  ASSUME TypeInv, TodoInv, TaskSetState
  PROVE  \E k \in Tasks, v \in States : \E T, E, S, T1, R1 \in SUBSET Tasks :
           /\ About(T, E, S, {}) /\ About(T1, {}, {}, R1)' /\ SetsAbout(k, v, T, E, S, T1)
           /\ k = task \/ k \in T \/ k \in E
           /\ \/ tstate[k] # "CANCELLED" /\ tstate' = [tstate EXCEPT ![k] = v] /\ R1 = {k}
              \/ tstate[k] = "CANCELLED" /\ tstate' = tstate /\ R1 = {}
<1>1. PICK k \in Tasks, v \in States, c \in Seq(Stmt) :
           /\ Rest = Cons(SetState(k, v), c) /\ Sets(k, v, c) /\ Aside'
           /\ \/ /\ tstate[k] # "CANCELLED" /\ tstate' = [tstate EXCEPT ![k] = v]
                 /\ Rest' = Cons(SetRunning(k, v), c)
              \/ /\ tstate[k] = "CANCELLED" /\ tstate' = tstate /\ Rest' = c
  BY SetStateEffect
<1>2. PICK T \in SUBSET Tasks, E \in SUBSET Tasks, S \in SUBSET Tasks, T1 \in SUBSET Tasks :
        /\ SetsAbout(k, v, T, E, S, T1) /\ About(T, E, S, {}) /\ (k = task \/ k \in T \/ k \in E)
        /\ T1 = IF c = GoOn(k) THEN {k} ELSE {}
  <2>1. CASE v = "SCHEDULED" /\ c = Exec /\ k = task /\ Unbegun(k)
    <3>1. About({}, {}, {}, {}) /\ c # GoOn(k)
      BY <1>1, <2>1, AboutHolds, ProgramsDiffer DEF AboutInv
    <3> QED BY <2>1, <3>1 DEF SetsAbout
  <2>2. CASE v = "SCHEDULED" /\ c = GoOn(k)
    <3>1. About({k}, {}, {}, {})
      BY <1>1, <2>2, AboutHolds, RunnableIs DEF AboutInv
    <3> QED BY <2>2, <3>1 DEF SetsAbout
  <2>3. CASE v = "RUNNING" /\ c = Ret
    <3>1. About({k}, {}, {}, {}) /\ c # GoOn(k)
      BY <1>1, <2>3, AboutHolds, ProgramsDiffer DEF AboutInv, GoOn
    <3> QED BY <2>3, <3>1 DEF SetsAbout
  <2>4. CASE v = "SUCCEEDED" /\ c = Ret
    <3>1. About({}, {k}, {k}, {}) /\ c # GoOn(k)
      BY <1>1, <2>4, AboutHolds, ProgramsDiffer DEF AboutInv
    <3> QED BY <2>4, <3>1 DEF SetsAbout
  <2>5. CASE v = "FAILED" /\ c = Ret
    <3>1. About({}, {k}, {}, {}) /\ c # GoOn(k)
      BY <1>1, <2>5, AboutHolds, RunnableIs, ProgramsDiffer DEF AboutInv
    <3> QED BY <2>5, <3>1 DEF SetsAbout
  <2>6. CASE v = "CANCELLED" /\ c \in {Ret, Renew} /\ k = task /\ fut[k] = "CANCELLED"
    <3>1. About({}, {}, {}, {}) /\ c # GoOn(k)
      BY <1>1, <2>6, AboutHolds, ProgramsDiffer DEF AboutInv
    <3> QED BY <2>6, <3>1 DEF SetsAbout
  <2> QED BY <1>1, <2>1, <2>2, <2>3, <2>4, <2>5, <2>6 DEF Sets
<1>3. CASE /\ tstate[k] # "CANCELLED" /\ tstate' = [tstate EXCEPT ![k] = v]
           /\ Rest' = Cons(SetRunning(k, v), c)
  <2>1. tstate'[k] = v /\ task' = task
    BY <1>3 DEF TypeInv, TypeOK, TaskSetState, svVars
  <2>2. Follows(k, v, c) /\ c \in {Exec, Ret, Renew, GoOn(k)}
    BY <1>1 DEF Sets, Follows
  <2>3. Follows(k, v, c)'
    BY <2>1, <2>2 DEF Follows
  <2>4. About(T1, {}, {}, {k})'
    <3>1. CASE c = GoOn(k)
      <4>1. v = "SCHEDULED"
        BY <2>2, <3>1, ProgramsDiffer DEF Follows
      <4> QED BY <1>2, <1>3, <2>1, <3>1, <4>1, AboutNext DEF AboutInv
    <3>2. CASE c # GoOn(k)
      BY <1>2, <1>3, <2>1, <2>2, <2>3, <3>2, AboutNext DEF AboutInv
    <3> QED BY <3>1, <3>2
  <2> QED BY <1>2, <1>3, <2>4
<1>4. CASE tstate[k] = "CANCELLED" /\ tstate' = tstate /\ Rest' = c
  <2>1. c \in {Exec, Ret, Renew, GoOn(k)}
    BY <1>1 DEF Sets
  <2>2. About(T1, {}, {}, {})'
    BY <1>2, <1>4, <2>1, AboutNext DEF AboutInv
  <2> QED BY <1>2, <1>4, <2>2
<1> QED BY <1>1, <1>3, <1>4

LEMMA SetRunningAbout ==
  ASSUME TypeInv, TodoInv, TaskSetRunning
  PROVE  \E k \in Tasks, T \in SUBSET Tasks :
           /\ About(T, {}, {}, {k}) /\ About(T, {}, {}, {})'
           /\ trunning' = [trunning EXCEPT ![k] = tstate[k] \in {"SCHEDULED", "RUNNING"}]
<1>1. PICK k \in Tasks, v \in States, c \in Seq(Stmt) :
           /\ Rest = Cons(SetRunning(k, v), c) /\ Runs(k) /\ tstate[k] = v /\ Follows(k, v, c)
           /\ Rest' = c /\ Aside'
           /\ trunning' = [trunning EXCEPT ![k] = v \in {"SCHEDULED", "RUNNING"}]
  BY SetRunningEffect
<1>2. c \in {Exec, Ret, Renew, GoOn(k)}
  BY <1>1 DEF Follows
<1>3. CASE c = GoOn(k)
  <2>1. v = "SCHEDULED"
    BY <1>1, <1>3, ProgramsDiffer DEF Follows
  <2>2. About({k}, {}, {}, {k}) /\ About({k}, {}, {}, {})'
    BY <1>1, <1>3, <2>1, AboutHolds, AboutNext DEF AboutInv
  <2> QED BY <1>1, <2>2
<1>4. CASE c \in {Exec, Ret, Renew}
  <2>1. About({}, {}, {}, {k})
    BY <1>1, <1>4, AboutHolds DEF AboutInv
  <2>2. Rest' \in {<<>>, Ret, Exec, StartCall, Renew, OffFxRunnable, Cons(CancelOwn, Ret)}
    BY <1>1, <1>4
  <2>3. About({}, {}, {}, {})'
    BY <2>2, AboutNext DEF AboutInv
  <2>4. trunning' = [trunning EXCEPT ![k] = tstate[k] \in {"SCHEDULED", "RUNNING"}]
    BY <1>1
  <2>5. {} \in SUBSET Tasks
    OBVIOUS
  <2> QED BY <2>1, <2>3, <2>4, <2>5, Zenon
<1> QED BY <1>2, <1>3, <1>4

LEMMA SetValueAbout ==
  ASSUME TypeInv, TodoInv, TaskSetValue
  PROVE  \E k \in Tasks :
           /\ About({}, {k}, {}, {}) /\ About({}, {k}, {k}, {})'
           /\ tvalue' = [tvalue EXCEPT ![k] = TRUE]
BY SetValueEffect, AboutHolds, AboutNext DEF AboutInv

LEMMA TakeAbout ==
  ASSUME TypeInv, TodoInv, FxTake
  PROVE  /\ About({}, {}, {}, {})
         /\ \/ Head(queue) = OffFxRunnable /\ About({}, {}, {}, {})'
            \/ \E k \in Tasks : Head(queue) = StartRunnable(k) /\ About({k}, {}, {}, {})'
            \/ \E k \in Tasks : /\ Head(queue) \in {SucceedRunnable(k), FailRunnable(k)}
                                /\ About({}, {k}, {}, {})'
<1>1. About({}, {}, {}, {})
  BY TakeEffect, AboutHolds DEF AboutInv
<1>2. Rest' = Head(queue)
  BY TakeEffect
<1>3. CASE Head(queue) = OffFxRunnable
  <2>1. Rest' \in {<<>>, Ret, Exec, StartCall, Renew, OffFxRunnable, Cons(CancelOwn, Ret)}
    BY <1>2, <1>3
  <2> QED BY <1>1, <1>3, <2>1, AboutNext DEF AboutInv
<1>4. ASSUME NEW k \in Tasks, Head(queue) = StartRunnable(k)
      PROVE  About({k}, {}, {}, {})'
  <2>1. Rest' \in {StartRunnable(k), GoOn(k)}
    BY <1>2, <1>4
  <2> QED BY <2>1, AboutNext DEF AboutInv
<1>5. ASSUME NEW k \in Tasks, Head(queue) \in {SucceedRunnable(k), FailRunnable(k)}
      PROVE  About({}, {k}, {}, {})'
  <2>1. Rest' \in {SucceedRunnable(k), FailRunnable(k)}
    BY <1>2, <1>5
  <2> QED BY <2>1, AboutNext DEF AboutInv
<1> QED BY <1>1, <1>3, <1>4, <1>5, TakeEffect

\* Only from the queue does the FX thread get a task's Runnable.
LEMMA NoNewRunnable ==
  ASSUME NoHandlerCalls, TypeInv, TodoInv, [Next]_vars
  PROVE  \/ FxTake
         \/ \A k \in Tasks : (Takes(k)' => Takes(k)) /\ (Ends(k)' => Ends(k))
<1> DEFINE Same == \A k \in Tasks : (Takes(k)' => Takes(k)) /\ (Ends(k)' => Ends(k))
<1>1. CASE TaskSetState
  <2>1. PICK k \in Tasks, v \in States :
          \E T, E, S, T1, R1 \in SUBSET Tasks :
            /\ About(T, E, S, {}) /\ About(T1, {}, {}, R1)' /\ SetsAbout(k, v, T, E, S, T1)
    BY <1>1, SetStateAbout
  <2>2. PICK T \in SUBSET Tasks, E \in SUBSET Tasks, S \in SUBSET Tasks, T1 \in SUBSET Tasks,
             R1 \in SUBSET Tasks :
          About(T, E, S, {}) /\ About(T1, {}, {}, R1)' /\ SetsAbout(k, v, T, E, S, T1)
    BY <2>1
  <2>3. T1 \subseteq T
    BY <2>2 DEF SetsAbout
  <2> QED BY <2>2, <2>3 DEF About
<1>2. CASE TaskSetRunning
  BY <1>2, SetRunningAbout DEF About
<1>3. CASE TaskSetValue
  BY <1>3, SetValueAbout DEF About
<1>4. Still => Same
  BY DEF Still
<1> HIDE DEF Same
<1> QED BY <1>1, <1>2, <1>3, <1>4, NextCases, StillStep DEF Same

LEMMA RunnablesDiffer ==
  \A j, k \in Tasks :
    /\ StartRunnable(j) = StartRunnable(k) <=> j = k
    /\ SucceedRunnable(j) = SucceedRunnable(k) <=> j = k
    /\ FailRunnable(j) = FailRunnable(k) <=> j = k
    /\ StartRunnable(j) # SucceedRunnable(k) /\ StartRunnable(j) # FailRunnable(k)
    /\ SucceedRunnable(j) # FailRunnable(k)
    /\ OffFxRunnable \notin {StartRunnable(k), SucceedRunnable(k), FailRunnable(k)}
<1> SUFFICES ASSUME NEW j \in Tasks, NEW k \in Tasks
             PROVE  /\ StartRunnable(j) = StartRunnable(k) <=> j = k
                    /\ SucceedRunnable(j) = SucceedRunnable(k) <=> j = k
                    /\ FailRunnable(j) = FailRunnable(k) <=> j = k
                    /\ StartRunnable(j) # SucceedRunnable(k) /\ StartRunnable(j) # FailRunnable(k)
                    /\ SucceedRunnable(j) # FailRunnable(k)
                    /\ OffFxRunnable \notin {StartRunnable(k), SucceedRunnable(k), FailRunnable(k)}
  OBVIOUS
<1>1. \A i : /\ StartRunnable(i)[1] = SetState(i, "SCHEDULED")
             /\ SucceedRunnable(i)[1] = SetValue(i) /\ FailRunnable(i)[1] = SetState(i, "FAILED")
  BY DEF StartRunnable, SucceedRunnable, FailRunnable, SetValue
<1>2. OffFxRunnable[1] = Do("schedule")
  BY DEF OffFxRunnable
<1> QED BY <1>1, <1>2, StatementsDiffer, OthersDiffer

\* What the FX thread leaves alone.
LEMMA QueueKept ==
  ASSUME \/ TaskSetState \/ TaskSetRunning \/ TaskSetValue \/ TaskCancel \/ Execute \/ Schedule
         \/ SetOwnState \/ Abandon \/ ResetState \/ ResetRest \/ Start \/ MethodReturn \/ Hook
         \/ (\E m \in Methods : Call(m)) \/ UNCHANGED vars
  PROVE  queue' = queue
BY DEF TaskSetState, TaskSetRunning, TaskSetValue, TaskCancel, Execute, Schedule, SetOwnState,
       Abandon, ResetState, ResetRest, Start, MethodReturn, Hook, Call, vars

\* The order of the Runnables.
LEMMA OrderStep ==
  ASSUME NoHandlerCalls, TypeInv, TodoInv, OrderInv, StateInv, [Next]_vars
  PROVE  OrderInv'
<1>r. \A k \in Tasks : /\ StartRunnable(k) \in Runnables /\ SucceedRunnable(k) \in Runnables
                       /\ FailRunnable(k) \in Runnables
  BY DEF Runnables
<1>q. queue \in Seq(Runnables)
  BY DEF TypeInv
<1>1. CASE FxTake
  <2>1. queue # <<>> /\ queue' = Tail(queue)
    BY <1>1 DEF FxTake
  <2>2. \A x : /\ Has(queue, x) <=> Head(queue) = x \/ Has(queue', x)
               /\ Single(queue, x) => Single(queue', x) /\ (Head(queue) = x => ~Has(queue', x))
               /\ \A y : Before(queue, x, y)
                           => Before(queue', x, y) /\ (Head(queue) = y => ~Has(queue, x))
    BY <1>q, <2>1, TailHas
  <2> SUFFICES ASSUME NEW k \in Tasks
               PROVE  /\ Takes(k)' => ~Has(queue', StartRunnable(k))
                      /\ Ends(k)' => /\ ~Has(queue', SucceedRunnable(k)) /\ ~Has(queue', FailRunnable(k))
                                     /\ ~Has(queue', StartRunnable(k))
    BY <2>2 DEF OrderInv
  <2>3. Takes(k)' => Head(queue) = StartRunnable(k)
    BY <1>1, TakeAbout DEF About
  <2>4. Ends(k)' => Head(queue) \in {SucceedRunnable(k), FailRunnable(k)}
    BY <1>1, TakeAbout DEF About
  <2> QED BY <2>2, <2>3, <2>4 DEF OrderInv
<1>2. CASE ~FxTake /\ queue' = queue
  <2>1. \A k \in Tasks : (Takes(k)' => Takes(k)) /\ (Ends(k)' => Ends(k))
    BY <1>2, NoNewRunnable
  <2> QED BY <1>2, <2>1 DEF OrderInv
<1>3. ASSUME ~FxTake, NEW e \in Runnables, queue' = Append(queue, e),
             \A j \in Tasks : /\ e = StartRunnable(j) => ~StartDue(j) /\ ~EndDue(j)
                              /\ e \in {SucceedRunnable(j), FailRunnable(j)} => ~EndDue(j)
      PROVE  OrderInv'
  <2>1. \A x : /\ Has(queue', x) <=> Has(queue, x) \/ e = x
               /\ Single(queue, x) /\ (e = x => ~Has(queue, x)) => Single(queue', x)
               /\ \A y : Before(queue, x, y) /\ x # y /\ (e = x => ~Has(queue, y))
                           => Before(queue', x, y)
    BY <1>q, <1>3, AppendHas
  <2>2. \A k \in Tasks : (Takes(k)' => Takes(k)) /\ (Ends(k)' => Ends(k))
    BY <1>3, NoNewRunnable
  <2> SUFFICES ASSUME NEW k \in Tasks PROVE OrderInv!(k)'
    BY DEF OrderInv
  <2>3. Single(queue', StartRunnable(k)) /\ (Takes(k)' => ~Has(queue', StartRunnable(k)))
    BY <1>3, <2>1, <2>2 DEF OrderInv, StartDue
  <2>4. Single(queue', SucceedRunnable(k)) /\ Single(queue', FailRunnable(k))
    BY <1>3, <2>1 DEF OrderInv, EndDue
  <2>5. ~(Has(queue', SucceedRunnable(k)) /\ Has(queue', FailRunnable(k)))
    BY <1>3, <2>1, RunnablesDiffer DEF OrderInv, EndDue
  <2>6. Ends(k)' => /\ ~Has(queue', SucceedRunnable(k)) /\ ~Has(queue', FailRunnable(k))
                    /\ ~Has(queue', StartRunnable(k))
    BY <1>3, <2>1, <2>2 DEF OrderInv, EndDue
  <2>7. /\ Before(queue', StartRunnable(k), SucceedRunnable(k))
        /\ Before(queue', StartRunnable(k), FailRunnable(k))
    BY <1>3, <2>1, RunnablesDiffer DEF OrderInv, EndDue
  <2> QED BY <2>3, <2>4, <2>5, <2>6, <2>7
<1>4. CASE StartOffFx
  <2>1. OffFxRunnable \in Runnables /\ queue' = Append(queue, OffFxRunnable)
    BY <1>4 DEF StartOffFx, Runnables
  <2>2. ~FxTake
    BY <1>4 DEF StartOffFx, CreateAndBind, FxTake, taskVars, TypeInv, TypeOK
  <2> QED BY <2>1, <2>2, <1>3, RunnablesDiffer
<1>5. ASSUME NEW k \in Tasks, Pool(k) PROVE OrderInv'
  <2>1. CASE ~FxTake /\ TaskRun(k)
    <3>1. wpc[k] = "queued" /\ (queue' = queue \/ queue' = Append(queue, StartRunnable(k)))
      BY <2>1 DEF TaskRun
    <3>2. ~StartDue(k) /\ ~EndDue(k)
      BY <3>1 DEF StateInv
    <3>3. CASE queue' = Append(queue, StartRunnable(k))
      BY <1>r, <1>3, <2>1, <3>2, <3>3, RunnablesDiffer
    <3> QED BY <1>2, <2>1, <3>1, <3>3
  <2>2. CASE ~FxTake /\ CallEnds(k)
    <3>1. ~EndDue(k)
      BY <2>2 DEF StateInv, CallEnds
    <3>2. CASE queue' = Append(queue, SucceedRunnable(k))
      BY <1>r, <1>3, <2>2, <3>1, <3>2, RunnablesDiffer
    <3>3. CASE queue' = Append(queue, FailRunnable(k))
      BY <1>r, <1>3, <2>2, <3>1, <3>3, RunnablesDiffer
    <3> QED BY <2>2, <3>2, <3>3 DEF CallEnds
  <2>3. CASE FutureDone(k)
    BY <1>1, <1>2, <2>3 DEF FutureDone
  <2> QED BY <1>1, <1>5, <2>1, <2>2, <2>3 DEF Pool
<1>6. CASE \/ TaskSetState \/ TaskSetRunning \/ TaskSetValue \/ TaskCancel \/ Execute \/ Schedule
           \/ SetOwnState \/ Abandon \/ ResetState \/ ResetRest \/ Start \/ MethodReturn \/ Hook
           \/ (\E m \in Methods : Call(m)) \/ UNCHANGED vars
  <2>1. queue' = queue
    BY <1>6, QueueKept
  <2> QED BY <2>1, <1>1, <1>2
<1> QED BY <1>1, <1>4, <1>5, <1>6, NextCases DEF PoolStep

\* What is due of a task stays due, whether it waits in the queue or is under way.
SameDue == \A k \in Tasks : (StartDue(k)' <=> StartDue(k)) /\ (EndDue(k)' <=> EndDue(k))

LEMMA DueKept ==
  ASSUME NoHandlerCalls, TypeInv, TodoInv, [Next]_vars, ~TaskSetState, ~PoolStep
  PROVE  SameDue
<1>q. queue \in Seq(Runnables)
  BY DEF TypeInv
<1>1. ASSUME queue' = queue,
             \A k \in Tasks : (Takes(k)' <=> Takes(k)) /\ (Ends(k)' <=> Ends(k))
      PROVE  SameDue
  BY <1>1 DEF SameDue, StartDue, EndDue
<1>2. CASE TaskSetRunning
  BY <1>1, <1>2, SetRunningAbout, QueueKept DEF About
<1>3. CASE TaskSetValue
  BY <1>1, <1>3, SetValueAbout, QueueKept DEF About
<1>4. CASE FxTake
  <2>1. queue # <<>> /\ queue' = Tail(queue)
    BY <1>4 DEF FxTake
  <2>2. \A x : Has(queue, x) <=> Head(queue) = x \/ Has(queue', x)
    BY <1>q, <2>1, TailHas
  <2>3. ASSUME NEW k \in Tasks
        PROVE  /\ Takes(k)' <=> Head(queue) = StartRunnable(k)
               /\ Ends(k)' <=> Head(queue) \in {SucceedRunnable(k), FailRunnable(k)}
               /\ ~Takes(k) /\ ~Ends(k)
    BY <1>4, TakeAbout, RunnablesDiffer DEF About
  <2> QED BY <2>2, <2>3 DEF SameDue, StartDue, EndDue
<1>5. CASE StartOffFx
  <2>1. Still /\ queue' = Append(queue, OffFxRunnable) /\ OffFxRunnable \in Runnables
    BY <1>5, StillStep DEF StartOffFx, Runnables
  <2>2. \A x : Has(queue', x) <=> Has(queue, x) \/ OffFxRunnable = x
    BY <1>q, <2>1, AppendHas
  <2> QED BY <2>1, <2>2, RunnablesDiffer DEF SameDue, StartDue, EndDue, Still
<1>6. CASE \/ TaskCancel \/ Execute \/ Schedule \/ SetOwnState \/ Abandon \/ ResetState \/ ResetRest
           \/ Start \/ MethodReturn \/ Hook \/ (\E m \in Methods : Call(m)) \/ UNCHANGED vars
  <2>1. Still /\ queue' = queue
    BY <1>6, StillStep, QueueKept
  <2> QED BY <1>1, <2>1 DEF Still
<1> QED BY <1>2, <1>3, <1>4, <1>5, <1>6, NextCases

\* The state of a task and its Runnables.
LEMMA StateStep ==
  ASSUME NoHandlerCalls, TypeInv, TodoInv, OrderInv, StateInv, [Next]_vars
  PROVE  StateInv'
<1>q. queue \in Seq(Runnables)
  BY DEF TypeInv
<1>1. CASE TaskSetState
  <2>1. PICK k \in Tasks, v \in States, T \in SUBSET Tasks, E \in SUBSET Tasks, S \in SUBSET Tasks,
             T1 \in SUBSET Tasks, R1 \in SUBSET Tasks :
           /\ About(T, E, S, {}) /\ About(T1, {}, {}, R1)' /\ SetsAbout(k, v, T, E, S, T1)
           /\ \/ tstate[k] # "CANCELLED" /\ tstate' = [tstate EXCEPT ![k] = v]
              \/ tstate[k] = "CANCELLED" /\ tstate' = tstate
    BY <1>1, SetStateAbout
  <2>2. queue' = queue /\ wpc' = wpc
    BY <1>1 DEF TaskSetState
  <2>3. ASSUME NEW j \in Tasks, j # k PROVE StateInv!(j)'
    <3>1. (Takes(j)' <=> Takes(j)) /\ (Ends(j)' <=> Ends(j)) /\ tstate'[j] = tstate[j]
      BY <2>1, <2>3 DEF About, SetsAbout, TypeInv, TypeOK
    <3>2. (StartDue(j)' <=> StartDue(j)) /\ (EndDue(j)' <=> EndDue(j)) /\ wpc'[j] = wpc[j]
      BY <2>2, <3>1 DEF StartDue, EndDue
    <3> QED BY <3>1, <3>2 DEF StateInv, Unbegun
  <2>4. tstate'[k] = IF tstate[k] = "CANCELLED" THEN "CANCELLED" ELSE v
    BY <2>1 DEF TypeInv, TypeOK
  <2>5. CASE T = {} /\ E = {}
    <3>1. (StartDue(k)' <=> StartDue(k)) /\ (EndDue(k)' <=> EndDue(k)) /\ wpc'[k] = wpc[k]
      BY <2>1, <2>2, <2>5 DEF About, SetsAbout, StartDue, EndDue
    <3>2. (v = "SCHEDULED" /\ Unbegun(k)) \/ v = "CANCELLED"
      BY <2>1, <2>5 DEF SetsAbout
    <3>3. StateInv!(k)'
      BY <2>4, <3>1, <3>2 DEF StateInv, Unbegun
    <3> QED BY <2>3, <3>3 DEF StateInv
  <2>6. CASE T = {k}
    <3>1. StartDue(k) /\ (EndDue(k)' <=> EndDue(k)) /\ wpc'[k] = wpc[k]
      BY <2>1, <2>2, <2>6 DEF About, SetsAbout, StartDue, EndDue
    <3>2. IF v = "SCHEDULED" THEN StartDue(k)' ELSE v = "RUNNING" /\ ~StartDue(k)'
      BY <2>1, <2>2, <2>6 DEF About, SetsAbout, StartDue, OrderInv
    <3>3. StateInv!(k)'
      BY <2>4, <3>1, <3>2 DEF StateInv, Unbegun
    <3> QED BY <2>3, <3>3 DEF StateInv
  <2>7. CASE E = {k}
    <3>1. EndDue(k) /\ ~EndDue(k)' /\ ~StartDue(k)' /\ wpc'[k] = wpc[k] /\ v \in {"SUCCEEDED", "FAILED"}
      BY <2>1, <2>2, <2>7 DEF About, SetsAbout, StartDue, EndDue, OrderInv
    <3>2. StateInv!(k)'
      BY <2>4, <3>1 DEF StateInv, Unbegun
    <3> QED BY <2>3, <3>2 DEF StateInv
  <2> QED BY <2>1, <2>5, <2>6, <2>7 DEF SetsAbout
<1>2. CASE Execute
  <2>0. Still /\ queue' = queue
    BY <1>2, StillStep, QueueKept
  <2>1. SameDue /\ task \in Tasks /\ tstate[task] # "READY" /\ tstate' = tstate
    BY <1>2, <2>0, ExecuteEffect DEF Execute, Still, SameDue, StartDue, EndDue
  <2>2. wpc' = IF wpc[task] = "new" THEN [wpc EXCEPT ![task] = "queued"] ELSE wpc
    BY <1>2, ExecuteEffect
  <2> SUFFICES ASSUME NEW k \in Tasks PROVE StateInv!(k)'
    BY DEF StateInv
  <2>3. wpc'[k] = wpc[k] \/ (wpc[k] = "new" /\ wpc'[k] = "queued" /\ k = task)
    BY <2>1, <2>2 DEF TypeInv, TypeOK
  <2> QED BY <2>1, <2>3 DEF StateInv, SameDue, Unbegun
<1>3. ASSUME NEW k \in Tasks, Pool(k) PROVE StateInv'
  <2>0. Still /\ tstate' = tstate
    BY <1>3, StillStep DEF PoolStep, Pool, TaskRun, CallEnds, FutureDone
  <2>r. /\ StartRunnable(k) \in Runnables /\ SucceedRunnable(k) \in Runnables
        /\ FailRunnable(k) \in Runnables
    BY DEF Runnables
  <2> SUFFICES ASSUME NEW j \in Tasks PROVE StateInv!(j)'
    BY DEF StateInv
  <2>1. CASE queue' = queue
    <3>1. (StartDue(j)' <=> StartDue(j)) /\ (EndDue(j)' <=> EndDue(j))
      BY <2>0, <2>1 DEF Still, StartDue, EndDue
    <3>2. wpc'[j] = wpc[j] \/ (wpc'[j] = "end" /\ wpc[j] # "new")
      <4>1. CASE TaskRun(k)
        <5>1. wpc' = [wpc EXCEPT ![k] = "end"] /\ wpc[k] = "queued"
          BY <1>q, <2>r, <2>1, <4>1, AppendAt DEF TaskRun
        <5> QED BY <5>1 DEF TypeInv, TypeOK
      <4>2. CASE CallEnds(k)
        BY <1>q, <2>r, <2>1, <4>2, AppendAt DEF CallEnds
      <4>3. CASE FutureDone(k)
        BY <4>3 DEF FutureDone, TypeInv, TypeOK
      <4> QED BY <1>3, <4>1, <4>2, <4>3 DEF Pool
    <3> QED BY <2>0, <3>1, <3>2 DEF StateInv, Unbegun
  <2>2. CASE TaskRun(k) /\ queue' = Append(queue, StartRunnable(k))
    <3>1. \A x : Has(queue', x) <=> Has(queue, x) \/ StartRunnable(k) = x
      BY <1>q, <2>r, <2>2, AppendHas
    <3>2. wpc[k] = "queued" /\ wpc' = [wpc EXCEPT ![k] = "call"]
      BY <1>q, <2>r, <2>2, AppendAt DEF TaskRun
    <3>3. StartDue(k)' /\ ~EndDue(k)'
      BY <2>0, <3>1, <3>2, RunnablesDiffer DEF StateInv, Still, StartDue, EndDue
    <3>4. j # k => (StartDue(j)' <=> StartDue(j)) /\ (EndDue(j)' <=> EndDue(j))
      BY <2>0, <3>1, RunnablesDiffer DEF Still, StartDue, EndDue
    <3>5. wpc'[j] = IF j = k THEN "call" ELSE wpc[j]
      BY <3>2 DEF TypeInv, TypeOK
    <3> QED BY <2>0, <3>2, <3>3, <3>4, <3>5 DEF StateInv, Unbegun
  <2>3. ASSUME NEW e \in {SucceedRunnable(k), FailRunnable(k)}, NEW p \in {"set", "setException"},
               wpc[k] = "call", queue' = Append(queue, e), wpc' = [wpc EXCEPT ![k] = p]
        PROVE  StateInv!(j)'
    <3>1. \A x : Has(queue', x) <=> Has(queue, x) \/ e = x
      BY <1>q, <2>r, <2>3, AppendHas
    <3>2. EndDue(k)' /\ (StartDue(k)' <=> StartDue(k))
      BY <2>0, <3>1, RunnablesDiffer DEF Still, StartDue, EndDue
    <3>3. j # k => (StartDue(j)' <=> StartDue(j)) /\ (EndDue(j)' <=> EndDue(j))
      BY <2>0, <3>1, RunnablesDiffer DEF Still, StartDue, EndDue
    <3>4. wpc'[j] = IF j = k THEN p ELSE wpc[j]
      BY <2>3 DEF TypeInv, TypeOK
    <3> QED BY <2>0, <2>3, <3>2, <3>3, <3>4 DEF StateInv, Unbegun
  <2>4. CASE TaskRun(k)
    BY <2>1, <2>2, <2>4 DEF TaskRun
  <2>5. CASE CallEnds(k)
    BY <2>3, <2>5 DEF CallEnds
  <2>6. CASE FutureDone(k)
    BY <2>1, <2>6 DEF FutureDone
  <2> QED BY <1>3, <2>4, <2>5, <2>6 DEF Pool
<1>4. CASE ~TaskSetState /\ ~Execute /\ ~PoolStep
  <2>1. SameDue
    BY <1>4, DueKept
  <2>2. UNCHANGED <<wpc, tstate>>
    <3>1. CASE TaskSetRunning \/ TaskSetValue \/ TaskCancel \/ Schedule \/ SetOwnState \/ Abandon
      BY <3>1 DEF TaskSetRunning, TaskSetValue, TaskCancel, Schedule, SetOwnState, Abandon, taskVars
    <3>2. CASE ResetState \/ ResetRest \/ Start \/ MethodReturn \/ Hook
      BY <3>2 DEF ResetState, ResetRest, Start, CreateAndBind, MethodReturn, Hook, taskVars
    <3>3. CASE FxTake \/ (\E m \in Methods : Call(m)) \/ StartOffFx \/ UNCHANGED vars
      BY <3>3 DEF FxTake, Call, StartOffFx, CreateAndBind, vars, taskVars
    <3> QED BY <1>4, <3>1, <3>2, <3>3, NextCases
  <2> QED BY <2>1, <2>2 DEF SameDue, StateInv, Unbegun
<1> QED BY <1>1, <1>2, <1>3, <1>4 DEF PoolStep

\* The Runnable of an off-FX start.
LEMMA OffFxStep ==
  ASSUME NoHandlerCalls, TypeInv, TodoInv, OrderInv, StateInv, OffFxInv, TaskInv, OnceInv, [Next]_vars
  PROVE  OffFxInv'
<1>q. queue \in Seq(Runnables)
  BY DEF TypeInv
<1> SUFFICES ASSUME Has(queue', OffFxRunnable)
             PROVE  /\ Head(queue') = OffFxRunnable /\ Single(queue', OffFxRunnable)
                    /\ \A k \in Tasks : Unbegun(k)' /\ ~Takes(k)' /\ ~Ends(k)'
  BY DEF OffFxInv
<1>1. CASE FxTake
  <2>1. queue # <<>> /\ queue' = Tail(queue)
    BY <1>1 DEF FxTake
  <2>2. /\ Has(queue, OffFxRunnable) <=> Head(queue) = OffFxRunnable \/ Has(queue', OffFxRunnable)
        /\ Single(queue, OffFxRunnable) => (Head(queue) = OffFxRunnable => ~Has(queue', OffFxRunnable))
    BY <1>q, <2>1, TailHas
  <2> QED BY <2>2 DEF OffFxInv
<1>2. CASE StartOffFx
  <2>1. queue = <<>> /\ created = 0 /\ tstate' = tstate
    BY <1>2 DEF StartOffFx, OnceInv, CreateAndBind
  <2>2. queue' = <<OffFxRunnable>>
    BY <1>2, <2>1 DEF StartOffFx
  <2>3. Head(queue') = OffFxRunnable /\ Single(queue', OffFxRunnable)
    BY <2>2, OneHas
  <2>4. ASSUME NEW k \in Tasks PROVE Unbegun(k)' /\ ~Takes(k)' /\ ~Ends(k)'
    <3>1. k > created
      BY <2>1, BoundAssumption DEF Tasks
    <3>2. wpc[k] = "new" /\ tstate[k] = "READY"
      BY <3>1 DEF TaskInv
    <3>3. ~Takes(k) /\ ~Ends(k)
      BY <3>2 DEF StateInv, StartDue, EndDue
    <3> QED BY <1>2, <2>1, <3>2, <3>3, StillStep DEF Still, Unbegun
  <2> QED BY <2>3, <2>4
<1>3. CASE TaskSetState
  <2>1. PICK k \in Tasks, v \in States, T \in SUBSET Tasks, E \in SUBSET Tasks, S \in SUBSET Tasks,
             T1 \in SUBSET Tasks, R1 \in SUBSET Tasks :
           /\ About(T, E, S, {}) /\ About(T1, {}, {}, R1)' /\ SetsAbout(k, v, T, E, S, T1)
           /\ \/ tstate[k] # "CANCELLED" /\ tstate' = [tstate EXCEPT ![k] = v]
              \/ tstate[k] = "CANCELLED" /\ tstate' = tstate
    BY <1>3, SetStateAbout
  <2>2. queue' = queue
    BY <1>3 DEF TaskSetState
  <2>3. T = {} /\ E = {} /\ \A j \in Tasks : Unbegun(j)
    BY <2>1, <2>2 DEF OffFxInv, About
  <2>4. T1 = {} /\ v \in {"SCHEDULED", "CANCELLED"}
    BY <2>1, <2>3 DEF SetsAbout
  <2>5. \A j \in Tasks : Unbegun(j)'
    BY <2>1, <2>3, <2>4 DEF Unbegun, TypeInv, TypeOK
  <2>6. \A j \in Tasks : ~Takes(j)' /\ ~Ends(j)'
    BY <2>1, <2>4 DEF About
  <2> QED BY <2>2, <2>5, <2>6 DEF OffFxInv
<1>4. ASSUME NEW k \in Tasks, Pool(k)
      PROVE  /\ Head(queue') = OffFxRunnable /\ Single(queue', OffFxRunnable)
             /\ \A j \in Tasks : Unbegun(j)' /\ ~Takes(j)' /\ ~Ends(j)'
  <2>1. Still /\ tstate' = tstate
    BY <1>4, StillStep DEF PoolStep, Pool, TaskRun, CallEnds, FutureDone
  <2>2. \/ queue' = queue
        \/ \E e \in {StartRunnable(k), SucceedRunnable(k), FailRunnable(k)} : queue' = Append(queue, e)
    BY <1>4 DEF Pool, TaskRun, CallEnds, FutureDone
  <2>3. CASE queue' = queue
    BY <2>1, <2>3 DEF OffFxInv, Still, Unbegun
  <2>4. ASSUME NEW e \in {StartRunnable(k), SucceedRunnable(k), FailRunnable(k)},
               queue' = Append(queue, e)
        PROVE  /\ Head(queue') = OffFxRunnable /\ Single(queue', OffFxRunnable)
               /\ \A j \in Tasks : Unbegun(j)' /\ ~Takes(j)' /\ ~Ends(j)'
    <3>1. e \in Runnables /\ e # OffFxRunnable
      BY RunnablesDiffer DEF Runnables
    <3>2. /\ Has(queue', OffFxRunnable) <=> Has(queue, OffFxRunnable) \/ e = OffFxRunnable
          /\ Single(queue, OffFxRunnable) /\ (e = OffFxRunnable => ~Has(queue, OffFxRunnable))
               => Single(queue', OffFxRunnable)
      BY <1>q, <2>4, <3>1, AppendHas
    <3>3. Has(queue, OffFxRunnable)
      BY <3>1, <3>2
    <3>4. queue # <<>>
      BY <3>3, EmptyHas
    <3>5. Head(queue') = Head(queue)
      <4>1. queue' \in Seq(Runnables) /\ Len(queue') = Len(queue) + 1 /\ queue'[1] = queue[1]
        BY <1>q, <2>4, <3>1, <3>4, AppendAt, TailAt
      <4> QED BY <1>q, <3>4, <4>1
    <3> QED BY <2>1, <3>1, <3>2, <3>3, <3>5 DEF OffFxInv, Still, Unbegun
  <2> QED BY <2>2, <2>3, <2>4
<1>5. CASE ~FxTake /\ queue' = queue /\ tstate' = tstate
  <2>1. \A k \in Tasks : (Takes(k)' => Takes(k)) /\ (Ends(k)' => Ends(k))
    BY <1>5, NoNewRunnable
  <2> QED BY <1>5, <2>1 DEF OffFxInv, Unbegun
<1>6. CASE \/ TaskSetRunning \/ TaskSetValue \/ TaskCancel \/ Execute \/ Schedule
           \/ SetOwnState \/ Abandon \/ ResetState \/ ResetRest \/ Start \/ MethodReturn \/ Hook
           \/ (\E m \in Methods : Call(m)) \/ UNCHANGED vars
  <2>1. tstate' = tstate
    <3>1. CASE TaskSetRunning \/ TaskSetValue \/ TaskCancel \/ Execute \/ Schedule \/ SetOwnState
      BY <3>1 DEF TaskSetRunning, TaskSetValue, TaskCancel, Execute, Schedule, SetOwnState, taskVars
    <3>2. CASE Abandon \/ ResetState \/ ResetRest \/ Start \/ MethodReturn \/ Hook
      BY <3>2 DEF Abandon, ResetState, ResetRest, Start, CreateAndBind, MethodReturn, Hook, taskVars
    <3>3. CASE (\E m \in Methods : Call(m)) \/ UNCHANGED vars
      BY <3>3 DEF Call, vars, taskVars
    <3> QED BY <1>6, <3>1, <3>2, <3>3
  <2>2. queue' = queue
    BY <1>6, QueueKept
  <2> QED BY <2>1, <2>2, <1>1, <1>5
<1> QED BY <1>1, <1>2, <1>3, <1>4, <1>6, NextCases DEF PoolStep

\* The FutureTask, the value and running of a task.
RunningOk(k) == (trunning[k] <=> tstate[k] \in {"SCHEDULED", "RUNNING"}) \/ Runs(k)

LEMMA TaskKept ==
  ASSUME TaskInv, Still, UNCHANGED <<tstate, trunning, tvalue>>,
         \A k \in Tasks :
           /\ k > created' => wpc'[k] = "new" /\ tstate[k] = "READY"
           /\ fut[k] = "CANCELLED" => fut'[k] = "CANCELLED"
           /\ fut'[k] \in {"NORMAL", "EXCEPTIONAL"} => wpc'[k] = "end"
  PROVE  TaskInv'
<1> SUFFICES ASSUME NEW k \in Tasks
             PROVE  /\ tstate'[k] = "SUCCEEDED" \/ Succeeds(k)' => tvalue'[k]
                    /\ RunningOk(k)'
  BY DEF TaskInv, RunningOk
<1>1. tstate'[k] = "SUCCEEDED" \/ Succeeds(k)' => tvalue'[k]
  BY DEF TaskInv, Still
<1>2. RunningOk(k)'
  <2>1. RunningOk(k) /\ (Runs(k)' <=> Runs(k)) /\ trunning'[k] = trunning[k] /\ tstate'[k] = tstate[k]
    BY DEF TaskInv, RunningOk, Still
  <2> QED BY <2>1, Zenon DEF RunningOk
<1> QED BY <1>1, <1>2

LEMMA TaskStep ==
  ASSUME NoHandlerCalls, TypeInv, TodoInv, StateInv, TaskInv, [Next]_vars
  PROVE  TaskInv'
<1>1. CASE TaskSetState
  <2>1. PICK k \in Tasks, v \in States, T \in SUBSET Tasks, E \in SUBSET Tasks, S \in SUBSET Tasks,
             T1 \in SUBSET Tasks, R1 \in SUBSET Tasks :
           /\ About(T, E, S, {}) /\ About(T1, {}, {}, R1)' /\ SetsAbout(k, v, T, E, S, T1)
           /\ k = task \/ k \in T \/ k \in E
           /\ \/ tstate[k] # "CANCELLED" /\ tstate' = [tstate EXCEPT ![k] = v] /\ R1 = {k}
              \/ tstate[k] = "CANCELLED" /\ tstate' = tstate /\ R1 = {}
    BY <1>1, SetStateAbout
  <2>2. UNCHANGED <<fut, wpc, trunning, tvalue, created>>
    BY <1>1 DEF TaskSetState
  <2>3. k <= created
    <3>1. CASE k = task
      BY <3>1 DEF TypeInv, TypeOK
    <3>2. CASE k \in T \/ k \in E
      <4>1. wpc[k] # "new"
        BY <2>1, <3>2 DEF About, StateInv, StartDue, EndDue
      <4> QED BY <4>1, BoundAssumption DEF TaskInv, TypeInv, TypeOK, Tasks
    <3> QED BY <2>1, <3>1, <3>2
  <2> SUFFICES ASSUME NEW j \in Tasks
               PROVE  /\ j > created => wpc[j] = "new" /\ tstate'[j] = "READY"
                      /\ tstate'[j] = "CANCELLED" => fut[j] = "CANCELLED"
                      /\ fut[j] \in {"NORMAL", "EXCEPTIONAL"} => wpc[j] = "end"
                      /\ tstate'[j] = "SUCCEEDED" \/ Succeeds(j)' => tvalue[j]
                      /\ RunningOk(j)'
    BY <2>2 DEF TaskInv, RunningOk
  <2>4. tstate'[j] = tstate[j] \/ (j = k /\ tstate'[j] = v)
    BY <2>1 DEF TypeInv, TypeOK
  <2>5. j > created => wpc[j] = "new" /\ tstate'[j] = "READY"
    BY <2>3, <2>4, BoundAssumption DEF TaskInv, TypeInv, TypeOK, Tasks
  <2>6. tstate'[j] = "CANCELLED" => fut[j] = "CANCELLED"
    BY <2>1, <2>4 DEF TaskInv, SetsAbout
  <2>7. fut[j] \in {"NORMAL", "EXCEPTIONAL"} => wpc[j] = "end"
    BY DEF TaskInv
  <2>8. tstate'[j] = "SUCCEEDED" \/ Succeeds(j)' => tvalue[j]
    <3>1. ~Succeeds(j)' /\ (v = "SUCCEEDED" => Succeeds(k))
      BY <2>1 DEF About, SetsAbout
    <3> QED BY <2>4, <3>1 DEF TaskInv
  <2>9. RunningOk(j)'
    <3>1. Runs(j)' \/ tstate'[j] = tstate[j]
      BY <2>1, <2>4 DEF About, TypeInv, TypeOK
    <3>2. RunningOk(j) /\ ~Runs(j) /\ trunning'[j] = trunning[j]
      BY <2>1, <2>2 DEF TaskInv, RunningOk, About
    <3> QED BY <3>1, <3>2, Zenon DEF RunningOk
  <2> QED BY <2>5, <2>6, <2>7, <2>8, <2>9
<1>2. CASE TaskSetRunning
  <2>1. PICK k \in Tasks, T \in SUBSET Tasks :
           /\ About(T, {}, {}, {k}) /\ About(T, {}, {}, {})'
           /\ trunning' = [trunning EXCEPT ![k] = tstate[k] \in {"SCHEDULED", "RUNNING"}]
    BY <1>2, SetRunningAbout
  <2>2. UNCHANGED <<fut, wpc, tstate, tvalue, created>>
    BY <1>2 DEF TaskSetRunning
  <2>3. ASSUME NEW j \in Tasks PROVE RunningOk(j)'
    <3>1. CASE j = k
      <4>1. trunning'[j] <=> tstate[j] \in {"SCHEDULED", "RUNNING"}
        BY <2>1, <3>1, Zenon DEF TypeInv, TypeOK
      <4> QED BY <2>2, <4>1, Zenon DEF RunningOk
    <3>2. CASE j # k
      <4>1. trunning'[j] = trunning[j] /\ tstate'[j] = tstate[j] /\ ~Runs(j)
        BY <2>1, <2>2, <3>2 DEF TypeInv, TypeOK, About
      <4>2. RunningOk(j)
        BY DEF TaskInv, RunningOk
      <4> QED BY <4>1, <4>2, Zenon DEF RunningOk
    <3> QED BY <3>1, <3>2
  <2>4. \A j \in Tasks : ~Succeeds(j)'
    BY <2>1 DEF About
  <2> QED BY <2>2, <2>3, <2>4 DEF TaskInv, RunningOk
<1>3. CASE TaskSetValue
  <2>1. PICK k \in Tasks : /\ About({}, {k}, {}, {}) /\ About({}, {k}, {k}, {})'
                           /\ tvalue' = [tvalue EXCEPT ![k] = TRUE]
    BY <1>3, SetValueAbout
  <2>2. UNCHANGED <<fut, wpc, tstate, trunning, created>>
    BY <1>3 DEF TaskSetValue
  <2>3. ASSUME NEW j \in Tasks PROVE RunningOk(j)'
    <3>1. RunningOk(j) /\ ~Runs(j) /\ trunning'[j] = trunning[j] /\ tstate'[j] = tstate[j]
      BY <2>1, <2>2 DEF TaskInv, RunningOk, About
    <3> QED BY <3>1, Zenon DEF RunningOk
  <2>4. ASSUME NEW j \in Tasks, tstate'[j] = "SUCCEEDED" \/ Succeeds(j)' PROVE tvalue'[j]
    <3>1. CASE j = k
      BY <2>1, <3>1, Zenon DEF TypeInv, TypeOK
    <3>2. CASE j # k
      <4>1. ~Succeeds(j)' /\ tvalue'[j] = tvalue[j]
        BY <2>1, <3>2 DEF About, TypeInv, TypeOK
      <4> QED BY <2>2, <2>4, <4>1 DEF TaskInv
    <3> QED BY <3>1, <3>2
  <2> QED BY <2>2, <2>3, <2>4 DEF TaskInv, RunningOk
<1>4. CASE FxTake
  <2>1. UNCHANGED taskVars
    BY <1>4 DEF FxTake
  <2>2. \A k \in Tasks : ~Succeeds(k)' /\ ~Runs(k)' /\ ~Runs(k)
    BY <1>4, TakeAbout DEF About
  <2>3. ASSUME NEW j \in Tasks PROVE RunningOk(j)'
    <3>1. RunningOk(j) /\ ~Runs(j) /\ trunning'[j] = trunning[j] /\ tstate'[j] = tstate[j]
      BY <2>1, <2>2 DEF TaskInv, RunningOk, taskVars
    <3> QED BY <3>1, Zenon DEF RunningOk
  <2> QED BY <2>1, <2>2, <2>3 DEF TaskInv, RunningOk, taskVars
<1>5. CASE TaskCancel
  <2>1. UNCHANGED <<wpc, tstate, trunning, tvalue, created>>
    BY <1>5 DEF TaskCancel
  <2>2. \A k \in Tasks : fut'[k] \in {fut[k], "CANCELLED"}
    BY <1>5, CancelEffect DEF TypeInv, TypeOK
  <2>3. Still
    BY <1>5, StillStep
  <2> QED BY <2>1, <2>2, <2>3, TaskKept DEF TaskInv
<1>6. CASE Execute
  <2>1. UNCHANGED <<fut, tstate, trunning, tvalue, created>>
    BY <1>6 DEF Execute
  <2>2. task \in Tasks /\ task <= created
    BY <1>6, ExecuteEffect DEF TypeInv, TypeOK
  <2>3. \A k \in Tasks : wpc'[k] = wpc[k] \/ (k = task /\ wpc[k] = "new")
    BY <1>6, <2>2, ExecuteEffect DEF TypeInv, TypeOK
  <2>4. Still
    BY <1>6, StillStep
  <2>5. \A k \in Tasks : k > created => k # task
    BY <2>2, BoundAssumption DEF TypeInv, TypeOK, Tasks
  <2> QED BY <2>1, <2>3, <2>4, <2>5, TaskKept DEF TaskInv
<1>7. CASE Start \/ StartOffFx
  <2>1. UNCHANGED <<fut, wpc, tstate, trunning, tvalue>> /\ created' \in {created, created + 1}
    BY <1>7 DEF Start, StartOffFx, CreateAndBind, taskVars
  <2>2. Still
    BY <1>7, StillStep
  <2>3. \A k \in Tasks : k > created' => k > created
    BY <2>1, BoundAssumption DEF TypeInv, TypeOK, Tasks
  <2> QED BY <2>1, <2>2, <2>3, TaskKept DEF TaskInv
<1>8. ASSUME NEW k \in Tasks, Pool(k) PROVE TaskInv'
  <2>1. UNCHANGED <<tstate, trunning, tvalue, created>> /\ wpc[k] # "new"
    BY <1>8 DEF Pool, TaskRun, CallEnds, FutureDone
  <2>2. Still
    BY <1>8, StillStep DEF PoolStep
  <2>3. \A j \in Tasks : \/ wpc'[j] = wpc[j]
                         \/ j = k /\ wpc'[j] = "end"
                         \/ j = k /\ wpc[j] # "end" /\ fut'[j] = fut[j]
    <3>1. CASE TaskRun(k)
      BY <3>1 DEF TaskRun, TypeInv, TypeOK
    <3>2. CASE CallEnds(k)
      BY <3>2 DEF CallEnds, TypeInv, TypeOK
    <3>3. CASE FutureDone(k)
      BY <3>3 DEF FutureDone, TypeInv, TypeOK
    <3> QED BY <1>8, <3>1, <3>2, <3>3 DEF Pool
  <2>4. \A j \in Tasks : fut'[j] = fut[j] \/ (j = k /\ fut[j] = "NEW" /\ wpc'[j] = "end")
    <3>1. CASE TaskRun(k) \/ CallEnds(k)
      BY <3>1 DEF TaskRun, CallEnds
    <3>2. CASE FutureDone(k)
      BY <3>2 DEF FutureDone, TypeInv, TypeOK
    <3> QED BY <1>8, <3>1, <3>2 DEF Pool
  <2> QED BY <2>1, <2>2, <2>3, <2>4, TaskKept DEF TaskInv
<1>9. CASE \/ Schedule \/ SetOwnState \/ Abandon \/ ResetState \/ ResetRest \/ MethodReturn \/ Hook
           \/ (\E m \in Methods : Call(m)) \/ UNCHANGED vars
  <2>1. UNCHANGED taskVars
    BY <1>9 DEF Schedule, SetOwnState, Abandon, ResetState, ResetRest, MethodReturn, Hook, Call, vars
  <2>2. Still
    BY <1>9, StillStep
  <2> QED BY <2>1, <2>2, TaskKept DEF TaskInv, taskVars
<1> QED BY <1>1, <1>2, <1>3, <1>4, <1>5, <1>6, <1>7, <1>8, <1>9, NextCases DEF PoolStep

\* What the Service has let go of.
LEMMA LetGoStep ==
  ASSUME NoHandlerCalls, TypeInv, TodoInv, BindInv, StateInv, TaskInv, LetGoInv, [Next]_vars
  PROVE  LetGoInv'
<1>n. Null \notin Tasks
  BY BoundAssumption DEF Tasks, Null
<1>1. CASE \/ TaskSetState \/ TaskSetRunning \/ TaskSetValue \/ Schedule \/ SetOwnState \/ ResetRest
           \/ MethodReturn \/ Hook \/ FxTake \/ (\E m \in Methods : Call(m)) \/ UNCHANGED vars
  <2>1. UNCHANGED <<task, wpc, fut>>
    <3>1. CASE TaskSetState \/ TaskSetRunning \/ TaskSetValue \/ Schedule \/ SetOwnState \/ ResetRest
      BY <3>1 DEF TaskSetState, TaskSetRunning, TaskSetValue, Schedule, SetOwnState, ResetRest,
                  taskVars, svVars
    <3>2. CASE MethodReturn \/ Hook \/ FxTake \/ (\E m \in Methods : Call(m)) \/ UNCHANGED vars
      BY <3>2 DEF MethodReturn, Hook, FxTake, Call, vars, taskVars, svVars
    <3> QED BY <1>1, <3>1, <3>2
  <2> QED BY <2>1 DEF LetGoInv
<1>2. CASE TaskCancel
  <2>1. UNCHANGED <<task, wpc>> /\ \A k \in Tasks : fut'[k] \in {fut[k], "CANCELLED"}
    BY <1>2, CancelEffect DEF TaskCancel, svVars, TypeInv, TypeOK
  <2> QED BY <2>1 DEF LetGoInv
<1>3. CASE Execute
  <2>1. UNCHANGED <<task, fut>> /\ \A k \in Tasks : k # task => wpc'[k] = wpc[k]
    BY <1>3, ExecuteEffect DEF Execute, svVars, TypeInv, TypeOK
  <2> QED BY <2>1 DEF LetGoInv
<1>4. CASE Abandon
  <2>1. UNCHANGED <<fut, wpc>> /\ task \in Tasks /\ fut[task] # "NEW"
    BY <1>4, AbandonEffect DEF Abandon, taskVars
  <2>2. wpc[task] \in {"queued", "call"} => fut[task] = "CANCELLED"
    BY <2>1 DEF TaskInv, TypeInv, TypeOK
  <2> QED BY <2>1, <2>2 DEF LetGoInv
<1>5. CASE ResetState
  <2>1. UNCHANGED <<fut, wpc>>
    BY <1>5 DEF ResetState, taskVars
  <2>2. CASE task' = task
    BY <2>1, <2>2 DEF LetGoInv
  <2>3. CASE state \notin {"SCHEDULED", "RUNNING"}
    <3>1. ASSUME task \in Tasks, wpc[task] \in {"queued", "call"} PROVE fut[task] = "CANCELLED"
      <4>1. tstate[task] \notin {"SCHEDULED", "RUNNING"}
        BY <1>n, <2>3, <3>1 DEF state, BindInv
      <4>2. tstate[task] = "CANCELLED"
        BY <3>1, <4>1 DEF StateInv
      <4> QED BY <3>1, <4>2 DEF TaskInv
    <3> QED BY <2>1, <3>1 DEF LetGoInv
  <2> QED BY <1>5, <2>2, <2>3 DEF ResetState
<1>6. CASE Start \/ StartOffFx
  <2>1. UNCHANGED <<fut, wpc>>
    BY <1>6 DEF Start, StartOffFx, CreateAndBind, taskVars
  <2>2. CASE task' = task
    BY <2>1, <2>2 DEF LetGoInv
  <2>3. CASE state = "READY"
    <3>1. task \in Tasks => wpc[task] = "new"
      BY <1>n, <2>3 DEF state, BindInv, StateInv
    <3> QED BY <2>1, <3>1 DEF LetGoInv
  <2> QED BY <1>6, <2>2, <2>3 DEF Start, StartOffFx, svVars
<1>7. ASSUME NEW k \in Tasks, Pool(k) PROVE LetGoInv'
  <2>1. task' = task
    BY <1>7 DEF Pool, TaskRun, CallEnds, FutureDone, svVars
  <2>2. \A j \in Tasks : fut[j] = "CANCELLED" => fut'[j] = "CANCELLED"
    BY <1>7 DEF Pool, TaskRun, CallEnds, FutureDone, TypeInv, TypeOK
  <2>3. \A j \in Tasks : wpc'[j] \in {"queued", "call"} => wpc[j] \in {"queued", "call"}
    <3>1. CASE TaskRun(k)
      BY <3>1 DEF TaskRun, TypeInv, TypeOK
    <3>2. CASE CallEnds(k)
      BY <3>2 DEF CallEnds, TypeInv, TypeOK
    <3>3. CASE FutureDone(k)
      BY <3>3 DEF FutureDone, TypeInv, TypeOK
    <3> QED BY <1>7, <3>1, <3>2, <3>3 DEF Pool
  <2> QED BY <2>1, <2>2, <2>3 DEF LetGoInv
<1> QED BY <1>1, <1>2, <1>3, <1>4, <1>5, <1>6, <1>7, NextCases DEF PoolStep

LEMMA OnceStep ==
  ASSUME TypeInv, TaskInv, OnceInv, [Next]_vars
  PROVE  OnceInv'
<1>1. CASE Start \/ StartOffFx
  BY <1>1 DEF Start, StartOffFx, CreateAndBind, OnceInv, svVars, taskVars
<1>2. CASE FxTake
  BY <1>2 DEF FxTake, OnceInv, svVars, taskVars
<1>3. ASSUME NEW k \in Tasks, Pool(k) PROVE OnceInv'
  <2>1. wpc[k] # "new" /\ UNCHANGED <<created, startedOnce>>
    BY <1>3 DEF Pool, TaskRun, CallEnds, FutureDone, svVars
  <2>2. created # 0
    BY <2>1, BoundAssumption DEF TaskInv, Tasks
  <2> QED BY <2>1, <2>2 DEF OnceInv
<1>4. CASE \/ TaskSetState \/ TaskSetRunning \/ TaskSetValue \/ TaskCancel \/ Execute \/ Schedule
           \/ SetOwnState \/ Abandon \/ ResetState \/ ResetRest \/ MethodReturn \/ Hook
           \/ (\E m \in Methods : Call(m)) \/ UNCHANGED vars
  <2>1. queue' = queue
    BY <1>4, QueueKept
  <2>2. UNCHANGED <<created, startedOnce>>
    <3>1. CASE \/ TaskSetState \/ TaskSetRunning \/ TaskSetValue \/ TaskCancel \/ Execute \/ Schedule
               \/ SetOwnState
      BY <3>1 DEF TaskSetState, TaskSetRunning, TaskSetValue, TaskCancel, Execute, Schedule,
                  SetOwnState, taskVars, svVars
    <3>2. CASE \/ Abandon \/ ResetState \/ ResetRest \/ MethodReturn \/ Hook
               \/ (\E m \in Methods : Call(m)) \/ UNCHANGED vars
      BY <3>2 DEF Abandon, ResetState, ResetRest, MethodReturn, Hook, Call, vars, taskVars, svVars
    <3> QED BY <1>4, <3>1, <3>2
  <2> QED BY <2>1, <2>2 DEF OnceInv
<1> QED BY <1>1, <1>2, <1>3, <1>4, NextCases DEF PoolStep

-----------------------------------------------------------------------------
(***************************************************************************)
(* The theorems.                                                           *)
(***************************************************************************)
LEMMA InvInit == Init => Inv
<1> SUFFICES ASSUME Init PROVE Inv
  OBVIOUS
<1>1. Rest = <<>> /\ todo = <<>> /\ queue = <<>>
  BY DEF Init, Rest, At
<1>2. \A k \in Tasks : Quiet(k)
  BY <1>1, MarksHold DEF MarksInv
<1>3. \A x, y : ~Has(queue, x) /\ Single(queue, x) /\ Before(queue, x, y)
  BY <1>1, EmptyHas
<1>4. TodoInv
  BY <1>1 DEF TodoInv, Stage, Aside
<1>5. BindInv
  BY DEF Init, BindInv
<1>6. OrderInv /\ OffFxInv
  BY <1>2, <1>3 DEF OrderInv, OffFxInv, Quiet
<1>7. StateInv
  BY <1>2, <1>3 DEF Init, StateInv, StartDue, EndDue, Unbegun, Quiet
<1>8. TaskInv
  <2>1. \A k \in Tasks : ~trunning[k] /\ tstate[k] \notin {"SCHEDULED", "RUNNING"}
    BY DEF Init
  <2>2. \A k \in Tasks : /\ k > created => wpc[k] = "new" /\ tstate[k] = "READY"
                         /\ tstate[k] = "READY" /\ fut[k] = "NEW" /\ ~Succeeds(k)
    BY <1>2 DEF Init, Quiet
  <2> QED BY <2>1, <2>2 DEF TaskInv
<1>9. LetGoInv /\ OnceInv
  BY DEF Init, LetGoInv, OnceInv
<1> QED BY <1>4, <1>5, <1>6, <1>7, <1>8, <1>9, TypeInit DEF Inv

LEMMA InvStep ==
  ASSUME NoHandlerCalls
  PROVE  Inv /\ [Next]_vars => Inv'
BY TypeStep, TodoStep, BindStep, OrderStep, StateStep, OffFxStep, TaskStep, LetGoStep, OnceStep DEF Inv

\* Between two events the Service shows the task in its field or none: whatever
\* start, restart, cancel and reset have been called, and whatever the tasks that
\* were abandoned on the way still do, no property is left bound to one of them.
THEOREM ServiceShowsOneTask ==
  ASSUME NoHandlerCalls
  PROVE  Spec => []ShowsOneTask
<1>1. Inv => ShowsOneTask
  <2> SUFFICES ASSUME Inv, todo = <<>>
               PROVE  stateBound = task /\ restBound = task /\ (task = Null => value = Null)
    BY DEF ShowsOneTask
  <2>1. Rest = <<>>
    BY DEF Rest, At
  <2>2. ~Resetting
    BY <2>1, ResettingIs DEF Inv
  <2> QED BY <2>2 DEF Inv, BindInv, value
<1> QED BY <1>1, InvInit, InvStep, PTL DEF Spec

\* A task that restart(), reset() or start() let go of does not go on working: if
\* its call() is still to run or running, its FutureTask has been cancelled.
THEOREM NoTaskIsAbandoned ==
  ASSUME NoHandlerCalls
  PROVE  Spec => []NoAbandonedTask
<1>1. Inv => NoAbandonedTask
  BY DEF Inv, LetGoInv, NoAbandonedTask
<1> QED BY <1>1, InvInit, InvStep, PTL DEF Spec

\* The properties of the Service have their types; between two events running is
\* what the state says, and SUCCEEDED never shows without the value.
THEOREM ServicePropertiesAgree ==
  ASSUME NoHandlerCalls
  PROVE  Spec => []PropertiesAgree
<1>1. Inv => PropertiesAgree
  <2> SUFFICES ASSUME Inv PROVE PropertiesAgree
    OBVIOUS
  <2>t. task # Null => task \in Tasks
    BY BoundAssumption DEF Inv, TypeInv, TypeOK, Tasks, Null
  <2>1. RunningAgrees
    <3> SUFFICES ASSUME todo = <<>> PROVE running = (state \in {"SCHEDULED", "RUNNING"})
      BY DEF RunningAgrees
    <3>1. Rest = <<>>
      BY DEF Rest, At
    <3>2. stateBound = task /\ restBound = task
      BY <3>1, ResettingIs DEF Inv, BindInv
    <3>3. CASE task = Null
      <4>1. running = FALSE /\ state \in {"READY", "CANCELLED"}
        BY <3>2, <3>3 DEF Inv, BindInv, running, state
      <4>2. (state \in {"SCHEDULED", "RUNNING"}) = FALSE
        BY <4>1
      <4> QED BY <4>1, <4>2
    <3>4. CASE task # Null
      <4>1. running = trunning[task] /\ state = tstate[task]
        BY <3>2, <3>4 DEF running, state
      <4>2. ~Runs(task)
        BY <2>t, <3>1, <3>4, MarksHold DEF MarksInv, Quiet
      <4>3. trunning[task] <=> tstate[task] \in {"SCHEDULED", "RUNNING"}
        BY <2>t, <3>4, <4>2 DEF Inv, TaskInv
      <4>4. trunning[task] \in BOOLEAN
        BY <2>t, <3>4 DEF Inv, TypeInv, TypeOK
      <4>5. trunning[task] = (tstate[task] \in {"SCHEDULED", "RUNNING"})
        <5>1. CASE tstate[task] \in {"SCHEDULED", "RUNNING"}
          BY <4>3, <4>4, <5>1
        <5>2. CASE tstate[task] \notin {"SCHEDULED", "RUNNING"}
          BY <4>3, <4>4, <5>2
        <5> QED BY <5>1, <5>2
      <4> QED BY <4>1, <4>5, Zenon
    <3> QED BY <3>3, <3>4
  <2>2. SucceededHasValue
    <3> SUFFICES ASSUME state = "SUCCEEDED" PROVE value # Null
      BY DEF SucceededHasValue
    <3>1. task # Null /\ tstate[task] = "SUCCEEDED" /\ restBound = task
      BY DEF Inv, BindInv, state
    <3>2. tvalue[task]
      BY <2>t, <3>1 DEF Inv, TaskInv
    <3> QED BY <3>1, <3>2 DEF value
  <2> QED BY <2>1, <2>2 DEF PropertiesAgree, Inv, TypeInv
<1> QED BY <1>1, InvInit, InvStep, PTL DEF Spec

\* Every step that changes what the state property shows is a step of the life
\* cycle of a reusable Worker.
LEMMA LifeStep ==
  ASSUME NoHandlerCalls, Inv, [Next]_vars, state' # state
  PROVE  Life!Next
<1>t. task # Null => task \in Tasks
  BY BoundAssumption DEF Inv, TypeInv, TypeOK, Tasks, Null
<1>b. stateBound = task /\ ownState \in {"READY", "CANCELLED"}
  BY DEF Inv, BindInv
<1>s. state = IF task = Null THEN ownState ELSE tstate[task]
  BY <1>b DEF state
<1>1. CASE TaskSetState
  <2>0. TypeInv /\ TodoInv
    BY DEF Inv
  <2>1. PICK k \in Tasks, v \in States, T \in SUBSET Tasks, E \in SUBSET Tasks, S \in SUBSET Tasks,
             T1 \in SUBSET Tasks, R1 \in SUBSET Tasks :
           /\ About(T, E, S, {}) /\ About(T1, {}, {}, R1)' /\ SetsAbout(k, v, T, E, S, T1)
           /\ \/ tstate[k] # "CANCELLED" /\ tstate' = [tstate EXCEPT ![k] = v]
              \/ tstate[k] = "CANCELLED" /\ tstate' = tstate
    BY <1>1, <2>0, SetStateAbout
  <2>2. UNCHANGED <<stateBound, ownState>>
    BY <1>1 DEF TaskSetState, svVars, bindVars
  <2>3. state' = IF task = Null THEN ownState ELSE tstate'[task]
    BY <1>b, <2>2 DEF state
  <2>4. task = k /\ tstate[k] # "CANCELLED" /\ tstate'[k] = v /\ v # tstate[k]
    BY <1>t, <1>s, <2>1, <2>3 DEF Inv, TypeInv, TypeOK
  <2>5. state = tstate[k] /\ state' = v
    BY <1>t, <1>s, <2>3, <2>4, BoundAssumption DEF Tasks, Null
  <2>6. CASE v = "SCHEDULED"
    <3>1. tstate[k] = "READY"
      BY <2>1, <2>4, <2>6 DEF SetsAbout, Unbegun, About, Inv, StateInv, StartDue
    <3> QED BY <2>5, <2>6, <3>1 DEF Life!Next, Life!Schedule
  <2>7. CASE v = "RUNNING"
    <3>1. tstate[k] = "SCHEDULED"
      BY <2>1, <2>4, <2>7 DEF SetsAbout, About, Inv, StateInv, StartDue
    <3> QED BY <2>5, <2>7, <3>1 DEF Life!Next, Life!Run
  <2>8. CASE v \in {"SUCCEEDED", "FAILED"}
    <3>1. Ends(k) /\ ~Takes(k)
      BY <2>1, <2>8 DEF SetsAbout, About
    <3>2. EndDue(k) /\ ~StartDue(k)
      BY <3>1 DEF Inv, OrderInv, StartDue, EndDue
    <3>3. tstate[k] = "RUNNING"
      BY <2>4, <3>2 DEF Inv, StateInv
    <3> QED BY <2>5, <2>8, <3>3 DEF Life!Next, Life!Conclude
  <2>9. CASE v = "CANCELLED"
    BY <2>4, <2>5, <2>9 DEF Life!Next, Life!Cancel
  <2> QED BY <2>1, <2>6, <2>7, <2>8, <2>9 DEF SetsAbout
<1>2. CASE SetOwnState
  <2>1. task = Null /\ stateBound' = stateBound /\ ownState' = "CANCELLED"
    BY <1>2, SetOwnEffect DEF SetOwnState, Inv
  <2>2. state' = "CANCELLED"
    BY <1>b, <2>1 DEF state
  <2> QED BY <2>2 DEF Life!Next, Life!Cancel
<1>3. CASE Abandon
  <2>1. state' = "CANCELLED"
    BY <1>3 DEF Abandon, state
  <2> QED BY <2>1 DEF Life!Next, Life!Cancel
<1>4. CASE ResetState
  <2>1. state \notin {"SCHEDULED", "RUNNING"} /\ state' = "READY"
    BY <1>4 DEF ResetState, state, taskVars
  <2>2. state \in States
    BY <1>t, <1>s DEF Inv, TypeInv, TypeOK
  <2> QED BY <2>1, <2>2 DEF Life!Next, Life!Reinitialise, Life!Ending, States, Ending
<1>5. CASE Start \/ StartOffFx
  <2>1. state = "READY" /\ CreateAndBind
    BY <1>5 DEF Start, StartOffFx, state, taskVars, svVars, bindVars
  <2>2. created' \in Tasks /\ created' > created /\ created' # Null
    BY <2>1, BoundAssumption DEF CreateAndBind, Tasks, Null, Inv, TypeInv, TypeOK
  <2>3. tstate[created'] = "READY"
    BY <2>2 DEF Inv, TaskInv
  <2>4. state' = "READY"
    BY <2>1, <2>2, <2>3 DEF CreateAndBind, state
  <2> QED BY <2>1, <2>4
<1>6. CASE \/ TaskSetRunning \/ TaskSetValue \/ TaskCancel \/ Execute \/ Schedule \/ ResetRest
           \/ MethodReturn \/ Hook \/ FxTake \/ (\E m \in Methods : Call(m)) \/ PoolStep
           \/ UNCHANGED vars
  <2>1. UNCHANGED <<tstate, stateBound, ownState>>
    <3>1. CASE TaskSetRunning \/ TaskSetValue \/ TaskCancel \/ Execute \/ Schedule \/ ResetRest
      BY <3>1 DEF TaskSetRunning, TaskSetValue, TaskCancel, Execute, Schedule, ResetRest, taskVars,
                  svVars, bindVars
    <3>2. CASE MethodReturn \/ Hook \/ FxTake \/ (\E m \in Methods : Call(m)) \/ UNCHANGED vars
      BY <3>2 DEF MethodReturn, Hook, FxTake, Call, vars, taskVars, svVars, bindVars
    <3>3. CASE PoolStep
      BY <3>3 DEF PoolStep, Pool, TaskRun, CallEnds, FutureDone, svVars, bindVars
    <3> QED BY <1>6, <3>1, <3>2, <3>3
  <2> QED BY <2>1 DEF state
<1> QED BY <1>1, <1>2, <1>3, <1>4, <1>5, <1>6, NextCases

\* The Service implements the life cycle of a reusable Worker: its state property,
\* across any number of tasks, only ever moves as Worker.State says, a late cancel
\* included, and no step of a task that it has let go of shows.
THEOREM ServiceImplementsWorker ==
  ASSUME NoHandlerCalls
  PROVE  Spec => LifeCycle
<1>1. Init => Life!Init
  BY DEF Init, Life!Init, state
<1>2. Inv /\ [Next]_vars => [Life!Next]_state
  BY LifeStep
<1> QED BY <1>1, <1>2, InvInit, InvStep, PTL DEF Spec, LifeCycle, Life!Spec

-----------------------------------------------------------------------------
(***************************************************************************)
(* FxScheduledService, for every number of tasks and of calls, every bound *)
(* of the clock and every choice of delay, period and failure limit: its   *)
(* automatic restarts keep to the limit, and it is never left waiting for a*)
(* run that nothing will begin.                                            *)
(***************************************************************************)
\* From its handlers the application calls nothing but cancel().
CancelOnly == HandlerCalls \subseteq {"cancel"}

\* Who starts the Service by hand: either the FX thread alone, as often as it likes,
\* or another thread, once. The Runnable of an off-FX start reads the task field when
\* it runs; together with a later start() the invariant below would not do.
OneStarter == OffFxStart => Calls \subseteq {"cancel", "reset"}

\* No call from a handler and no restart(): with them the assertions of the code
\* fail, as the README reports.
Quietly == HandlerCalls = {} /\ "restart" \notin Calls

\* The periods the Service may come to wait, and what is left of them under
\* maximumCumulativePeriod.
Periods == {Period} \cup {LinearBackoff(Period, x) : x \in 1 .. MaximumFailureCount}
Cumulatives == {Cumulative(d, MaximumCumulativePeriod) : d \in Periods}

\* java.util.Timer accepts the delay and all those periods.
Schedulable ==
  /\ Millis(Delay) \in 0 .. MaxMillis - 1
  /\ \A c \in Cumulatives : Millis(c) \in 0 .. MaxMillis - 1

\* The statements of a program, and those the FX thread still has before it.
Elems(q) == {q[i] : i \in 1 .. Len(q)}
Todo == Elems(todo)

OwnTo(v) == St("setOwn", Null, v)
TimerRunnable(k) == <<ExecuteNow(k), Do("clearDelay"), Return>>

\* The statements that occur.
Statements ==
  [do : {"setState", "setRunning"}, k : Tasks, v : States \ {"READY"}]
  \cup [do : {"setValue", "cancelTask", "executeNow"}, k : Tasks, v : {"READY"}]
  \cup [do : {"hook"}, k : {Null}, v : States]
  \cup [do : {"setOwn"}, k : {Null}, v : {"SCHEDULED", "CANCELLED"}]
  \cup [do : {"execute", "schedule", "abandon", "reset", "resetRest", "start", "return", "clearDelay",
             "assertNotFresh", "resetSchedule", "cancelSchedule"}, k : {Null}, v : {"READY"}]

\* A statement of a cancel() or a return: it may be in front of anything that a
\* handler interrupts.
Cancels(a) ==
  \/ a.do \in {"cancelTask", "cancelSchedule", "return"}
  \/ a.do \in {"setState", "setRunning", "hook", "setOwn"} /\ a.v = "CANCELLED"

\* A statement of a start() that announces SCHEDULED, and the handlers of READY.
OfStart(a) == a.do \in {"setState", "setRunning", "hook"} /\ a.v = "SCHEDULED"
HookReady(a) == a.do = "hook" /\ a.v = "READY"

\* What may be in front of what: b is somewhere behind a.
Front(b, a) ==
  /\ b.do = "cancelSchedule" => Cancels(a)
  /\ b.do = "execute" => Cancels(a) \/ OfStart(a) \/ a.do = "schedule"
  /\ b.do \notin {"executeNow", "schedule", "setValue", "cancelTask"}
  /\ b.do = "clearDelay" => a.do = "executeNow"
  /\ b.do = "setState" => \/ b.v = "RUNNING" /\ (Cancels(a) \/ OfStart(a))
                          \/ b.v = "SUCCEEDED" /\ a.do = "setValue"
  /\ b.do = "abandon" => Cancels(a)
  /\ b.do = "reset" => Cancels(a) \/ a.do = "abandon"
  /\ b.do = "resetRest" => Cancels(a) \/ a.do \in {"abandon", "reset"} \/ HookReady(a)
  /\ b.do = "resetSchedule" => Cancels(a) \/ a.do \in {"abandon", "reset", "resetRest"} \/ HookReady(a)
  /\ b.do = "assertNotFresh" => Cancels(a) \/ a.do \in {"reset", "resetRest"} \/ HookReady(a)
  /\ b.do = "start" => \/ Cancels(a)
                       \/ HookReady(a)
                       \/ a.do \in {"abandon", "reset", "resetRest", "resetSchedule", "assertNotFresh"}
  /\ b.do = "setOwn" => \/ Cancels(a)
                        \/ a.do \in {"reset", "resetRest", "assertNotFresh"} \/ HookReady(a)
                        \/ b.v = "CANCELLED" /\ a.do \in {"setOwn", "hook"} /\ a.v = "SCHEDULED"
  /\ b.do = "hook" => Cancels(a)

\* A program: such an order, every method and Runnable ends in its return, only a
\* cancel() interrupts another method, and cancelFromReadyState is not interrupted
\* between its two assignments but by the handlers of the first.
Fits(q) ==
  /\ \A i, j \in 1 .. Len(q) : i < j => Front(q[j], q[i])
  /\ \A i, j \in 1 .. Len(q) : i < j /\ j < Len(q) /\ q[j] = Return => Cancels(q[i])
  /\ \A i \in 1 .. Len(q) : q[i] = OwnTo("SCHEDULED") => i < Len(q) /\ q[i + 1] = OwnTo("CANCELLED")
  /\ q # <<>> => q[Len(q)] = Return

\* What the queue holds.
SRunnables ==
  {OffFxRunnable} \cup
  UNION {{StartRunnable(k), SucceedRunnable(k), FailRunnable(k), TimerRunnable(k)} : k \in Tasks}

\* The types.
TimerTypes ==
  /\ timerIds \in Nat /\ delayTask \in 0 .. timerIds
  /\ \A t \in timers : t.id \in 1 .. timerIds /\ t.k \in 1 .. created
  /\ \A t, u \in timers : t.id = u.id => t = u
  /\ freshStart \in BOOLEAN /\ stop \in BOOLEAN
  /\ currentFailureCount \in Nat
  /\ lastValue \in 0 .. created /\ lastRunTime \in 0 .. now /\ now \in 0 .. MaxTime
  /\ ranAt \in -1 .. now

STypes ==
  /\ TypeOK /\ TimerTypes /\ todo \in Seq(Statements) /\ queue \in Seq(SRunnables)
  /\ stateBound = task /\ startedOnce \in BOOLEAN
  /\ ownState \in {"READY", "SCHEDULED", "CANCELLED"}
  /\ \A s \in Todo : s.k <= created
  /\ \A k \in Tasks : Has(queue, TimerRunnable(k)) => k <= created

\* A run of task k is under way: it begins in this Runnable, or a timer or a
\* Runnable of one will begin it.
Armed(k) == \E t \in timers : t.k = k
Awaited(k) == ExecuteNow(k) \in Todo \/ Armed(k) \/ Has(queue, TimerRunnable(k))

\* The outcome of task k is being announced; a Runnable of its pool thread waits;
\* the FX thread is in the one that announces RUNNING.
EndsOf(k) == SetState(k, "SUCCEEDED") \in Todo \/ SetState(k, "FAILED") \in Todo \/ SetValue(k) \in Todo
Queued(k) == Has(queue, StartRunnable(k)) \/ Has(queue, SucceedRunnable(k)) \/ Has(queue, FailRunnable(k))
Taking(k) == SetState(k, "RUNNING") \in Todo \/ (SetState(k, "SCHEDULED") \in Todo /\ wpc[k] # "new")

\* The states of a task, of its FutureTask and of its pool thread agree, ...
WorkInv == \A k \in Tasks :
  /\ k > created => wpc[k] = "new" /\ tstate[k] = "READY" /\ fut[k] = "NEW"
  /\ tstate[k] = "RUNNING" \/ SetState(k, "RUNNING") \in Todo \/ Has(queue, StartRunnable(k))
       => wpc[k] \notin {"new", "queued"}
  /\ SetState(k, "SCHEDULED") \in Todo => wpc[k] # "queued"
  /\ tstate[k] = "CANCELLED" \/ SetState(k, "CANCELLED") \in Todo => fut[k] = "CANCELLED"
  /\ fut[k] = "CANCELLED" => tstate[k] = "CANCELLED" \/ SetState(k, "CANCELLED") \in Todo
  /\ fut[k] \in {"NORMAL", "EXCEPTIONAL"} => wpc[k] = "end"

\* ... and the Runnables of its pool thread come once and in order.
RunnableOrder == \A k \in Tasks :
  /\ Single(queue, StartRunnable(k)) /\ Single(queue, SucceedRunnable(k)) /\ Single(queue, FailRunnable(k))
  /\ ~(Has(queue, SucceedRunnable(k)) /\ Has(queue, FailRunnable(k)))
  /\ Before(queue, StartRunnable(k), SucceedRunnable(k)) /\ Before(queue, StartRunnable(k), FailRunnable(k))
  /\ Taking(k) => ~Has(queue, StartRunnable(k))
  /\ EndsOf(k) \/ tstate[k] \in {"SUCCEEDED", "FAILED"} => ~Queued(k) /\ ~Taking(k)
  /\ tstate[k] \in {"SUCCEEDED", "FAILED"} => ~EndsOf(k)
  /\ Has(queue, SucceedRunnable(k)) \/ Has(queue, FailRunnable(k)) \/ EndsOf(k)
       \/ tstate[k] \in {"SUCCEEDED", "FAILED"} => wpc[k] \in {"set", "setException", "end"}

\* The Service is SCHEDULED without a task only inside cancelFromReadyState.
OwnInv ==
  task = Null /\ ownState = "SCHEDULED" =>
    /\ OwnTo("CANCELLED") \in Todo
    /\ \A s \in Todo : Cancels(s) \/ s = HookOf("SCHEDULED") \/ s.do = "setRunning"

\* executeTask finds a task that the executor does not have and that is announced.
ExecInv ==
  Do("execute") \in Todo =>
    /\ task = Null => Do("schedule") \in Todo
    /\ task # Null => /\ wpc[task] = "new"
                      /\ tstate[task] = "READY" => SetState(task, "SCHEDULED") \in Todo \/ Do("schedule") \in Todo

\* A start() off the FX thread is the first of all, and before its Runnable is done
\* nothing else begins a run.
OffInv ==
  /\ Has(queue, OffFxRunnable) \/ Do("schedule") \in Todo =>
       /\ OffFxStart /\ startedOnce /\ created = 1 /\ timers = {} /\ Do("start") \notin Todo
       /\ \A k \in Tasks : wpc[k] = "new" /\ ExecuteNow(k) \notin Todo /\ ~Has(queue, TimerRunnable(k))
  /\ Has(queue, OffFxRunnable) => Do("execute") \notin Todo /\ Do("schedule") \notin Todo
  /\ Single(queue, OffFxRunnable)
  /\ Do("schedule") \in Todo => Do("execute") \in Todo
  /\ ~startedOnce => created = 0 /\ queue = <<>> /\ timers = {}

\* How far the hooks, reset() and cancel() have come, and what they leave for the
\* statements behind them.
StageInv ==
  /\ HookOf("SUCCEEDED") \in Todo \/ HookOf("FAILED") \in Todo =>
       task # Null /\ wpc[task] # "new" /\ ~freshStart
  /\ Do("assertNotFresh") \in Todo => ~freshStart
  /\ freshStart /\ task # Null => wpc[task] = "new"
  /\ Do("resetSchedule") \in Todo => task = Null \/ Do("reset") \in Todo
  /\ Do("reset") \in Todo => Do("resetSchedule") \in Todo \/ Do("assertNotFresh") \in Todo
  /\ Do("abandon") \in Todo => Do("resetSchedule") \in Todo
  /\ Do("cancelSchedule") \in Todo /\ task # Null /\ fut[task] = "NEW" => CancelTask(task) \in Todo

\* The failures of this series are used up.
Exhausted == currentFailureCount > 0 /\ (~RestartOnFailure \/ currentFailureCount >= MaximumFailureCount)

\* Then the task rests, or reset() is about to forget the failures; and a task that
\* rests in FAILED has used them up, or failed() is about to run.
FailInv ==
  /\ Exhausted => IF task # Null THEN tstate[task] \in {"FAILED", "CANCELLED"}
                  ELSE Do("resetSchedule") \in Todo
  /\ HookOf("SUCCEEDED") \in Todo \/ Do("assertNotFresh") \in Todo => ~Exhausted
  /\ HookOf("FAILED") \in Todo => task # Null /\ tstate[task] \in {"FAILED", "CANCELLED"}
  /\ task # Null /\ tstate[task] = "FAILED" /\ ~Exhausted =>
       HookOf("FAILED") \in Todo \/ Do("reset") \in Todo

\* The period in use is one of those.
PeriodInv == cumulativePeriod \in Cumulatives \cup {0}

\* A task that is announced and not cancelled has a run under way until the executor
\* gets it.
StrandInv ==
  Schedulable =>
    (task # Null /\ wpc[task] = "new" /\ fut[task] = "NEW"
      /\ (tstate[task] # "READY" \/ SetState(task, "SCHEDULED") \in Todo)
        => Awaited(task) \/ Do("execute") \in Todo)

\* The only start() was off the FX thread, and its task was cancelled before
\* its Runnable was done: nothing runs any more.
Dead ==
  /\ OffFxStart /\ startedOnce /\ ~Has(queue, OffFxRunnable)
  /\ \A k \in Tasks : k <= created => tstate[k] = "CANCELLED"
  /\ Do("start") \notin Todo /\ Do("execute") \notin Todo /\ Do("schedule") \notin Todo
  /\ HookOf("SUCCEEDED") \notin Todo /\ HookOf("FAILED") \notin Todo

\* The assertions of the code: delayTask is the timer of the task that waits.
AssertInv ==
  Quietly =>
    /\ broken = {} /\ Do("abandon") \notin Todo
    /\ Has(queue, OffFxRunnable) => delayTask = Null
    /\ Do("execute") \in Todo =>
         /\ delayTask = Null
         /\ task # Null => fut[task] = "NEW" \/ (OffFxStart /\ created = 1)
         /\ \A k \in Tasks : CancelTask(k) \notin Todo
    /\ delayTask # Null => \/ Dead
         \/ /\ task # Null /\ tstate[task] # "READY"
            /\ wpc[task] = "new" \/ Do("clearDelay") \in Todo
            /\ tstate[task] = "CANCELLED" => Do("cancelSchedule") \in Todo
            /\ \A k \in Tasks : ExecuteNow(k) \in Todo => Do("clearDelay") \in Todo
    /\ \A k \in Tasks : CancelTask(k) \in Todo \/ SetState(k, "CANCELLED") \in Todo => Do("cancelSchedule") \in Todo

\* The inductive invariant.
SInv ==
  /\ STypes /\ Fits(todo) /\ WorkInv /\ RunnableOrder /\ OwnInv /\ ExecInv /\ OffInv /\ StageInv
  /\ FailInv /\ PeriodInv /\ StrandInv /\ AssertInv

-----------------------------------------------------------------------------
\* The fields of the statements.
LEMMA FieldsAre ==
  /\ \A d : Do(d).do = d /\ Do(d).k = 0 /\ Do(d).v = "READY"
  /\ Return.do = "return" /\ Return.k = 0 /\ Return.v = "READY"
  /\ \A v : HookOf(v).do = "hook" /\ HookOf(v).k = 0 /\ HookOf(v).v = v
  /\ \A v : OwnTo(v).do = "setOwn" /\ OwnTo(v).k = 0 /\ OwnTo(v).v = v
  /\ \A k : ExecuteNow(k).do = "executeNow" /\ ExecuteNow(k).k = k /\ ExecuteNow(k).v = "READY"
  /\ \A k : CancelTask(k).do = "cancelTask" /\ CancelTask(k).k = k /\ CancelTask(k).v = "READY"
  /\ \A k : SetValue(k).do = "setValue" /\ SetValue(k).k = k
  /\ \A k, v : SetState(k, v).do = "setState" /\ SetState(k, v).k = k /\ SetState(k, v).v = v
  /\ \A k, v : SetRunning(k, v).do = "setRunning" /\ SetRunning(k, v).k = k /\ SetRunning(k, v).v = v
BY DEF St, Do, Return, HookOf, SetState, SetRunning, SetValue, CancelTask, OwnTo, ExecuteNow, Null

\* The statements without operands.
Simple == {"execute", "schedule", "abandon", "reset", "resetRest", "start", "return", "clearDelay",
           "assertNotFresh", "resetSchedule", "cancelSchedule"}

\* The statements the operators make.
LEMMA AreStatements ==
  /\ \A d \in Simple : Do(d) \in Statements
  /\ Return \in Statements /\ Return = Do("return")
  /\ \A v \in States : HookOf(v) \in Statements
  /\ OwnTo("SCHEDULED") \in Statements /\ OwnTo("CANCELLED") \in Statements
  /\ \A k \in Tasks : ExecuteNow(k) \in Statements /\ CancelTask(k) \in Statements /\ SetValue(k) \in Statements
  /\ \A k \in Tasks, v \in States \ {"READY"} : SetState(k, v) \in Statements /\ SetRunning(k, v) \in Statements
BY DEF St, Do, Return, HookOf, SetState, SetRunning, SetValue, CancelTask, OwnTo, ExecuteNow, Null,
       Statements, Simple

\* A statement is known by its fields.
LEMMA StatementIs ==
  ASSUME NEW s \in Statements
  PROVE  /\ s.do \in Simple => s = Do(s.do)
         /\ s.do = "hook" => s = HookOf(s.v) /\ s.v \in States
         /\ s.do = "setOwn" => s = OwnTo(s.v) /\ s.v \in {"SCHEDULED", "CANCELLED"}
         /\ s.do = "executeNow" => s = ExecuteNow(s.k) /\ s.k \in Tasks
         /\ s.do = "cancelTask" => s = CancelTask(s.k) /\ s.k \in Tasks
         /\ s.do = "setValue" => s = SetValue(s.k) /\ s.k \in Tasks
         /\ s.do = "setState" => s = SetState(s.k, s.v) /\ s.k \in Tasks /\ s.v \in States \ {"READY"}
         /\ s.do = "setRunning" => s = SetRunning(s.k, s.v) /\ s.k \in Tasks /\ s.v \in States \ {"READY"}
         /\ s.do \in Simple \cup {"hook", "setOwn", "executeNow", "cancelTask", "setValue", "setState", "setRunning"}
BY DEF St, Do, Return, HookOf, SetState, SetRunning, SetValue, CancelTask, OwnTo, ExecuteNow, Null,
       Statements, Simple

-----------------------------------------------------------------------------
\* There is no other Return than the last statement.
LastReturn(q) == \A i \in 1 .. Len(q) : i < Len(q) => q[i] # Return
\* A program of known statements.
Shape(q) == q \in Seq(Statements) /\ Fits(q)

\* The two shortest.
LEMMA EmptyShape == Shape(<<>>) /\ Elems(<<>>) = {}
BY DEF Shape, Fits, Elems

LEMMA ReturnShape == Shape(<<Return>>) /\ Elems(<<Return>>) = {Return} /\ LastReturn(<<Return>>)
<1>1. /\ <<Return>> \in Seq(Statements) /\ Len(<<Return>>) = 1 /\ <<Return>>[1] = Return /\ Return # OwnTo("SCHEDULED")
  BY AreStatements, FieldsAre
<1> DEFINE q == <<Return>>
<1> HIDE DEF q
<1>2. q \in Seq(Statements) /\ Len(q) = 1 /\ q[1] = Return /\ \A i \in 1 .. Len(q) : i = 1
  BY <1>1 DEF q
<1>3. Fits(q)
  BY <1>2, <1>1 DEF Fits
<1>4. Elems(q) = {Return} /\ LastReturn(q)
  BY <1>2 DEF Elems, LastReturn
<1> QED BY <1>2, <1>3, <1>4 DEF Shape, q

\* The empty sequence.
LEMMA EmptyLen ==
  ASSUME NEW S, NEW q \in Seq(S)
  PROVE  q = <<>> <=> Len(q) = 0
OBVIOUS

\* The first statement is taken.
LEMMA PopShape ==
  ASSUME NEW q, Shape(q), q # <<>>
  PROVE  /\ Shape(Tail(q)) /\ Head(q) \in Statements /\ Tail(q) \in Seq(Statements)
         /\ Elems(q) = {Head(q)} \cup Elems(Tail(q))
         /\ \A b \in Elems(Tail(q)) : b \in Statements /\ Front(b, Head(q))
         /\ Head(q) # Return => Tail(q) # <<>>
         /\ ~Cancels(Head(q)) => LastReturn(Tail(q))
         /\ Head(q) = OwnTo("SCHEDULED") =>
              Tail(q) # <<>> /\ Head(Tail(q)) = OwnTo("CANCELLED") /\ OwnTo("CANCELLED") \in Elems(Tail(q))
<1> DEFINE r == Tail(q)
<1>1. q \in Seq(Statements) /\ Fits(q)
  BY DEF Shape
<1>2. /\ r \in Seq(Statements) /\ Head(q) \in Statements /\ Head(q) = q[1]
      /\ Len(q) \in Nat /\ Len(q) >= 1 /\ Len(r) = Len(q) - 1 /\ Len(r) \in Nat
      /\ \A i \in 1 .. Len(q) - 1 : r[i] = q[i + 1]
  BY <1>1, TailAt
<1>3. r = <<>> <=> Len(r) = 0
  BY <1>2, EmptyLen
<1>4. r # <<>> => Head(r) = r[1]
  BY <1>2
<1> HIDE DEF r
<1>5. /\ \A i, j \in 1 .. Len(q) : i < j => Front(q[j], q[i])
      /\ \A i, j \in 1 .. Len(q) : i < j /\ j < Len(q) /\ q[j] = Return => Cancels(q[i])
      /\ \A i \in 1 .. Len(q) : q[i] = OwnTo("SCHEDULED") => i < Len(q) /\ q[i + 1] = OwnTo("CANCELLED")
      /\ q[Len(q)] = Return
  BY <1>1 DEF Fits
<1>6. \A i \in 1 .. Len(r) : i + 1 \in 1 .. Len(q) /\ r[i] = q[i + 1] /\ 1 < i + 1
  BY <1>2
<1>7. Fits(r)
  <2>1. \A i, j \in 1 .. Len(r) : i < j => Front(r[j], r[i])
    <3> SUFFICES ASSUME NEW i \in 1 .. Len(r), NEW j \in 1 .. Len(r), i < j PROVE Front(r[j], r[i])
      OBVIOUS
    <3> QED BY <1>5, <1>6
  <2>2. \A i, j \in 1 .. Len(r) : i < j /\ j < Len(r) /\ r[j] = Return => Cancels(r[i])
    <3> SUFFICES ASSUME NEW i \in 1 .. Len(r), NEW j \in 1 .. Len(r), i < j, j < Len(r), r[j] = Return
                 PROVE  Cancels(r[i])
      OBVIOUS
    <3>1. i + 1 < j + 1 /\ j + 1 < Len(q)
      BY <1>2
    <3> QED BY <1>5, <1>6, <3>1
  <2>3. \A i \in 1 .. Len(r) : r[i] = OwnTo("SCHEDULED") => i < Len(r) /\ r[i + 1] = OwnTo("CANCELLED")
    <3> SUFFICES ASSUME NEW i \in 1 .. Len(r), r[i] = OwnTo("SCHEDULED")
                 PROVE  i < Len(r) /\ r[i + 1] = OwnTo("CANCELLED")
      OBVIOUS
    <3>1. i + 1 < Len(q) /\ q[i + 1 + 1] = OwnTo("CANCELLED")
      BY <1>5, <1>6
    <3>2. i < Len(r) /\ i + 1 \in 1 .. Len(r)
      BY <3>1, <1>2
    <3> QED BY <3>1, <3>2, <1>6
  <2>4. r # <<>> => r[Len(r)] = Return
    BY <1>2, <1>3, <1>5, <1>6
  <2> QED BY <2>1, <2>2, <2>3, <2>4 DEF Fits
<1>8. Elems(q) = {Head(q)} \cup Elems(r)
  <2>1. ASSUME NEW i \in 1 .. Len(q) PROVE q[i] \in {Head(q)} \cup Elems(r)
    <3>1. CASE i = 1
      BY <3>1, <1>2
    <3>2. CASE i # 1
      <4>1. i - 1 \in 1 .. Len(r) /\ r[i - 1] = q[i]
        BY <3>2, <1>2
      <4> QED BY <4>1 DEF Elems
    <3> QED BY <3>1, <3>2
  <2>2. Head(q) \in Elems(q)
    BY <1>2 DEF Elems
  <2>3. \A i \in 1 .. Len(r) : r[i] \in Elems(q)
    BY <1>6 DEF Elems
  <2> QED BY <2>1, <2>2, <2>3 DEF Elems
<1>9. \A b \in Elems(r) : b \in Statements /\ Front(b, Head(q))
  <2> SUFFICES ASSUME NEW i \in 1 .. Len(r) PROVE r[i] \in Statements /\ Front(r[i], Head(q))
    BY DEF Elems
  <2> QED BY <1>2, <1>5, <1>6
<1>10. Head(q) # Return => r # <<>>
  BY <1>2, <1>3, <1>5
<1>11. ~Cancels(Head(q)) => LastReturn(r)
  <2> SUFFICES ASSUME ~Cancels(Head(q)), NEW i \in 1 .. Len(r), i < Len(r) PROVE r[i] # Return
    BY DEF LastReturn
  <2>1. 1 \in 1 .. Len(q) /\ i + 1 < Len(q)
    BY <1>2
  <2> QED BY <2>1, <1>2, <1>5, <1>6
<1>12. ASSUME Head(q) = OwnTo("SCHEDULED")
       PROVE  r # <<>> /\ Head(r) = OwnTo("CANCELLED") /\ OwnTo("CANCELLED") \in Elems(r)
  <2>1. 1 < Len(q) /\ q[1 + 1] = OwnTo("CANCELLED")
    BY <1>12, <1>2, <1>5
  <2>2. 1 \in 1 .. Len(r) /\ r[1] = OwnTo("CANCELLED")
    BY <2>1, <1>2
  <2> QED BY <2>2, <1>3, <1>4 DEF Elems
<1> QED BY <1>2, <1>7, <1>8, <1>9, <1>10, <1>11, <1>12 DEF Shape, r

\* One more in front, by positions.
LEMMA InFrontAt ==
  ASSUME NEW S, NEW q \in Seq(S), NEW e \in S
  PROVE  /\ <<e>> \o q \in Seq(S) /\ Len(<<e>> \o q) = 1 + Len(q) /\ (<<e>> \o q)[1] = e
         /\ Len(q) \in Nat /\ \A i \in 1 .. Len(q) : (<<e>> \o q)[1 + i] = q[i]
OBVIOUS

\* A statement is put in front.
LEMMA PushShape ==
  ASSUME NEW q, Shape(q), q # <<>>, NEW a \in Statements,
         \A b \in Elems(q) : Front(b, a),
         Cancels(a) \/ LastReturn(q),
         a = OwnTo("SCHEDULED") => Head(q) = OwnTo("CANCELLED")
  PROVE  /\ Shape(<<a>> \o q) /\ <<a>> \o q # <<>> /\ Head(<<a>> \o q) = a
         /\ Elems(<<a>> \o q) = {a} \cup Elems(q)
         /\ a # Return /\ LastReturn(q) => LastReturn(<<a>> \o q)
<1>1. q \in Seq(Statements) /\ Fits(q)
  BY DEF Shape
<1> DEFINE r == <<a>> \o q
<1>3. /\ r \in Seq(Statements) /\ Len(q) \in Nat /\ Len(r) = 1 + Len(q) /\ r[1] = a
      /\ \A i \in 1 .. Len(q) : r[1 + i] = q[i]
  BY <1>1, InFrontAt
<1>4. Len(q) >= 1 /\ Head(q) = q[1]
  BY <1>1
<1>5. r # <<>> /\ Head(r) = r[1]
  BY <1>3
<1> HIDE DEF r
<1>6. /\ r[1] = a
      /\ \A i \in 1 .. Len(r) : i # 1 => i - 1 \in 1 .. Len(q) /\ r[i] = q[i - 1]
  BY <1>3
<1>7. /\ \A i, j \in 1 .. Len(q) : i < j => Front(q[j], q[i])
      /\ \A i, j \in 1 .. Len(q) : i < j /\ j < Len(q) /\ q[j] = Return => Cancels(q[i])
      /\ \A i \in 1 .. Len(q) : q[i] = OwnTo("SCHEDULED") => i < Len(q) /\ q[i + 1] = OwnTo("CANCELLED")
      /\ q[Len(q)] = Return
  BY <1>1 DEF Fits
<1>8. \A i \in 1 .. Len(q) : Front(q[i], a)
  BY DEF Elems
<1>9. Fits(r)
  <2>1. ASSUME NEW i \in 1 .. Len(r), NEW j \in 1 .. Len(r), i < j PROVE Front(r[j], r[i])
    <3>1. j # 1 /\ j - 1 \in 1 .. Len(q) /\ r[j] = q[j - 1]
      BY <2>1, <1>6
    <3>2. CASE i = 1
      BY <3>1, <3>2, <1>6, <1>8
    <3>3. CASE i # 1
      BY <2>1, <3>1, <3>3, <1>6, <1>7
    <3> QED BY <3>2, <3>3
  <2>2. ASSUME NEW i \in 1 .. Len(r), NEW j \in 1 .. Len(r), i < j, j < Len(r), r[j] = Return
        PROVE  Cancels(r[i])
    <3>1. j # 1 /\ j - 1 \in 1 .. Len(q) /\ r[j] = q[j - 1] /\ j - 1 < Len(q)
      BY <2>2, <1>3, <1>6
    <3>2. CASE i = 1
      BY <3>1, <3>2, <1>6, <2>2 DEF LastReturn
    <3>3. CASE i # 1
      BY <2>2, <3>1, <3>3, <1>6, <1>7
    <3> QED BY <3>2, <3>3
  <2>3. ASSUME NEW i \in 1 .. Len(r), r[i] = OwnTo("SCHEDULED")
        PROVE  i < Len(r) /\ r[i + 1] = OwnTo("CANCELLED")
    <3>1. CASE i = 1
      <4>1. 1 \in 1 .. Len(q) /\ q[1] = OwnTo("CANCELLED")
        BY <2>3, <3>1, <1>4, <1>6
      <4> QED BY <4>1, <3>1, <1>3
    <3>2. CASE i # 1
      <4>1. i - 1 \in 1 .. Len(q) /\ i - 1 < Len(q) /\ q[i - 1 + 1] = OwnTo("CANCELLED")
        BY <2>3, <3>2, <1>6, <1>7
      <4>2. i \in 1 .. Len(q) /\ r[1 + i] = q[i]
        BY <4>1, <1>3
      <4> QED BY <4>1, <4>2, <1>3
    <3> QED BY <3>1, <3>2
  <2>4. r[Len(r)] = Return
    BY <1>3, <1>4, <1>7
  <2> QED BY <2>1, <2>2, <2>3, <2>4 DEF Fits
<1>10. Elems(r) = {a} \cup Elems(q)
  <2>1. \A i \in 1 .. Len(r) : r[i] = a \/ r[i] \in Elems(q)
    BY <1>6 DEF Elems
  <2>2. ASSUME NEW i \in 1 .. Len(q) PROVE q[i] \in Elems(r)
    <3>1. 1 + i \in 1 .. Len(r) /\ r[1 + i] = q[i]
      BY <1>3
    <3> QED BY <3>1 DEF Elems
  <2>3. a \in Elems(r)
    BY <1>3, <1>6 DEF Elems
  <2> QED BY <2>1, <2>2, <2>3 DEF Elems
<1>11. a # Return /\ LastReturn(q) => LastReturn(r)
  <2> SUFFICES ASSUME a # Return, LastReturn(q), NEW i \in 1 .. Len(r), i < Len(r) PROVE r[i] # Return
    BY DEF LastReturn
  <2>1. CASE i = 1
    BY <2>1, <1>6
  <2>2. CASE i # 1
    <3>1. i - 1 \in 1 .. Len(q) /\ i - 1 < Len(q) /\ r[i] = q[i - 1]
      BY <2>2, <1>3, <1>6
    <3> QED BY <3>1 DEF LastReturn
  <2> QED BY <2>1, <2>2
<1> QED BY <1>3, <1>5, <1>6, <1>9, <1>10, <1>11 DEF Shape, r

\* An exception in a statement that is no cancel() ends everything.
LEMMA AbortEnds ==
  ASSUME Shape(todo), todo # <<>>, ~Cancels(Head(todo)), Abort
  PROVE  todo' = <<>>
<1> DEFINE ends == {i \in DOMAIN todo : todo[i] = Return}
           end == CHOOSE i \in ends : \A j \in ends : i <= j
<1>1. todo \in Seq(Statements) /\ Fits(todo) /\ Len(todo) \in Nat /\ DOMAIN todo = 1 .. Len(todo) /\ Head(todo) = todo[1] /\ Len(todo) >= 1
  BY DEF Shape
<1>2. Len(todo) \in ends
  BY <1>1 DEF Fits
<1>3. \A i \in ends : i = Len(todo)
  <2> SUFFICES ASSUME NEW i \in 1 .. Len(todo), todo[i] = Return, i # Len(todo) PROVE FALSE
    BY <1>1
  <2>1. i # 1
    BY <1>1, FieldsAre DEF Cancels
  <2>2. Len(todo) \in Nat /\ Len(todo) >= 1
    BY <1>1
  <2>3. 1 \in 1 .. Len(todo) /\ 1 < i /\ i < Len(todo)
    BY <2>1, <2>2
  <2> QED BY <2>3, <1>1 DEF Fits
<1>4. end = Len(todo)
  <2>1. \E i \in ends : \A j \in ends : i <= j
    BY <1>1, <1>2, <1>3
  <2> HIDE DEF ends
  <2>2. end \in ends
    BY <2>1
  <2> QED BY <2>2, <1>3
<1>5. todo' = SubSeq(todo, end + 1, Len(todo))
  BY DEF Abort
<1> HIDE DEF ends, end
<1>6. todo' = SubSeq(todo, Len(todo) + 1, Len(todo))
  BY <1>4, <1>5
<1> QED BY <1>6, <1>1

-----------------------------------------------------------------------------
\* Short programs in front of others.
LEMMA Joined ==
  ASSUME NEW S, NEW p \in Seq(S), NEW q \in Seq(S), NEW r \in Seq(S)
  PROVE  (p \o q) \o r = p \o (q \o r) /\ <<>> \o r = r /\ r \o <<>> = r /\ p \o q \in Seq(S)
OBVIOUS

\* Two statements are one in front of the other.
LEMMA Tuples ==
  ASSUME NEW S, NEW a \in S, NEW b \in S
  PROVE  <<a, b>> = <<a>> \o <<b>> /\ <<a>> \in Seq(S) /\ <<a, b>> \in Seq(S)
<1> DEFINE p == <<a, b>>
           q == <<a>> \o <<b>>
<1>1. p \in Seq(S) /\ Len(p) = 2 /\ p[1] = a /\ p[2] = b
  OBVIOUS
<1>2. q \in Seq(S) /\ Len(q) = 2 /\ q[1] = a /\ q[2] = b
  OBVIOUS
<1> HIDE DEF p, q
<1>3. p = q
  BY <1>1, <1>2
<1> QED BY <1>3 DEF p, q

\* What stands in front of a statement may be replaced by what it calls.
Replaces(a, h) ==
  /\ \A b \in Statements : Front(b, h) => Front(b, a)
  /\ Cancels(a) \/ ~Cancels(h)

\* What every statement of the Service calls.
LEMMA Replacements ==
  /\ \A k \in Tasks, v \in States : /\ Replaces(SetRunning(k, v), SetState(k, v))
                                    /\ Replaces(HookOf(v), SetState(k, v))
  /\ \A k \in Tasks : /\ Replaces(SetState(k, "CANCELLED"), CancelTask(k))
                      /\ Replaces(SetState(k, "SCHEDULED"), Do("schedule"))
                      /\ Replaces(SetState(k, "SCHEDULED"), Do("start"))
                      /\ Replaces(ExecuteNow(k), Do("execute"))
  /\ Replaces(Do("execute"), Do("start"))
  /\ \A v \in {"SCHEDULED", "CANCELLED"} : Replaces(HookOf(v), OwnTo(v))
  /\ Replaces(HookOf("CANCELLED"), Do("abandon")) /\ Replaces(HookOf("READY"), Do("reset"))
  /\ \A v \in {"SUCCEEDED", "FAILED"} :
       /\ \A d \in {"reset", "resetRest", "assertNotFresh", "start"} : Replaces(Do(d), HookOf(v))
       /\ \A u \in {"SCHEDULED", "CANCELLED"} : Replaces(OwnTo(u), HookOf(v))
<1>1. ASSUME NEW k \in Tasks, NEW v \in States
      PROVE  Replaces(SetRunning(k, v), SetState(k, v)) /\ Replaces(HookOf(v), SetState(k, v))
  BY FieldsAre DEF Replaces, Front, Cancels, OfStart, HookReady
<1>2. ASSUME NEW k \in Tasks PROVE Replaces(SetState(k, "CANCELLED"), CancelTask(k))
  BY FieldsAre DEF Replaces, Front, Cancels, OfStart, HookReady
<1>3. ASSUME NEW k \in Tasks PROVE Replaces(SetState(k, "SCHEDULED"), Do("schedule"))
  BY FieldsAre DEF Replaces, Front, Cancels, OfStart, HookReady
<1>4. ASSUME NEW k \in Tasks PROVE Replaces(SetState(k, "SCHEDULED"), Do("start"))
  BY FieldsAre DEF Replaces, Front, Cancels, OfStart, HookReady
<1>5. ASSUME NEW k \in Tasks PROVE Replaces(ExecuteNow(k), Do("execute"))
  BY FieldsAre DEF Replaces, Front, Cancels, OfStart, HookReady
<1>6. Replaces(Do("execute"), Do("start"))
  BY FieldsAre DEF Replaces, Front, Cancels, OfStart, HookReady
<1>7. ASSUME NEW v \in {"SCHEDULED", "CANCELLED"} PROVE Replaces(HookOf(v), OwnTo(v))
  BY FieldsAre DEF Replaces, Front, Cancels, OfStart, HookReady
<1>8. Replaces(HookOf("CANCELLED"), Do("abandon"))
  BY FieldsAre DEF Replaces, Front, Cancels, OfStart, HookReady
<1>9. Replaces(HookOf("READY"), Do("reset"))
  BY FieldsAre DEF Replaces, Front, Cancels, OfStart, HookReady
<1>10. ASSUME NEW v \in {"SUCCEEDED", "FAILED"}
       PROVE  /\ \A d \in {"reset", "resetRest", "assertNotFresh", "start"} : Replaces(Do(d), HookOf(v))
              /\ \A u \in {"SCHEDULED", "CANCELLED"} : Replaces(OwnTo(u), HookOf(v))
  BY FieldsAre DEF Replaces, Front, Cancels, OfStart, HookReady
<1> QED BY <1>1, <1>2, <1>3, <1>4, <1>5, <1>6, <1>7, <1>8, <1>9, <1>10

-----------------------------------------------------------------------------
\* What is left of the programs after the statement that runs.
Left == Elems(Tail(todo))

\* What the FX thread is at.
LEMMA NowRuns ==
  ASSUME Shape(todo), todo # <<>>
  PROVE  /\ Shape(Tail(todo)) /\ Tail(todo) \in Seq(Statements) /\ Head(todo) \in Statements
         /\ Todo = {Head(todo)} \cup Left
         /\ \A b \in Left : b \in Statements /\ Front(b, Head(todo))
         /\ Head(todo) # Return => Tail(todo) # <<>>
         /\ ~Cancels(Head(todo)) => LastReturn(Tail(todo))
         /\ Head(todo) = OwnTo("SCHEDULED") => OwnTo("CANCELLED") \in Left
BY PopShape DEF Todo, Left

\* It is done, ...
LEMMA NothingFollows ==
  ASSUME Shape(todo), todo # <<>>, Then(<<>>)
  PROVE  todo' = Tail(todo) /\ Shape(todo') /\ Todo' = Left
<1>1. todo' = <<>> \o Tail(todo) /\ Tail(todo) \in Seq(Statements) /\ Shape(Tail(todo))
  BY NowRuns DEF Then
<1>2. todo' = Tail(todo)
  BY <1>1
<1> QED BY <1>1, <1>2 DEF Todo, Left

\* ... it calls one, ...
LEMMA OneFollows ==
  ASSUME Shape(todo), todo # <<>>, Head(todo) # Return,
         NEW a \in Statements, a # OwnTo("SCHEDULED"), Replaces(a, Head(todo)), Then(<<a>>)
  PROVE  Shape(todo') /\ Todo' = {a} \cup Left /\ todo' # <<>> /\ Head(todo') = a
<1>1. todo' = <<a>> \o Tail(todo)
  BY DEF Then
<1>2. /\ Shape(Tail(todo)) /\ Tail(todo) # <<>> /\ (\A b \in Elems(Tail(todo)) : Front(b, a))
      /\ Cancels(a) \/ LastReturn(Tail(todo))
  BY NowRuns DEF Replaces, Left
<1>3. /\ Shape(<<a>> \o Tail(todo)) /\ <<a>> \o Tail(todo) # <<>> /\ Head(<<a>> \o Tail(todo)) = a
      /\ Elems(<<a>> \o Tail(todo)) = {a} \cup Elems(Tail(todo))
  BY <1>2, PushShape
<1> QED BY <1>1, <1>3 DEF Todo, Left

\* ... or two.
LEMMA TwoFollow ==
  ASSUME Shape(todo), todo # <<>>, Head(todo) # Return,
         NEW a \in Statements, a # OwnTo("SCHEDULED"), Replaces(a, Head(todo)),
         NEW b \in Statements, b # OwnTo("SCHEDULED"), Replaces(b, Head(todo)), b # Return,
         Front(b, a),
         Then(<<a, b>>) \/ Then(<<a>> \o <<b>>)
  PROVE  Shape(todo') /\ Todo' = {a, b} \cup Left /\ todo' # <<>> /\ Head(todo') = a
<1> DEFINE t == Tail(todo)
           u == <<b>> \o t
<1>1. t \in Seq(Statements)
  BY NowRuns
<1> HIDE DEF t
<1>2. todo' = (<<a>> \o <<b>>) \o t
  BY Tuples DEF Then, t
<1>3. <<a>> \in Seq(Statements) /\ <<b>> \in Seq(Statements)
  OBVIOUS
<1>4. todo' = <<a>> \o (<<b>> \o t)
  BY <1>1, <1>2, <1>3, Joined
<1>5. /\ Shape(t) /\ t # <<>> /\ (\A c \in Elems(t) : Front(c, a) /\ Front(c, b))
      /\ Cancels(a) \/ LastReturn(t)
      /\ Cancels(b) \/ LastReturn(t)
  BY NowRuns DEF Replaces, Left, t
<1>6. /\ Shape(u) /\ u # <<>> /\ Elems(u) = {b} \cup Elems(t)
      /\ LastReturn(t) => LastReturn(u)
  BY <1>5, PushShape
<1> HIDE DEF u
<1>7. (\A c \in Elems(u) : Front(c, a)) /\ (Cancels(a) \/ LastReturn(u))
  BY <1>5, <1>6
<1>8. /\ Shape(<<a>> \o u) /\ <<a>> \o u # <<>> /\ Head(<<a>> \o u) = a
      /\ Elems(<<a>> \o u) = {a} \cup Elems(u)
  BY <1>6, <1>7, PushShape
<1> QED BY <1>4, <1>6, <1>8 DEF Todo, Left, u, t

\* An exception.
LEMMA NothingIsLeft ==
  ASSUME Shape(todo), todo # <<>>, ~Cancels(Head(todo)), Abort
  PROVE  todo' = <<>> /\ Shape(todo') /\ Todo' = {}
BY AbortEnds, EmptyShape DEF Todo

-----------------------------------------------------------------------------
\* The variables, one by one.
AllSame ==
  /\ fut' = fut /\ wpc' = wpc /\ tstate' = tstate /\ created' = created
  /\ task' = task /\ stateBound' = stateBound /\ startedOnce' = startedOnce
  /\ queue' = queue
ScheduleSame ==
  /\ freshStart' = freshStart /\ currentFailureCount' = currentFailureCount
  /\ delayTask' = delayTask /\ timers' = timers /\ timerIds' = timerIds
  /\ cumulativePeriod' = cumulativePeriod /\ broken' = broken
RestSame ==
  /\ restBound' = restBound /\ ownRunning' = ownRunning /\ ownValue' = ownValue
  /\ trunning' = trunning /\ tvalue' = tvalue
HistorySame ==
  /\ lastRunTime' = lastRunTime /\ ranAt' = ranAt /\ stop' = stop /\ lastValue' = lastValue /\ now' = now

\* Statements that no part of the invariant is about.
Calm(s) ==
  \/ s.do \in {"setRunning", "setValue", "setOwn", "resetRest", "return"}
  \/ s.do = "hook" /\ s.v \notin {"SUCCEEDED", "FAILED"}

\* They are these.
LEMMA CalmIs ==
  /\ \A k, v : ~Calm(SetState(k, v)) /\ Calm(SetRunning(k, v))
  /\ \A k : Calm(SetValue(k)) /\ ~Calm(CancelTask(k)) /\ ~Calm(ExecuteNow(k))
  /\ \A v : Calm(OwnTo(v))
  /\ ~Calm(Do("execute")) /\ ~Calm(Do("schedule")) /\ ~Calm(Do("abandon")) /\ ~Calm(Do("reset"))
  /\ ~Calm(Do("start")) /\ ~Calm(Do("clearDelay")) /\ ~Calm(Do("assertNotFresh"))
  /\ ~Calm(Do("resetSchedule")) /\ ~Calm(Do("cancelSchedule"))
  /\ ~Calm(HookOf("SUCCEEDED")) /\ ~Calm(HookOf("FAILED"))
  /\ Calm(HookOf("READY")) /\ Calm(HookOf("SCHEDULED")) /\ Calm(HookOf("RUNNING")) /\ Calm(HookOf("CANCELLED"))
BY FieldsAre DEF Calm

\* Nothing but such statements comes or goes.
SameMarks == \A s : ~Calm(s) => (s \in Todo' <=> s \in Todo)

\* What holds of the programs then still holds.
LEMMA FrameKeeps ==
  ASSUME SInv, SameMarks, AllSame, ScheduleSame, \A k : SetValue(k) \in Todo' => SetValue(k) \in Todo
  PROVE  /\ WorkInv' /\ RunnableOrder' /\ ExecInv' /\ OffInv' /\ StageInv'
         /\ FailInv' /\ PeriodInv' /\ StrandInv' /\ AssertInv'
<1>m. /\ \A k, v : SetState(k, v) \in Todo' <=> SetState(k, v) \in Todo
      /\ \A k : /\ CancelTask(k) \in Todo' <=> CancelTask(k) \in Todo
                /\ ExecuteNow(k) \in Todo' <=> ExecuteNow(k) \in Todo
      /\ \A d \in {"execute", "schedule", "abandon", "reset", "start", "clearDelay", "assertNotFresh",
                   "resetSchedule", "cancelSchedule"} : Do(d) \in Todo' <=> Do(d) \in Todo
      /\ \A v \in {"SUCCEEDED", "FAILED"} : HookOf(v) \in Todo' <=> HookOf(v) \in Todo
  BY CalmIs DEF SameMarks
<1>1. WorkInv' /\ RunnableOrder'
  BY <1>m DEF SInv, WorkInv, RunnableOrder, Queued, Taking, EndsOf, AllSame
<1>2. ExecInv'
  BY <1>m DEF SInv, ExecInv, AllSame
<1>3. OffInv'
  BY <1>m DEF SInv, OffInv, AllSame, ScheduleSame
<1>4. StageInv' /\ FailInv'
  BY <1>m DEF SInv, StageInv, FailInv, Exhausted, AllSame, ScheduleSame
<1>5. PeriodInv' /\ StrandInv'
  BY <1>m DEF SInv, PeriodInv, StrandInv, Awaited, Armed, AllSame, ScheduleSame
<1>6. AssertInv'
  BY <1>m DEF SInv, AssertInv, Dead, AllSame, ScheduleSame
<1> QED BY <1>1, <1>2, <1>3, <1>4, <1>5, <1>6

\* The statement that runs.
LEMMA AtHead ==
  ASSUME SInv, NEW d, At(d)
  PROVE  /\ Shape(todo) /\ todo # <<>> /\ Head(todo) \in Statements /\ Head(todo).do = d
         /\ Todo = {Head(todo)} \cup Left /\ (\A b \in Left : b \in Statements /\ Front(b, Head(todo)))
         /\ Head(todo).k <= created
<1>1. Shape(todo) /\ todo # <<>> /\ Head(todo).do = d
  BY DEF SInv, STypes, Shape, At
<1> QED BY <1>1, NowRuns DEF SInv, STypes

\* One of those statements is done.
LEMMA CalmPop ==
  ASSUME SInv, NEW d, At(d), Calm(Head(todo)), Then(<<>>)
  PROVE  /\ Todo' \subseteq Todo /\ SameMarks /\ Shape(todo') /\ Todo = {Head(todo)} \cup Todo'
<1>1. Todo' = Left /\ Shape(todo')
  BY AtHead, NothingFollows
<1> QED BY <1>1, AtHead DEF SameMarks

\* A state of its own that the Service passes through on its way to CANCELLED.
LEMMA OwnKept ==
  ASSUME SInv, task' = task, ownState' = ownState, Todo' \subseteq Todo,
         OwnTo("CANCELLED") \in Todo => OwnTo("CANCELLED") \in Todo'
  PROVE  OwnInv'
BY DEF SInv, OwnInv

-----------------------------------------------------------------------------
\* The types, when no statement comes and nothing is assigned ...
LEMMA TypesKept ==
  ASSUME SInv, AllSame, ScheduleSame, RestSame, HistorySame, calls' = calls, ownState' = ownState,
         Shape(todo'), Todo' \subseteq Todo
  PROVE  STypes'
<1>1. todo' \in Seq(Statements)
  BY DEF Shape
<1>2. TypeOK' /\ TimerTypes'
  BY DEF SInv, STypes, TypeOK, TimerTypes, AllSame, ScheduleSame, RestSame, HistorySame
<1> QED BY <1>1, <1>2 DEF SInv, STypes, AllSame

\* ... or nothing about the timer.
LEMMA TimerTypesKept ==
  ASSUME SInv, created' = created, ScheduleSame, HistorySame
  PROVE  TimerTypes'
BY DEF SInv, STypes, TimerTypes, ScheduleSame, HistorySame

\* A statement that no part of the invariant is about.
LEMMA CalmKeeps ==
  ASSUME SInv, NEW d, At(d), d # "setOwn", Calm(Head(todo)), Then(<<>>),
         AllSame, ScheduleSame, ownState' = ownState, STypes'
  PROVE  SInv'
<1>1. /\ Todo' \subseteq Todo /\ SameMarks /\ Shape(todo') /\ Todo = {Head(todo)} \cup Todo'
      /\ Head(todo).do = d
  BY CalmPop DEF At
<1>2. OwnTo("CANCELLED") \in Todo => OwnTo("CANCELLED") \in Todo'
  BY <1>1, FieldsAre
<1>3. OwnInv'
  BY <1>1, <1>2, OwnKept DEF AllSame
<1> QED BY <1>1, <1>3, FrameKeeps DEF SInv, Shape

\* running of a task, its value, the rest of reset(), a return, and the hooks that
\* do nothing.
LEMMA SetRunningKeeps ==
  ASSUME SInv, TaskSetRunning, UNCHANGED <<schVars, now>>
  PROVE  SInv'
<1>h. At("setRunning") /\ Then(<<>>) /\ Calm(Head(todo)) /\ Head(todo).k \in Tasks
  BY AtHead, StatementIs DEF TaskSetRunning, Calm
<1>u. ownState' = ownState /\ AllSame /\ ScheduleSame /\ HistorySame
  BY DEF TaskSetRunning, AllSame, ScheduleSame, HistorySame, svVars, bindVars, schVars, runVars, timerVars
<1>1. STypes'
  <2>1. Todo' \subseteq Todo /\ todo' \in Seq(Statements)
    BY <1>h, <1>u, CalmPop DEF Shape
  <2>2. (Head(todo).v \in {"SCHEDULED", "RUNNING"}) \in BOOLEAN
    OBVIOUS
  <2>3. trunning' \in [Tasks -> BOOLEAN]
    BY <1>h, <2>2 DEF TaskSetRunning, SInv, STypes, TypeOK
  <2>4. TypeOK'
    BY <1>u, <2>3 DEF TaskSetRunning, SInv, STypes, TypeOK, AllSame, svVars, bindVars
  <2> QED BY <1>u, <2>1, <2>4, TimerTypesKept DEF SInv, STypes, AllSame
<1> QED BY <1>h, <1>u, <1>1, CalmKeeps

LEMMA SetValueKeeps ==
  ASSUME SInv, TaskSetValue, UNCHANGED <<schVars, now>>
  PROVE  SInv'
<1>h. At("setValue") /\ Then(<<>>) /\ Calm(Head(todo)) /\ Head(todo).k \in Tasks
  BY AtHead, StatementIs DEF TaskSetValue, Calm
<1>u. ownState' = ownState /\ AllSame /\ ScheduleSame /\ HistorySame
  BY DEF TaskSetValue, AllSame, ScheduleSame, HistorySame, svVars, bindVars, schVars, runVars, timerVars
<1>1. STypes'
  <2>1. Todo' \subseteq Todo /\ todo' \in Seq(Statements)
    BY <1>h, <1>u, CalmPop DEF Shape
  <2>2. tvalue' \in [Tasks -> BOOLEAN]
    BY <1>h DEF TaskSetValue, SInv, STypes, TypeOK
  <2>3. TypeOK'
    BY <1>u, <2>2 DEF TaskSetValue, SInv, STypes, TypeOK, AllSame, svVars, bindVars
  <2> QED BY <1>u, <2>1, <2>3, TimerTypesKept DEF SInv, STypes, AllSame
<1> QED BY <1>h, <1>u, <1>1, CalmKeeps

LEMMA ResetRestKeeps ==
  ASSUME SInv, ResetRest, UNCHANGED <<schVars, now>>
  PROVE  SInv'
<1>h. At("resetRest") /\ Then(<<>>) /\ Calm(Head(todo))
  BY AtHead DEF ResetRest, Calm
<1>u. ownState' = ownState /\ AllSame /\ ScheduleSame /\ HistorySame
  BY DEF ResetRest, AllSame, ScheduleSame, HistorySame, taskVars, schVars, runVars, timerVars
<1>1. STypes'
  <2>1. Todo' \subseteq Todo /\ todo' \in Seq(Statements)
    BY <1>h, <1>u, CalmPop DEF Shape
  <2>2. ownRunning' \in BOOLEAN /\ restBound' = 0 /\ ownValue' = 0
    BY DEF ResetRest, Null
  <2>3. TypeOK'
    BY <1>u, <2>2 DEF ResetRest, SInv, STypes, TypeOK, AllSame, taskVars
  <2> QED BY <1>u, <2>1, <2>3, TimerTypesKept DEF SInv, STypes, AllSame
<1> QED BY <1>h, <1>u, <1>1, CalmKeeps

LEMMA ReturnKeeps ==
  ASSUME SInv, MethodReturn, UNCHANGED <<schVars, now>>
  PROVE  SInv'
<1>h. At("return") /\ Then(<<>>) /\ Calm(Head(todo))
  BY AtHead DEF MethodReturn, Calm
<1>u. ownState' = ownState /\ AllSame /\ ScheduleSame /\ HistorySame /\ RestSame /\ calls' = calls
  BY DEF MethodReturn, AllSame, ScheduleSame, RestSame, HistorySame, taskVars, svVars, bindVars, schVars, runVars, timerVars
<1>1. STypes'
  BY <1>h, <1>u, CalmPop, TypesKept
<1> QED BY <1>h, <1>u, <1>1, CalmKeeps

LEMMA OtherHookKeeps ==
  ASSUME SInv, OtherHook
  PROVE  SInv'
<1>h. At("hook") /\ Then(<<>>) /\ Calm(Head(todo))
  BY AtHead DEF OtherHook, Hook, Calm
<1>u. ownState' = ownState /\ AllSame /\ ScheduleSame /\ HistorySame /\ RestSame /\ calls' = calls
  BY DEF OtherHook, Hook, AllSame, ScheduleSame, RestSame, HistorySame, taskVars, svVars, bindVars, schVars, runVars, timerVars
<1>1. STypes'
  BY <1>h, <1>u, CalmPop, TypesKept
<1> QED BY <1>h, <1>u, <1>1, CalmKeeps

\* Time passes, or nothing.
LEMMA StillKeeps ==
  ASSUME SInv, Tick \/ UNCHANGED allVars
  PROVE  SInv'
<1>u. /\ ownState' = ownState /\ AllSame /\ ScheduleSame /\ RestSame /\ todo' = todo /\ calls' = calls
      /\ lastRunTime' = lastRunTime /\ ranAt' = ranAt /\ stop' = stop /\ lastValue' = lastValue
      /\ now' = now \/ (now' = now + 1 /\ now < MaxTime)
  BY DEF Tick, allVars, vars, AllSame, ScheduleSame, RestSame, taskVars, svVars, bindVars, schVars, runVars, timerVars
<1>t. Todo' = Todo
  BY <1>u DEF Todo, Elems
<1>2. OwnInv'
  BY <1>u, <1>t, OwnKept DEF AllSame
<1>1. STypes'
  <2>1. TypeOK'
    BY <1>u DEF SInv, STypes, TypeOK, AllSame, RestSame
  <2>2. TimerTypes'
    BY <1>u, ScheduleAssumption DEF SInv, STypes, TimerTypes, AllSame, ScheduleSame
  <2> QED BY <1>u, <1>t, <2>1, <2>2 DEF SInv, STypes, AllSame
<1> QED BY <1>u, <1>t, <1>1, <1>2, FrameKeeps DEF SInv, SameMarks

-----------------------------------------------------------------------------
\* The statements that are one of a kind.
Solo == {"execute", "schedule", "abandon", "reset", "start", "clearDelay", "assertNotFresh",
         "resetSchedule", "cancelSchedule"}

\* Task.setState.
LEMMA SetStateKeeps ==
  ASSUME SInv, TaskSetState, UNCHANGED <<schVars, now>>
  PROVE  SInv'
<1>h. /\ At("setState") /\ Shape(todo) /\ todo # <<>> /\ Head(todo) \in Statements
      /\ Todo = {Head(todo)} \cup Left /\ (\A b \in Left : b \in Statements /\ Front(b, Head(todo)))
      /\ Head(todo).k <= created /\ Head(todo).do = "setState"
  BY AtHead DEF TaskSetState
<1>k. PICK k \in Tasks, v \in States \ {"READY"} : Head(todo) = SetState(k, v) /\ k <= created
  BY <1>h, StatementIs
<1>d. Head(todo).k = k /\ Head(todo).v = v /\ stateBound = task /\ (k = task => state = tstate[k])
  <2>1. k # 0
    BY DEF Tasks
  <2> QED BY <1>k, <2>1, FieldsAre DEF SInv, STypes, state, Null
<1>e. /\ tstate[k] = "CANCELLED" => tstate' = tstate /\ Then(<<>>)
      /\ tstate[k] # "CANCELLED" =>
           /\ tstate' = [tstate EXCEPT ![k] = v]
           /\ IF task = k /\ tstate[k] # v THEN Then(<<HookOf(v)>> \o <<SetRunning(k, v)>>)
              ELSE Then(<<SetRunning(k, v)>>) \/ Then(<<>> \o <<SetRunning(k, v)>>)
  BY <1>d DEF TaskSetState, HookOn, HookOf, SetRunning
<1>s. /\ HookOf(v) \in Statements /\ SetRunning(k, v) \in Statements
      /\ HookOf(v) # OwnTo("SCHEDULED") /\ SetRunning(k, v) # OwnTo("SCHEDULED") /\ SetRunning(k, v) # Return
      /\ Head(todo) # Return
      /\ Replaces(SetRunning(k, v), Head(todo)) /\ Replaces(HookOf(v), Head(todo))
      /\ Front(SetRunning(k, v), HookOf(v))
  <2>1. Front(SetRunning(k, v), HookOf(v)) /\ v \in States
    BY FieldsAre DEF Front
  <2> QED BY <1>k, <2>1, AreStatements, Replacements, FieldsAre
<1>t. /\ Shape(todo')
      /\ tstate[k] = "CANCELLED" => Todo' = Left
      /\ tstate[k] # "CANCELLED" => Todo' = IF task = k /\ tstate[k] # v THEN {HookOf(v), SetRunning(k, v)} \cup Left
                                            ELSE {SetRunning(k, v)} \cup Left
  <2>1. CASE tstate[k] = "CANCELLED"
    BY <2>1, <1>h, <1>e, NothingFollows
  <2>2. CASE tstate[k] # "CANCELLED" /\ task = k /\ tstate[k] # v
    BY <2>2, <1>h, <1>e, <1>s, TwoFollow
  <2>3. CASE tstate[k] # "CANCELLED" /\ ~(task = k /\ tstate[k] # v)
    <3>1. <<>> \o <<SetRunning(k, v)>> = <<SetRunning(k, v)>>
      OBVIOUS
    <3>2. Then(<<SetRunning(k, v)>>)
      BY <2>3, <1>e, <3>1
    <3> QED BY <2>3, <3>2, <1>h, <1>s, OneFollows
  <2> QED BY <2>1, <2>2, <2>3
<1>f. \A b \in Left : Front(b, SetState(k, v))
  BY <1>h, <1>k
<1>m1. /\ \A j, u : SetState(j, u) \in Left => u = "RUNNING" /\ v \in {"CANCELLED", "SCHEDULED"}
       /\ \A j : SetValue(j) \notin Left /\ CancelTask(j) \notin Left /\ ExecuteNow(j) \notin Left
       /\ Do("schedule") \notin Left /\ Do("clearDelay") \notin Left
       /\ v # "CANCELLED" => \A d \in Solo \ {"execute"} : Do(d) \notin Left
       /\ v \notin {"CANCELLED", "SCHEDULED"} => Do("execute") \notin Left
       /\ v # "CANCELLED" => \A u : HookOf(u) \notin Left /\ OwnTo(u) \notin Left
  BY <1>f, FieldsAre DEF Front, Cancels, OfStart, HookReady, Solo
<1> HIDE DEF Solo
<1>c. /\ Todo = {SetState(k, v)} \cup Left
      /\ \A s \in Todo' : s \in Left \/ s = SetRunning(k, v) \/ (s = HookOf(v) /\ task = k /\ tstate[k] \notin {v, "CANCELLED"})
      /\ \A s \in Left : s \in Todo'
      /\ task = k /\ tstate[k] \notin {v, "CANCELLED"} => HookOf(v) \in Todo'
  BY <1>h, <1>k, <1>t
<1>m2. /\ \A j, u : SetState(j, u) \in Todo' <=> SetState(j, u) \in Left
       /\ \A j, u : SetState(j, u) \in Todo <=> SetState(j, u) \in Left \/ (j = k /\ u = v)
       /\ \A j : SetValue(j) \notin Todo /\ CancelTask(j) \notin Todo /\ ExecuteNow(j) \notin Todo
       /\ \A j : SetValue(j) \notin Todo' /\ CancelTask(j) \notin Todo' /\ ExecuteNow(j) \notin Todo'
       /\ \A d : d # "setRunning" => (Do(d) \in Todo' <=> Do(d) \in Left) /\ (Do(d) \in Todo <=> Do(d) \in Left)
       /\ \A u : (OwnTo(u) \in Todo' <=> OwnTo(u) \in Left) /\ (OwnTo(u) \in Todo <=> OwnTo(u) \in Left)
       /\ \A u : HookOf(u) \in Todo <=> HookOf(u) \in Left
       /\ \A u : HookOf(u) \in Todo' <=> HookOf(u) \in Left \/ (u = v /\ task = k /\ tstate[k] \notin {v, "CANCELLED"})
  BY <1>c, <1>m1, FieldsAre
<1>u. /\ fut' = fut /\ wpc' = wpc /\ created' = created /\ task' = task /\ stateBound' = stateBound
      /\ ownState' = ownState /\ startedOnce' = startedOnce /\ queue' = queue /\ calls' = calls
      /\ ScheduleSame /\ RestSame /\ HistorySame
  BY DEF TaskSetState, ScheduleSame, RestSame, HistorySame, svVars, bindVars, schVars, runVars, timerVars
<1>w. /\ \A j \in Tasks : j # k => tstate'[j] = tstate[j]
      /\ tstate'[k] = IF tstate[k] = "CANCELLED" THEN "CANCELLED" ELSE v
      /\ tstate' \in [Tasks -> States]
  BY <1>e DEF SInv, STypes, TypeOK
<1>z. task # Null => task \in Tasks
  BY BoundAssumption DEF SInv, STypes, TypeOK, Tasks, Null
<1>1. STypes'
  <2>1. TypeOK'
    BY <1>u, <1>w DEF SInv, STypes, TypeOK, RestSame
  <2>2. TimerTypes'
    BY <1>u, TimerTypesKept
  <2>3. \A s \in Todo' : s.k <= created
    <3>1. SetRunning(k, v).k = k /\ HookOf(v).k = 0 /\ 0 <= created
      BY FieldsAre, BoundAssumption DEF SInv, STypes, TypeOK
    <3>2. \A s \in Left : s.k <= created
      BY <1>h DEF SInv, STypes
    <3> QED BY <3>1, <3>2, <1>c, <1>k
  <2> QED BY <1>u, <1>t, <2>1, <2>2, <2>3 DEF SInv, STypes, Shape
<1>2. WorkInv'
  <2>0. WorkInv /\ RunnableOrder
    BY DEF SInv
  <2>1. ASSUME NEW j \in Tasks PROVE WorkInv!(j)'
    <3>1. CASE j # k
      BY <2>0, <3>1, <1>u, <1>w, <1>m2 DEF WorkInv
    <3>2. CASE j = k
      <4>1. v \in {"SCHEDULED", "RUNNING", "SUCCEEDED", "FAILED", "CANCELLED"}
        BY DEF States, Ending
      <4>2. ~(k > created)
        BY <1>k, BoundAssumption DEF Tasks, SInv, STypes, TypeOK
      <4>3. SetState(k, v) \in Todo
        BY <1>c
      <4> QED BY <2>0, <3>2, <4>1, <4>2, <4>3, <1>u, <1>w, <1>m1, <1>m2 DEF WorkInv
    <3> QED BY <3>1, <3>2
  <2> QED BY <2>1 DEF WorkInv
<1>3. RunnableOrder'
  <2>0. RunnableOrder /\ WorkInv
    BY DEF SInv
  <2>1. ASSUME NEW j \in Tasks PROVE RunnableOrder!(j)'
    <3>1. CASE j # k
      BY <2>0, <3>1, <1>u, <1>w, <1>m2 DEF RunnableOrder, Queued, Taking, EndsOf
    <3>2. CASE j = k
      BY <2>0, <3>2, <1>k, <1>u, <1>w, <1>m1, <1>m2 DEF RunnableOrder, WorkInv, Queued, Taking, EndsOf
    <3> QED BY <3>1, <3>2
  <2> QED BY <2>1 DEF RunnableOrder
<1>4. OwnInv'
  BY <1>u, <1>c, <1>m2, <1>k, FieldsAre DEF SInv, OwnInv, Cancels
<1>5. ExecInv'
  BY <1>u, <1>w, <1>m1, <1>m2, <1>z DEF SInv, ExecInv
<1>6. OffInv'
  BY <1>u, <1>m2 DEF SInv, OffInv, ScheduleSame
<1>7. StageInv'
  <2>1. task = k /\ v \in {"SUCCEEDED", "FAILED"} => wpc[task] # "new" /\ ~freshStart
    BY <1>c, <1>k DEF SInv, RunnableOrder, EndsOf, StageInv, Null, Tasks
  <2> QED BY <1>u, <1>m2, <1>z, <2>1, <1>k DEF SInv, StageInv, ScheduleSame, Null, Tasks
<1>8. FailInv'
  <2>1. tstate[k] \in {"SUCCEEDED", "FAILED"} => v = "CANCELLED"
    <3>1. v \in {"SCHEDULED", "RUNNING", "SUCCEEDED", "FAILED", "CANCELLED"}
      BY DEF States, Ending
    <3> QED BY <3>1, <1>c, <1>k DEF SInv, RunnableOrder, Taking, EndsOf
  <2>2. k # 0
    BY DEF Tasks
  <2> QED BY <1>u, <1>w, <1>m1, <1>m2, <1>z, <2>1, <2>2, <1>k DEF SInv, FailInv, Exhausted, ScheduleSame, Null, Solo
<1>9. PeriodInv'
  BY <1>u DEF SInv, PeriodInv, ScheduleSame
<1>10. StrandInv'
  <2>1. SetState(k, v) \in Todo /\ WorkInv
    BY <1>c DEF SInv
  <2>2. task = k /\ wpc[k] = "new" /\ fut[k] = "NEW" => v = "SCHEDULED"
    <3>1. v \in {"SCHEDULED", "RUNNING", "SUCCEEDED", "FAILED", "CANCELLED"}
      BY DEF States, Ending
    <3> QED BY <3>1, <2>1, <1>k DEF SInv, WorkInv, RunnableOrder, EndsOf
  <2> QED BY <1>u, <1>w, <1>m2, <1>z, <2>1, <2>2 DEF SInv, StrandInv, Awaited, Armed, ScheduleSame
<1>11. AssertInv'
  <2>1. SetState(k, v) \in Todo /\ AssertInv
    BY <1>c DEF SInv
  <2>2. Dead => Dead'
    BY <1>u, <1>w, <1>m2, <1>k DEF Dead
  <2> QED BY <1>u, <1>w, <1>m2, <1>z, <2>1, <2>2 DEF AssertInv, ScheduleSame
<1> QED BY <1>1, <1>2, <1>3, <1>4, <1>5, <1>6, <1>7, <1>8, <1>9, <1>10, <1>11, <1>t DEF SInv, Shape

-----------------------------------------------------------------------------
\* state.set(v) of an unbound state.
LEMMA SetOwnKeeps ==
  ASSUME SInv, SetOwnState, UNCHANGED <<schVars, now>>
  PROVE  SInv'
<1>h. /\ At("setOwn") /\ Shape(todo) /\ todo # <<>> /\ Head(todo) \in Statements
      /\ Todo = {Head(todo)} \cup Left /\ (\A b \in Left : b \in Statements /\ Front(b, Head(todo)))
      /\ Head(todo).do = "setOwn"
  BY AtHead DEF SetOwnState
<1>k. PICK v \in {"SCHEDULED", "CANCELLED"} : Head(todo) = OwnTo(v)
  BY <1>h, StatementIs
<1>d. Head(todo).v = v /\ v \in States
  BY <1>k, FieldsAre DEF States, Ending
<1>e. ownState' = v /\ (Then(<<HookOf(v)>>) \/ Then(<<>>))
  BY <1>d DEF SetOwnState, HookOn, HookOf
<1>s. /\ HookOf(v) \in Statements /\ HookOf(v) # OwnTo("SCHEDULED") /\ Head(todo) # Return
      /\ Replaces(HookOf(v), Head(todo))
  BY <1>k, <1>d, AreStatements, Replacements, FieldsAre
<1>t. Shape(todo') /\ (Todo' = {HookOf(v)} \cup Left \/ Todo' = Left)
  BY <1>h, <1>e, <1>s, NothingFollows, OneFollows
<1>c. Todo = {OwnTo(v)} \cup Left /\ (\A b \in Left : b \in Todo' /\ b \in Statements /\ Front(b, OwnTo(v)))
      /\ \A b \in Todo' : b \in Left \/ b = HookOf(v)
  BY <1>h, <1>k, <1>t
<1>m. SameMarks /\ \A k : SetValue(k) \in Todo' => SetValue(k) \in Todo
  <2>1. Calm(OwnTo(v)) /\ Calm(HookOf(v)) /\ \A k : SetValue(k) # HookOf(v)
    BY CalmIs, FieldsAre
  <2> QED BY <1>c, <2>1 DEF SameMarks
<1>u. AllSame /\ ScheduleSame /\ RestSame /\ HistorySame /\ calls' = calls
  BY DEF SetOwnState, AllSame, ScheduleSame, RestSame, HistorySame, taskVars, schVars, runVars, timerVars
<1>1. STypes'
  <2>1. TypeOK'
    BY <1>u, <1>e, <1>d DEF SInv, STypes, TypeOK, AllSame, RestSame
  <2>2. TimerTypes'
    BY <1>u, TimerTypesKept DEF AllSame
  <2>3. \A s \in Todo' : s.k <= created
    <3>1. HookOf(v).k = 0 /\ 0 <= created
      BY FieldsAre, BoundAssumption DEF SInv, STypes, TypeOK
    <3> QED BY <3>1, <1>c DEF SInv, STypes
  <2> QED BY <1>u, <1>e, <1>t, <2>1, <2>2, <2>3 DEF SInv, STypes, Shape, AllSame
<1>2. OwnInv'
  <2> SUFFICES ASSUME v = "SCHEDULED"
               PROVE  /\ OwnTo("CANCELLED") \in Todo'
                      /\ \A s \in Todo' : Cancels(s) \/ s = HookOf("SCHEDULED") \/ s.do = "setRunning"
    BY <1>e DEF OwnInv
  <2>1. OwnTo("CANCELLED") \in Left
    BY <1>h, <1>k, NowRuns
  <2>2. ASSUME NEW s \in Left PROVE Cancels(s) \/ s.do = "setRunning"
    <3>1. Front(s, OwnTo("SCHEDULED")) /\ s \in Statements
      BY <1>c
    <3>2. s.do = "setOwn" => s.v \in {"SCHEDULED", "CANCELLED"}
      BY <3>1, StatementIs
    <3>3. s.do \in {"execute", "schedule", "abandon", "reset", "resetRest", "start", "return", "clearDelay",
                    "assertNotFresh", "resetSchedule", "cancelSchedule",
                    "hook", "setOwn", "executeNow", "cancelTask", "setValue", "setState", "setRunning"}
      BY <3>1, StatementIs DEF Simple
    <3> QED BY <3>1, <3>2, <3>3, FieldsAre DEF Front, Cancels, OfStart, HookReady
  <2> QED BY <2>1, <2>2, <1>c
<1> QED BY <1>1, <1>2, <1>u, <1>t, <1>m, FrameKeeps DEF SInv, Shape

\* Task.cancel.
LEMMA CancelKeeps ==
  ASSUME SInv, TaskCancel, UNCHANGED <<schVars, now>>
  PROVE  SInv'
<1>h. /\ At("cancelTask") /\ Shape(todo) /\ todo # <<>> /\ Head(todo) \in Statements
      /\ Todo = {Head(todo)} \cup Left /\ (\A b \in Left : b \in Statements /\ Front(b, Head(todo)))
      /\ Head(todo).k <= created /\ Head(todo).do = "cancelTask"
  BY AtHead DEF TaskCancel
<1>k. PICK k \in Tasks : Head(todo) = CancelTask(k) /\ k <= created
  BY <1>h, StatementIs
<1>d. Head(todo).k = k
  BY <1>k, FieldsAre
<1>e. /\ fut[k] = "NEW" => fut' = [fut EXCEPT ![k] = "CANCELLED"] /\ Then(<<SetState(k, "CANCELLED")>>)
      /\ fut[k] # "NEW" => fut' = fut /\ Then(<<>>)
  BY <1>d DEF TaskCancel
<1>s. /\ SetState(k, "CANCELLED") \in Statements /\ SetState(k, "CANCELLED") # OwnTo("SCHEDULED")
      /\ Head(todo) # Return /\ Replaces(SetState(k, "CANCELLED"), Head(todo))
  <2>1. "CANCELLED" \in States \ {"READY"}
    BY DEF States, Ending
  <2> QED BY <1>k, <2>1, AreStatements, Replacements, FieldsAre
<1>t. /\ Shape(todo')
      /\ Todo' = IF fut[k] = "NEW" THEN {SetState(k, "CANCELLED")} \cup Left ELSE Left
  <2>1. CASE fut[k] = "NEW"
    BY <2>1, <1>h, <1>e, <1>s, OneFollows
  <2>2. CASE fut[k] # "NEW"
    BY <2>2, <1>h, <1>e, NothingFollows
  <2> QED BY <2>1, <2>2
<1>c. /\ Todo = {CancelTask(k)} \cup Left /\ (\A b \in Left : b \in Todo' /\ b \in Statements /\ Front(b, CancelTask(k)))
      /\ (\A b \in Todo' : b \in Left \/ (b = SetState(k, "CANCELLED") /\ fut[k] = "NEW"))
      /\ fut[k] = "NEW" => SetState(k, "CANCELLED") \in Todo'
  BY <1>h, <1>k, <1>t
<1>m1. /\ \A j, u : SetState(j, u) \in Left => u = "RUNNING"
       /\ \A j : SetValue(j) \notin Left /\ CancelTask(j) \notin Left /\ ExecuteNow(j) \notin Left
       /\ Do("schedule") \notin Left /\ Do("clearDelay") \notin Left
  BY <1>c, FieldsAre DEF Front, Cancels, OfStart, HookReady
<1>m2. /\ \A j, u : SetState(j, u) \in Todo <=> SetState(j, u) \in Left
       /\ \A j, u : SetState(j, u) \in Todo' <=> SetState(j, u) \in Left \/ (j = k /\ u = "CANCELLED" /\ fut[k] = "NEW")
       /\ \A j : SetValue(j) \notin Todo /\ SetValue(j) \notin Todo'
       /\ \A j : ExecuteNow(j) \notin Todo /\ ExecuteNow(j) \notin Todo'
       /\ \A j : CancelTask(j) \notin Todo' /\ (CancelTask(j) \in Todo <=> j = k)
       /\ \A d \in Solo : Do(d) \in Todo' <=> Do(d) \in Todo
       /\ \A u : OwnTo(u) \in Todo' <=> OwnTo(u) \in Todo
       /\ \A u : HookOf(u) \in Todo' <=> HookOf(u) \in Todo
  BY <1>c, <1>m1, FieldsAre DEF Solo
<1>m3. /\ Do("execute") \in Todo' <=> Do("execute") \in Todo
       /\ Do("schedule") \in Todo' <=> Do("schedule") \in Todo
       /\ Do("abandon") \in Todo' <=> Do("abandon") \in Todo
       /\ Do("reset") \in Todo' <=> Do("reset") \in Todo
       /\ Do("start") \in Todo' <=> Do("start") \in Todo
       /\ Do("clearDelay") \in Todo' <=> Do("clearDelay") \in Todo
       /\ Do("assertNotFresh") \in Todo' <=> Do("assertNotFresh") \in Todo
       /\ Do("resetSchedule") \in Todo' <=> Do("resetSchedule") \in Todo
       /\ Do("cancelSchedule") \in Todo' <=> Do("cancelSchedule") \in Todo
  BY <1>m2 DEF Solo
<1>u. /\ tstate' = tstate /\ wpc' = wpc /\ created' = created /\ task' = task /\ stateBound' = stateBound
      /\ ownState' = ownState /\ startedOnce' = startedOnce /\ queue' = queue /\ calls' = calls
      /\ ScheduleSame /\ RestSame /\ HistorySame
  BY DEF TaskCancel, ScheduleSame, RestSame, HistorySame, svVars, bindVars, schVars, runVars, timerVars
<1>w. /\ \A j \in Tasks : j # k => fut'[j] = fut[j]
      /\ fut'[k] = IF fut[k] = "NEW" THEN "CANCELLED" ELSE fut[k]
      /\ fut' \in [Tasks -> {"NEW", "NORMAL", "EXCEPTIONAL", "CANCELLED"}]
  BY <1>e DEF SInv, STypes, TypeOK
<1>z. /\ task # Null => task \in Tasks
      /\ ~(k > created)
  BY <1>k, BoundAssumption DEF SInv, STypes, TypeOK, Tasks, Null
<1>1. STypes'
  <2>1. TypeOK'
    BY <1>u, <1>w DEF SInv, STypes, TypeOK, RestSame
  <2>2. TimerTypes'
    BY <1>u, TimerTypesKept
  <2>3. \A s \in Todo' : s.k <= created
    BY <1>c, <1>k, FieldsAre DEF SInv, STypes
  <2> QED BY <1>u, <1>t, <2>1, <2>2, <2>3 DEF SInv, STypes, Shape
<1>2. WorkInv'
  <2>0. WorkInv
    BY DEF SInv
  <2>1. ASSUME NEW j \in Tasks PROVE WorkInv!(j)'
    BY <2>0, <1>u, <1>w, <1>m2, <1>z DEF WorkInv
  <2> QED BY <2>1 DEF WorkInv
<1>3. RunnableOrder'
  BY <1>u, <1>m2 DEF SInv, RunnableOrder, Queued, Taking, EndsOf
<1>4. OwnInv'
  BY <1>u, <1>c, <1>m2, FieldsAre DEF SInv, OwnInv, Cancels
<1>5. ExecInv'
  BY <1>u, <1>m2, <1>m3 DEF SInv, ExecInv
<1>6. OffInv'
  BY <1>u, <1>m2, <1>m3 DEF SInv, OffInv, ScheduleSame
<1>7. StageInv'
  BY <1>u, <1>w, <1>m2, <1>m3, <1>z DEF SInv, StageInv, ScheduleSame
<1>8. FailInv'
  BY <1>u, <1>m2, <1>m3 DEF SInv, FailInv, Exhausted, ScheduleSame
<1>9. PeriodInv'
  BY <1>u DEF SInv, PeriodInv, ScheduleSame
<1>10. StrandInv'
  BY <1>u, <1>w, <1>m2, <1>m3, <1>z DEF SInv, StrandInv, Awaited, Armed, ScheduleSame
<1>11. AssertInv'
  <2>1. Dead => Dead'
    BY <1>u, <1>m2, <1>m3 DEF Dead
  <2>2. CancelTask(k) \in Todo
    BY <1>c
  <2> QED BY <1>u, <1>w, <1>m2, <1>m3, <1>z, <2>1, <2>2 DEF SInv, AssertInv, ScheduleSame
<1> QED BY <1>1, <1>2, <1>3, <1>4, <1>5, <1>6, <1>7, <1>8, <1>9, <1>10, <1>11, <1>t DEF SInv, Shape

-----------------------------------------------------------------------------
\* An exception: what is left is skipped, and nothing that matters was in it.
LEMMA ThrowKeeps ==
  ASSUME SInv, AllSame, ownState' = ownState, todo' = <<>>, timers' = timers, freshStart' = freshStart,
         currentFailureCount' = currentFailureCount,
         \A k : SetState(k, "CANCELLED") \notin Todo,
         task = Null => ~Exhausted /\ ownState # "SCHEDULED",
         task # Null /\ tstate[task] = "FAILED" => Exhausted
  PROVE  /\ Shape(todo') /\ Todo' = {} /\ WorkInv' /\ RunnableOrder' /\ OwnInv' /\ ExecInv' /\ OffInv'
         /\ StageInv' /\ FailInv'
<1>1. Shape(todo') /\ Todo' = {}
  BY EmptyShape DEF Todo
<1>2. WorkInv' /\ RunnableOrder'
  BY <1>1 DEF SInv, WorkInv, RunnableOrder, Queued, Taking, EndsOf, AllSame
<1>3. OwnInv' /\ ExecInv'
  BY <1>1 DEF OwnInv, ExecInv, AllSame
<1>4. OffInv'
  BY <1>1 DEF SInv, OffInv, AllSame
<1>5. StageInv' /\ FailInv'
  BY <1>1 DEF SInv, StageInv, FailInv, Exhausted, AllSame
<1> QED BY <1>1, <1>2, <1>3, <1>4, <1>5

\* Outside the timer, too.
LEMMA ThrowKeepsAll ==
  ASSUME SInv, AllSame, ownState' = ownState, todo' = <<>>, ScheduleSame, RestSame, HistorySame, calls' = calls,
         \A k : SetState(k, "CANCELLED") \notin Todo,
         task = Null => ~Exhausted /\ ownState # "SCHEDULED",
         task # Null /\ tstate[task] = "FAILED" => Exhausted,
         task # Null => Do("execute") \notin Todo, \A k : ExecuteNow(k) \notin Todo,
         Do("clearDelay") \notin Todo, Do("cancelSchedule") \notin Todo
  PROVE  SInv'
<1>1. /\ Shape(todo') /\ Todo' = {} /\ WorkInv' /\ RunnableOrder' /\ OwnInv' /\ ExecInv' /\ OffInv'
      /\ StageInv' /\ FailInv'
  BY ThrowKeeps DEF ScheduleSame
<1>2. STypes'
  BY <1>1, TypesKept
<1>3. PeriodInv' /\ StrandInv'
  BY <1>1 DEF SInv, PeriodInv, StrandInv, Awaited, Armed, AllSame, ScheduleSame
<1>4. AssertInv'
  <2>1. Dead => Dead'
    BY <1>1 DEF Dead, AllSame
  <2> QED BY <1>1, <2>1 DEF SInv, AssertInv, AllSame, ScheduleSame
<1> QED BY <1>1, <1>2, <1>3, <1>4 DEF SInv, Shape

\* restart(), after task.cancel().
LEMMA AbandonKeeps ==
  ASSUME SInv, Abandon, UNCHANGED <<schVars, now>>
  PROVE  SInv'
<1>h. /\ At("abandon") /\ Shape(todo) /\ todo # <<>> /\ Head(todo) \in Statements
      /\ Todo = {Head(todo)} \cup Left /\ (\A b \in Left : b \in Statements /\ Front(b, Head(todo)))
      /\ Head(todo).do = "abandon"
  BY AtHead DEF Abandon
<1>k. Head(todo) = Do("abandon")
  BY <1>h, StatementIs DEF Simple
<1>e. /\ ownState' = "CANCELLED" /\ task' = Null /\ stateBound' = Null
      /\ Then(<<HookOf("CANCELLED")>>) \/ Then(<<>>)
  BY DEF Abandon, HookOn, HookOf
<1>s. /\ HookOf("CANCELLED") \in Statements /\ HookOf("CANCELLED") # OwnTo("SCHEDULED") /\ Head(todo) # Return
      /\ Replaces(HookOf("CANCELLED"), Head(todo))
  <2>1. "CANCELLED" \in States
    BY DEF States, Ending
  <2> QED BY <1>k, <2>1, AreStatements, Replacements, FieldsAre
<1>t. Shape(todo') /\ (Todo' = {HookOf("CANCELLED")} \cup Left \/ Todo' = Left)
  BY <1>h, <1>e, <1>s, NothingFollows, OneFollows
<1>c. /\ Todo = {Do("abandon")} \cup Left
      /\ \A b \in Left : b \in Todo' /\ b \in Statements /\ Front(b, Do("abandon"))
      /\ \A b \in Todo' : b \in Left \/ b = HookOf("CANCELLED")
  BY <1>h, <1>k, <1>t
<1>m1. /\ \A j, u : SetState(j, u) \notin Left
       /\ \A j : SetValue(j) \notin Left /\ CancelTask(j) \notin Left /\ ExecuteNow(j) \notin Left
       /\ Do("schedule") \notin Left /\ Do("clearDelay") \notin Left /\ Do("execute") \notin Left
       /\ Do("abandon") \notin Left /\ Do("assertNotFresh") \notin Left /\ Do("cancelSchedule") \notin Left
       /\ \A u : HookOf(u) \notin Left
  BY <1>c, FieldsAre DEF Front, Cancels, OfStart, HookReady
<1>m2. /\ \A j, u : SetState(j, u) \notin Todo /\ SetState(j, u) \notin Todo'
       /\ \A j : SetValue(j) \notin Todo /\ SetValue(j) \notin Todo'
       /\ \A j : ExecuteNow(j) \notin Todo /\ ExecuteNow(j) \notin Todo'
       /\ \A j : CancelTask(j) \notin Todo' /\ CancelTask(j) \notin Todo
       /\ HookOf("SUCCEEDED") \notin Todo' /\ HookOf("FAILED") \notin Todo'
       /\ Do("execute") \notin Todo' /\ Do("schedule") \notin Todo' /\ Do("abandon") \notin Todo'
       /\ Do("schedule") \notin Todo /\ Do("abandon") \in Todo
       /\ Do("cancelSchedule") \notin Todo' /\ Do("clearDelay") \notin Todo' /\ Do("assertNotFresh") \notin Todo'
       /\ Do("reset") \in Todo' <=> Do("reset") \in Todo
       /\ Do("start") \in Todo' <=> Do("start") \in Todo
       /\ Do("resetSchedule") \in Todo' <=> Do("resetSchedule") \in Todo
  BY <1>c, <1>m1, FieldsAre
<1>u. /\ tstate' = tstate /\ wpc' = wpc /\ fut' = fut /\ created' = created
      /\ startedOnce' = startedOnce /\ queue' = queue /\ calls' = calls
      /\ ScheduleSame /\ RestSame /\ HistorySame
  BY DEF Abandon, ScheduleSame, RestSame, HistorySame, taskVars, schVars, runVars, timerVars
<1>1. STypes'
  <2>1. TypeOK'
    BY <1>u, <1>e DEF SInv, STypes, TypeOK, RestSame, Null, States, Ending
  <2>2. TimerTypes'
    BY <1>u, TimerTypesKept
  <2>3. \A s \in Todo' : s.k <= created
    <3>1. HookOf("CANCELLED").k = 0 /\ 0 <= created
      BY FieldsAre, BoundAssumption DEF SInv, STypes, TypeOK
    <3> QED BY <3>1, <1>c DEF SInv, STypes
  <2> QED BY <1>u, <1>e, <1>t, <2>1, <2>2, <2>3 DEF SInv, STypes, Shape
<1>2. WorkInv' /\ RunnableOrder'
  BY <1>u, <1>m2 DEF SInv, WorkInv, RunnableOrder, Queued, Taking, EndsOf
<1>3. OwnInv' /\ ExecInv' /\ StrandInv'
  BY <1>e, <1>m2 DEF OwnInv, ExecInv, StrandInv
<1>4. OffInv'
  BY <1>u, <1>m2 DEF SInv, OffInv, ScheduleSame
<1>5. StageInv' /\ FailInv' /\ PeriodInv'
  BY <1>u, <1>e, <1>m2 DEF SInv, StageInv, FailInv, Exhausted, PeriodInv, ScheduleSame
<1>6. AssertInv'
  BY <1>m2 DEF SInv, AssertInv
<1> QED BY <1>1, <1>2, <1>3, <1>4, <1>5, <1>6, <1>t DEF SInv, Shape

-----------------------------------------------------------------------------
\* reset().
LEMMA ResetKeeps ==
  ASSUME SInv, ResetState, UNCHANGED <<schVars, now>>
  PROVE  SInv'
<1>h. /\ At("reset") /\ Shape(todo) /\ todo # <<>> /\ Head(todo) \in Statements
      /\ Todo = {Head(todo)} \cup Left /\ (\A b \in Left : b \in Statements /\ Front(b, Head(todo)))
      /\ Head(todo).do = "reset"
  BY AtHead DEF ResetState
<1>k. Head(todo) = Do("reset") /\ ~Cancels(Do("reset"))
  BY <1>h, StatementIs, FieldsAre DEF Simple, Cancels
<1>b. Todo = {Do("reset")} \cup Left /\ \A b \in Left : b \in Statements /\ Front(b, Do("reset"))
  BY <1>h, <1>k
<1>m1. /\ \A j, u : SetState(j, u) \notin Left
       /\ \A j : SetValue(j) \notin Left /\ CancelTask(j) \notin Left /\ ExecuteNow(j) \notin Left
       /\ Do("schedule") \notin Left /\ Do("clearDelay") \notin Left /\ Do("execute") \notin Left
       /\ Do("abandon") \notin Left /\ Do("reset") \notin Left /\ Do("cancelSchedule") \notin Left
       /\ \A u : HookOf(u) \notin Left
  BY <1>b, FieldsAre DEF Front, Cancels, OfStart, HookReady
<1>m. /\ \A j, u : SetState(j, u) \notin Todo
      /\ \A j : SetValue(j) \notin Todo /\ ExecuteNow(j) \notin Todo /\ CancelTask(j) \notin Todo
      /\ HookOf("SUCCEEDED") \notin Todo /\ HookOf("FAILED") \notin Todo
      /\ Do("execute") \notin Todo /\ Do("schedule") \notin Todo /\ Do("abandon") \notin Todo
      /\ Do("cancelSchedule") \notin Todo /\ Do("clearDelay") \notin Todo /\ Do("reset") \in Todo
  BY <1>b, <1>m1, FieldsAre
<1>o. ~(task = Null /\ ownState = "SCHEDULED")
  <2>1. Do("reset") # HookOf("SCHEDULED") /\ Do("reset").do # "setRunning"
    BY FieldsAre
  <2> QED BY <2>1, <1>k, <1>m DEF SInv, OwnInv
<1>st. /\ task = Null => state = ownState
       /\ task # Null => state = tstate[task]
  BY DEF SInv, STypes, state
<1>u. /\ tstate' = tstate /\ wpc' = wpc /\ fut' = fut /\ created' = created
      /\ startedOnce' = startedOnce /\ queue' = queue /\ calls' = calls
      /\ ScheduleSame /\ RestSame /\ HistorySame
  BY DEF ResetState, ScheduleSame, RestSame, HistorySame, taskVars, schVars, runVars, timerVars
<1>1. CASE state \in {"SCHEDULED", "RUNNING"}
  <2>1. Abort /\ task' = task /\ stateBound' = stateBound /\ ownState' = ownState
    BY <1>1 DEF ResetState
  <2>2. todo' = <<>>
    BY <1>h, <1>k, <2>1, NothingIsLeft
  <2>3. task # Null /\ tstate[task] # "FAILED"
    BY <1>1, <1>o, <1>st DEF SInv, STypes
  <2> QED BY <1>u, <1>m, <2>1, <2>2, <2>3, ThrowKeepsAll DEF AllSame
<1>2. CASE state \notin {"SCHEDULED", "RUNNING"}
  <2>e. /\ ownState' = "READY" /\ task' = Null /\ stateBound' = Null
        /\ Then(<<HookOf("READY")>>) \/ Then(<<>>)
    BY <1>2 DEF ResetState, HookOn, HookOf
  <2>s. /\ HookOf("READY") \in Statements /\ HookOf("READY") # OwnTo("SCHEDULED") /\ Head(todo) # Return
        /\ Replaces(HookOf("READY"), Head(todo))
    <3>1. "READY" \in States
      BY DEF States
    <3> QED BY <1>k, <3>1, AreStatements, Replacements, FieldsAre
  <2>t. Shape(todo') /\ (Todo' = {HookOf("READY")} \cup Left \/ Todo' = Left)
    BY <1>h, <2>e, <2>s, NothingFollows, OneFollows
  <2>c. /\ \A b \in Left : b \in Todo'
        /\ \A b \in Todo' : b \in Left \/ b = HookOf("READY")
    BY <2>t
  <2>m2. /\ \A j, u : SetState(j, u) \notin Todo'
         /\ \A j : SetValue(j) \notin Todo' /\ ExecuteNow(j) \notin Todo' /\ CancelTask(j) \notin Todo'
         /\ HookOf("SUCCEEDED") \notin Todo' /\ HookOf("FAILED") \notin Todo'
         /\ Do("execute") \notin Todo' /\ Do("schedule") \notin Todo' /\ Do("abandon") \notin Todo'
         /\ Do("cancelSchedule") \notin Todo' /\ Do("clearDelay") \notin Todo' /\ Do("reset") \notin Todo'
         /\ Do("start") \in Todo' <=> Do("start") \in Todo
         /\ Do("resetSchedule") \in Todo' <=> Do("resetSchedule") \in Todo
         /\ Do("assertNotFresh") \in Todo' <=> Do("assertNotFresh") \in Todo
    BY <1>b, <2>c, <1>m1, FieldsAre
  <2>1. STypes'
    <3>1. TypeOK'
      BY <1>u, <2>e DEF SInv, STypes, TypeOK, RestSame, Null, States
    <3>2. TimerTypes'
      BY <1>u, TimerTypesKept
    <3>3. \A s \in Todo' : s.k <= created
      <4>1. HookOf("READY").k = 0 /\ 0 <= created
        BY FieldsAre, BoundAssumption DEF SInv, STypes, TypeOK
      <4> QED BY <4>1, <1>b, <2>c DEF SInv, STypes
    <3> QED BY <1>u, <2>e, <2>t, <3>1, <3>2, <3>3 DEF SInv, STypes, Shape
  <2>2. WorkInv' /\ RunnableOrder'
    BY <1>u, <1>m, <2>m2 DEF SInv, WorkInv, RunnableOrder, Queued, Taking, EndsOf
  <2>3. OwnInv' /\ ExecInv' /\ StrandInv'
    BY <2>e, <2>m2 DEF OwnInv, ExecInv, StrandInv
  <2>4. OffInv'
    BY <1>u, <1>m, <2>m2 DEF SInv, OffInv, ScheduleSame
  <2>5. StageInv' /\ PeriodInv'
    BY <1>u, <2>e, <2>m2 DEF SInv, StageInv, PeriodInv, ScheduleSame
  <2>6. FailInv'
    BY <1>u, <2>e, <1>m, <2>m2 DEF SInv, StageInv, FailInv, Exhausted, ScheduleSame
  <2>7. AssertInv'
    <3>1. Dead => Dead'
      BY <1>u, <1>m, <2>m2 DEF Dead
    <3>2. Quietly /\ delayTask # Null => Dead
      <4> SUFFICES ASSUME Quietly, delayTask # Null, ~Dead PROVE FALSE
        OBVIOUS
      <4>1. /\ task # Null /\ tstate[task] # "READY" /\ wpc[task] = "new" /\ tstate[task] # "CANCELLED"
        BY <1>m DEF SInv, AssertInv
      <4>2. task \in Tasks
        BY <4>1, BoundAssumption DEF SInv, STypes, TypeOK, Tasks, Null
      <4>3. tstate[task] \in {"SUCCEEDED", "FAILED"}
        BY <4>1, <4>2, <1>2, <1>st DEF SInv, STypes, TypeOK, States, Ending
      <4> QED BY <4>1, <4>2, <4>3 DEF SInv, RunnableOrder
    <3> QED BY <1>u, <1>m, <2>m2, <3>1, <3>2 DEF SInv, AssertInv, ScheduleSame
  <2> QED BY <2>1, <2>2, <2>3, <2>4, <2>5, <2>6, <2>7, <2>t DEF SInv, Shape
<1> QED BY <1>1, <1>2

\* The Runnable of an off-FX start.
LEMMA ScheduleKeeps ==
  ASSUME SInv, Schedule, UNCHANGED <<schVars, now>>
  PROVE  SInv'
<1>h. /\ At("schedule") /\ Shape(todo) /\ todo # <<>> /\ Head(todo) \in Statements
      /\ Todo = {Head(todo)} \cup Left /\ (\A b \in Left : b \in Statements /\ Front(b, Head(todo)))
      /\ Head(todo).do = "schedule"
  BY AtHead DEF Schedule
<1>k. Head(todo) = Do("schedule") /\ ~Cancels(Do("schedule"))
  BY <1>h, StatementIs, FieldsAre DEF Simple, Cancels
<1>b. Todo = {Do("schedule")} \cup Left /\ \A b \in Left : b \in Statements /\ Front(b, Do("schedule"))
  BY <1>h, <1>k
<1>m1. /\ \A j, u : SetState(j, u) \notin Left
       /\ \A j : SetValue(j) \notin Left /\ CancelTask(j) \notin Left /\ ExecuteNow(j) \notin Left
       /\ \A d \in Solo \ {"execute"} : Do(d) \notin Left
       /\ \A u : HookOf(u) \notin Left /\ OwnTo(u) \notin Left
  BY <1>b, FieldsAre DEF Front, Cancels, OfStart, HookReady, Solo
<1>m. /\ \A j, u : SetState(j, u) \notin Todo
      /\ \A j : SetValue(j) \notin Todo /\ ExecuteNow(j) \notin Todo /\ CancelTask(j) \notin Todo
      /\ HookOf("SUCCEEDED") \notin Todo /\ HookOf("FAILED") \notin Todo
      /\ Do("execute") \in Todo <=> Do("execute") \in Left
      /\ Do("schedule") \in Todo /\ Do("abandon") \notin Todo /\ Do("start") \notin Todo
      /\ Do("resetSchedule") \notin Todo /\ Do("assertNotFresh") \notin Todo
      /\ Do("cancelSchedule") \notin Todo /\ Do("clearDelay") \notin Todo /\ Do("reset") \notin Todo
  BY <1>b, <1>m1, FieldsAre DEF Solo
<1>o. ~(task = Null /\ ownState = "SCHEDULED")
  <2>1. Do("schedule") # HookOf("SCHEDULED") /\ Do("schedule").do # "setRunning"
    BY FieldsAre
  <2> QED BY <2>1, <1>k, <1>m DEF SInv, OwnInv
<1>u. AllSame /\ ownState' = ownState /\ calls' = calls /\ ScheduleSame /\ RestSame /\ HistorySame
  BY DEF Schedule, AllSame, ScheduleSame, RestSame, HistorySame, taskVars, svVars, bindVars, schVars, runVars, timerVars
<1>1. CASE task = Null
  <2>1. todo' = <<>>
    BY <1>1, <1>h, <1>k, NothingIsLeft DEF Schedule
  <2>2. ~Exhausted
    BY <1>1, <1>m DEF SInv, FailInv
  <2> QED BY <1>1, <1>u, <1>m, <1>o, <2>1, <2>2, ThrowKeepsAll
<1>2. CASE task # Null
  <2>z. task \in Tasks /\ task <= created
    BY <1>2, BoundAssumption DEF SInv, STypes, TypeOK, Tasks, Null
  <2>s. /\ SetState(task, "SCHEDULED") \in Statements /\ SetState(task, "SCHEDULED") # OwnTo("SCHEDULED")
        /\ Head(todo) # Return /\ Replaces(SetState(task, "SCHEDULED"), Head(todo))
    <3>1. "SCHEDULED" \in States \ {"READY"}
      BY DEF States
    <3> QED BY <1>k, <2>z, <3>1, AreStatements, Replacements, FieldsAre
  <2>e. Then(<<SetState(task, "SCHEDULED")>>)
    BY <1>2 DEF Schedule
  <2>t. Shape(todo') /\ Todo' = {SetState(task, "SCHEDULED")} \cup Left
    BY <1>h, <2>e, <2>s, OneFollows
  <2>w. /\ wpc[task] = "new" /\ Do("execute") \in Todo /\ ~Has(queue, OffFxRunnable)
    BY <2>z, <1>m DEF SInv, OffInv
  <2>m2. /\ \A j, u : SetState(j, u) \in Todo' <=> j = task /\ u = "SCHEDULED"
         /\ \A j : SetValue(j) \notin Todo' /\ ExecuteNow(j) \notin Todo' /\ CancelTask(j) \notin Todo'
         /\ HookOf("SUCCEEDED") \notin Todo' /\ HookOf("FAILED") \notin Todo'
         /\ Do("execute") \in Todo' /\ Do("schedule") \notin Todo' /\ Do("abandon") \notin Todo'
         /\ Do("cancelSchedule") \notin Todo' /\ Do("clearDelay") \notin Todo' /\ Do("reset") \notin Todo'
         /\ Do("start") \notin Todo' /\ Do("resetSchedule") \notin Todo' /\ Do("assertNotFresh") \notin Todo'
    BY <2>t, <2>w, <1>m, <1>m1, FieldsAre DEF Solo
  <2>1. STypes'
    <3>1. TypeOK'
      BY <1>u DEF SInv, STypes, TypeOK, AllSame, RestSame
    <3>2. TimerTypes'
      BY <1>u, TimerTypesKept DEF AllSame
    <3>3. \A s \in Todo' : s.k <= created
      BY <1>b, <2>t, <2>z, FieldsAre DEF SInv, STypes
    <3> QED BY <1>u, <2>t, <3>1, <3>2, <3>3 DEF SInv, STypes, Shape, AllSame
  <2>2. WorkInv' /\ RunnableOrder'
    BY <1>u, <1>m, <2>m2, <2>w, <2>z DEF SInv, WorkInv, RunnableOrder, Queued, Taking, EndsOf, AllSame
  <2>3. OwnInv' /\ ExecInv' /\ StrandInv'
    BY <1>u, <1>2, <2>m2, <2>w DEF OwnInv, ExecInv, StrandInv, AllSame
  <2>4. OffInv'
    BY <1>u, <1>m, <2>m2, <2>w DEF SInv, OffInv, AllSame, ScheduleSame
  <2>5. StageInv' /\ PeriodInv'
    BY <1>u, <2>m2 DEF SInv, StageInv, PeriodInv, AllSame, ScheduleSame
  <2>6. FailInv'
    BY <1>u, <1>2, <1>m, <2>m2 DEF SInv, FailInv, Exhausted, AllSame, ScheduleSame
  <2>7. AssertInv'
    <3>1. ~Dead
      BY <1>m DEF Dead
    <3> QED BY <1>u, <1>m, <2>m2, <2>w, <3>1 DEF SInv, AssertInv, AllSame, ScheduleSame
  <2> QED BY <2>1, <2>2, <2>3, <2>4, <2>5, <2>6, <2>7, <2>t DEF SInv, Shape
<1> QED BY <1>1, <1>2

\* start().
LEMMA StartKeeps ==
  ASSUME SInv, Start, UNCHANGED <<schVars, now>>
  PROVE  SInv'
<1>h. /\ At("start") /\ Shape(todo) /\ todo # <<>> /\ Head(todo) \in Statements
      /\ Todo = {Head(todo)} \cup Left /\ (\A b \in Left : b \in Statements /\ Front(b, Head(todo)))
      /\ Head(todo).do = "start"
  BY AtHead DEF Start
<1>k. Head(todo) = Do("start") /\ ~Cancels(Do("start"))
  BY <1>h, StatementIs, FieldsAre DEF Simple, Cancels
<1>b. Todo = {Do("start")} \cup Left /\ \A b \in Left : b \in Statements /\ Front(b, Do("start"))
  BY <1>h, <1>k
<1>m1. /\ \A j, u : SetState(j, u) \notin Left
       /\ \A j : SetValue(j) \notin Left /\ CancelTask(j) \notin Left /\ ExecuteNow(j) \notin Left
       /\ \A d \in Solo : Do(d) \notin Left
       /\ \A u : HookOf(u) \notin Left /\ OwnTo(u) \notin Left
  BY <1>b, FieldsAre DEF Front, Cancels, OfStart, HookReady, Solo
<1>m. /\ \A j, u : SetState(j, u) \notin Todo
      /\ \A j : SetValue(j) \notin Todo /\ ExecuteNow(j) \notin Todo /\ CancelTask(j) \notin Todo
      /\ HookOf("SUCCEEDED") \notin Todo /\ HookOf("FAILED") \notin Todo
      /\ Do("execute") \notin Todo /\ Do("schedule") \notin Todo /\ Do("abandon") \notin Todo /\ Do("start") \in Todo
      /\ Do("resetSchedule") \notin Todo /\ Do("assertNotFresh") \notin Todo
      /\ Do("cancelSchedule") \notin Todo /\ Do("clearDelay") \notin Todo /\ Do("reset") \notin Todo
  BY <1>b, <1>m1, FieldsAre DEF Solo
<1>o. ~(task = Null /\ ownState = "SCHEDULED")
  <2>1. Do("start") # HookOf("SCHEDULED") /\ Do("start").do # "setRunning"
    BY FieldsAre
  <2> QED BY <2>1, <1>k, <1>m DEF SInv, OwnInv
<1>st. /\ task = Null => state = ownState
       /\ task # Null => state = tstate[task]
  BY DEF SInv, STypes, state
<1>f. task = Null => ~Exhausted
  BY <1>m DEF SInv, FailInv
<1>1. CASE state # "READY"
  <2>1. Abort
    BY <1>1 DEF Start
  <2>2. todo' = <<>>
    BY <1>h, <1>k, <2>1, NothingIsLeft
  <2>3. AllSame /\ ownState' = ownState /\ calls' = calls /\ ScheduleSame /\ RestSame /\ HistorySame
    BY <1>1 DEF Start, AllSame, ScheduleSame, RestSame, HistorySame, taskVars, svVars, bindVars, schVars, runVars, timerVars
  <2>4. task # Null /\ tstate[task] = "FAILED" => Exhausted
    BY <1>m DEF SInv, FailInv
  <2> QED BY <1>f, <1>m, <1>o, <2>2, <2>3, <2>4, ThrowKeepsAll
<1>2. CASE state = "READY"
  <2> DEFINE n == created + 1
  <2>u. /\ fut' = fut /\ wpc' = wpc /\ tstate' = tstate /\ trunning' = trunning /\ tvalue' = tvalue
        /\ ownState' = ownState /\ ownRunning' = ownRunning /\ ownValue' = ownValue
        /\ created' = n /\ task' = n /\ stateBound' = n /\ restBound' = n /\ startedOnce' = TRUE
        /\ created < MaxTasks /\ Then(<<SetState(n, "SCHEDULED"), Do("execute")>>)
        /\ queue' = queue /\ calls' = calls /\ ScheduleSame /\ HistorySame
    BY <1>2 DEF Start, CreateAndBind, ScheduleSame, HistorySame, schVars, runVars, timerVars
  <2>z. /\ n \in Tasks /\ n # 0 /\ n > created /\ created \in Nat /\ n \in Nat /\ MaxTasks \in Nat
    BY <2>u, BoundAssumption DEF SInv, STypes, TypeOK, Tasks
  <2>n. wpc[n] = "new" /\ tstate[n] = "READY" /\ fut[n] = "NEW"
    BY <2>z DEF SInv, WorkInv
  <2> HIDE DEF n
  <2>s. /\ SetState(n, "SCHEDULED") \in Statements /\ SetState(n, "SCHEDULED") # OwnTo("SCHEDULED")
        /\ Do("execute") \in Statements /\ Do("execute") # OwnTo("SCHEDULED") /\ Do("execute") # Return
        /\ Head(todo) # Return /\ Replaces(SetState(n, "SCHEDULED"), Head(todo)) /\ Replaces(Do("execute"), Head(todo))
        /\ Front(Do("execute"), SetState(n, "SCHEDULED"))
    <3>1. "SCHEDULED" \in States \ {"READY"}
      BY DEF States
    <3>2. Do("execute") \in Statements
      BY AreStatements DEF Simple
    <3>3. Front(Do("execute"), SetState(n, "SCHEDULED"))
      BY FieldsAre DEF Front, OfStart
    <3> QED BY <1>k, <2>z, <3>1, <3>2, <3>3, AreStatements, Replacements, FieldsAre
  <2>t. Shape(todo') /\ Todo' = {SetState(n, "SCHEDULED"), Do("execute")} \cup Left
    BY <1>h, <2>u, <2>s, TwoFollow
  <2>m2. /\ \A j, u : SetState(j, u) \in Todo' <=> j = n /\ u = "SCHEDULED"
         /\ \A j : SetValue(j) \notin Todo' /\ ExecuteNow(j) \notin Todo' /\ CancelTask(j) \notin Todo'
         /\ HookOf("SUCCEEDED") \notin Todo' /\ HookOf("FAILED") \notin Todo'
         /\ Do("execute") \in Todo' /\ Do("schedule") \notin Todo' /\ Do("abandon") \notin Todo'
         /\ Do("cancelSchedule") \notin Todo' /\ Do("clearDelay") \notin Todo' /\ Do("reset") \notin Todo'
         /\ Do("start") \notin Todo' /\ Do("resetSchedule") \notin Todo' /\ Do("assertNotFresh") \notin Todo'
    BY <2>t, <1>m1, FieldsAre DEF Solo
  <2>1. STypes'
    <3>1. TypeOK'
      <4>1. n \in 0 .. n /\ 0 .. created \subseteq 0 .. n /\ n \in 0 .. MaxTasks
        BY <2>z, <2>u DEF n
      <4> QED BY <2>u, <4>1 DEF SInv, STypes, TypeOK
    <3>2. TimerTypes'
      <4>1. 1 .. created \subseteq 1 .. n /\ 0 .. created \subseteq 0 .. n
        BY <2>z
      <4> QED BY <2>u, <4>1 DEF SInv, STypes, TimerTypes, ScheduleSame, HistorySame
    <3>3. \A s \in Todo' : s.k <= n
      <4>1. \A s \in Left : s.k <= created /\ s \in Statements
        BY <1>b DEF SInv, STypes
      <4>2. \A s \in Statements : s.k \in Nat
        BY BoundAssumption DEF Statements, Null, Tasks
      <4>3. SetState(n, "SCHEDULED").k = n /\ Do("execute").k = 0
        BY FieldsAre
      <4> QED BY <2>t, <2>z, <4>1, <4>2, <4>3
    <3>4. \A k \in Tasks : Has(queue, TimerRunnable(k)) => k <= n
      BY <2>z DEF SInv, STypes, Tasks
    <3> QED BY <2>u, <2>t, <3>1, <3>2, <3>3, <3>4 DEF SInv, STypes, Shape
  <2>2. WorkInv'
    <3>1. \A k \in Tasks : k > n => k > created
      BY <2>z DEF Tasks
    <3> QED BY <1>m, <2>u, <2>m2, <2>n, <3>1 DEF SInv, WorkInv
  <2>3. RunnableOrder'
    BY <1>m, <2>u, <2>m2, <2>n DEF SInv, RunnableOrder, Queued, Taking, EndsOf
  <2>4. OwnInv' /\ ExecInv' /\ StrandInv'
    BY <2>u, <2>m2, <2>n, <2>z DEF OwnInv, ExecInv, StrandInv, Null
  <2>5. OffInv'
    BY <1>m, <2>u, <2>m2 DEF SInv, OffInv, ScheduleSame
  <2>6. StageInv' /\ PeriodInv'
    BY <2>u, <2>m2, <2>n DEF SInv, StageInv, PeriodInv, ScheduleSame
  <2>7. FailInv'
    <3>1. ~Exhausted
      BY <1>f, <1>2, <1>st DEF SInv, FailInv
    <3> QED BY <3>1, <2>u, <2>m2, <2>n DEF FailInv, Exhausted, ScheduleSame
  <2>8. AssertInv'
    <3>1. ~Dead
      BY <1>m DEF Dead
    <3>2. Quietly => delayTask = Null
      BY <3>1, <1>2, <1>st DEF SInv, AssertInv
    <3> QED BY <1>m, <2>u, <2>m2, <2>n, <3>2 DEF SInv, AssertInv, ScheduleSame
  <2> QED BY <2>1, <2>2, <2>3, <2>4, <2>5, <2>6, <2>7, <2>8, <2>t DEF SInv, Shape
<1> QED BY <1>1, <1>2

-----------------------------------------------------------------------------
\* A program, statement by statement.
LEMMA PushCons ==
  ASSUME NEW q, Shape(q), q # <<>>, NEW a \in Statements, a # Return,
         \A b \in Elems(q) : Front(b, a), LastReturn(q),
         a = OwnTo("SCHEDULED") => Head(q) = OwnTo("CANCELLED")
  PROVE  /\ Shape(Cons(a, q)) /\ Cons(a, q) # <<>> /\ Head(Cons(a, q)) = a
         /\ Elems(Cons(a, q)) = {a} \cup Elems(q) /\ LastReturn(Cons(a, q))
BY PushShape DEF Cons

\* Programs in front of programs.
LEMMA ConsJoin ==
  ASSUME NEW S, NEW a \in S, NEW p \in Seq(S), NEW q \in Seq(S)
  PROVE  /\ (<<a>> \o p) \o q = Cons(a, p \o q) /\ Cons(a, q) \in Seq(S) /\ <<a>> \o q = Cons(a, q)
<1>1. <<a>> \in Seq(S)
  OBVIOUS
<1> DEFINE x == <<a>>
<1> HIDE DEF x
<1>2. (x \o p) \o q = x \o (p \o q) /\ x \o q \in Seq(S)
  BY <1>1, Joined DEF x
<1> QED BY <1>2 DEF Cons, x

LEMMA PairJoin ==
  ASSUME NEW S, NEW a \in S, NEW b \in S, NEW q \in Seq(S)
  PROVE  <<a, b>> \o q = Cons(a, Cons(b, q))
<1>1. <<a, b>> = <<a>> \o <<b>>
  BY Tuples
<1>2. (<<a>> \o <<b>>) \o q = <<a>> \o (<<b>> \o q)
  OBVIOUS
<1> QED BY <1>1, <1>2 DEF Cons

\* super.reset(), an assertion and what follows.
LEMMA HookProgram ==
  ASSUME NEW S, NEW a \in S, NEW b \in S, NEW c \in S, NEW p \in Seq(S), NEW q \in Seq(S)
  PROVE  ((<<a, b>> \o <<c>>) \o p) \o q = Cons(a, Cons(b, Cons(c, p \o q)))
<1>1. <<a, b>> \in Seq(S) /\ <<c>> \in Seq(S)
  BY Tuples
<1>2. ASSUME NEW x \in Seq(S), NEW y \in Seq(S)
      PROVE  ((x \o y) \o p) \o q = x \o (y \o (p \o q)) /\ y \o (p \o q) \in Seq(S)
  <2>1. x \o y \in Seq(S) /\ p \o q \in Seq(S)
    BY Joined
  <2>2. ((x \o y) \o p) \o q = (x \o y) \o (p \o q)
    <3> DEFINE z == x \o y
    <3>1. z \in Seq(S)
      BY <2>1
    <3> HIDE DEF z
    <3>2. (z \o p) \o q = z \o (p \o q)
      BY <3>1, Joined
    <3> QED BY <3>2 DEF z
  <2>3. (x \o y) \o (p \o q) = x \o (y \o (p \o q)) /\ y \o (p \o q) \in Seq(S)
    <3> DEFINE z == p \o q
    <3>1. z \in Seq(S)
      BY <2>1
    <3> HIDE DEF z
    <3>2. (x \o y) \o z = x \o (y \o z) /\ y \o z \in Seq(S)
      BY <3>1, Joined
    <3> QED BY <3>2 DEF z
  <2> QED BY <2>1, <2>2, <2>3
<1>3. ASSUME NEW z \in Seq(S) PROVE <<a, b>> \o z = Cons(a, Cons(b, z))
  BY <1>3, PairJoin
<1>4. <<c>> \o (p \o q) = Cons(c, p \o q)
  BY DEF Cons
<1>5. /\ ((<<a, b>> \o <<c>>) \o p) \o q = <<a, b>> \o (<<c>> \o (p \o q))
      /\ <<c>> \o (p \o q) \in Seq(S)
  BY <1>1, <1>2
<1>6. <<a, b>> \o (<<c>> \o (p \o q)) = Cons(a, Cons(b, <<c>> \o (p \o q)))
  BY <1>3, <1>5
<1> QED BY <1>4, <1>5, <1>6

\* What succeeded() and failed() call.
LEMMA HookCalls ==
  ASSUME Shape(todo), todo # <<>>, NEW v \in {"SUCCEEDED", "FAILED"}, Head(todo) = HookOf(v),
         NEW p, p = <<Do("start")>> \/ p = CancelFromReadyState,
         Then(SuperReset \o <<Do("assertNotFresh")>> \o p)
  PROVE  /\ Shape(todo')
         /\ Todo' = {Do("reset"), Do("resetRest"), Do("assertNotFresh")} \cup Left
                      \cup (IF p = <<Do("start")>> THEN {Do("start")} ELSE {OwnTo("SCHEDULED"), OwnTo("CANCELLED")})
<1> DEFINE t == Tail(todo)
<1>1. /\ Shape(t) /\ t \in Seq(Statements) /\ t # <<>> /\ LastReturn(t)
      /\ \A b \in Elems(t) : b \in Statements /\ Front(b, HookOf(v))
  BY NowRuns, FieldsAre DEF Cancels, Left
<1>2. /\ Do("reset") \in Statements /\ Do("resetRest") \in Statements /\ Do("assertNotFresh") \in Statements
      /\ Do("start") \in Statements /\ OwnTo("SCHEDULED") \in Statements /\ OwnTo("CANCELLED") \in Statements
  BY AreStatements DEF Simple
<1>3. \A b \in Elems(t) : /\ Front(b, Do("reset")) /\ Front(b, Do("resetRest")) /\ Front(b, Do("assertNotFresh"))
                          /\ Front(b, Do("start")) /\ Front(b, OwnTo("SCHEDULED")) /\ Front(b, OwnTo("CANCELLED"))
  BY <1>1, Replacements DEF Replaces
<1>4. /\ Front(OwnTo("CANCELLED"), OwnTo("SCHEDULED"))
      /\ \A s \in {OwnTo("CANCELLED"), OwnTo("SCHEDULED"), Do("start")} :
           Front(s, Do("assertNotFresh")) /\ Front(s, Do("resetRest")) /\ Front(s, Do("reset"))
      /\ Front(Do("assertNotFresh"), Do("resetRest")) /\ Front(Do("assertNotFresh"), Do("reset"))
      /\ Front(Do("resetRest"), Do("reset"))
  BY FieldsAre DEF Front, Cancels, OfStart, HookReady
<1>5. /\ Do("reset") # Return /\ Do("resetRest") # Return /\ Do("assertNotFresh") # Return /\ Do("start") # Return
      /\ OwnTo("SCHEDULED") # Return /\ OwnTo("CANCELLED") # Return /\ OwnTo("CANCELLED") # OwnTo("SCHEDULED")
      /\ Do("reset") # OwnTo("SCHEDULED") /\ Do("resetRest") # OwnTo("SCHEDULED")
      /\ Do("assertNotFresh") # OwnTo("SCHEDULED") /\ Do("start") # OwnTo("SCHEDULED")
  BY FieldsAre
<1>6. p \in Seq(Statements)
  <2>1. CancelFromReadyState = <<OwnTo("SCHEDULED"), OwnTo("CANCELLED")>>
    BY DEF CancelFromReadyState, OwnTo
  <2> QED BY <1>2, <2>1, Tuples
<1> HIDE DEF t
<1>7. todo' = Cons(Do("reset"), Cons(Do("resetRest"), Cons(Do("assertNotFresh"), p \o t)))
  <2> DEFINE a == Do("reset")
             b == Do("resetRest")
             c == Do("assertNotFresh")
  <2>1. a \in Statements /\ b \in Statements /\ c \in Statements
    BY <1>2
  <2>2. todo' = ((<<a, b>> \o <<c>>) \o p) \o t
    BY DEF Then, SuperReset, t
  <2> HIDE DEF a, b, c
  <2>3. todo' = Cons(a, Cons(b, Cons(c, p \o t)))
    BY <2>1, <2>2, <1>1, <1>6, HookProgram
  <2> QED BY <2>3 DEF a, b, c
<1> DEFINE P == IF p = <<Do("start")>> THEN {Do("start")} ELSE {OwnTo("SCHEDULED"), OwnTo("CANCELLED")}
           r == p \o t
<1>8. Shape(r) /\ r # <<>> /\ LastReturn(r) /\ Elems(r) = P \cup Elems(t)
  <2>1. CASE p = <<Do("start")>>
    <3>1. r = Cons(Do("start"), t)
      BY <2>1 DEF Cons
    <3> QED BY <2>1, <3>1, <1>1, <1>2, <1>3, <1>5, PushCons
  <2>2. CASE p # <<Do("start")>>
    <3>1. r = Cons(OwnTo("SCHEDULED"), Cons(OwnTo("CANCELLED"), t))
      <4>1. p = <<OwnTo("SCHEDULED"), OwnTo("CANCELLED")>>
        BY <2>2 DEF CancelFromReadyState, OwnTo
      <4> QED BY <4>1, <1>1, <1>2, PairJoin
    <3> DEFINE q == Cons(OwnTo("CANCELLED"), t)
    <3>2. /\ Shape(q) /\ q # <<>> /\ Head(q) = OwnTo("CANCELLED") /\ LastReturn(q)
          /\ Elems(q) = {OwnTo("CANCELLED")} \cup Elems(t)
      BY <1>1, <1>2, <1>3, <1>5, PushCons
    <3> HIDE DEF q
    <3>3. \A b \in Elems(q) : Front(b, OwnTo("SCHEDULED"))
      BY <1>3, <1>4, <3>2
    <3>4. /\ Shape(Cons(OwnTo("SCHEDULED"), q)) /\ Cons(OwnTo("SCHEDULED"), q) # <<>>
          /\ LastReturn(Cons(OwnTo("SCHEDULED"), q))
          /\ Elems(Cons(OwnTo("SCHEDULED"), q)) = {OwnTo("SCHEDULED")} \cup Elems(q)
      BY <3>2, <3>3, <1>2, <1>5, PushCons
    <3>5. r = Cons(OwnTo("SCHEDULED"), q)
      BY <3>1 DEF q
    <3> HIDE DEF r
    <3> QED BY <2>2, <3>2, <3>4, <3>5
  <2> QED BY <2>1, <2>2
<1>9. \A s \in P : s \in {OwnTo("CANCELLED"), OwnTo("SCHEDULED"), Do("start")}
  OBVIOUS
<1> HIDE DEF r, P
<1> DEFINE r1 == Cons(Do("assertNotFresh"), r)
<1>10. Shape(r1) /\ r1 # <<>> /\ LastReturn(r1) /\ Elems(r1) = {Do("assertNotFresh")} \cup (P \cup Elems(t))
  BY <1>2, <1>3, <1>4, <1>5, <1>8, <1>9, PushCons
<1> HIDE DEF r1
<1> DEFINE r2 == Cons(Do("resetRest"), r1)
<1>11. Shape(r2) /\ r2 # <<>> /\ LastReturn(r2) /\ Elems(r2) = {Do("resetRest"), Do("assertNotFresh")} \cup (P \cup Elems(t))
  <2>1. \A b \in Elems(r1) : Front(b, Do("resetRest"))
    BY <1>3, <1>4, <1>9, <1>10
  <2> QED BY <2>1, <1>2, <1>5, <1>10, PushCons
<1> HIDE DEF r2
<1> DEFINE r3 == Cons(Do("reset"), r2)
<1>12. Shape(r3) /\ Elems(r3) = {Do("reset"), Do("resetRest"), Do("assertNotFresh")} \cup (P \cup Elems(t))
  <2>1. \A b \in Elems(r2) : Front(b, Do("reset"))
    BY <1>3, <1>4, <1>9, <1>11
  <2> QED BY <2>1, <1>2, <1>5, <1>11, PushCons
<1>13. todo' = r3
  BY <1>7 DEF r, r1, r2, r3
<1> QED BY <1>12, <1>13 DEF Todo, Left, P, t

-----------------------------------------------------------------------------
\* No statement but setRunning, resetRest and the returns.
Bare(X) ==
  /\ \A j, u : SetState(j, u) \notin X
  /\ \A j : SetValue(j) \notin X /\ CancelTask(j) \notin X /\ ExecuteNow(j) \notin X
  /\ \A u : HookOf(u) \notin X /\ OwnTo(u) \notin X
  /\ Do("execute") \notin X /\ Do("schedule") \notin X /\ Do("abandon") \notin X /\ Do("reset") \notin X
  /\ Do("start") \notin X /\ Do("clearDelay") \notin X /\ Do("assertNotFresh") \notin X
  /\ Do("resetSchedule") \notin X /\ Do("cancelSchedule") \notin X

\* delayTask = null.
LEMMA ClearDelayKeeps ==
  ASSUME SInv, ClearDelay
  PROVE  SInv'
<1>h. /\ At("clearDelay") /\ Shape(todo) /\ todo # <<>> /\ Head(todo) \in Statements
      /\ Todo = {Head(todo)} \cup Left /\ (\A b \in Left : b \in Statements /\ Front(b, Head(todo)))
      /\ Head(todo).do = "clearDelay"
  BY AtHead DEF ClearDelay
<1>b. Todo = {Do("clearDelay")} \cup Left /\ \A b \in Left : b \in Statements /\ Front(b, Do("clearDelay"))
  BY <1>h, StatementIs DEF Simple
<1>t. Shape(todo') /\ Todo' = Left
  BY <1>h, NothingFollows DEF ClearDelay
<1>m1. Bare(Todo')
  BY <1>b, <1>t, FieldsAre DEF Front, Cancels, OfStart, HookReady, Bare
<1>m. /\ \A j, u : SetState(j, u) \notin Todo
      /\ \A j : SetValue(j) \notin Todo /\ ExecuteNow(j) \notin Todo /\ CancelTask(j) \notin Todo
      /\ HookOf("SUCCEEDED") \notin Todo /\ HookOf("FAILED") \notin Todo /\ OwnTo("CANCELLED") \notin Todo
      /\ Do("execute") \notin Todo /\ Do("schedule") \notin Todo /\ Do("start") \notin Todo
      /\ Do("resetSchedule") \notin Todo /\ Do("reset") \notin Todo
  BY <1>b, <1>t, <1>m1, FieldsAre DEF Bare
<1>u. /\ AllSame /\ RestSame /\ HistorySame /\ ownState' = ownState /\ calls' = calls
      /\ delayTask' = 0 /\ timers' = timers /\ timerIds' = timerIds /\ freshStart' = freshStart
      /\ currentFailureCount' = currentFailureCount /\ cumulativePeriod' = cumulativePeriod /\ broken' = broken
  BY DEF ClearDelay, AllSame, RestSame, HistorySame, taskVars, svVars, bindVars, runVars, Null
<1>1. STypes'
  <2>1. TypeOK'
    BY <1>u DEF SInv, STypes, TypeOK, AllSame, RestSame
  <2>2. TimerTypes'
    BY <1>u DEF SInv, STypes, TimerTypes, AllSame, HistorySame
  <2>3. \A s \in Todo' : s.k <= created
    BY <1>b, <1>t DEF SInv, STypes
  <2> QED BY <1>u, <1>t, <2>1, <2>2, <2>3 DEF SInv, STypes, Shape, AllSame
<1>2. WorkInv' /\ RunnableOrder'
  BY <1>u, <1>m, <1>m1 DEF SInv, WorkInv, RunnableOrder, Queued, Taking, EndsOf, AllSame, Bare
<1>3. OwnInv' /\ ExecInv' /\ PeriodInv'
  BY <1>u, <1>m, <1>m1 DEF SInv, OwnInv, ExecInv, PeriodInv, AllSame, Bare
<1>4. OffInv'
  BY <1>u, <1>m, <1>m1 DEF SInv, OffInv, AllSame, Bare
<1>5. StageInv' /\ FailInv'
  BY <1>u, <1>m, <1>m1 DEF SInv, StageInv, FailInv, Exhausted, AllSame, Bare
<1>6. StrandInv'
  BY <1>u, <1>m, <1>m1 DEF SInv, StrandInv, Awaited, Armed, AllSame, Bare
<1>7. AssertInv'
  BY <1>u, <1>m, <1>m1 DEF SInv, AssertInv, AllSame, Bare, Null
<1> QED BY <1>1, <1>2, <1>3, <1>4, <1>5, <1>6, <1>7, <1>t DEF SInv, Shape

\* assert freshStart == false.
LEMMA AssertNotFreshKeeps ==
  ASSUME SInv, AssertNotFresh
  PROVE  SInv'
<1>h. /\ At("assertNotFresh") /\ Shape(todo) /\ todo # <<>> /\ Head(todo) \in Statements
      /\ Todo = {Head(todo)} \cup Left /\ (\A b \in Left : b \in Statements /\ Front(b, Head(todo)))
      /\ Head(todo).do = "assertNotFresh"
  BY AtHead DEF AssertNotFresh
<1>b. Todo = {Do("assertNotFresh")} \cup Left /\ \A b \in Left : b \in Statements /\ Front(b, Do("assertNotFresh"))
  BY <1>h, StatementIs DEF Simple
<1>t. Shape(todo') /\ Todo' = Left
  BY <1>h, NothingFollows DEF AssertNotFresh
<1>m1. /\ \A j, u : SetState(j, u) \notin Todo'
       /\ \A j : SetValue(j) \notin Todo' /\ ExecuteNow(j) \notin Todo' /\ CancelTask(j) \notin Todo'
       /\ HookOf("SUCCEEDED") \notin Todo' /\ HookOf("FAILED") \notin Todo'
       /\ Do("execute") \notin Todo' /\ Do("schedule") \notin Todo' /\ Do("abandon") \notin Todo'
       /\ Do("reset") \notin Todo' /\ Do("resetSchedule") \notin Todo' /\ Do("assertNotFresh") \notin Todo'
       /\ Do("clearDelay") \notin Todo' /\ Do("cancelSchedule") \notin Todo'
  BY <1>b, <1>t, FieldsAre DEF Front, Cancels, OfStart, HookReady
<1>m. /\ \A j, u : SetState(j, u) \notin Todo
      /\ \A j : SetValue(j) \notin Todo /\ ExecuteNow(j) \notin Todo /\ CancelTask(j) \notin Todo
      /\ HookOf("SUCCEEDED") \notin Todo /\ HookOf("FAILED") \notin Todo
      /\ Do("execute") \notin Todo /\ Do("schedule") \notin Todo /\ Do("abandon") \notin Todo
      /\ Do("reset") \notin Todo /\ Do("resetSchedule") \notin Todo /\ Do("assertNotFresh") \in Todo
      /\ Do("clearDelay") \notin Todo /\ Do("cancelSchedule") \notin Todo
      /\ Do("start") \in Todo <=> Do("start") \in Todo'
      /\ Todo' \subseteq Todo /\ (OwnTo("CANCELLED") \in Todo => OwnTo("CANCELLED") \in Todo')
  BY <1>b, <1>t, <1>m1, FieldsAre
<1>f. ~freshStart /\ ~Exhausted
  BY <1>m DEF SInv, StageInv, FailInv
<1>u. AllSame /\ RestSame /\ HistorySame /\ ScheduleSame /\ ownState' = ownState /\ calls' = calls
  BY <1>f DEF AssertNotFresh, Assert, AllSame, RestSame, HistorySame, ScheduleSame, taskVars, svVars, bindVars,
              runVars, timerVars
<1>1. STypes'
  BY <1>u, <1>t, <1>m, TypesKept
<1>2. WorkInv' /\ RunnableOrder'
  BY <1>u, <1>m, <1>m1 DEF SInv, WorkInv, RunnableOrder, Queued, Taking, EndsOf, AllSame
<1>3. OwnInv'
  BY <1>u, <1>m, OwnKept DEF AllSame
<1>4. ExecInv' /\ PeriodInv'
  BY <1>u, <1>m1 DEF SInv, ExecInv, PeriodInv, AllSame, ScheduleSame
<1>5. OffInv'
  BY <1>u, <1>m, <1>m1 DEF SInv, OffInv, AllSame, ScheduleSame
<1>6. StageInv' /\ FailInv'
  BY <1>u, <1>m, <1>m1, <1>f DEF SInv, StageInv, FailInv, Exhausted, AllSame, ScheduleSame
<1>7. StrandInv'
  BY <1>u, <1>m, <1>m1 DEF SInv, StrandInv, Awaited, Armed, AllSame, ScheduleSame
<1>8. AssertInv'
  <2>1. Dead => Dead'
    BY <1>u, <1>m, <1>m1 DEF Dead, AllSame
  <2> QED BY <1>u, <1>m, <1>m1, <2>1 DEF SInv, AssertInv, AllSame, ScheduleSame
<1> QED BY <1>1, <1>2, <1>3, <1>4, <1>5, <1>6, <1>7, <1>8, <1>t DEF SInv, Shape

\* reset(), after super.reset().
LEMMA ResetScheduleKeeps ==
  ASSUME SInv, ResetSchedule
  PROVE  SInv'
<1>h. /\ At("resetSchedule") /\ Shape(todo) /\ todo # <<>> /\ Head(todo) \in Statements
      /\ Todo = {Head(todo)} \cup Left /\ (\A b \in Left : b \in Statements /\ Front(b, Head(todo)))
      /\ Head(todo).do = "resetSchedule"
  BY AtHead DEF ResetSchedule
<1>b. Todo = {Do("resetSchedule")} \cup Left /\ \A b \in Left : b \in Statements /\ Front(b, Do("resetSchedule"))
  BY <1>h, StatementIs DEF Simple
<1>t. Shape(todo') /\ Todo' = Left
  BY <1>h, NothingFollows DEF ResetSchedule
<1>m1. /\ \A j, u : SetState(j, u) \notin Todo'
       /\ \A j : SetValue(j) \notin Todo' /\ ExecuteNow(j) \notin Todo' /\ CancelTask(j) \notin Todo'
       /\ HookOf("SUCCEEDED") \notin Todo' /\ HookOf("FAILED") \notin Todo' /\ OwnTo("CANCELLED") \notin Todo'
       /\ Do("execute") \notin Todo' /\ Do("schedule") \notin Todo' /\ Do("abandon") \notin Todo'
       /\ Do("reset") \notin Todo' /\ Do("resetSchedule") \notin Todo' /\ Do("assertNotFresh") \notin Todo'
       /\ Do("clearDelay") \notin Todo' /\ Do("cancelSchedule") \notin Todo'
  BY <1>b, <1>t, FieldsAre DEF Front, Cancels, OfStart, HookReady
<1>m. /\ \A j, u : SetState(j, u) \notin Todo
      /\ \A j : SetValue(j) \notin Todo /\ ExecuteNow(j) \notin Todo /\ CancelTask(j) \notin Todo
      /\ HookOf("SUCCEEDED") \notin Todo /\ HookOf("FAILED") \notin Todo /\ OwnTo("CANCELLED") \notin Todo
      /\ Do("execute") \notin Todo /\ Do("schedule") \notin Todo /\ Do("abandon") \notin Todo
      /\ Do("reset") \notin Todo /\ Do("resetSchedule") \in Todo
      /\ Do("clearDelay") \notin Todo /\ Do("cancelSchedule") \notin Todo
      /\ Do("start") \in Todo <=> Do("start") \in Todo'
  BY <1>b, <1>t, <1>m1, FieldsAre
<1>n. task = Null
  BY <1>m DEF SInv, StageInv
<1>u. /\ AllSame /\ RestSame /\ ownState' = ownState /\ calls' = calls /\ now' = now
      /\ delayTask' = delayTask /\ timers' = timers /\ timerIds' = timerIds /\ broken' = broken
      /\ stop' = FALSE /\ lastValue' = 0 /\ currentFailureCount' = 0 /\ lastRunTime' = 0 /\ freshStart' = TRUE
      /\ ranAt' = -1 /\ cumulativePeriod' = Cumulative(Period, MaximumCumulativePeriod)
  BY DEF ResetSchedule, SetCumulativePeriod, AllSame, RestSame, taskVars, svVars, bindVars, timerVars, Null
<1>1. STypes'
  <2>1. TypeOK'
    BY <1>u DEF SInv, STypes, TypeOK, AllSame, RestSame
  <2>2. TimerTypes'
    <3>1. created \in Nat /\ now \in Nat
      BY BoundAssumption, ScheduleAssumption DEF SInv, STypes, TypeOK, TimerTypes
    <3>2. 0 \in 0 .. created /\ 0 \in 0 .. now /\ -1 \in -1 .. now
      BY <3>1
    <3>3. timerIds \in Nat /\ delayTask \in 0 .. timerIds /\ now \in 0 .. MaxTime
      BY DEF SInv, STypes, TimerTypes
    <3>4. /\ \A t \in timers : t.id \in 1 .. timerIds /\ t.k \in 1 .. created
          /\ \A t, u \in timers : t.id = u.id => t = u
      BY DEF SInv, STypes, TimerTypes
    <3> QED BY <1>u, <3>2, <3>3, <3>4 DEF TimerTypes, AllSame
  <2>3. \A s \in Todo' : s.k <= created
    BY <1>b, <1>t DEF SInv, STypes
  <2> QED BY <1>u, <1>t, <2>1, <2>2, <2>3 DEF SInv, STypes, Shape, AllSame
<1>2. WorkInv' /\ RunnableOrder'
  BY <1>u, <1>m, <1>m1 DEF SInv, WorkInv, RunnableOrder, Queued, Taking, EndsOf, AllSame
<1>3. OwnInv' /\ ExecInv' /\ StrandInv'
  BY <1>u, <1>m, <1>m1, <1>n DEF SInv, OwnInv, ExecInv, StrandInv, AllSame
<1>4. PeriodInv'
  BY <1>u DEF PeriodInv, Cumulatives, Periods
<1>5. OffInv'
  BY <1>u, <1>m, <1>m1 DEF SInv, OffInv, AllSame
<1>6. StageInv' /\ FailInv'
  BY <1>u, <1>m1, <1>n DEF StageInv, FailInv, Exhausted, AllSame
<1>7. AssertInv'
  <2>1. Dead => Dead'
    BY <1>u, <1>m, <1>m1 DEF Dead, AllSame
  <2> QED BY <1>u, <1>m, <1>m1, <1>n, <2>1 DEF SInv, AssertInv, AllSame
<1> QED BY <1>1, <1>2, <1>3, <1>4, <1>5, <1>6, <1>7, <1>t DEF SInv, Shape

\* cancel(), after super.cancel().
LEMMA CancelScheduleKeeps ==
  ASSUME SInv, CancelSchedule
  PROVE  SInv'
<1>h. /\ At("cancelSchedule") /\ Shape(todo) /\ todo # <<>> /\ Head(todo) \in Statements
      /\ Todo = {Head(todo)} \cup Left /\ (\A b \in Left : b \in Statements /\ Front(b, Head(todo)))
      /\ Head(todo).do = "cancelSchedule"
  BY AtHead DEF CancelSchedule
<1>b. Todo = {Do("cancelSchedule")} \cup Left /\ \A b \in Left : b \in Statements /\ Front(b, Do("cancelSchedule"))
  BY <1>h, StatementIs DEF Simple
<1>t. Shape(todo') /\ Todo' = Left
  BY <1>h, NothingFollows DEF CancelSchedule
<1>m1. /\ \A j, u : SetState(j, u) \in Todo' => u = "RUNNING"
       /\ \A j : SetValue(j) \notin Todo' /\ ExecuteNow(j) \notin Todo' /\ CancelTask(j) \notin Todo'
       /\ Do("schedule") \notin Todo' /\ Do("clearDelay") \notin Todo'
  BY <1>b, <1>t, FieldsAre DEF Front, Cancels, OfStart, HookReady
<1>m. /\ \A j, u : SetState(j, u) \in Todo <=> SetState(j, u) \in Todo'
      /\ \A j : SetValue(j) \notin Todo /\ ExecuteNow(j) \notin Todo /\ CancelTask(j) \notin Todo
      /\ \A u : HookOf(u) \in Todo <=> HookOf(u) \in Todo'
      /\ Do("schedule") \notin Todo /\ Do("clearDelay") \notin Todo /\ Do("cancelSchedule") \in Todo
      /\ Do("execute") \in Todo <=> Do("execute") \in Todo'
      /\ Do("abandon") \in Todo <=> Do("abandon") \in Todo'
      /\ Do("reset") \in Todo <=> Do("reset") \in Todo'
      /\ Do("start") \in Todo <=> Do("start") \in Todo'
      /\ Do("resetSchedule") \in Todo <=> Do("resetSchedule") \in Todo'
      /\ Do("assertNotFresh") \in Todo <=> Do("assertNotFresh") \in Todo'
      /\ Todo' \subseteq Todo /\ (OwnTo("CANCELLED") \in Todo => OwnTo("CANCELLED") \in Todo')
  BY <1>b, <1>t, <1>m1, FieldsAre
<1>n. task # Null => fut[task] # "NEW"
  BY <1>m DEF SInv, StageInv
<1>u. /\ AllSame /\ RestSame /\ ownState' = ownState /\ calls' = calls /\ now' = now
      /\ delayTask' = 0 /\ timers' \subseteq timers /\ timerIds' = timerIds /\ broken' = broken
      /\ stop' = TRUE /\ lastValue' = lastValue /\ currentFailureCount' = currentFailureCount
      /\ lastRunTime' = lastRunTime /\ freshStart' = freshStart /\ ranAt' = ranAt
      /\ cumulativePeriod' = cumulativePeriod
  BY DEF CancelSchedule, AllSame, RestSame, taskVars, svVars, bindVars, runVars, Null
<1>1. STypes'
  <2>1. TypeOK'
    BY <1>u DEF SInv, STypes, TypeOK, AllSame, RestSame
  <2>2. TimerTypes'
    BY <1>u DEF SInv, STypes, TimerTypes, AllSame
  <2>3. \A s \in Todo' : s.k <= created
    BY <1>b, <1>t DEF SInv, STypes
  <2> QED BY <1>u, <1>t, <2>1, <2>2, <2>3 DEF SInv, STypes, Shape, AllSame
<1>2. WorkInv' /\ RunnableOrder'
  BY <1>u, <1>m, <1>m1 DEF SInv, WorkInv, RunnableOrder, Queued, Taking, EndsOf, AllSame
<1>3. OwnInv'
  BY <1>u, <1>m, OwnKept DEF AllSame
<1>4. ExecInv' /\ PeriodInv' /\ StrandInv'
  BY <1>u, <1>m, <1>m1, <1>n DEF SInv, ExecInv, PeriodInv, StrandInv, AllSame
<1>5. OffInv'
  BY <1>u, <1>m, <1>m1 DEF SInv, OffInv, AllSame
<1>6. StageInv' /\ FailInv'
  BY <1>u, <1>m, <1>m1, <1>n DEF SInv, StageInv, FailInv, Exhausted, AllSame
<1>7. AssertInv'
  BY <1>u, <1>m, <1>m1 DEF SInv, AssertInv, AllSame, Null
<1> QED BY <1>1, <1>2, <1>3, <1>4, <1>5, <1>6, <1>7, <1>t DEF SInv, Shape

\* executeTaskNow, and Service.executeTask.
LEMMA ExecuteNowKeeps ==
  ASSUME SInv, SExecuteNow
  PROVE  SInv'
<1>h. /\ At("executeNow") /\ Shape(todo) /\ todo # <<>> /\ Head(todo) \in Statements
      /\ Todo = {Head(todo)} \cup Left /\ (\A b \in Left : b \in Statements /\ Front(b, Head(todo)))
      /\ Head(todo).do = "executeNow" /\ Head(todo).k <= created
  BY AtHead DEF SExecuteNow
<1>k. PICK k \in Tasks : Head(todo) = ExecuteNow(k) /\ k <= created
  BY <1>h, StatementIs
<1>d. Head(todo).k = k
  BY <1>k, FieldsAre
<1>b. Todo = {ExecuteNow(k)} \cup Left /\ \A b \in Left : b \in Statements /\ Front(b, ExecuteNow(k))
  BY <1>h, <1>k
<1>t. Shape(todo') /\ Todo' = Left
  BY <1>h, NothingFollows DEF SExecuteNow
<1>m1. /\ \A j, u : SetState(j, u) \notin Todo'
       /\ \A j : SetValue(j) \notin Todo' /\ ExecuteNow(j) \notin Todo' /\ CancelTask(j) \notin Todo'
       /\ HookOf("SUCCEEDED") \notin Todo' /\ HookOf("FAILED") \notin Todo' /\ OwnTo("CANCELLED") \notin Todo'
       /\ Do("execute") \notin Todo' /\ Do("schedule") \notin Todo' /\ Do("abandon") \notin Todo'
       /\ Do("reset") \notin Todo' /\ Do("resetSchedule") \notin Todo' /\ Do("assertNotFresh") \notin Todo'
       /\ Do("start") \notin Todo' /\ Do("cancelSchedule") \notin Todo'
  BY <1>b, <1>t, FieldsAre DEF Front, Cancels, OfStart, HookReady
<1>m. /\ \A j, u : SetState(j, u) \notin Todo
      /\ \A j : SetValue(j) \notin Todo /\ CancelTask(j) \notin Todo /\ (ExecuteNow(j) \in Todo <=> j = k)
      /\ HookOf("SUCCEEDED") \notin Todo /\ HookOf("FAILED") \notin Todo /\ OwnTo("CANCELLED") \notin Todo
      /\ Do("execute") \notin Todo /\ Do("schedule") \notin Todo /\ Do("abandon") \notin Todo
      /\ Do("reset") \notin Todo /\ Do("resetSchedule") \notin Todo
      /\ Do("start") \notin Todo /\ Do("cancelSchedule") \notin Todo
      /\ Do("clearDelay") \in Todo <=> Do("clearDelay") \in Todo'
  BY <1>b, <1>t, <1>m1, FieldsAre
<1>u. /\ fut' = fut /\ tstate' = tstate /\ created' = created /\ task' = task /\ stateBound' = stateBound
      /\ startedOnce' = startedOnce /\ queue' = queue
      /\ RestSame /\ ownState' = ownState /\ calls' = calls /\ now' = now
      /\ delayTask' = delayTask /\ timers' = timers /\ timerIds' = timerIds /\ broken' = broken
      /\ stop' = stop /\ lastValue' = lastValue /\ currentFailureCount' = currentFailureCount
      /\ lastRunTime' = now /\ freshStart' = FALSE /\ ranAt' \in {ranAt, now}
      /\ cumulativePeriod' = cumulativePeriod
  BY DEF SExecuteNow, RestSame, svVars, bindVars, timerVars
<1>w. /\ \A j \in Tasks : j # k => wpc'[j] = wpc[j]
      /\ wpc'[k] = IF wpc[k] = "new" THEN "queued" ELSE wpc[k]
      /\ wpc' \in [Tasks -> {"new", "queued", "call", "set", "setException", "end"}]
  BY <1>d DEF SExecuteNow, SInv, STypes, TypeOK
<1>z. /\ task # Null => task \in Tasks
      /\ ~(k > created)
  BY <1>k, BoundAssumption DEF SInv, STypes, TypeOK, Tasks, Null
<1>o. ~Has(queue, OffFxRunnable)
  BY <1>m DEF SInv, OffInv
<1>1. STypes'
  <2>1. TypeOK'
    BY <1>u, <1>w DEF SInv, STypes, TypeOK, RestSame
  <2>2. TimerTypes'
    <3>1. now \in Nat /\ timerIds \in Nat /\ delayTask \in 0 .. timerIds /\ now \in 0 .. MaxTime
          /\ lastValue \in 0 .. created /\ ranAt \in -1 .. now /\ stop \in BOOLEAN /\ currentFailureCount \in Nat
      BY ScheduleAssumption DEF SInv, STypes, TimerTypes
    <3>2. now \in 0 .. now /\ now \in -1 .. now
      BY <3>1
    <3>4. /\ \A t \in timers : t.id \in 1 .. timerIds /\ t.k \in 1 .. created
          /\ \A t, u \in timers : t.id = u.id => t = u
      BY DEF SInv, STypes, TimerTypes
    <3> QED BY <1>u, <3>1, <3>2, <3>4 DEF TimerTypes
  <2>3. \A s \in Todo' : s.k <= created
    BY <1>b, <1>t DEF SInv, STypes
  <2> QED BY <1>u, <1>t, <2>1, <2>2, <2>3 DEF SInv, STypes, Shape
<1>2. WorkInv' /\ RunnableOrder'
  <2>0. RunnableOrder /\ WorkInv
    BY DEF SInv
  <2>1. ASSUME NEW j \in Tasks PROVE WorkInv!(j)' /\ RunnableOrder!(j)'
    <3>1. CASE j # k
      BY <2>0, <3>1, <1>u, <1>w, <1>m, <1>m1 DEF WorkInv, RunnableOrder, Queued, Taking, EndsOf
    <3>2. CASE j = k
      <4>1. WorkInv!(k)'
        BY <2>0, <1>k, <1>z, <1>u, <1>w, <1>m, <1>m1 DEF WorkInv
      <4>2. RunnableOrder!(k)'
        BY <2>0, <1>k, <1>u, <1>w, <1>m, <1>m1 DEF RunnableOrder, Queued, Taking, EndsOf
      <4> QED BY <3>2, <4>1, <4>2
    <3> QED BY <3>1, <3>2
  <2> QED BY <2>1 DEF WorkInv, RunnableOrder
<1>3. OwnInv' /\ ExecInv' /\ PeriodInv'
  BY <1>u, <1>m, <1>m1 DEF SInv, OwnInv, ExecInv, PeriodInv
<1>4. OffInv'
  BY <1>u, <1>m, <1>m1, <1>o DEF SInv, OffInv
<1>5. StageInv' /\ FailInv'
  BY <1>u, <1>m, <1>m1 DEF SInv, StageInv, FailInv, Exhausted
<1>6. StrandInv'
  BY <1>u, <1>w, <1>m, <1>m1, <1>z DEF SInv, StrandInv, Awaited, Armed
<1>7. AssertInv'
  <2>1. Dead => Dead'
    BY <1>u, <1>m, <1>m1 DEF Dead
  <2> QED BY <1>u, <1>m, <1>m1, <1>o, <2>1 DEF SInv, AssertInv
<1> QED BY <1>1, <1>2, <1>3, <1>4, <1>5, <1>6, <1>7, <1>t DEF SInv, Shape

-----------------------------------------------------------------------------
\* Before succeeded() and failed().
LEMMA BeforeHook ==
  ASSUME SInv, At("hook"), NEW v \in {"SUCCEEDED", "FAILED"}, Head(todo).v = v
  PROVE  /\ Shape(todo) /\ todo # <<>> /\ Head(todo) = HookOf(v) /\ Todo = {HookOf(v)} \cup Left
         /\ Bare(Left) /\ (\A s \in Left : s.k <= created)
         /\ task \in Tasks /\ task # Null /\ wpc[task] # "new" /\ ~freshStart /\ ~Has(queue, OffFxRunnable)
         /\ Quietly => delayTask = Null
<1>h. /\ Shape(todo) /\ todo # <<>> /\ Head(todo) \in Statements
      /\ Todo = {Head(todo)} \cup Left /\ (\A b \in Left : b \in Statements /\ Front(b, Head(todo)))
      /\ Head(todo).do = "hook"
  BY AtHead
<1>b. Head(todo) = HookOf(v) /\ Todo = {HookOf(v)} \cup Left /\ \A b \in Left : b \in Statements /\ Front(b, HookOf(v))
  BY <1>h, StatementIs
<1>m1. Bare(Left)
  BY <1>b, FieldsAre DEF Front, Cancels, OfStart, HookReady, Bare
<1>1. HookOf(v) \in Todo /\ Do("clearDelay") \notin Todo
  BY <1>b, <1>m1, FieldsAre DEF Bare
<1>2. task # Null /\ wpc[task] # "new" /\ ~freshStart
  BY <1>1 DEF SInv, StageInv
<1>3. task \in Tasks
  BY <1>2, BoundAssumption DEF SInv, STypes, TypeOK, Tasks, Null
<1>4. ~Has(queue, OffFxRunnable)
  BY <1>2, <1>3 DEF SInv, OffInv
<1>5. Quietly => delayTask = Null
  BY <1>1, <1>2 DEF SInv, AssertInv, Dead
<1>6. \A s \in Left : s.k <= created
  BY <1>b DEF SInv, STypes
<1> QED BY <1>h, <1>b, <1>m1, <1>2, <1>3, <1>4, <1>5, <1>6

\* After them: super.reset() and what follows it.
LEMMA HookKeeps ==
  ASSUME SInv, At("hook"), NEW v \in {"SUCCEEDED", "FAILED"}, Head(todo).v = v,
         NEW p, p = <<Do("start")>> \/ p = CancelFromReadyState,
         Then(SuperReset \o <<Do("assertNotFresh")>> \o p),
         AllSame, RestSame, ownState' = ownState, calls' = calls, TimerTypes', PeriodInv',
         freshStart' = freshStart, delayTask' = delayTask, timers' = timers,
         Quietly => broken' = broken, ~Exhausted'
  PROVE  SInv'
<1>0. /\ Shape(todo) /\ todo # <<>> /\ Head(todo) = HookOf(v) /\ Todo = {HookOf(v)} \cup Left
      /\ Bare(Left) /\ (\A s \in Left : s.k <= created)
      /\ task \in Tasks /\ task # Null /\ wpc[task] # "new" /\ ~freshStart /\ ~Has(queue, OffFxRunnable)
      /\ Quietly => delayTask = Null
  BY BeforeHook
<1> DEFINE P == IF p = <<Do("start")>> THEN {Do("start")} ELSE {OwnTo("SCHEDULED"), OwnTo("CANCELLED")}
<1>t. /\ Shape(todo') /\ Todo' = {Do("reset"), Do("resetRest"), Do("assertNotFresh")} \cup Left \cup P
  BY <1>0, HookCalls
<1>p. \A s \in P : s \in {Do("start"), OwnTo("SCHEDULED"), OwnTo("CANCELLED")}
  OBVIOUS
<1> HIDE DEF P
<1>m. /\ \A j, u : SetState(j, u) \notin Todo
      /\ \A j : SetValue(j) \notin Todo /\ CancelTask(j) \notin Todo /\ ExecuteNow(j) \notin Todo
      /\ Do("execute") \notin Todo /\ Do("schedule") \notin Todo
  BY <1>0, FieldsAre DEF Bare
<1>m1. /\ \A j, u : SetState(j, u) \notin Todo'
       /\ \A j : SetValue(j) \notin Todo' /\ ExecuteNow(j) \notin Todo' /\ CancelTask(j) \notin Todo'
       /\ HookOf("SUCCEEDED") \notin Todo' /\ HookOf("FAILED") \notin Todo'
       /\ Do("execute") \notin Todo' /\ Do("schedule") \notin Todo' /\ Do("abandon") \notin Todo'
       /\ Do("resetSchedule") \notin Todo' /\ Do("clearDelay") \notin Todo' /\ Do("cancelSchedule") \notin Todo'
       /\ Do("reset") \in Todo' /\ Do("assertNotFresh") \in Todo'
  BY <1>0, <1>t, <1>p, FieldsAre DEF Bare
<1>1. STypes'
  <2>1. TypeOK'
    BY DEF SInv, STypes, TypeOK, AllSame, RestSame
  <2>2. \A s \in Todo' : s.k <= created
    <3>1. \A s \in {Do("reset"), Do("resetRest"), Do("assertNotFresh"), Do("start"), OwnTo("SCHEDULED"),
                    OwnTo("CANCELLED")} : s.k = 0
      BY FieldsAre
    <3>2. 0 <= created
      BY BoundAssumption DEF SInv, STypes, TypeOK
    <3> QED BY <1>0, <1>t, <1>p, <3>1, <3>2
  <2> QED BY <1>t, <2>1, <2>2 DEF SInv, STypes, Shape, AllSame
<1>2. WorkInv' /\ RunnableOrder'
  BY <1>m, <1>m1 DEF SInv, WorkInv, RunnableOrder, Queued, Taking, EndsOf, AllSame
<1>3. OwnInv' /\ ExecInv' /\ StrandInv'
  BY <1>0, <1>m1 DEF OwnInv, ExecInv, StrandInv, AllSame
<1>4. OffInv'
  BY <1>0, <1>m1 DEF SInv, OffInv, AllSame
<1>5. StageInv' /\ FailInv'
  BY <1>0, <1>m1 DEF StageInv, FailInv, AllSame
<1>6. AssertInv'
  BY <1>0, <1>m1 DEF SInv, AssertInv, AllSame
<1> QED BY <1>1, <1>2, <1>3, <1>4, <1>5, <1>6, <1>t DEF SInv, Shape

\* succeeded().
LEMMA SucceededKeeps ==
  ASSUME SInv, Succeeded
  PROVE  SInv'
<1>h. At("hook") /\ Head(todo).v = "SUCCEEDED"
  BY DEF Succeeded
<1>0. HookOf("SUCCEEDED") \in Todo
  BY <1>h, BeforeHook
<1>u. /\ AllSame /\ RestSame /\ ownState' = ownState /\ calls' = calls /\ now' = now
      /\ delayTask' = delayTask /\ timers' = timers /\ timerIds' = timerIds /\ broken' = broken
      /\ stop' = stop /\ lastValue' = value /\ currentFailureCount' = currentFailureCount
      /\ lastRunTime' = lastRunTime /\ freshStart' = freshStart /\ ranAt' = ranAt
      /\ cumulativePeriod' = Cumulative(Period, MaximumCumulativePeriod)
  BY DEF Succeeded, SetCumulativePeriod, AllSame, RestSame, taskVars, svVars, bindVars, runVars, timerVars
<1>1. value \in 0 .. created
  <2>1. restBound \in 0 .. created /\ ownValue \in 0 .. created /\ 0 \in 0 .. created
    BY BoundAssumption DEF SInv, STypes, TypeOK
  <2> QED BY <2>1 DEF value, Null
<1>2. TimerTypes'
  BY <1>u, <1>1 DEF SInv, STypes, TimerTypes, AllSame
<1>3. PeriodInv'
  BY <1>u DEF PeriodInv, Cumulatives, Periods
<1>4. ~Exhausted'
  BY <1>0, <1>u DEF SInv, FailInv, Exhausted
<1>5. Then(SuperReset \o <<Do("assertNotFresh")>> \o (IF stop THEN CancelFromReadyState ELSE <<Do("start")>>))
  BY DEF Succeeded
<1> QED BY <1>h, <1>u, <1>2, <1>3, <1>4, <1>5, HookKeeps

\* failed().
LEMMA FailedKeeps ==
  ASSUME SInv, Failed
  PROVE  SInv'
<1>h. At("hook") /\ Head(todo).v = "FAILED"
  BY DEF Failed
<1>0. /\ Shape(todo) /\ todo # <<>> /\ Todo = {HookOf("FAILED")} \cup Left
      /\ Bare(Left) /\ (\A s \in Left : s.k <= created)
      /\ task \in Tasks /\ task # Null /\ wpc[task] # "new" /\ ~freshStart /\ ~Has(queue, OffFxRunnable)
      /\ Quietly => delayTask = Null
  BY <1>h, BeforeHook
<1>c. currentFailureCount \in Nat
  BY DEF SInv, STypes, TimerTypes
<1>u. /\ AllSame /\ RestSame /\ ownState' = ownState /\ calls' = calls /\ now' = now
      /\ delayTask' = delayTask /\ timers' = timers /\ timerIds' = timerIds
      /\ stop' = stop /\ lastValue' = lastValue /\ currentFailureCount' = currentFailureCount + 1
      /\ lastRunTime' = lastRunTime /\ freshStart' = freshStart /\ ranAt' = ranAt
  BY DEF Failed, AllSame, RestSame, taskVars, svVars, bindVars, runVars, timerVars
<1>a. Quietly => broken' = broken
  BY <1>0 DEF Failed, Assert
<1>t. TimerTypes'
  <2>1. currentFailureCount + 1 \in Nat
    BY <1>c
  <2> QED BY <1>u, <2>1 DEF SInv, STypes, TimerTypes, AllSame
<1>1. CASE Restarts
  <2>1. /\ cumulativePeriod' = Cumulative(LinearBackoff(Period, currentFailureCount + 1), MaximumCumulativePeriod)
        /\ Then(SuperReset \o <<Do("assertNotFresh"), Do("start")>>)
    BY <1>1, <1>u DEF Failed, SetCumulativePeriod
  <2>2. PeriodInv'
    <3>1. currentFailureCount + 1 \in 1 .. MaximumFailureCount
      BY <1>1, <1>c, ScheduleAssumption DEF Restarts
    <3> QED BY <2>1, <3>1 DEF PeriodInv, Cumulatives, Periods
  <2>3. ~Exhausted'
    BY <1>1, <1>c, <1>u, ScheduleAssumption DEF Restarts, Exhausted
  <2>4. Then(SuperReset \o <<Do("assertNotFresh")>> \o <<Do("start")>>)
    <3>1. /\ SuperReset \in Seq(Statements) /\ Do("assertNotFresh") \in Statements /\ Do("start") \in Statements
      <4>1. /\ Do("reset") \in Statements /\ Do("resetRest") \in Statements /\ Do("assertNotFresh") \in Statements
            /\ Do("start") \in Statements
        BY AreStatements DEF Simple
      <4> QED BY <4>1, Tuples DEF SuperReset
    <3>2. \A x \in Seq(Statements), a, b \in Statements : x \o <<a, b>> = (x \o <<a>>) \o <<b>>
      <4> SUFFICES ASSUME NEW x \in Seq(Statements), NEW a \in Statements, NEW b \in Statements
                   PROVE  x \o <<a, b>> = (x \o <<a>>) \o <<b>>
        OBVIOUS
      <4>1. <<a, b>> = <<a>> \o <<b>>
        BY Tuples
      <4>2. x \o (<<a>> \o <<b>>) = (x \o <<a>>) \o <<b>>
        OBVIOUS
      <4> QED BY <4>1, <4>2
    <3>3. SuperReset \o <<Do("assertNotFresh"), Do("start")>> = (SuperReset \o <<Do("assertNotFresh")>>) \o <<Do("start")>>
      BY <3>1, <3>2
    <3> QED BY <2>1, <3>3
  <2> QED BY <1>h, <1>u, <1>a, <1>t, <2>2, <2>3, <2>4, HookKeeps
<1>2. CASE ~Restarts
  <2>u. cumulativePeriod' = cumulativePeriod /\ Then(<<>>)
    BY <1>2 DEF Failed
  <2>t. Shape(todo') /\ Todo' = Left
    BY <1>0, <2>u, NothingFollows
  <2>m. /\ \A j, u : SetState(j, u) \notin Todo
        /\ \A j : SetValue(j) \notin Todo /\ CancelTask(j) \notin Todo /\ ExecuteNow(j) \notin Todo
        /\ Do("execute") \notin Todo /\ Do("schedule") \notin Todo /\ HookOf("FAILED") \in Todo
    BY <1>0, FieldsAre DEF Bare
  <2>m1. Bare(Todo')
    BY <1>0, <2>t
  <2>f. Exhausted' /\ tstate[task] \in {"FAILED", "CANCELLED"}
    <3>1. Exhausted'
      BY <1>2, <1>c, <1>u, ScheduleAssumption DEF Restarts, Exhausted
    <3> QED BY <3>1, <2>m DEF SInv, FailInv
  <2>1. STypes'
    <3>1. TypeOK'
      BY <1>u DEF SInv, STypes, TypeOK, AllSame, RestSame
    <3> QED BY <1>0, <1>t, <1>u, <2>t, <3>1 DEF SInv, STypes, Shape, AllSame
  <2>2. WorkInv' /\ RunnableOrder'
    BY <1>u, <2>m, <2>m1 DEF SInv, WorkInv, RunnableOrder, Queued, Taking, EndsOf, AllSame, Bare
  <2>3. OwnInv' /\ ExecInv' /\ StrandInv'
    BY <1>0, <1>u, <2>m1 DEF OwnInv, ExecInv, StrandInv, AllSame, Bare
  <2>4. OffInv'
    BY <1>0, <1>u, <2>m1 DEF SInv, OffInv, AllSame, Bare
  <2>5. StageInv' /\ FailInv'
    BY <1>0, <1>u, <2>m1, <2>f DEF StageInv, FailInv, AllSame, Bare
  <2>6. PeriodInv'
    BY <2>u DEF SInv, PeriodInv
  <2>7. AssertInv'
    BY <1>0, <1>u, <1>a, <2>m1 DEF SInv, AssertInv, AllSame, Bare
  <2> QED BY <2>1, <2>2, <2>3, <2>4, <2>5, <2>6, <2>7, <2>t DEF SInv, Shape
<1> QED BY <1>1, <1>2

-----------------------------------------------------------------------------
\* A schedulable Service never asks the Timer for what it refuses.
LEMMA DelayInRange ==
  ASSUME Schedulable, SInv
  PROVE  /\ ~(Millis(Delay) < 0) /\ Millis(Delay) # MaxMillis
         /\ now - lastRunTime < Millis(cumulativePeriod) =>
              /\ ~(Minus(Millis(cumulativePeriod), now - lastRunTime) < 0)
              /\ Minus(Millis(cumulativePeriod), now - lastRunTime) # MaxMillis
<1>1. Millis(Delay) \in 0 .. MaxMillis - 1 /\ MaxMillis \in Nat
  BY MillisAssumption DEF Schedulable
<1>2. now \in Nat /\ lastRunTime \in Nat /\ lastRunTime <= now
  BY ScheduleAssumption DEF SInv, STypes, TimerTypes
<1> DEFINE c == Millis(cumulativePeriod)
           r == now - lastRunTime
<1>3. c \in 0 .. MaxMillis - 1
  <2>1. CASE cumulativePeriod \in Cumulatives
    BY <2>1 DEF Schedulable
  <2>2. CASE cumulativePeriod = 0
    <3>1. 0 \notin Special /\ MaxMillis >= 1
      BY <1>1, SpecialAssumption
    <3>2. Millis(0) = 0
      BY <3>1 DEF Millis, Special
    <3> QED BY <1>1, <2>2, <3>1, <3>2
  <2> QED BY <2>1, <2>2 DEF SInv, PeriodInv
<1>4. r \in Nat
  BY <1>2
<1> HIDE DEF c, r
<1>5. r < c => ~(Minus(c, r) < 0) /\ Minus(c, r) # MaxMillis
  BY <1>1, <1>3, <1>4 DEF Minus
<1>6. ~(Millis(Delay) < 0) /\ Millis(Delay) # MaxMillis
  BY <1>1
<1> QED BY <1>5, <1>6 DEF c, r

\* executeTask(task) of a ScheduledService.
LEMMA ExecuteKeeps ==
  ASSUME SInv, SExecute
  PROVE  SInv'
<1>h. /\ At("execute") /\ Shape(todo) /\ todo # <<>> /\ Head(todo) \in Statements
      /\ Todo = {Head(todo)} \cup Left /\ (\A b \in Left : b \in Statements /\ Front(b, Head(todo)))
      /\ Head(todo).do = "execute"
  BY AtHead DEF SExecute
<1>k. Head(todo) = Do("execute") /\ ~Cancels(Do("execute"))
  BY <1>h, StatementIs, FieldsAre DEF Simple, Cancels
<1>b. Todo = {Do("execute")} \cup Left /\ \A b \in Left : b \in Statements /\ Front(b, Do("execute"))
  BY <1>h, <1>k
<1>m1. Bare(Left)
  BY <1>b, FieldsAre DEF Front, Cancels, OfStart, HookReady, Bare
<1>m. /\ \A j, u : SetState(j, u) \notin Todo
      /\ \A j : SetValue(j) \notin Todo /\ ExecuteNow(j) \notin Todo /\ CancelTask(j) \notin Todo
      /\ HookOf("SUCCEEDED") \notin Todo /\ HookOf("FAILED") \notin Todo
      /\ Do("execute") \in Todo /\ Do("schedule") \notin Todo /\ Do("reset") \notin Todo
      /\ Do("resetSchedule") \notin Todo
  BY <1>b, <1>m1, FieldsAre DEF Bare
<1>x. /\ task # Null /\ wpc[task] = "new" /\ tstate[task] # "READY" /\ ~Has(queue, OffFxRunnable)
      /\ Quietly => delayTask = Null /\ (fut[task] = "NEW" \/ (OffFxStart /\ created = 1))
  BY <1>m DEF SInv, ExecInv, OffInv, AssertInv
<1>z. task \in Tasks /\ task <= created /\ created \in Nat /\ created # 0
  BY <1>x, BoundAssumption DEF SInv, STypes, TypeOK, Tasks, Null
<1>s. startedOnce
  BY <1>z DEF SInv, STypes, OffInv
<1>e. ExecuteFresh \/ ExecuteAgain
  BY <1>x DEF SExecute
<1>u. /\ AllSame /\ RestSame /\ HistorySame /\ ownState' = ownState /\ calls' = calls
      /\ freshStart' = freshStart /\ currentFailureCount' = currentFailureCount
  BY DEF SExecute, AllSame, RestSame, HistorySame, taskVars, svVars, bindVars, runVars
<1>p. PeriodInv' /\ (Quietly => broken' = broken)
  <2>1. CASE ExecuteFresh
    BY <2>1, <1>x DEF ExecuteFresh, SetCumulativePeriod, Assert, PeriodInv, Cumulatives, Periods
  <2>2. CASE ExecuteAgain
    BY <2>2, <1>x DEF ExecuteAgain, Assert, SInv, PeriodInv
  <2> QED BY <1>e, <2>1, <2>2
<1>o. \/ Then(<<ExecuteNow(task)>>) /\ timers' = timers /\ timerIds' = timerIds /\ delayTask' = delayTask
      \/ /\ timerIds' = timerIds + 1 /\ delayTask' = timerIds + 1
         /\ \/ Abort /\ timers' = timers /\ ~Schedulable
            \/ Then(<<>>) /\ \E d : timers' = timers \cup {[id |-> timerIds + 1, k |-> task, due |-> now + d]}
  <2>1. ASSUME NEW d, Arm(d), Schedulable => ~(d < 0) /\ d # MaxMillis
        PROVE  /\ timerIds' = timerIds + 1 /\ delayTask' = timerIds + 1
               /\ \/ Abort /\ timers' = timers /\ ~Schedulable
                  \/ Then(<<>>) /\ timers' = timers \cup {[id |-> timerIds + 1, k |-> task, due |-> now + d]}
    BY <2>1 DEF Arm
  <2>2. CASE ExecuteFresh
    <3>1. Schedulable => ~(Millis(Delay) < 0) /\ Millis(Delay) # MaxMillis
      BY DelayInRange
    <3>2. CASE Millis(Delay) = 0
      BY <2>2, <3>2 DEF ExecuteFresh, timerVars
    <3>3. CASE Millis(Delay) # 0
      <4>1. Arm(Millis(Delay))
        BY <2>2, <3>3 DEF ExecuteFresh
      <4> QED BY <2>1, <3>1, <4>1
    <3> QED BY <3>2, <3>3
  <2>3. CASE ExecuteAgain
    <3>1. CASE now - lastRunTime < Millis(cumulativePeriod)
      <4> DEFINE d == Minus(Millis(cumulativePeriod), now - lastRunTime)
      <4>1. Schedulable => ~(d < 0) /\ d # MaxMillis
        BY <3>1, DelayInRange
      <4>2. Arm(d)
        BY <2>3, <3>1 DEF ExecuteAgain
      <4> HIDE DEF d
      <4> QED BY <2>1, <4>1, <4>2
    <3>2. CASE ~(now - lastRunTime < Millis(cumulativePeriod))
      BY <2>3, <3>2 DEF ExecuteAgain, timerVars
    <3> QED BY <3>1, <3>2
  <2> QED BY <1>e, <2>2, <2>3
<1>y. TypeOK'
  BY <1>u DEF SInv, STypes, TypeOK, AllSame, RestSame
\* However the timer was set.
<1>a. ASSUME Bare(Todo') PROVE AssertInv'
  <2>1. Quietly /\ tstate[task] = "CANCELLED" => Dead'
    <3> SUFFICES ASSUME Quietly, tstate[task] = "CANCELLED" PROVE Dead'
      OBVIOUS
    <3>1. fut[task] = "CANCELLED"
      BY <1>z DEF SInv, WorkInv
    <3>2. OffFxStart /\ created = 1
      BY <1>x, <3>1
    <3>3. \A k \in Tasks : k <= created => k = task
      BY <1>z, <3>2 DEF Tasks
    <3> QED BY <1>a, <1>s, <1>u, <1>x, <3>2, <3>3 DEF Dead, AllSame, Bare
  <2> QED BY <1>a, <1>u, <1>x, <1>p, <2>1 DEF SInv, AssertInv, AllSame, Bare
<1>1. CASE Then(<<ExecuteNow(task)>>) /\ timers' = timers /\ timerIds' = timerIds /\ delayTask' = delayTask
  <2>s. /\ ExecuteNow(task) \in Statements /\ ExecuteNow(task) # OwnTo("SCHEDULED") /\ Head(todo) # Return
        /\ Replaces(ExecuteNow(task), Head(todo))
    BY <1>k, <1>z, AreStatements, Replacements, FieldsAre
  <2>t. Shape(todo') /\ Todo' = {ExecuteNow(task)} \cup Left
    BY <1>1, <1>h, <2>s, OneFollows
  <2>m1. /\ \A j, u : SetState(j, u) \notin Todo'
         /\ \A j : SetValue(j) \notin Todo' /\ CancelTask(j) \notin Todo'
         /\ HookOf("SUCCEEDED") \notin Todo' /\ HookOf("FAILED") \notin Todo'
         /\ Do("execute") \notin Todo' /\ Do("schedule") \notin Todo' /\ Do("abandon") \notin Todo'
         /\ Do("reset") \notin Todo' /\ Do("resetSchedule") \notin Todo' /\ Do("assertNotFresh") \notin Todo'
         /\ Do("cancelSchedule") \notin Todo' /\ ExecuteNow(task) \in Todo'
    BY <1>m1, <2>t, FieldsAre DEF Bare
  <2>1. STypes'
    <3>1. TimerTypes'
      BY <1>1, <1>u DEF SInv, STypes, TimerTypes, AllSame, HistorySame
    <3>2. \A s \in Todo' : s.k <= created
      BY <1>b, <1>z, <2>t, FieldsAre DEF SInv, STypes
    <3> QED BY <1>u, <1>y, <2>t, <3>1, <3>2 DEF SInv, STypes, Shape, AllSame
  <2>2. WorkInv' /\ RunnableOrder'
    BY <1>u, <1>m, <2>m1 DEF SInv, WorkInv, RunnableOrder, Queued, Taking, EndsOf, AllSame
  <2>3. OwnInv' /\ ExecInv' /\ StrandInv'
    BY <1>u, <1>x, <2>m1 DEF OwnInv, ExecInv, StrandInv, Awaited, AllSame
  <2>4. OffInv'
    BY <1>1, <1>u, <1>x, <2>m1 DEF SInv, OffInv, AllSame
  <2>5. StageInv' /\ FailInv'
    BY <1>u, <1>m, <1>x, <2>m1 DEF SInv, StageInv, FailInv, Exhausted, AllSame
  <2>6. AssertInv'
    BY <1>1, <1>u, <1>p, <1>x, <2>m1 DEF SInv, AssertInv, AllSame
  <2> QED BY <1>p, <2>1, <2>2, <2>3, <2>4, <2>5, <2>6, <2>t DEF SInv, Shape
<1>2. CASE /\ timerIds' = timerIds + 1 /\ delayTask' = timerIds + 1
           /\ Abort /\ timers' = timers /\ ~Schedulable
  <2>1. todo' = <<>>
    BY <1>2, <1>h, <1>k, NothingIsLeft
  <2>2. task # Null /\ tstate[task] = "FAILED" => Exhausted
    BY <1>m DEF SInv, FailInv
  <2>3. /\ Shape(todo') /\ Todo' = {} /\ WorkInv' /\ RunnableOrder' /\ OwnInv' /\ ExecInv' /\ OffInv'
        /\ StageInv' /\ FailInv'
    BY <1>2, <1>u, <1>m, <1>x, <2>1, <2>2, ThrowKeeps
  <2>4. STypes'
    <3>1. TimerTypes'
      <4>1. timerIds \in Nat
        BY DEF SInv, STypes, TimerTypes
      <4>2. timerIds + 1 \in Nat /\ timerIds + 1 \in 0 .. timerIds + 1 /\ 1 .. timerIds \subseteq 1 .. timerIds + 1
        BY <4>1
      <4> QED BY <1>2, <1>u, <4>2 DEF SInv, STypes, TimerTypes, AllSame, HistorySame
    <3> QED BY <1>u, <1>y, <2>3, <3>1 DEF SInv, STypes, Shape, AllSame
  <2>5. AssertInv'
    BY <1>a, <2>3 DEF Bare
  <2> QED BY <1>p, <1>2, <2>3, <2>4, <2>5 DEF SInv, Shape, StrandInv
<1>3. CASE /\ timerIds' = timerIds + 1 /\ delayTask' = timerIds + 1 /\ Then(<<>>)
           /\ \E d : timers' = timers \cup {[id |-> timerIds + 1, k |-> task, due |-> now + d]}
  <2>t. Shape(todo') /\ Todo' = Left
    BY <1>3, <1>h, NothingFollows
  <2>m1. Bare(Todo')
    BY <1>m1, <2>t
  <2>d. PICK d : timers' = timers \cup {[id |-> timerIds + 1, k |-> task, due |-> now + d]}
    BY <1>3
  <2> DEFINE n == [id |-> timerIds + 1, k |-> task, due |-> now + d]
  <2>n. timers' = timers \cup {n} /\ n.id = timerIds + 1 /\ n.k = task
    BY <2>d
  <2> HIDE DEF n
  <2>1. STypes'
    <3>1. TimerTypes'
      <4>1. timerIds \in Nat /\ \A t \in timers : t.id \in 1 .. timerIds
        BY DEF SInv, STypes, TimerTypes
      <4>2. /\ timerIds + 1 \in Nat /\ timerIds + 1 \in 0 .. timerIds + 1 /\ timerIds + 1 \in 1 .. timerIds + 1
            /\ 1 .. timerIds \subseteq 1 .. timerIds + 1 /\ timerIds + 1 \notin 1 .. timerIds
        BY <4>1
      <4>3. task \in 1 .. created
        BY <1>z DEF Tasks
      <4>4. \A t \in timers' : t.id \in 1 .. timerIds' /\ t.k \in 1 .. created'
        BY <1>3, <1>u, <2>n, <4>2, <4>3 DEF SInv, STypes, TimerTypes, AllSame
      <4>5. \A t, u \in timers' : t.id = u.id => t = u
        BY <2>n, <4>1, <4>2 DEF SInv, STypes, TimerTypes
      <4> QED BY <1>3, <1>u, <4>2, <4>4, <4>5 DEF SInv, STypes, TimerTypes, AllSame, HistorySame
    <3>2. \A s \in Todo' : s.k <= created
      BY <1>b, <2>t DEF SInv, STypes
    <3> QED BY <1>u, <1>y, <2>t, <3>1, <3>2 DEF SInv, STypes, Shape, AllSame
  <2>2. WorkInv' /\ RunnableOrder'
    BY <1>u, <1>m, <2>m1 DEF SInv, WorkInv, RunnableOrder, Queued, Taking, EndsOf, AllSame, Bare
  <2>3. OwnInv' /\ ExecInv'
    BY <1>u, <1>x, <2>m1 DEF OwnInv, ExecInv, AllSame, Bare
  <2>4. StrandInv'
    BY <1>u, <2>n DEF StrandInv, Awaited, Armed, AllSame
  <2>5. OffInv'
    BY <1>u, <1>s, <1>x, <2>m1 DEF SInv, OffInv, AllSame, Bare
  <2>6. StageInv' /\ FailInv'
    BY <1>u, <1>m, <1>x, <2>m1 DEF SInv, StageInv, FailInv, Exhausted, AllSame, Bare
  <2> QED BY <1>p, <1>a, <2>m1, <2>1, <2>2, <2>3, <2>4, <2>5, <2>6, <2>t DEF SInv, Shape
<1> QED BY <1>o, <1>1, <1>2, <1>3

-----------------------------------------------------------------------------
\* The Runnables of the queue, as programs.
LEMMA TripleShape ==
  ASSUME NEW a \in Statements, NEW b \in Statements, a # Return, b # Return,
         a # OwnTo("SCHEDULED"), b # OwnTo("SCHEDULED"), Front(b, a)
  PROVE  /\ Shape(<<a, b, Return>>) /\ Elems(<<a, b, Return>>) = {a, b, Return}
         /\ Shape(<<a, Return>>) /\ Elems(<<a, Return>>) = {a, Return}
<1>1. Return \in Statements /\ Front(Return, a) /\ Front(Return, b)
  BY AreStatements, FieldsAre DEF Front
<1>2. Shape(<<Return>>) /\ Elems(<<Return>>) = {Return} /\ LastReturn(<<Return>>) /\ <<Return>> # <<>>
  BY ReturnShape
<1> DEFINE q == <<Return>>
           r == <<b>> \o q
<1>3. <<a, b, Return>> = <<a>> \o r /\ <<a, Return>> = <<a>> \o q
  <2>1. <<a>> \o <<b, Return>> = <<a, b, Return>>
    BY <1>1, Triples
  <2>2. <<b>> \o <<Return>> = <<b, Return>> /\ <<a>> \o <<Return>> = <<a, Return>>
    BY <1>1, Triples
  <2> QED BY <2>1, <2>2
<1> HIDE DEF q
<1>4. Shape(q) /\ q # <<>> /\ LastReturn(q) /\ \A c \in Elems(q) : c = Return
  BY <1>2 DEF q
<1>5. /\ Shape(r) /\ r # <<>> /\ Elems(r) = {b} \cup Elems(q) /\ LastReturn(r)
  BY <1>1, <1>4, PushShape
<1>6. Shape(<<a>> \o q) /\ Elems(<<a>> \o q) = {a} \cup Elems(q)
  BY <1>1, <1>4, PushShape
<1> HIDE DEF r
<1>7. \A c \in Elems(r) : Front(c, a)
  BY <1>1, <1>4, <1>5
<1>8. Shape(<<a>> \o r) /\ Elems(<<a>> \o r) = {a} \cup Elems(r)
  BY <1>5, <1>7, PushShape
<1> QED BY <1>2, <1>3, <1>5, <1>6, <1>8 DEF q

\* They are programs of the invariant.
LEMMA RunnableShapes ==
  /\ Shape(OffFxRunnable) /\ Elems(OffFxRunnable) = {Do("schedule"), Do("execute"), Return}
  /\ \A k \in Tasks :
       /\ Shape(StartRunnable(k)) /\ Elems(StartRunnable(k)) = {SetState(k, "SCHEDULED"), SetState(k, "RUNNING"), Return}
       /\ Shape(SucceedRunnable(k)) /\ Elems(SucceedRunnable(k)) = {SetValue(k), SetState(k, "SUCCEEDED"), Return}
       /\ Shape(FailRunnable(k)) /\ Elems(FailRunnable(k)) = {SetState(k, "FAILED"), Return}
       /\ Shape(TimerRunnable(k)) /\ Elems(TimerRunnable(k)) = {ExecuteNow(k), Do("clearDelay"), Return}
<1>0. {"SCHEDULED", "RUNNING", "SUCCEEDED", "FAILED"} \subseteq States \ {"READY"}
  BY DEF States, Ending
<1>1. Shape(OffFxRunnable) /\ Elems(OffFxRunnable) = {Do("schedule"), Do("execute"), Return}
  <2>1. Do("schedule") \in Statements /\ Do("execute") \in Statements
    BY AreStatements DEF Simple
  <2>2. Front(Do("execute"), Do("schedule"))
    BY FieldsAre DEF Front
  <2>3. /\ Do("schedule") # Return /\ Do("execute") # Return
        /\ Do("schedule") # OwnTo("SCHEDULED") /\ Do("execute") # OwnTo("SCHEDULED")
    BY FieldsAre
  <2>4. /\ Shape(<<Do("schedule"), Do("execute"), Return>>)
        /\ Elems(<<Do("schedule"), Do("execute"), Return>>) = {Do("schedule"), Do("execute"), Return}
    BY <2>1, <2>2, <2>3, TripleShape
  <2> QED BY <2>4 DEF OffFxRunnable
<1>2. ASSUME NEW k \in Tasks
      PROVE  Shape(StartRunnable(k)) /\ Elems(StartRunnable(k)) = {SetState(k, "SCHEDULED"), SetState(k, "RUNNING"), Return}
  <2>1. Front(SetState(k, "RUNNING"), SetState(k, "SCHEDULED"))
    BY FieldsAre DEF Front, OfStart
  <2> DEFINE a == SetState(k, "SCHEDULED")
             b == SetState(k, "RUNNING")
  <2>2. a \in Statements /\ b \in Statements
    BY <1>0, AreStatements
  <2>3. a # Return /\ b # Return /\ a # OwnTo("SCHEDULED") /\ b # OwnTo("SCHEDULED")
    BY FieldsAre
  <2> HIDE DEF a, b
  <2>4. Shape(<<a, b, Return>>) /\ Elems(<<a, b, Return>>) = {a, b, Return}
    BY <2>1, <2>2, <2>3, TripleShape DEF a, b
  <2> QED BY <2>4 DEF StartRunnable, a, b
<1>3. ASSUME NEW k \in Tasks
      PROVE  Shape(SucceedRunnable(k)) /\ Elems(SucceedRunnable(k)) = {SetValue(k), SetState(k, "SUCCEEDED"), Return}
  <2>1. Front(SetState(k, "SUCCEEDED"), SetValue(k))
    BY FieldsAre DEF Front
  <2>2. SucceedRunnable(k) = <<SetValue(k), SetState(k, "SUCCEEDED"), Return>>
    BY DEF SucceedRunnable, SetValue
  <2> DEFINE a == SetValue(k)
             b == SetState(k, "SUCCEEDED")
  <2>3. a \in Statements /\ b \in Statements
    BY <1>0, AreStatements
  <2>4. a # Return /\ b # Return /\ a # OwnTo("SCHEDULED") /\ b # OwnTo("SCHEDULED")
    BY FieldsAre
  <2> HIDE DEF a, b
  <2>5. Shape(<<a, b, Return>>) /\ Elems(<<a, b, Return>>) = {a, b, Return}
    BY <2>1, <2>3, <2>4, TripleShape DEF a, b
  <2> QED BY <2>2, <2>5 DEF a, b
<1>4. ASSUME NEW k \in Tasks
      PROVE  Shape(TimerRunnable(k)) /\ Elems(TimerRunnable(k)) = {ExecuteNow(k), Do("clearDelay"), Return}
  <2>1. Front(Do("clearDelay"), ExecuteNow(k))
    BY FieldsAre DEF Front
  <2>2. Do("clearDelay") \in Statements
    BY AreStatements DEF Simple
  <2> DEFINE a == ExecuteNow(k)
             b == Do("clearDelay")
  <2>3. a \in Statements /\ b \in Statements
    BY <2>2, AreStatements
  <2>4. a # Return /\ b # Return /\ a # OwnTo("SCHEDULED") /\ b # OwnTo("SCHEDULED")
    BY FieldsAre
  <2> HIDE DEF a, b
  <2>5. Shape(<<a, b, Return>>) /\ Elems(<<a, b, Return>>) = {a, b, Return}
    BY <2>1, <2>3, <2>4, TripleShape DEF a, b
  <2> QED BY <2>5 DEF TimerRunnable, a, b
<1>5. ASSUME NEW k \in Tasks
      PROVE  Shape(FailRunnable(k)) /\ Elems(FailRunnable(k)) = {SetState(k, "FAILED"), Return}
  <2>1. /\ SetState(k, "FAILED") \in Statements /\ SetState(k, "FAILED") # Return
        /\ SetState(k, "FAILED") # OwnTo("SCHEDULED")
    BY <1>0, AreStatements, FieldsAre
  <2>3. /\ SetRunning(k, "FAILED") \in Statements /\ SetRunning(k, "FAILED") # Return
        /\ SetRunning(k, "FAILED") # OwnTo("SCHEDULED")
    BY <1>0, AreStatements, FieldsAre
  <2>4. Front(SetRunning(k, "FAILED"), SetState(k, "FAILED"))
    BY FieldsAre DEF Front
  <2> QED BY <2>1, <2>3, <2>4, TripleShape DEF FailRunnable
<1> QED BY <1>1, <1>2, <1>3, <1>4, <1>5

\* They differ, also from the timer's.
LEMMA TimerRunnableDiffers ==
  \A j, k \in Tasks :
    /\ TimerRunnable(j) = TimerRunnable(k) <=> j = k
    /\ TimerRunnable(j) \notin {StartRunnable(k), SucceedRunnable(k), FailRunnable(k), OffFxRunnable}
<1> SUFFICES ASSUME NEW j \in Tasks, NEW k \in Tasks
             PROVE  /\ TimerRunnable(j) = TimerRunnable(k) <=> j = k
                    /\ TimerRunnable(j) \notin {StartRunnable(k), SucceedRunnable(k), FailRunnable(k), OffFxRunnable}
  OBVIOUS
<1>1. \A i : /\ StartRunnable(i)[1] = SetState(i, "SCHEDULED") /\ TimerRunnable(i)[1] = ExecuteNow(i)
             /\ SucceedRunnable(i)[1] = SetValue(i) /\ FailRunnable(i)[1] = SetState(i, "FAILED")
  BY DEF StartRunnable, SucceedRunnable, FailRunnable, SetValue, TimerRunnable
<1>2. OffFxRunnable[1] = Do("schedule")
  BY DEF OffFxRunnable
<1>3. /\ ExecuteNow(j) = ExecuteNow(k) => j = k
      /\ ExecuteNow(j) # SetState(k, "SCHEDULED") /\ ExecuteNow(j) # SetValue(k)
      /\ ExecuteNow(j) # SetState(k, "FAILED") /\ ExecuteNow(j) # Do("schedule")
  BY FieldsAre
<1> QED BY <1>1, <1>2, <1>3

-----------------------------------------------------------------------------
\* The event loop takes a Runnable.
LEMMA TakeKeeps ==
  ASSUME SInv, FxTake, UNCHANGED <<schVars, now>>
  PROVE  SInv'
<1>0. todo = <<>> /\ queue # <<>> /\ todo' = Head(queue) /\ queue' = Tail(queue)
  BY DEF FxTake
<1> DEFINE h == Head(queue)
<1>q. queue \in Seq(SRunnables)
  BY DEF SInv, STypes
<1>h. h \in SRunnables /\ queue' \in Seq(SRunnables)
  BY <1>0, <1>q
<1>t. /\ \A x : Has(queue, x) <=> h = x \/ Has(queue', x)
      /\ \A x : Single(queue, x) => Single(queue', x) /\ (h = x => ~Has(queue', x))
      /\ \A x, y : Before(queue, x, y) => Before(queue', x, y) /\ (h = y => ~Has(queue, x))
  BY <1>0, <1>q, TailHas
<1> HIDE DEF h
<1>m. Todo = {} /\ Todo' = Elems(h)
  BY <1>0, EmptyShape DEF Todo, h
<1>u. /\ fut' = fut /\ wpc' = wpc /\ tstate' = tstate /\ created' = created
      /\ task' = task /\ stateBound' = stateBound /\ startedOnce' = startedOnce
      /\ ownState' = ownState /\ calls' = calls /\ ScheduleSame /\ RestSame /\ HistorySame
  BY DEF FxTake, ScheduleSame, RestSame, HistorySame, taskVars, svVars, bindVars, schVars, runVars, timerVars
<1>s. startedOnce
  BY <1>0 DEF SInv, OffInv
<1>i. /\ WorkInv /\ RunnableOrder /\ OffInv /\ StageInv /\ FailInv /\ StrandInv /\ AssertInv
      /\ PeriodInv' /\ OwnInv'
  <2>1. ~(task = Null /\ ownState = "SCHEDULED")
    BY <1>m DEF SInv, OwnInv
  <2> QED BY <2>1, <1>u DEF SInv, PeriodInv, OwnInv, ScheduleSame
<1>z. task # Null => task \in Tasks
  BY BoundAssumption DEF SInv, STypes, TypeOK, Tasks, Null
<1>y. ASSUME Shape(h), \A s \in Elems(h) : s.k <= created
      PROVE  STypes'
  <2>1. TypeOK' /\ TimerTypes'
    BY <1>u, TimerTypesKept DEF SInv, STypes, TypeOK, RestSame
  <2>2. \A k \in Tasks : Has(queue', TimerRunnable(k)) => k <= created
    BY <1>t DEF SInv, STypes
  <2> QED BY <1>y, <1>0, <1>h, <1>u, <1>m, <2>1, <2>2 DEF SInv, STypes, Shape, h
<1>e. \A k \in Tasks : /\ StartRunnable(k) # OffFxRunnable /\ SucceedRunnable(k) # OffFxRunnable
                       /\ FailRunnable(k) # OffFxRunnable /\ TimerRunnable(k) # OffFxRunnable
  BY RunnablesDiffer, TimerRunnableDiffers
<1>r. Return.k = 0 /\ 0 <= created
  BY FieldsAre, BoundAssumption DEF SInv, STypes, TypeOK
\* A task's step.
<1>1. ASSUME NEW k \in Tasks, h = StartRunnable(k) PROVE SInv'
  <2>t. Shape(h) /\ Todo' = {SetState(k, "SCHEDULED"), SetState(k, "RUNNING"), Return}
    BY <1>1, <1>m, RunnableShapes
  <2>m. /\ \A j, u : SetState(j, u) \in Todo' <=> j = k /\ u \in {"SCHEDULED", "RUNNING"}
        /\ \A j : SetValue(j) \notin Todo' /\ ExecuteNow(j) \notin Todo' /\ CancelTask(j) \notin Todo'
        /\ HookOf("SUCCEEDED") \notin Todo' /\ HookOf("FAILED") \notin Todo'
        /\ Do("execute") \notin Todo' /\ Do("schedule") \notin Todo' /\ Do("abandon") \notin Todo'
        /\ Do("reset") \notin Todo' /\ Do("resetSchedule") \notin Todo' /\ Do("assertNotFresh") \notin Todo'
        /\ Do("start") \notin Todo' /\ Do("cancelSchedule") \notin Todo' /\ Do("clearDelay") \notin Todo'
    BY <2>t, FieldsAre
  <2>w. Has(queue, StartRunnable(k)) /\ wpc[k] \notin {"new", "queued"} /\ ~(k > created)
    BY <1>1, <1>t, <1>i DEF WorkInv
  <2>o. ~Has(queue, OffFxRunnable) /\ ~Has(queue', OffFxRunnable)
    BY <1>i, <1>t, <2>w DEF OffInv
  <2>n. \A j \in Tasks : Has(queue, TimerRunnable(j)) <=> Has(queue', TimerRunnable(j))
    BY <1>1, <1>t, TimerRunnableDiffers
  <2>1. STypes'
    <3>1. SetState(k, "SCHEDULED").k = k /\ SetState(k, "RUNNING").k = k /\ k <= created
      BY <2>w, FieldsAre, BoundAssumption DEF SInv, STypes, TypeOK, Tasks
    <3> QED BY <1>y, <1>r, <1>m, <2>t, <3>1
  <2>2. WorkInv'
    BY <1>u, <1>i, <1>m, <1>t, <2>m, <2>w DEF WorkInv
  <2>3. RunnableOrder'
    BY <1>1, <1>u, <1>i, <1>m, <1>t, <2>m, <2>w DEF RunnableOrder, Queued, Taking, EndsOf
  <2>4. ExecInv' /\ OffInv'
    BY <1>u, <1>i, <1>s, <1>t, <2>m, <2>o DEF ExecInv, OffInv, ScheduleSame
  <2>5. StageInv' /\ FailInv'
    BY <1>u, <1>i, <1>m, <2>m DEF StageInv, FailInv, Exhausted, ScheduleSame
  <2>6. StrandInv'
    BY <1>u, <1>i, <1>m, <1>z, <2>m, <2>w, <2>n DEF StrandInv, Awaited, Armed, ScheduleSame
  <2>7. AssertInv'
    <3>1. Dead => Dead'
      BY <1>u, <2>m, <2>o DEF Dead
    <3> QED BY <1>u, <1>i, <1>m, <2>m, <2>o, <3>1 DEF AssertInv, ScheduleSame
  <2> QED BY <1>0, <1>i, <2>t, <2>1, <2>2, <2>3, <2>4, <2>5, <2>6, <2>7 DEF SInv, Shape, h
\* A task's outcome.
<1>2. ASSUME NEW k \in Tasks, h = SucceedRunnable(k) \/ h = FailRunnable(k) PROVE SInv'
  <2>t. /\ Shape(h)
        /\ \/ Todo' = {SetValue(k), SetState(k, "SUCCEEDED"), Return}
           \/ Todo' = {SetState(k, "FAILED"), Return}
    BY <1>2, <1>m, RunnableShapes
  <2>m. /\ \A j, u : SetState(j, u) \in Todo' => j = k /\ u \in {"SUCCEEDED", "FAILED"}
        /\ \A j : SetValue(j) \in Todo' => j = k
        /\ \A j : ExecuteNow(j) \notin Todo' /\ CancelTask(j) \notin Todo'
        /\ HookOf("SUCCEEDED") \notin Todo' /\ HookOf("FAILED") \notin Todo'
        /\ Do("execute") \notin Todo' /\ Do("schedule") \notin Todo' /\ Do("abandon") \notin Todo'
        /\ Do("reset") \notin Todo' /\ Do("resetSchedule") \notin Todo' /\ Do("assertNotFresh") \notin Todo'
        /\ Do("start") \notin Todo' /\ Do("cancelSchedule") \notin Todo' /\ Do("clearDelay") \notin Todo'
    BY <2>t, FieldsAre
  <2>w. /\ Has(queue, SucceedRunnable(k)) \/ Has(queue, FailRunnable(k))
        /\ wpc[k] \in {"set", "setException", "end"} /\ ~(k > created)
        /\ tstate[k] \notin {"SUCCEEDED", "FAILED"}
    <3>1. Has(queue, SucceedRunnable(k)) \/ Has(queue, FailRunnable(k))
      BY <1>2, <1>t
    <3>2. wpc[k] \in {"set", "setException", "end"} /\ tstate[k] \notin {"SUCCEEDED", "FAILED"}
      BY <3>1, <1>i DEF RunnableOrder, Queued
    <3> QED BY <3>1, <3>2, <1>i DEF WorkInv
  <2>p. ~Has(queue', SucceedRunnable(k)) /\ ~Has(queue', FailRunnable(k)) /\ ~Has(queue', StartRunnable(k))
    <3>1. CASE h = SucceedRunnable(k)
      BY <3>1, <1>i, <1>t DEF RunnableOrder
    <3>2. CASE h = FailRunnable(k)
      BY <3>2, <1>i, <1>t DEF RunnableOrder
    <3> QED BY <1>2, <3>1, <3>2
  <2>o. ~Has(queue, OffFxRunnable) /\ ~Has(queue', OffFxRunnable)
    BY <1>i, <1>t, <2>w DEF OffInv
  <2>n. \A j \in Tasks : Has(queue, TimerRunnable(j)) <=> Has(queue', TimerRunnable(j))
    BY <1>2, <1>t, TimerRunnableDiffers
  <2>1. STypes'
    <3>1. SetValue(k).k = k /\ SetState(k, "SUCCEEDED").k = k /\ SetState(k, "FAILED").k = k /\ k <= created
      BY <2>w, FieldsAre, BoundAssumption DEF SInv, STypes, TypeOK, Tasks
    <3> QED BY <1>y, <1>r, <1>m, <2>t, <3>1
  <2>2. WorkInv'
    BY <1>u, <1>i, <1>m, <1>t, <2>m DEF WorkInv
  <2>3. RunnableOrder'
    <3>1. \A j \in Tasks : ~Taking(j)'
      BY <2>m DEF Taking
    <3>2. \A j \in Tasks : EndsOf(j)' => j = k
      BY <2>m DEF EndsOf
    <3>3. \A j \in Tasks : Queued(j)' => Queued(j)
      BY <1>t DEF Queued
    <3>4. ~Queued(k)'
      BY <2>p DEF Queued
    <3>5. ASSUME NEW j \in Tasks PROVE RunnableOrder!(j)'
      <4>1. /\ (Single(queue, StartRunnable(j)) /\ Single(queue, SucceedRunnable(j)) /\ Single(queue, FailRunnable(j)))'
            /\ (~(Has(queue, SucceedRunnable(j)) /\ Has(queue, FailRunnable(j))))'
            /\ (Before(queue, StartRunnable(j), SucceedRunnable(j)) /\ Before(queue, StartRunnable(j), FailRunnable(j)))'
        BY <1>i, <1>t DEF RunnableOrder
      <4>2. (EndsOf(j) \/ tstate[j] \in {"SUCCEEDED", "FAILED"} => ~Queued(j) /\ ~Taking(j))'
        BY <1>i, <1>u, <3>1, <3>2, <3>3, <3>4 DEF RunnableOrder
      <4>3. (tstate[j] \in {"SUCCEEDED", "FAILED"} => ~EndsOf(j))'
        BY <1>u, <2>w, <3>2
      <4>4. (Has(queue, SucceedRunnable(j)) \/ Has(queue, FailRunnable(j)) \/ EndsOf(j)
              \/ tstate[j] \in {"SUCCEEDED", "FAILED"} => wpc[j] \in {"set", "setException", "end"})'
        BY <1>i, <1>t, <1>u, <2>w, <3>2 DEF RunnableOrder
      <4> QED BY <3>1, <4>1, <4>2, <4>3, <4>4
    <3> QED BY <3>5 DEF RunnableOrder
  <2>4. ExecInv' /\ OffInv'
    BY <1>u, <1>i, <1>s, <1>t, <2>m, <2>o DEF ExecInv, OffInv, ScheduleSame
  <2>5. StageInv' /\ FailInv'
    BY <1>u, <1>i, <1>m, <2>m DEF StageInv, FailInv, Exhausted, ScheduleSame
  <2>6. StrandInv'
    BY <1>u, <1>i, <1>m, <1>z, <2>m, <2>n DEF StrandInv, Awaited, Armed, ScheduleSame
  <2>7. AssertInv'
    <3>1. Dead => Dead'
      BY <1>u, <2>m, <2>o DEF Dead
    <3> QED BY <1>u, <1>i, <1>m, <2>m, <2>o, <3>1 DEF AssertInv, ScheduleSame
  <2> QED BY <1>0, <1>i, <2>t, <2>1, <2>2, <2>3, <2>4, <2>5, <2>6, <2>7 DEF SInv, Shape, h
\* The timer.
<1>3. ASSUME NEW k \in Tasks, h = TimerRunnable(k) PROVE SInv'
  <2>t. Shape(h) /\ Todo' = {ExecuteNow(k), Do("clearDelay"), Return}
    BY <1>3, <1>m, RunnableShapes
  <2>m. /\ \A j, u : SetState(j, u) \notin Todo'
        /\ \A j : SetValue(j) \notin Todo' /\ CancelTask(j) \notin Todo' /\ (ExecuteNow(j) \in Todo' <=> j = k)
        /\ HookOf("SUCCEEDED") \notin Todo' /\ HookOf("FAILED") \notin Todo'
        /\ Do("execute") \notin Todo' /\ Do("schedule") \notin Todo' /\ Do("abandon") \notin Todo'
        /\ Do("reset") \notin Todo' /\ Do("resetSchedule") \notin Todo' /\ Do("assertNotFresh") \notin Todo'
        /\ Do("start") \notin Todo' /\ Do("cancelSchedule") \notin Todo' /\ Do("clearDelay") \in Todo'
    BY <2>t, FieldsAre
  <2>w. Has(queue, TimerRunnable(k)) /\ k <= created
    BY <1>3, <1>t DEF SInv, STypes
  <2>o. ~Has(queue, OffFxRunnable) /\ ~Has(queue', OffFxRunnable)
    BY <1>i, <1>t, <2>w DEF OffInv
  <2>n. \A j \in Tasks : Has(queue, TimerRunnable(j)) <=> Has(queue', TimerRunnable(j)) \/ j = k
    BY <1>3, <1>t, TimerRunnableDiffers
  <2>1. STypes'
    <3>1. ExecuteNow(k).k = k /\ Do("clearDelay").k = 0
      BY FieldsAre
    <3> QED BY <1>y, <1>r, <1>m, <2>t, <2>w, <3>1
  <2>2. WorkInv' /\ RunnableOrder'
    BY <1>u, <1>i, <1>m, <1>t, <2>m DEF WorkInv, RunnableOrder, Queued, Taking, EndsOf
  <2>4. ExecInv' /\ OffInv'
    BY <1>u, <1>i, <1>s, <1>t, <2>m, <2>o DEF ExecInv, OffInv, ScheduleSame
  <2>5. StageInv' /\ FailInv'
    BY <1>u, <1>i, <1>m, <2>m DEF StageInv, FailInv, Exhausted, ScheduleSame
  <2>6. StrandInv'
    BY <1>u, <1>i, <1>m, <1>z, <2>m, <2>n DEF StrandInv, Awaited, Armed, ScheduleSame
  <2>7. AssertInv'
    <3>1. Dead => Dead'
      BY <1>u, <2>m, <2>o DEF Dead
    <3> QED BY <1>u, <1>i, <1>m, <2>m, <2>o, <3>1 DEF AssertInv, ScheduleSame
  <2> QED BY <1>0, <1>i, <2>t, <2>1, <2>2, <2>4, <2>5, <2>6, <2>7 DEF SInv, Shape, h
\* An off-FX start.
<1>4. ASSUME h = OffFxRunnable PROVE SInv'
  <2>t. Shape(h) /\ Todo' = {Do("schedule"), Do("execute"), Return}
    BY <1>4, <1>m, RunnableShapes
  <2>m. /\ \A j, u : SetState(j, u) \notin Todo'
        /\ \A j : SetValue(j) \notin Todo' /\ CancelTask(j) \notin Todo' /\ ExecuteNow(j) \notin Todo'
        /\ HookOf("SUCCEEDED") \notin Todo' /\ HookOf("FAILED") \notin Todo'
        /\ Do("execute") \in Todo' /\ Do("schedule") \in Todo' /\ Do("abandon") \notin Todo'
        /\ Do("reset") \notin Todo' /\ Do("resetSchedule") \notin Todo' /\ Do("assertNotFresh") \notin Todo'
        /\ Do("start") \notin Todo' /\ Do("cancelSchedule") \notin Todo' /\ Do("clearDelay") \notin Todo'
    BY <2>t, FieldsAre
  <2>w. Has(queue, OffFxRunnable) /\ ~Has(queue', OffFxRunnable)
    BY <1>4, <1>t, <1>i DEF OffInv
  <2>f. /\ OffFxStart /\ created = 1 /\ timers = {}
        /\ \A k \in Tasks : wpc[k] = "new" /\ ~Has(queue, TimerRunnable(k))
    BY <1>i, <2>w DEF OffInv
  <2>1. STypes'
    <3>1. Do("schedule").k = 0 /\ Do("execute").k = 0
      BY FieldsAre
    <3> QED BY <1>y, <1>r, <1>m, <2>t, <3>1
  <2>2. WorkInv' /\ RunnableOrder'
    BY <1>u, <1>i, <1>m, <1>t, <2>m DEF WorkInv, RunnableOrder, Queued, Taking, EndsOf
  <2>3. ExecInv' /\ StrandInv'
    BY <1>u, <1>z, <2>m, <2>f DEF ExecInv, StrandInv
  <2>4. OffInv'
    BY <1>u, <1>i, <1>s, <1>t, <2>m, <2>w, <2>f DEF OffInv, ScheduleSame
  <2>5. StageInv' /\ FailInv'
    BY <1>u, <1>i, <1>m, <2>m DEF StageInv, FailInv, Exhausted, ScheduleSame
  <2>7. AssertInv'
    BY <1>u, <1>i, <1>m, <2>m, <2>w, <2>f DEF AssertInv, ScheduleSame
  <2> QED BY <1>0, <1>i, <2>t, <2>1, <2>2, <2>3, <2>4, <2>5, <2>7 DEF SInv, Shape, h
<1>5. h = OffFxRunnable \/ \E k \in Tasks : h \in {StartRunnable(k), SucceedRunnable(k), FailRunnable(k), TimerRunnable(k)}
  BY <1>h DEF SRunnables
<1> QED BY <1>1, <1>2, <1>3, <1>4, <1>5

-----------------------------------------------------------------------------
\* The methods of a ScheduledService, as programs.
LEMMA Regroup ==
  /\ \A x, y \in Seq(Statements) : x \o y \in Seq(Statements)
  /\ \A x \in Seq(Statements) : <<>> \o x = x /\ x \o <<>> = x
  /\ \A x, y, z \in Seq(Statements) : (x \o y) \o z = x \o (y \o z)
  /\ \A w, x, y, z \in Seq(Statements) : ((w \o x) \o y) \o z = w \o (x \o (y \o z))
<1>1. \A x, y \in Seq(Statements) : x \o y \in Seq(Statements)
  OBVIOUS
<1>2. \A x \in Seq(Statements) : <<>> \o x = x /\ x \o <<>> = x
  OBVIOUS
<1>3. \A x, y, z \in Seq(Statements) : (x \o y) \o z = x \o (y \o z)
  OBVIOUS
<1>4. ASSUME NEW w \in Seq(Statements), NEW x \in Seq(Statements), NEW y \in Seq(Statements),
             NEW z \in Seq(Statements)
      PROVE  ((w \o x) \o y) \o z = w \o (x \o (y \o z))
  <2> DEFINE p == w \o x
             q == y \o z
  <2>1. p \in Seq(Statements) /\ q \in Seq(Statements)
    BY <1>1
  <2>3. (p \o y) \o z = p \o (y \o z)
    <3> HIDE DEF p, q
    <3> QED BY <1>3, <2>1
  <2>2. (w \o x) \o q = w \o (x \o q)
    <3> HIDE DEF q
    <3> QED BY <1>3, <2>1
  <2> QED BY <2>2, <2>3
<1> QED BY <1>1, <1>2, <1>3, <1>4

\* cancel() in front of what it interrupts.
LEMMA CancelProgram ==
  ASSUME NEW q, Shape(q), \A b \in Elems(q), c \in Statements : Cancels(c) => Front(b, c),
         NEW p, NEW C, (p = <<>> /\ C = {}) \/ \E a \in Statements : p = <<a>> /\ C = {a} /\ Cancels(a)
  PROVE  /\ Shape(((p \o <<Do("cancelSchedule")>>) \o <<Return>>) \o q)
         /\ Elems(((p \o <<Do("cancelSchedule")>>) \o <<Return>>) \o q)
              = C \cup {Do("cancelSchedule"), Return} \cup Elems(q)
<1> DEFINE d == Do("cancelSchedule")
<1>1. /\ d \in Statements /\ Return \in Statements /\ Cancels(d) /\ Cancels(Return)
      /\ d # OwnTo("SCHEDULED") /\ Return # OwnTo("SCHEDULED")
  <2>1. d \in Statements /\ Return \in Statements
    BY AreStatements DEF Simple
  <2> QED BY <2>1, FieldsAre DEF Cancels
<1>2. \A c \in Statements : Cancels(c) => Front(d, c) /\ Front(Return, c) /\ c # OwnTo("SCHEDULED")
  BY FieldsAre DEF Front, Cancels
<1> HIDE DEF d
<1> DEFINE r == <<Return>> \o q
           s == <<d>> \o r
<1>3. /\ Shape(r) /\ r # <<>> /\ Elems(r) = {Return} \cup Elems(q)
  <2>1. CASE q = <<>>
    <3>1. r = <<Return>>
      BY <2>1
    <3> HIDE DEF r
    <3> QED BY <2>1, <3>1, ReturnShape, EmptyShape
  <2>2. CASE q # <<>>
    BY <2>2, <1>1, PushShape
  <2> QED BY <2>1, <2>2
<1>4. r \in Seq(Statements) /\ q \in Seq(Statements)
  BY <1>3 DEF Shape
<1>5. \A b \in Elems(r), c \in Statements : Cancels(c) => Front(b, c)
  BY <1>2, <1>3
<1>6. Shape(s) /\ s # <<>> /\ Elems(s) = {d} \cup Elems(r)
  <2> HIDE DEF r
  <2> QED BY <1>1, <1>3, <1>5, PushShape
<1>7. \A b \in Elems(s), c \in Statements : Cancels(c) => Front(b, c)
  BY <1>2, <1>5, <1>6
<1>8. p \in Seq(Statements) /\ <<d>> \in Seq(Statements) /\ <<Return>> \in Seq(Statements)
  <2>1. <<>> \in Seq(Statements) /\ \A a \in Statements : <<a>> \in Seq(Statements)
    OBVIOUS
  <2> QED BY <1>1, <2>1
<1>9. ((p \o <<d>>) \o <<Return>>) \o q = p \o s
  BY <1>4, <1>8, Regroup
<1>10. CASE p = <<>> /\ C = {}
  <2>1. p \o s = s
    BY <1>6, <1>10, Regroup DEF Shape
  <2> QED BY <1>3, <1>6, <1>9, <1>10, <2>1 DEF d
<1>11. ASSUME NEW a \in Statements, p = <<a>> /\ C = {a} /\ Cancels(a)
       PROVE  Shape(p \o s) /\ Elems(p \o s) = C \cup {d, Return} \cup Elems(q)
  <2> HIDE DEF s
  <2>1. Shape(<<a>> \o s) /\ Elems(<<a>> \o s) = {a} \cup Elems(s)
    BY <1>2, <1>6, <1>7, <1>11, PushShape
  <2> QED BY <1>3, <1>6, <1>11, <2>1
<1> QED BY <1>9, <1>10, <1>11 DEF d

\* reset(), and start() after it.
LEMMA ResetProgram ==
  ASSUME NEW p, p = <<>> \/ p = <<Do("start")>>
  PROVE  LET r == Cons(Do("reset"), Cons(Do("resetRest"), Cons(Do("resetSchedule"), p \o <<Return>>)))
         IN  /\ Shape(r) /\ r # <<>> /\ LastReturn(r)
             /\ Elems(r) = {Do("reset"), Do("resetRest"), Do("resetSchedule"), Return}
                             \cup (IF p = <<>> THEN {} ELSE {Do("start")})
<1> DEFINE P == IF p = <<>> THEN {} ELSE {Do("start")}
           q == p \o <<Return>>
           q1 == Cons(Do("resetSchedule"), q)
           q2 == Cons(Do("resetRest"), q1)
           q3 == Cons(Do("reset"), q2)
<1>1. /\ Do("reset") \in Statements /\ Do("resetRest") \in Statements /\ Do("resetSchedule") \in Statements
      /\ Do("start") \in Statements /\ Return \in Statements
  BY AreStatements DEF Simple
<1>2. /\ Do("reset") # Return /\ Do("resetRest") # Return /\ Do("resetSchedule") # Return /\ Do("start") # Return
      /\ Do("reset") # OwnTo("SCHEDULED") /\ Do("resetRest") # OwnTo("SCHEDULED")
      /\ Do("resetSchedule") # OwnTo("SCHEDULED") /\ Do("start") # OwnTo("SCHEDULED")
  BY FieldsAre
<1>3. \A b \in {Do("start"), Return} :
        Front(b, Do("resetSchedule")) /\ Front(b, Do("resetRest")) /\ Front(b, Do("reset"))
  BY FieldsAre DEF Front
<1>4. /\ Front(Return, Do("start"))
      /\ Front(Do("resetSchedule"), Do("resetRest")) /\ Front(Do("resetSchedule"), Do("reset"))
      /\ Front(Do("resetRest"), Do("reset"))
  BY FieldsAre DEF Front
<1>5. Shape(q) /\ q # <<>> /\ LastReturn(q) /\ Elems(q) = {Return} \cup P
  <2>1. /\ Shape(<<Return>>) /\ Elems(<<Return>>) = {Return} /\ LastReturn(<<Return>>) /\ <<Return>> # <<>>
    BY ReturnShape
  <2>2. CASE p = <<>>
    <3>1. q = <<Return>>
      BY <2>2
    <3> HIDE DEF q
    <3> QED BY <2>1, <2>2, <3>1
  <2>3. CASE p = <<Do("start")>>
    <3>1. q = Cons(Do("start"), <<Return>>) /\ p # <<>>
      BY <2>3 DEF Cons
    <3> HIDE DEF q
    <3> QED BY <1>1, <1>2, <1>4, <2>1, <3>1, PushCons
  <2> QED BY <2>2, <2>3
<1>6. \A b \in P : b = Do("start")
  OBVIOUS
<1> HIDE DEF q, P
<1>7. Shape(q1) /\ q1 # <<>> /\ LastReturn(q1) /\ Elems(q1) = {Do("resetSchedule"), Return} \cup P
  BY <1>1, <1>2, <1>3, <1>5, <1>6, PushCons
<1> HIDE DEF q1
<1>8. Shape(q2) /\ q2 # <<>> /\ LastReturn(q2) /\ Elems(q2) = {Do("resetRest"), Do("resetSchedule"), Return} \cup P
  <2>1. \A b \in Elems(q1) : Front(b, Do("resetRest"))
    BY <1>3, <1>4, <1>6, <1>7
  <2> QED BY <2>1, <1>1, <1>2, <1>7, PushCons
<1> HIDE DEF q2
<1>9. /\ Shape(q3) /\ q3 # <<>> /\ LastReturn(q3)
      /\ Elems(q3) = {Do("reset"), Do("resetRest"), Do("resetSchedule"), Return} \cup P
  <2>1. \A b \in Elems(q2) : Front(b, Do("reset"))
    BY <1>3, <1>4, <1>6, <1>8
  <2> QED BY <2>1, <1>1, <1>2, <1>8, PushCons
<1> QED BY <1>9 DEF q, q1, q2, q3, P

\* restart().
LEMMA RestartProgram ==
  ASSUME NEW k \in Tasks, NEW q, Shape(q), q # <<>>, LastReturn(q),
         Elems(q) = {Do("reset"), Do("resetRest"), Do("resetSchedule"), Return, Do("start")}
  PROVE  /\ Shape(Cons(CancelTask(k), Cons(Do("abandon"), q)))
         /\ Elems(Cons(CancelTask(k), Cons(Do("abandon"), q))) = {CancelTask(k), Do("abandon")} \cup Elems(q)
<1>1. Do("abandon") \in Statements /\ CancelTask(k) \in Statements
  BY AreStatements DEF Simple
<1>2. /\ Do("abandon") # Return /\ CancelTask(k) # Return
      /\ Do("abandon") # OwnTo("SCHEDULED") /\ CancelTask(k) # OwnTo("SCHEDULED")
  BY FieldsAre
<1>3. \A b \in Elems(q) : Front(b, Do("abandon")) /\ Front(b, CancelTask(k))
  BY FieldsAre DEF Front, Cancels
<1>4. Front(Do("abandon"), CancelTask(k))
  BY FieldsAre DEF Front, Cancels
<1> DEFINE r == Cons(Do("abandon"), q)
<1>5. Shape(r) /\ r # <<>> /\ LastReturn(r) /\ Elems(r) = {Do("abandon")} \cup Elems(q)
  BY <1>1, <1>2, <1>3, PushCons
<1> HIDE DEF r
<1>6. Shape(Cons(CancelTask(k), r)) /\ Elems(Cons(CancelTask(k), r)) = {CancelTask(k)} \cup Elems(r)
  <2>1. \A b \in Elems(r) : Front(b, CancelTask(k))
    BY <1>3, <1>4, <1>5
  <2> QED BY <2>1, <1>1, <1>2, <1>5, PushCons
<1> QED BY <1>5, <1>6 DEF r

-----------------------------------------------------------------------------
\* A call of the application: its statements come in front of the others.
LEMMA CallFrame ==
  ASSUME SInv, NEW m, SCall(m), Shape(todo'), \A s \in Todo' : s.k <= created
  PROVE  /\ STypes' /\ PeriodInv'
         /\ AllSame /\ ScheduleSame /\ ownState' = ownState
<1>u. AllSame /\ ScheduleSame /\ RestSame /\ HistorySame /\ ownState' = ownState
  BY DEF SCall, AllSame, ScheduleSame, RestSame, HistorySame, taskVars, svVars, bindVars, schVars, runVars, timerVars
<1>1. calls' \in 0 .. MaxCalls
  BY BoundAssumption DEF SCall, SInv, STypes, TypeOK
<1>2. TypeOK'
  BY <1>1, <1>u DEF SInv, STypes, TypeOK, AllSame, RestSame
<1>3. TimerTypes'
  BY <1>u, TimerTypesKept DEF AllSame
<1>4. STypes'
  BY <1>u, <1>2, <1>3 DEF SInv, STypes, AllSame, Shape
<1> QED BY <1>u, <1>4 DEF SInv, PeriodInv, ScheduleSame

\* cancel(), between two events or from a handler.
LEMMA CancelCallKeeps ==
  ASSUME SInv, SCall("cancel")
  PROVE  SInv'
<1> DEFINE p == Body("cancel")
           C == IF task # Null THEN {CancelTask(task)}
                ELSE IF state \in {"CANCELLED", "SUCCEEDED"} THEN {} ELSE {OwnTo("CANCELLED")}
<1>z. task # Null => task \in Tasks /\ task <= created
  BY BoundAssumption DEF SInv, STypes, TypeOK, Tasks, Null
<1>p. (p = <<>> /\ C = {}) \/ \E a \in Statements : p = <<a>> /\ C = {a} /\ Cancels(a)
  <2>1. p = IF task # Null THEN <<CancelTask(task)>>
            ELSE IF state \in {"CANCELLED", "SUCCEEDED"} THEN <<>> ELSE <<OwnTo("CANCELLED")>>
    BY DEF Body, CancelTask, OwnTo
  <2>2. OwnTo("CANCELLED") \in Statements /\ Cancels(OwnTo("CANCELLED"))
    BY AreStatements, FieldsAre DEF Cancels
  <2>3. task # Null => CancelTask(task) \in Statements /\ Cancels(CancelTask(task))
    BY <1>z, AreStatements, FieldsAre DEF Cancels
  <2> HIDE DEF p
  <2> QED BY <2>1, <2>2, <2>3
<1>c. (\A s \in C : Cancels(s) /\ s.k <= created)
  BY <1>z, FieldsAre, BoundAssumption DEF Cancels, SInv, STypes, TypeOK
<1>s. /\ task # Null => CancelTask(task) \in C
      /\ \A s \in C : (task # Null /\ s = CancelTask(task)) \/ s = OwnTo("CANCELLED")
  OBVIOUS
<1> HIDE DEF C
<1>q. Shape(todo) /\ \A b \in Elems(todo), c \in Statements : Cancels(c) => Front(b, c)
  <2>1. Shape(todo)
    BY DEF SInv, STypes, Shape
  <2>2. CASE todo = <<>>
    BY <2>1, <2>2, EmptyShape
  <2>3. CASE At("hook")
    <3>1. /\ Todo = {Head(todo)} \cup Left /\ (\A b \in Left : b \in Statements /\ Front(b, Head(todo)))
          /\ Head(todo).do = "hook"
      BY <2>3, AtHead
    <3>2. \A b, c \in Statements : Front(b, Head(todo)) /\ Cancels(c) => Front(b, c)
      BY <3>1 DEF Front, Cancels, OfStart, HookReady
    <3>3. \A c \in Statements : Cancels(c) => Front(Head(todo), c)
      BY <3>1 DEF Front
    <3> QED BY <2>1, <3>1, <3>2, <3>3 DEF Todo
  <2> QED BY <2>2, <2>3 DEF SCall, InHandler
<1>t. Shape(todo') /\ Todo' = C \cup {Do("cancelSchedule"), Return} \cup Todo
  <2>1. todo' = ((p \o <<Do("cancelSchedule")>>) \o <<Return>>) \o todo
    BY DEF SCall, SBody
  <2> HIDE DEF p
  <2>2. /\ Shape(((p \o <<Do("cancelSchedule")>>) \o <<Return>>) \o todo)
        /\ Elems(((p \o <<Do("cancelSchedule")>>) \o <<Return>>) \o todo)
             = C \cup {Do("cancelSchedule"), Return} \cup Elems(todo)
    BY <1>p, <1>q, CancelProgram
  <2> QED BY <2>1, <2>2 DEF Todo
<1>k. \A s \in Todo' : s.k <= created
  BY <1>c, <1>t, FieldsAre, BoundAssumption DEF SInv, STypes, TypeOK
<1>u. STypes' /\ PeriodInv' /\ AllSame /\ ScheduleSame /\ ownState' = ownState
  BY <1>t, <1>k, CallFrame
<1>m. /\ \A j, v : SetState(j, v) \in Todo' <=> SetState(j, v) \in Todo
      /\ \A j : /\ SetValue(j) \in Todo' <=> SetValue(j) \in Todo
                /\ ExecuteNow(j) \in Todo' <=> ExecuteNow(j) \in Todo
                /\ CancelTask(j) \in Todo => CancelTask(j) \in Todo'
      /\ task # Null => CancelTask(task) \in Todo'
      /\ \A v : HookOf(v) \in Todo' <=> HookOf(v) \in Todo
      /\ \A d \in {"execute", "schedule", "abandon", "reset", "start", "clearDelay", "assertNotFresh",
                   "resetSchedule"} : Do(d) \in Todo' <=> Do(d) \in Todo
      /\ Do("cancelSchedule") \in Todo'
  <2>1. \A s \in C \cup {Do("cancelSchedule"), Return} :
          \/ s = OwnTo("CANCELLED") \/ s = Do("cancelSchedule") \/ s = Return
          \/ s = CancelTask(task)
    BY <1>s
  <2> QED BY <1>s, <1>t, <2>1, FieldsAre
<1>e. Quietly => Todo = {}
  BY EmptyShape DEF Quietly, SCall, Todo
<1>1. WorkInv' /\ RunnableOrder'
  BY <1>u, <1>m DEF SInv, WorkInv, RunnableOrder, Queued, Taking, EndsOf, AllSame
<1>2. OwnInv'
  <2>1. \A s \in C \cup {Do("cancelSchedule"), Return} : Cancels(s)
    BY <1>c, FieldsAre DEF Cancels
  <2> QED BY <1>u, <1>t, <2>1 DEF SInv, OwnInv, AllSame
<1>3. ExecInv'
  BY <1>u, <1>m DEF SInv, ExecInv, AllSame
<1>4. OffInv'
  BY <1>u, <1>m DEF SInv, OffInv, AllSame, ScheduleSame
<1>5. StageInv' /\ FailInv'
  BY <1>u, <1>m DEF SInv, StageInv, FailInv, Exhausted, AllSame, ScheduleSame
<1>6. StrandInv'
  BY <1>u, <1>m DEF SInv, StrandInv, Awaited, Armed, AllSame, ScheduleSame
<1>7. AssertInv'
  <2>1. Dead => Dead'
    BY <1>u, <1>m DEF Dead, AllSame
  <2> QED BY <1>u, <1>m, <1>e, <2>1 DEF SInv, AssertInv, AllSame, ScheduleSame
<1> QED BY <1>u, <1>t, <1>1, <1>2, <1>3, <1>4, <1>5, <1>6, <1>7 DEF SInv, Shape

\* start(), reset() and restart(), between two events.
LEMMA OtherCallKeeps ==
  ASSUME CancelOnly, OneStarter, SInv, NEW m \in {"start", "reset", "restart"}, SCall(m)
  PROVE  SInv'
<1>0. todo = <<>> /\ m \in Calls /\ Todo = {}
  BY EmptyShape DEF CancelOnly, SCall, Todo
<1>z. task # Null => task \in Tasks /\ task <= created
  BY BoundAssumption DEF SInv, STypes, TypeOK, Tasks, Null
<1> DEFINE R == {Do("reset"), Do("resetRest"), Do("resetSchedule"), Return}
           X == IF m = "start" THEN {Do("start"), Return}
                ELSE IF m = "reset" THEN R
                ELSE R \cup {Do("start")} \cup (IF task # Null THEN {CancelTask(task), Do("abandon")} ELSE {})
<1>d. /\ Do("reset") \in Statements /\ Do("resetRest") \in Statements /\ Do("resetSchedule") \in Statements
      /\ Do("start") \in Statements /\ Return \in Statements /\ Do("abandon") \in Statements
  BY AreStatements DEF Simple
<1>j. /\ todo' = SBody(m) \o <<Return>> \o <<>>
  BY <1>0 DEF SCall
<1>t. Shape(todo') /\ Todo' = X
  <2>1. CASE m = "start"
    <3>1. SBody(m) = <<Do("start")>>
      BY <2>1 DEF SBody, Body
    <3>2. <<Do("start")>> \o <<Return>> \in Seq(Statements) /\ <<Do("start")>> \o <<Return>> = <<Do("start"), Return>>
      BY <1>d, Tuples
    <3>3. todo' = <<Do("start"), Return>>
      BY <1>j, <3>1, <3>2
    <3>4. Front(Do("resetRest"), Do("reset")) /\ Front(Do("start"), Do("resetRest"))
      BY FieldsAre DEF Front
    <3>5. /\ Do("start") # Return /\ Do("resetRest") # Return /\ Do("reset") # Return
          /\ Do("start") # OwnTo("SCHEDULED") /\ Do("resetRest") # OwnTo("SCHEDULED") /\ Front(Return, Do("start"))
      BY FieldsAre DEF Front
    <3>6. Shape(<<Do("start"), Return>>) /\ Elems(<<Do("start"), Return>>) = {Do("start"), Return}
      <4>1. Shape(<<Return>>) /\ Elems(<<Return>>) = {Return} /\ LastReturn(<<Return>>) /\ <<Return>> # <<>>
        BY ReturnShape
      <4>2. Shape(Cons(Do("start"), <<Return>>)) /\ Elems(Cons(Do("start"), <<Return>>)) = {Do("start"), Return}
        BY <1>d, <3>5, <4>1, PushCons
      <4> QED BY <3>2, <4>2 DEF Cons
    <3> QED BY <2>1, <3>3, <3>6 DEF Todo
  <2>2. ASSUME NEW p, p = <<>> \/ p = <<Do("start")>>
        PROVE  LET r == ((SuperReset \o <<Do("resetSchedule")>>) \o p) \o <<Return>>
               IN  /\ r = Cons(Do("reset"), Cons(Do("resetRest"), Cons(Do("resetSchedule"), p \o <<Return>>)))
                   /\ Shape(r) /\ r # <<>> /\ LastReturn(r)
                   /\ Elems(r) = R \cup (IF p = <<>> THEN {} ELSE {Do("start")})
    <3>1. p \in Seq(Statements) /\ <<Return>> \in Seq(Statements) /\ <<Do("resetSchedule")>> \in Seq(Statements)
      <4>1. <<>> \in Seq(Statements) /\ \A a \in Statements : <<a>> \in Seq(Statements)
        OBVIOUS
      <4> QED BY <1>d, <2>2, <4>1
    <3>2. SuperReset \in Seq(Statements)
      BY <1>d, Tuples DEF SuperReset
    <3> DEFINE q == p \o <<Return>>
               w == <<Do("resetSchedule")>> \o q
    <3>3. q \in Seq(Statements) /\ w \in Seq(Statements)
      BY <3>1, Regroup
    <3>4. ((SuperReset \o <<Do("resetSchedule")>>) \o p) \o <<Return>> = SuperReset \o w
      BY <3>1, <3>2, Regroup
    <3> HIDE DEF w
    <3>5. SuperReset \o w = Cons(Do("reset"), Cons(Do("resetRest"), w))
      BY <1>d, <3>3, PairJoin DEF SuperReset
    <3>6. ((SuperReset \o <<Do("resetSchedule")>>) \o p) \o <<Return>>
            = Cons(Do("reset"), Cons(Do("resetRest"), Cons(Do("resetSchedule"), p \o <<Return>>)))
      BY <3>4, <3>5 DEF w, Cons
    <3> QED BY <2>2, <3>6, ResetProgram
  <2>e. <<Do("start")>> # <<>>
    OBVIOUS
  <2>s. SuperReset \in Seq(Statements) /\ <<Do("resetSchedule")>> \in Seq(Statements) /\ <<Return>> \in Seq(Statements)
        /\ <<Do("start")>> \in Seq(Statements) /\ <<>> \in Seq(Statements)
    <3>1. <<>> \in Seq(Statements) /\ \A a \in Statements : <<a>> \in Seq(Statements)
      OBVIOUS
    <3> QED BY <1>d, <3>1, Tuples DEF SuperReset
  <2>3. CASE m = "reset"
    <3>1. SBody(m) = SuperReset \o <<Do("resetSchedule")>>
      BY <2>3 DEF SBody
    <3> DEFINE s == SuperReset \o <<Do("resetSchedule")>>
    <3>2. s \in Seq(Statements)
      BY <2>s, Regroup
    <3>3. todo' = s \o (<<Return>> \o <<>>) \/ todo' = (s \o <<Return>>) \o <<>>
      BY <1>j, <3>1
    <3> HIDE DEF s
    <3>4. s \o <<Return>> \in Seq(Statements)
      BY <2>s, <3>2, Regroup
    <3>5. todo' = (s \o <<>>) \o <<Return>>
      BY <2>s, <3>2, <3>3, <3>4, Regroup
    <3>6. Shape(todo') /\ Elems(todo') = R
      BY <2>2, <3>5 DEF s
    <3> QED BY <2>3, <3>6 DEF Todo
  <2>4. CASE m = "restart"
    <3> DEFINE a == <<Do("start")>>
               r == ((SuperReset \o <<Do("resetSchedule")>>) \o a) \o <<Return>>
               s == SuperReset \o <<Do("resetSchedule"), Do("start")>>
    <3>1. SBody(m) = (CancelAndLetGo \o SuperReset) \o <<Do("resetSchedule"), Do("start")>>
      BY <2>4 DEF SBody
    <3>2. <<Do("resetSchedule"), Do("start")>> = <<Do("resetSchedule")>> \o <<Do("start")>>
          /\ <<Do("resetSchedule"), Do("start")>> \in Seq(Statements)
      BY <1>d, Tuples
    <3>3. s = (SuperReset \o <<Do("resetSchedule")>>) \o a /\ s \in Seq(Statements)
      BY <2>s, <3>2, Regroup
    <3>r. r = s \o <<Return>>
      BY <3>3
    <3>4. /\ Shape(r) /\ r # <<>> /\ LastReturn(r)
          /\ Elems(r) = R \cup {Do("start")}
      BY <2>2, <2>e
    <3>5. r \in Seq(Statements)
      BY <3>4 DEF Shape
    <3>6. CancelAndLetGo \in Seq(Statements)
      <4>1. task # Null => CancelTask(task) \in Statements
        BY <1>z, AreStatements
      <4>2. task # Null => <<CancelTask(task), Do("abandon")>> \in Seq(Statements)
        BY <1>d, <4>1, Tuples
      <4> QED BY <2>s, <4>2 DEF CancelAndLetGo, CancelTask
    <3>7. SBody(m) = CancelAndLetGo \o s /\ SBody(m) \in Seq(Statements)
      BY <2>s, <3>1, <3>2, <3>6, Regroup
    <3>8. todo' = CancelAndLetGo \o r
      <4>1. todo' = SBody(m) \o (<<Return>> \o <<>>) \/ todo' = (SBody(m) \o <<Return>>) \o <<>>
        BY <1>j
      <4>2. SBody(m) \o <<Return>> \in Seq(Statements)
        BY <2>s, <3>7, Regroup
      <4>3. todo' = SBody(m) \o <<Return>>
        BY <2>s, <4>1, <4>2, Regroup
      <4>5. s \in Seq(Statements) /\ <<Return>> \in Seq(Statements)
        BY <2>s, <3>3
      <4> HIDE DEF s, r
      <4>4. (CancelAndLetGo \o s) \o <<Return>> = CancelAndLetGo \o (s \o <<Return>>)
        BY <3>6, <4>5, Regroup
      <4> QED BY <3>r, <3>7, <4>3, <4>4
    <3> HIDE DEF r
    <3>9. CASE task = Null
      <4>1. todo' = r
        BY <3>5, <3>8, <3>9, Regroup DEF CancelAndLetGo
      <4> QED BY <2>4, <3>4, <3>9, <4>1 DEF Todo
    <3>10. CASE task # Null
      <4>1. CancelTask(task) \in Statements
        BY <1>z, <3>10, AreStatements
      <4>2. todo' = <<CancelTask(task), Do("abandon")>> \o r
        BY <3>8, <3>10 DEF CancelAndLetGo, CancelTask
      <4>3. todo' = Cons(CancelTask(task), Cons(Do("abandon"), r))
        BY <1>d, <3>5, <4>1, <4>2, PairJoin
      <4>4. Elems(r) = {Do("reset"), Do("resetRest"), Do("resetSchedule"), Return, Do("start")}
        BY <3>4
      <4>5. Shape(todo') /\ Elems(todo') = {CancelTask(task), Do("abandon")} \cup Elems(r)
        BY <1>z, <3>4, <3>10, <4>3, <4>4, RestartProgram
      <4> QED BY <2>4, <3>10, <4>4, <4>5 DEF Todo
    <3> QED BY <3>9, <3>10
  <2> QED BY <2>1, <2>3, <2>4
<1>x. /\ \A s \in X : s \in R \/ s = Do("start") \/ s = Do("abandon") \/ (task # Null /\ s = CancelTask(task))
      /\ Do("reset") \in X <=> m # "start"
      /\ Do("resetSchedule") \in X <=> m # "start"
      /\ Do("start") \in X => m # "reset"
      /\ Do("abandon") \in X => m = "restart"
      /\ \A j : CancelTask(j) \in X => m = "restart"
  BY FieldsAre
<1> HIDE DEF X
<1>k. \A s \in Todo' : s.k <= created
  <2>1. 0 <= created
    BY BoundAssumption DEF SInv, STypes, TypeOK
  <2>2. /\ \A s \in R : s.k = 0
        /\ Do("start").k = 0 /\ Do("abandon").k = 0 /\ CancelTask(task).k = task
    BY FieldsAre
  <2> QED BY <1>t, <1>x, <1>z, <2>1, <2>2
<1>u. STypes' /\ PeriodInv' /\ AllSame /\ ScheduleSame /\ ownState' = ownState
  BY <1>t, <1>k, CallFrame
<1>m. /\ \A j, v : SetState(j, v) \notin Todo'
      /\ \A j : SetValue(j) \notin Todo' /\ ExecuteNow(j) \notin Todo'
      /\ \A v : HookOf(v) \notin Todo' /\ OwnTo(v) \notin Todo'
      /\ Do("execute") \notin Todo' /\ Do("schedule") \notin Todo' /\ Do("clearDelay") \notin Todo'
      /\ Do("assertNotFresh") \notin Todo' /\ Do("cancelSchedule") \notin Todo'
      /\ Do("reset") \in Todo' <=> Do("resetSchedule") \in Todo'
      /\ Do("abandon") \in Todo' => Do("resetSchedule") \in Todo'
  BY <1>t, <1>x, FieldsAre
<1>f. Do("start") \in Todo' => ~OffFxStart
  BY <1>0, <1>t, <1>x DEF OneStarter
<1>g. Quietly => Do("abandon") \notin Todo' /\ \A j : CancelTask(j) \notin Todo'
  BY <1>0, <1>t, <1>x DEF Quietly
<1>1. WorkInv' /\ RunnableOrder'
  BY <1>0, <1>u, <1>m DEF SInv, WorkInv, RunnableOrder, Queued, Taking, EndsOf, AllSame
<1>2. OwnInv' /\ ExecInv'
  BY <1>0, <1>u, <1>m DEF SInv, OwnInv, ExecInv, AllSame
<1>4. OffInv'
  BY <1>0, <1>u, <1>m, <1>f DEF SInv, OffInv, AllSame, ScheduleSame
<1>5. StageInv' /\ FailInv'
  BY <1>0, <1>u, <1>m DEF SInv, StageInv, FailInv, Exhausted, AllSame, ScheduleSame
<1>6. StrandInv'
  BY <1>0, <1>u, <1>m DEF SInv, StrandInv, Awaited, Armed, AllSame, ScheduleSame
<1>7. AssertInv'
  <2>1. Dead => Dead'
    BY <1>u, <1>m, <1>f DEF Dead, AllSame
  <2> QED BY <1>0, <1>u, <1>m, <1>g, <2>1 DEF SInv, AssertInv, AllSame, ScheduleSame
<1> QED BY <1>u, <1>t, <1>1, <1>2, <1>4, <1>5, <1>6, <1>7 DEF SInv, Shape

\* Any call.
LEMMA CallKeeps ==
  ASSUME CancelOnly, OneStarter, SInv, NEW m \in Methods, SCall(m)
  PROVE  SInv'
BY CancelCallKeeps, OtherCallKeeps DEF Methods

-----------------------------------------------------------------------------
\* A Runnable joins the queue.
LEMMA QueueGains ==
  ASSUME SInv, NEW e \in SRunnables, queue' = Append(queue, e)
  PROVE  /\ queue' \in Seq(SRunnables)
         /\ \A x : Has(queue', x) <=> Has(queue, x) \/ e = x
         /\ \A x : Single(queue, x) /\ (e = x => ~Has(queue, x)) => Single(queue', x)
         /\ \A x, y : Before(queue, x, y) /\ x # y /\ (e = x => ~Has(queue, y)) => Before(queue', x, y)
<1>1. queue \in Seq(SRunnables)
  BY DEF SInv, STypes
<1> QED BY <1>1, AppendHas, AppendAt

\* Its elements.
LEMMA AreRunnables ==
  /\ OffFxRunnable \in SRunnables
  /\ \A k \in Tasks : /\ StartRunnable(k) \in SRunnables /\ SucceedRunnable(k) \in SRunnables
                      /\ FailRunnable(k) \in SRunnables /\ TimerRunnable(k) \in SRunnables
BY DEF SRunnables

\* The first start(), off the FX thread.
LEMMA StartOffFxKeeps ==
  ASSUME SInv, StartOffFx, UNCHANGED <<schVars, now>>
  PROVE  SInv'
<1>0. created = 0 /\ queue = <<>> /\ timers = {} /\ ~startedOnce /\ OffFxStart
  BY DEF SInv, OffInv, StartOffFx
<1>m. Todo = {} /\ Todo' = {} /\ todo' = todo
  BY EmptyShape DEF StartOffFx, Todo
<1>u. /\ created' = 1 /\ task' = 1 /\ stateBound' = 1 /\ restBound' = 1 /\ startedOnce' = TRUE
      /\ fut' = fut /\ wpc' = wpc /\ tstate' = tstate /\ trunning' = trunning /\ tvalue' = tvalue
      /\ ownState' = ownState /\ ownRunning' = ownRunning /\ ownValue' = ownValue /\ calls' = calls
      /\ ScheduleSame /\ HistorySame /\ 1 \in Tasks
  BY <1>0, BoundAssumption DEF StartOffFx, CreateAndBind, ScheduleSame, HistorySame, schVars, runVars, timerVars, Tasks
<1>n. task = 0
  BY <1>0 DEF SInv, STypes, TypeOK
<1>w. \A k \in Tasks : wpc[k] = "new" /\ tstate[k] = "READY" /\ fut[k] = "NEW"
  BY <1>0 DEF SInv, WorkInv, Tasks
<1>q. /\ queue' \in Seq(SRunnables) /\ (\A x : Has(queue', x) <=> OffFxRunnable = x)
      /\ (\A x : Single(queue', x))
      /\ (\A x, y : x # y => Before(queue', x, y))
  <2>1. queue' = Append(queue, OffFxRunnable)
    BY DEF StartOffFx
  <2>2. \A x, y : ~Has(queue, x) /\ Single(queue, x) /\ Before(queue, x, y)
    BY <1>0, EmptyHas
  <2> QED BY <2>1, <2>2, AreRunnables, QueueGains
<1>d. \A k \in Tasks : /\ ~Has(queue', StartRunnable(k)) /\ ~Has(queue', SucceedRunnable(k))
                       /\ ~Has(queue', FailRunnable(k)) /\ ~Has(queue', TimerRunnable(k))
  BY <1>q, RunnablesDiffer, TimerRunnableDiffers
<1>1. STypes'
  <2>1. 0 .. created \subseteq 0 .. 1 /\ 1 \in 0 .. 1 /\ 1 \in 0 .. MaxTasks
    BY <1>0, BoundAssumption
  <2>2. TypeOK'
    BY <1>u, <2>1 DEF SInv, STypes, TypeOK
  <2>3. TimerTypes'
    BY <1>0, <1>u, <2>1 DEF SInv, STypes, TimerTypes, ScheduleSame, HistorySame
  <2> QED BY <1>u, <1>m, <1>q, <1>d, <2>2, <2>3 DEF SInv, STypes
<1>2. WorkInv'
  BY <1>u, <1>m, <1>w, <1>d DEF WorkInv
<1>3. RunnableOrder'
  BY <1>u, <1>m, <1>w, <1>q, <1>d, RunnablesDiffer DEF RunnableOrder, Queued, Taking, EndsOf
<1>4. OwnInv' /\ ExecInv' /\ StrandInv'
  BY <1>u, <1>m, <1>w DEF OwnInv, ExecInv, StrandInv, Null
<1>5. OffInv'
  BY <1>0, <1>u, <1>m, <1>w, <1>q, <1>d DEF OffInv, ScheduleSame
<1>6. StageInv' /\ FailInv' /\ PeriodInv'
  BY <1>u, <1>m, <1>w, <1>n DEF SInv, StageInv, FailInv, Exhausted, PeriodInv, ScheduleSame, Null
<1>7. AssertInv'
  <2>1. Quietly => delayTask = 0 /\ broken = {}
    BY <1>0, <1>n DEF SInv, AssertInv, Dead, Null
  <2> QED BY <1>u, <1>m, <2>1 DEF AssertInv, ScheduleSame, Null
<1> QED BY <1>m, <1>1, <1>2, <1>3, <1>4, <1>5, <1>6, <1>7 DEF SInv

-----------------------------------------------------------------------------
\* A step of the pool thread of a task that the executor has.
PoolSame ==
  /\ tstate' = tstate /\ created' = created /\ task' = task /\ stateBound' = stateBound
  /\ startedOnce' = startedOnce /\ ownState' = ownState /\ calls' = calls /\ todo' = todo
  /\ RestSame /\ ScheduleSame /\ HistorySame

\* It disturbs nothing but what WorkInv and RunnableOrder say.
LEMMA PoolFrame ==
  ASSUME SInv, NEW k \in Tasks, PoolSame,
         wpc[k] # "new", wpc'[k] # "new",
         \A j \in Tasks : j # k => wpc'[j] = wpc[j] /\ fut'[j] = fut[j],
         fut'[k] = "NEW" => fut[k] = "NEW",
         fut' \in [Tasks -> {"NEW", "NORMAL", "EXCEPTIONAL", "CANCELLED"}],
         wpc' \in [Tasks -> {"new", "queued", "call", "set", "setException", "end"}],
         queue' \in Seq(SRunnables), Single(queue', OffFxRunnable),
         Has(queue', OffFxRunnable) <=> Has(queue, OffFxRunnable),
         \A j \in Tasks : Has(queue', TimerRunnable(j)) <=> Has(queue, TimerRunnable(j)),
         WorkInv', RunnableOrder'
  PROVE  SInv'
<1>u. /\ tstate' = tstate /\ created' = created /\ task' = task /\ stateBound' = stateBound
      /\ startedOnce' = startedOnce /\ ownState' = ownState /\ calls' = calls /\ todo' = todo
      /\ RestSame /\ ScheduleSame /\ HistorySame
  BY DEF PoolSame
<1>t. Todo' = Todo
  BY <1>u DEF Todo, Elems
<1>z. task # Null => task \in Tasks
  BY BoundAssumption DEF SInv, STypes, TypeOK, Tasks, Null
<1>w. \A j \in Tasks : (wpc'[j] = "new" <=> wpc[j] = "new") /\ (fut'[j] = "NEW" => fut[j] = "NEW")
  OBVIOUS
<1>s. startedOnce
  <2>1. ~(k > created)
    BY DEF SInv, WorkInv
  <2>2. created # 0
    BY <2>1 DEF Tasks
  <2> QED BY <2>2 DEF SInv, OffInv
<1>1. STypes'
  <2>1. TypeOK'
    BY <1>u DEF SInv, STypes, TypeOK, RestSame
  <2> QED BY <1>u, <1>t, <2>1, TimerTypesKept DEF SInv, STypes
<1>2. OwnInv' /\ PeriodInv'
  BY <1>u, <1>t DEF SInv, OwnInv, PeriodInv, ScheduleSame
<1>3. ExecInv'
  BY <1>u, <1>t, <1>w, <1>z DEF SInv, ExecInv
<1>4. OffInv'
  BY <1>u, <1>t, <1>w, <1>s DEF SInv, OffInv, ScheduleSame
<1>5. StageInv' /\ FailInv'
  BY <1>u, <1>t, <1>w, <1>z DEF SInv, StageInv, FailInv, Exhausted, ScheduleSame
<1>6. StrandInv'
  BY <1>u, <1>t, <1>w, <1>z DEF SInv, StrandInv, Awaited, Armed, ScheduleSame
<1>7. AssertInv'
  <2>1. Dead => Dead'
    BY <1>u, <1>t DEF Dead
  <2>2. Do("execute") \in Todo /\ task # Null => task # k
    BY DEF SInv, ExecInv
  <2> QED BY <1>u, <1>t, <1>w, <1>z, <2>1, <2>2 DEF SInv, AssertInv, ScheduleSame
<1> QED BY <1>u, <1>1, <1>2, <1>3, <1>4, <1>5, <1>6, <1>7 DEF SInv

\* FutureTask.run enters call(), or finds the task cancelled.
LEMMA TaskRunKeeps ==
  ASSUME SInv, NEW k \in Tasks, TaskRun(k), UNCHANGED <<schVars, now>>
  PROVE  SInv'
<1>u. PoolSame /\ fut' = fut
  BY DEF TaskRun, PoolSame, RestSame, ScheduleSame, HistorySame, svVars, bindVars, schVars, runVars, timerVars
<1>t. Todo' = Todo /\ tstate' = tstate /\ created' = created
  BY <1>u DEF Todo, Elems, PoolSame
<1>y. /\ fut \in [Tasks -> {"NEW", "NORMAL", "EXCEPTIONAL", "CANCELLED"}]
      /\ wpc \in [Tasks -> {"new", "queued", "call", "set", "setException", "end"}]
      /\ queue \in Seq(SRunnables)
  BY DEF SInv, STypes, TypeOK
<1>i. WorkInv /\ RunnableOrder /\ Single(queue, OffFxRunnable)
  BY DEF SInv, OffInv
<1>k. /\ wpc[k] = "queued" /\ ~Has(queue, StartRunnable(k)) /\ ~Taking(k) /\ ~EndsOf(k)
      /\ tstate[k] \notin {"SUCCEEDED", "FAILED"} /\ SetState(k, "SCHEDULED") \notin Todo
      /\ ~Has(queue, SucceedRunnable(k)) /\ ~Has(queue, FailRunnable(k)) /\ ~(k > created)
  <2>1. wpc[k] = "queued"
    BY DEF TaskRun
  <2>2. /\ ~Has(queue, StartRunnable(k)) /\ SetState(k, "SCHEDULED") \notin Todo
        /\ SetState(k, "RUNNING") \notin Todo /\ ~(k > created)
    BY <1>i, <2>1 DEF WorkInv
  <2> QED BY <1>i, <2>1, <2>2 DEF RunnableOrder, Taking
<1>1. CASE fut[k] = "NEW"
  <2>1. wpc' = [wpc EXCEPT ![k] = "call"] /\ queue' = Append(queue, StartRunnable(k))
    BY <1>1 DEF TaskRun
  <2>w. /\ wpc'[k] = "call" /\ (\A j \in Tasks : j # k => wpc'[j] = wpc[j])
        /\ wpc' \in [Tasks -> {"new", "queued", "call", "set", "setException", "end"}]
    BY <2>1, <1>y
  <2>q. /\ queue' \in Seq(SRunnables)
        /\ \A x : Has(queue', x) <=> Has(queue, x) \/ StartRunnable(k) = x
        /\ \A x : Single(queue, x) /\ (StartRunnable(k) = x => ~Has(queue, x)) => Single(queue', x)
        /\ \A x, y : Before(queue, x, y) /\ x # y /\ (StartRunnable(k) = x => ~Has(queue, y)) => Before(queue', x, y)
    BY <2>1, AreRunnables, QueueGains
  <2>d. /\ \A j \in Tasks : /\ Has(queue', StartRunnable(j)) <=> Has(queue, StartRunnable(j)) \/ j = k
                            /\ Has(queue', SucceedRunnable(j)) <=> Has(queue, SucceedRunnable(j))
                            /\ Has(queue', FailRunnable(j)) <=> Has(queue, FailRunnable(j))
                            /\ Has(queue', TimerRunnable(j)) <=> Has(queue, TimerRunnable(j))
        /\ Has(queue', OffFxRunnable) <=> Has(queue, OffFxRunnable)
        /\ Single(queue', OffFxRunnable)
    BY <1>i, <2>q, RunnablesDiffer, TimerRunnableDiffers
  <2>2. WorkInv'
    BY <1>i, <1>t, <1>u, <1>k, <2>w, <2>d DEF WorkInv
  <2>3. RunnableOrder'
    <3> SUFFICES ASSUME NEW j \in Tasks PROVE RunnableOrder!(j)'
      BY DEF RunnableOrder
    <3>1. /\ (Single(queue, StartRunnable(j)) /\ Single(queue, SucceedRunnable(j)) /\ Single(queue, FailRunnable(j)))'
          /\ (Before(queue, StartRunnable(j), SucceedRunnable(j)) /\ Before(queue, StartRunnable(j), FailRunnable(j)))'
      BY <1>i, <1>k, <2>q, RunnablesDiffer DEF RunnableOrder
    <3>2. CASE j = k
      BY <1>i, <1>t, <1>k, <2>w, <2>d, <3>1, <3>2 DEF RunnableOrder, Queued, Taking, EndsOf
    <3>3. CASE j # k
      BY <1>i, <1>t, <2>w, <2>d, <3>1, <3>3 DEF RunnableOrder, Queued, Taking, EndsOf
    <3> QED BY <3>2, <3>3
  <2> QED BY <1>u, <1>y, <1>k, <2>w, <2>q, <2>d, <2>2, <2>3, PoolFrame
<1>2. CASE fut[k] # "NEW"
  <2>1. wpc' = [wpc EXCEPT ![k] = "end"] /\ queue' = queue
    BY <1>2 DEF TaskRun
  <2>w. /\ wpc'[k] = "end" /\ (\A j \in Tasks : j # k => wpc'[j] = wpc[j])
        /\ wpc' \in [Tasks -> {"new", "queued", "call", "set", "setException", "end"}]
    BY <2>1, <1>y
  <2>2. WorkInv'
    BY <1>i, <1>t, <1>u, <1>k, <2>1, <2>w DEF WorkInv
  <2>3. RunnableOrder'
    <3> SUFFICES ASSUME NEW j \in Tasks PROVE RunnableOrder!(j)'
      BY DEF RunnableOrder
    <3>2. CASE j = k
      BY <1>i, <1>t, <1>k, <2>1, <2>w, <3>2 DEF RunnableOrder, Queued, Taking, EndsOf
    <3>3. CASE j # k
      BY <1>i, <1>t, <2>1, <2>w, <3>3 DEF RunnableOrder, Queued, Taking, EndsOf
    <3> QED BY <3>2, <3>3
  <2> QED BY <1>u, <1>y, <1>i, <1>k, <2>1, <2>w, <2>2, <2>3, PoolFrame
<1> QED BY <1>1, <1>2

\* call() returns or throws.
LEMMA CallEndsKeeps ==
  ASSUME SInv, NEW k \in Tasks, CallEnds(k), UNCHANGED <<schVars, now>>
  PROVE  SInv'
<1>u. PoolSame /\ fut' = fut
  BY DEF CallEnds, PoolSame, RestSame, ScheduleSame, HistorySame, svVars, bindVars, schVars, runVars, timerVars
<1>t. Todo' = Todo /\ tstate' = tstate /\ created' = created
  BY <1>u DEF Todo, Elems, PoolSame
<1>y. /\ fut \in [Tasks -> {"NEW", "NORMAL", "EXCEPTIONAL", "CANCELLED"}]
      /\ wpc \in [Tasks -> {"new", "queued", "call", "set", "setException", "end"}]
      /\ queue \in Seq(SRunnables)
  BY DEF SInv, STypes, TypeOK
<1>i. WorkInv /\ RunnableOrder /\ Single(queue, OffFxRunnable)
  BY DEF SInv, OffInv
<1>k. /\ wpc[k] = "call" /\ ~EndsOf(k) /\ tstate[k] \notin {"SUCCEEDED", "FAILED"}
      /\ ~Has(queue, SucceedRunnable(k)) /\ ~Has(queue, FailRunnable(k)) /\ ~(k > created)
  <2>1. wpc[k] = "call"
    BY DEF CallEnds
  <2> QED BY <1>i, <2>1 DEF WorkInv, RunnableOrder
<1>e. PICK e \in {SucceedRunnable(k), FailRunnable(k)} : queue' = Append(queue, e)
  BY DEF CallEnds
<1>w. /\ wpc'[k] \in {"set", "setException"} /\ (\A j \in Tasks : j # k => wpc'[j] = wpc[j])
      /\ wpc' \in [Tasks -> {"new", "queued", "call", "set", "setException", "end"}]
  BY <1>y DEF CallEnds
<1>q. /\ queue' \in Seq(SRunnables)
      /\ \A x : Has(queue', x) <=> Has(queue, x) \/ e = x
      /\ \A x : Single(queue, x) /\ (e = x => ~Has(queue, x)) => Single(queue', x)
      /\ \A x, y : Before(queue, x, y) /\ x # y /\ (e = x => ~Has(queue, y)) => Before(queue', x, y)
  <2>1. e \in SRunnables
    BY AreRunnables
  <2> QED BY <1>e, <2>1, QueueGains
<1>d. /\ \A j \in Tasks : /\ Has(queue', StartRunnable(j)) <=> Has(queue, StartRunnable(j))
                          /\ Has(queue', SucceedRunnable(j)) <=> Has(queue, SucceedRunnable(j)) \/ (j = k /\ e = SucceedRunnable(k))
                          /\ Has(queue', FailRunnable(j)) <=> Has(queue, FailRunnable(j)) \/ (j = k /\ e = FailRunnable(k))
                          /\ Has(queue', TimerRunnable(j)) <=> Has(queue, TimerRunnable(j))
      /\ Has(queue', OffFxRunnable) <=> Has(queue, OffFxRunnable)
      /\ Single(queue', OffFxRunnable)
  BY <1>i, <1>q, RunnablesDiffer, TimerRunnableDiffers
<1>2. WorkInv'
  BY <1>i, <1>t, <1>u, <1>k, <1>w, <1>d DEF WorkInv
<1>3. RunnableOrder'
  <2> SUFFICES ASSUME NEW j \in Tasks PROVE RunnableOrder!(j)'
    BY DEF RunnableOrder
  <2>1. /\ (Single(queue, StartRunnable(j)) /\ Single(queue, SucceedRunnable(j)) /\ Single(queue, FailRunnable(j)))'
        /\ (Before(queue, StartRunnable(j), SucceedRunnable(j)) /\ Before(queue, StartRunnable(j), FailRunnable(j)))'
    BY <1>i, <1>k, <1>q, RunnablesDiffer DEF RunnableOrder
  <2>2. CASE j = k
    <3>1. ~(Has(queue', SucceedRunnable(k)) /\ Has(queue', FailRunnable(k)))
      BY <1>k, <1>d, RunnablesDiffer
    <3> QED BY <1>i, <1>t, <1>k, <1>w, <1>d, <2>1, <2>2, <3>1 DEF RunnableOrder, Queued, Taking, EndsOf
  <2>3. CASE j # k
    BY <1>i, <1>t, <1>w, <1>d, <2>1, <2>3 DEF RunnableOrder, Queued, Taking, EndsOf
  <2> QED BY <2>2, <2>3
<1> QED BY <1>u, <1>y, <1>k, <1>w, <1>q, <1>d, <1>2, <1>3, PoolFrame

\* FutureTask.set or setException.
LEMMA FutureDoneKeeps ==
  ASSUME SInv, NEW k \in Tasks, FutureDone(k), UNCHANGED <<schVars, now>>
  PROVE  SInv'
<1>u. PoolSame /\ queue' = queue
  BY DEF FutureDone, PoolSame, RestSame, ScheduleSame, HistorySame, svVars, bindVars, schVars, runVars, timerVars
<1>t. Todo' = Todo /\ tstate' = tstate /\ created' = created
  BY <1>u DEF Todo, Elems, PoolSame
<1>y. /\ fut \in [Tasks -> {"NEW", "NORMAL", "EXCEPTIONAL", "CANCELLED"}]
      /\ wpc \in [Tasks -> {"new", "queued", "call", "set", "setException", "end"}]
      /\ queue \in Seq(SRunnables)
  BY DEF SInv, STypes, TypeOK
<1>i. WorkInv /\ RunnableOrder /\ Single(queue, OffFxRunnable)
  BY DEF SInv, OffInv
<1>k. wpc[k] \in {"set", "setException"} /\ ~(k > created)
  <2>1. wpc[k] \in {"set", "setException"}
    BY DEF FutureDone
  <2> QED BY <1>i, <2>1 DEF WorkInv
<1>w. /\ wpc'[k] = "end" /\ (\A j \in Tasks : j # k => wpc'[j] = wpc[j] /\ fut'[j] = fut[j])
      /\ wpc' \in [Tasks -> {"new", "queued", "call", "set", "setException", "end"}]
  BY <1>y DEF FutureDone
<1>f. /\ fut' \in [Tasks -> {"NEW", "NORMAL", "EXCEPTIONAL", "CANCELLED"}]
      /\ fut'[k] # "NEW" /\ (fut[k] # "NEW" => fut'[k] = fut[k])
      /\ fut[k] = "NEW" => fut'[k] \in {"NORMAL", "EXCEPTIONAL"}
  BY <1>y DEF FutureDone
<1>2. WorkInv'
  <2> SUFFICES ASSUME NEW j \in Tasks PROVE WorkInv!(j)'
    BY DEF WorkInv
  <2>1. CASE j = k
    BY <1>i, <1>t, <1>u, <1>k, <1>w, <1>f, <2>1 DEF WorkInv
  <2>2. CASE j # k
    BY <1>i, <1>t, <1>u, <1>w, <2>2 DEF WorkInv
  <2> QED BY <2>1, <2>2
<1>3. RunnableOrder'
  <2> SUFFICES ASSUME NEW j \in Tasks PROVE RunnableOrder!(j)'
    BY DEF RunnableOrder
  <2>1. CASE j = k
    BY <1>i, <1>t, <1>u, <1>k, <1>w, <2>1 DEF RunnableOrder, Queued, Taking, EndsOf
  <2>2. CASE j # k
    BY <1>i, <1>t, <1>u, <1>w, <2>2 DEF RunnableOrder, Queued, Taking, EndsOf
  <2> QED BY <2>1, <2>2
<1> QED BY <1>u, <1>y, <1>i, <1>k, <1>w, <1>f, <1>2, <1>3, PoolFrame

-----------------------------------------------------------------------------
\* A TimerTask hands over its Runnable.
LEMMA TimerFiresKeeps ==
  ASSUME SInv, NEW t \in timers, TimerFires(t)
  PROVE  SInv'
<1>u. /\ fut' = fut /\ wpc' = wpc /\ tstate' = tstate /\ created' = created
      /\ task' = task /\ stateBound' = stateBound /\ startedOnce' = startedOnce
      /\ RestSame /\ HistorySame /\ ownState' = ownState /\ calls' = calls /\ todo' = todo
      /\ freshStart' = freshStart /\ currentFailureCount' = currentFailureCount
      /\ delayTask' = delayTask /\ timerIds' = timerIds
      /\ cumulativePeriod' = cumulativePeriod /\ broken' = broken /\ timers' = timers \ {t}
  BY DEF TimerFires, RestSame, HistorySame, taskVars, svVars, bindVars, runVars
<1>t. Todo' = Todo
  BY <1>u DEF Todo, Elems
<1>k. t.k \in Tasks /\ t.k <= created
  <2>1. t.k \in 1 .. created /\ created \in 0 .. MaxTasks
    BY DEF SInv, STypes, TimerTypes, TypeOK
  <2> QED BY <2>1, BoundAssumption DEF Tasks
<1>z. task # Null => task \in Tasks
  BY BoundAssumption DEF SInv, STypes, TypeOK, Tasks, Null
<1>q. /\ queue' \in Seq(SRunnables)
      /\ \A x : Has(queue', x) <=> Has(queue, x) \/ TimerRunnable(t.k) = x
      /\ \A x : Single(queue, x) /\ (TimerRunnable(t.k) = x => ~Has(queue, x)) => Single(queue', x)
      /\ \A x, y : Before(queue, x, y) /\ x # y /\ (TimerRunnable(t.k) = x => ~Has(queue, y)) => Before(queue', x, y)
  <2>1. queue' = Append(queue, TimerRunnable(t.k))
    BY DEF TimerFires, TimerRunnable
  <2> QED BY <1>k, <2>1, AreRunnables, QueueGains
<1>i. /\ WorkInv /\ RunnableOrder /\ Single(queue, OffFxRunnable) /\ ~Has(queue, OffFxRunnable)
      /\ Do("schedule") \notin Todo /\ startedOnce
  BY DEF SInv, OffInv
<1>d. /\ \A j \in Tasks : /\ Has(queue', StartRunnable(j)) <=> Has(queue, StartRunnable(j))
                          /\ Has(queue', SucceedRunnable(j)) <=> Has(queue, SucceedRunnable(j))
                          /\ Has(queue', FailRunnable(j)) <=> Has(queue, FailRunnable(j))
                          /\ Has(queue', TimerRunnable(j)) <=> Has(queue, TimerRunnable(j)) \/ j = t.k
      /\ ~Has(queue', OffFxRunnable) /\ Single(queue', OffFxRunnable)
  <2>1. \A j \in Tasks : TimerRunnable(t.k) # StartRunnable(j) /\ TimerRunnable(t.k) # SucceedRunnable(j)
                         /\ TimerRunnable(t.k) # FailRunnable(j) /\ (TimerRunnable(t.k) = TimerRunnable(j) <=> j = t.k)
    BY <1>k, TimerRunnableDiffers
  <2>2. TimerRunnable(t.k) # OffFxRunnable
    BY <1>k, TimerRunnableDiffers
  <2> QED BY <1>i, <1>q, <2>1, <2>2
<1>1. STypes'
  <2>1. TypeOK'
    BY <1>u DEF SInv, STypes, TypeOK, RestSame
  <2>2. TimerTypes'
    BY <1>u DEF SInv, STypes, TimerTypes, HistorySame
  <2>3. \A j \in Tasks : Has(queue', TimerRunnable(j)) => j <= created
    BY <1>d, <1>k DEF SInv, STypes
  <2> QED BY <1>u, <1>t, <1>q, <2>1, <2>2, <2>3 DEF SInv, STypes
<1>2. WorkInv'
  BY <1>i, <1>u, <1>t, <1>d DEF WorkInv
<1>3. RunnableOrder'
  <2> SUFFICES ASSUME NEW j \in Tasks PROVE RunnableOrder!(j)'
    BY DEF RunnableOrder
  <2>1. TimerRunnable(t.k) \notin {StartRunnable(j), SucceedRunnable(j), FailRunnable(j)}
    BY <1>k, TimerRunnableDiffers
  <2>2. /\ (Single(queue, StartRunnable(j)) /\ Single(queue, SucceedRunnable(j)) /\ Single(queue, FailRunnable(j)))'
        /\ (Before(queue, StartRunnable(j), SucceedRunnable(j)) /\ Before(queue, StartRunnable(j), FailRunnable(j)))'
    BY <1>i, <1>q, <2>1, RunnablesDiffer DEF RunnableOrder
  <2> QED BY <1>i, <1>u, <1>t, <1>d, <2>2 DEF RunnableOrder, Queued, Taking, EndsOf
<1>4. OwnInv' /\ ExecInv' /\ PeriodInv'
  BY <1>u, <1>t DEF SInv, OwnInv, ExecInv, PeriodInv
<1>5. OffInv'
  BY <1>u, <1>t, <1>i, <1>d DEF SInv, OffInv
<1>6. StageInv' /\ FailInv'
  BY <1>u, <1>t DEF SInv, StageInv, FailInv, Exhausted
<1>7. StrandInv'
  <2>1. \A j \in Tasks : Awaited(j) => Awaited(j)'
    BY <1>u, <1>t, <1>d DEF Awaited, Armed
  <2> QED BY <1>u, <1>t, <1>z, <2>1 DEF SInv, StrandInv
<1>8. AssertInv'
  <2>1. Dead => Dead'
    BY <1>u, <1>t, <1>d DEF Dead
  <2> QED BY <1>u, <1>t, <1>d, <2>1 DEF SInv, AssertInv
<1> QED BY <1>u, <1>1, <1>2, <1>3, <1>4, <1>5, <1>6, <1>7, <1>8 DEF SInv

-----------------------------------------------------------------------------
\* The invariant holds at first, ...
LEMMA SInitHolds ==
  ASSUME SInit
  PROVE  SInv
<1>u. /\ fut = [k \in Tasks |-> "NEW"] /\ wpc = [k \in Tasks |-> "new"]
      /\ tstate = [k \in Tasks |-> "READY"] /\ trunning = [k \in Tasks |-> FALSE]
      /\ tvalue = [k \in Tasks |-> FALSE] /\ created = 0
      /\ task = 0 /\ stateBound = 0 /\ ownState = "READY"
      /\ restBound = 0 /\ ownRunning = FALSE /\ ownValue = 0
      /\ startedOnce = FALSE /\ queue = <<>> /\ todo = <<>> /\ calls = 0
      /\ delayTask = 0 /\ timers = {} /\ timerIds = 0
      /\ freshStart = TRUE /\ stop = FALSE /\ currentFailureCount = 0
      /\ cumulativePeriod = 0 /\ lastValue = 0 /\ lastRunTime = 0
      /\ now = 0 /\ broken = {} /\ ranAt = -1
  BY DEF SInit, Init, Null
<1>m. Todo = {} /\ Shape(todo)
  BY <1>u, EmptyShape DEF Todo
<1>q. \A x, y : ~Has(queue, x) /\ Single(queue, x) /\ Before(queue, x, y)
  BY <1>u, EmptyHas
<1>w. \A k \in Tasks : wpc[k] = "new" /\ tstate[k] = "READY" /\ fut[k] = "NEW"
  BY <1>u
<1>1. STypes
  <2>1. TypeOK
    <3>1. "READY" \in States /\ FALSE \in BOOLEAN /\ 0 \in 0 .. 0 /\ 0 \in 0 .. MaxTasks /\ 0 \in 0 .. MaxCalls
      BY BoundAssumption DEF States
    <3>2. /\ fut \in [Tasks -> {"NEW", "NORMAL", "EXCEPTIONAL", "CANCELLED"}]
          /\ wpc \in [Tasks -> {"new", "queued", "call", "set", "setException", "end"}]
          /\ tstate \in [Tasks -> States] /\ trunning \in [Tasks -> BOOLEAN] /\ tvalue \in [Tasks -> BOOLEAN]
      BY <1>u, <3>1
    <3> QED BY <1>u, <3>1, <3>2 DEF TypeOK
  <2>2. TimerTypes
    <3>1. 0 \in Nat /\ 0 \in 0 .. 0 /\ 0 \in 0 .. MaxTime /\ -1 \in -1 .. 0 /\ TRUE \in BOOLEAN /\ FALSE \in BOOLEAN
      BY ScheduleAssumption
    <3> QED BY <1>u, <3>1 DEF TimerTypes
  <2>3. queue \in Seq(SRunnables)
    BY <1>u
  <2> QED BY <1>u, <1>m, <1>q, <2>1, <2>2, <2>3 DEF STypes, Shape
<1>2. WorkInv /\ RunnableOrder
  BY <1>m, <1>q, <1>w DEF WorkInv, RunnableOrder, Queued, Taking, EndsOf
<1>3. OwnInv /\ ExecInv /\ StrandInv /\ PeriodInv
  BY <1>u, <1>m DEF OwnInv, ExecInv, StrandInv, PeriodInv, Null
<1>4. OffInv
  BY <1>u, <1>m, <1>q DEF OffInv
<1>5. StageInv /\ FailInv
  BY <1>u, <1>m DEF StageInv, FailInv, Exhausted, Null
<1>6. AssertInv
  BY <1>u, <1>m, <1>q DEF AssertInv, Null
<1> QED BY <1>m, <1>1, <1>2, <1>3, <1>4, <1>5, <1>6 DEF SInv, Shape

\* ... and every step keeps it.
LEMMA SNextKeeps ==
  ASSUME CancelOnly, OneStarter, SInv, [SNext]_allVars
  PROVE  SInv'
<1>1. CASE UNCHANGED allVars \/ Tick \/ SIdle
  BY <1>1, StillKeeps DEF SIdle
<1>2. ASSUME FxCommon, UNCHANGED <<schVars, now>> PROVE SInv'
  BY <1>2, SetStateKeeps, SetRunningKeeps, SetValueKeeps, CancelKeeps, ScheduleKeeps, SetOwnKeeps, AbandonKeeps,
     ResetKeeps, ResetRestKeeps, StartKeeps, ReturnKeeps, TakeKeeps DEF FxCommon
<1>3. CASE \/ SExecute \/ SExecuteNow \/ ClearDelay \/ Succeeded \/ Failed \/ OtherHook
           \/ AssertNotFresh \/ ResetSchedule \/ CancelSchedule
  BY <1>3, ExecuteKeeps, ExecuteNowKeeps, ClearDelayKeeps, SucceededKeeps, FailedKeeps, OtherHookKeeps,
     AssertNotFreshKeeps, ResetScheduleKeeps, CancelScheduleKeeps
<1>4. ASSUME NEW m \in Methods, SCall(m) PROVE SInv'
  BY <1>4, CallKeeps
<1>5. ASSUME StartOffFx, UNCHANGED <<schVars, now>> PROVE SInv'
  BY <1>5, StartOffFxKeeps
<1>6. ASSUME NEW k \in Tasks, Pool(k), UNCHANGED <<schVars, now>> PROVE SInv'
  BY <1>6, TaskRunKeeps, CallEndsKeeps, FutureDoneKeeps DEF Pool
<1>7. ASSUME NEW t \in timers, TimerFires(t) PROVE SInv'
  BY <1>7, TimerFiresKeeps
<1> QED BY <1>1, <1>2, <1>3, <1>4, <1>5, <1>6, <1>7 DEF SNext, SFx

\* What the Service shows.
LEMMA StateShown ==
  ASSUME SInv
  PROVE  state = IF task = Null THEN ownState ELSE tstate[task]
BY DEF SInv, STypes, state

\* The three properties follow from the invariant.
LEMMA BudgetFollows == SInv => FailureBudget
<1> SUFFICES ASSUME SInv, todo = <<>>, currentFailureCount > 0
             PROVE  /\ state \in {"SCHEDULED", "RUNNING"} => currentFailureCount < MaximumFailureCount
                    /\ state = "FAILED" => ~RestartOnFailure \/ currentFailureCount >= MaximumFailureCount
  BY DEF FailureBudget
<1>m. Todo = {}
  BY EmptyShape DEF Todo
<1>n. currentFailureCount \in Nat /\ MaximumFailureCount \in Nat
  BY ScheduleAssumption DEF SInv, STypes, TimerTypes
<1>s. state = IF task = Null THEN ownState ELSE tstate[task]
  BY StateShown
<1>1. ASSUME state \in {"SCHEDULED", "RUNNING"} PROVE currentFailureCount < MaximumFailureCount
  <2>1. task # Null
    BY <1>1, <1>s, <1>m DEF SInv, STypes, OwnInv
  <2>2. ~Exhausted
    BY <1>1, <1>s, <2>1 DEF SInv, FailInv
  <2> QED BY <1>n, <2>2 DEF Exhausted
<1>2. ASSUME state = "FAILED" PROVE ~RestartOnFailure \/ currentFailureCount >= MaximumFailureCount
  <2>1. task # Null
    BY <1>2, <1>s DEF SInv, STypes
  <2>2. Exhausted
    BY <1>2, <1>s, <1>m, <2>1 DEF SInv, FailInv
  <2> QED BY <2>2 DEF Exhausted
<1> QED BY <1>1, <1>2

LEMMA NotStrandedFollows ==
  ASSUME Schedulable
  PROVE  SInv => NotStranded
<1> SUFFICES ASSUME SInv, todo = <<>>, queue = <<>>, state = "SCHEDULED", wpc[task] = "new"
             PROVE  \E t \in timers : t.k = task
  BY DEF NotStranded
<1>m. Todo = {} /\ \A x : ~Has(queue, x)
  BY EmptyShape, EmptyHas DEF Todo
<1>1. task # Null /\ tstate[task] = "SCHEDULED"
  BY <1>m, StateShown DEF SInv, STypes, OwnInv
<1>2. task \in Tasks
  BY <1>1, BoundAssumption DEF SInv, STypes, TypeOK, Tasks, Null
<1>3. fut[task] = "NEW"
  BY <1>m, <1>1, <1>2 DEF SInv, STypes, TypeOK, WorkInv
<1>4. Awaited(task)
  BY <1>m, <1>1, <1>3 DEF SInv, StrandInv
<1> QED BY <1>m, <1>2, <1>4 DEF Awaited, Armed

LEMMA TimerInvFollows ==
  ASSUME Quietly, Schedulable
  PROVE  SInv => TimerInv
<1> SUFFICES ASSUME SInv PROVE STypeOK /\ NotStranded /\ AssertionsHold
  BY DEF TimerInv
<1>1. STypeOK
  BY DEF SInv, STypes, TimerTypes, STypeOK
<1>2. AssertionsHold
  BY DEF SInv, AssertInv, AssertionsHold
<1> QED BY <1>1, <1>2, NotStrandedFollows

\* Automatic restarts stop at maximumFailureCount, and not before: a ScheduledService
\* that failed and is on its way again has failures left, and one that rests in FAILED
\* has none or may not restart. The application may call start, cancel, restart and
\* reset between events, cancel() from its handlers, or start() off the FX thread.
THEOREM FailuresAreBudgeted ==
  ASSUME CancelOnly, OneStarter
  PROVE  SSpec => []FailureBudget
<1>1. SInit => SInv
  BY SInitHolds
<1>2. SInv /\ [SNext]_allVars => SInv'
  BY SNextKeeps
<1>3. SInv => FailureBudget
  BY BudgetFollows
<1> QED BY <1>1, <1>2, <1>3, PTL DEF SSpec

\* A ScheduledService that waits in SCHEDULED will be woken, however its timers, its
\* cancel() and its off-FX start() interleave: its task is with the executor, or a
\* timer of it is waiting. The Timer accepts its delays.
THEOREM NoneIsStranded ==
  ASSUME CancelOnly, OneStarter, Schedulable
  PROVE  SSpec => []NotStranded
<1>1. SInit => SInv
  BY SInitHolds
<1>2. SInv /\ [SNext]_allVars => SInv'
  BY SNextKeeps
<1>3. SInv => NotStranded
  BY NotStrandedFollows
<1> QED BY <1>1, <1>2, <1>3, PTL DEF SSpec

\* The timer of a ScheduledService: the fields about it have their types, there is
\* one when it waits, and the assertions of executeTask, succeeded and failed hold,
\* without restart() and calls from handlers.
THEOREM TimerIsSound ==
  ASSUME OneStarter, Quietly, Schedulable
  PROVE  SSpec => []TimerInv
<1>0. CancelOnly
  BY DEF CancelOnly, Quietly
<1>1. SInit => SInv
  BY SInitHolds
<1>2. SInv /\ [SNext]_allVars => SInv'
  BY <1>0, SNextKeeps
<1>3. SInv => TimerInv
  BY TimerInvFollows
<1> QED BY <1>1, <1>2, <1>3, PTL DEF SSpec
=============================================================================
