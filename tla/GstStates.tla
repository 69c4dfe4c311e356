------------------------------- MODULE GstStates -------------------------------
(***************************************************************************)
(* The state machine of a toplevel GStreamer pipeline as its application   *)
(* meets it: gst_element_set_state, the lost state of a flushing seek, the *)
(* end of an asynchronous change and its continuation. A pipeline p is a   *)
(* record of GST_STATE, GST_STATE_NEXT, GST_STATE_PENDING,                 *)
(* GST_STATE_TARGET and GST_STATE_RETURN, of whether the sinks have data   *)
(* or wait for it (sinks) and whether a continuation is scheduled on the   *)
(* thread pool (task). Every operator gives the pipeline afterwards; the   *)
(* operators named ...Messages give what it posts meanwhile.               *)
(***************************************************************************)
EXTENDS Integers, Sequences

VOID == 0
NULL == 1
READY == 2
PAUSED == 3
PLAYING == 4

Pipelines ==
  [state : NULL..PLAYING, next : VOID..PLAYING, pending : VOID..PLAYING,
   target : NULL..PLAYING, ret : {"SUCCESS", "ASYNC"}, sinks : {"prerolled", "waiting"},
   task : {"none", "continue"}]

Pipeline(state, next, pending, target, ret, sinks, task) ==
  [state |-> state, next |-> next, pending |-> pending, target |-> target,
   ret |-> ret, sinks |-> sinks, task |-> task]

StateChanged(old, new, pending) ==
  [type |-> "STATE_CHANGED", old |-> old, new |-> new, pending |-> pending]

\* GST_STATE_GET_NEXT
GetNext(current, pending) ==
  IF current < pending THEN current + 1
  ELSE IF current > pending THEN current - 1 ELSE current

Min2(a, b) == IF a < b THEN a ELSE b

\* The change to p.next has succeeded: it is committed (gst_element_continue_state).
Commit(p) == Pipeline(p.next, VOID, VOID, p.target, "SUCCESS", p.sinks, p.task)

\* No message is posted for a change to the state the pipeline is in, unless
\* the change was asynchronous.
CommitMessages(p) ==
  IF p.state # p.next \/ p.ret = "ASYNC"
  THEN <<StateChanged(p.state, p.next, VOID)>> ELSE <<>>

\* A change in progress will get to s by itself.
Busy(p, s) == p.pending # VOID /\ (p.pending <= s \/ p.next = s)

\* A new target is another state cookie, which interrupts the continuation.
Retarget(p, s) ==
  Pipeline(p.state, p.next, s, s, "ASYNC", p.sinks,
           IF s = p.target THEN p.task ELSE "none")

\* Where the change to s starts: after the step in progress if it goes up.
Start(p, s) ==
  IF p.pending # VOID /\ p.next > s /\ p.ret = "ASYNC" THEN p.next ELSE p.state

\* The step towards s, before the children make it.
Step(p, s) ==
  LET next == GetNext(Start(p, s), s)
  IN Pipeline(p.state, next, s, s, IF Start(p, s) # next THEN "ASYNC" ELSE p.ret,
              p.sinks, IF s = p.target THEN p.task ELSE "none")

\* Going to PAUSED is asynchronous when a sink has no data (noData) or
\* still waits for it.
Waits(p, s, noData) == p.sinks = "waiting" \/ (s = PAUSED /\ Start(p, s) = PLAYING /\ noData)

\* A sink waits for data.
Waiting(p) == Pipeline(p.state, p.next, p.pending, p.target, p.ret, "waiting", p.task)

\* gst_element_set_state of a pipeline that is PAUSED or PLAYING, and of one
\* that was torn down: READY at once, then it waits for data to be PAUSED.
SetState(p, s, noData) ==
  IF p.state = NULL
  THEN Pipeline(READY, PAUSED, s, s, "ASYNC", "waiting", "none")
  ELSE IF Busy(p, s) THEN Retarget(p, s)
  ELSE IF Waits(p, s, noData) THEN Waiting(Step(p, s))
  ELSE Commit(Step(p, s))

SetStateMessages(p, s, noData) ==
  IF p.state = NULL THEN <<StateChanged(NULL, READY, s)>>
  ELSE IF Busy(p, s) \/ Waits(p, s, noData) THEN <<>>
  ELSE CommitMessages(Step(p, s))

\* gst_element_set_state to NULL: the pipeline stops, and its bus is flushed.
Down(p) == Pipeline(NULL, VOID, VOID, NULL, "SUCCESS", "prerolled", "none")

\* A sink has lost its data to a flush (bin_handle_async_start).
LostState(p) ==
  IF p.pending # VOID THEN Waiting(p)
  ELSE LET s == Min2(p.state, PAUSED)
       IN Pipeline(s, s, s, p.target, "ASYNC", "waiting", p.task)

LostStateMessages(p) ==
  IF p.pending # VOID THEN <<>>
  ELSE LET s == Min2(p.state, PAUSED) IN <<StateChanged(s, s, s)>>

\* All sinks have data again (bin_handle_async_done): the step is committed
\* unless it was to PLAYING, and the way to the target continued by a thread.
AsyncDone(p) ==
  LET current == IF p.next = PLAYING THEN p.state ELSE p.next
      done == p.target = current
  IN IF done THEN Pipeline(current, VOID, VOID, p.target, "SUCCESS", "prerolled", "none")
     ELSE Pipeline(current, GetNext(p.state, p.target), p.target, p.target,
                   "ASYNC", "prerolled", "continue")

AsyncDoneMessages(p) ==
  IF p.next # PLAYING /\ (p.state # p.next \/ p.ret = "ASYNC")
  THEN <<StateChanged(p.state, p.next, AsyncDone(p).pending)>> ELSE <<>>

\* gst_bin_continue_func: the next step to the target.
Continue(p) ==
  LET q == Pipeline(p.state, GetNext(p.state, p.pending), p.pending, p.target,
                    "ASYNC", p.sinks, "none")
  IN IF p.sinks = "waiting" THEN q ELSE Commit(q)

ContinueMessages(p) ==
  IF p.sinks = "waiting" THEN <<>>
  ELSE <<StateChanged(p.state, GetNext(p.state, p.pending), VOID)>>
================================================================================
