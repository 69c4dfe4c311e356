----------------------------- MODULE PlayerDispose -----------------------------
(***************************************************************************)
(* The end of a player of class CGstAVPlaybackPipeline: Dispose and the    *)
(* deletion of the player in ~CMedia, against the main loop that hands the *)
(* messages of the bus to BusCallback and against the streaming thread     *)
(* that calls back on_pad_added and no_more_pads.                          *)
(*                                                                         *)
(* What they share is sBusCallbackContent: the lock m_DisposeLock, the     *)
(* flags m_bIsDisposed and m_bFreeMe. It outlives the player if a callback *)
(* is still on its way; who lets go of it last frees it. The reference     *)
(* count is glib's, and is changed without a lock or an atomic operation:  *)
(* it is loaded, stored, and read again for the test, unless the compiler  *)
(* keeps the value it has stored.                                          *)
(***************************************************************************)
EXTENDS Integers, Sequences

CONSTANTS
  MaxMessages,   \* bound on the messages posted
  MaxCallbacks   \* bound on the signals of the demultiplexer

ASSUME DisposeAssumption == MaxMessages \in Nat /\ MaxCallbacks \in Nat

VARIABLES
  \* sBusCallbackContent, and how often it was freed
  m_DisposeLock, m_bIsDisposed, m_bFreeMe, freed,
  \* the reference count of the callback, whether its source is attached, and
  \* the counts the threads have loaded
  refs, attached, loaded,
  \* GST_STATE_LOCK of the pipeline, whether the pipeline is NULL, its bus,
  \* IsPlayerState(Error)
  stateLock, down, messages, error,
  \* whether the player was deleted, and where the threads are
  gone, at,
  \* history: a handler has started the stopped pipeline again, the two threads
  \* were in g_source_callback_unref at once, freed content was used
  restarted, overlapped, misused,
  \* bounds
  posted, callbacks

content == <<m_DisposeLock, m_bIsDisposed, m_bFreeMe, freed>>
callback == <<refs, attached, loaded>>
stopVars == <<stateLock, down, messages, error>>
history == <<restarted, overlapped, misused>>
counts == <<posted, callbacks>>
disposeVars == <<content, callback, stopVars, gone, at, history, counts>>

Threads == {"user", "bus", "stream"}

DisposeInit ==
  /\ m_DisposeLock = "none" /\ m_bIsDisposed = FALSE /\ m_bFreeMe = FALSE /\ freed = 0
  /\ refs = 1 /\ attached = TRUE /\ loaded = [t \in {"user", "bus"} |-> 0]
  /\ stateLock = "none" /\ down = FALSE /\ messages = <<>> /\ error = FALSE
  /\ gone = FALSE /\ at = [t \in Threads |-> "idle"]
  /\ restarted = FALSE /\ overlapped = FALSE /\ misused = FALSE
  /\ posted = 0 /\ callbacks = 0

Move(t, label) == at' = [at EXCEPT ![t] = label]

\* The locks are recursive.
Enter(t) == m_DisposeLock \in {"none", t} /\ m_DisposeLock' = t
Exit(t) == m_DisposeLock' = "none"

\* The content is used: what comes of it is undefined if it was freed.
Use == misused' = (misused \/ freed > 0) /\ UNCHANGED <<restarted, overlapped>>

(***************************************************************************)
(* gst_element_set_state to NULL: the state lock is taken, the streaming   *)
(* thread is waited for, the bus is flushed.                               *)
(***************************************************************************)
StateLock(t) == stateLock = "none" /\ stateLock' = t

StreamStopped ==
  /\ at["stream"] \in {"idle", "ended"}
  /\ stateLock' = "none" /\ down' = TRUE /\ messages' = <<>>

(***************************************************************************)
(* The streaming thread.                                                   *)
(***************************************************************************)
PostMessage ==
  /\ at["stream"] = "idle" /\ ~down /\ posted < MaxMessages
  /\ \E m \in {"ERROR", "other"} : messages' = Append(messages, m)
  /\ posted' = posted + 1
  /\ UNCHANGED <<content, callback, stateLock, down, error, gone, at, history, callbacks>>

Signal ==
  /\ at["stream"] = "idle" /\ ~down /\ callbacks < MaxCallbacks
  /\ callbacks' = callbacks + 1 /\ Move("stream", "enter")
  /\ UNCHANGED <<content, callback, stopVars, gone, history, posted>>

\* on_pad_added, no_more_pads
on_pad_added ==
  /\ at["stream"] = "enter" /\ Enter("stream") /\ Use
  /\ Move("stream", IF m_bIsDisposed THEN "exit" ELSE "callback")
  /\ UNCHANGED <<m_bIsDisposed, m_bFreeMe, freed, callback, stopVars, gone, counts>>

PadAddedExit ==
  /\ at["stream"] \in {"callback", "exit"} /\ Exit("stream") /\ Use
  /\ Move("stream", "idle")
  /\ UNCHANGED <<m_bIsDisposed, m_bFreeMe, freed, callback, stopVars, gone, counts>>

(***************************************************************************)
(* The main loop and BusCallback.                                          *)
(***************************************************************************)

\* g_main_dispatch takes a reference to the callback,
BusDispatch ==
  /\ at["bus"] = "idle" /\ attached /\ messages # <<>>
  /\ refs' = refs + 1 /\ Move("bus", "pop")
  /\ UNCHANGED <<content, attached, loaded, stopVars, gone, history, counts>>

\* gst_bus_source_dispatch takes a message, unless the bus was flushed meanwhile,
BusPop ==
  /\ at["bus"] = "pop"
  /\ IF messages = <<>> THEN Move("bus", "unref") /\ UNCHANGED messages
     ELSE /\ Move("bus", IF Head(messages) = "ERROR" THEN "enterError" ELSE "enter")
          /\ messages' = Tail(messages)
  /\ UNCHANGED <<content, callback, stateLock, down, error, gone, history, counts>>

\* and BusCallback handles it. UpdateBufferPosition, BufferUnderrun, HLSBufferStall
\* and HLSBufferResume may decide to pause or to play, but not after an error.
BusEnter ==
  /\ at["bus"] \in {"enter", "enterError"} /\ Enter("bus") /\ Use
  /\ \/ m_bIsDisposed /\ Move("bus", "exit")
     \/ ~m_bIsDisposed /\ at["bus"] = "enterError" /\ Move("bus", IF error THEN "handle" ELSE "error")
     \/ ~m_bIsDisposed /\ at["bus"] = "enter" /\ Move("bus", "handle")
     \/ ~m_bIsDisposed /\ at["bus"] = "enter" /\ ~error /\ Move("bus", "setState")
  /\ UNCHANGED <<m_bIsDisposed, m_bFreeMe, freed, callback, stopVars, gone, counts>>

\* Play, InternalPause: the pipeline is PLAYING or PAUSED afterwards, and streams
\* again if Dispose has stopped it already.
BusSetState ==
  /\ at["bus"] = "setState" /\ stateLock = "none"
  /\ down' = FALSE /\ restarted' = (restarted \/ down)
  /\ at' = [at EXCEPT !["bus"] = "handle", !["stream"] = IF down THEN "idle" ELSE @]
  /\ UNCHANGED <<content, callback, stateLock, messages, error, gone, overlapped, misused, counts>>

\* ERROR: the pipeline is torn down while m_DisposeLock is held.
BusErrorLock ==
  /\ at["bus"] = "error" /\ StateLock("bus")
  /\ Move("bus", "tearDown")
  /\ UNCHANGED <<content, callback, down, messages, error, gone, history, counts>>

BusErrorDown ==
  /\ at["bus"] = "tearDown" /\ StreamStopped
  /\ error' = TRUE
  /\ at' = [at EXCEPT !["bus"] = "handle", !["stream"] = "ended"]
  /\ UNCHANGED <<content, callback, gone, history, counts>>

BusExit ==
  /\ at["bus"] \in {"handle", "exit"} /\ Exit("bus") /\ Use
  /\ Move("bus", "unref")
  /\ UNCHANGED <<m_bIsDisposed, m_bFreeMe, freed, callback, stopVars, gone, counts>>

(***************************************************************************)
(* g_source_callback_unref: who finds zero calls BusCallbackDestroyNotify. *)
(* When the count is read again the other thread may have changed it, or   *)
(* have freed the memory it was in.                                        *)
(***************************************************************************)
Unreferencing(t) ==
  IF t = "bus" THEN at["bus"] \in {"unrefStore", "unrefTest"}
  ELSE at["user"] \in {"sourceStore", "sourceTest"}

Load(t, other) ==
  /\ loaded' = [loaded EXCEPT ![t] = refs]
  /\ overlapped' = (overlapped \/ Unreferencing(other))
  /\ UNCHANGED <<refs, restarted, misused>>

Store(t) == refs' = loaded[t] - 1 /\ UNCHANGED <<loaded, attached>>

CountsSeen(t) == {loaded[t] - 1, refs}

BusUnref ==
  /\ at["bus"] = "unref" /\ Load("bus", "user") /\ UNCHANGED attached
  /\ Move("bus", "unrefStore")
  /\ UNCHANGED <<content, stopVars, gone, counts>>

BusUnrefStore ==
  /\ at["bus"] = "unrefStore" /\ Store("bus")
  /\ Move("bus", "unrefTest")
  /\ UNCHANGED <<content, stopVars, gone, history, counts>>

BusUnrefTest ==
  /\ at["bus"] = "unrefTest"
  /\ \E n \in CountsSeen("bus") : Move("bus", IF n = 0 THEN "notify" ELSE "idle")
  /\ UNCHANGED <<content, callback, stopVars, gone, history, counts>>

BusCallbackDestroyNotify ==
  /\ at["bus"] = "notify" /\ m_DisposeLock \in {"none", "bus"} /\ Use
  /\ IF m_bIsDisposed THEN freed' = freed + 1 /\ UNCHANGED m_bFreeMe
     ELSE m_bFreeMe' = TRUE /\ UNCHANGED freed
  /\ Move("bus", "idle")
  /\ UNCHANGED <<m_DisposeLock, m_bIsDisposed, callback, stopVars, gone, counts>>

(***************************************************************************)
(* Dispose, and the deletion of the player by ~CMedia.                     *)
(***************************************************************************)

\* Broken: the lock is taken before the pipeline is stopped.
DisposeStopLocked ==
  /\ at["user"] = "idle" /\ ~gone /\ StateLock("user") /\ Enter("user")
  /\ Move("user", "stopping")
  /\ UNCHANGED <<m_bIsDisposed, m_bFreeMe, freed, callback, down, messages, error, gone, history, counts>>

\* The pipeline is stopped before the lock is taken.
DisposeStop ==
  /\ at["user"] = "idle" /\ ~gone /\ StateLock("user")
  /\ Move("user", "stopping")
  /\ UNCHANGED <<content, callback, down, messages, error, gone, history, counts>>

DisposeStopped ==
  /\ at["user"] = "stopping" /\ StreamStopped
  /\ at' = [at EXCEPT !["user"] = "lock", !["stream"] = "ended"]
  /\ UNCHANGED <<content, callback, error, gone, history, counts>>

\* g_source_destroy: nothing is dispatched any more; the reference is dropped.
DisposeSource ==
  /\ at["user"] = "lock" /\ Enter("user") /\ Load("user", "bus")
  /\ attached' = FALSE
  /\ Move("user", "sourceStore")
  /\ UNCHANGED <<m_bIsDisposed, m_bFreeMe, freed, stopVars, gone, counts>>

DisposeUnref ==
  /\ at["user"] = "sourceStore" /\ Store("user")
  /\ Move("user", "sourceTest")
  /\ UNCHANGED <<content, stopVars, gone, history, counts>>

\* BusCallbackDestroyNotify in this thread. The pipeline is unreferenced, and
\* streams on if it was started again.
DisposeUnrefTest ==
  /\ at["user"] = "sourceTest"
  /\ \E n \in CountsSeen("user") : m_bFreeMe' = (m_bFreeMe \/ n = 0)
  /\ Move("user", "disposed")
  /\ UNCHANGED <<m_DisposeLock, m_bIsDisposed, freed, callback, stopVars, gone, history, counts>>

\* Broken: Dispose frees the content although a callback is on its way.
DisposeExitFrees ==
  /\ at["user"] = "disposed" /\ Exit("user") /\ Use
  /\ m_bIsDisposed' = TRUE
  /\ Move("user", "free")
  /\ UNCHANGED <<m_bFreeMe, freed, callback, stopVars, gone, counts>>

DisposeExit ==
  /\ at["user"] = "disposed" /\ Exit("user") /\ Use
  /\ m_bIsDisposed' = TRUE
  /\ Move("user", IF m_bFreeMe THEN "free" ELSE "delete")
  /\ UNCHANGED <<m_bFreeMe, freed, callback, stopVars, gone, counts>>

DisposeFree ==
  /\ at["user"] = "free" /\ Use
  /\ freed' = freed + 1 /\ Move("user", "delete")
  /\ UNCHANGED <<m_DisposeLock, m_bIsDisposed, m_bFreeMe, callback, stopVars, gone, counts>>

\* ~CMedia deletes the player.
Delete ==
  /\ at["user"] = "delete"
  /\ gone' = TRUE /\ Move("user", "idle")
  /\ UNCHANGED <<content, callback, stopVars, history, counts>>

StreamStep == on_pad_added \/ PadAddedExit
MainLoopStep ==
  \/ BusDispatch \/ BusPop \/ BusEnter \/ BusSetState \/ BusErrorLock \/ BusErrorDown \/ BusExit
  \/ BusUnref \/ BusUnrefStore \/ BusUnrefTest \/ BusCallbackDestroyNotify
DisposeStep ==
  \/ DisposeStopped \/ DisposeSource \/ DisposeUnref \/ DisposeUnrefTest \/ DisposeExit
  \/ DisposeFree \/ Delete

DisposeNext == PostMessage \/ Signal \/ StreamStep \/ MainLoopStep \/ DisposeStop \/ DisposeStep

DisposeSpec == DisposeInit /\ [][DisposeNext]_disposeVars

FairDisposeSpec ==
  /\ DisposeSpec
  /\ WF_disposeVars(StreamStep) /\ WF_disposeVars(MainLoopStep) /\ WF_disposeVars(DisposeStep)

(***************************************************************************)
(* Properties.                                                             *)
(***************************************************************************)

\* The owners of the locks, the range of the count.
ContentTypeOK ==
  /\ m_DisposeLock \in {"none"} \union Threads /\ stateLock \in {"none", "user", "bus"}
  /\ refs \in 0..2 /\ freed \in 0..2

\* Dispose, BusCallback and BusCallbackDestroyNotify: the content was freed at
\* most once, no thread is about to use it when it was freed, no callback runs in
\* a player that was deleted, and the pipeline of such a player has stopped. Two
\* exceptions, both in the code: two threads that drop their references at once
\* may both find the count zero, and each frees the content; and a handler that
\* starts the pipeline again between Dispose's set_state(NULL) and its lock leaves
\* a streaming thread behind, whose callbacks come when the content is gone.
ContentSafe ==
  /\ freed <= 1
  /\ ~overlapped /\ freed > 0 =>
       /\ at["user"] \notin {"lock", "sourceStore", "sourceTest", "disposed", "free"}
       /\ at["bus"] \notin {"enter", "enterError", "error", "tearDown", "setState", "handle",
                            "exit", "notify"}
  /\ gone => at["bus"] \notin {"error", "tearDown", "setState", "handle"} /\ at["stream"] # "callback"
  /\ ~restarted /\ (gone \/ freed > 0) => down /\ at["stream"] = "ended"

\* The content shared with the callbacks is freed at most once and not too early,
\* but for ContentSafe's two exceptions; nothing is claimed once freed content
\* was used, which only these two lead to.
ContentInv ==
  /\ ContentTypeOK
  /\ misused => overlapped \/ restarted
  /\ ~misused => ContentSafe

\* The bus thread holds the lock that the streaming thread waits for, and waits
\* for that thread to end: itself, or through Dispose, which has the state lock.
Jammed ==
  /\ at["stream"] = "enter"
  /\ at["bus"] \in {"error", "tearDown"} \/ (at["bus"] = "setState" /\ stateLock = "user")

\* Dispose: it returns and the player is deleted, whatever the main loop and
\* the streaming thread are doing, unless they have jammed each other or freed
\* content was used.
DisposeReturns == at["user"] # "idle" ~> gone \/ Jammed \/ misused
================================================================================
