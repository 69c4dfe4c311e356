----------------------------- MODULE FxProgress -----------------------------
(***************************************************************************)
(* The arithmetic of javafx.concurrent.Task.updateProgress(double, double):*)
(* how the two arguments are normalised before they are published, and     *)
(* what the progress property becomes when they are applied.               *)
(*                                                                         *)
(* A Java double is modelled by an integer or by one of the two model      *)
(* values NaN and Inf (the sign of an infinity does not matter: the code   *)
(* only asks Double.isInfinite).                                           *)
(***************************************************************************)
EXTENDS Integers

CONSTANTS NaN, Inf

ASSUME NonFiniteAssumption == NaN # Inf

Indeterminate == -1

\* Double.isInfinite(d) || Double.isNaN(d), or d < 0: the argument becomes -1.
Normalise(d) ==
  IF d \in {NaN, Inf} THEN Indeterminate
  ELSE IF d < 0 THEN Indeterminate ELSE d

\* Broken variant: workDone may exceed max.
ClampNot(a) == <<Normalise(a[1]), Normalise(a[2])>>

\* updateProgress: the ProgressUpdate <<workDone, totalWork>> that a call with
\* the arguments a = <<workDone, max>> publishes; workDone is clamped to max.
Clamp(a) ==
  LET w == Normalise(a[1])
      m == Normalise(a[2])
  IN  IF w > m THEN <<m, m>> ELSE <<w, m>>

\* The double workDone / max. A quotient is kept as the pair <<workDone, max>>
\* when it is a number; 0.0 / 0.0 is NaN.
Divide(w, m) == IF m = 0 THEN (IF w = 0 THEN NaN ELSE Inf) ELSE <<w, m>>

\* _updateProgress: the three properties it sets.
Applied(p) ==
  [ totalWork |-> p[2],
    workDone  |-> p[1],
    progress  |-> IF p[1] = Indeterminate THEN <<Indeterminate, 1>>
                                          ELSE Divide(p[1], p[2]) ]

\* The initial values of the three properties.
NoProgress == [ totalWork |-> -1, workDone |-> -1, progress |-> <<Indeterminate, 1>> ]
=============================================================================
