----------------------------- MODULE FxDuration -----------------------------
(***************************************************************************)
(* How javafx.concurrent.ScheduledService reads the durations it is given: *)
(* a Duration is a number of milliseconds (here an integer), unknown,      *)
(* indefinite (positive infinity), negative infinity, or null.             *)
(***************************************************************************)
EXTENDS Integers

CONSTANTS
  NullDuration, Unknown, Indefinite, NegIndefinite,
  MaxMillis         \* Double.MAX_VALUE, and (long) of it: more than any clock reading

ASSUME MillisAssumption == MaxMillis \in Nat

Special == {NullDuration, Unknown, Indefinite, NegIndefinite}

ASSUME SpecialAssumption == Special \cap Int = {}

\* value == null || value.toMillis() < 0 (the comparison is false for NaN).
NullOrNegative(d) ==
  d = NullDuration \/ d = NegIndefinite \/ (d \notin Special /\ d < 0)

\* Duration.greaterThan for a duration that is not negative and not unknown,
\* against a finite one.
GreaterThan(d, e) == d = Indefinite \/ (d \notin Special /\ d > e)

\* setCumulativePeriod: the value it sets, given maximumCumulativePeriod.
Cumulative(d, max) ==
  LET v == IF NullOrNegative(d) THEN 0 ELSE d
  IN  IF max \in {NullDuration, Unknown} \/ v = Unknown THEN v
      ELSE IF NullOrNegative(max) THEN 0
      ELSE IF max # Indefinite /\ GreaterThan(v, max) THEN max
      ELSE v

\* normalize: the milliseconds a duration stands for. A negative duration stays
\* negative.
Millis(d) ==
  CASE d \in {NullDuration, Unknown} -> 0
    [] d = Indefinite -> MaxMillis
    [] d = NegIndefinite -> - MaxMillis
    [] OTHER -> d

\* (long) (a - b): Double.MAX_VALUE absorbs what is subtracted.
Minus(a, b) == IF a = MaxMillis THEN a ELSE a - b

\* LINEAR_BACKOFF_STRATEGY for a period d after x > 0 failures: NaN and the
\* infinities absorb the count.
LinearBackoff(d, x) ==
  LET period == IF d = NullDuration THEN 0 ELSE d
  IN  IF period \in Special THEN period
      ELSE IF period = 0 THEN x ELSE period + (period * x)
=============================================================================
