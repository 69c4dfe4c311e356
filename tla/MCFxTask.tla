------------------------------ MODULE MCFxTask ------------------------------
(***************************************************************************)
(* Values for the constants of FxTask.                                     *)
(***************************************************************************)
EXTENDS FxTask

\* A partial and an overshooting call; and with them negative, not-a-number,
\* infinite and indeterminate arguments.
MCProgressArgs == {<<1, 2>>, <<3, 2>>}
MCProgressEdges == {<<1, 2>>, <<3, 2>>, <<-5, 2>>, <<NaN, 2>>, <<1, Inf>>, <<1, -1>>}
=============================================================================
