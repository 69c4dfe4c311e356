----------------------------- MODULE PlayerStatus -----------------------------
(***************************************************************************)
(* What the class MediaPlayer promises of the property status: the table   *)
(* of the status transitions in its documentation. HALTED is entered from  *)
(* any other status and not left.                                          *)
(***************************************************************************)
VARIABLE status

Statuses == {"UNKNOWN", "READY", "PAUSED", "PLAYING", "STALLED", "STOPPED", "HALTED"}

Table ==
  {<<"UNKNOWN", "READY">>, <<"READY", "PLAYING">>,
   <<"PAUSED", "PLAYING">>, <<"PAUSED", "STOPPED">>,
   <<"PLAYING", "PAUSED">>, <<"PLAYING", "STALLED">>, <<"PLAYING", "STOPPED">>,
   <<"STALLED", "PAUSED">>, <<"STALLED", "PLAYING">>, <<"STALLED", "STOPPED">>,
   <<"STOPPED", "PAUSED">>, <<"STOPPED", "PLAYING">>}

Init == status = "UNKNOWN"

Change ==
  /\ status' \in Statuses
  /\ <<status, status'>> \in Table \/ (status # "HALTED" /\ status' = "HALTED")

Spec == Init /\ [][Change]_status
================================================================================
