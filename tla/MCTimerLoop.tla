---------------------------- MODULE MCTimerLoop ----------------------------
(***************************************************************************)
(* TimerLoop with a periodic timer between two one-shot ones.  Callbacks   *)
(* start and stop timers forwards (1 to 2), backwards (3 to 1) and         *)
(* themselves (1 and 2).                                                   *)
(***************************************************************************)
EXTENDS TimerLoop

MCTimers   == 1..3
MCPeriod   == <<3, 4, 3>>
MCOnce     == {1, 3}
MCRestarts == {<<1, 2>>, <<3, 1>>, <<1, 1>>, <<2, 2>>}
=============================================================================
