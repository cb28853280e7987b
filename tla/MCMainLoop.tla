----------------------------- MODULE MCMainLoop -----------------------------
(* The main loop with every number that has a gesture, and two that have   *)
(* none: -1, which is also what an empty mailbox holds, and 7.  The fruit  *)
(* run needs no more than one number for each kind of gesture.             *)
EXTENDS MainLoop

MCNums == {-1, 0, 1, 2, 3, 4, 5, 7}
MCGestureNums == {0, 1, 3, 4}
=============================================================================
