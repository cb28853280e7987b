------------------------------- MODULE MCTrack -------------------------------
(* Six rows of ten columns.  A row is black, white, a road in view, a road *)
(* with its left or its right edge out of view, or two roads (a fork, or a *)
(* road and something beside it).  Crossroads are seen two rows up.        *)
EXTENDS Track

MCRowImages == {{}, 0 .. 9, 2 .. 7, 0 .. 4, 4 .. 9, {2, 3} \cup 5 .. 7}
MCLookBack == {1, 2}
=============================================================================
