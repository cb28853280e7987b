------------------------------- MODULE MCMenu -------------------------------
(* Two entries to modify, two pages of parameters.  What a setting is does *)
(* not matter to the screen: they have one value, but for the threshold.   *)
EXTENDS Menu

MCSetting(init, step, min, max, range) ==
  [init |-> init, step |-> step, min |-> min, max |-> max, range |-> range]

MCLimit ==
  [s \in Settings |-> MCSetting(0, 1, 0, 0, 1)]

MCEntry ==
  [e \in {"current_turns", "disp_pic_type"} |->
     [init |-> 0, end |-> IF e = "disp_pic_type" THEN 2 ELSE 1]]

MCModifyList == [i \in 0 .. 1 |-> IF i = 0 THEN "current_turns" ELSE "disp_pic_type"]
=============================================================================
