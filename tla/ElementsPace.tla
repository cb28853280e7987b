---------------------------- MODULE ElementsPace ----------------------------
(***************************************************************************)
(* The road elements once more, with the pace at which the car can turn.   *)
(*                                                                         *)
(* A loop is closed by the first frame that finds the yaw angle between    *)
(* 335 and 360 degrees; at 360 update_gyro_z (ctrl_inoutdev.cpp:230) sets  *)
(* the angle to zero.  In Elements the car may turn any angle between two  *)
(* frames, so that no frame need find it there.  In the car the gyroscope  *)
(* reports no more than 2^15 times 0.0305 degrees per second, which the    *)
(* update every 5 ms counts as 10.3 degrees, and the camera delivers a     *)
(* frame every 10 ms (cam_fps, f_elems.h:127): between two frames the      *)
(* angle moves by less than the 25 degrees that close the loop.            *)
(***************************************************************************)
EXTENDS Elements

CONSTANT MaxTurns    \* the most the car turns from one frame to the next

ASSUME PaceAssumption == MaxTurns \in Nat

VARIABLE turns       \* how far it has turned in a loop since the last frame

paceVars == <<vars, turns>>

FrameEnds == pc # "gate" /\ pc' = "gate"

Pace ==
  /\ LoopActive /\ Turn => turns < MaxTurns
  /\ turns' = IF FrameEnds \/ ~LoopActive THEN 0
              ELSE IF Turn THEN turns + 1 ELSE turns

PaceInit == Init /\ turns = 0

PaceNext == Next /\ Pace

(* Frames keep coming, and the timers keep moving the car.  In a loop it   *)
(* is steered around, so it goes on turning; elsewhere it need not.        *)
PaceSpec ==
  /\ PaceInit /\ [][PaceNext]_paceVars
  /\ WF_paceVars(Frame /\ Pace) /\ WF_paceVars(Move /\ Pace)
  /\ WF_paceVars(ResetClears /\ Pace)
  /\ WF_paceVars(Turn /\ LoopActive /\ Pace)

-----------------------------------------------------------------------------
(* A loop the car has got round in is left, whatever the camera shows then *)
(* and whatever RESET does to its angle and distance: the angle that       *)
(* closes it is found in one of the frames before it wraps, and the        *)
(* distance driven ends it.                                                *)
Round == {L_loop_sm_state, R_loop_sm_state} \cap {5, 6, 7} # {}

RoundLoopIsLeft == Round /\ crowded = 0 ~> ~Round
=============================================================================
