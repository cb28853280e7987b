------------------------------ MODULE Elements ------------------------------
(***************************************************************************)
(* The road elements of the lap: find_elements() (f_elems.cpp), which runs *)
(* once per camera frame and decides whether the car is on a ramp, leaving *)
(* the start box, at a fork or in a loop, with the loop patches of         *)
(* f_loop.cpp and the distances and angles those decisions are taken on.   *)
(*                                                                         *)
(* One frame is a walk through the stages of the function, in its order;   *)
(* pc names the next one.  Between two stages the timers (chassis_thread   *)
(* and gyro_thread, which run in interrupt context) move and turn the car, *)
(* and the button thread may serve the RESET button.                       *)
(*                                                                         *)
(* What the camera shows is an input, chosen at the stage that looks:      *)
(* whether a fork or a loop is recognised, whether the inner corner of a   *)
(* loop is in sight, and how the road edge on the watched side starts --   *)
(* "lost" (its first row is far up the picture), "back" (it is next to the *)
(* car) or in between.  Distances and angles are counted in coarse units,  *)
(* and a distance or an angle that every entry of its element sets to zero *)
(* moves only while that element is active: nothing reads it otherwise.    *)
(***************************************************************************)
EXTENDS Integers

CONSTANTS
  LoopGate,     \* distance before a loop may be recognised (40 in the code)
  ForkGate,     \* distance before a fork may be recognised (50)
  RampBack,     \* distance to the ramp after the second fork of a pair (205)
  RampOut,      \* distance to the ramp after a loop (550)
  RampLength,   \* distance over the ramp (140)
  ForkNear,     \* least distance of a phase of a fork (10, exceeded)
  ForkAuto,     \* distance after which the second fork is assumed (155)
  LoopNear,     \* least distance to the corner of a loop (12)
  LoopSeen,     \* least distance after a left loop (55, exceeded)
  LoopPassedL,  \* distance that ends a left loop whatever is seen (200)
  LoopPassedR,  \* distance that ends a right loop (75, exceeded)
  StartOut,     \* distance straight out of the start box (3, exceeded)
  StartArc,     \* distance of the turn onto the track (60, exceeded)
  StartAngle,   \* angle of the turn onto the track (82, exceeded)
  TurnedL,      \* angle at which a left loop is nearly closed (250)
  TurnedR,      \* the same for a right loop (255)
  TurnedBack,   \* angle at which a loop is closed (335)
  FullTurn,     \* angle at which gyro_z_angle wraps to zero (360)
  MaxDistance,  \* bound: a distance or start_angle stays at this value
  MaxCount,     \* bound on fork_num, loop_num and ramp_num
  MaxPresses    \* bound on START and RESET presses

Distances == {LoopGate, ForkGate, RampBack, RampOut, RampLength, ForkNear,
              ForkAuto, LoopNear, LoopSeen, LoopPassedL, LoopPassedR,
              StartOut, StartArc, StartAngle}

\* Every threshold is reachable below its bound.
ASSUME ThresholdsAssumption ==
  /\ MaxDistance \in Nat
  /\ Distances \subseteq 0 .. MaxDistance - 1
  /\ FullTurn \in Nat
  /\ {TurnedL, TurnedR, TurnedBack} \subseteq 1 .. FullTurn - 1
  /\ RampLength > 0 /\ LoopNear > 0

ASSUME BoundsAssumption == MaxCount \in Nat /\ MaxPresses \in Nat

VARIABLES
  pc,                \* the stage of find_elements that runs next
  enable,            \* f1.ramp_enable, start_enable, fork_enable, loop_enable
  ramp_sm_state, start_sm_state, fork_sm_state,
  L_loop_sm_state, R_loop_sm_state,
  ramp_num, fork_num, loop_num, fork1_dir,
  en_start,          \* f2.en_start: a start has been asked for
  reset_ele_signal,  \* f1.reset_ele_signal, raised by RESET
  all_distance, fork_distance, loop_distance, start_distance,
  gyro_z_angle, start_angle,
  btn,               \* "ready", or "clearing": half way through RESET
  presses,           \* START and RESET presses so far
  open,              \* auxiliary: all elements were enabled after the gate
  crowded            \* auxiliary: an element was entered while open = 1

lap   == <<ramp_num, fork_num, loop_num, fork1_dir>>
dist  == <<all_distance, fork_distance, loop_distance, start_distance>>
angle == <<gyro_z_angle, start_angle>>
loops == <<L_loop_sm_state, R_loop_sm_state>>
user  == <<reset_ele_signal, btn, presses>>
aux   == <<open, crowded>>
vars  == <<pc, enable, ramp_sm_state, start_sm_state, fork_sm_state, loops,
           lap, en_start, user, dist, angle, aux>>

Stages   == {"gate", "ramp", "start", "judge", "right", "left", "loop"}
Gated    == {"ramp", "start", "fork", "loop"}
All      == [e \in Gated |-> 1]
Only(x)  == [e \in Gated |-> IF e = x THEN 1 ELSE 0]
Edges    == {"lost", "between", "back"}

LoopActive == L_loop_sm_state # 0 \/ R_loop_sm_state # 0
Active == {e \in Gated : \/ e = "ramp"  /\ ramp_sm_state # 0
                         \/ e = "start" /\ start_sm_state # 0
                         \/ e = "fork"  /\ fork_sm_state # 0
                         \/ e = "loop"  /\ LoopActive}

Odd(n) == n % 2 = 1

TypeOK ==
  /\ pc \in Stages
  /\ enable \in [Gated -> {0, 1}]
  /\ ramp_sm_state \in {0, 1}
  /\ start_sm_state \in 0 .. 3
  /\ fork_sm_state \in 0 .. 2
  /\ L_loop_sm_state \in 0 .. 7 /\ R_loop_sm_state \in 0 .. 7
  /\ ramp_num \in 0 .. MaxCount /\ fork_num \in 0 .. MaxCount
  /\ loop_num \in 0 .. MaxCount /\ fork1_dir \in {0, 1}
  /\ en_start \in {0, 1} /\ reset_ele_signal \in {0, 1}
  /\ all_distance \in 0 .. MaxDistance /\ fork_distance \in 0 .. MaxDistance
  /\ loop_distance \in 0 .. MaxDistance /\ start_distance \in 0 .. MaxDistance
  /\ gyro_z_angle \in 0 .. FullTurn - 1 /\ start_angle \in 0 .. MaxDistance
  /\ btn \in {"ready", "clearing"} /\ presses \in 0 .. MaxPresses
  /\ open \in {0, 1} /\ crowded \in {0, 1}

Init ==
  /\ pc = "gate" /\ enable = All
  /\ ramp_sm_state = 0 /\ start_sm_state = 0 /\ fork_sm_state = 0
  /\ L_loop_sm_state = 0 /\ R_loop_sm_state = 0
  /\ ramp_num = 0 /\ fork_num = 0 /\ loop_num = 0 /\ fork1_dir = 0
  /\ en_start = 0 /\ reset_ele_signal = 0
  /\ all_distance = 0 /\ fork_distance = 0
  /\ loop_distance = 0 /\ start_distance = 0
  /\ gyro_z_angle = 0 /\ start_angle = 0
  /\ btn = "ready" /\ presses = 0
  /\ open = 0 /\ crowded = 0

-----------------------------------------------------------------------------
(* The timers.  A full turn wraps the yaw angle to zero.                    *)

Further(d) == IF d < MaxDistance THEN d + 1 ELSE d

\* chassis_ctrl::update_dis, called by chassis_thread.
Move ==
  /\ all_distance' = Further(all_distance)
  /\ fork_distance' = Further(fork_distance)
  /\ loop_distance' = IF LoopActive THEN Further(loop_distance)
                                    ELSE loop_distance
  /\ start_distance' = IF start_sm_state # 0 THEN Further(start_distance)
                                             ELSE start_distance
  /\ UNCHANGED <<pc, enable, ramp_sm_state, start_sm_state, fork_sm_state,
                 loops, lap, en_start, user, angle, aux>>

\* Mutant: the angle wraps where the loop is to be closed.
TurnWrapsEarly ==
  /\ gyro_z_angle' = IF LoopActive THEN (gyro_z_angle + 1) % TurnedBack
                                   ELSE gyro_z_angle
  /\ start_angle' = IF start_sm_state # 0 THEN Further(start_angle)
                                          ELSE start_angle
  /\ UNCHANGED <<pc, enable, ramp_sm_state, start_sm_state, fork_sm_state,
                 loops, lap, en_start, user, dist, aux>>

\* inoutdev_ctrl::update_gyro_z, called by gyro_thread.
Turn ==
  /\ gyro_z_angle' = IF LoopActive THEN (gyro_z_angle + 1) % FullTurn
                                   ELSE gyro_z_angle
  /\ start_angle' = IF start_sm_state # 0 THEN Further(start_angle)
                                          ELSE start_angle
  /\ UNCHANGED <<pc, enable, ramp_sm_state, start_sm_state, fork_sm_state,
                 loops, lap, en_start, user, dist, aux>>

-----------------------------------------------------------------------------
(* The buttons.  RESET raises the signal, then clears the distances; START *)
(* reaches find_elements through the main loop, between two frames.        *)

PressReset ==
  /\ btn = "ready" /\ presses < MaxPresses
  /\ reset_ele_signal' = 1 /\ btn' = "clearing" /\ presses' = presses + 1
  /\ UNCHANGED <<pc, enable, ramp_sm_state, start_sm_state, fork_sm_state,
                 loops, lap, en_start, dist, angle, aux>>

ResetClears ==
  /\ btn = "clearing"
  /\ btn' = "ready"
  /\ all_distance' = 0 /\ fork_distance' = 0
  /\ loop_distance' = 0 /\ start_distance' = 0
  /\ gyro_z_angle' = 0 /\ start_angle' = 0
  /\ UNCHANGED <<pc, enable, ramp_sm_state, start_sm_state, fork_sm_state,
                 loops, lap, en_start, reset_ele_signal, presses, aux>>

AskStart ==
  /\ pc = "gate" /\ presses < MaxPresses
  /\ en_start' = 1 /\ presses' = presses + 1
  /\ UNCHANGED <<pc, enable, ramp_sm_state, start_sm_state, fork_sm_state,
                 loops, lap, reset_ele_signal, btn, dist, angle, aux>>

-----------------------------------------------------------------------------
(* The gate: a pending RESET starts over, then the place on the lap decides *)
(* whether loops and forks may be recognised in this frame.                 *)

\* Mutant: the leg of the lap is not looked at.
LoopOnAnyLeg == ramp_sm_state = 0 /\ all_distance >= LoopGate

LoopMayCome == /\ ramp_sm_state = 0
               /\ \/ R_loop_sm_state # 0
                  \/ loop_num = 0
                  \/ ~Odd(ramp_num) /\ all_distance >= LoopGate

ForkMayCome == /\ ramp_sm_state = 0
               /\ \/ fork_sm_state # 0
                  \/ Odd(ramp_num) /\ all_distance >= ForkGate

Flag(b) == IF b THEN 1 ELSE 0

Gate ==
  /\ pc = "gate" /\ reset_ele_signal = 0
  /\ pc' = "ramp"
  /\ enable' = [enable EXCEPT !["loop"] = Flag(L_loop_sm_state # 0 \/ LoopMayCome),
                              !["fork"] = Flag(ForkMayCome)]
  /\ open' = 0
  /\ UNCHANGED <<ramp_sm_state, start_sm_state, fork_sm_state, loops, lap,
                 en_start, user, dist, angle, crowded>>

\* f2 = {0}; the gate then lets a first loop in and no fork.
GateResets ==
  /\ pc = "gate" /\ reset_ele_signal = 1
  /\ pc' = "ramp"
  /\ reset_ele_signal' = 0
  /\ ramp_sm_state' = 0 /\ start_sm_state' = 0 /\ fork_sm_state' = 0
  /\ L_loop_sm_state' = 0 /\ R_loop_sm_state' = 0
  /\ ramp_num' = 0 /\ fork_num' = 0 /\ loop_num' = 0 /\ fork1_dir' = 0
  /\ en_start' = 0
  /\ enable' = [All EXCEPT !["fork"] = 0]
  /\ open' = 0 /\ crowded' = 0
  /\ UNCHANGED <<btn, presses, dist, angle>>

EnableAll == enable' = All /\ open' = 1

\* Entering a gated element; crowded remembers that the gate was bypassed.
Enter(x) == /\ enable' = Only(x)
            /\ crowded' = IF open = 1 THEN 1 ELSE crowded
            /\ open' = open

-----------------------------------------------------------------------------
(* The ramp is placed by distance alone: after the loop that makes loop_num *)
(* one more than the pairs of forks, or after the second fork of a pair.    *)

\* Mutant: as the code once was, without asking for the leg of the forks.
RampDueOnAnyLeg ==
  \/ loop_num = fork_num \div 2 + 1 /\ all_distance >= RampOut
  \/ loop_num = fork_num \div 2 /\ all_distance >= RampBack

\* Mutant: at least, instead of exactly, one loop more than pairs of forks.
RampDueWhenAhead ==
  \/ loop_num > fork_num \div 2 /\ all_distance >= RampOut
  \/ loop_num = fork_num \div 2 /\ all_distance >= RampBack /\ Odd(ramp_num)

RampDue ==
  \/ loop_num = fork_num \div 2 + 1 /\ all_distance >= RampOut
  \/ loop_num = fork_num \div 2 /\ all_distance >= RampBack /\ Odd(ramp_num)

RampBegins ==
  /\ pc = "ramp" /\ enable["ramp"] = 1 /\ ramp_sm_state = 0 /\ RampDue
  /\ pc' = "start"
  /\ ramp_sm_state' = 1 /\ all_distance' = 0 /\ enable' = Only("ramp")
  /\ UNCHANGED <<start_sm_state, fork_sm_state, loops, lap, en_start, user,
                 fork_distance, loop_distance, start_distance, angle, aux>>

\* Mutant: the elements are not enabled again.
RampEndsDeaf ==
  /\ pc = "ramp" /\ enable["ramp"] = 1 /\ ramp_sm_state = 1
  /\ all_distance >= RampLength /\ ramp_num < MaxCount
  /\ pc' = "start"
  /\ ramp_sm_state' = 0 /\ ramp_num' = ramp_num + 1 /\ all_distance' = 0
  /\ UNCHANGED <<enable, start_sm_state, fork_sm_state, loops, fork_num,
                 loop_num, fork1_dir, en_start, user, fork_distance,
                 loop_distance, start_distance, angle, aux>>

RampEnds ==
  /\ pc = "ramp" /\ enable["ramp"] = 1 /\ ramp_sm_state = 1
  /\ all_distance >= RampLength
  /\ ramp_num < MaxCount
  /\ pc' = "start"
  /\ ramp_sm_state' = 0 /\ ramp_num' = ramp_num + 1 /\ all_distance' = 0
  /\ EnableAll
  /\ UNCHANGED <<start_sm_state, fork_sm_state, loops, fork_num, loop_num,
                 fork1_dir, en_start, user, fork_distance, loop_distance,
                 start_distance, angle, crowded>>

RampPasses ==
  /\ pc = "ramp"
  /\ \/ enable["ramp"] = 0
     \/ ramp_sm_state = 0 /\ ~RampDue
     \/ ramp_sm_state = 1 /\ all_distance < RampLength
  /\ pc' = "start"
  /\ UNCHANGED <<enable, ramp_sm_state, start_sm_state, fork_sm_state, loops,
                 lap, en_start, user, dist, angle, aux>>

-----------------------------------------------------------------------------
(* Out of the start box: straight on, a turn, and back to the lap.  While   *)
(* the car is on its way out the frame ends here.                           *)

Starting == enable["start"] = 1 /\ en_start = 1

StartBegins ==
  /\ pc = "start" /\ Starting /\ start_sm_state = 0
  /\ pc' = "gate"
  /\ start_sm_state' = 1 /\ enable' = Only("start")
  /\ start_distance' = 0 /\ all_distance' = 0 /\ start_angle' = 0
  /\ UNCHANGED <<ramp_sm_state, fork_sm_state, loops, lap, en_start, user,
                 fork_distance, loop_distance, gyro_z_angle, aux>>

\* Mutant: only the angle ends the turn out of the start box.
StartDrivesByAngle ==
  /\ pc = "start" /\ Starting
  /\ pc' = "gate"
  /\ \/ /\ start_sm_state = 1 /\ start_distance > StartOut
        /\ start_sm_state' = 2 /\ start_distance' = 0
     \/ /\ start_sm_state = 2 /\ start_angle > StartAngle
        /\ start_sm_state' = 3 /\ start_distance' = start_distance
     \/ /\ \/ start_sm_state = 1 /\ start_distance <= StartOut
           \/ start_sm_state = 2 /\ start_angle <= StartAngle
        /\ UNCHANGED <<start_sm_state, start_distance>>
  /\ UNCHANGED <<enable, ramp_sm_state, fork_sm_state, loops, lap, en_start,
                 user, all_distance, fork_distance, loop_distance, angle, aux>>

StartDrives ==
  /\ pc = "start" /\ Starting
  /\ pc' = "gate"
  /\ \/ /\ start_sm_state = 1 /\ start_distance > StartOut
        /\ start_sm_state' = 2 /\ start_distance' = 0
     \/ /\ start_sm_state = 2
        /\ start_angle > StartAngle \/ start_distance > StartArc
        /\ start_sm_state' = 3 /\ start_distance' = start_distance
     \/ /\ \/ start_sm_state = 1 /\ start_distance <= StartOut
           \/ /\ start_sm_state = 2
              /\ start_angle <= StartAngle /\ start_distance <= StartArc
        /\ UNCHANGED <<start_sm_state, start_distance>>
  /\ UNCHANGED <<enable, ramp_sm_state, fork_sm_state, loops, lap, en_start,
                 user, all_distance, fork_distance, loop_distance, angle, aux>>

StartEnds ==
  /\ pc = "start" /\ Starting /\ start_sm_state = 3
  /\ pc' = "judge"
  /\ start_sm_state' = 0 /\ en_start' = 0
  /\ start_distance' = 0 /\ start_angle' = 0
  /\ EnableAll
  /\ UNCHANGED <<ramp_sm_state, fork_sm_state, loops, lap, user, all_distance,
                 fork_distance, loop_distance, gyro_z_angle, crowded>>

StartPasses ==
  /\ pc = "start" /\ ~Starting
  /\ pc' = "judge"
  /\ UNCHANGED <<enable, ramp_sm_state, start_sm_state, fork_sm_state, loops,
                 lap, en_start, user, dist, angle, aux>>

-----------------------------------------------------------------------------
(* A fork: recognised, or assumed some way after the first one of a pair;   *)
(* then one block per direction, which the function runs one after another. *)

ForkBegins ==
  /\ pc = "judge" /\ enable["fork"] = 1 /\ fork_sm_state = 0
  /\ fork_num < MaxCount
  /\ pc' = "right"
  /\ fork_num' = fork_num + 1 /\ fork_sm_state' = 1
  /\ fork_distance' = 0 /\ all_distance' = 0
  /\ Enter("fork")
  /\ UNCHANGED <<ramp_sm_state, start_sm_state, loops, ramp_num, loop_num,
                 fork1_dir, en_start, user, loop_distance, start_distance, angle>>

\* No fork in sight, and none assumed.
ForkPasses ==
  /\ pc = "judge"
  /\ \/ enable["fork"] = 0
     \/ fork_sm_state # 0
     \/ ~(Odd(fork_num) /\ fork_distance > ForkAuto)
  /\ pc' = IF enable["fork"] = 1 THEN "right" ELSE "loop"
  /\ UNCHANGED <<enable, ramp_sm_state, start_sm_state, fork_sm_state, loops,
                 lap, en_start, user, dist, angle, aux>>

\* The blocks for fork1_dir 1 and 0, and the stage after each.
Turns == [right |-> 1, left |-> 0]
After == [right |-> "left", left |-> "loop"]

ForkIn(side) ==
  /\ pc = side /\ fork1_dir = Turns[side]
  /\ fork_sm_state = 1 /\ fork_distance > ForkNear
  /\ pc' = After[side]
  /\ fork_sm_state' = 2 /\ fork_distance' = 0
  /\ UNCHANGED <<enable, ramp_sm_state, start_sm_state, loops, lap, en_start,
                 user, all_distance, loop_distance, start_distance, angle, aux>>

\* Mutant: as the code once was, every fork turns the direction.
ForkEndsTurning(side) ==
  /\ pc = side /\ fork1_dir = Turns[side]
  /\ fork_sm_state = 2 /\ fork_distance > ForkNear
  /\ pc' = After[side]
  /\ fork_sm_state' = 0 /\ fork_distance' = 0
  /\ fork1_dir' = 1 - fork1_dir
  /\ EnableAll
  /\ UNCHANGED <<ramp_sm_state, start_sm_state, loops, ramp_num, fork_num,
                 loop_num, en_start, user, all_distance, loop_distance,
                 start_distance, angle, crowded>>

\* Leaving the second fork of a pair turns the direction for the next pair.
ForkEnds(side) ==
  /\ pc = side /\ fork1_dir = Turns[side]
  /\ fork_sm_state = 2 /\ fork_distance > ForkNear
  /\ pc' = After[side]
  /\ fork_sm_state' = 0 /\ fork_distance' = 0
  /\ fork1_dir' = IF Odd(fork_num) THEN fork1_dir ELSE 1 - fork1_dir
  /\ EnableAll
  /\ UNCHANGED <<ramp_sm_state, start_sm_state, loops, ramp_num, fork_num,
                 loop_num, en_start, user, all_distance, loop_distance,
                 start_distance, angle, crowded>>

\* Not this side's turn, or the camera does not show the change yet.
ForkStays(side) ==
  /\ pc = side
  /\ pc' = After[side]
  /\ UNCHANGED <<enable, ramp_sm_state, start_sm_state, fork_sm_state, loops,
                 lap, en_start, user, dist, angle, aux>>

-----------------------------------------------------------------------------
(* A loop.  The patch of a loop runs its states in ascending order, so one  *)
(* frame may pass several of them; L_loop_patch and R_loop_patch differ in  *)
(* the angle that nearly closes the loop and in how the end is recognised.  *)

LoopEntered ==
  /\ pc' = "gate"
  /\ loop_num < MaxCount
  /\ loop_num' = loop_num + 1
  /\ gyro_z_angle' = 0 /\ all_distance' = 0 /\ loop_distance' = 0
  /\ Enter("loop")
  /\ UNCHANGED <<ramp_sm_state, start_sm_state, fork_sm_state, ramp_num,
                 fork_num, fork1_dir, en_start, user, fork_distance,
                 start_distance, start_angle>>

LoopBegins ==
  /\ pc = "loop" /\ enable["loop"] = 1 /\ ~LoopActive
  /\ \/ L_loop_sm_state' = 1 /\ R_loop_sm_state' = 0
     \/ L_loop_sm_state' = 0 /\ R_loop_sm_state' = 1
  /\ LoopEntered

\* The state a frame leaves a loop patch in, before the end is judged.
Patched(s, corner, edge, turned) ==
  LET in   == IF s \in {1, 3} /\ corner /\ loop_distance >= LoopNear THEN 2 ELSE s
      away == IF in = 2 /\ edge = "lost" THEN 4 ELSE in
      back == IF away = 4 /\ edge = "back" THEN 5 ELSE away
      near == IF back = 5 /\ gyro_z_angle >= turned THEN 6 ELSE back
  IN  IF near = 6 /\ gyro_z_angle >= TurnedBack THEN 7 ELSE near

\* Reaching the corner and closing the loop start a new distance.
LoopRolls(s, t) ==
  /\ pc' = "gate"
  /\ loop_distance' = IF (s \in {1, 3} /\ t \notin {1, 3}) \/ (s < 7 /\ t = 7)
                      THEN 0 ELSE loop_distance
  /\ UNCHANGED <<enable, ramp_sm_state, start_sm_state, fork_sm_state, lap,
                 en_start, user, all_distance, fork_distance, start_distance,
                 angle, aux>>

LoopLeft ==
  /\ pc' = "gate"
  /\ EnableAll
  /\ UNCHANGED <<ramp_sm_state, start_sm_state, fork_sm_state, lap, en_start,
                 user, dist, angle, crowded>>

LoopPassedOnLeft(edge) ==
  \/ edge = "back" /\ loop_distance > LoopSeen
  \/ loop_distance > LoopPassedL

LeftLoop(corner, edge) ==
  /\ pc = "loop" /\ enable["loop"] = 1 /\ L_loop_sm_state # 0
  /\ R_loop_sm_state' = R_loop_sm_state
  /\ IF L_loop_sm_state = 7 /\ LoopPassedOnLeft(edge)
     THEN L_loop_sm_state' = 0 /\ LoopLeft
     ELSE /\ L_loop_sm_state' = Patched(L_loop_sm_state, corner, edge, TurnedL)
          /\ LoopRolls(L_loop_sm_state, L_loop_sm_state')

RightLoop(corner, edge) ==
  /\ pc = "loop" /\ enable["loop"] = 1
  /\ L_loop_sm_state = 0 /\ R_loop_sm_state # 0
  /\ L_loop_sm_state' = L_loop_sm_state
  /\ IF R_loop_sm_state = 7 /\ loop_distance > LoopPassedR
     THEN R_loop_sm_state' = 0 /\ LoopLeft
     ELSE /\ R_loop_sm_state' = Patched(R_loop_sm_state, corner, edge, TurnedR)
          /\ LoopRolls(R_loop_sm_state, R_loop_sm_state')

\* Loops are not looked for, or none is in sight.
LoopPasses ==
  /\ pc = "loop"
  /\ enable["loop"] = 0 \/ ~LoopActive
  /\ pc' = "gate"
  /\ UNCHANGED <<enable, ramp_sm_state, start_sm_state, fork_sm_state, loops,
                 lap, en_start, user, dist, angle, aux>>

-----------------------------------------------------------------------------
Frame ==
  \/ Gate \/ GateResets
  \/ RampBegins \/ RampEnds \/ RampPasses
  \/ StartBegins \/ StartDrives \/ StartEnds \/ StartPasses
  \/ ForkBegins \/ ForkPasses
  \/ \E side \in {"right", "left"} :
       ForkIn(side) \/ ForkEnds(side) \/ ForkStays(side)
  \/ LoopBegins \/ LoopPasses
  \/ \E corner \in BOOLEAN, edge \in Edges :
       LeftLoop(corner, edge) \/ RightLoop(corner, edge)

Buttons == PressReset \/ ResetClears \/ AskStart

Next == Move \/ Turn \/ Buttons \/ Frame

Spec == Init /\ [][Next]_vars

-----------------------------------------------------------------------------
(* Properties.                                                             *)

\* Two road elements are never driven at once, unless one was recognised in
\* the very frame that ended another: enable_all_elements() then undid the
\* decision the gate had taken on the place on the lap.
OneElementAtATime ==
  crowded = 0 => /\ \A x, y \in Active : x = y
                 /\ L_loop_sm_state = 0 \/ R_loop_sm_state = 0

\* The order of the lap.  Forks belong to the leg between the first and the
\* second ramp crossing, loops to the other leg; only a bypassed gate puts
\* one on the wrong leg.  And the counts the ramp is placed by stay in step:
\* on the leg of the loops no pair of forks is ahead of the loops, on the leg
\* of the forks the loops are at most one ahead of the pairs.
LapOrder ==
  crowded = 0 =>
    /\ fork_sm_state # 0 => Odd(ramp_num)
    /\ LoopActive => ~Odd(ramp_num)
    /\ IF Odd(ramp_num) THEN 1 <= loop_num /\ loop_num <= fork_num \div 2 + 1
                        ELSE loop_num >= fork_num \div 2

\* The direction taken at a fork is that of its pair -- the first and second
\* forks go one way, the third and fourth the other -- although both blocks
\* of find_elements look at it in the frame that turns it.
DirectionOfPair ==
  fork1_dir = IF Odd((fork_num - Flag(fork_sm_state # 0)) \div 2) THEN 1 ELSE 0

\* When the car is on no element, the ramp and the start are looked for:
\* whichever element ends last has enabled them again.
NeverDeaf ==
  Active = {} => enable["ramp"] = 1 /\ enable["start"] = 1

\* A loop counted too many is never made up for: once the loops are ahead of
\* the forks by more than one on the leg of the loops, no ramp is due until
\* the driver presses RESET, or a fork slips past the gate.
Ahead == ~Odd(ramp_num) /\ ramp_sm_state = 0 /\ loop_num > fork_num \div 2 + 1

AheadStaysAhead ==
  [][Ahead /\ reset_ele_signal = 0 /\ crowded' = 0 => Ahead']_vars

\* Once the car drives out of the start box, it gets back to the lap: the
\* distances of the two phases end them whatever the gyroscope says.
StartIsLeft == start_sm_state # 0 ~> start_sm_state = 0

=============================================================================
