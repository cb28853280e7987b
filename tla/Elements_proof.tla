--------------------------- MODULE Elements_proof ---------------------------
(***************************************************************************)
(* Type correctness and the safety of the lap (module Elements), and what  *)
(* the recognition of a loop says of the image (module LoopJudge), for     *)
(* every choice of the thresholds and of the bounds.                       *)
(***************************************************************************)
EXTENDS Elements, LoopJudge, WellFoundedInduction, TLAPS

(***************************************************************************)
(* Types, in three groups: the control state, the counts of the lap, and   *)
(* the distances and angles.                                               *)
(***************************************************************************)
ControlOK ==
  /\ pc \in Stages
  /\ enable \in [Gated -> {0, 1}]
  /\ ramp_sm_state \in {0, 1}
  /\ start_sm_state \in 0 .. 3
  /\ fork_sm_state \in 0 .. 2
  /\ L_loop_sm_state \in 0 .. 7 /\ R_loop_sm_state \in 0 .. 7
  /\ en_start \in {0, 1} /\ reset_ele_signal \in {0, 1}
  /\ btn \in {"ready", "clearing"}
  /\ open \in {0, 1} /\ crowded \in {0, 1}

CountsOK ==
  /\ ramp_num \in 0 .. MaxCount /\ fork_num \in 0 .. MaxCount
  /\ loop_num \in 0 .. MaxCount /\ fork1_dir \in {0, 1}
  /\ presses \in 0 .. MaxPresses

MeasuresOK ==
  /\ all_distance \in 0 .. MaxDistance /\ fork_distance \in 0 .. MaxDistance
  /\ loop_distance \in 0 .. MaxDistance /\ start_distance \in 0 .. MaxDistance
  /\ gyro_z_angle \in 0 .. FullTurn - 1 /\ start_angle \in 0 .. MaxDistance

\* A loop patch never leaves a loop, and knows only the states 1 to 7.
LEMMA PatchedRange ==
  ASSUME NEW s \in 1 .. 7, NEW corner \in BOOLEAN, NEW edge \in Edges,
         NEW turned \in Nat
  PROVE  Patched(s, corner, edge, turned) \in 1 .. 7
  BY DEF Patched

\* The three groups of types are kept by every step.
LEMMA ControlKept ==
  ControlOK /\ [Next]_vars => ControlOK'
<1> SUFFICES ASSUME ControlOK, [Next]_vars PROVE ControlOK'
  OBVIOUS
<1> USE DEF ControlOK, Stages, Gated
<1>1. CASE Move \/ Turn
  BY <1>1 DEF Move, Turn, loops, user, aux
<1>2. CASE Buttons
  BY <1>2 DEF Buttons, PressReset, ResetClears, AskStart, loops, aux
<1>3. CASE Frame
  <2>1. CASE Gate
    BY <2>1 DEF Gate, Flag, loops, user
  <2>2. CASE GateResets
    BY <2>2 DEF GateResets, All
  <2>3. CASE RampBegins \/ RampEnds \/ RampPasses
    BY <2>3 DEF RampBegins, RampEnds, RampPasses, EnableAll, All, Only,
                loops, user, aux
  <2>4. CASE StartBegins \/ StartDrives \/ StartEnds \/ StartPasses
    BY <2>4 DEF StartBegins, StartDrives, StartEnds, StartPasses, EnableAll,
                All, Only, loops, user, aux
  <2>5. CASE ForkBegins \/ ForkPasses
    BY <2>5 DEF ForkBegins, ForkPasses, Enter, Only, loops, user, aux
  <2>6. ASSUME NEW side \in {"right", "left"},
               ForkIn(side) \/ ForkEnds(side) \/ ForkStays(side)
        PROVE  ControlOK'
    BY <2>6 DEF ForkIn, ForkEnds, ForkStays, After, EnableAll, All,
                loops, user, aux
  <2>7. CASE LoopBegins \/ LoopPasses
    BY <2>7 DEF LoopBegins, LoopEntered, LoopPasses, Enter, Only, loops, user, aux
  <2>8. ASSUME NEW corner \in BOOLEAN, NEW edge \in Edges,
               LeftLoop(corner, edge) \/ RightLoop(corner, edge)
        PROVE  ControlOK'
    <3>1. L_loop_sm_state # 0 =>
            Patched(L_loop_sm_state, corner, edge, TurnedL) \in 0 .. 7
      BY PatchedRange, ThresholdsAssumption
    <3>2. R_loop_sm_state # 0 =>
            Patched(R_loop_sm_state, corner, edge, TurnedR) \in 0 .. 7
      BY PatchedRange, ThresholdsAssumption
    <3> QED
      BY <2>8, <3>1, <3>2 DEF LeftLoop, RightLoop, LoopLeft, LoopRolls,
         EnableAll, All, user, aux
  <2> QED BY <1>3, <2>1, <2>2, <2>3, <2>4, <2>5, <2>6, <2>7, <2>8 DEF Frame
<1>4. CASE UNCHANGED vars
  BY <1>4 DEF vars, loops, user, aux
<1> QED BY <1>1, <1>2, <1>3, <1>4 DEF Next

LEMMA CountsKept ==
  CountsOK /\ [Next]_vars => CountsOK'
<1> SUFFICES ASSUME CountsOK, [Next]_vars PROVE CountsOK'
  OBVIOUS
<1> USE BoundsAssumption DEF CountsOK
<1>1. CASE Move \/ Turn
  BY <1>1 DEF Move, Turn, lap, user
<1>2. CASE Buttons
  BY <1>2 DEF Buttons, PressReset, ResetClears, AskStart, lap
<1>3. CASE Frame
  <2>1. CASE Gate \/ GateResets
    BY <2>1 DEF Gate, GateResets, lap, user
  <2>2. CASE RampBegins \/ RampEnds \/ RampPasses
    BY <2>2 DEF RampBegins, RampEnds, RampPasses, lap, user
  <2>3. CASE StartBegins \/ StartDrives \/ StartEnds \/ StartPasses
    BY <2>3 DEF StartBegins, StartDrives, StartEnds, StartPasses, lap, user
  <2>4. CASE ForkBegins \/ ForkPasses
    BY <2>4 DEF ForkBegins, ForkPasses, lap, user
  <2>5. ASSUME NEW side \in {"right", "left"},
               ForkIn(side) \/ ForkEnds(side) \/ ForkStays(side)
        PROVE  CountsOK'
    BY <2>5 DEF ForkIn, ForkEnds, ForkStays, lap, user
  <2>6. CASE LoopBegins \/ LoopPasses
    BY <2>6 DEF LoopBegins, LoopEntered, LoopPasses, lap, user
  <2>7. ASSUME NEW corner \in BOOLEAN, NEW edge \in Edges,
               LeftLoop(corner, edge) \/ RightLoop(corner, edge)
        PROVE  CountsOK'
    BY <2>7 DEF LeftLoop, RightLoop, LoopLeft, LoopRolls, lap, user
  <2> QED BY <1>3, <2>1, <2>2, <2>3, <2>4, <2>5, <2>6, <2>7 DEF Frame
<1>4. CASE UNCHANGED vars
  BY <1>4 DEF vars, lap, user
<1> QED BY <1>1, <1>2, <1>3, <1>4 DEF Next

LEMMA MeasuresKept ==
  MeasuresOK /\ [Next]_vars => MeasuresOK'
<1> SUFFICES ASSUME MeasuresOK, [Next]_vars PROVE MeasuresOK'
  OBVIOUS
<1> USE ThresholdsAssumption DEF MeasuresOK
<1>1. CASE Move
  BY <1>1 DEF Move, Further, angle
<1>2. CASE Turn
  <2>1. (gyro_z_angle + 1) % FullTurn \in 0 .. FullTurn - 1
    OBVIOUS
  <2> QED BY <1>2, <2>1 DEF Turn, Further, dist
<1>3. CASE Buttons
  BY <1>3 DEF Buttons, PressReset, ResetClears, AskStart, dist, angle
<1>4. CASE Frame
  <2>1. CASE Gate \/ GateResets
    BY <2>1 DEF Gate, GateResets, dist, angle
  <2>2. CASE RampBegins \/ RampEnds \/ RampPasses
    BY <2>2 DEF RampBegins, RampEnds, RampPasses, dist, angle
  <2>3. CASE StartBegins \/ StartDrives \/ StartEnds \/ StartPasses
    BY <2>3 DEF StartBegins, StartDrives, StartEnds, StartPasses, dist, angle
  <2>4. CASE ForkBegins \/ ForkPasses
    BY <2>4 DEF ForkBegins, ForkPasses, dist, angle
  <2>5. ASSUME NEW side \in {"right", "left"},
               ForkIn(side) \/ ForkEnds(side) \/ ForkStays(side)
        PROVE  MeasuresOK'
    BY <2>5 DEF ForkIn, ForkEnds, ForkStays, dist, angle
  <2>6. CASE LoopBegins \/ LoopPasses
    BY <2>6 DEF LoopBegins, LoopEntered, LoopPasses, dist, angle
  <2>7. ASSUME NEW corner \in BOOLEAN, NEW edge \in Edges,
               LeftLoop(corner, edge) \/ RightLoop(corner, edge)
        PROVE  MeasuresOK'
    BY <2>7 DEF LeftLoop, RightLoop, LoopLeft, LoopRolls, dist, angle
  <2> QED BY <1>4, <2>1, <2>2, <2>3, <2>4, <2>5, <2>6, <2>7 DEF Frame
<1>5. CASE UNCHANGED vars
  BY <1>5 DEF vars, dist, angle
<1> QED BY <1>1, <1>2, <1>3, <1>4, <1>5 DEF Next

LEMMA TypeIsGroups ==
  TypeOK <=> ControlOK /\ CountsOK /\ MeasuresOK
  BY DEF TypeOK, ControlOK, CountsOK, MeasuresOK

LEMMA InitTyped ==
  Init => TypeOK
<1> SUFFICES ASSUME Init PROVE TypeOK
  OBVIOUS
<1>1. ControlOK
  BY DEF Init, ControlOK, Stages, All
<1>2. CountsOK
  BY BoundsAssumption DEF Init, CountsOK
<1>3. MeasuresOK
  BY ThresholdsAssumption DEF Init, MeasuresOK
<1> QED BY <1>1, <1>2, <1>3, TypeIsGroups

\* Every variable of find_elements keeps to the values its code gives it.
THEOREM ElementsTypeCorrect == Spec => []TypeOK
<1>1. Init => TypeOK
  BY InitTyped
<1>2. TypeOK /\ [Next]_vars => TypeOK'
  BY ControlKept, CountsKept, MeasuresKept
     DEF TypeOK, ControlOK, CountsOK, MeasuresOK
<1> QED BY <1>1, <1>2, PTL DEF Spec

-----------------------------------------------------------------------------
(***************************************************************************)
(* Safety.  The properties are not inductive by themselves: that no second *)
(* element is entered rests on what the gate left in the enable flags at   *)
(* the start of the frame (GateHolds), on every element having disabled    *)
(* the others (Disabled), and on the place of the ramp in the lap          *)
(* (RampPlaced), which is what keeps the leg of the loops and the leg of   *)
(* the forks apart.                                                        *)
(***************************************************************************)
Middle == {"ramp", "start", "judge", "right", "left", "loop"}

\* While the car leaves the start box a frame never reaches forks and loops.
StartAlone ==
  start_sm_state # 0 =>
    /\ en_start = 1 /\ enable["start"] = 1 /\ enable["ramp"] = 0
    /\ pc \in {"gate", "ramp", "start"}

\* At most one kind of element, kind by kind.
Apart ==
  /\ L_loop_sm_state = 0 \/ R_loop_sm_state = 0
  /\ ramp_sm_state # 0 => start_sm_state = 0 /\ fork_sm_state = 0 /\ ~LoopActive
  /\ start_sm_state # 0 => fork_sm_state = 0 /\ ~LoopActive
  /\ fork_sm_state # 0 => ~LoopActive

\* An active element has disabled the ramp and the start.
Disabled ==
  /\ enable["ramp"] = 1 =>
       start_sm_state = 0 /\ fork_sm_state = 0 /\ ~LoopActive
  /\ enable["start"] = 1 =>
       ramp_sm_state = 0 /\ fork_sm_state = 0 /\ ~LoopActive

\* Until something is enabled again, a frame stands by its gate's decision.
GateHolds ==
  pc \in Middle /\ open = 0 =>
    /\ enable["fork"] = 1 =>
         ramp_sm_state = 0 /\ (fork_sm_state # 0 \/ Odd(ramp_num))
    /\ enable["loop"] = 1 =>
         \/ LoopActive
         \/ ramp_sm_state = 0 /\ (loop_num = 0 \/ ~Odd(ramp_num))

\* The ramp is crossed where the lap has it.
RampPlaced ==
  ramp_sm_state # 0 =>
    \/ loop_num = fork_num \div 2 + 1
    \/ loop_num = fork_num \div 2 /\ Odd(ramp_num)

Leg == /\ fork_sm_state # 0 => Odd(ramp_num)
       /\ LoopActive => ~Odd(ramp_num)

Order == IF Odd(ramp_num)
         THEN 1 <= loop_num /\ loop_num <= fork_num \div 2 + 1
         ELSE loop_num >= fork_num \div 2

Uncrowded == crowded = 0 =>
               Apart /\ Disabled /\ GateHolds /\ RampPlaced /\ Leg /\ Order

SafeInv == StartAlone /\ NeverDeaf /\ DirectionOfPair /\ Uncrowded

LEMMA StartAloneKept ==
  ControlOK /\ StartAlone /\ [Next]_vars => StartAlone'
<1> SUFFICES ASSUME ControlOK, StartAlone, [Next]_vars PROVE StartAlone'
  OBVIOUS
<1> USE DEF StartAlone
<1>1. CASE Move \/ Turn
  BY <1>1 DEF Move, Turn
<1>2. CASE Buttons
  BY <1>2 DEF Buttons, PressReset, ResetClears, AskStart
<1>3. CASE Frame
  <2>1. CASE Gate
    BY <2>1 DEF Gate, ControlOK, Gated
  <2>2. CASE GateResets
    BY <2>2 DEF GateResets
  <2>3. CASE RampBegins \/ RampEnds \/ RampPasses
    BY <2>3 DEF RampBegins, RampEnds, RampPasses
  <2>4. CASE StartBegins \/ StartDrives \/ StartEnds \/ StartPasses
    BY <2>4 DEF StartBegins, StartDrives, StartEnds, StartPasses, Starting,
                EnableAll, All, Only, Gated, ControlOK
  <2>5. CASE ForkBegins \/ ForkPasses
    BY <2>5 DEF ForkBegins, ForkPasses
  <2>6. ASSUME NEW side \in {"right", "left"},
               ForkIn(side) \/ ForkEnds(side) \/ ForkStays(side)
        PROVE  StartAlone'
    BY <2>6 DEF ForkIn, ForkEnds, ForkStays
  <2>7. CASE LoopBegins \/ LoopPasses
    BY <2>7 DEF LoopBegins, LoopEntered, LoopPasses
  <2>8. ASSUME NEW corner \in BOOLEAN, NEW edge \in Edges,
               LeftLoop(corner, edge) \/ RightLoop(corner, edge)
        PROVE  StartAlone'
    BY <2>8 DEF LeftLoop, RightLoop, LoopLeft, LoopRolls
  <2> QED BY <1>3, <2>1, <2>2, <2>3, <2>4, <2>5, <2>6, <2>7, <2>8 DEF Frame
<1>4. CASE UNCHANGED vars
  BY <1>4 DEF vars
<1> QED BY <1>1, <1>2, <1>3, <1>4 DEF Next

LEMMA DeafKept ==
  ControlOK /\ NeverDeaf /\ [Next]_vars => NeverDeaf'
<1> SUFFICES ASSUME ControlOK, NeverDeaf, [Next]_vars PROVE NeverDeaf'
  OBVIOUS
<1> DEFINE Somewhere == \/ ramp_sm_state # 0 \/ start_sm_state # 0
                        \/ fork_sm_state # 0 \/ LoopActive
           Hears == enable["ramp"] = 1 /\ enable["start"] = 1
<1>a. NeverDeaf <=> Somewhere \/ Hears
  BY DEF NeverDeaf, Active, Gated
<1>b. NeverDeaf' <=> Somewhere' \/ Hears'
  BY DEF NeverDeaf, Active, Gated, LoopActive
<1>c. SUFFICES ASSUME Somewhere \/ Hears PROVE Somewhere' \/ Hears'
  BY <1>a, <1>b
<1> USE <1>c DEF LoopActive
<1>1. CASE Move \/ Turn
  BY <1>1 DEF Move, Turn, loops
<1>2. CASE Buttons
  BY <1>2 DEF Buttons, PressReset, ResetClears, AskStart, loops
<1>3. CASE Frame
  <2>1. CASE Gate
    BY <2>1 DEF Gate, loops, ControlOK, Gated
  <2>2. CASE GateResets
    BY <2>2 DEF GateResets, All, Gated
  <2>3. CASE RampBegins \/ RampEnds \/ RampPasses
    BY <2>3 DEF RampBegins, RampEnds, RampPasses, EnableAll, All, Gated, loops
  <2>4. CASE StartBegins \/ StartDrives \/ StartEnds \/ StartPasses
    BY <2>4 DEF StartBegins, StartDrives, StartEnds, StartPasses,
                EnableAll, All, Gated, loops
  <2>5. CASE ForkBegins \/ ForkPasses
    BY <2>5 DEF ForkBegins, ForkPasses, loops
  <2>6. ASSUME NEW side \in {"right", "left"},
               ForkIn(side) \/ ForkEnds(side) \/ ForkStays(side)
        PROVE  Somewhere' \/ Hears'
    BY <2>6 DEF ForkIn, ForkEnds, ForkStays, EnableAll, All, Gated, loops
  <2>7. CASE LoopBegins \/ LoopPasses
    BY <2>7 DEF LoopBegins, LoopEntered, LoopPasses, loops
  <2>8. ASSUME NEW corner \in BOOLEAN, NEW edge \in Edges,
               LeftLoop(corner, edge) \/ RightLoop(corner, edge)
        PROVE  Somewhere' \/ Hears'
    <3>1. L_loop_sm_state # 0 =>
            Patched(L_loop_sm_state, corner, edge, TurnedL) # 0
      BY PatchedRange, ThresholdsAssumption DEF ControlOK
    <3>2. R_loop_sm_state # 0 =>
            Patched(R_loop_sm_state, corner, edge, TurnedR) # 0
      BY PatchedRange, ThresholdsAssumption DEF ControlOK
    <3> QED
      BY <2>8, <3>1, <3>2 DEF LeftLoop, RightLoop, LoopLeft, LoopRolls,
         EnableAll, All, Gated
  <2> QED BY <1>3, <2>1, <2>2, <2>3, <2>4, <2>5, <2>6, <2>7, <2>8 DEF Frame
<1>4. CASE UNCHANGED vars
  BY <1>4 DEF vars, loops
<1> QED BY <1>1, <1>2, <1>3, <1>4 DEF Next

LEMMA DirectionKept ==
  ControlOK /\ CountsOK /\ DirectionOfPair /\ [Next]_vars => DirectionOfPair'
<1> SUFFICES ASSUME ControlOK, CountsOK, DirectionOfPair, [Next]_vars
             PROVE  DirectionOfPair'
  OBVIOUS
<1> USE DEF DirectionOfPair, Flag, Odd
<1>1. CASE Move \/ Turn
  BY <1>1 DEF Move, Turn, lap
<1>2. CASE Buttons
  BY <1>2 DEF Buttons, PressReset, ResetClears, AskStart, lap
<1>3. CASE Frame
  <2>1. CASE Gate \/ GateResets
    BY <2>1 DEF Gate, GateResets, lap
  <2>2. CASE RampBegins \/ RampEnds \/ RampPasses
    BY <2>2 DEF RampBegins, RampEnds, RampPasses, lap
  <2>3. CASE StartBegins \/ StartDrives \/ StartEnds \/ StartPasses
    BY <2>3 DEF StartBegins, StartDrives, StartEnds, StartPasses, lap
  <2>4. CASE ForkBegins \/ ForkPasses
    BY <2>4 DEF ForkBegins, ForkPasses, lap, CountsOK
  <2>5. ASSUME NEW side \in {"right", "left"},
               ForkIn(side) \/ ForkEnds(side) \/ ForkStays(side)
        PROVE  DirectionOfPair'
    <3>1. CASE ForkEnds(side)
      BY <2>5, <3>1 DEF ForkEnds, CountsOK
    <3> QED BY <2>5, <3>1 DEF ForkIn, ForkStays, lap
  <2>6. CASE LoopBegins \/ LoopPasses
    BY <2>6 DEF LoopBegins, LoopEntered, LoopPasses, lap
  <2>7. ASSUME NEW corner \in BOOLEAN, NEW edge \in Edges,
               LeftLoop(corner, edge) \/ RightLoop(corner, edge)
        PROVE  DirectionOfPair'
    BY <2>7 DEF LeftLoop, RightLoop, LoopLeft, LoopRolls, lap
  <2> QED BY <1>3, <2>1, <2>2, <2>3, <2>4, <2>5, <2>6, <2>7 DEF Frame
<1>4. CASE UNCHANGED vars
  BY <1>4 DEF vars, lap
<1> QED BY <1>1, <1>2, <1>3, <1>4 DEF Next

\* The heart of it: as long as no gate was bypassed, the six parts of
\* Uncrowded carry each other through every stage of the frame.
Lap == Apart /\ Disabled /\ GateHolds /\ RampPlaced /\ Leg /\ Order

LEMMA UncrowdedKept ==
  ASSUME ControlOK, CountsOK, StartAlone, Uncrowded, [Next]_vars
  PROVE  Uncrowded'
<1> SUFFICES ASSUME crowded' = 0 PROVE Lap'
  BY DEF Uncrowded, Lap
<1> USE DEF Lap, Apart, Disabled, GateHolds, RampPlaced, Leg, Order, Middle,
            LoopActive, Odd, ControlOK
<1>L. ASSUME crowded = 0 PROVE Lap
  BY <1>L DEF Uncrowded
<1>1. CASE Move \/ Turn
  BY <1>1, <1>L DEF Move, Turn, loops, lap, aux
<1>2. CASE Buttons
  BY <1>2, <1>L DEF Buttons, PressReset, ResetClears, AskStart, loops, lap, aux
<1>3. CASE Frame
  <2>1. CASE Gate
    BY <2>1, <1>L DEF Gate, LoopMayCome, ForkMayCome, Flag, loops, lap, Gated
  <2>2. CASE GateResets
    BY <2>2 DEF GateResets, All, Gated
  <2>3. CASE RampBegins
    BY <2>3, <1>L DEF RampBegins, RampDue, Only, Gated, loops, lap, aux
  <2>4. CASE RampEnds
    BY <2>4, <1>L DEF RampEnds, EnableAll, All, Gated, loops, CountsOK
  <2>5. CASE RampPasses
    BY <2>5, <1>L DEF RampPasses, loops, lap, aux
  <2>6. CASE StartBegins
    BY <2>6, <1>L DEF StartBegins, Starting, Only, Gated, loops, lap, aux
  <2>7. CASE StartDrives
    BY <2>7, <1>L DEF StartDrives, loops, lap, aux
  <2>8. CASE StartEnds
    BY <2>8, <1>L DEF StartEnds, EnableAll, All, Gated, loops, lap
  <2>9. CASE StartPasses
    BY <2>9, <1>L DEF StartPasses, loops, lap, aux
  <2>10. CASE ForkBegins
    BY <2>10, <1>L DEF ForkBegins, Enter, Only, Gated, loops, StartAlone, CountsOK
  <2>11. CASE ForkPasses
    BY <2>11, <1>L DEF ForkPasses, loops, lap, aux
  <2>12. ASSUME NEW side \in {"right", "left"}, ForkIn(side) \/ ForkStays(side)
         PROVE  Lap'
    BY <2>12, <1>L DEF ForkIn, ForkStays, After, loops, lap, aux
  <2>13. ASSUME NEW side \in {"right", "left"}, ForkEnds(side)
         PROVE  Lap'
    BY <2>13, <1>L DEF ForkEnds, EnableAll, All, Gated, loops
  <2>14. CASE LoopBegins
    BY <2>14, <1>L DEF LoopBegins, LoopEntered, Enter, Only, Gated, StartAlone, CountsOK
  <2>15. CASE LoopPasses
    BY <2>15, <1>L DEF LoopPasses, loops, lap, aux
  <2>16. ASSUME NEW corner \in BOOLEAN, NEW edge \in Edges,
                LeftLoop(corner, edge) \/ RightLoop(corner, edge)
         PROVE  Lap'
    <3>1. L_loop_sm_state # 0 =>
            Patched(L_loop_sm_state, corner, edge, TurnedL) # 0
      BY PatchedRange, ThresholdsAssumption
    <3>2. R_loop_sm_state # 0 =>
            Patched(R_loop_sm_state, corner, edge, TurnedR) # 0
      BY PatchedRange, ThresholdsAssumption
    <3> QED
      BY <2>16, <1>L, <3>1, <3>2 DEF LeftLoop, RightLoop, LoopLeft, LoopRolls,
         EnableAll, All, Gated, lap, aux
  <2> QED
    BY <1>3, <2>1, <2>2, <2>3, <2>4, <2>5, <2>6, <2>7, <2>8, <2>9, <2>10,
       <2>11, <2>12, <2>13, <2>14, <2>15, <2>16 DEF Frame
<1>4. CASE UNCHANGED vars
  BY <1>4, <1>L DEF vars, loops, lap, aux
<1> QED BY <1>1, <1>2, <1>3, <1>4 DEF Next

Inv == ControlOK /\ CountsOK /\ SafeInv

LEMMA InvInductive == Spec => []Inv
<1>1. Init => Inv
  <2> SUFFICES ASSUME Init PROVE Inv
    OBVIOUS
  <2>1. ControlOK /\ CountsOK
    BY InitTyped, TypeIsGroups
  <2>2. StartAlone
    BY DEF Init, StartAlone
  <2>3. NeverDeaf
    BY DEF Init, NeverDeaf, All, Gated
  <2>4. DirectionOfPair
    BY DEF Init, DirectionOfPair, Odd, Flag
  <2>5. Uncrowded
    BY DEF Init, Uncrowded, Apart, Disabled, GateHolds, RampPlaced, Leg,
           Order, Middle, LoopActive, Odd
  <2> QED BY <2>1, <2>2, <2>3, <2>4, <2>5 DEF Inv, SafeInv
<1>2. Inv /\ [Next]_vars => Inv'
  BY ControlKept, CountsKept, StartAloneKept, DeafKept, DirectionKept,
     UncrowdedKept DEF Inv, SafeInv
<1> QED BY <1>1, <1>2, PTL DEF Spec

\* Two road elements are never driven at once unless a gate was bypassed.
THEOREM ElementsApart == Spec => []OneElementAtATime
<1>1. Inv => OneElementAtATime
  BY DEF Inv, SafeInv, Uncrowded, Apart, OneElementAtATime, Active, Gated,
         ControlOK
<1> QED BY <1>1, InvInductive, PTL

\* Loops and forks keep to their legs, and the counts to the lap's order.
THEOREM LapKept == Spec => []LapOrder
<1>1. Inv => LapOrder
  BY DEF Inv, SafeInv, Uncrowded, Leg, Order, LapOrder
<1> QED BY <1>1, InvInductive, PTL

\* The direction of a fork is that of its pair, bypassed gates or not.
THEOREM DirectionKeeps == Spec => []DirectionOfPair
<1>1. Inv => DirectionOfPair
  BY DEF Inv, SafeInv
<1> QED BY <1>1, InvInductive, PTL

\* Whatever ends last has enabled the ramp and the start again.
THEOREM AlwaysHears == Spec => []NeverDeaf
<1>1. Inv => NeverDeaf
  BY DEF Inv, SafeInv
<1> QED BY <1>1, InvInductive, PTL

\* A lap that counted a loop too many stays without a ramp until RESET.
THEOREM NeverMadeUp == Spec => AheadStaysAhead
<1>1. ASSUME Inv, [Next]_vars, Ahead, reset_ele_signal = 0, crowded' = 0
      PROVE  Ahead'
  <2> USE <1>1 DEF Ahead, Odd, Inv, ControlOK, CountsOK
  <2>L. ASSUME crowded = 0 PROVE GateHolds /\ Leg
    BY <2>L DEF SafeInv, Uncrowded
  <2>1. CASE Move \/ Turn \/ Buttons
    BY <2>1 DEF Move, Turn, Buttons, PressReset, ResetClears, AskStart, lap
  <2>2. CASE Gate \/ GateResets
    BY <2>2 DEF Gate, GateResets, lap
  <2>3. CASE RampBegins \/ RampEnds \/ RampPasses
    BY <2>3 DEF RampBegins, RampDue, RampEnds, RampPasses, lap
  <2>4. CASE StartBegins \/ StartDrives \/ StartEnds \/ StartPasses
    BY <2>4 DEF StartBegins, StartDrives, StartEnds, StartPasses, lap
  <2>5. CASE ForkBegins
    BY <2>5, <2>L DEF ForkBegins, Enter, GateHolds, Middle
  <2>6. CASE ForkPasses
    BY <2>6 DEF ForkPasses, lap
  <2>7. ASSUME NEW side \in {"right", "left"},
               ForkIn(side) \/ ForkEnds(side) \/ ForkStays(side)
        PROVE  Ahead'
    BY <2>7 DEF ForkIn, ForkEnds, ForkStays, lap
  <2>8. CASE LoopBegins \/ LoopPasses
    BY <2>8 DEF LoopBegins, LoopEntered, LoopPasses, lap
  <2>9. ASSUME NEW corner \in BOOLEAN, NEW edge \in Edges,
               LeftLoop(corner, edge) \/ RightLoop(corner, edge)
        PROVE  Ahead'
    BY <2>9 DEF LeftLoop, RightLoop, LoopLeft, LoopRolls, lap
  <2>10. CASE UNCHANGED vars
    BY <2>10 DEF vars, lap
  <2> QED
    BY <2>1, <2>2, <2>3, <2>4, <2>5, <2>6, <2>7, <2>8, <2>9, <2>10
       DEF Next, Frame
<1>2. Inv /\ [Next]_vars =>
        [Ahead /\ reset_ele_signal = 0 /\ crowded' = 0 => Ahead']_vars
  BY <1>1
<1> QED BY <1>2, InvInductive, PTL DEF Spec, AheadStaysAhead

-----------------------------------------------------------------------------
(***************************************************************************)
(* The loop judge.                                                         *)
(***************************************************************************)

\* A set of integers with a bound has a largest element.
LEMMA LastRow ==
  ASSUME NEW m \in Int, NEW n \in Int, NEW S, S \subseteq m .. n, S # {}
  PROVE  \E x \in S : \A y \in S : x >= y
<1> DEFINE T == {k \in Nat : n - k \in S}
<1>1. T # {}
  <2>1. PICK x \in S : TRUE
    OBVIOUS
  <2>2. n - x \in Nat /\ n - (n - x) = x
    BY <2>1
  <2> QED BY <2>2
<1>2. PICK k \in T : \A i \in T : <<i, k>> \notin OpToRel(<, Nat)
  BY <1>1, WFMin, NatLessThanWellFounded, Zenon
<1>3. \A i \in T : ~(i < k)
  BY <1>2, Zenon DEF OpToRel
<1>4. ASSUME NEW y \in S PROVE n - k >= y
  <2>1. n - y \in Nat /\ n - (n - y) = y /\ y \in Int /\ k \in Nat
    BY <1>4
  <2>2. n - y \in T
    BY <2>1
  <2>3. ~(n - y < k)
    BY <1>3, <2>2
  <2> QED BY <2>1, <2>3
<1> QED BY <1>4

\* What a search from the bottom up returns: 0, or the lowest row there is.
LEMMA FirstFound ==
  ASSUME NEW m \in Int, NEW n \in Int, NEW S, S \subseteq m .. n
  PROVE  \/ S = {} /\ FirstOf(S) = 0
         \/ FirstOf(S) \in S /\ \A y \in S : FirstOf(S) >= y
<1>1. CASE S = {}
  BY <1>1 DEF FirstOf
<1>2. CASE S # {}
  <2>1. \E x \in S : \A y \in S : x >= y
    BY <1>2, LastRow
  <2>2. Max(S) \in S /\ \A y \in S : Max(S) >= y
    BY <2>1, Zenon DEF Max
  <2> QED BY <1>2, <2>2 DEF FirstOf
<1> QED BY <1>1, <1>2

\* An unbroken edge is seen from the upper row up to the one above the lower.
LEMMA UnbrokenRows ==
  ASSUME NEW seen, NEW a \in Int, NEW b \in Int, Unbroken(seen, a, b)
  PROVE  /\ a < b => a .. b - 1 \subseteq seen
         /\ b < a => b .. a - 1 \subseteq seen
         /\ a # b
<1>1. a # b /\ Min({a, b}) .. Max({a, b}) - 1 \subseteq seen
  BY DEF Unbroken
<1>2. ASSUME NEW x \in Int, NEW y \in Int, x < y, {x, y} = {a, b}
      PROVE  Min({a, b}) = x /\ Max({a, b}) = y
  <2>1. Min({x, y}) \in {x, y} /\ \A z \in {x, y} : Min({x, y}) <= z
    <3>1. \E u \in {x, y} : \A z \in {x, y} : u <= z
      BY <1>2
    <3> QED BY <3>1, Zenon DEF Min
  <2>2. Max({x, y}) \in {x, y} /\ \A z \in {x, y} : Max({x, y}) >= z
    <3>1. \E u \in {x, y} : \A z \in {x, y} : u >= z
      BY <1>2
    <3> QED BY <3>1, Zenon DEF Max
  <2> QED BY <1>2, <2>1, <2>2
<1>3. CASE a < b
  <2>1. {a, b} = {a, b}
    OBVIOUS
  <2> QED BY <1>1, <1>2, <1>3, <2>1
<1>4. CASE b < a
  <2>1. {b, a} = {a, b}
    OBVIOUS
  <2>2. Min({a, b}) = b /\ Max({a, b}) = a
    BY <1>2, <1>4, <2>1
  <2> QED BY <1>1, <1>4, <2>2
<1> QED BY <1>1, <1>3, <1>4

\* The rows searched so far show something, and the judge has not spoken
\* before the frame is complete.
ImageOK ==
  /\ row \in 0 .. Bottom
  /\ shown \in [row + 1 .. Bottom -> RowKinds]

JudgeInv ==
  /\ ImageOK
  /\ row > 0 => loop_flag = 0
  /\ RowsWereFound
  /\ LoopIsThere

\* The flags of the rows that are never written are clear.
LEMMA RowsRead ==
  ASSUME ImageOK, row = 0
  PROVE  /\ InnerSeen \subseteq 1 .. Bottom
         /\ OuterSeen \subseteq 1 .. Bottom
         /\ \A r : Row(r).tag \in Int
<1> USE KindsAssumption DEF ImageOK
<1>1. \A r \in 1 .. Bottom : Row(r) = shown[r] /\ shown[r] \in RowKinds
  BY DEF Row
<1>2. \A r : r \notin 1 .. Bottom =>
        Row(r) = [inner |-> 0, outer |-> "lost", tag |-> 0, traced |-> FALSE]
  BY DEF Row
<1>3. \A r : Row(r).tag \in Int
  BY <1>1, <1>2
<1> QED BY <1>2, <1>3 DEF InnerSeen, OuterSeen

\* A row found is where its search looked, and passed its tests.
LEMMA DownIs ==
  ASSUME NEW t \in Nat, DownRow(t) # 0
  PROVE  /\ DownRow(t) \in t + 1 .. DownFirst
         /\ \A d \in DownLost : DownRow(t) + d \notin InnerSeen
<1> DEFINE S == {i \in t + 1 .. DownFirst :
                   /\ \A d \in DownLost : i + d \notin InnerSeen
                   /\ \A d \in DownSeen : i - d \in InnerSeen}
<1>1. DownRow(t) = FirstOf(S)
  BY DEF DownRow
<1>2. DownRow(t) \in S
  <2>1. S \subseteq t + 1 .. DownFirst /\ t + 1 \in Int /\ DownFirst \in Int
    BY RowsAssumption
  <2> QED BY <1>1, <2>1, FirstFound
<1> QED BY <1>2

LEMMA CircleIs ==
  ASSUME NEW side, NEW t \in Nat, NEW from \in Int, CircleRow(side, t, from) # 0
  PROVE  /\ CircleRow(side, t, from) \in t + 1 .. from
         /\ \A d \in CircleBeside : CircleRow(side, t, from) + d \in InnerSeen
<1> DEFINE S == {i \in t + 1 .. from :
                   /\ Row(i).inner > CircleMin[side]
                   /\ \A d \in CircleBeside :
                        i + d \in InnerSeen /\ Row(i).inner > Row(i + d).inner}
<1>1. CircleRow(side, t, from) = FirstOf(S)
  BY DEF CircleRow
<1>2. CircleRow(side, t, from) \in S
  <2>1. S \subseteq t + 1 .. from /\ t + 1 \in Int
    OBVIOUS
  <2> QED BY <1>1, <2>1, FirstFound
<1> QED BY <1>2

LEMMA UpIs ==
  ASSUME NEW t \in Nat, NEW from \in Int, UpRow(t, from) # 0
  PROVE  /\ UpRow(t, from) \in t + 1 .. from
         /\ Row(UpRow(t, from) + UpStep).tag - Row(UpRow(t, from)).tag > UpJump
<1> DEFINE S == {i \in t + 1 .. from :
                   /\ \A d \in UpSeen : i + d \in Traced
                   /\ Row(i + UpStep).tag - Row(i).tag > UpJump}
<1>1. UpRow(t, from) = FirstOf(S)
  BY DEF UpRow
<1>2. UpRow(t, from) \in S
  <2>1. S \subseteq t + 1 .. from /\ t + 1 \in Int
    OBVIOUS
  <2> QED BY <1>1, <2>1, FirstFound
<1> QED BY <1>2

LEMMA TopIs ==
  ASSUME NEW t \in Nat, NEW from \in Int, TopRow(t, from) # 0
  PROVE  /\ TopRow(t, from) \in t + 1 .. from
         /\ Row(TopRow(t, from)).tag - Row(TopRow(t, from) + UpStep).tag > TopJump
<1> DEFINE S == {i \in t + 1 .. from :
                   /\ {i, i - UpStep} \subseteq Traced
                   /\ Row(i).tag - Row(i - UpStep).tag \in -TopFlat .. TopFlat
                   /\ Row(i).tag - Row(i + UpStep).tag > TopJump}
<1>1. TopRow(t, from) = FirstOf(S)
  BY DEF TopRow
<1>2. TopRow(t, from) \in S
  <2>1. S \subseteq t + 1 .. from /\ t + 1 \in Int
    OBVIOUS
  <2> QED BY <1>1, <2>1, FirstFound
<1> QED BY <1>2

\* The verdict: a row that was not found reads, with the flags of the rows -1
\* and 0, that an edge is broken; and the fourth row below down, the opposite
\* jumps at up and at top, keep the four rows apart.
LEMMA JudgeHolds ==
  ASSUME ImageOK, NEW side \in Sides, NEW t \in Toppoints,
         NEW tt \in TagToppoints, Judge(side, t, tt), loop_flag' = 1
  PROVE  RowsWereFound' /\ LoopIsThere'
<1> DEFINE D == DownRow(t)
           C == CircleRow(side, t, D)
           U == UpRow(tt, C)
           T == TopRow(tt, U)
           L == FirstOf(OuterSeen)
<1>1. /\ row = 0 /\ shown' = shown
      /\ down' = D /\ circle' = C /\ up' = U /\ top' = T
      /\ Unbroken(InnerSeen, D - 1, C) /\ Unbroken(OuterSeen, T, L)
  BY DEF Judge
<1>2. t \in 1 .. Bottom /\ tt \in Nat /\ Bottom \in Nat /\ DownFirst \in 1 .. Bottom
  BY RowsAssumption
<1>3. /\ InnerSeen \subseteq 1 .. Bottom /\ OuterSeen \subseteq 1 .. Bottom
      /\ \A r : Row(r).tag \in Int
  BY <1>1, RowsRead
<1>4. D = 0 \/ (D \in t + 1 .. DownFirst
                /\ \A d \in DownLost : D + d \notin InnerSeen)
  BY <1>2, DownIs
<1>5. D \in Int
  BY <1>2, <1>4
<1>6. C = 0 \/ (C \in t + 1 .. D /\ \A d \in CircleBeside : C + d \in InnerSeen)
  BY <1>2, <1>5, CircleIs
<1>7. C \in Int
  BY <1>2, <1>5, <1>6
<1>8. U = 0 \/ (U \in tt + 1 .. C /\ Row(U + UpStep).tag - Row(U).tag > UpJump)
  BY <1>2, <1>7, UpIs
<1>9. U \in Int
  BY <1>2, <1>7, <1>8
<1>10. T = 0 \/ (T \in tt + 1 .. U /\ Row(T).tag - Row(T + UpStep).tag > TopJump)
  BY <1>2, <1>9, TopIs
<1>11. L = 0 \/ L \in OuterSeen
  <2>1. 1 \in Int /\ Bottom \in Int
    BY <1>2
  <2> QED BY <1>3, <2>1, FirstFound
<1> HIDE DEF D, C, U, T, L
<1>12. T \in Int /\ L \in Int /\ 0 <= L
  <2>1. T \in Int
    BY <1>2, <1>9, <1>10
  <2>2. L = 0 \/ L \in 1 .. Bottom
    <3>1. OuterSeen \subseteq 1 .. Bottom
      BY <1>3
    <3> QED BY <1>11, <3>1, Zenon
  <2> QED BY <1>2, <2>1, <2>2
<1>13. /\ D - 1 # C
       /\ D - 1 < C => D - 1 .. C - 1 \subseteq InnerSeen
       /\ C < D - 1 => C .. D - 2 \subseteq InnerSeen
  <2>1. D - 1 \in Int /\ (D - 1) - 1 = D - 2
    BY <1>5
  <2> QED BY <1>1, <1>7, <2>1, UnbrokenRows
<1>14. /\ T # L
       /\ T < L => T .. L - 1 \subseteq OuterSeen
       /\ L < T => L .. T - 1 \subseteq OuterSeen
  BY <1>1, <1>12, UnbrokenRows
<1>15. D # 0
  <2> SUFFICES ASSUME D = 0 PROVE FALSE
    OBVIOUS
  <2>1. C = 0
    BY <1>2, <1>6
  <2>2. -1 \in D - 1 .. C - 1
    BY <2>1
  <2> QED BY <1>3, <1>13, <2>1, <2>2
<1>16. C # 0
  <2> SUFFICES ASSUME C = 0 PROVE FALSE
    OBVIOUS
  <2>1. D \in t + 1 .. DownFirst
    BY <1>4, <1>15
  <2>2. C < D - 1 /\ 0 \in C .. D - 2
    BY <1>2, <2>1
  <2> QED BY <1>3, <1>13, <2>2
<1>17. C # D
  <2>1. PICK d \in DownLost \cap CircleBeside : TRUE
    BY TestsAssumption
  <2> QED BY <1>4, <1>6, <1>15, <1>16, <2>1
<1>18. T # 0
  <2> SUFFICES ASSUME T = 0 PROVE FALSE
    OBVIOUS
  <2>1. T < L /\ 0 \in T .. L - 1
    BY <1>12, <1>14
  <2> QED BY <1>3, <1>14, <2>1
<1>19. U # 0
  BY <1>2, <1>10, <1>18
<1>20. T # U
  <2> SUFFICES ASSUME T = U PROVE FALSE
    OBVIOUS
  <2>1. /\ Row(U + UpStep).tag - Row(U).tag > UpJump
        /\ Row(U).tag - Row(U + UpStep).tag > TopJump
    BY <1>8, <1>10, <1>18, <1>19
  <2>2. Row(U).tag \in Int /\ Row(U + UpStep).tag \in Int
    BY <1>3
  <2>3. UpJump \in Nat /\ TopJump \in Nat
    BY TestsAssumption
  <2> QED BY <2>1, <2>2, <2>3
<1>21. 0 < T /\ T < U /\ U <= C /\ C < D
  BY <1>2, <1>5, <1>6, <1>7, <1>8, <1>9, <1>10, <1>12, <1>15, <1>16, <1>17,
     <1>18, <1>19, <1>20
<1>22. \E gap \in D + 1 .. Bottom : gap \notin InnerSeen
  <2>1. PICK d \in DownLost : TRUE
    BY TestsAssumption
  <2>2. d \in 1 .. Bottom - DownFirst
    BY <2>1, RowsAssumption
  <2>3. D + d \in D + 1 .. Bottom
    BY <1>2, <1>4, <1>15, <2>2
  <2> QED BY <1>4, <1>15, <2>1, <2>3
<1>23. C .. D - 2 \subseteq InnerSeen
  BY <1>5, <1>7, <1>13, <1>21
<1>24. T .. L \subseteq OuterSeen
  <2>1. CASE T < L
    <3>1. L \in OuterSeen
      BY <1>11, <1>12, <1>21, <2>1
    <3> QED BY <1>12, <1>14, <2>1, <3>1
  <2>2. CASE L < T
    BY <1>12, <2>2
  <2> QED BY <1>12, <1>14, <2>1, <2>2
<1>25. InnerSeen' = InnerSeen /\ OuterSeen' = OuterSeen
  BY <1>1 DEF InnerSeen, OuterSeen, Row
<1>26. RowsWereFound'
  BY <1>1, <1>21 DEF RowsWereFound
<1>27. FirstOf(OuterSeen)' = L
  BY <1>25 DEF L, FirstOf
<1> QED BY <1>1, <1>22, <1>23, <1>24, <1>25, <1>26, <1>27 DEF LoopIsThere

LEMMA JudgeInvariant == JudgeSpec => []JudgeInv
<1>1. JudgeInit => JudgeInv
  BY RowsAssumption DEF JudgeInit, JudgeInv, ImageOK, RowsWereFound, LoopIsThere
<1>2. JudgeInv /\ [JudgeNext]_judgeVars => JudgeInv'
  <2> SUFFICES ASSUME JudgeInv, [JudgeNext]_judgeVars PROVE JudgeInv'
    OBVIOUS
  <2> USE RowsAssumption
  <2>1. ASSUME NEW kind \in RowKinds, ScanRow(kind) PROVE JudgeInv'
    <3>1. loop_flag' = 0
      BY <2>1 DEF ScanRow, JudgeInv, verdict
    <3>2. ImageOK'
      BY <2>1 DEF ScanRow, JudgeInv, ImageOK
    <3> QED BY <3>1, <3>2 DEF JudgeInv, RowsWereFound, LoopIsThere
  <2>2. ASSUME NEW side \in Sides, NEW t \in Toppoints, NEW tt \in TagToppoints,
               Judge(side, t, tt)
        PROVE  JudgeInv'
    <3>1. row' = 0 /\ ImageOK'
      BY <2>2 DEF Judge, JudgeInv, ImageOK
    <3>2. CASE loop_flag' = 1
      BY <2>2, <3>1, <3>2, JudgeHolds DEF JudgeInv
    <3>3. CASE loop_flag' = 0
      BY <3>1, <3>3 DEF JudgeInv, RowsWereFound, LoopIsThere
    <3>4. loop_flag' = 1 \/ loop_flag' = 0
      BY <2>2 DEF Judge
    <3> QED BY <3>2, <3>3, <3>4
  <2>3. CASE NextImage
    <3>1. loop_flag' = 0
      BY <2>3 DEF NextImage
    <3>2. ImageOK'
      BY <2>3 DEF NextImage, ImageOK
    <3> QED BY <3>1, <3>2 DEF JudgeInv, RowsWereFound, LoopIsThere
  <2>4. CASE UNCHANGED judgeVars
    BY <2>4 DEF judgeVars, verdict, JudgeInv, ImageOK, RowsWereFound, LoopIsThere,
                InnerSeen, OuterSeen, Row, FirstOf
  <2> QED BY <2>1, <2>2, <2>3, <2>4 DEF JudgeNext
<1> QED BY <1>1, <1>2, PTL DEF JudgeSpec

\* A loop is recognised only when all four of its rows were found, in order.
THEOREM LoopRowsFound == JudgeSpec => []RowsWereFound
<1>1. JudgeInv => RowsWereFound
  BY DEF JudgeInv
<1> QED BY <1>1, JudgeInvariant, PTL

\* The image shows the loop that is recognised.
THEOREM LoopSeenInImage == JudgeSpec => []LoopIsThere
<1>1. JudgeInv => LoopIsThere
  BY DEF JudgeInv
<1> QED BY <1>1, JudgeInvariant, PTL

=============================================================================
