--------------------------- MODULE MainLoop_proof ---------------------------
(***************************************************************************)
(* What is proved of the main loop for every set of OpenART numbers and    *)
(* any number of key presses (module MainLoop), liveness included where    *)
(* fairness can be spelled out without ENABLED, and of the line buffer its *)
(* numbers arrive in for every length of the array, any lines and any      *)
(* losses (module OpenArtLine).                                            *)
(***************************************************************************)
EXTENDS MainLoop, OpenArtLine, TLAPS

(* A step of the main thread keeps every flag to the values the program    *)
(* gives it.                                                               *)
LEMMA MainFlags ==
  ASSUME FlagsOK, Main \/ LoopPassed
  PROVE  FlagsOK'
<1> USE DEF FlagsOK, BlockedAt, RunningAt, Loops, keyVars, modeVars, keyFlags,
            wheelVars, mailbox, mainVars
<1>1. CASE FrameNormal
  BY <1>1 DEF FrameNormal, NormalRun
<1>2. CASE FrameStart
  BY <1>2 DEF FrameStart
<1>3. CASE StandstillEnds
  BY <1>3 DEF StandstillEnds, NormalRun
<1>4. CASE FrameRegco
  BY <1>4 DEF FrameRegco
<1>5. CASE LoopSettled
  BY <1>5 DEF LoopSettled, LeaveLoop
<1>6. CASE LoopDrives
  BY <1>6 DEF LoopDrives
<1>7. CASE Dispatch
  BY <1>7 DEF Dispatch
<1>8. CASE SwingEnds \/ LaserEnds \/ SettleEnds
  BY <1>8 DEF SwingEnds, LaserEnds, SettleEnds
<1>9. CASE Release \/ Clear
  BY <1>9 DEF Release, Clear
<1>10. CASE LoopPassed
  BY <1>10 DEF LoopPassed, LeaveLoop
<1> QED
  BY <1>1, <1>2, <1>3, <1>4, <1>5, <1>6, <1>7, <1>8, <1>9, <1>10 DEF Main

(* So does every other step.                                               *)
LEMMA OtherFlags ==
  ASSUME FlagsOK,
         \/ \E n \in OpenArtNums : Receive(n)
         \/ BatTimer \/ Toggle \/ Wheels \/ Buttons
         \/ UNCHANGED vars
  PROVE  FlagsOK'
<1> USE DEF FlagsOK, keyVars, modeVars, keyFlags, wheelVars, mailbox, mainVars
<1>1. ASSUME NEW n \in OpenArtNums, Receive(n)
      PROVE  FlagsOK'
  BY <1>1 DEF Receive
<1>2. CASE BatTimer \/ Toggle
  BY <1>2 DEF BatTimer, Toggle
<1>3. CASE Wheels
  BY <1>3 DEF Wheels
<1>4. CASE PressStart \/ PressReset
  BY <1>4 DEF PressStart, PressReset
<1>5. CASE \/ ResetChassis \/ ResetDistance
           \/ ResetEnableRegco \/ ResetStartTimer
  BY <1>5 DEF ResetChassis, ResetDistance, ResetEnableRegco, ResetStartTimer,
              Loops
<1>6. CASE UNCHANGED vars
  BY <1>6 DEF vars
<1> QED
  BY <1>1, <1>2, <1>3, <1>4, <1>5, <1>6 DEF Buttons

(* The bound on key presses.                                               *)
LEMMA PressesBounded ==
  ASSUME presses \in 0 .. MaxPresses, [Next]_vars
  PROVE  presses' \in 0 .. MaxPresses
<1>1. \/ presses' = presses
      \/ presses < MaxPresses /\ presses' = presses + 1
  BY DEF Next, Receive, BatTimer, Toggle, Wheels, Buttons, PressStart,
         PressReset, ResetChassis, ResetDistance, ResetEnableRegco,
         ResetStartTimer, Main,
         FrameNormal, FrameStart, StandstillEnds, FrameRegco, LoopSettled,
         LoopDrives, LoopPassed, Dispatch, SwingEnds, LaserEnds, SettleEnds,
         Release, Clear, keyVars, vars
<1> QED
  BY <1>1, MaxPressesAssumption

(* Every variable keeps to the values the program gives it.                *)
THEOREM TypeCorrect == Spec => []TypeOK
<1>1. Init => TypeOK
  <2>1. Init => FlagsOK
    BY DEF Init, FlagsOK, BlockedAt
  <2>2. Init => presses \in 0 .. MaxPresses
    BY MaxPressesAssumption DEF Init
  <2> QED
    BY <2>1, <2>2 DEF TypeOK
<1>2. TypeOK /\ [Next]_vars => TypeOK'
  BY MainFlags, OtherFlags, PressesBounded DEF TypeOK, Next
<1> QED
  BY <1>1, <1>2, PTL DEF Spec

-----------------------------------------------------------------------------
(* The safety invariants of the main loop, together, and the fact that a   *)
(* leg, a swing or a delay always belongs to a gesture: each one needs     *)
(* others, and with the types they are inductive.                          *)
SafeInv ==
  /\ pc \in Performing => gesture \in Gestures
  /\ LaserOnlyForFruit
  /\ GestureMatchesMailbox
  /\ StandsWhilePerforming
  /\ CurrentControlRuns
  /\ NoDriveUnderHold

LEMMA MainSafe ==
  ASSUME TypeOK, SafeInv, Main \/ LoopPassed
  PROVE  SafeInv'
<1> USE DEF TypeOK, FlagsOK, SafeInv, LaserOnlyForFruit, GestureMatchesMailbox,
            StandsWhilePerforming, CurrentControlRuns, NoDriveUnderHold,
            Performing, Loops, chassis_normal, pos_loop_hold, keyVars,
            modeVars, keyFlags, wheelVars, mailbox, mainVars
<1>1. CASE FrameNormal
  BY <1>1 DEF FrameNormal, NormalRun
<1>2. CASE FrameStart
  BY <1>2 DEF FrameStart
<1>3. CASE StandstillEnds
  BY <1>3 DEF StandstillEnds, NormalRun
<1>4. CASE FrameRegco
  BY <1>4 DEF FrameRegco
<1>5. CASE LoopSettled
  BY <1>5 DEF LoopSettled, LeaveLoop
<1>6. CASE LoopDrives
  BY <1>6 DEF LoopDrives
<1>7. CASE Dispatch
  BY <1>7 DEF Dispatch
<1>8. CASE SwingEnds \/ LaserEnds \/ SettleEnds
  BY <1>8 DEF SwingEnds, LaserEnds, SettleEnds
<1>9. CASE Release \/ Clear
  BY <1>9 DEF Release, Clear
<1>10. CASE LoopPassed
  BY <1>10 DEF LoopPassed, LeaveLoop
<1> QED
  BY <1>1, <1>2, <1>3, <1>4, <1>5, <1>6, <1>7, <1>8, <1>9, <1>10 DEF Main

LEMMA OtherSafe ==
  ASSUME TypeOK, SafeInv,
         \/ \E n \in OpenArtNums : Receive(n)
         \/ BatTimer \/ Toggle \/ Wheels \/ Buttons
         \/ UNCHANGED vars
  PROVE  SafeInv'
<1> USE DEF TypeOK, FlagsOK, SafeInv, LaserOnlyForFruit, GestureMatchesMailbox,
            StandsWhilePerforming, CurrentControlRuns, NoDriveUnderHold,
            Performing, keyVars, modeVars, keyFlags, wheelVars, mailbox,
            mainVars
<1>1. ASSUME NEW n \in OpenArtNums, Receive(n)
      PROVE  SafeInv'
  BY <1>1 DEF Receive
<1>2. CASE BatTimer \/ Toggle
  BY <1>2 DEF BatTimer, Toggle
<1>3. CASE Wheels
  BY <1>3 DEF Wheels
<1>4. CASE PressStart \/ PressReset
  BY <1>4 DEF PressStart, PressReset
<1>5. CASE \/ ResetChassis \/ ResetDistance
           \/ ResetEnableRegco \/ ResetStartTimer
  BY <1>5 DEF ResetChassis, ResetDistance, ResetEnableRegco, ResetStartTimer
<1>6. CASE UNCHANGED vars
  BY <1>6 DEF vars
<1> QED
  BY <1>1, <1>2, <1>3, <1>4, <1>5, <1>6 DEF Buttons

(* The safety of the main loop: the laser burns only for the fruit in the  *)
(* mailbox, a gesture's result stays in the mailbox, no drive command      *)
(* outlives a position loop or is given under the hold, and current        *)
(* control runs once recognition is enabled.                               *)
THEOREM Safety == Spec => []SafeInv
<1>1. Init => SafeInv
  BY DEF Init, SafeInv, LaserOnlyForFruit, GestureMatchesMailbox,
         StandsWhilePerforming, CurrentControlRuns, NoDriveUnderHold,
         Performing, Loops
<1>2. TypeOK /\ SafeInv /\ [Next]_vars => SafeInv'
  BY MainSafe, OtherSafe DEF Next
<1> QED
  BY <1>1, <1>2, TypeCorrect, PTL DEF Spec

(* What Safety says of the laser, of the mailbox, of the wheels and of the *)
(* current control, property by property.                                  *)
THEOREM LaserSafe == Spec => []LaserOnlyForFruit
<1>1. SafeInv => LaserOnlyForFruit
  BY DEF SafeInv
<1> QED BY <1>1, Safety, PTL

(* The result a gesture is performed for stays in the mailbox meanwhile.   *)
THEOREM ResultKept == Spec => []GestureMatchesMailbox
<1>1. SafeInv => GestureMatchesMailbox
  BY DEF SafeInv
<1> QED BY <1>1, Safety, PTL

(* The car stands while it performs, and is not driven under the hold.     *)
THEOREM StandsStill == Spec => [](StandsWhilePerforming /\ NoDriveUnderHold)
<1>1. SafeInv => StandsWhilePerforming /\ NoDriveUnderHold
  BY DEF SafeInv
<1> QED BY <1>1, Safety, PTL

(* Whenever RESET strikes between the steps of a gesture, no position loop *)
(* drives the car while the hold keeps its motors at zero.                 *)
THEOREM NoDriveUnderHoldKept == Spec => []NoDriveUnderHold
BY StandsStill, PTL

(* The wheels' current control runs except in the standstill at START.     *)
THEOREM CurrentRuns == Spec => []CurrentControlRuns
<1>1. SafeInv => CurrentControlRuns
  BY DEF SafeInv
<1> QED BY <1>1, Safety, PTL

-----------------------------------------------------------------------------
(* The main loop implements RegcoPromise.                                  *)

LEMMA StepKeepsPromise ==
  ASSUME TypeOK, SafeInv, [Next]_vars
  PROVE  [Promise!Next]_(Promise!vars)
<1> USE DEF Promise!Next, Promise!vars, Phase, Job, Promise!Gestures,
            Promise!NoNum, Gestures, NoNum, Performing, mailbox, mainVars
<1>1. ASSUME NEW n \in OpenArtNums, Receive(n)
      PROVE  Promise!Accept(n)
  BY <1>1 DEF Receive, Promise!Accept, SafeInv, GestureMatchesMailbox
<1>2. ASSUME Dispatch
      PROVE  Promise!Start \/ UNCHANGED Promise!vars
  BY <1>2 DEF Dispatch, Promise!Start, TypeOK, FlagsOK
<1>3. ASSUME Release
      PROVE  Promise!Finish
  BY <1>3 DEF Release, Promise!Finish, SafeInv, GestureMatchesMailbox
<1>4. ASSUME Clear
      PROVE  Promise!Lose \/ UNCHANGED Promise!vars
  BY <1>4 DEF Clear, Promise!Lose, TypeOK, FlagsOK
<1>5. CASE BatTimer \/ Toggle \/ Wheels \/ Buttons \/ UNCHANGED vars
  BY <1>5 DEF BatTimer, Toggle, Wheels, Buttons, PressStart, PressReset,
              ResetChassis, ResetDistance, ResetEnableRegco, ResetStartTimer,
              vars
<1>6. CASE \/ FrameNormal \/ FrameStart \/ StandstillEnds \/ FrameRegco
           \/ LoopDrives \/ SwingEnds \/ LaserEnds \/ SettleEnds
  BY <1>6 DEF FrameNormal, FrameStart, StandstillEnds, FrameRegco, LoopDrives,
              SwingEnds, LaserEnds, SettleEnds
<1>7. CASE LoopSettled \/ LoopPassed
  BY <1>7 DEF LoopSettled, LoopPassed, LeaveLoop, Loops
<1> QED
  BY <1>1, <1>2, <1>3, <1>4, <1>5, <1>6, <1>7 DEF Next, Main

(* Every behaviour of the main loop is one of the promise: what is         *)
(* accepted is performed at most once, never in place of another result,   *)
(* and the slot is not refilled before the gesture is over.                *)
THEOREM Refinement == Spec => KeepsPromise
<1>1. Init => Promise!Init
  BY DEF Init, Promise!Init, Phase, Job, Promise!NoNum, NoNum
<1>2. TypeOK /\ SafeInv /\ [Next]_vars => [Promise!Next]_(Promise!vars)
  BY StepKeepsPromise
<1> QED
  BY <1>1, <1>2, TypeCorrect, Safety, PTL DEF Spec, KeepsPromise, Promise!Spec

-----------------------------------------------------------------------------
(* A result is performed.  When the keys rest, the RESET handler comes to  *)
(* its end; with switch 8 on and recognition enabled the mode is there to  *)
(* stay; and then the main thread drives home and finds the result.        *)

(* A step while no key is pressed.                                         *)
Quiet == [Next]_vars /\ UNCHANGED presses

(* What the main thread does where the proofs below need it: it leaves     *)
(* the points at which it does not wait.                                   *)
LEMMA MainMoves ==
  ASSUME Main
  PROVE  /\ pc = "dispatch" => pc' # "dispatch"
         /\ pc = "release" => pc' = "clear"
         /\ pc = "clear" => pc' = "frame"
         /\ pc = "standstill" => pc' = "frame"
         /\ pc = "frame" => pc' \in {"frame", "standstill", "home"}
         /\ pc = "frame" /\ sch_sm_state = regco => pc' = "home"
         /\ pc = "home" /\ place = "near" => pc' = "dispatch"
         /\ pc = "home" /\ place = "away"
              => /\ pc' = "home" /\ place' = "away" /\ speed' = "drive"
                 /\ chassis_update_type' = chassis_normal
BY DEF Main, FrameNormal, FrameStart, StandstillEnds, FrameRegco, LoopSettled,
       LoopDrives, LeaveLoop, Dispatch, SwingEnds, LaserEnds, SettleEnds,
       Release, Clear, Loops, regco, normal, mainVars, wheelVars

(* Nobody else moves the main thread, and LoopPassed not from home.        *)
LEMMA OthersLeaveMain ==
  ASSUME [Next]_vars, ~Main
  PROVE  \/ UNCHANGED <<pc, gesture>>
         \/ pc \in {"out", "back"} /\ pc' \in {"back", "settle"}
<1>1. CASE LoopPassed
  BY <1>1 DEF LoopPassed, LeaveLoop
<1>2. CASE (\E n \in OpenArtNums : Receive(n)) \/ BatTimer \/ Toggle \/ Wheels
  BY <1>2 DEF Receive, BatTimer, Toggle, Wheels, mainVars
<1>3. CASE Buttons
  BY <1>3 DEF Buttons, PressStart, PressReset, ResetChassis, ResetDistance,
              ResetEnableRegco, ResetStartTimer, mainVars
<1>4. CASE UNCHANGED vars
  BY <1>4 DEF vars
<1> QED
  BY <1>1, <1>2, <1>3, <1>4 DEF Next

(* The main thread blocks again and again.                                 *)
LEMMA BlocksAgain == Spec /\ MainGoesOn => []<>MainBlocked
<1> USE DEF MainBlocked, BlockedAt
<1>1. TypeOK => MainBlocked \/ pc = "dispatch" \/ pc = "release" \/ pc = "clear"
  BY DEF TypeOK, FlagsOK, RunningAt
<1>2. pc = "dispatch" \/ pc = "release" \/ pc = "clear" => ~MainWaits
  BY DEF MainWaits, Loops
<1>3. TypeOK /\ TypeOK' /\ [Next]_vars =>
        /\ pc = "dispatch" => (pc = "dispatch")' \/ MainBlocked'
        /\ pc = "release" => (pc = "release")' \/ (pc = "clear")'
        /\ pc = "clear" => (pc = "clear")' \/ MainBlocked'
  <2>1. ASSUME Dispatch PROVE MainBlocked'
    BY <2>1 DEF Dispatch
  <2>2. Main /\ pc = "dispatch" => Dispatch
    BY DEF Main, FrameNormal, FrameStart, StandstillEnds, FrameRegco,
           LoopSettled, LoopDrives, SwingEnds, LaserEnds, SettleEnds,
           Release, Clear, Loops
  <2> QED
    BY <2>1, <2>2, MainMoves, OthersLeaveMain
<1>4. <<Main>>_vars =>
        /\ pc = "dispatch" => ~(pc = "dispatch")'
        /\ pc = "release" => (pc = "clear")'
        /\ pc = "clear" => ~(pc = "clear")'
  BY MainMoves
<1> HIDE DEF MainBlocked
<1> QED
  BY <1>1, <1>2, <1>3, <1>4, TypeCorrect, PTL DEF Spec, MainGoesOn

(* So the RESET handler comes to its end, and stays away with the key.     *)
LEMMA ResetEnds ==
  Spec /\ MainGoesOn /\ OthersGoOn /\ KeysRest => <>[](btn = "idle")
<1>1. TypeOK /\ Quiet =>
        /\ btn = "reset2" => (btn = "reset2")' \/ (btn = "reset3")'
        /\ btn = "reset3" => (btn = "reset3")' \/ (btn = "reset4")'
        /\ btn = "reset4" => (btn = "reset4")' \/ (btn = "reset5")'
        /\ btn = "reset5" => (btn = "reset5")' \/ (btn = "idle")'
        /\ btn = "idle" => (btn = "idle")'
  <2> SUFFICES ASSUME Quiet, presses \in Nat
               PROVE  \/ btn' = btn
                      \/ btn = "reset2" /\ btn' = "reset3"
                      \/ btn = "reset3" /\ btn' = "reset4"
                      \/ btn = "reset4" /\ btn' = "reset5"
                      \/ btn = "reset5" /\ btn' = "idle"
    BY MaxPressesAssumption DEF TypeOK
  <2>1. CASE Buttons
    <3>1. ~PressReset
      BY DEF Quiet, PressReset
    <3> QED
      BY <2>1, <3>1 DEF Buttons, PressStart, ResetChassis, ResetDistance,
                        ResetEnableRegco,
                        ResetStartTimer
  <2>2. CASE ~Buttons
    BY <2>2 DEF Quiet, Next, Receive, BatTimer, Toggle, Wheels, Main,
           FrameNormal, FrameStart, StandstillEnds, FrameRegco, LoopSettled,
           LoopDrives, LoopPassed, Dispatch, SwingEnds, LaserEnds, SettleEnds,
           Release, Clear, keyVars, vars
  <2> QED
    BY <2>1, <2>2
<1>2. /\ <<ResetChassis>>_vars => ~(btn = "reset2")'
      /\ <<ResetDistance>>_vars => ~(btn = "reset3")'
      /\ <<ResetEnableRegco>>_vars => ~(btn = "reset4")'
      /\ <<ResetStartTimer>>_vars => ~(btn = "reset5")'
  BY DEF ResetChassis, ResetDistance, ResetEnableRegco, ResetStartTimer
<1>3. TypeOK => \/ btn = "idle" \/ btn = "reset2" \/ btn = "reset3"
                \/ btn = "reset4" \/ btn = "reset5"
  BY DEF TypeOK, FlagsOK
<1>4. [Next]_vars /\ [UNCHANGED presses]_vars => Quiet
  BY DEF Quiet, vars
<1> QED
  BY <1>1, <1>2, <1>3, <1>4, TypeCorrect, BlocksAgain, PTL
     DEF Spec, OthersGoOn, KeysRest

(* With switch 8 on the recognition mode is there to stay: a RESET still   *)
(* pending may take it back, and START one standstill, but only once.      *)
ModeIsOn == switch8 = "on" /\ start_regco_flag = 1
InRegco == sch_sm_state = regco /\ pc # "standstill"

LEMMA ModeStays ==
  Spec /\ MainGoesOn /\ OthersGoOn /\ KeysRest /\ <>[]ModeIsOn => <>[]InRegco
<1>1. ASSUME TypeOK, Quiet
      PROVE  /\ no_ele_start_flag = 0 => no_ele_start_flag' = 0
             /\ pc # "standstill" /\ pc' = "standstill"
                  => no_ele_start_flag # 0 /\ no_ele_start_flag' = 0
  <2>1. presses \in Nat
    BY <1>1, MaxPressesAssumption DEF TypeOK
  <2>2. ~PressStart
    BY <1>1, <2>1 DEF Quiet, PressStart
  <2>3. CASE FrameStart
    BY <2>3 DEF FrameStart
  <2>4. CASE ~FrameStart
    <3>1. UNCHANGED no_ele_start_flag
      BY <1>1, <2>2, <2>4 DEF Quiet, Next, Receive, BatTimer, Toggle, Wheels,
         Buttons, PressReset, ResetChassis, ResetDistance, ResetEnableRegco,
         ResetStartTimer,
         Main, FrameNormal, StandstillEnds, FrameRegco, LoopSettled,
         LoopDrives, LoopPassed, Dispatch, SwingEnds, LaserEnds, SettleEnds,
         Release, Clear, keyFlags, vars
    <3>2. ~(pc # "standstill" /\ pc' = "standstill")
      <4>1. CASE Main
        BY <2>4, <4>1 DEF Main, FrameNormal, StandstillEnds, FrameRegco,
           LoopSettled, LoopDrives, LeaveLoop, Dispatch, SwingEnds, LaserEnds,
           SettleEnds, Release, Clear, Loops, mainVars
      <4> QED
        BY <1>1, <4>1, OthersLeaveMain DEF Quiet
    <3> QED
      BY <3>1, <3>2
  <2> QED
    BY <2>3, <2>4
<1>2. ASSUME Quiet, switch8 = "on", InRegco
      PROVE  InRegco'
  <2>1. CASE Main
    <3>1. ~FrameNormal /\ ~FrameStart /\ ~StandstillEnds
      BY <1>2 DEF FrameNormal, FrameStart, StandstillEnds, InRegco, regco, normal
    <3> QED
      BY <1>2, <2>1, <3>1 DEF Main, FrameRegco, LoopSettled, LoopDrives,
         LeaveLoop, Dispatch, SwingEnds, LaserEnds, SettleEnds, Release, Clear,
         Loops, InRegco, modeVars, mainVars
  <2>2. CASE ~Main
    <3>1. sch_sm_state' = regco
      BY <1>2, <2>2 DEF Quiet, Next, Receive, BatTimer, Toggle, Wheels,
         Buttons, PressStart, PressReset, ResetChassis, ResetDistance,
         ResetEnableRegco,
         ResetStartTimer, LoopPassed, InRegco, modeVars, vars
    <3> QED
      BY <1>2, <2>2, <3>1, OthersLeaveMain DEF Quiet, InRegco
  <2> QED
    BY <2>1, <2>2
<1>3. pc = "standstill" => ~MainWaits
  BY DEF MainWaits, Loops
<1>4. pc = "standstill" /\ <<Main>>_vars => ~(pc = "standstill")'
  BY MainMoves
<1>5. switch8 = "on" /\ ~(pc = "standstill") /\ <<BatTimer>>_vars => InRegco'
  BY DEF BatTimer, InRegco, mainVars
<1>6. /\ switch8 = "on" /\ ~(pc = "standstill")
      /\ sch_sm_state = IF switch8 = "on" THEN regco ELSE normal
      => InRegco
  BY DEF InRegco
<1>7. [Next]_vars /\ [UNCHANGED presses]_vars => Quiet
  BY DEF Quiet, vars
<1>8. InRegco => ~(pc = "standstill")
  BY DEF InRegco
<1>9. ModeIsOn => switch8 = "on"
  BY DEF ModeIsOn
<1>10. TypeOK /\ Quiet =>
        /\ no_ele_start_flag = 0 => (no_ele_start_flag = 0)'
        /\ ~(pc = "standstill") /\ (pc = "standstill")'
             => ~(no_ele_start_flag = 0) /\ (no_ele_start_flag = 0)'
  BY <1>1
<1>11. Quiet /\ switch8 = "on" /\ InRegco => InRegco'
  BY <1>2
<1> QED
  BY <1>3, <1>4, <1>5, <1>6, <1>7, <1>8, <1>9, <1>10, <1>11, TypeCorrect, PTL
     DEF Spec, MainGoesOn, OthersGoOn, KeysRest

(* A result waits for its gesture, in the mailbox.                         *)
Waits(n) == finish_regco_flag = 1 /\ regco_num = n /\ pc # "clear"

LEMMA ResultWaits ==
  ASSUME NEW n \in Gestures, TypeOK, SafeInv, [Next]_vars, Waits(n)
  PROVE  /\ gesture = n \/ pc \in {"frame", "standstill", "home", "dispatch"}
         /\ gesture = n \/ Waits(n)'
<1>1. gesture = n \/ pc \in {"frame", "standstill", "home", "dispatch"}
  BY DEF TypeOK, FlagsOK, BlockedAt, RunningAt, SafeInv, GestureMatchesMailbox,
         Performing, Waits
<1>2. ASSUME gesture # n
      PROVE  Waits(n)'
  <2>1. pc \notin {"release", "clear"}
    BY <1>1, <1>2
  <2>2. UNCHANGED <<finish_regco_flag, regco_num>>
    BY <2>1 DEF Next, Receive, BatTimer, Toggle, Wheels, Buttons, PressStart,
       PressReset, ResetChassis, ResetDistance, ResetEnableRegco,
       ResetStartTimer, Main,
       FrameNormal, FrameStart, StandstillEnds, FrameRegco, LoopSettled,
       LoopDrives, LoopPassed, Dispatch, SwingEnds, LaserEnds, SettleEnds,
       Release, Clear, mailbox, vars, Waits
  <2>3. pc' # "clear"
    <3>1. CASE Main
      BY <2>1, <3>1 DEF Main, FrameNormal, FrameStart, StandstillEnds,
         FrameRegco, LoopSettled, LoopDrives, LeaveLoop, Dispatch, SwingEnds,
         LaserEnds, SettleEnds, Release, Clear, Loops, mainVars
    <3> QED
      BY <2>1, <3>1, OthersLeaveMain
  <2> QED
    BY <2>2, <2>3 DEF Waits
<1> QED
  BY <1>1, <1>2

(* Where the main thread stands with the result, once the mode has settled *)
(* and the RESET handler is through.                                       *)
Settled == ModeIsOn /\ InRegco /\ btn = "idle"
DrivesHome == /\ pc = "home" /\ place = "away" /\ speed = "drive"
              /\ chassis_update_type = chassis_normal

LEMMA HomeSteps ==
  ASSUME Quiet, btn = "idle", pc = "home", ~Main
  PROVE  /\ UNCHANGED <<pc, speed, chassis_update_type>>
         /\ place' = place \/ (place = "away" /\ place' = "near")
<1>1. pc' = "home"
  BY OthersLeaveMain DEF Quiet
<1>2. ~LoopPassed
  BY DEF LoopPassed
<1>3. ~ResetChassis /\ ~ResetDistance
  BY DEF ResetChassis, ResetDistance
<1> QED
  BY <1>1, <1>2, <1>3 DEF Quiet, Next, Receive, BatTimer, Toggle, Wheels,
     Buttons, PressStart, PressReset, ResetEnableRegco, ResetStartTimer,
     wheelVars, vars

(* A result accepted while main() is not between its two release writes is *)
(* performed, if the keys rest and the mode is there to stay: from the     *)
(* frame the main thread goes home, the wheels take the car there however  *)
(* RESET has moved its distance, and the chain finds the result.           *)
THEOREM ResultIsPerformed ==
  Spec /\ MainGoesOn /\ OthersGoOn /\ KeysRest => AcceptedIsPerformed
<1> DEFINE Inv == TypeOK /\ SafeInv
           H == Spec /\ MainGoesOn /\ OthersGoOn /\ KeysRest /\ <>[]ModeIsOn
           AtHome(p) == pc = "home" /\ place = p
<1>1. H => <>[](Settled /\ Inv) /\ <>[][Quiet]_vars /\ []Inv
  <2>1. [Next]_vars /\ [UNCHANGED presses]_vars => [Quiet]_vars
    BY DEF Quiet
  <2>2. ModeIsOn /\ InRegco /\ btn = "idle" => Settled
    BY DEF Settled
  <2> QED
    BY <2>1, <2>2, ResetEnds, ModeStays, TypeCorrect, Safety, PTL
       DEF Spec, KeysRest
<1>2. Settled /\ Inv =>
        /\ pc = "frame" \/ pc = "dispatch" => ~MainWaits
        /\ AtHome("near") => ~MainWaits
        /\ AtHome("away") /\ ~DrivesHome => ~MainWaits
        /\ DrivesHome => WheelsReady
        /\ pc = "home" => AtHome("near") \/ AtHome("away")
  BY DEF Settled, ModeIsOn, InRegco, MainWaits, WheelsReady, DrivesHome, Loops,
         TypeOK, FlagsOK, SafeInv, CurrentControlRuns
<1>3. ASSUME Settled, Inv, Quiet
      PROVE  /\ pc = "frame" => pc' \in {"frame", "home"}
             /\ AtHome("near") => AtHome("near")' \/ pc' = "dispatch"
             /\ AtHome("away") => AtHome("away")' \/ AtHome("near")'
             /\ DrivesHome => DrivesHome' \/ AtHome("near")'
  <2> USE DEF Settled, InRegco
  <2>1. CASE Main
    BY <1>3, <2>1, MainMoves DEF DrivesHome
  <2>2. CASE ~Main
    <3>1. pc = "frame" => pc' = "frame"
      BY <1>3, <2>2, OthersLeaveMain DEF Quiet
    <3> QED
      BY <1>3, <2>2, <3>1, HomeSteps DEF DrivesHome
  <2> QED
    BY <2>1, <2>2
<1>4. Settled /\ Inv /\ Quiet =>
        /\ pc = "frame" => (pc = "frame")' \/ (pc = "home")'
        /\ AtHome("near") => AtHome("near")' \/ (pc = "dispatch")'
        /\ AtHome("away") => AtHome("away")' \/ AtHome("near")'
        /\ DrivesHome => DrivesHome' \/ AtHome("near")'
  BY <1>3
<1>5. Settled /\ <<Main>>_vars =>
        /\ pc = "frame" => (pc = "home")'
        /\ AtHome("near") => (pc = "dispatch")'
        /\ AtHome("away") => DrivesHome'
  BY MainMoves DEF Settled, InRegco, DrivesHome
<1>6. DrivesHome /\ <<Wheels>>_vars => AtHome("near")'
  BY DEF DrivesHome, Wheels, mainVars
<1>7. [Quiet]_vars => Quiet
  BY DEF Quiet, vars
<1> HIDE DEF Inv, AtHome
<1>8. ASSUME NEW n \in Gestures
      PROVE  H => ((finish_regco_flag = 1 /\ regco_num = n /\ pc # "clear")
                     ~> (gesture = n))
  <2>1. Inv /\ [Next]_vars /\ Waits(n) =>
          /\ ~(gesture = n) => \/ pc = "frame" \/ pc = "standstill"
                               \/ pc = "home" \/ pc = "dispatch"
          /\ ~(gesture = n) => Waits(n)'
    BY ResultWaits DEF Inv
  <2>2. Settled => ~(pc = "standstill")
    BY DEF Settled, InRegco
  <2>3. ASSUME Waits(n), pc = "dispatch", Main
        PROVE  gesture' = n
    <3>1. Dispatch
      BY <2>3 DEF Main, FrameNormal, FrameStart, StandstillEnds, FrameRegco,
         LoopSettled, LoopDrives, SwingEnds, LaserEnds, SettleEnds, Release,
         Clear, Loops
    <3> QED
      BY <2>3, <3>1 DEF Dispatch, Waits
  <2>4. Waits(n) /\ pc = "dispatch" /\ <<Main>>_vars => (gesture = n)'
    BY <2>3
  <2>5. [Next]_vars /\ Waits(n) /\ pc = "dispatch"
          => (pc = "dispatch")' \/ (gesture = n)'
    BY <2>3, OthersLeaveMain
  <2>6. H => <>[](~MainWaits \/ ~(pc = "dispatch"))
    BY <1>1, <1>2, PTL
  <2>7. H => (Waits(n) /\ pc = "dispatch" ~> gesture = n)
    BY <1>1, <2>1, <2>4, <2>5, <2>6, PTL DEF Spec, MainGoesOn
  <2>8. H => <>[](Waits(n) /\ AtHome("near") => <>(gesture = n))
    BY <1>1, <1>2, <1>4, <1>5, <1>7, <2>1, <2>7, PTL DEF Spec, MainGoesOn
  <2>9. H => <>[](Waits(n) /\ DrivesHome => <>(gesture = n))
    BY <1>1, <1>2, <1>4, <1>6, <1>7, <2>1, <2>8, PTL DEF Spec, OthersGoOn
  <2>10. H => <>[](Waits(n) /\ AtHome("away") => <>(gesture = n))
    BY <1>1, <1>2, <1>4, <1>5, <1>7, <2>1, <2>8, <2>9, PTL DEF Spec, MainGoesOn
  <2>11. H => <>[](Waits(n) /\ pc = "frame" => <>(gesture = n))
    BY <1>1, <1>2, <1>4, <1>5, <1>7, <2>1, <2>8, <2>10, PTL DEF Spec, MainGoesOn
  <2>12. H => (Waits(n) ~> gesture = n)
    BY <1>1, <1>2, <2>1, <2>2, <2>7, <2>8, <2>10, <2>11, PTL DEF Spec
  <2> QED
    BY <2>12, PTL DEF Waits
<1>9. \A n \in Gestures :
        H => ((finish_regco_flag = 1 /\ regco_num = n /\ pc # "clear")
                ~> (gesture = n))
  BY <1>8
<1> QED
  BY <1>9 DEF AcceptedIsPerformed, ModeIsOn

-----------------------------------------------------------------------------
(***************************************************************************)
(* The line buffer of the OpenART link: the index stays in the array and   *)
(* the place behind it, and cmd_parse is given the beginning of what was   *)
(* heard.                                                                  *)
(***************************************************************************)

(* The index counts what was heard, up to the array's length.              *)
IndexOK == i = IF Len(heard) < MaxLen THEN Len(heard) ELSE MaxLen

(* What was heard lies below the index, but for the last place, which may  *)
(* have been overwritten; no NUL is among it.                              *)
Kept == \A p \in Places :
          /\ p < i => data[p] # Nul
          /\ p < i /\ p < MaxLen - 1 => data[p] = heard[p + 1]

(* Without a loss, what was heard is what the sender sent of its line.     *)
CleanOK == clean => /\ Len(heard) = pos
                    /\ \A p \in 1 .. pos : heard[p] = <<line, p - 1>>

(* A line that fits is kept whole, in its last place too.                  *)
LastKept == Len(heard) <= MaxLen =>
              \A p \in Places : p < i => data[p] = heard[p + 1]

LinkInv == LinkTypeOK /\ IndexOK /\ Kept /\ CleanOK /\ LastKept

-----------------------------------------------------------------------------
LEMMA ByteNotNul ==
  ASSUME NEW x \in Bytes PROVE x # Nul
BY DEF Bytes, Nul

LEMMA LinkInitOK == LinkInit => LinkInv
<1> SUFFICES ASSUME LinkInit PROVE LinkInv
  OBVIOUS
<1> USE MaxLenAssumption, SenderAssumption
<1>1. LinkTypeOK
  BY DEF LinkInit, LinkTypeOK, Places
<1>2. IndexOK /\ Kept /\ LastKept
  BY DEF LinkInit, IndexOK, Kept, LastKept
<1>3. CleanOK
  <2>1. SUFFICES ASSUME clean
                 PROVE  Len(heard) = pos /\ \A p \in 1 .. pos : heard[p] = <<line, p - 1>>
    BY DEF CleanOK
  <2>2. clean = (pos = 0) /\ heard = <<>>
    BY DEF LinkInit
  <2>3. pos = 0
    BY ZenonT(20), <2>1, <2>2
  <2> QED
    BY <2>2, <2>3
<1> QED
  BY <1>1, <1>2, <1>3 DEF LinkInv

LEMMA ByteKeeps ==
  ASSUME LinkInv, TakeByte PROVE LinkInv'
<1> USE MaxLenAssumption, SenderAssumption
<1> DEFINE x == <<line, pos>>
<1>1. LinkTypeOK /\ IndexOK /\ Kept /\ CleanOK /\ LastKept
  BY DEF LinkInv
<1>2. x \in Bytes /\ x # Nul
  BY <1>1 DEF LinkTypeOK, Bytes, Nul, TakeByte
<1>3. heard \in Seq(Bytes) /\ i \in 0 .. MaxLen /\ data \in [0 .. MaxLen -> Bytes \cup {Nul}]
  BY <1>1 DEF LinkTypeOK, Places
<1>4. /\ heard' = Append(heard, x) /\ heard' \in Seq(Bytes)
      /\ Len(heard') = Len(heard) + 1
      /\ heard'[Len(heard) + 1] = x
      /\ \A p \in 1 .. Len(heard) : heard'[p] = heard[p]
  BY <1>2, <1>3 DEF TakeByte
<1>5. PICK k \in 0 .. MaxLen - 1 : k = IF i >= MaxLen - 1 THEN MaxLen - 1 ELSE i
  BY <1>3
<1>6. data' = [data EXCEPT ![k] = x] /\ i' = k + 1
  BY <1>3, <1>5 DEF TakeByte, Limit
<1>7. LinkTypeOK'
  <2>1. line' \in 0 .. Lines - 1 /\ len' \in LineLens /\ clean' \in BOOLEAN
    BY <1>1 DEF LinkTypeOK, TakeByte
  <2>2. pos' \in 0 .. len'
    BY <1>1 DEF LinkTypeOK, TakeByte
  <2>3. data' \in [0 .. MaxLen -> Bytes \cup {Nul}]
    BY <1>2, <1>3, <1>6
  <2>4. i' \in 0 .. MaxLen
    BY <1>5, <1>6
  <2> QED
    BY <1>4, <2>1, <2>2, <2>3, <2>4 DEF LinkTypeOK, Places
<1>8. IndexOK'
  BY <1>1, <1>3, <1>4, <1>5, <1>6 DEF IndexOK
<1>9. Kept'
  BY <1>1, <1>2, <1>3, <1>4, <1>5, <1>6 DEF Kept, IndexOK, Places
<1>10. LastKept'
  BY <1>1, <1>2, <1>3, <1>4, <1>5, <1>6 DEF LastKept, IndexOK, Places
<1>11. CleanOK'
  <2>1. clean' = clean /\ pos' = pos + 1 /\ line' = line /\ pos \in Nat
    BY <1>1 DEF TakeByte, LinkTypeOK
  <2> QED
    BY <1>1, <1>4, <2>1 DEF CleanOK
<1> QED
  BY <1>7, <1>8, <1>9, <1>10, <1>11 DEF LinkInv

LEMMA NewlineKeeps ==
  ASSUME LinkInv, TakeNewline PROVE LinkInv'
<1> USE MaxLenAssumption, SenderAssumption
<1>1. LinkTypeOK'
  BY DEF LinkInv, LinkTypeOK, TakeNewline, NextLine, Ends, Restart, Places
<1>2. heard' = <<>> /\ i' = 0 /\ pos' = 0
  BY DEF TakeNewline, NextLine, Restart
<1>3. IndexOK' /\ Kept' /\ CleanOK' /\ LastKept'
  BY <1>2 DEF IndexOK, Kept, CleanOK, LastKept, Places
<1> QED
  BY <1>1, <1>3 DEF LinkInv

LEMMA LossKeeps ==
  ASSUME LinkInv, LoseByte \/ LoseNewline PROVE LinkInv'
<1> USE MaxLenAssumption, SenderAssumption
<1>1. LinkTypeOK'
  BY DEF LinkInv, LinkTypeOK, LoseByte, LoseNewline, NextLine, Places
<1>2. UNCHANGED <<data, i, heard>> /\ clean' = FALSE
  BY DEF LoseByte, LoseNewline
<1>3. IndexOK' /\ Kept' /\ CleanOK' /\ LastKept'
  BY <1>2 DEF LinkInv, IndexOK, Kept, CleanOK, LastKept
<1> QED
  BY <1>1, <1>3 DEF LinkInv

(* The invariant holds in every state.                                     *)
LEMMA LinkInvariant == LinkSpec => []LinkInv
<1>1. LinkInv /\ UNCHANGED linkVars => LinkInv'
  BY DEF LinkInv, LinkTypeOK, IndexOK, Kept, CleanOK, LastKept, linkVars, sender
<1>2. LinkInv /\ [LinkNext]_linkVars => LinkInv'
  BY <1>1, ByteKeeps, NewlineKeeps, LossKeeps DEF LinkNext
<1> QED
  BY LinkInitOK, <1>2, PTL DEF LinkSpec

-----------------------------------------------------------------------------
(* The string cmd_parse reads has the length of the index, and the bytes   *)
(* below it.                                                               *)
LEMMA Parsed ==
  ASSUME LinkInv, TakeNewline
  PROVE  String(data') = [p \in 1 .. i |-> data[p - 1]]
<1> USE MaxLenAssumption
<1>1. /\ i \in 0 .. MaxLen /\ data \in [0 .. MaxLen -> Bytes \cup {Nul}]
      /\ \A p \in 0 .. MaxLen : p < i => data[p] # Nul
  BY DEF LinkInv, LinkTypeOK, Kept, Places
<1>2. data' = [data EXCEPT ![i] = Nul]
  BY DEF TakeNewline, Ends
<1> DEFINE first(e) == data'[e] = Nul /\ \A q \in 0 .. e - 1 : data'[q] # Nul
<1>3. first(i)
  BY <1>1, <1>2
<1>4. \A e \in 0 .. MaxLen : first(e) => e = i
  BY <1>1, <1>2
<1>5. (CHOOSE e \in 0 .. MaxLen : first(e)) = i
  BY <1>1, <1>3, <1>4
<1>6. String(data') = [p \in 1 .. i |-> data'[p - 1]]
  BY <1>5 DEF String, Places
<1>7. \A p \in 1 .. i : data'[p - 1] = data[p - 1]
  BY <1>1, <1>2
<1> QED
  BY <1>6, <1>7

(* The index never passes the one place behind data[], and every byte goes *)
(* into data[]; only the NUL may be written behind it.                     *)
THEOREM LineTypeCorrect == LinkSpec => []LinkTypeOK
<1>1. LinkInv => LinkTypeOK
  BY DEF LinkInv
<1> QED
  BY LinkInvariant, <1>1, PTL

(* The NUL of a newline misses data[] exactly when as many bytes as data[] *)
(* has were heard since the last newline: shorter lines, spliced ones too, *)
(* are safe (openart_callback, ctrl_openart.cpp:73).                       *)
THEOREM NulInArrayUnlessFull ==
  LinkSpec => [][TakeNewline => (i \in Array <=> Len(heard) < MaxLen)]_linkVars
<1>1. ASSUME LinkInv
      PROVE  i \in Array <=> Len(heard) < MaxLen
  BY <1>1, MaxLenAssumption DEF LinkInv, LinkTypeOK, IndexOK, Array, Places
<1>2. LinkInv /\ [LinkNext]_linkVars =>
        [TakeNewline => (i \in Array <=> Len(heard) < MaxLen)]_linkVars
  BY <1>1
<1> QED
  BY <1>2, LinkInvariant, PTL DEF LinkSpec

(* A whole line that fits is parsed whole and alone, after any losses.     *)
THEOREM WholeLines == LinkSpec => WholeLineParsed
<1>1. ASSUME LinkInv, TakeNewline, clean, len <= MaxLen
      PROVE  String(data') = [p \in 1 .. len |-> <<line, p - 1>>]
  <2>1. /\ i \in 0 .. MaxLen /\ heard \in Seq(Bytes) /\ pos = len /\ len \in Nat
        /\ Len(heard) = len /\ \A p \in 1 .. len : heard[p] = <<line, p - 1>>
    BY <1>1, SenderAssumption DEF LinkInv, LinkTypeOK, CleanOK, TakeNewline, Places
  <2>2. i = len
    BY <1>1, <2>1, MaxLenAssumption DEF LinkInv, IndexOK
  <2>3. \A p \in 1 .. len : data[p - 1] = heard[p]
    BY <1>1, <2>1, <2>2, MaxLenAssumption DEF LinkInv, LastKept, Places
  <2>4. \A p \in 1 .. len : data[p - 1] = <<line, p - 1>>
    BY <2>1, <2>3
  <2> QED
    BY <1>1, <2>2, <2>4, Parsed
<1>2. LinkInv /\ [LinkNext]_linkVars =>
        [TakeNewline /\ clean /\ len <= MaxLen =>
           String(data') = [p \in 1 .. len |-> <<line, p - 1>>]]_linkVars
  BY <1>1
<1> QED
  BY <1>2, LinkInvariant, PTL DEF LinkSpec, WholeLineParsed

(* Of any line the beginning is parsed, cut in the last place of data[].   *)
THEOREM Beginnings == LinkSpec => BeginningParsed
<1> DEFINE Cut == /\ Len(String(data')) =
                       IF Len(heard) < MaxLen THEN Len(heard) ELSE MaxLen
                  /\ \A p \in 1 .. Len(String(data')) :
                       p < MaxLen => String(data')[p] = heard[p]
<1>1. ASSUME LinkInv, TakeNewline PROVE Cut
  <2>1. i \in 0 .. MaxLen /\ heard \in Seq(Bytes) /\ IndexOK /\ Kept
    BY <1>1 DEF LinkInv, LinkTypeOK, Places
  <2>2. String(data') = [p \in 1 .. i |-> data[p - 1]]
    BY <1>1, Parsed
  <2>3. Len(String(data')) = i
    BY <2>1, <2>2, MaxLenAssumption
  <2>4. \A p \in 1 .. i : p < MaxLen => data[p - 1] = heard[p]
    BY <2>1, MaxLenAssumption DEF Kept, Places
  <2>5. \A p \in 1 .. i : String(data')[p] = data[p - 1]
    BY <2>1, <2>2
  <2> QED
    BY <2>1, <2>3, <2>4, <2>5 DEF IndexOK
<1>2. LinkInv /\ [LinkNext]_linkVars => [TakeNewline => Cut]_linkVars
  BY <1>1
<1> QED
  BY <1>2, LinkInvariant, PTL DEF LinkSpec, BeginningParsed

=============================================================================
