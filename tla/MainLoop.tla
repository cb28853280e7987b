------------------------------ MODULE MainLoop ------------------------------
(***************************************************************************)
(* The main thread of the car (main.cpp) with everything that runs beside  *)
(* it and shares its flags:                                                *)
(*   - the UART3 interrupt that parses OpenART lines (ctrl_openart.cpp),   *)
(*   - the battery timer, which also copies switch 8 into sch_sm_state,    *)
(*   - the button thread with the START and RESET keys (display_ui.cpp),   *)
(*   - the wheels, which only turn while current_timer runs.               *)
(*                                                                         *)
(* Interrupts and timers (all RT-Thread timers run in interrupt context)   *)
(* may run between any two steps of the main thread.  The button thread    *)
(* has the lower priority (28 against 10): it takes a step only while the  *)
(* main thread is blocked on the camera semaphore or in a delay, and loses *)
(* the processor between any two of its steps.                             *)
(*                                                                         *)
(* A step of the main thread ends where it blocks or between two accesses  *)
(* to a flag an interrupt writes.  Distances are abstracted to place:      *)
(* "away" while |target - all_distance| >= 3 for the target driven to.     *)
(***************************************************************************)
EXTENDS Integers

CONSTANTS
  OpenArtNums,   \* the numbers an OpenART line may carry
  MaxPresses     \* bound: key presses in a behaviour

ASSUME OpenArtNumsAssumption == OpenArtNums \subseteq Int
ASSUME MaxPressesAssumption == MaxPresses \in Nat

Gestures == 0 .. 5     \* regco_num values main() has a branch for
NoNum == -1            \* regco_num when nothing is held

normal == 0            \* enum sch_type
regco == 1

chassis_normal == 0    \* f1.chassis_update_type: speed control
pos_loop_hold == 3     \* f1.chassis_update_type: motors held at zero

VARIABLES
  switch8,             \* the physical switch 8: "on" or "off"
  sch_sm_state,        \* f2.sch_sm_state
  start_regco_flag,    \* f1.start_regco_flag
  no_ele_start_flag,   \* f1.no_ele_start_flag
  reset_ele_signal,    \* f1.reset_ele_signal
  en_start,            \* f2.en_start
  chassis_update_type, \* f1.chassis_update_type
  current_timer,       \* "running" or "stopped"
  speed,               \* the wheels' set speed: "zero" or "drive"
  place,               \* the car is "near" its target, or "away": 3 or more
  finish_regco_flag,   \* f1.finish_regco_flag
  regco_num,           \* f1.regco_num
  laser,               \* "on" or "off"
  pc,                  \* where the main thread is
  gesture,             \* the branch of the gesture chain main() is in
  btn,                 \* where the button thread is
  presses              \* key presses so far, bounded by MaxPresses

keyVars == <<btn, presses>>
modeVars == <<switch8, sch_sm_state>>
keyFlags == <<start_regco_flag, no_ele_start_flag, reset_ele_signal, en_start>>
wheelVars == <<chassis_update_type, current_timer, speed, place>>
mailbox == <<finish_regco_flag, regco_num>>
mainVars == <<laser, pc, gesture>>
vars == <<switch8, sch_sm_state, start_regco_flag, no_ele_start_flag,
          reset_ele_signal, en_start, chassis_update_type, current_timer,
          speed, place, finish_regco_flag, regco_num, laser, pc, gesture,
          btn, presses>>

(* The steps of the main thread.  It is blocked in the first group (waiting *)
(* for a camera frame or in rt_thread_mdelay) and running in the second.    *)
BlockedAt == {"frame", "standstill", "home", "out", "back", "swing", "laser",
              "settle"}
RunningAt == {"dispatch", "release", "clear"}
Loops == {"home", "out", "back"}                    \* inside pos_loop_loop
Performing == {"swing", "laser", "out", "back", "settle", "release"}

FlagsOK ==
  /\ switch8 \in {"on", "off"}
  /\ sch_sm_state \in {normal, regco}
  /\ start_regco_flag \in {0, 1}
  /\ no_ele_start_flag \in {0, 1}
  /\ reset_ele_signal \in {0, 1}
  /\ en_start \in {0, 1}
  /\ chassis_update_type \in {chassis_normal, pos_loop_hold}
  /\ current_timer \in {"running", "stopped"}
  /\ speed \in {"zero", "drive"}
  /\ place \in {"near", "away"}
  /\ finish_regco_flag \in {0, 1}
  /\ regco_num \in OpenArtNums \cup {NoNum}
  /\ laser \in {"on", "off"}
  /\ pc \in BlockedAt \cup RunningAt
  /\ gesture \in Gestures \cup {NoNum}
  /\ btn \in {"idle", "reset2", "reset3", "reset4", "reset5"}

TypeOK == FlagsOK /\ presses \in 0 .. MaxPresses

Init ==
  /\ switch8 \in {"on", "off"}
  /\ sch_sm_state = normal
  /\ start_regco_flag = 0
  /\ no_ele_start_flag = 0
  /\ reset_ele_signal = 0
  /\ en_start = 0
  /\ chassis_update_type = chassis_normal
  /\ current_timer = "stopped"
  /\ speed = "zero"
  /\ place = "near"
  /\ finish_regco_flag = 0
  /\ regco_num = NoNum
  /\ laser = "off"
  /\ pc = "frame"
  /\ gesture = NoNum
  /\ btn = "idle"
  /\ presses = 0

-----------------------------------------------------------------------------
(* The UART interrupt: cmd_parse on a line that carries the number n.  In  *)
(* the other mode, or while a result is held, the line leaves the flags    *)
(* below as they are.                                                      *)
Receive(n) ==
  /\ sch_sm_state = regco
  /\ finish_regco_flag = 0
  /\ regco_num' = n
  /\ finish_regco_flag' = 1
  /\ UNCHANGED <<modeVars, keyFlags, wheelVars, mainVars, keyVars>>

(* adc_bat_thread: every half second switch 8 selects the mode.            *)
BatTimer ==
  /\ sch_sm_state' = IF switch8 = "on" THEN regco ELSE normal
  /\ UNCHANGED <<switch8, keyFlags, wheelVars, mailbox, mainVars, keyVars>>

(* Somebody moves switch 8.                                                *)
Toggle ==
  /\ switch8' = IF switch8 = "on" THEN "off" ELSE "on"
  /\ UNCHANGED <<sch_sm_state, keyFlags, wheelVars, mailbox, mainVars, keyVars>>

(* The wheels take the car to the target of the position loop.  They only  *)
(* turn under current control, that is while current_timer runs and the    *)
(* chassis is not held (current_thread).                                   *)
Wheels ==
  /\ place = "away"
  /\ pc \in Loops
  /\ speed = "drive"
  /\ current_timer = "running"
  /\ chassis_update_type = chassis_normal
  /\ place' = "near"
  /\ UNCHANGED <<modeVars, keyFlags, chassis_update_type, current_timer, speed,
                 mailbox, mainVars, keyVars>>

-----------------------------------------------------------------------------
(* The button thread.  It is only scheduled while the main thread blocks.  *)

MainBlocked == pc \in BlockedAt

PressStart ==
  /\ MainBlocked
  /\ btn = "idle"
  /\ presses < MaxPresses
  /\ presses' = presses + 1
  /\ no_ele_start_flag' = 1
  /\ UNCHANGED <<modeVars, start_regco_flag, reset_ele_signal, en_start,
                 wheelVars, mailbox, mainVars, btn>>

(* RESET: send_reset_sig, whose writes the main thread may separate, then  *)
(* rt_timer_start(current_timer).                                          *)
PressReset ==
  /\ MainBlocked
  /\ btn = "idle"
  /\ presses < MaxPresses
  /\ presses' = presses + 1
  /\ reset_ele_signal' = 1
  /\ btn' = "reset2"
  /\ UNCHANGED <<modeVars, start_regco_flag, no_ele_start_flag, en_start,
                 wheelVars, mailbox, mainVars>>

(* chassis_update_type = 0: the hold of a position loop is lifted.         *)
ResetChassis ==
  /\ MainBlocked
  /\ btn = "reset2"
  /\ btn' = "reset3"
  /\ chassis_update_type' = chassis_normal
  /\ UNCHANGED <<modeVars, keyFlags, current_timer, speed, place, mailbox,
                 mainVars, presses>>

(* clear_dis: the car is now at distance zero, which is where the home and *)
(* back legs lead and the out leg does not.                                *)
ResetDistance ==
  /\ MainBlocked
  /\ btn = "reset3"
  /\ btn' = "reset4"
  /\ place' = IF pc = "out" THEN "away" ELSE "near"
  /\ UNCHANGED <<modeVars, keyFlags, chassis_update_type, current_timer, speed,
                 mailbox, mainVars, presses>>

ResetEnableRegco ==
  /\ MainBlocked
  /\ btn = "reset4"
  /\ btn' = "reset5"
  /\ start_regco_flag' = 1
  /\ UNCHANGED <<modeVars, no_ele_start_flag, reset_ele_signal, en_start,
                 wheelVars, mailbox, mainVars, presses>>

ResetStartTimer ==
  /\ MainBlocked
  /\ btn = "reset5"
  /\ btn' = "idle"
  /\ current_timer' = "running"
  /\ UNCHANGED <<modeVars, keyFlags, chassis_update_type, speed, place, mailbox,
                 mainVars, presses>>

Buttons ==
  \/ PressStart
  \/ PressReset
  \/ ResetChassis
  \/ ResetDistance
  \/ ResetEnableRegco
  \/ ResetStartTimer

-----------------------------------------------------------------------------
(* The main thread.                                                        *)

(* normal_run() and the set_speed after it.  find_elements serves a pending *)
(* reset by zeroing f2, sch_sm_state and en_start with it; otherwise the    *)
(* start sequence may end.  The wheels get the speed the image calls for.   *)
NormalRun ==
  /\ reset_ele_signal' = 0
  /\ IF reset_ele_signal = 1
     THEN en_start' = 0 /\ sch_sm_state' = normal
     ELSE en_start' \in {0, en_start} /\ UNCHANGED sch_sm_state
  /\ speed' \in {"zero", "drive"}

(* A frame in normal mode without START pending.                           *)
FrameNormal ==
  /\ pc = "frame"
  /\ sch_sm_state = normal
  /\ no_ele_start_flag = 0
  /\ NormalRun
  /\ UNCHANGED <<switch8, start_regco_flag, no_ele_start_flag,
                 chassis_update_type, current_timer, place, mailbox, mainVars,
                 keyVars>>

(* A frame in normal mode that serves START: the motors are stopped and    *)
(* current_timer with them, for a delay of two seconds.                    *)
FrameStart ==
  /\ pc = "frame"
  /\ sch_sm_state = normal
  /\ no_ele_start_flag = 1
  /\ en_start' = 1
  /\ no_ele_start_flag' = 0
  /\ current_timer' = "stopped"
  /\ pc' = "standstill"
  /\ UNCHANGED <<modeVars, start_regco_flag, reset_ele_signal,
                 chassis_update_type, speed, place, mailbox, laser, gesture,
                 keyVars>>

(* A bug: START forgets to start current_timer again.                      *)
StandstillEndsStopped ==
  /\ pc = "standstill"
  /\ NormalRun
  /\ pc' = "frame"
  /\ UNCHANGED <<switch8, start_regco_flag, no_ele_start_flag, current_timer,
                 chassis_update_type, place, mailbox, laser, gesture, keyVars>>

(* The delay is over; the same frame goes on, whatever the mode is now.    *)
StandstillEnds ==
  /\ pc = "standstill"
  /\ current_timer' = "running"
  /\ NormalRun
  /\ pc' = "frame"
  /\ UNCHANGED <<switch8, start_regco_flag, no_ele_start_flag,
                 chassis_update_type, place, mailbox, laser, gesture, keyVars>>

(* A frame in recognition mode: stop, and drive back to distance zero.     *)
FrameRegco ==
  /\ pc = "frame"
  /\ sch_sm_state = regco
  /\ start_regco_flag = 1
  /\ speed' = "zero"
  /\ place' \in {"near", "away"}
  /\ pc' = "home"
  /\ UNCHANGED <<modeVars, keyFlags, chassis_update_type, current_timer,
                 mailbox, laser, gesture, keyVars>>

(* A bug: pos_loop_loop returns without set_speed(0, 0).                   *)
LeaveLoopRolling ==
  /\ UNCHANGED speed
  /\ place' = IF pc = "out" THEN "away" ELSE "near"
  /\ pc' = CASE pc = "home" -> "dispatch"
             [] pc = "out"  -> "back"
             [] pc = "back" -> "settle"

(* Where main() goes on after pos_loop_loop returns.  The out leg ends with *)
(* the car at the out target, so away from the target of the back leg.      *)
LeaveLoop ==
  /\ speed' = "zero"
  /\ place' = IF pc = "out" THEN "away" ELSE "near"
  /\ pc' = CASE pc = "home" -> "dispatch"
             [] pc = "out"  -> "back"
             [] pc = "back" -> "settle"

(* One round of pos_loop_loop that finds the car within 3 of the target.   *)
LoopSettled ==
  /\ pc \in Loops
  /\ place = "near"
  /\ chassis_update_type' = pos_loop_hold
  /\ LeaveLoop
  /\ UNCHANGED <<modeVars, keyFlags, current_timer, mailbox, laser, gesture,
                 keyVars>>

(* A bug: a round that drives leaves the hold of the last loop in place.   *)
LoopDrivesUnderHold ==
  /\ pc \in Loops
  /\ place = "away"
  /\ speed' = "drive"
  /\ UNCHANGED <<modeVars, keyFlags, chassis_update_type, current_timer, place,
                 mailbox, mainVars, keyVars>>

(* A round that does not: drive on.                                        *)
LoopDrives ==
  /\ pc \in Loops
  /\ place = "away"
  /\ chassis_update_type' = chassis_normal
  /\ speed' = "drive"
  /\ UNCHANGED <<modeVars, keyFlags, current_timer, place, mailbox, mainVars,
                 keyVars>>

(* A round that does not, but meets the second test: beyond the out target,*)
(* or, in the loops of type 2 (gestures 2 and 3), within 5 of zero.  The   *)
(* loop ends under speed control.                                          *)
LoopPassed ==
  /\ pc = "out" \/ (pc = "back" /\ gesture \in {2, 3})
  /\ place = "away"
  /\ chassis_update_type' = chassis_normal
  /\ LeaveLoop
  /\ UNCHANGED <<modeVars, keyFlags, current_timer, mailbox, laser, gesture,
                 keyVars>>

(* The gesture chain.  A held result no branch exists for stays held.      *)
Dispatch ==
  /\ pc = "dispatch"
  /\ IF finish_regco_flag = 1 /\ regco_num \in Gestures
     THEN /\ gesture' = regco_num
          /\ laser' = IF regco_num = 1 THEN "on" ELSE "off"
          /\ place' = IF regco_num \in 2 .. 5 THEN "away" ELSE "near"
          /\ pc' = CASE regco_num = 0 -> "swing"
                     [] regco_num = 1 -> "laser"
                     [] OTHER -> "out"
     ELSE /\ pc' = "frame"
          /\ UNCHANGED <<gesture, laser, place>>
  /\ UNCHANGED <<modeVars, keyFlags, chassis_update_type, current_timer, speed,
                 mailbox, keyVars>>

(* The camera has been swung and the last delay is over.                   *)
SwingEnds ==
  /\ pc = "swing"
  /\ pc' = "release"
  /\ UNCHANGED <<modeVars, keyFlags, wheelVars, mailbox, laser, gesture, keyVars>>

(* A bug: laser_off is forgotten.                                          *)
LaserEndsLit ==
  /\ pc = "laser"
  /\ pc' = "settle"
  /\ UNCHANGED <<modeVars, keyFlags, wheelVars, mailbox, laser, gesture, keyVars>>

(* The laser's 1.1 seconds are over.                                       *)
LaserEnds ==
  /\ pc = "laser"
  /\ laser' = "off"
  /\ pc' = "settle"
  /\ UNCHANGED <<modeVars, keyFlags, wheelVars, mailbox, gesture, keyVars>>

SettleEnds ==
  /\ pc = "settle"
  /\ pc' = "release"
  /\ UNCHANGED <<modeVars, keyFlags, wheelVars, mailbox, laser, gesture, keyVars>>

(* A bug: finish_regco_flag is not cleared.                                *)
ReleaseKeepsFlag ==
  /\ pc = "release"
  /\ gesture' = NoNum
  /\ pc' = "clear"
  /\ UNCHANGED <<modeVars, keyFlags, wheelVars, mailbox, laser, keyVars>>

(* finish_regco_flag = 0: from here on the interrupt accepts a new result. *)
Release ==
  /\ pc = "release"
  /\ finish_regco_flag' = 0
  /\ gesture' = NoNum
  /\ pc' = "clear"
  /\ UNCHANGED <<modeVars, keyFlags, wheelVars, regco_num, laser, keyVars>>

(* regco_num = -1: also wipes a result accepted since the step above.      *)
Clear ==
  /\ pc = "clear"
  /\ regco_num' = NoNum
  /\ pc' = "frame"
  /\ UNCHANGED <<modeVars, keyFlags, wheelVars, finish_regco_flag, laser,
                 gesture, keyVars>>

(* Every step of the main thread but LoopPassed, which depends on how far  *)
(* the car slides and so deserves no fairness.                             *)
Main ==
  \/ FrameNormal
  \/ FrameStart
  \/ StandstillEnds
  \/ FrameRegco
  \/ LoopSettled
  \/ LoopDrives
  \/ Dispatch
  \/ SwingEnds
  \/ LaserEnds
  \/ SettleEnds
  \/ Release
  \/ Clear

Next ==
  \/ \E n \in OpenArtNums : Receive(n)
  \/ BatTimer
  \/ Toggle
  \/ Wheels
  \/ Buttons
  \/ Main
  \/ LoopPassed

Spec == Init /\ [][Next]_vars

(* The camera keeps delivering frames and delays end (Main), the button    *)
(* thread runs whenever the main thread blocks, which it does at every     *)
(* frame, timers expire, and driven wheels turn.  Nobody has to press a    *)
(* key, move the switch or send a line.                                    *)
Fairness ==
  /\ WF_vars(Main)
  /\ WF_vars(Wheels)
  /\ WF_vars(BatTimer)
  /\ SF_vars(ResetChassis)
  /\ SF_vars(ResetDistance)
  /\ SF_vars(ResetEnableRegco)
  /\ SF_vars(ResetStartTimer)

FairSpec == Spec /\ Fairness

(* The main thread has nothing to do: recognition is not enabled yet, or a *)
(* position loop has commanded the speed and waits for the car.  Everywhere*)
(* else a step of Main is enabled, so that MainGoesOn says of a behaviour  *)
(* what WF_vars(Main) says of it, in terms the prover knows.               *)
MainWaits ==
  \/ pc = "frame" /\ sch_sm_state = regco /\ start_regco_flag = 0
  \/ /\ pc \in Loops /\ place = "away"
     /\ chassis_update_type = chassis_normal /\ speed = "drive"

MainGoesOn == []<>MainWaits \/ []<><<Main>>_vars

(* The rest of Fairness in the same terms: the wheels turn while they can, *)
(* the battery timer expires while it has a mode to change, and the button *)
(* thread gets to run as often as the main thread blocks.                  *)
WheelsReady ==
  /\ pc \in Loops /\ place = "away" /\ speed = "drive"
  /\ current_timer = "running" /\ chassis_update_type = chassis_normal

OthersGoOn ==
  /\ []<>~WheelsReady \/ []<><<Wheels>>_vars
  /\ []<>(sch_sm_state = IF switch8 = "on" THEN regco ELSE normal)
       \/ []<><<BatTimer>>_vars
  /\ []<>(MainBlocked /\ btn = "reset2") => []<><<ResetChassis>>_vars
  /\ []<>(MainBlocked /\ btn = "reset3") => []<><<ResetDistance>>_vars
  /\ []<>(MainBlocked /\ btn = "reset4") => []<><<ResetEnableRegco>>_vars
  /\ []<>(MainBlocked /\ btn = "reset5") => []<><<ResetStartTimer>>_vars

(* The keys are pressed so many times and no more, however many that is.   *)
KeysRest == <>[][UNCHANGED presses]_vars

-----------------------------------------------------------------------------
(* Properties.                                                             *)

(* The laser burns only during the fruit gesture, for the result still in  *)
(* the mailbox, with the set speed at zero: no interrupt, mode switch or   *)
(* key press between laser_on and laser_off gets in the way.               *)
LaserOnlyForFruit ==
  laser = "on" =>
    /\ pc = "laser"
    /\ gesture = 1
    /\ finish_regco_flag = 1
    /\ regco_num = 1
    /\ speed = "zero"

(* While a gesture is performed the mailbox keeps the result it is         *)
(* performed for: cmd_parse leaves regco_num alone until main() releases.  *)
GestureMatchesMailbox ==
  pc \in Performing => finish_regco_flag = 1 /\ regco_num = gesture

(* Outside the position loops the recognition mode leaves no drive command *)
(* behind: pos_loop_loop ends with set_speed(0, 0) however it is left.     *)
StandsWhilePerforming ==
  pc \in {"dispatch", "swing", "laser", "settle", "release", "clear"}
    => speed = "zero"

(* Once recognition is enabled the wheels have current control, except     *)
(* during the START standstill and inside the RESET handler: START stops   *)
(* the timer RESET started, and main() has to start it again.              *)
CurrentControlRuns ==
  start_regco_flag = 1 /\ pc # "standstill" /\ btn # "reset5"
    => current_timer = "running"

(* A position loop entered under the hold of the previous one lets go of   *)
(* it before it commands a speed: the car is never told to drive while     *)
(* current_thread holds the motors at zero.                                *)
NoDriveUnderHold ==
  pc \in Loops /\ speed = "drive" => chassis_update_type = chassis_normal

(* The detailed loop keeps the promise of one result at a time, each one   *)
(* performed at most once; a result that is lost stays in the way.         *)
Phase ==
  IF finish_regco_flag = 0 THEN "idle"
  ELSE IF regco_num \notin Gestures THEN "stuck"
  ELSE IF pc \in Performing THEN "running"
  ELSE "pending"

Job == IF finish_regco_flag = 1 THEN regco_num ELSE NoNum

Promise == INSTANCE RegcoPromise WITH job <- Job, phase <- Phase

KeepsPromise == Promise!Spec

(* A result accepted while main() was not between its two release writes   *)
(* is performed once the recognition mode is there to stay, also across    *)
(* RESET, which moves the distance the position loops are driving by.      *)
AcceptedIsPerformed ==
  <>[](switch8 = "on" /\ start_regco_flag = 1) =>
    \A n \in Gestures :
      (finish_regco_flag = 1 /\ regco_num = n /\ pc # "clear") ~> (gesture = n)

(* What the gesture chain's comment says of a fruit ("fruit, open the      *)
(* laser"): a fruit the car has accepted in recognition mode gets its      *)
(* laser.                                                                  *)
FruitOpensLaser ==
  <>[](switch8 = "on" /\ start_regco_flag = 1) =>
    ((finish_regco_flag = 1 /\ regco_num = 1) ~> laser = "on")

=============================================================================
