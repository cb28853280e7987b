---------------------------- MODULE AgileButton ----------------------------
(***************************************************************************)
(* The seven keys (HalLibs/agile_button.c): one thread visits every key    *)
(* once per round, in the order in which they were started, and moves its  *)
(* state machine by at most one step; a round holds lock_mtx, after it the *)
(* thread sleeps.  A key is accepted as pressed when every sample of the   *)
(* elimination time found it closed, and clicked when a later sample finds *)
(* it open; the callback runs in this thread, while the other keys wait.   *)
(* Only BTN_CLICK_EVENT has a callback (ctrl_inoutdev.cpp:112).            *)
(*                                                                         *)
(* The tick counter wraps.  It may advance between any two reads, but from *)
(* the thread's going to sleep to the end of the next round by no more     *)
(* than MaxRound.  Delay, Elimination, TwoInterval and HoldCycle are the   *)
(* code's times, in ticks.  The level a sample finds is any level.         *)
(* btn->event is left out of the type: nothing reads it back.              *)
(***************************************************************************)
EXTENDS Integers

CONSTANTS
  KeyCount,      \* the number of keys
  RT_TICK_MAX,   \* the largest value of the tick counter
  MsPerTick,     \* 1000 / RT_TICK_PER_SECOND in integers: 0 in this build
  Delay,         \* the sleep between two rounds
  Elimination,   \* AGILE_BUTTON_ELIMINATION_TIME_DEFAULT
  TwoInterval,   \* AGILE_BUTTON_TWO_INTERVAL_TIME_DEFAULT
  HoldCycle,     \* AGILE_BUTTON_HOLD_CYCLE_TIME_DEFAULT (milliseconds)
  CountRange,    \* repeat_cnt counts modulo this
  MaxRound       \* bound: the ticks of a sleep and the round after it

Half == RT_TICK_MAX \div 2

ASSUME ConstantsAssumption ==
  /\ KeyCount \in Nat \ {0} /\ RT_TICK_MAX \in Nat \ {0}
  /\ MsPerTick \in Nat /\ Delay \in Nat /\ HoldCycle \in Nat \ {0}
  /\ Elimination \in Nat \ {0} /\ TwoInterval \in Nat
  /\ CountRange \in Nat \ {0} /\ MaxRound \in Nat \ {0}
  /\ Delay <= MaxRound

(* Rounds come often, and the times are short, measured by the counter.    *)
ASSUME WrapAssumption ==
  /\ 4 * MaxRound <= Half
  /\ Elimination <= Half /\ TwoInterval <= Half

Keys == 1 .. KeyCount
Ticks == 0 .. RT_TICK_MAX

States == {"NONE_PRESS", "CHECK_PRESS", "PRESS_DOWN", "PRESS_HOLD", "PRESS_UP"}
Events == {"PRESS_DOWN", "HOLD", "PRESS_UP", "CLICK", "SUM"}

VARIABLES
  tick,      \* rt_tick
  btn,       \* the keys' structures
  pc,        \* where the thread is; asleep: it does not hold lock_mtx
  at,        \* the key it visits
  level,     \* the level it has sampled last, per key: TRUE is active_logic
  spent,     \* ticks since it went to sleep last
  due,       \* history: ticks until tick_timeout, negative when it is past
  firm       \* history: ticks for which the samples of a key have been active

thread == <<pc, at, spent>>
vars == <<tick, btn, thread, level, due, firm>>

Button ==
  [active : BOOLEAN, state : States, event : Events,
   repeat_cnt : 0 .. CountRange - 1,
   hold_time : Ticks, prev_hold_time : Ticks, tick_timeout : Ticks]

TypeOK ==
  /\ tick \in Ticks
  /\ btn \in [Keys -> Button]
  /\ pc \in {"asleep", "visit", "sampled", "straight", "wrapped", "callback"}
  /\ at \in Keys
  /\ level \in [Keys -> BOOLEAN]
  /\ spent \in 0 .. MaxRound
  /\ due \in [Keys -> -Half .. Half]
  /\ firm \in [Keys -> 0 .. Elimination]
-----------------------------------------------------------------------------
(* Arithmetic of rt_tick_t.                                                *)

(* The unsigned difference a - b.                                          *)
Minus(a, b) == IF a >= b THEN a - b ELSE a - b + RT_TICK_MAX + 1

Plus(a, n) == IF a + n <= RT_TICK_MAX THEN a + n ELSE a + n - RT_TICK_MAX - 1

Reached(now, timeout) == Minus(now, timeout) < Half
-----------------------------------------------------------------------------
(* The structure agile_btn_create makes and agile_btn_start makes again.   *)
Fresh(active, timeout) ==
  [active |-> active, state |-> "NONE_PRESS", event |-> "SUM", repeat_cnt |-> 0,
   hold_time |-> 0, prev_hold_time |-> 0, tick_timeout |-> timeout]

Init ==
  /\ tick = 0
  /\ btn = [k \in Keys |-> Fresh(FALSE, 0)]
  /\ pc = "asleep" /\ at = 1 /\ spent = 0
  /\ level = [k \in Keys |-> FALSE]
  /\ due = [k \in Keys |-> 0]
  /\ firm = [k \in Keys |-> 0]

Min2(a, b) == IF a <= b THEN a ELSE b

Passed(d) == IF d > -Half THEN d - 1 ELSE d

Tick ==
  /\ spent < MaxRound
  /\ spent' = spent + 1
  /\ tick' = Plus(tick, 1)
  /\ due' = [k \in Keys |-> Passed(due[k])]
  /\ firm' = [k \in Keys |-> IF level[k] THEN Min2(firm[k] + 1, Elimination)
                                         ELSE 0]
  /\ UNCHANGED <<btn, pc, at, level>>

(* The main thread starts the keys one after the other, between rounds.    *)
Start(k) ==
  /\ pc = "asleep"
  /\ ~btn[k].active /\ \A j \in 1 .. k - 1 : btn[j].active
  /\ btn' = [btn EXCEPT ![k] = Fresh(TRUE, tick)]
  /\ due' = [due EXCEPT ![k] = 0]
  /\ UNCHANGED <<tick, thread, level, firm>>

(* A round begins at the head of the list, if there is one.                *)
Wake ==
  /\ pc = "asleep" /\ spent >= Delay
  /\ IF btn[1].active THEN pc' = "visit" /\ at' = 1 /\ UNCHANGED spent
                      ELSE spent' = 0 /\ UNCHANGED <<pc, at>>
  /\ UNCHANGED <<tick, btn, level, due, firm>>

HasNext == at < KeyCount /\ btn[at + 1].active

(* On to the next key of the list, or to sleep.                            *)
MoveOn ==
  IF HasNext
  THEN at' = at + 1 /\ pc' = "visit" /\ UNCHANGED spent
  ELSE pc' = "asleep" /\ spent' = 0 /\ UNCHANGED at

(* The visit of key at, in the states that look at the pin.                *)
Sample(closed) ==
  /\ pc = "visit"
  /\ btn[at].state \in {"NONE_PRESS", "CHECK_PRESS", "PRESS_HOLD"}
  /\ level' = [level EXCEPT ![at] = closed]
  /\ firm' = [firm EXCEPT ![at] = IF closed THEN @ ELSE 0]
  /\ pc' = "sampled"
  /\ UNCHANGED <<tick, btn, at, spent, due>>

Sampled(state, closed) ==
  pc = "sampled" /\ btn[at].state = state /\ level[at] = closed

(* Writes the structure of the key visited; its timeout is n ticks ahead.  *)
Set(b) == btn' = [btn EXCEPT ![at] = b]
Due(n) == due' = [due EXCEPT ![at] = n]

(* Mutant: accepts the press at once.                                      *)
PressSeenUnchecked ==
  /\ Sampled("NONE_PRESS", TRUE)
  /\ Set([btn[at] EXCEPT !.tick_timeout = Plus(tick, Elimination),
                         !.state = "PRESS_DOWN"])
  /\ Due(Elimination)
  /\ MoveOn
  /\ UNCHANGED <<tick, level, firm>>

PressSeen ==
  /\ Sampled("NONE_PRESS", TRUE)
  /\ Set([btn[at] EXCEPT !.tick_timeout = Plus(tick, Elimination),
                         !.state = "CHECK_PRESS"])
  /\ Due(Elimination)
  /\ MoveOn
  /\ UNCHANGED <<tick, level, firm>>

IdleSeen ==
  /\ Sampled("NONE_PRESS", FALSE)
  /\ LET clear == btn[at].repeat_cnt # 0 /\ Reached(tick, btn[at].tick_timeout)
     IN Set([btn[at] EXCEPT !.repeat_cnt = IF clear THEN 0 ELSE @])
  /\ MoveOn
  /\ UNCHANGED <<tick, level, due, firm>>

PressChecked ==
  /\ Sampled("CHECK_PRESS", TRUE)
  /\ Set([btn[at] EXCEPT !.state =
            IF Reached(tick, btn[at].tick_timeout) THEN "PRESS_DOWN" ELSE @])
  /\ MoveOn
  /\ UNCHANGED <<tick, level, due, firm>>

(* Mutant: stays in the check when the contact has bounced.                *)
BouncedStays ==
  /\ Sampled("CHECK_PRESS", FALSE)
  /\ MoveOn
  /\ UNCHANGED <<tick, btn, level, due, firm>>

Bounced ==
  /\ Sampled("CHECK_PRESS", FALSE)
  /\ Set([btn[at] EXCEPT !.state = "NONE_PRESS"])
  /\ MoveOn
  /\ UNCHANGED <<tick, level, due, firm>>

PressDown ==
  /\ pc = "visit" /\ btn[at].state = "PRESS_DOWN"
  /\ Set([btn[at] EXCEPT !.hold_time = 0, !.prev_hold_time = 0,
                         !.repeat_cnt = (@ + 1) % CountRange,
                         !.event = "PRESS_DOWN", !.tick_timeout = tick,
                         !.state = "PRESS_HOLD"])
  /\ Due(0)
  /\ MoveOn
  /\ UNCHANGED <<tick, level, firm>>

(* agile_btn_cal_hold_time compares first and reads the tick again.        *)
HoldSeen ==
  /\ Sampled("PRESS_HOLD", TRUE)
  /\ pc' = IF tick < btn[at].tick_timeout THEN "wrapped" ELSE "straight"
  /\ UNCHANGED <<tick, btn, at, spent, level, due, firm>>

HoldTime ==
  (IF pc = "wrapped" THEN RT_TICK_MAX - btn[at].tick_timeout + tick
                     ELSE Minus(tick, btn[at].tick_timeout)) * MsPerTick

HoldTimed ==
  /\ pc \in {"wrapped", "straight"}
  /\ LET t == HoldTime % (RT_TICK_MAX + 1)
         cycle == Minus(t, btn[at].prev_hold_time) >= HoldCycle
     IN Set([btn[at] EXCEPT !.hold_time = t,
                            !.event = IF cycle THEN "HOLD" ELSE @,
                            !.prev_hold_time = IF cycle THEN t ELSE @])
  /\ MoveOn
  /\ UNCHANGED <<tick, level, due, firm>>

Released ==
  /\ Sampled("PRESS_HOLD", FALSE)
  /\ Set([btn[at] EXCEPT !.state = "PRESS_UP"])
  /\ MoveOn
  /\ UNCHANGED <<tick, level, due, firm>>

(* The callback of BTN_CLICK_EVENT, btn_event_cb, begins.                  *)
PressUp ==
  /\ pc = "visit" /\ btn[at].state = "PRESS_UP"
  /\ Set([btn[at] EXCEPT !.event = "CLICK"])
  /\ pc' = "callback"
  /\ UNCHANGED <<tick, at, spent, level, due, firm>>

(* Mutant: the state stays as it is.                                       *)
ClickedAgain ==
  /\ pc = "callback"
  /\ Set([btn[at] EXCEPT !.tick_timeout = Plus(tick, TwoInterval)])
  /\ Due(TwoInterval)
  /\ MoveOn
  /\ UNCHANGED <<tick, level, firm>>

(* It returns.                                                             *)
Clicked ==
  /\ pc = "callback"
  /\ Set([btn[at] EXCEPT !.tick_timeout = Plus(tick, TwoInterval),
                         !.state = "NONE_PRESS"])
  /\ Due(TwoInterval)
  /\ MoveOn
  /\ UNCHANGED <<tick, level, firm>>

Visit ==
  \/ \E closed \in BOOLEAN : Sample(closed)
  \/ PressSeen \/ IdleSeen \/ PressChecked \/ Bounced
  \/ PressDown \/ HoldSeen \/ HoldTimed \/ Released
  \/ PressUp \/ Clicked

Next == Tick \/ Wake \/ Visit \/ \E k \in Keys : Start(k)

Spec == Init /\ [][Next]_vars

FairSpec ==
  Spec /\ WF_vars(Tick) /\ WF_vars(Wake) /\ WF_vars(Visit)
       /\ \A k \in Keys : SF_vars(Start(k))
-----------------------------------------------------------------------------
Awaits(k) ==
  btn[k].state = "CHECK_PRESS" \/ (btn[k].state = "NONE_PRESS" /\ btn[k].repeat_cnt # 0)

(* Whenever the thread compares the counter with a key's timeout, wrapping *)
(* or not, the answer is what a counter without end would give.            *)
TimeoutsExact ==
  pc = "sampled" /\ Awaits(at)
    => (Reached(tick, btn[at].tick_timeout) <=> due[at] <= 0)

(* A press is accepted only when for the whole elimination time every      *)
(* sample has found the key closed.                                        *)
Debounced ==
  [][\A k \in Keys :
       btn[k].state # "PRESS_DOWN" /\ btn'[k].state = "PRESS_DOWN"
         => level[k] /\ firm[k] >= Elimination]_vars

(* Each accepted press is clicked once, and a callback is never called     *)
(* while another one runs.                                                 *)
Promise ==
  INSTANCE KeyPromise WITH
    down <- {k \in Keys :
               btn[k].state \in {"PRESS_DOWN", "PRESS_HOLD", "PRESS_UP"}},
    running <- IF pc = "callback" THEN {at} ELSE {}
OneClickPerPress == Promise!Spec

(* A key held is accepted for as long as it is held; a key left alone ends *)
(* idle, with the presses counted forgotten.                               *)
KeysFollow ==
  \A k \in Keys :
    /\ <>[](level[k] /\ btn[k].active) => <>[](btn[k].state = "PRESS_HOLD")
    /\ <>[]~level[k]
         => <>[](btn[k].state = "NONE_PRESS" /\ btn[k].repeat_cnt = 0)
=============================================================================
