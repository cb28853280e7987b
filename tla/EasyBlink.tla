------------------------------ MODULE EasyBlink ------------------------------
(***************************************************************************)
(* The beeper and the heartbeat LED (HalLibs/easyblink.c): a daemon thread *)
(* that switches both pins on and off in time, and easyblink(), by which   *)
(* the main thread and the button thread ask for a series of pulses.       *)
(*                                                                         *)
(* The daemon computes how long nothing will change, sleeps that long on a *)
(* semaphore, and serves what is due.  easyblink() stores a series under a *)
(* mutex and releases the semaphore, so that the daemon corrects what is   *)
(* left of the other series and sleeps again.  easyblink() does not wait   *)
(* for the mutex: a call that finds it taken does nothing.  A series asked *)
(* for while another one is running goes to the only backup place.         *)
(*                                                                         *)
(* The daemon has the priority of the main thread, which the time slice    *)
(* may interrupt anywhere; the button thread, of lower priority, runs      *)
(* while the daemon is blocked.  The heartbeat is started once, before the *)
(* keys are, so the branch for a second call on an endless series is left  *)
(* out: the program never takes it.                                        *)
(***************************************************************************)
EXTENDS Integers

CONSTANTS
  Beeps,      \* the series beep and lbeep ask for
  Heartbeat,  \* the series of errno_led, of nums -1: without end
  WaitMax,    \* how long the daemon sleeps when nothing is active
  MaxSince,   \* bound: ticks the daemon takes to notice the semaphore
  MaxCalls    \* bound: calls of easyblink

Series == [nums : Nat \cup {-1}, pulse : Nat, npulse : Nat]

ASSUME SeriesAssumption ==
  /\ Beeps \subseteq {s \in Series : s.nums > 0 /\ s.pulse > 0}
  /\ Heartbeat \in {s \in Series : s.nums = -1 /\ s.pulse > 0}
ASSUME BoundsAssumption ==
  WaitMax \in Nat \ {0} /\ MaxSince \in Nat /\ MaxCalls \in Nat

Leds == {"errno_led", "info_beep"}
Flags == {"ACTIVE", "CORRECT", "LED_SHOULD_ON"}

VARIABLES
  flag,     \* led->flag, a set of Flags
  cur,      \* led->nums, pulse, npulse
  bak,      \* led->nums_bak, pulse_bak, npulse_bak
  ticks,    \* led->ticks, 0 where the LED is not active
  pin,      \* 1 while the pin is at its active level
  sem,      \* the value of eb_sem
  mutex,    \* who holds eb_mutex, or "free"
  pc,       \* where the daemon is
  wait,     \* its wait_tick
  since,    \* the ticks since it read the clock before it went to sleep
  calls,    \* calls of easyblink
  owed,     \* history: pulses of the beeper asked for, not replaced, not given
  left      \* history: the time really left before a LED is to change

led == <<flag, cur, bak, ticks, pin>>
daemon == <<pc, wait, since>>
vars == <<led, sem, mutex, daemon, calls, owed, left>>

None == [nums |-> 0, pulse |-> 0, npulse |-> 0]
Active(l) == "ACTIVE" \in flag[l]

TypeOK ==
  /\ flag \in [Leds -> SUBSET Flags]
  /\ cur \in [Leds -> Series] /\ bak \in [Leds -> Series]
  /\ ticks \in [Leds -> Int]
  /\ pin \in [Leds -> {0, 1}]
  /\ sem \in 0 .. MaxCalls
  /\ mutex \in {"free", "daemon", "main", "button"}
  /\ pc \in {"min", "mark", "asleep", "correct", "serve"}
  /\ wait \in Nat /\ since \in Nat
  /\ calls \in 0 .. MaxCalls
  /\ owed \in Nat
  /\ left \in [Leds -> Nat]

(* easyblink_init_led for both, and the daemon has been started.           *)
Init ==
  /\ flag = [l \in Leds |-> {}]
  /\ cur = [l \in Leds |-> None] /\ bak = [l \in Leds |-> None]
  /\ ticks = [l \in Leds |-> 0]
  /\ pin = [l \in Leds |-> 0]
  /\ sem = 0 /\ mutex = "free"
  /\ pc = "min" /\ wait = 0 /\ since = 0
  /\ calls = 0 /\ owed = 0
  /\ left = [l \in Leds |-> 0]

-----------------------------------------------------------------------------
(* The callers.                                                            *)

DaemonBlocked ==
  \/ pc = "asleep" /\ sem = 0 /\ since < wait
  \/ pc \in {"min", "correct", "serve"} /\ mutex \in {"main", "button"}

MayRun(who) == who = "button" => DaemonBlocked /\ mutex # "main"

(* A bug: the daemon is not woken.                                         *)
BeginSilently(l, s) ==
  /\ cur' = [cur EXCEPT ![l] = s]
  /\ ticks' = [ticks EXCEPT ![l] = 0]
  /\ left' = [left EXCEPT ![l] = 0]
  /\ flag' = [flag EXCEPT ![l] = @ \cup Flags]
  /\ UNCHANGED <<sem, bak>>

(* blink_data_set and led_blink_delay(led, 0).                             *)
Begin(l, s) ==
  /\ cur' = [cur EXCEPT ![l] = s]
  /\ ticks' = [ticks EXCEPT ![l] = 0]
  /\ left' = [left EXCEPT ![l] = 0]
  /\ flag' = [flag EXCEPT ![l] = @ \cup Flags]
  /\ sem' = sem + 1
  /\ UNCHANGED bak

PutBack(l, s) ==
  /\ bak' = [bak EXCEPT ![l] = s]
  /\ UNCHANGED <<cur, ticks, left, flag, sem>>

(* The first call: inoutdev_ctrl::init starts the heartbeat.               *)
StartHeartbeat ==
  /\ calls = 0 /\ MaxCalls > 0
  /\ mutex = "free"
  /\ mutex' = "main" /\ calls' = 1
  /\ Begin("errno_led", Heartbeat)
  /\ UNCHANGED <<pin, daemon, owed>>

(* easyblink on the beeper, up to the release of the mutex.                *)
Beep(who, s) ==
  /\ calls \in 1 .. MaxCalls - 1
  /\ MayRun(who)
  /\ mutex = "free"
  /\ mutex' = who /\ calls' = calls + 1
  /\ IF Active("info_beep")
     THEN PutBack("info_beep", s) /\ owed' = owed - bak["info_beep"].nums + s.nums
     ELSE Begin("info_beep", s) /\ owed' = owed + s.nums
  /\ UNCHANGED <<pin, daemon>>

(* A call of the main thread that finds the mutex taken.                   *)
Drop ==
  /\ calls < MaxCalls
  /\ mutex \in {"daemon", "button"}
  /\ calls' = calls + 1
  /\ UNCHANGED <<led, sem, mutex, daemon, owed, left>>

Return(who) ==
  /\ mutex = who
  /\ MayRun(who)
  /\ mutex' = "free"
  /\ UNCHANGED <<led, sem, daemon, calls, owed, left>>

-----------------------------------------------------------------------------
(* The daemon: eb_daemon_thread_entry.                                     *)

Lock ==
  /\ pc \in {"min", "correct", "serve"}
  /\ mutex = "free"
  /\ mutex' = "daemon"
  /\ UNCHANGED <<led, sem, daemon, calls, owed, left>>

Held(stage) == pc = stage /\ mutex = "daemon" /\ mutex' = "free"

(* correct_or_get_min_ticks leaves w as the least of the ticks t.          *)
IsMin(w, t) ==
  LET due == {t[l] : l \in {x \in Leds : Active(x)}} \cup {WaitMax}
      least == CHOOSE m \in due : \A n \in due : m <= n
  IN  w = IF least < 0 THEN 0 ELSE least

SleepOrServe ==
  /\ since' = 0
  /\ pc' = IF wait' = 0 THEN "serve" ELSE "mark"

MinTicks ==
  /\ Held("min")
  /\ wait' \in 0 .. WaitMax /\ IsMin(wait', ticks)
  /\ SleepOrServe
  /\ UNCHANGED <<led, sem, calls, owed, left>>

(* tick = rt_tick_get(), and rt_sem_take begins.                           *)
Sleep ==
  /\ pc = "mark"
  /\ pc' = "asleep"
  /\ UNCHANGED <<led, sem, mutex, wait, since, calls, owed, left>>

Wake ==
  /\ pc = "asleep" /\ sem > 0
  /\ sem' = sem - 1
  /\ pc' = "correct"
  /\ UNCHANGED <<led, mutex, wait, since, calls, owed, left>>

Timeout ==
  /\ pc = "asleep" /\ sem = 0 /\ since = wait
  /\ pc' = "serve" /\ since' = 0
  /\ UNCHANGED <<led, sem, mutex, wait, calls, owed, left>>

(* The ticks of a LED without those the daemon has slept, unless its       *)
(* series was begun in that sleep.                                         *)
Corrected(l) ==
  IF Active(l) /\ "CORRECT" \notin flag[l] THEN ticks[l] - since ELSE ticks[l]

(* A bug: the daemon serves when it is woken instead of sleeping on.       *)
CorrectTicksOnce ==
  /\ Held("correct")
  /\ ticks' = [l \in Leds |-> Corrected(l)]
  /\ flag' = [l \in Leds |-> IF Active(l) THEN flag[l] \ {"CORRECT"} ELSE flag[l]]
  /\ wait' \in 0 .. WaitMax /\ IsMin(wait', ticks')
  /\ since' = 0 /\ pc' = "serve"
  /\ UNCHANGED <<cur, bak, pin, sem, calls, owed, left>>

CorrectTicks ==
  /\ Held("correct")
  /\ ticks' = [l \in Leds |-> Corrected(l)]
  /\ flag' = [l \in Leds |-> IF Active(l) THEN flag[l] \ {"CORRECT"} ELSE flag[l]]
  /\ wait' \in 0 .. WaitMax /\ IsMin(wait', ticks')
  /\ SleepOrServe
  /\ UNCHANGED <<cur, bak, pin, sem, calls, owed, left>>

(* What the daemon makes of the LED l when it is due.                      *)
Keep(l) == [flag |-> flag[l], cur |-> cur[l], bak |-> bak[l], pin |-> pin[l],
            ticks |-> IF Active(l) THEN ticks[l] - wait ELSE ticks[l]]

Due(l) == Active(l) /\ Keep(l).ticks <= 0

SwitchOn(l) ==
  [Keep(l) EXCEPT !.pin = 1, !.flag = @ \ {"LED_SHOULD_ON"},
                  !.ticks = cur[l].pulse]

(* A bug: an endless series is counted down too.                           *)
SwitchOffCounting(l) ==
  [Keep(l) EXCEPT !.pin = 0, !.flag = @ \cup {"LED_SHOULD_ON"},
                  !.ticks = cur[l].npulse, !.cur.nums = @ - 1]

SwitchOff(l) ==
  [Keep(l) EXCEPT !.pin = 0, !.flag = @ \cup {"LED_SHOULD_ON"},
                  !.ticks = cur[l].npulse,
                  !.cur.nums = IF @ > 0 THEN @ - 1 ELSE @]

(* A bug: the backup place is not emptied.                                 *)
TakeBackTwice(l) == [Keep(l) EXCEPT !.cur = bak[l], !.ticks = 0]

TakeBack(l) == [Keep(l) EXCEPT !.cur = bak[l], !.bak = None, !.ticks = 0]

Finish(l) == [Keep(l) EXCEPT !.flag = @ \ {"ACTIVE"}, !.ticks = 0]

Served(l) ==
  IF ~Due(l) THEN Keep(l)
  ELSE IF "LED_SHOULD_ON" \notin flag[l] THEN SwitchOff(l)
  ELSE IF cur[l].nums > 0 \/ cur[l].nums = -1 THEN SwitchOn(l)
  ELSE IF bak[l].pulse # 0 THEN TakeBack(l)
  ELSE Finish(l)

Serve ==
  /\ Held("serve")
  /\ pc' = "min"
  /\ flag' = [l \in Leds |-> Served(l).flag]
  /\ cur' = [l \in Leds |-> Served(l).cur]
  /\ bak' = [l \in Leds |-> Served(l).bak]
  /\ ticks' = [l \in Leds |-> Served(l).ticks]
  /\ pin' = [l \in Leds |-> Served(l).pin]
  /\ left' = [l \in Leds |-> IF Due(l) THEN Served(l).ticks ELSE left[l]]
  /\ owed' = IF pin["info_beep"] = 1 /\ pin'["info_beep"] = 0 /\ owed > 0
             THEN owed - 1 ELSE owed
  /\ UNCHANGED <<sem, wait, since, calls>>

(* The clock.  A sleeping daemon is called at the tick it asked for; once  *)
(* it may run, the main thread can keep it waiting.                        *)
Tick ==
  /\ ~(pc = "asleep" /\ sem = 0 /\ since = wait)
  /\ since' = IF pc \in {"asleep", "correct"} THEN since + 1 ELSE since
  /\ since' <= MaxSince
  /\ left' = [l \in Leds |-> IF left[l] > 0 THEN left[l] - 1 ELSE 0]
  /\ UNCHANGED <<led, sem, mutex, pc, wait, calls, owed>>

Daemon ==
  Lock \/ MinTicks \/ Sleep \/ Wake \/ Timeout \/ CorrectTicks \/ Serve

Next ==
  \/ StartHeartbeat
  \/ \E who \in {"main", "button"} :
       (\E s \in Beeps : Beep(who, s)) \/ Return(who)
  \/ Drop
  \/ Daemon
  \/ Tick

Spec == Init /\ [][Next]_vars

(* The daemon and the callers in its way are scheduled, and time passes;   *)
(* nobody has to beep.                                                     *)
Fairness ==
  /\ WF_vars(Daemon) /\ WF_vars(Tick)
  /\ WF_vars(Return("main")) /\ SF_vars(Return("button"))

FairSpec == Spec /\ Fairness

-----------------------------------------------------------------------------
(* Properties.                                                             *)

(* The daemon never sleeps over a change: while it sleeps with no call to  *)
(* wake it, nothing is due before its time-out, and no series is marked as *)
(* begun in this sleep, which would exempt it from the next correction.    *)
NoOversleep ==
  pc = "asleep" /\ sem = 0 =>
    \A l \in Leds : Active(l) =>
      /\ wait <= ticks[l]
      /\ "CORRECT" \notin flag[l]

(* A pulse is never cut short, nor the pause after it, whatever is asked   *)
(* for meanwhile on either LED: the corrections take off only time that    *)
(* has passed.                                                             *)
NeverEarly ==
  [][\A l \in Leds : pin'[l] # pin[l] => left[l] = 0]_vars

(* The beeper gives exactly the pulses it was asked for, except those of a *)
(* series replaced in the backup place: what is still to come is what the  *)
(* two places hold, and a series that was accepted is not lost.            *)
BeepsAsAsked ==
  /\ owed = cur["info_beep"].nums + bak["info_beep"].nums
  /\ owed > 0 => Active("info_beep")

(* The heartbeat goes on for ever: its pin is switched again and again.    *)
HeartBeats ==
  /\ Active("errno_led") ~> pin["errno_led"] = 1
  /\ pin["errno_led"] = 1 ~> pin["errno_led"] = 0
=============================================================================
