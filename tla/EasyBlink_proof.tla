-------------------------- MODULE EasyBlink_proof ---------------------------
(***************************************************************************)
(* For every set of series, heartbeat and bounds: the types, that the      *)
(* daemon never sleeps over a change, and that the beeper gives the pulses *)
(* it was asked for.  The invariant ties the pin of a LED to its flag, the *)
(* count of the pulses still owed to the two places of the beeper, and the *)
(* mark of a series begun in a sleep to the semaphore that ends the sleep. *)
(***************************************************************************)
EXTENDS EasyBlink, TLAPS

B == "info_beep"

(* A place is empty or holds what a beep asked for.                        *)
Place(s) == s = None \/ (s.pulse > 0 /\ s.nums > 0)

Counts ==
  /\ sem <= calls
  /\ calls = 0 => \A l \in Leds : ~Active(l)
  /\ cur[B].nums >= 0
  /\ Place(bak[B]) /\ bak["errno_led"] = None
  /\ owed = cur[B].nums + bak[B].nums

Pins ==
  \A l \in Leds :
    /\ Active(l) => (pin[l] = 1 <=> "LED_SHOULD_ON" \notin flag[l])
    /\ ~Active(l) => pin[l] = 0 /\ cur[l].nums = 0 /\ bak[l] = None
    /\ pin[B] = 1 => cur[B].nums > 0

Sleeps ==
  /\ \A l \in Leds :
       Active(l) /\ "CORRECT" \in flag[l] => sem > 0 \/ pc = "correct"
  /\ pc \in {"mark", "asleep"} /\ sem = 0 =>
       \A l \in Leds : Active(l) => wait <= ticks[l]

Inv == TypeOK /\ Counts /\ Pins /\ Sleeps

LEMMA LedNames == B \in Leds /\ Leds = {"errno_led", B} /\ B # "errno_led"
BY DEF B, Leds

LEMMA NoneType == None \in Series /\ None.nums = 0 /\ None.pulse = 0 /\ None.npulse = 0
BY DEF None, Series

LEMMA InitInv == Init => Inv
<1> SUFFICES ASSUME Init PROVE Inv
  OBVIOUS
<1>1. TypeOK
  BY NoneType, BoundsAssumption DEF Init, TypeOK, Leds, Flags
<1>2. \A l \in Leds : flag[l] = {} /\ cur[l] = None /\ bak[l] = None /\ pin[l] = 0
  BY DEF Init
<1>3. \A l \in Leds : ~Active(l)
  BY <1>2 DEF Active
<1>4. Counts
  <2>1. cur[B] = None /\ bak[B] = None /\ bak["errno_led"] = None
    BY <1>2, LedNames
  <2> QED  BY <1>3, <2>1, NoneType DEF Init, Counts, Place
<1>5. Pins /\ Sleeps
  BY <1>2, <1>3, LedNames, NoneType DEF Init, Pins, Sleeps
<1> QED  BY <1>1, <1>4, <1>5 DEF Inv
-----------------------------------------------------------------------------
(* The callers.                                                            *)

(* What Begin makes of the LEDs.                                           *)
LEMMA BeginStep ==
  ASSUME Inv, NEW l \in Leds, NEW s \in Series, s.nums # 0, Begin(l, s),
         ~Active(l), sem' \in 0 .. MaxCalls, pin' = pin, pc' = pc, wait' = wait
  PROVE  /\ flag' \in [Leds -> SUBSET Flags] /\ cur' \in [Leds -> Series]
         /\ bak' \in [Leds -> Series] /\ ticks' \in [Leds -> Int]
         /\ left' \in [Leds -> Nat]
         /\ cur'[l] = s /\ \A x \in Leds \ {l} : cur'[x] = cur[x]
         /\ (pin[B] = 1 => cur'[B].nums > 0) => Pins'
         /\ Sleeps'
<1>1. /\ flag' \in [Leds -> SUBSET Flags] /\ cur' \in [Leds -> Series]
      /\ bak' = bak /\ ticks' \in [Leds -> Int] /\ left' \in [Leds -> Nat]
      /\ cur'[l] = s /\ \A x \in Leds \ {l} : cur'[x] = cur[x]
  BY DEF Begin, Inv, TypeOK, Flags
<1>2. /\ flag'[l] = Flags
      /\ \A x \in Leds \ {l} : flag'[x] = flag[x] /\ ticks'[x] = ticks[x]
  BY DEF Begin, Inv, TypeOK
<1>3. sem' > 0
  BY DEF Begin, Inv, TypeOK
<1>4. (pin[B] = 1 => cur'[B].nums > 0) => Pins'
  BY <1>1, <1>2 DEF Inv, Pins, Active, Flags, TypeOK
<1>5. Sleeps'
  BY <1>3 DEF Sleeps
<1> QED  BY <1>1, <1>4, <1>5 DEF Inv, TypeOK

LEMMA HeartbeatInv ==
  ASSUME Inv, StartHeartbeat
  PROVE  Inv'
<1> DEFINE E == "errno_led"
<1>1. /\ calls = 0 /\ calls' = 1 /\ MaxCalls > 0 /\ mutex' = "main"
      /\ Begin(E, Heartbeat)
      /\ pin' = pin /\ pc' = pc /\ wait' = wait /\ since' = since /\ owed' = owed
  BY DEF StartHeartbeat, daemon
<1>2. /\ Heartbeat \in Series /\ Heartbeat.nums # 0 /\ E \in Leds
      /\ \A l \in Leds : ~Active(l)
  BY <1>1, SeriesAssumption, LedNames DEF Inv, Counts
<1>3. sem' = sem + 1 /\ sem' <= calls' /\ sem' \in 0 .. MaxCalls /\ bak' = bak
  BY <1>1, BoundsAssumption DEF Begin, Inv, Counts, TypeOK
<1>4. /\ flag' \in [Leds -> SUBSET Flags] /\ cur' \in [Leds -> Series]
      /\ bak' \in [Leds -> Series] /\ ticks' \in [Leds -> Int]
      /\ left' \in [Leds -> Nat]
      /\ cur'[E] = Heartbeat /\ \A x \in Leds \ {E} : cur'[x] = cur[x]
      /\ (pin[B] = 1 => cur'[B].nums > 0) => Pins'
      /\ Sleeps'
  BY <1>1, <1>2, <1>3, BeginStep
<1>5. TypeOK'
  BY <1>1, <1>3, <1>4, BoundsAssumption DEF TypeOK, Inv
<1>6. cur'[B] = cur[B]
  BY <1>4, LedNames
<1>7. Pins'
  BY <1>4, <1>6, LedNames DEF Inv, Pins
<1>8. Counts'
  BY <1>1, <1>3, <1>6 DEF Counts, Inv
<1> QED  BY <1>4, <1>5, <1>7, <1>8 DEF Inv

(* A beep: its series begins, or waits in the backup place.                *)
LEMMA BeepInv ==
  ASSUME Inv, NEW who \in {"main", "button"}, NEW s \in Beeps, Beep(who, s)
  PROVE  Inv'
<1>1. /\ calls \in 1 .. MaxCalls - 1 /\ calls' = calls + 1 /\ mutex' = who
      /\ pin' = pin /\ pc' = pc /\ wait' = wait /\ since' = since
  BY DEF Beep, daemon
<1>2. s \in Series /\ s.nums > 0 /\ s.pulse > 0 /\ s.nums \in Nat
  <2>1. s \in Series /\ s.nums > 0 /\ s.pulse > 0
    BY SeriesAssumption
  <2> QED  BY <2>1 DEF Series
<1>3. /\ cur[B] \in Series /\ bak[B] \in Series /\ cur[B].nums \in Int
      /\ bak[B].nums \in Int
  BY LedNames DEF Inv, TypeOK, Series
<1>4. CASE Active(B)
  <2>1. PutBack(B, s) /\ owed' = owed - bak[B].nums + s.nums
    BY <1>4 DEF Beep, B
  <2>2. /\ cur' = cur /\ ticks' = ticks /\ left' = left /\ flag' = flag /\ sem' = sem
        /\ bak' \in [Leds -> Series] /\ bak'[B] = s
        /\ \A x \in Leds \ {B} : bak'[x] = bak[x]
    BY <2>1, <1>2, LedNames DEF PutBack, Inv, TypeOK
  <2>3. owed' = cur[B].nums + s.nums /\ owed' \in Nat
    BY <1>2, <1>3, <2>1 DEF Inv, Counts, TypeOK
  <2>4. TypeOK'
    BY <1>1, <2>2, <2>3, BoundsAssumption DEF Inv, TypeOK
  <2>5. Counts'
    BY <1>1, <1>2, <2>2, <2>3, LedNames DEF Inv, Counts, Place, TypeOK
  <2>6. Pins'
    BY <1>1, <1>4, <2>2 DEF Inv, Pins, Active
  <2>7. Sleeps'
    BY <1>1, <2>2 DEF Inv, Sleeps, Active
  <2> QED  BY <2>4, <2>5, <2>6, <2>7 DEF Inv
<1>5. CASE ~Active(B)
  <2>1. Begin(B, s) /\ owed' = owed + s.nums
    BY <1>5 DEF Beep, B
  <2>2. sem' = sem + 1 /\ sem' <= calls' /\ sem' \in 0 .. MaxCalls /\ bak' = bak
    BY <1>1, <2>1, BoundsAssumption DEF Begin, Inv, Counts, TypeOK
  <2>3. /\ flag' \in [Leds -> SUBSET Flags] /\ cur' \in [Leds -> Series]
        /\ bak' \in [Leds -> Series] /\ ticks' \in [Leds -> Int]
        /\ left' \in [Leds -> Nat]
        /\ cur'[B] = s
        /\ (pin[B] = 1 => cur'[B].nums > 0) => Pins'
        /\ Sleeps'
    BY <1>1, <1>2, <1>5, <2>1, <2>2, LedNames, BeginStep
  <2>4. cur[B].nums = 0 /\ bak[B] = None
    BY <1>5, LedNames DEF Inv, Pins
  <2>5. owed' = s.nums + bak[B].nums /\ owed' \in Nat
    BY <1>2, <1>3, <2>1, <2>4, NoneType DEF Inv, Counts, TypeOK
  <2>6. TypeOK'
    BY <1>1, <2>2, <2>3, <2>5, BoundsAssumption DEF Inv, TypeOK
  <2>7. Counts'
    BY <1>1, <1>2, <2>2, <2>3, <2>5 DEF Inv, Counts, Place
  <2>8. Pins'
    BY <1>2, <2>3
  <2> QED  BY <2>3, <2>6, <2>7, <2>8 DEF Inv
<1> QED  BY <1>4, <1>5
-----------------------------------------------------------------------------
(* The daemon.                                                             *)

(* The steps that leave the LEDs and their counts as they are.             *)
LEMMA QuietInv ==
  ASSUME Inv, UNCHANGED <<led, owed>>, left' \in [Leds -> Nat],
         calls' \in calls .. MaxCalls, sem' \in 0 .. sem,
         mutex' \in {"free", "daemon", "main", "button"},
         pc' \in {"min", "mark", "asleep", "correct", "serve"},
         wait' \in Nat, since' \in Nat,
         Sleeps'
  PROVE  Inv'
<1>1. flag' = flag /\ cur' = cur /\ bak' = bak /\ ticks' = ticks /\ pin' = pin /\ owed' = owed
  BY DEF led
<1>2. TypeOK'
  <2>1. calls' \in 0 .. MaxCalls /\ sem' \in 0 .. MaxCalls
    BY BoundsAssumption DEF Inv, TypeOK
  <2> QED  BY <1>1, <2>1 DEF Inv, TypeOK
<1>3. Counts'
  BY <1>1 DEF Inv, Counts, TypeOK, Active
<1>4. Pins'
  BY <1>1 DEF Inv, Pins, Active
<1> QED  BY <1>2, <1>3, <1>4 DEF Inv

(* The least of the ticks bounds them all.                                 *)
LEMMA MinBounds ==
  ASSUME NEW t \in [Leds -> Int], NEW w \in 0 .. WaitMax, IsMin(w, t), w # 0,
         NEW l \in Leds, Active(l)
  PROVE  w <= t[l]
<1> DEFINE due == {t[x] : x \in {y \in Leds : Active(y)}} \cup {WaitMax}
           least == CHOOSE m \in due : \A n \in due : m <= n
<1>1. due \subseteq Int /\ t[l] \in due
  BY BoundsAssumption
<1>2. \E m \in due : \A n \in due : m <= n
  <2> DEFINE Smaller(a, b) == IF a <= b THEN a ELSE b
             e == IF Active("errno_led") THEN Smaller(t["errno_led"], WaitMax) ELSE WaitMax
             m == IF Active(B) THEN Smaller(t[B], e) ELSE e
  <2>1. t["errno_led"] \in Int /\ t[B] \in Int /\ WaitMax \in Int
    BY LedNames, BoundsAssumption
  <2>2. m \in due
    BY <2>1, LedNames
  <2>3. \A n \in due : m <= n
    BY <2>1, LedNames
  <2> QED  BY <2>2, <2>3
<1>3. least \in due /\ \A n \in due : least <= n
  BY <1>2
<1>4. w = IF least < 0 THEN 0 ELSE least
  BY DEF IsMin
<1> HIDE DEF due, least
<1> QED  BY <1>1, <1>3, <1>4

LEMMA MinTicksInv ==
  ASSUME Inv, MinTicks
  PROVE  Inv'
<1>1. /\ UNCHANGED <<led, owed, sem, calls, left>> /\ mutex' = "free" /\ pc = "min"
      /\ wait' \in 0 .. WaitMax /\ IsMin(wait', ticks) /\ since' = 0
      /\ pc' = IF wait' = 0 THEN "serve" ELSE "mark"
  BY DEF MinTicks, Held, SleepOrServe
<1>2. flag' = flag /\ ticks' = ticks
  BY <1>1 DEF led
<1>3. \A l \in Leds : Active(l) /\ wait' # 0 => wait' <= ticks[l]
  BY <1>1, MinBounds DEF Inv, TypeOK
<1>4. Sleeps'
  BY <1>1, <1>2, <1>3 DEF Inv, Sleeps, Active
<1> QED  BY <1>1, <1>4, QuietInv, BoundsAssumption DEF Inv, TypeOK

LEMMA CorrectInv ==
  ASSUME Inv, CorrectTicks
  PROVE  Inv'
<1>1. /\ pc = "correct" /\ mutex' = "free"
      /\ ticks' = [l \in Leds |-> Corrected(l)]
      /\ flag' = [l \in Leds |-> IF Active(l) THEN flag[l] \ {"CORRECT"} ELSE flag[l]]
      /\ wait' \in 0 .. WaitMax /\ IsMin(wait', ticks') /\ since' = 0
      /\ pc' = IF wait' = 0 THEN "serve" ELSE "mark"
      /\ UNCHANGED <<cur, bak, pin, sem, calls, owed, left>>
  BY DEF CorrectTicks, Held, SleepOrServe
<1>2. ticks' \in [Leds -> Int] /\ flag' \in [Leds -> SUBSET Flags]
  BY <1>1 DEF Inv, TypeOK, Corrected
<1>3. \A l \in Leds : /\ Active(l)' <=> Active(l)
                      /\ "LED_SHOULD_ON" \in flag'[l] <=> "LED_SHOULD_ON" \in flag[l]
                      /\ Active(l) => "CORRECT" \notin flag'[l]
  BY <1>1 DEF Active
<1>4. \A l \in Leds : Active(l) /\ wait' # 0 => wait' <= ticks'[l]
  BY <1>1, <1>2, MinBounds
<1>5. Sleeps'
  BY <1>1, <1>3, <1>4 DEF Sleeps
<1>6. Pins'
  BY <1>1, <1>3 DEF Inv, Pins
<1>7. Counts'
  BY <1>1, <1>3 DEF Inv, Counts
<1>8. TypeOK'
  BY <1>1, <1>2, BoundsAssumption DEF Inv, TypeOK
<1> QED  BY <1>5, <1>6, <1>7, <1>8 DEF Inv

(* What Serve makes of one LED.                                            *)
LEMMA ServedLed ==
  ASSUME Inv, NEW l \in Leds
  PROVE  LET r == Served(l) IN
         /\ r.flag \in SUBSET Flags /\ r.cur \in Series /\ r.bak \in Series
         /\ r.ticks \in Int /\ r.pin \in {0, 1}
         /\ Due(l) => r.ticks \in Nat
         /\ r.bak \in {bak[l], None}
         /\ "ACTIVE" \in r.flag => Active(l)
         /\ "CORRECT" \in r.flag => "CORRECT" \in flag[l]
         /\ "ACTIVE" \in r.flag => (r.pin = 1 <=> "LED_SHOULD_ON" \notin r.flag)
         /\ "ACTIVE" \notin r.flag => r.pin = 0 /\ r.cur.nums = 0 /\ r.bak = None
         /\ l = B => /\ r.cur.nums >= 0
                     /\ r.pin = 1 => r.cur.nums > 0
                     /\ r.cur.nums + r.bak.nums =
                          cur[B].nums + bak[B].nums
                            - (IF pin[B] = 1 /\ r.pin = 0 THEN 1 ELSE 0)
<1> DEFINE r == Served(l)
           k == Keep(l)
<1>1. /\ flag[l] \in SUBSET Flags /\ cur[l] \in Series /\ bak[l] \in Series
      /\ ticks[l] \in Int /\ pin[l] \in {0, 1} /\ wait \in Nat
      /\ cur[l].nums \in Nat \cup {-1} /\ cur[l].pulse \in Nat /\ cur[l].npulse \in Nat
      /\ bak[l].nums \in Nat \cup {-1}
  <2>1. /\ flag[l] \in SUBSET Flags /\ cur[l] \in Series /\ bak[l] \in Series
        /\ ticks[l] \in Int /\ pin[l] \in {0, 1} /\ wait \in Nat
    BY DEF Inv, TypeOK
  <2> QED  BY <2>1 DEF Series
<1>2. /\ k \in [flag : SUBSET Flags, cur : Series, bak : Series, pin : {0, 1}, ticks : Int]
      /\ k.flag = flag[l] /\ k.cur = cur[l] /\ k.bak = bak[l] /\ k.pin = pin[l]
  BY <1>1 DEF Keep
<1>3. /\ Active(l) => (pin[l] = 1 <=> "LED_SHOULD_ON" \notin flag[l])
      /\ ~Active(l) => pin[l] = 0 /\ cur[l].nums = 0 /\ bak[l] = None
      /\ l = B => /\ pin[l] = 1 => cur[l].nums > 0
                  /\ cur[l].nums >= 0
      /\ Place(bak[l])
  BY LedNames DEF Inv, Pins, Counts, Place
<1>4. Due(l) => Active(l)
  BY DEF Due
<1> HIDE DEF k
<1>5. CASE ~Due(l)
  <2>1. r = k
    BY <1>5 DEF Served, k
  <2> HIDE DEF r
  <2>2. r.cur.nums + r.bak.nums = cur[l].nums + bak[l].nums /\ r.pin = pin[l]
    BY <2>1, <1>2
  <2>3. "ACTIVE" \in r.flag <=> Active(l)
    BY <2>1, <1>2 DEF Active
  <2> QED  BY <1>1, <1>2, <1>3, <1>5, <2>1, <2>2, <2>3 DEF r, Inv, Counts
<1>6. CASE Due(l) /\ "LED_SHOULD_ON" \notin flag[l]
  <2>1. r = SwitchOff(l)
    BY <1>6 DEF Served
  <2>2. /\ r.pin = 0 /\ r.flag = flag[l] \cup {"LED_SHOULD_ON"} /\ r.ticks = cur[l].npulse
        /\ r.bak = bak[l]
        /\ r.cur = [cur[l] EXCEPT !.nums = IF @ > 0 THEN @ - 1 ELSE @]
    BY <2>1, <1>2 DEF SwitchOff, k
  <2> HIDE DEF r
  <2>3. r.cur \in Series /\ r.cur.nums = IF cur[l].nums > 0 THEN cur[l].nums - 1 ELSE cur[l].nums
    BY <1>1, <2>2 DEF Series
  <2>4. pin[l] = 1 /\ Active(l)
    BY <1>3, <1>4, <1>6
  <2>5. "ACTIVE" \in r.flag
    BY <2>2, <2>4 DEF Active
  <2>6. r.flag \in SUBSET Flags
    BY <1>1, <2>2 DEF Flags
  <2>7. l = B => /\ r.cur.nums >= 0
                 /\ r.cur.nums + r.bak.nums = cur[B].nums + bak[B].nums - 1
    BY <1>1, <1>3, <2>2, <2>3, <2>4
  <2> QED  BY <1>1, <2>2, <2>3, <2>4, <2>5, <2>6, <2>7 DEF r
<1>7. CASE /\ Due(l) /\ "LED_SHOULD_ON" \in flag[l]
           /\ cur[l].nums > 0 \/ cur[l].nums = -1
  <2>1. r = SwitchOn(l)
    BY <1>7 DEF Served
  <2>2. /\ r.pin = 1 /\ r.flag = flag[l] \ {"LED_SHOULD_ON"} /\ r.ticks = cur[l].pulse
        /\ r.bak = bak[l] /\ r.cur = cur[l]
    BY <2>1, <1>2 DEF SwitchOn, k
  <2> HIDE DEF r
  <2>3. Active(l) /\ "ACTIVE" \in r.flag
    BY <1>4, <1>7, <2>2 DEF Active
  <2>4. r.flag \in SUBSET Flags
    BY <1>1, <2>2
  <2> QED  BY <1>1, <1>3, <1>7, <2>2, <2>3, <2>4 DEF r
<1>8. CASE /\ Due(l) /\ "LED_SHOULD_ON" \in flag[l]
           /\ ~(cur[l].nums > 0 \/ cur[l].nums = -1) /\ bak[l].pulse # 0
  <2>1. r = TakeBack(l)
    BY <1>8 DEF Served
  <2>2. /\ r.pin = pin[l] /\ r.flag = flag[l] /\ r.ticks = 0
        /\ r.bak = None /\ r.cur = bak[l]
    BY <2>1, <1>2 DEF TakeBack, k
  <2> HIDE DEF r
  <2>3. Active(l) /\ "ACTIVE" \in r.flag /\ pin[l] = 0
    BY <1>1, <1>3, <1>4, <1>8, <2>2 DEF Active
  <2>4. bak[l].nums > 0 /\ cur[l].nums = 0
    BY <1>1, <1>3, <1>8, NoneType DEF Place
  <2> QED  BY <1>1, <1>3, <1>8, <2>2, <2>3, <2>4, NoneType DEF r
<1>9. CASE /\ Due(l) /\ "LED_SHOULD_ON" \in flag[l]
           /\ ~(cur[l].nums > 0 \/ cur[l].nums = -1) /\ bak[l].pulse = 0
  <2>1. r = Finish(l)
    BY <1>9 DEF Served
  <2>2. /\ r.pin = pin[l] /\ r.flag = flag[l] \ {"ACTIVE"} /\ r.ticks = 0
        /\ r.bak = bak[l] /\ r.cur = cur[l]
    BY <2>1, <1>2 DEF Finish, k
  <2> HIDE DEF r
  <2>3. Active(l) /\ "ACTIVE" \notin r.flag /\ pin[l] = 0
    BY <1>1, <1>3, <1>4, <1>9, <2>2
  <2>4. bak[l] = None /\ cur[l].nums = 0
    BY <1>1, <1>3, <1>9, NoneType DEF Place
  <2> QED  BY <1>1, <1>3, <1>9, <2>2, <2>3, <2>4, NoneType DEF r
<1> QED  BY <1>5, <1>6, <1>7, <1>8, <1>9

LEMMA ServeInv ==
  ASSUME Inv, Serve
  PROVE  Inv'
<1>1. /\ pc' = "min" /\ mutex' = "free" /\ pc = "serve"
      /\ flag' = [l \in Leds |-> Served(l).flag]
      /\ cur' = [l \in Leds |-> Served(l).cur]
      /\ bak' = [l \in Leds |-> Served(l).bak]
      /\ ticks' = [l \in Leds |-> Served(l).ticks]
      /\ pin' = [l \in Leds |-> Served(l).pin]
      /\ left' = [l \in Leds |-> IF Due(l) THEN Served(l).ticks ELSE left[l]]
      /\ owed' = IF pin[B] = 1 /\ pin'[B] = 0 /\ owed > 0 THEN owed - 1 ELSE owed
      /\ UNCHANGED <<sem, wait, since, calls>>
  BY DEF Serve, Held, B
<1>2. \A l \in Leds :
        /\ flag'[l] \in SUBSET Flags /\ cur'[l] \in Series /\ bak'[l] \in Series
        /\ ticks'[l] \in Int /\ pin'[l] \in {0, 1} /\ left'[l] \in Nat
        /\ bak'[l] \in {bak[l], None}
        /\ Active(l)' => Active(l)
        /\ "CORRECT" \in flag'[l] => "CORRECT" \in flag[l]
        /\ Active(l)' => (pin'[l] = 1 <=> "LED_SHOULD_ON" \notin flag'[l])
        /\ ~Active(l)' => pin'[l] = 0 /\ cur'[l].nums = 0 /\ bak'[l] = None
  <2> TAKE l \in Leds
  <2>1. /\ flag'[l] = Served(l).flag /\ cur'[l] = Served(l).cur
        /\ bak'[l] = Served(l).bak /\ ticks'[l] = Served(l).ticks
        /\ pin'[l] = Served(l).pin
        /\ left'[l] = IF Due(l) THEN Served(l).ticks ELSE left[l]
        /\ left[l] \in Nat
    BY <1>1 DEF Inv, TypeOK
  <2> HIDE DEF Served
  <2> QED  BY <2>1, ServedLed DEF Active
<1>3. /\ cur'[B].nums >= 0
      /\ pin'[B] = 1 => cur'[B].nums > 0
      /\ cur'[B].nums + bak'[B].nums =
           cur[B].nums + bak[B].nums - (IF pin[B] = 1 /\ pin'[B] = 0 THEN 1 ELSE 0)
  BY <1>1, ServedLed, LedNames
<1>4. /\ cur[B].nums \in Int /\ bak[B].nums \in Int /\ cur'[B].nums \in Int
      /\ bak'[B].nums \in Nat /\ bak[B].nums \in Nat
  <2>1. Place(bak[B]) /\ bak'[B] \in {bak[B], None}
    BY <1>2, LedNames DEF Inv, Counts
  <2>2. bak[B] \in Series /\ cur[B] \in Series /\ cur'[B] \in Series
    BY <1>2, LedNames DEF Inv, TypeOK
  <2>3. bak[B].nums \in Nat
    BY <2>1, <2>2, NoneType DEF Place, Series
  <2> QED  BY <2>1, <2>2, <2>3, NoneType DEF Series
<1>5. owed' = cur'[B].nums + bak'[B].nums /\ owed' \in Nat
  <2>1. owed = cur[B].nums + bak[B].nums /\ owed \in Nat
    BY DEF Inv, Counts, TypeOK
  <2> QED  BY <1>1, <1>3, <1>4, <2>1
<1>6. TypeOK'
  BY <1>1, <1>2, <1>5 DEF Inv, TypeOK
<1>7. Counts'
  <2>1. Place(bak'[B]) /\ bak'["errno_led"] = None
    BY <1>2, LedNames DEF Inv, Counts, Place
  <2> QED  BY <1>1, <1>2, <1>3, <1>5, <2>1 DEF Inv, Counts
<1>8. Pins'
  BY <1>2, <1>3 DEF Pins
<1>9. Sleeps'
  BY <1>1, <1>2 DEF Inv, Sleeps
<1> QED  BY <1>6, <1>7, <1>8, <1>9 DEF Inv
-----------------------------------------------------------------------------
LEMMA NextInv == Inv /\ [Next]_vars => Inv'
<1> SUFFICES ASSUME Inv, [Next]_vars PROVE Inv'
  OBVIOUS
<1>0. /\ left \in [Leds -> Nat] /\ calls \in calls .. MaxCalls /\ sem \in 0 .. sem
      /\ mutex \in {"free", "daemon", "main", "button"}
      /\ pc \in {"min", "mark", "asleep", "correct", "serve"}
      /\ wait \in Nat /\ since \in Nat
  BY BoundsAssumption DEF Inv, TypeOK
<1>1. CASE Drop
  <2>1. Sleeps'
    BY <1>1 DEF Drop, led, daemon, Inv, Sleeps, Active
  <2>2. calls' \in calls .. MaxCalls
    BY <1>1, BoundsAssumption DEF Drop, Inv, TypeOK
  <2> QED  BY <1>0, <1>1, <2>1, <2>2, QuietInv DEF Drop, daemon
<1>2. ASSUME NEW who \in {"main", "button"}, Return(who)
      PROVE  Inv'
  <2>1. Sleeps'
    BY <1>2 DEF Return, led, daemon, Inv, Sleeps, Active
  <2> QED  BY <1>0, <1>2, <2>1, QuietInv DEF Return, daemon
<1>3. CASE Lock
  <2>1. Sleeps'
    BY <1>3 DEF Lock, led, daemon, Inv, Sleeps, Active
  <2> QED  BY <1>0, <1>3, <2>1, QuietInv DEF Lock, daemon
<1>4. CASE Sleep
  <2>1. Sleeps'
    BY <1>4 DEF Sleep, led, Inv, Sleeps, Active
  <2> QED  BY <1>0, <1>4, <2>1, QuietInv DEF Sleep
<1>5. CASE Wake
  <2>1. Sleeps'
    BY <1>5 DEF Wake, led, Inv, Sleeps, Active
  <2>2. sem' \in 0 .. sem
    BY <1>5 DEF Wake, Inv, TypeOK
  <2> QED  BY <1>0, <1>5, <2>1, <2>2, QuietInv DEF Wake
<1>6. CASE Timeout
  <2>1. Sleeps'
    BY <1>6 DEF Timeout, led, Inv, Sleeps, Active
  <2> QED  BY <1>0, <1>6, <2>1, QuietInv DEF Timeout
<1>7. CASE Tick
  <2>1. Sleeps'
    BY <1>7 DEF Tick, led, Inv, Sleeps, Active
  <2>2. left' \in [Leds -> Nat] /\ since' \in Nat
    BY <1>0, <1>7 DEF Tick
  <2> QED  BY <1>0, <1>7, <2>1, <2>2, QuietInv DEF Tick
<1>8. CASE UNCHANGED vars
  <2>1. Sleeps'
    BY <1>8 DEF vars, led, daemon, Inv, Sleeps, Active
  <2> QED  BY <1>0, <1>8, <2>1, QuietInv DEF vars, daemon
<1> QED
  BY <1>1, <1>2, <1>3, <1>4, <1>5, <1>6, <1>7, <1>8,
     HeartbeatInv, BeepInv, MinTicksInv, CorrectInv, ServeInv DEF Next, Daemon

THEOREM InvHolds == Spec => []Inv
BY InitInv, NextInv, PTL DEF Spec

(* Types, for every set of series and every bound.                         *)
THEOREM TypeCorrect == Spec => []TypeOK
<1>1. Inv => TypeOK
  BY DEF Inv
<1> QED  BY <1>1, InvHolds, PTL

(* The daemon never sleeps over a change, however calls race its sleep.    *)
THEOREM SleepsNotTooLong == Spec => []NoOversleep
<1>1. Inv => NoOversleep
  BY DEF Inv, Sleeps, NoOversleep
<1> QED  BY <1>1, InvHolds, PTL

(* The beeper gives the pulses it was asked for, but for a series replaced *)
(* in the backup place.                                                    *)
THEOREM EveryPulseGiven == Spec => []BeepsAsAsked
<1>1. Inv => BeepsAsAsked
  <2> SUFFICES ASSUME Inv PROVE BeepsAsAsked
    OBVIOUS
  <2>1. owed = cur[B].nums + bak[B].nums
    BY DEF Inv, Counts
  <2>2. ~Active(B) => cur[B].nums = 0 /\ bak[B] = None
    BY LedNames DEF Inv, Pins
  <2> QED  BY <2>1, <2>2, NoneType DEF BeepsAsAsked, B
<1> QED  BY <1>1, InvHolds, PTL
-----------------------------------------------------------------------------
(* Nothing is switched early.  The ticks the daemon has yet to take off a  *)
(* LED: those it has slept, and once it serves those it meant to sleep.    *)
Slept ==
  IF pc \in {"asleep", "correct"} THEN since
  ELSE IF pc = "serve" THEN wait ELSE 0

(* What is really left of a LED is never more than the daemon believes.    *)
OnTime ==
  /\ pc = "mark" => since = 0
  /\ \A l \in Leds : Active(l) => left[l] = 0 \/ left[l] <= ticks[l] - Slept

LEMMA OnTimeInit == Init => OnTime
BY DEF Init, OnTime, Active

(* Steps that leave the LEDs alone and take off no more than before, unless*)
(* time passes.                                                            *)
LEMMA OnTimeQuiet ==
  ASSUME Inv, OnTime, flag' = flag, ticks' = ticks, left' = left,
         pc' = "mark" => since' = 0,
         Slept' \in Int, Slept' <= Slept
  PROVE  OnTime'
<1>1. Slept \in Int /\ \A l \in Leds : ticks[l] \in Int /\ left[l] \in Nat
  BY DEF Slept, Inv, TypeOK
<1> SUFFICES ASSUME NEW l \in Leds, Active(l)
             PROVE  left[l] = 0 \/ left[l] <= ticks[l] - Slept'
  BY DEF OnTime, Active
<1>2. left[l] = 0 \/ left[l] <= ticks[l] - Slept
  BY DEF OnTime
<1> HIDE DEF Slept
<1> QED  BY <1>1, <1>2

(* A series that begins is due at once, and the other LED is left alone.   *)
LEMMA OnTimeBegin ==
  ASSUME Inv, OnTime, NEW l \in Leds, NEW s, Begin(l, s),
         UNCHANGED <<pc, since, wait>>
  PROVE  OnTime'
<1>1. /\ left'[l] = 0
      /\ \A x \in Leds \ {l} :
           flag'[x] = flag[x] /\ ticks'[x] = ticks[x] /\ left'[x] = left[x]
  BY DEF Begin, Inv, TypeOK
<1>2. Slept' = Slept
  BY DEF Slept
<1> QED  BY <1>1, <1>2 DEF OnTime, Active

(* A call of easyblink moves no change nearer.                             *)
LEMMA OnTimeCalls ==
  ASSUME Inv, OnTime,
         \/ StartHeartbeat
         \/ \E who \in {"main", "button"} :
              (\E s \in Beeps : Beep(who, s)) \/ Return(who)
         \/ Drop
  PROVE  OnTime'
<1>1. UNCHANGED <<pc, since, wait>>
  BY DEF StartHeartbeat, Beep, Return, Drop, daemon
<1>2. Slept' = Slept /\ Slept \in Int
  BY <1>1 DEF Slept, Inv, TypeOK
<1>3. CASE UNCHANGED <<flag, ticks, left>>
  BY <1>1, <1>2, <1>3, OnTimeQuiet DEF OnTime
<1>4. CASE \E l \in Leds : \E s : Begin(l, s)
  BY <1>1, <1>4, OnTimeBegin
<1>5. CASE StartHeartbeat
  BY <1>4, <1>5, LedNames DEF StartHeartbeat
<1>6. ASSUME NEW who \in {"main", "button"}, NEW s \in Beeps, Beep(who, s)
      PROVE  OnTime'
  BY <1>3, <1>4, <1>6, LedNames DEF Beep, PutBack, B
<1>7. ASSUME NEW who \in {"main", "button"}, Return(who) PROVE OnTime'
  BY <1>3, <1>7 DEF Return, led
<1>8. CASE Drop
  BY <1>3, <1>8 DEF Drop, led
<1> QED  BY <1>5, <1>6, <1>7, <1>8

(* The correction takes off the ticks slept, and starts a new sleep.       *)
LEMMA OnTimeCorrect ==
  ASSUME Inv, OnTime, CorrectTicks
  PROVE  OnTime'
<1>1. /\ pc = "correct" /\ left' = left /\ since' = 0
      /\ ticks' = [l \in Leds |-> Corrected(l)]
      /\ flag' = [l \in Leds |-> IF Active(l) THEN flag[l] \ {"CORRECT"} ELSE flag[l]]
      /\ pc' = IF wait' = 0 THEN "serve" ELSE "mark"
  BY DEF CorrectTicks, Held, SleepOrServe
<1>2. Slept = since /\ Slept' = 0
  BY <1>1 DEF Slept
<1>3. ASSUME NEW l \in Leds, Active(l)'
      PROVE  left[l] = 0 \/ left[l] <= ticks'[l]
  <2>1. Active(l)
    BY <1>1, <1>3 DEF Active
  <2>2. left[l] = 0 \/ left[l] <= ticks[l] - since
    BY <1>2, <2>1 DEF OnTime
  <2>3. ticks[l] \in Int /\ left[l] \in Nat /\ since \in Nat
    BY DEF Inv, TypeOK
  <2>4. ticks'[l] = ticks[l] \/ ticks'[l] = ticks[l] - since
    BY <1>1 DEF Corrected
  <2> QED  BY <2>2, <2>3, <2>4
<1>4. ASSUME NEW l \in Leds PROVE ticks'[l] \in Int
  BY <1>1 DEF Corrected, Inv, TypeOK
<1> QED  BY <1>1, <1>2, <1>3, <1>4 DEF OnTime

(* What the daemon serves is due for as long as it says.                   *)
LEMMA OnTimeServe ==
  ASSUME Inv, OnTime, Serve
  PROVE  OnTime'
<1>1. /\ pc = "serve" /\ pc' = "min"
      /\ flag' = [l \in Leds |-> Served(l).flag]
      /\ ticks' = [l \in Leds |-> Served(l).ticks]
      /\ left' = [l \in Leds |-> IF Due(l) THEN Served(l).ticks ELSE left[l]]
  BY DEF Serve, Held
<1>2. Slept = wait /\ Slept' = 0
  BY <1>1 DEF Slept
<1>3. ASSUME NEW l \in Leds, Active(l)'
      PROVE  left'[l] = 0 \/ left'[l] <= ticks'[l]
  <2>1. CASE Due(l)
    <3>1. left'[l] = Served(l).ticks /\ ticks'[l] = Served(l).ticks
      BY <1>1, <2>1
    <3>2. Served(l).ticks \in Int
      BY ServedLed
    <3> QED  BY <3>1, <3>2
  <2>2. CASE ~Due(l)
    <3>1. Served(l) = Keep(l)
      BY <2>2 DEF Served
    <3>2. Active(l) /\ ticks'[l] = ticks[l] - wait /\ left'[l] = left[l]
      BY <1>1, <1>3, <2>2, <3>1 DEF Keep, Active
    <3> QED  BY <1>2, <3>2 DEF OnTime
  <2> QED  BY <2>1, <2>2
<1>4. ASSUME NEW l \in Leds PROVE ticks'[l] \in Int
  BY <1>1, ServedLed
<1> QED  BY <1>1, <1>2, <1>3, <1>4 DEF OnTime

(* A tick of the clock takes off one of what is left and adds at most one  *)
(* to what was slept.                                                      *)
LEMMA OnTimeTick ==
  ASSUME Inv, OnTime, Tick
  PROVE  OnTime'
<1>1. /\ pc' = pc /\ wait' = wait /\ flag' = flag /\ ticks' = ticks
      /\ since' = IF pc \in {"asleep", "correct"} THEN since + 1 ELSE since
      /\ left' = [l \in Leds |-> IF left[l] > 0 THEN left[l] - 1 ELSE 0]
  BY DEF Tick, led
<1>2. Slept \in Int /\ Slept' \in Int /\ Slept' <= Slept + 1
  BY <1>1 DEF Slept, Inv, TypeOK
<1>3. ASSUME NEW l \in Leds, Active(l)
      PROVE  left'[l] = 0 \/ left'[l] <= ticks[l] - Slept'
  <2>1. left[l] = 0 \/ left[l] <= ticks[l] - Slept
    BY <1>3 DEF OnTime
  <2>2. ticks[l] \in Int /\ left[l] \in Nat
    BY DEF Inv, TypeOK
  <2>3. left'[l] = IF left[l] > 0 THEN left[l] - 1 ELSE 0
    BY <1>1
  <2> HIDE DEF Slept
  <2> QED  BY <1>2, <2>1, <2>2, <2>3
<1> QED  BY <1>1, <1>3 DEF OnTime, Active

LEMMA OnTimeNext == Inv /\ OnTime /\ [Next]_vars => OnTime'
<1> SUFFICES ASSUME Inv, OnTime, [Next]_vars PROVE OnTime'
  OBVIOUS
<1>1. /\ since \in Nat /\ wait \in Nat /\ Slept \in Int
      /\ pc \in {"min", "mark", "asleep", "correct", "serve"}
  BY DEF Slept, Inv, TypeOK
<1>2. CASE Lock
  <2>1. Slept' = Slept
    BY <1>2 DEF Lock, daemon, Slept
  <2> QED  BY <1>1, <1>2, <2>1, OnTimeQuiet DEF Lock, led, daemon, OnTime
<1>3. CASE MinTicks
  <2>1. Slept' = 0 /\ Slept = 0 /\ since' = 0
    BY <1>3 DEF MinTicks, Held, SleepOrServe, Slept
  <2> QED  BY <1>1, <1>3, <2>1, OnTimeQuiet DEF MinTicks, led
<1>4. CASE Sleep
  <2>1. Slept' = 0 /\ Slept = 0 /\ pc' = "asleep"
    BY <1>4 DEF Sleep, Slept, OnTime
  <2> QED  BY <1>1, <1>4, <2>1, OnTimeQuiet DEF Sleep, led
<1>5. CASE Wake
  <2>1. Slept' = Slept /\ pc' = "correct"
    BY <1>5 DEF Wake, Slept
  <2> QED  BY <1>1, <1>5, <2>1, OnTimeQuiet DEF Wake, led
<1>6. CASE Timeout
  <2>1. Slept' = Slept /\ pc' = "serve"
    BY <1>6 DEF Timeout, Slept
  <2> QED  BY <1>1, <1>6, <2>1, OnTimeQuiet DEF Timeout, led
<1>7. CASE UNCHANGED vars
  <2>1. Slept' = Slept
    BY <1>7 DEF vars, daemon, Slept
  <2> QED  BY <1>1, <1>7, <2>1, OnTimeQuiet DEF vars, led, daemon, OnTime
<1> QED
  BY <1>2, <1>3, <1>4, <1>5, <1>6, <1>7,
     OnTimeCalls, OnTimeCorrect, OnTimeServe, OnTimeTick DEF Next, Daemon

(* A pin changes only when nothing is really left of its pulse or pause.   *)
LEMMA PinStep ==
  ASSUME Inv, OnTime, [Next]_vars, NEW l \in Leds, pin'[l] # pin[l]
  PROVE  left[l] = 0
<1>1. CASE Serve
  <2>1. pin'[l] = Served(l).pin /\ pc = "serve"
    BY <1>1 DEF Serve, Held
  <2>2. Due(l)
    <3> SUFFICES ASSUME ~Due(l) PROVE pin'[l] = pin[l]
      OBVIOUS
    <3> QED  BY <2>1 DEF Served, Keep
  <2>3. Active(l) /\ ticks[l] - wait <= 0
    BY <2>2 DEF Due, Keep
  <2>4. left[l] = 0 \/ left[l] <= ticks[l] - wait
    BY <2>1, <2>3 DEF OnTime, Slept
  <2> QED  BY <2>3, <2>4 DEF Inv, TypeOK
<1>2. CASE ~Serve
  <2>1. pin' = pin
    BY <1>2 DEF Next, Daemon, vars, led, StartHeartbeat, Beep, Return, Drop,
                Lock, MinTicks, Sleep, Wake, Timeout, CorrectTicks, Tick
  <2> QED  BY <2>1
<1> QED  BY <1>1, <1>2

(* No pulse and no pause is cut short, whatever is asked for meanwhile and *)
(* however long the daemon waits for the mutex.                            *)
THEOREM NothingEarly == Spec => NeverEarly
<1>1. Inv /\ OnTime /\ [Next]_vars =>
        [\A l \in Leds : pin'[l] # pin[l] => left[l] = 0]_vars
  BY PinStep
<1> QED  BY <1>1, InitInv, NextInv, OnTimeInit, OnTimeNext, PTL DEF Spec, NeverEarly
=============================================================================
