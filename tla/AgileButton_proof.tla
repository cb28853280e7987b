-------------------------- MODULE AgileButton_proof --------------------------
(***************************************************************************)
(* Proofs about AgileButton, for any number of keys, any times and any     *)
(* range of the tick counter that WrapAssumption allows.                   *)
(***************************************************************************)
EXTENDS AgileButton, TLAPS

(* How late a visit may be: a key already visited in this round was last   *)
(* looked at in this round, any other one in the round before or in this.  *)
Slack(k) == IF pc # "asleep" /\ k < at THEN spent ELSE MaxRound + spent

(* The counter's distance from the timeout is the true one.                *)
Linked(now, timeout, d) ==
  Minus(now, timeout) = IF d <= 0 THEN -d ELSE RT_TICK_MAX + 1 - d

FirmEnough(f, d) == f >= Elimination \/ f >= Elimination - d

(* What holds of each key: one not started is idle; one that waits for its *)
(* timeout knows the true time, is looked at soon after it and, while it   *)
(* is checked, has been closed since the check began.                      *)
KeyInv(k) ==
  /\ ~btn[k].active => btn[k].state = "NONE_PRESS" /\ btn[k].repeat_cnt = 0
  /\ Awaits(k) => Linked(tick, btn[k].tick_timeout, due[k])
  /\ btn[k].state = "CHECK_PRESS"
       => /\ due[k] > -Slack(k)
          /\ \/ level[k] /\ FirmEnough(firm[k], due[k])
             \/ pc = "sampled" /\ at = k /\ ~level[k]
  /\ btn[k].state = "NONE_PRESS" /\ btn[k].repeat_cnt # 0
       => due[k] > -(Slack(k) + 2 * MaxRound)

(* The keys started are the first ones of the list; the thread visits one  *)
(* of them, in the state its place in the visit says.                      *)
ThreadInv ==
  /\ \A j, k \in Keys : j < k /\ btn[k].active => btn[j].active
  /\ pc # "asleep" => btn[at].active
  /\ pc \in {"straight", "wrapped"} => btn[at].state = "PRESS_HOLD"
  /\ pc = "callback" => btn[at].state = "PRESS_UP"

Inv == TypeOK /\ ThreadInv /\ \A k \in Keys : KeyInv(k)
-----------------------------------------------------------------------------
(* Arithmetic of the counter.                                              *)

LEMMA HalfFact == Half \in Nat /\ 2 * Half <= RT_TICK_MAX
BY ConstantsAssumption DEF Half

LEMMA LinkSet ==
  ASSUME NEW t \in Ticks, NEW n \in 0 .. Half
  PROVE  Plus(t, n) \in Ticks /\ Linked(t, Plus(t, n), n)
BY HalfFact, ConstantsAssumption DEF Ticks, Plus, Linked, Minus

LEMMA LinkTick ==
  ASSUME NEW t \in Ticks, NEW to \in Ticks, NEW d \in -Half .. Half,
         d > -Half, Linked(t, to, d)
  PROVE  Linked(Plus(t, 1), to, d - 1)
BY HalfFact, ConstantsAssumption DEF Ticks, Plus, Linked, Minus

LEMMA ReachedIff ==
  ASSUME NEW t \in Ticks, NEW to \in Ticks, NEW d \in -Half .. Half,
         d > -Half, Linked(t, to, d)
  PROVE  Reached(t, to) <=> d <= 0
BY HalfFact, ConstantsAssumption DEF Ticks, Reached, Linked

LEMMA Remainder ==
  ASSUME NEW a \in Nat, NEW n \in Nat \ {0}
  PROVE  a % n \in 0 .. n - 1
OBVIOUS

LEMMA PlusInTicks ==
  ASSUME NEW t \in Ticks, NEW n \in 0 .. Half
  PROVE  Plus(t, n) \in Ticks
BY LinkSet
-----------------------------------------------------------------------------
(* The structure of a key.                                                 *)

LEMMA ButtonFields ==
  ASSUME NEW b \in Button
  PROVE  /\ b.active \in BOOLEAN /\ b.state \in States /\ b.event \in Events
         /\ b.repeat_cnt \in 0 .. CountRange - 1
         /\ b.hold_time \in Ticks /\ b.prev_hold_time \in Ticks
         /\ b.tick_timeout \in Ticks
BY DEF Button

LEMMA ButtonMade ==
  ASSUME NEW b \in Button, NEW s \in States, NEW e \in Events, NEW a \in BOOLEAN,
         NEW c \in 0 .. CountRange - 1, NEW h \in Ticks, NEW p \in Ticks,
         NEW t \in Ticks
  PROVE  [b EXCEPT !.active = a, !.state = s, !.event = e, !.repeat_cnt = c,
                   !.hold_time = h, !.prev_hold_time = p, !.tick_timeout = t]
           \in Button
BY DEF Button

LEMMA SlackBounds ==
  ASSUME TypeOK, NEW k \in Keys
  PROVE  Slack(k) \in 0 .. 2 * MaxRound
BY ConstantsAssumption DEF TypeOK, Slack, Keys
-----------------------------------------------------------------------------
(* The end of a visit: what must hold of the structure b it leaves, and of *)
(* the true time d to its timeout, for the invariant to be kept.           *)
LEMMA VisitEnds ==
  ASSUME Inv, pc # "asleep",
         NEW b \in Button, NEW d \in -Half .. Half,
         btn' = [btn EXCEPT ![at] = b], due' = [due EXCEPT ![at] = d],
         b.active = btn[at].active,
         MoveOn,
         tick' = tick, level' = level, firm' = firm,
         b.state = "CHECK_PRESS" \/ (b.state = "NONE_PRESS" /\ b.repeat_cnt # 0)
           => Linked(tick, b.tick_timeout, d),
         b.state = "CHECK_PRESS"
           => d > -spent /\ level[at] /\ FirmEnough(firm[at], d),
         b.state = "NONE_PRESS" /\ b.repeat_cnt # 0
           => d > -(spent + 2 * MaxRound)
  PROVE  Inv'
  <1>0. /\ at' \in Keys /\ pc' \in {"visit", "asleep"}
        /\ pc' = "visit" => btn[at'].active
        /\ spent' \in 0 .. MaxRound
    <2>1. CASE HasNext
      <3>1. at + 1 \in Keys
        BY <2>1, ConstantsAssumption DEF Inv, TypeOK, HasNext, Keys
      <3> QED BY <2>1, <3>1 DEF Inv, TypeOK, MoveOn, HasNext
    <2>2. CASE ~HasNext
      BY <2>2, ConstantsAssumption DEF Inv, TypeOK, MoveOn
    <2> QED BY <2>1, <2>2
  <1>1. TypeOK'
    <2>1. btn' \in [Keys -> Button] /\ due' \in [Keys -> -Half .. Half]
      BY DEF Inv, TypeOK
    <2> QED BY <1>0, <2>1 DEF Inv, TypeOK
  <1>2. ThreadInv'
    <2>1. \A k \in Keys : btn'[k].active = btn[k].active
      BY DEF Inv, TypeOK
    <2> QED BY <1>0, <2>1 DEF Inv, ThreadInv
  <1>3. ASSUME NEW k \in Keys PROVE KeyInv(k)'
    <2>0. spent \in 0 .. MaxRound /\ at \in Keys /\ MaxRound \in Nat
          /\ k \in Int /\ at \in Int
      BY ConstantsAssumption DEF Inv, TypeOK, Keys
    <2>1. CASE k = at
      <3>1. btn'[k] = b /\ due'[k] = d
        BY <2>1 DEF Inv, TypeOK
      <3>2. Slack(k)' >= spent
        BY <2>0, <2>1 DEF Slack, MoveOn
      <3>3. Slack(k)' \in Int
        BY <2>0 DEF Slack, MoveOn
      <3>4. b.active
        BY <2>1 DEF Inv, ThreadInv
      <3> QED BY <2>0, <2>1, <3>1, <3>2, <3>3, <3>4 DEF KeyInv, Awaits
    <2>2. CASE k # at
      <3>1. btn'[k] = btn[k] /\ due'[k] = due[k]
        BY <2>2 DEF Inv, TypeOK
      <3>2. Slack(k)' >= Slack(k) \/ (pc' = "asleep" /\ k > at)
        BY <2>0, <2>2 DEF Slack, MoveOn, HasNext
      <3>3. pc' = "asleep" /\ k > at => ~btn[k].active
        <4> SUFFICES ASSUME pc' = "asleep", k > at, btn[k].active PROVE FALSE
          OBVIOUS
        <4>1. /\ at + 1 \in Keys /\ at < KeyCount
              /\ at + 1 = k \/ at + 1 < k
          BY <2>0, ConstantsAssumption DEF Keys
        <4>2. btn[at + 1].active
          BY <4>1 DEF Inv, ThreadInv
        <4> QED BY <4>1, <4>2 DEF MoveOn, HasNext
      <3>4. Slack(k)' \in Int /\ Slack(k) \in Int /\ due[k] \in Int
        BY <2>0, HalfFact DEF Slack, MoveOn, Inv, TypeOK
      <3>5. KeyInv(k)
        BY DEF Inv
      <3> QED BY <2>0, <2>2, <3>1, <3>2, <3>3, <3>4, <3>5 DEF KeyInv, Awaits
    <2> QED BY <2>1, <2>2
  <1> QED BY <1>1, <1>2, <1>3 DEF Inv, Keys
-----------------------------------------------------------------------------
LEMMA InitInv == Init => Inv
  <1> SUFFICES ASSUME Init PROVE Inv
    OBVIOUS
  <1>1. Fresh(FALSE, 0) \in Button
    BY ConstantsAssumption DEF Fresh, Button, States, Events, Ticks
  <1>2. TypeOK
    <2>1. /\ 0 \in Ticks /\ 1 \in Keys /\ 0 \in 0 .. MaxRound
          /\ 0 \in -Half .. Half /\ 0 \in 0 .. Elimination
          /\ 0 \in 0 .. TwoInterval
      BY HalfFact, ConstantsAssumption DEF Ticks, Keys
    <2> QED BY <1>1, <2>1 DEF Init, TypeOK
  <1>3. ThreadInv
    BY DEF Init, ThreadInv, Fresh
  <1>4. \A k \in Keys : KeyInv(k)
    BY DEF Init, KeyInv, Awaits, Fresh
  <1> QED BY <1>2, <1>3, <1>4 DEF Inv

(* What a visit may use of the key visited.                                *)
LEMMA Visited ==
  ASSUME Inv
  PROVE  /\ at \in Keys /\ btn[at] \in Button /\ due[at] \in -Half .. Half
         /\ tick \in Ticks /\ spent \in 0 .. MaxRound /\ MaxRound \in Nat \ {0}
         /\ KeyInv(at) /\ Slack(at) = MaxRound + spent
         /\ Half \in Nat /\ 4 * MaxRound <= Half
         /\ firm[at] \in 0 .. Elimination
         /\ due = [due EXCEPT ![at] = due[at]]
BY HalfFact, ConstantsAssumption, WrapAssumption
DEF Inv, TypeOK, Slack, Keys

(* Whoever waits for a timeout is asked long before the counter can        *)
(* mislead.                                                                *)
LEMMA AwaitedIsNear ==
  ASSUME Inv, Awaits(at)
  PROVE  /\ due[at] > -Half
         /\ Reached(tick, btn[at].tick_timeout) <=> due[at] <= 0
  <1>1. due[at] > -Half
    BY Visited DEF KeyInv, Awaits
  <1>2. Linked(tick, btn[at].tick_timeout, due[at])
    BY Visited DEF KeyInv
  <1>3. btn[at].tick_timeout \in Ticks
    BY Visited, ButtonFields
  <1> QED BY <1>1, <1>2, <1>3, Visited, ReachedIff

LEMMA TickInv == Inv /\ Tick => Inv'
  <1> SUFFICES ASSUME Inv, Tick PROVE Inv'
    OBVIOUS
  <1> USE DEF Tick
  <1>0. /\ TypeOK /\ ThreadInv /\ MaxRound \in Nat \ {0}
    BY ConstantsAssumption DEF Inv
  <1>1. TypeOK'
    <2>1. tick' \in Ticks
      <3>1. 1 \in 0 .. Half /\ tick \in Ticks
        BY <1>0, HalfFact, WrapAssumption DEF TypeOK
      <3> QED BY <3>1, PlusInTicks
    <2>2. due' \in [Keys -> -Half .. Half]
      BY <1>0, HalfFact DEF TypeOK, Passed
    <2>3. firm' \in [Keys -> 0 .. Elimination]
      BY <1>0, ConstantsAssumption DEF TypeOK, Min2
    <2>4. spent' \in 0 .. MaxRound
      BY <1>0 DEF TypeOK
    <2> QED BY <1>0, <2>1, <2>2, <2>3, <2>4 DEF TypeOK
  <1>2. ThreadInv'
    BY <1>0 DEF ThreadInv
  <1>3. ASSUME NEW k \in Keys PROVE KeyInv(k)'
    <2>1. KeyInv(k)
      BY DEF Inv
    <2>2. /\ btn[k] \in Button /\ btn[k].tick_timeout \in Ticks
          /\ due[k] \in -Half .. Half /\ firm[k] \in 0 .. Elimination
          /\ tick \in Ticks /\ spent \in 0 .. MaxRound
      BY <1>0, ButtonFields DEF TypeOK
    <2>3. /\ due'[k] = Passed(due[k])
          /\ firm'[k] = IF level[k] THEN Min2(firm[k] + 1, Elimination) ELSE 0
          /\ level'[k] = level[k]
      BY <1>0 DEF TypeOK
    <2>4. Slack(k)' = Slack(k) + 1 /\ Slack(k) \in 0 .. 2 * MaxRound - 1
      BY <1>0, <2>2 DEF Slack, Keys, TypeOK
    <2>5. CASE Awaits(k)
      <3>1. due[k] > -Half
        BY <1>0, <2>1, <2>2, <2>4, <2>5, HalfFact, WrapAssumption
        DEF KeyInv, Awaits
      <3>2. Linked(tick', btn[k].tick_timeout, due[k] - 1)
        BY <2>1, <2>2, <2>5, <3>1, LinkTick DEF KeyInv
      <3>3. due'[k] = due[k] - 1
        BY <2>3, <3>1 DEF Passed
      <3>4. level[k] /\ FirmEnough(firm[k], due[k])
              => level'[k] /\ FirmEnough(firm'[k], due'[k])
        BY <2>2, <2>3, <3>3, ConstantsAssumption, HalfFact
        DEF FirmEnough, Min2
      <3> QED BY <1>0, <2>1, <2>2, <2>3, <2>4, <3>2, <3>3, <3>4
              DEF KeyInv, Awaits
    <2>6. CASE ~Awaits(k)
      BY <2>1, <2>6 DEF KeyInv, Awaits
    <2> QED BY <2>5, <2>6
  <1> QED BY <1>1, <1>2, <1>3 DEF Inv, Keys

LEMMA WakeInv == Inv /\ Wake => Inv'
  <1> SUFFICES ASSUME Inv, Wake PROVE Inv'
    OBVIOUS
  <1> USE DEF Wake
  <1>0. TypeOK /\ ThreadInv /\ MaxRound \in Nat \ {0} /\ 1 \in Keys
    BY ConstantsAssumption DEF Inv, Keys
  <1>1. TypeOK'
    BY <1>0 DEF TypeOK
  <1>2. ThreadInv'
    BY <1>0 DEF ThreadInv
  <1>3. ASSUME NEW k \in Keys PROVE KeyInv(k)'
    <2>1. KeyInv(k)
      BY DEF Inv
    <2>2. spent \in 0 .. MaxRound /\ due[k] \in Int /\ k \in Int /\ k >= 1
      BY <1>0, HalfFact DEF TypeOK, Keys
    <2>3. CASE btn[1].active
      <3>1. Slack(k)' = Slack(k) /\ Slack(k) = MaxRound + spent
        BY <2>2, <2>3 DEF Slack
      <3> QED BY <1>0, <2>1, <2>2, <2>3, <3>1 DEF KeyInv, Awaits
    <2>4. CASE ~btn[1].active
      <3>1. ~btn[k].active
        BY <1>0, <2>2, <2>4 DEF ThreadInv
      <3> QED BY <2>1, <3>1, <2>4 DEF KeyInv, Awaits
    <2> QED BY <2>3, <2>4
  <1> QED BY <1>1, <1>2, <1>3 DEF Inv, Keys

LEMMA StartInv == ASSUME Inv, NEW i \in Keys, Start(i) PROVE Inv'
  <1> DEFINE b == Fresh(TRUE, tick)
  <1>0. TypeOK /\ ThreadInv /\ MaxRound \in Nat \ {0}
    BY ConstantsAssumption DEF Inv
  <1>1. /\ b \in Button /\ b.active /\ b.state = "NONE_PRESS"
        /\ b.repeat_cnt = 0
    <2>1. b = [active |-> TRUE, state |-> "NONE_PRESS", event |-> "SUM",
               repeat_cnt |-> 0, hold_time |-> 0, prev_hold_time |-> 0,
               tick_timeout |-> tick]
      BY DEF Fresh
    <2> HIDE DEF b
    <2>2. 0 \in Ticks /\ 0 \in 0 .. CountRange - 1 /\ tick \in Ticks
      BY <1>0, ConstantsAssumption DEF TypeOK, Ticks
    <2> QED BY <2>1, <2>2 DEF Button, States, Events
  <1>2. btn' = [btn EXCEPT ![i] = b]
    BY DEF Start
  <1> HIDE DEF b
  <1>3. TypeOK'
    <2>1. 0 \in -Half .. Half
      BY HalfFact
    <2>2. btn' \in [Keys -> Button]
      BY <1>0, <1>1, <1>2 DEF TypeOK
    <2> QED BY <1>0, <2>1, <2>2 DEF TypeOK, Start, thread
  <1>4. ThreadInv'
    <2>1. \A k \in Keys : btn'[k].active = (k = i \/ btn[k].active)
      BY <1>0, <1>1, <1>2 DEF TypeOK, Button
    <2>2. pc' = "asleep"
      BY DEF Start, thread
    <2>3. \A j \in Keys : j < i => btn[j].active
      BY DEF Start, Keys
    <2> QED BY <1>0, <2>1, <2>2, <2>3 DEF ThreadInv
  <1>5. ASSUME NEW k \in Keys PROVE KeyInv(k)'
    <2>1. KeyInv(k)
      BY DEF Inv
    <2>2. Slack(k)' = Slack(k)
      BY DEF Slack, Start, thread
    <2>3. CASE k = i
      BY <1>0, <1>1, <1>2, <2>3 DEF KeyInv, Awaits, TypeOK
    <2>4. CASE k # i
      <3>1. btn'[k] = btn[k] /\ due'[k] = due[k]
        BY <1>0, <1>2, <2>4 DEF TypeOK, Start
      <3> QED BY <2>1, <2>2, <3>1 DEF KeyInv, Awaits, Start, thread
    <2> QED BY <2>3, <2>4
  <1> QED BY <1>3, <1>4, <1>5 DEF Inv, Keys
-----------------------------------------------------------------------------
(* The visits, one lemma per action.                                       *)

LEMMA SampleInv == ASSUME Inv, NEW closed \in BOOLEAN, Sample(closed) PROVE Inv'
  <1> USE DEF Sample
  <1>1. TypeOK'
    BY ConstantsAssumption DEF Inv, TypeOK
  <1>2. ThreadInv'
    BY DEF Inv, ThreadInv
  <1>3. ASSUME NEW k \in Keys PROVE KeyInv(k)'
    <2>1. KeyInv(k)
      BY DEF Inv
    <2>2. Slack(k)' = Slack(k)
      BY DEF Slack
    <2>3. level'[k] = (IF k = at THEN closed ELSE level[k])
          /\ firm'[k] = (IF k = at /\ ~closed THEN 0 ELSE firm[k])
      BY DEF Inv, TypeOK
    <2> QED BY <2>1, <2>2, <2>3 DEF KeyInv, Awaits
  <1> QED BY <1>1, <1>2, <1>3 DEF Inv, Keys

LEMMA PressSeenInv == Inv /\ PressSeen => Inv'
  <1> SUFFICES ASSUME Inv, PressSeen PROVE Inv'
    OBVIOUS
  <1> DEFINE b == [btn[at] EXCEPT !.tick_timeout = Plus(tick, Elimination),
                                  !.state = "CHECK_PRESS"]
  <1>1. Elimination \in 1 .. Half
    BY HalfFact, ConstantsAssumption, WrapAssumption
  <1>2. /\ Plus(tick, Elimination) \in Ticks
        /\ Linked(tick, Plus(tick, Elimination), Elimination)
    BY <1>1, Visited, LinkSet
  <1>3. /\ b \in Button /\ b.active = btn[at].active
        /\ b.state = "CHECK_PRESS" /\ b.tick_timeout = Plus(tick, Elimination)
    BY <1>2, Visited DEF Button, States
  <1>4. btn' = [btn EXCEPT ![at] = b] /\ due' = [due EXCEPT ![at] = Elimination]
    BY DEF PressSeen, Set, Due
  <1>5. /\ pc # "asleep" /\ MoveOn /\ tick' = tick /\ level' = level
        /\ firm' = firm /\ level[at]
    BY DEF PressSeen, Sampled
  <1>6. Elimination > -spent /\ FirmEnough(firm[at], Elimination)
    BY <1>1, Visited DEF FirmEnough
  <1>7. Elimination \in -Half .. Half
    BY <1>1, HalfFact
  <1> HIDE DEF b
  <1> QED BY <1>2, <1>3, <1>4, <1>5, <1>6, <1>7, Visited, VisitEnds

LEMMA IdleSeenInv == Inv /\ IdleSeen => Inv'
  <1> SUFFICES ASSUME Inv, IdleSeen PROVE Inv'
    OBVIOUS
  <1> DEFINE clear == btn[at].repeat_cnt # 0
                        /\ Reached(tick, btn[at].tick_timeout)
             c == IF clear THEN 0 ELSE btn[at].repeat_cnt
             b == [btn[at] EXCEPT !.repeat_cnt = c]
  <1>1. c \in 0 .. CountRange - 1
    BY Visited, ButtonFields, ConstantsAssumption
  <1>2. /\ b \in Button /\ b.active = btn[at].active
        /\ b.state = btn[at].state /\ b.tick_timeout = btn[at].tick_timeout
        /\ b.repeat_cnt = c
    BY <1>1, Visited DEF Button
  <1>3. /\ pc # "asleep" /\ MoveOn /\ tick' = tick /\ level' = level
        /\ firm' = firm /\ due' = due /\ btn[at].state = "NONE_PRESS"
    BY DEF IdleSeen, Sampled
  <1>4. btn' = [btn EXCEPT ![at] = b]
    BY DEF IdleSeen, Set
  <1>5. c # 0 => Linked(tick, b.tick_timeout, due[at]) /\ due[at] > 0
    <2>1. c # 0 => Awaits(at) /\ ~Reached(tick, btn[at].tick_timeout)
      BY <1>3 DEF Awaits
    <2> QED BY <1>2, <2>1, Visited, AwaitedIsNear DEF KeyInv
  <1>6. c # 0 => due[at] > -(spent + 2 * MaxRound)
    BY <1>5, Visited
  <1>7. due' = [due EXCEPT ![at] = due[at]] /\ due[at] \in -Half .. Half
    BY <1>3, Visited
  <1> HIDE DEF b, c
  <1> QED BY <1>2, <1>3, <1>4, <1>5, <1>6, <1>7, VisitEnds

LEMMA PressCheckedInv == Inv /\ PressChecked => Inv'
  <1> SUFFICES ASSUME Inv, PressChecked PROVE Inv'
    OBVIOUS
  <1> DEFINE st == IF Reached(tick, btn[at].tick_timeout)
                   THEN "PRESS_DOWN" ELSE btn[at].state
             b == [btn[at] EXCEPT !.state = st]
  <1>1. /\ pc # "asleep" /\ MoveOn /\ tick' = tick /\ level' = level
        /\ firm' = firm /\ due' = due
        /\ btn[at].state = "CHECK_PRESS" /\ level[at]
    BY DEF PressChecked, Sampled
  <1>2. /\ b \in Button /\ b.active = btn[at].active /\ b.state = st
        /\ b.tick_timeout = btn[at].tick_timeout /\ st # "NONE_PRESS"
    BY <1>1, Visited DEF Button, States
  <1>3. btn' = [btn EXCEPT ![at] = b]
    BY DEF PressChecked, Set
  <1>4. Awaits(at)
    BY <1>1 DEF Awaits
  <1>5. Linked(tick, b.tick_timeout, due[at]) /\ FirmEnough(firm[at], due[at])
    BY <1>1, <1>2, <1>4, Visited DEF KeyInv
  <1>6. st = "CHECK_PRESS" => due[at] > -spent
    <2>1. st = "CHECK_PRESS" => due[at] > 0
      BY <1>4, Visited, AwaitedIsNear
    <2> QED BY <2>1, Visited
  <1>7. due' = [due EXCEPT ![at] = due[at]] /\ due[at] \in -Half .. Half
    BY <1>1, Visited
  <1> HIDE DEF b, st
  <1> QED BY <1>1, <1>2, <1>3, <1>5, <1>6, <1>7, Visited, VisitEnds

LEMMA BouncedInv == Inv /\ Bounced => Inv'
  <1> SUFFICES ASSUME Inv, Bounced PROVE Inv'
    OBVIOUS
  <1> DEFINE b == [btn[at] EXCEPT !.state = "NONE_PRESS"]
  <1>1. /\ pc # "asleep" /\ MoveOn /\ tick' = tick /\ level' = level
        /\ firm' = firm /\ due' = due
        /\ btn[at].state = "CHECK_PRESS"
    BY DEF Bounced, Sampled
  <1>2. /\ b \in Button /\ b.active = btn[at].active /\ b.state = "NONE_PRESS"
        /\ b.tick_timeout = btn[at].tick_timeout
    BY <1>1, Visited DEF Button, States
  <1>3. btn' = [btn EXCEPT ![at] = b]
    BY DEF Bounced, Set
  <1>4. Linked(tick, b.tick_timeout, due[at])
    BY <1>1, <1>2, Visited DEF KeyInv, Awaits
  <1>5. due[at] > -(spent + 2 * MaxRound)
    BY <1>1, Visited DEF KeyInv
  <1>6. due' = [due EXCEPT ![at] = due[at]] /\ due[at] \in -Half .. Half
    BY <1>1, Visited
  <1> HIDE DEF b
  <1> QED BY <1>1, <1>2, <1>3, <1>4, <1>5, <1>6, Visited, VisitEnds

LEMMA PressDownInv == Inv /\ PressDown => Inv'
  <1> SUFFICES ASSUME Inv, PressDown PROVE Inv'
    OBVIOUS
  <1> DEFINE c == (btn[at].repeat_cnt + 1) % CountRange
             b == [btn[at] EXCEPT !.hold_time = 0, !.prev_hold_time = 0,
                                  !.repeat_cnt = c,
                                  !.event = "PRESS_DOWN", !.tick_timeout = tick,
                                  !.state = "PRESS_HOLD"]
  <1>1. c \in 0 .. CountRange - 1
    <2>1. btn[at].repeat_cnt + 1 \in Nat /\ CountRange \in Nat \ {0}
      BY Visited, ButtonFields, ConstantsAssumption
    <2> QED BY <2>1, Remainder
  <1>2. 0 \in Ticks /\ tick \in Ticks /\ 0 \in -Half .. Half
    BY Visited, ConstantsAssumption DEF Ticks
  <1> HIDE DEF c
  <1>3. b \in Button
    BY <1>1, <1>2, Visited DEF Button, States, Events
  <1>4. b.active = btn[at].active /\ b.state = "PRESS_HOLD"
    BY Visited DEF Button
  <1>5. btn' = [btn EXCEPT ![at] = b] /\ due' = [due EXCEPT ![at] = 0]
    BY DEF PressDown, Set, Due, c
  <1>6. /\ pc # "asleep" /\ MoveOn /\ tick' = tick /\ level' = level
        /\ firm' = firm
    BY DEF PressDown
  <1> HIDE DEF b
  <1> QED BY <1>2, <1>3, <1>4, <1>5, <1>6, VisitEnds

LEMMA HoldSeenInv == Inv /\ HoldSeen => Inv'
  <1> SUFFICES ASSUME Inv, HoldSeen PROVE Inv'
    OBVIOUS
  <1> USE DEF HoldSeen, Sampled
  <1>1. pc' \in {"wrapped", "straight"}
    OBVIOUS
  <1>2. TypeOK' /\ ThreadInv'
    BY <1>1 DEF Inv, TypeOK, ThreadInv
  <1>3. ASSUME NEW k \in Keys PROVE KeyInv(k)'
    <2>1. KeyInv(k) /\ Slack(k)' = Slack(k)
      BY <1>1 DEF Inv, Slack
    <2> QED BY <2>1 DEF KeyInv, Awaits
  <1> QED BY <1>2, <1>3 DEF Inv, Keys

LEMMA HoldTimedInv == Inv /\ HoldTimed => Inv'
  <1> SUFFICES ASSUME Inv, HoldTimed PROVE Inv'
    OBVIOUS
  <1> DEFINE t == HoldTime % (RT_TICK_MAX + 1)
             cycle == Minus(t, btn[at].prev_hold_time) >= HoldCycle
             e == IF cycle THEN "HOLD" ELSE btn[at].event
             p == IF cycle THEN t ELSE btn[at].prev_hold_time
             b == [btn[at] EXCEPT !.hold_time = t, !.event = e,
                                  !.prev_hold_time = p]
  <1>1. t \in Ticks
    <2>1. RT_TICK_MAX + 1 \in Nat \ {0} /\ MsPerTick \in Nat
      BY ConstantsAssumption
    <2> DEFINE h == IF pc = "wrapped" THEN RT_TICK_MAX - btn[at].tick_timeout + tick
                    ELSE Minus(tick, btn[at].tick_timeout)
    <2>2. h \in Nat
      BY Visited, ButtonFields, ConstantsAssumption DEF Ticks, Minus
    <2> HIDE DEF h
    <2>3. h * MsPerTick \in Nat
      BY <2>1, <2>2
    <2>4. (h * MsPerTick) % (RT_TICK_MAX + 1) \in 0 .. (RT_TICK_MAX + 1) - 1
      BY <2>1, <2>3, Remainder
    <2>5. (RT_TICK_MAX + 1) - 1 = RT_TICK_MAX
      BY ConstantsAssumption
    <2> QED BY <2>4, <2>5 DEF h, HoldTime, Ticks
  <1>2. /\ pc # "asleep" /\ MoveOn /\ tick' = tick /\ level' = level
        /\ firm' = firm /\ due' = due
    BY DEF HoldTimed
  <1>3. btn[at].state = "PRESS_HOLD"
    BY DEF Inv, ThreadInv, HoldTimed
  <1>4. btn' = [btn EXCEPT ![at] = b]
    BY DEF HoldTimed, Set
  <1>5. e \in Events /\ p \in Ticks
    BY <1>1, Visited, ButtonFields DEF Events
  <1> HIDE DEF t, e, p
  <1>6. b \in Button /\ b.active = btn[at].active /\ b.state = "PRESS_HOLD"
    BY <1>1, <1>3, <1>5, Visited DEF Button
  <1>7. due' = [due EXCEPT ![at] = due[at]] /\ due[at] \in -Half .. Half
    BY <1>2, Visited
  <1> HIDE DEF b
  <1> QED BY <1>2, <1>4, <1>6, <1>7, Visited, VisitEnds

LEMMA ReleasedInv == Inv /\ Released => Inv'
  <1> SUFFICES ASSUME Inv, Released PROVE Inv'
    OBVIOUS
  <1> DEFINE b == [btn[at] EXCEPT !.state = "PRESS_UP"]
  <1>1. /\ pc # "asleep" /\ MoveOn /\ tick' = tick /\ level' = level
        /\ firm' = firm /\ due' = due
    BY DEF Released, Sampled
  <1>2. b \in Button /\ b.active = btn[at].active /\ b.state = "PRESS_UP"
    BY Visited DEF Button, States
  <1>3. btn' = [btn EXCEPT ![at] = b]
    BY DEF Released, Set
  <1>4. due' = [due EXCEPT ![at] = due[at]] /\ due[at] \in -Half .. Half
    BY <1>1, Visited
  <1> HIDE DEF b
  <1> QED BY <1>1, <1>2, <1>3, <1>4, Visited, VisitEnds

LEMMA PressUpInv == Inv /\ PressUp => Inv'
  <1> SUFFICES ASSUME Inv, PressUp PROVE Inv'
    OBVIOUS
  <1> DEFINE b == [btn[at] EXCEPT !.event = "CLICK"]
  <1>1. /\ pc = "visit" /\ pc' = "callback" /\ btn[at].state = "PRESS_UP"
        /\ UNCHANGED <<tick, at, spent, level, due, firm>>
    BY DEF PressUp
  <1>2. /\ b \in Button /\ b.active = btn[at].active /\ b.state = "PRESS_UP"
    BY <1>1, Visited DEF Button, Events
  <1>3. btn' = [btn EXCEPT ![at] = b]
    BY DEF PressUp, Set
  <1> HIDE DEF b
  <1>4. TypeOK' /\ ThreadInv'
    BY <1>1, <1>2, <1>3 DEF Inv, TypeOK, ThreadInv
  <1>5. ASSUME NEW k \in Keys PROVE KeyInv(k)'
    <2>1. KeyInv(k) /\ Slack(k)' = Slack(k)
      BY <1>1 DEF Inv, Slack
    <2>2. CASE k = at
      <3>1. btn'[k] = b
        BY <1>3, <2>2 DEF Inv, TypeOK
      <3>2. btn[at].active
        BY <1>1 DEF Inv, ThreadInv
      <3> QED BY <1>2, <2>2, <3>1, <3>2 DEF KeyInv, Awaits
    <2>3. CASE k # at
      <3>1. btn'[k] = btn[k]
        BY <1>3, <2>3 DEF Inv, TypeOK
      <3> QED BY <1>1, <2>1, <3>1 DEF KeyInv, Awaits
    <2> QED BY <2>2, <2>3
  <1> QED BY <1>4, <1>5 DEF Inv, Keys

LEMMA ClickedInv == Inv /\ Clicked => Inv'
  <1> SUFFICES ASSUME Inv, Clicked PROVE Inv'
    OBVIOUS
  <1> DEFINE b == [btn[at] EXCEPT !.tick_timeout = Plus(tick, TwoInterval),
                                  !.state = "NONE_PRESS"]
  <1>1. TwoInterval \in 0 .. Half /\ TwoInterval \in -Half .. Half
    BY HalfFact, ConstantsAssumption, WrapAssumption
  <1>2. /\ Plus(tick, TwoInterval) \in Ticks
        /\ Linked(tick, Plus(tick, TwoInterval), TwoInterval)
    BY <1>1, Visited, LinkSet
  <1>3. /\ b \in Button /\ b.active = btn[at].active
        /\ b.state = "NONE_PRESS" /\ b.tick_timeout = Plus(tick, TwoInterval)
    BY <1>2, Visited DEF Button, States
  <1>4. btn' = [btn EXCEPT ![at] = b] /\ due' = [due EXCEPT ![at] = TwoInterval]
    BY DEF Clicked, Set, Due
  <1>5. /\ pc # "asleep" /\ MoveOn /\ tick' = tick /\ level' = level
        /\ firm' = firm
    BY DEF Clicked
  <1>6. TwoInterval > -(spent + 2 * MaxRound)
    BY <1>1, Visited
  <1> HIDE DEF b
  <1> QED BY <1>1, <1>2, <1>3, <1>4, <1>5, <1>6, VisitEnds

LEMMA StutterInv == Inv /\ UNCHANGED vars => Inv'
BY DEF Inv, TypeOK, ThreadInv, KeyInv, Awaits, Slack, vars, thread

LEMMA StepInv == Inv /\ [Next]_vars => Inv'
BY TickInv, WakeInv, StartInv, SampleInv, PressSeenInv, IdleSeenInv,
   PressCheckedInv, BouncedInv, PressDownInv, HoldSeenInv, HoldTimedInv,
   ReleasedInv, PressUpInv, ClickedInv, StutterInv
DEF Next, Visit

(* The driver's invariant.                                                 *)
THEOREM InvHolds == Spec => []Inv
BY InitInv, StepInv, PTL DEF Spec
-----------------------------------------------------------------------------
(* The variables stay in their ranges; the timeouts computed are values of *)
(* the counter, agile_button.c:270 and 338.                                *)
THEOREM TypeCorrect == Spec => []TypeOK
  <1>1. Inv => TypeOK
    BY DEF Inv
  <1> QED BY <1>1, InvHolds, PTL

(* The unsigned comparisons of agile_button.c:278 and 290 answer what a    *)
(* counter that never wraps would answer, whatever its range.              *)
THEOREM WrapIsHarmless == Spec => []TimeoutsExact
  <1>1. Inv => TimeoutsExact
    BY AwaitedIsNear DEF TimeoutsExact
  <1> QED BY <1>1, InvHolds, PTL

(* A step that accepts a press is PressChecked on the key visited.         *)
LEMMA Accepted ==
  ASSUME Inv, Next, NEW k \in Keys,
         btn[k].state # "PRESS_DOWN", btn'[k].state = "PRESS_DOWN"
  PROVE  /\ PressChecked /\ k = at
         /\ Reached(tick, btn[at].tick_timeout)
  <1>1. btn # btn'
    OBVIOUS
  <1>2. CASE \E i \in Keys : Start(i)
    BY <1>2 DEF Start, Fresh, Inv, TypeOK
  <1>3. ASSUME NEW b, Set(b)
        PROVE  k = at /\ b.state = "PRESS_DOWN" /\ b.state # btn[at].state
    BY <1>3 DEF Set, Inv, TypeOK
  <1>4. CASE PressSeen
    <2> DEFINE b == [btn[at] EXCEPT !.tick_timeout = Plus(tick, Elimination),
                                    !.state = "CHECK_PRESS"]
    <2>1. Set(b)
      BY <1>4 DEF PressSeen
    <2>2. b.state = "CHECK_PRESS"
      BY <1>4, Visited DEF PressSeen, Button
    <2> HIDE DEF b
    <2> QED BY <1>3, <2>1, <2>2
  <1>5. CASE Bounced
    <2> DEFINE b == [btn[at] EXCEPT !.state = "NONE_PRESS"]
    <2>1. Set(b)
      BY <1>5 DEF Bounced
    <2>2. b.state = "NONE_PRESS"
      BY <1>5, Visited DEF Bounced, Button
    <2> HIDE DEF b
    <2> QED BY <1>3, <2>1, <2>2
  <1>6. CASE PressDown
    <2> DEFINE b == [btn[at] EXCEPT !.hold_time = 0, !.prev_hold_time = 0,
                         !.repeat_cnt = (@ + 1) % CountRange,
                         !.event = "PRESS_DOWN", !.tick_timeout = tick,
                         !.state = "PRESS_HOLD"]
    <2>1. Set(b)
      BY <1>6 DEF PressDown
    <2>2. b.state = "PRESS_HOLD"
      BY <1>6, Visited DEF PressDown, Button
    <2> HIDE DEF b
    <2> QED BY <1>3, <2>1, <2>2
  <1>7. CASE Released
    <2> DEFINE b == [btn[at] EXCEPT !.state = "PRESS_UP"]
    <2>1. Set(b)
      BY <1>7 DEF Released
    <2>2. b.state = "PRESS_UP"
      BY <1>7, Visited DEF Released, Button
    <2> HIDE DEF b
    <2> QED BY <1>3, <2>1, <2>2
  <1>8. CASE PressUp
    <2> DEFINE b == [btn[at] EXCEPT !.event = "CLICK"]
    <2>1. Set(b)
      BY <1>8 DEF PressUp
    <2>2. b.state = btn[at].state
      BY <1>8, Visited DEF PressUp, Button
    <2> HIDE DEF b
    <2> QED BY <1>3, <2>1, <2>2
  <1>9. CASE Clicked
    <2> DEFINE b == [btn[at] EXCEPT !.tick_timeout = Plus(tick, TwoInterval),
                                    !.state = "NONE_PRESS"]
    <2>1. Set(b)
      BY <1>9 DEF Clicked
    <2>2. b.state = "NONE_PRESS"
      BY <1>9, Visited DEF Clicked, Button
    <2> HIDE DEF b
    <2> QED BY <1>3, <2>1, <2>2
  <1>10. CASE IdleSeen
    <2> DEFINE clear == btn[at].repeat_cnt # 0
                          /\ Reached(tick, btn[at].tick_timeout)
               b == [btn[at] EXCEPT !.repeat_cnt = IF clear THEN 0 ELSE @]
    <2>1. Set(b)
      BY <1>10 DEF IdleSeen
    <2>2. b.state = btn[at].state
      BY Visited DEF Button
    <2> HIDE DEF b
    <2> QED BY <1>3, <2>1, <2>2
  <1>11. CASE HoldTimed
    <2> DEFINE t == HoldTime % (RT_TICK_MAX + 1)
               cycle == Minus(t, btn[at].prev_hold_time) >= HoldCycle
               b == [btn[at] EXCEPT !.hold_time = t,
                            !.event = IF cycle THEN "HOLD" ELSE @,
                            !.prev_hold_time = IF cycle THEN t ELSE @]
    <2>1. Set(b)
      BY <1>11 DEF HoldTimed
    <2>2. b.state = btn[at].state
      BY Visited DEF Button
    <2> HIDE DEF b
    <2> QED BY <1>3, <2>1, <2>2
  <1>12. CASE PressChecked
    <2> DEFINE r == Reached(tick, btn[at].tick_timeout)
               b == [btn[at] EXCEPT !.state = IF r THEN "PRESS_DOWN" ELSE @]
    <2>1. Set(b)
      BY <1>12 DEF PressChecked
    <2>2. b.state = IF r THEN "PRESS_DOWN" ELSE btn[at].state
      BY Visited DEF Button
    <2> HIDE DEF b
    <2> QED BY <1>3, <1>12, <2>1, <2>2
  <1>13. CASE Tick \/ Wake \/ HoldSeen \/ \E closed \in BOOLEAN : Sample(closed)
    BY <1>1, <1>13 DEF Tick, Wake, HoldSeen, Sample
  <1> QED BY <1>2, <1>4, <1>10, <1>11, <1>13, <1>12, <1>5, <1>6, <1>7, <1>8, <1>9
          DEF Next, Visit

(* No press is accepted unless every sample for the elimination time has   *)
(* found the key closed, across a wrap of the counter too.                 *)
THEOREM PressesDebounced == Spec => Debounced
  <1>1. ASSUME Inv, [Next]_vars, NEW k \in Keys,
               btn[k].state # "PRESS_DOWN", btn'[k].state = "PRESS_DOWN"
        PROVE  level[k] /\ firm[k] >= Elimination
    <2>1. Next
      BY <1>1 DEF vars
    <2>2. /\ PressChecked /\ k = at /\ Reached(tick, btn[at].tick_timeout)
      BY <1>1, <2>1, Accepted
    <2>3. btn[at].state = "CHECK_PRESS" /\ level[at]
      BY <2>2 DEF PressChecked, Sampled
    <2>4. due[at] <= 0
      BY <1>1, <2>2, <2>3, AwaitedIsNear DEF Awaits
    <2>5. FirmEnough(firm[at], due[at])
      BY <1>1, <2>3, Visited DEF KeyInv
    <2> QED BY <1>1, <2>2, <2>3, <2>4, <2>5, Visited, ConstantsAssumption
            DEF FirmEnough
  <1>2. Inv /\ [Next]_vars
          => [\A k \in Keys :
                btn[k].state # "PRESS_DOWN" /\ btn'[k].state = "PRESS_DOWN"
                  => level[k] /\ firm[k] >= Elimination]_vars
    BY <1>1
  <1> QED BY <1>2, InvHolds, PTL DEF Spec, Debounced
-----------------------------------------------------------------------------
(* The refinement.                                                         *)

Pressing == {"PRESS_DOWN", "PRESS_HOLD", "PRESS_UP"}
DownKeys == {k \in Keys : btn[k].state \in Pressing}
Running == IF pc = "callback" THEN {at} ELSE {}

LEMMA Mapped ==
  /\ Promise!Init <=> DownKeys = {} /\ Running = {}
  /\ \A k \in Keys :
       /\ Promise!Press(k) <=> k \notin DownKeys
                               /\ DownKeys' = DownKeys \cup {k}
                               /\ Running' = Running
       /\ Promise!Call(k) <=> k \in DownKeys /\ Running = {}
                              /\ Running' = {k} /\ DownKeys' = DownKeys
       /\ Promise!Return(k) <=> k \in Running /\ Running' = {}
                                /\ DownKeys' = DownKeys \ {k}
  /\ Promise!Next <=> \E k \in Keys : \/ Promise!Press(k)
                                      \/ Promise!Call(k)
                                      \/ Promise!Return(k)
  /\ UNCHANGED Promise!vars <=> DownKeys' = DownKeys /\ Running' = Running
BY DEF Promise!Init, Promise!Press, Promise!Call, Promise!Return, Promise!Next,
       Promise!vars, DownKeys, Running, Pressing

(* A visit that leaves the structure b changes the set of pressed keys by  *)
(* the key visited, if at all.                                             *)
LEMMA DownAfterVisit ==
  ASSUME Inv, NEW b, btn' = [btn EXCEPT ![at] = b]
  PROVE  DownKeys' = IF b.state \in Pressing THEN DownKeys \cup {at}
                                             ELSE DownKeys \ {at}
BY Visited DEF DownKeys, Inv, TypeOK

(* Each accepted press is clicked once before the key can be pressed       *)
(* again, and callbacks never overlap (agile_button.c:331-341, under       *)
(* lock_mtx).                                                              *)
THEOREM ImplementsPromise == Spec => OneClickPerPress
  <1>1. Init => Promise!Init
    BY Mapped DEF Init, Fresh, DownKeys, Pressing, Running
  <1>2. Inv /\ [Next]_vars => [Promise!Next]_(Promise!vars)
    <2> SUFFICES ASSUME Inv, [Next]_vars
                 PROVE  Promise!Next \/ UNCHANGED Promise!vars
      OBVIOUS
    <2>0. at \in Keys /\ btn[at] \in Button /\ btn \in [Keys -> Button]
      BY Visited DEF Inv, TypeOK
    <2>k. PICK k \in Keys : k = at
      BY <2>0
    <2>1. CASE UNCHANGED vars
      BY <2>1, Mapped DEF vars, thread, DownKeys, Running
    <2>2. CASE Tick \/ Wake \/ HoldSeen \/ \E closed \in BOOLEAN : Sample(closed)
      <3>1. btn' = btn /\ Running' = Running
        BY <2>2 DEF Tick, Wake, HoldSeen, Sample, Sampled, Running
      <3> QED BY <3>1, Mapped DEF DownKeys
    <2>3. ASSUME NEW i \in Keys, Start(i)
          PROVE  Promise!Next \/ UNCHANGED Promise!vars
      <3>1. Running' = Running
        BY <2>3 DEF Start, thread, Running
      <3>2. btn[i].state = "NONE_PRESS"
        BY <2>3 DEF Start, Inv, KeyInv
      <3>3. \A j \in Keys : btn'[j].state = btn[j].state
        BY <2>0, <2>3, <3>2 DEF Start, Fresh
      <3>4. DownKeys' = DownKeys
        BY <3>3 DEF DownKeys
      <3> QED BY <3>1, <3>4, Mapped
    <2>4. CASE PressSeen \/ IdleSeen \/ Bounced
      <3>1. PICK b : btn' = [btn EXCEPT ![at] = b] /\ b.state \notin Pressing
                     /\ btn[at].state \notin Pressing
        BY <2>0, <2>4 DEF PressSeen, IdleSeen, Bounced, Sampled, Set, Button, Pressing
      <3>2. DownKeys' = DownKeys
        BY <3>1, DownAfterVisit DEF DownKeys
      <3>3. Running' = Running
        BY <2>4 DEF PressSeen, IdleSeen, Bounced, Sampled, MoveOn, Running
      <3> QED BY <3>2, <3>3, Mapped
    <2>5. CASE PressDown \/ HoldTimed \/ Released
      <3>1. btn[at].state \in Pressing
        BY <2>5 DEF PressDown, HoldTimed, Released, Sampled, Pressing, Inv, ThreadInv
      <3>2. PICK b : btn' = [btn EXCEPT ![at] = b] /\ b.state \in Pressing
        BY <2>0, <2>5, <3>1 DEF PressDown, HoldTimed, Released, Set, Button, Pressing
      <3>3. DownKeys' = DownKeys
        BY <2>0, <3>1, <3>2, DownAfterVisit DEF DownKeys
      <3>4. Running' = Running
        BY <2>5 DEF PressDown, HoldTimed, Released, Sampled, MoveOn, Running
      <3> QED BY <3>3, <3>4, Mapped
    <2>6. CASE PressChecked
      <3>1. btn[at].state = "CHECK_PRESS"
        BY <2>6 DEF PressChecked, Sampled
      <3>2. at \notin DownKeys
        BY <3>1 DEF DownKeys, Pressing
      <3>3. PICK b : btn' = [btn EXCEPT ![at] = b]
        BY <2>6 DEF PressChecked, Set
      <3>4. DownKeys' = DownKeys \cup {at} \/ DownKeys' = DownKeys
        BY <3>2, <3>3, DownAfterVisit
      <3>5. Running' = Running
        BY <2>6 DEF PressChecked, Sampled, MoveOn, Running
      <3>6. Promise!Press(k) \/ UNCHANGED Promise!vars
        BY <2>k, <3>2, <3>4, <3>5, Mapped
      <3> QED BY <3>6, Mapped
    <2>7. CASE PressUp
      <3>1. /\ btn[at].state = "PRESS_UP" /\ Running = {} /\ Running' = {at}
        BY <2>7 DEF PressUp, Running
      <3> DEFINE b == [btn[at] EXCEPT !.event = "CLICK"]
      <3>2. btn' = [btn EXCEPT ![at] = b] /\ b.state = "PRESS_UP"
        BY <2>0, <2>7, <3>1 DEF PressUp, Set, Button
      <3> HIDE DEF b
      <3>3. at \in DownKeys /\ DownKeys' = DownKeys
        BY <2>0, <3>1, <3>2, DownAfterVisit DEF DownKeys, Pressing
      <3>4. Promise!Call(k)
        BY <2>k, <3>1, <3>3, Mapped
      <3> QED BY <3>4, Mapped
    <2>8. CASE Clicked
      <3>1. at \in Running /\ Running' = {}
        BY <2>8 DEF Clicked, MoveOn, Running
      <3> DEFINE b == [btn[at] EXCEPT !.tick_timeout = Plus(tick, TwoInterval),
                                      !.state = "NONE_PRESS"]
      <3>2. btn' = [btn EXCEPT ![at] = b] /\ b.state = "NONE_PRESS"
        BY <2>0, <2>8 DEF Clicked, Set, Button
      <3> HIDE DEF b
      <3>3. DownKeys' = DownKeys \ {at}
        BY <3>2, DownAfterVisit DEF Pressing
      <3>4. Promise!Return(k)
        BY <2>k, <3>1, <3>3, Mapped
      <3> QED BY <3>4, Mapped
    <2> QED BY <2>1, <2>2, <2>3, <2>4, <2>5, <2>6, <2>7, <2>8 DEF Next, Visit
  <1> QED BY <1>1, <1>2, InvHolds, PTL DEF Spec, OneClickPerPress, Promise!Spec
=============================================================================
