----------------------------- MODULE Menu_proof -----------------------------
(***************************************************************************)
(* For every choice of limits, entries and pages: the types, and that no   *)
(* interleaving of clicks and drawing leaves remnants on the screen except *)
(* through ui_modify_fresh.  The invariant says what the display thread    *)
(* relies on at each of its points, until a click makes it void by asking  *)
(* for a fresh screen.  And, while the display thread runs, that the       *)
(* screen catches up when the clicks cease.                                *)
(***************************************************************************)
EXTENDS Menu, TLAPS

ListOnTop == level = 1 /\ Selected = "change_param" /\ view.what = "change_param"

ViewIsCurrent ==
  \/ level = 0 /\ view.what = "titles"
  \/ /\ level = 1 /\ view.what = Selected
     /\ view.what = "show_param" => view.page = param_page

ScreenInv ==
  /\ pc \in {"cleared", "emptied"} => screen = "blank"
  /\ refresh = 0 /\ ~lost => screen # "mixed"
  /\ pc = "call" /\ ~lost => level = 1
  /\ pc \in {"modify", "emptied"} /\ ~lost => ListOnTop
  /\ pc \in {"draw", "drawn"} /\ ~lost /\ refresh = 0 => ViewIsCurrent

(* No screen of the program is called "titles" in the list of titles.      *)
LEMMA TitleType == \A i \in Titles : Title[i] \in Views \ {"titles"}
BY DEF Titles, Title, Views, UI_TITLE_LEN

(* __ValuePlus from a value between min and max by one stays between them. *)
LEMMA ValuePlusBetween ==
  ASSUME NEW lo \in Nat, NEW hi \in Nat, lo <= hi, NEW v \in Int, NEW d \in Int
  PROVE  /\ ValuePlus(v, d, lo, hi) \in lo .. hi
         /\ ValuePlus(v, d, lo, hi) \in Nat
BY DEF ValuePlus

(* A setting is stored in its type's range.                                *)
LEMMA TunedInRange ==
  ASSUME TypeOK, NEW s \in Settings, NEW d \in {-1, 1}
  PROVE  Tuned(s, d) \in Nat /\ Tuned(s, d) < Limit[s].range
<1> DEFINE v == ValuePlus(val[s], d * Limit[s].step, Limit[s].min, Limit[s].max)
<1>1. /\ Limit[s].range \in Nat \ {0} /\ Limit[s].min \in Nat
      /\ Limit[s].max \in Nat /\ Limit[s].step \in Nat
  BY LimitAssumption
<1>2. v \in Int
  <2>1. val[s] \in Int /\ d * Limit[s].step \in Int
    BY <1>1 DEF TypeOK
  <2> QED  BY <1>1, <2>1 DEF ValuePlus
<1>3. Tuned(s, d) = v % Limit[s].range
  BY DEF Tuned
<1> HIDE DEF v
<1> QED  BY <1>1, <1>2, <1>3

LEMMA Bounds ==
  /\ Titles = 0 .. 9 /\ 0 <= UI_TITLE_LEN - 1 /\ UI_TITLE_LEN - 1 \in Nat
  /\ Pages = 0 .. UI_PARAM_MAX_PAGE - 1 /\ UI_PARAM_MAX_PAGE - 1 \in Nat
  /\ UI_MODIFY_LEN - 1 \in Nat
BY PageAssumption, ListAssumption DEF Titles, UI_TITLE_LEN, Pages

LEMMA InitInv == Init => TypeOK /\ ScreenInv
<1> SUFFICES ASSUME Init PROVE TypeOK /\ ScreenInv
  OBVIOUS
<1>1. /\ val \in [Settings -> Nat] /\ \A s \in Settings : val[s] < Limit[s].range
  BY LimitAssumption DEF Init
<1>2. /\ entry \in [DOMAIN Entry -> Nat]
      /\ \A e \in DOMAIN Entry : entry[e] <= Entry[e].init
  BY EntryAssumption DEF Init
<1>3. view \in [what : Views, page : Pages]
  BY Bounds DEF Init, Views
<1> QED  BY <1>1, <1>2, <1>3, Bounds DEF Init, TypeOK, ScreenInv
-----------------------------------------------------------------------------
(* What a click does to the menu, whichever key it is.                     *)
MenuOK ==
  /\ level \in {0, 1} /\ cursor0 \in Titles
  /\ cursor1 \in 0 .. UI_MODIFY_LEN - 1
  /\ param_page \in Pages
  /\ val \in [Settings -> Nat] /\ \A s \in Settings : val[s] < Limit[s].range
  /\ entry \in [DOMAIN Entry -> Nat]
  /\ \A e \in DOMAIN Entry : entry[e] <= Entry[e].end \/ entry[e] <= Entry[e].init
  /\ btn \in {"idle", "camera"}

LEMMA EntryChanged ==
  ASSUME TypeOK, NEW e \in DOMAIN Entry, NEW v \in Nat,
         v <= Entry[e].end \/ v <= Entry[e].init,
         entry' = [entry EXCEPT ![e] = v]
  PROVE  /\ entry' \in [DOMAIN Entry -> Nat]
         /\ \A f \in DOMAIN Entry : entry'[f] <= Entry[f].end \/ entry'[f] <= Entry[f].init
BY DEF TypeOK

LEMMA ValChanged ==
  ASSUME TypeOK, NEW s \in Settings, NEW d \in {-1, 1},
         val' = [val EXCEPT ![s] = Tuned(s, d)]
  PROVE  /\ val' \in [Settings -> Nat]
         /\ \A t \in Settings : val'[t] < Limit[t].range
<1>1. Tuned(s, d) \in Nat /\ Tuned(s, d) < Limit[s].range
  BY TunedInRange
<1> HIDE DEF Tuned
<1> QED  BY <1>1 DEF TypeOK

LEMMA ArrowType ==
  ASSUME TypeOK, NEW d \in {-1, 1}, Arrow(d)
  PROVE  MenuOK'
<1>1. CASE MoveCursor(d)
  <2>1. cursor0' \in Titles
    <3>1. cursor0' = ValuePlus(cursor0, d, 0, UI_TITLE_LEN - 1) /\ cursor0 \in Int /\ d \in Int
      BY <1>1, Bounds DEF MoveCursor, TypeOK
    <3>2. ValuePlus(cursor0, d, 0, UI_TITLE_LEN - 1) \in 0 .. UI_TITLE_LEN - 1
      BY <3>1, Bounds, ValuePlusBetween
    <3> QED  BY <3>1, <3>2 DEF Titles
  <2> QED  BY <1>1, <2>1 DEF MoveCursor, TypeOK, MenuOK
<1>2. CASE NextPicture(d)
  <2> DEFINE v == ValuePlus(entry["disp_pic_type"], d, 0, 2)
  <2>1. v \in Nat /\ v \in 0 .. 2
    <3>1. entry["disp_pic_type"] \in Int
      BY EntryAssumption DEF TypeOK
    <3> QED  BY <3>1 DEF ValuePlus
  <2>2. entry' = [entry EXCEPT !["disp_pic_type"] = v]
    BY <1>2 DEF NextPicture
  <2>3. v <= Entry["disp_pic_type"].end
    BY <2>1, EntryAssumption
  <2> HIDE DEF v
  <2>4. /\ entry' \in [DOMAIN Entry -> Nat]
        /\ \A f \in DOMAIN Entry : entry'[f] <= Entry[f].end \/ entry'[f] <= Entry[f].init
    BY <2>1, <2>2, <2>3, EntryChanged, EntryAssumption
  <2> QED  BY <1>2, <2>4 DEF NextPicture, TypeOK, MenuOK
<1>3. CASE TurnPage(d)
  <2>1. param_page' \in Pages
    <3>1. param_page' = ValuePlus(param_page, d, 0, UI_PARAM_MAX_PAGE - 1) /\ param_page \in Int
      BY <1>3, Bounds DEF TurnPage, TypeOK
    <3> QED  BY <3>1, Bounds, ValuePlusBetween
  <2> QED  BY <1>3, <2>1 DEF TurnPage, TypeOK, MenuOK
<1>4. CASE MoveEntry(d)
  <2>1. cursor1' \in 0 .. UI_MODIFY_LEN - 1
    <3> DEFINE last == UI_MODIFY_LEN - 1
    <3>1. cursor1' = ValuePlus(cursor1, d, 0, last) /\ cursor1 \in Int
      BY <1>4, Bounds DEF MoveEntry, TypeOK
    <3>2. last \in Nat /\ 0 <= last
      BY Bounds
    <3> HIDE DEF last
    <3>3. cursor1' \in 0 .. last
      BY <3>1, <3>2, ValuePlusBetween
    <3> QED  BY <3>3 DEF last
  <2> QED  BY <1>4, <2>1 DEF MoveEntry, TypeOK, MenuOK
<1>5. CASE MoveLine(d)
  <2>1. val' = [val EXCEPT !["line"] = Tuned("line", -d)] /\ -d \in {-1, 1} /\ "line" \in Settings
    BY <1>5 DEF MoveLine, Settings
  <2>2. /\ val' \in [Settings -> Nat]
        /\ \A t \in Settings : val'[t] < Limit[t].range
    BY <2>1, ValChanged
  <2> QED  BY <1>5, <2>2 DEF MoveLine, TypeOK, MenuOK
<1>6. CASE UNCHANGED <<menu, btn>>
  BY <1>6 DEF menu, TypeOK, MenuOK
<1> QED  BY <1>1, <1>2, <1>3, <1>4, <1>5, <1>6 DEF Arrow

LEMMA PlusMinusType ==
  ASSUME TypeOK, NEW d \in {-1, 1}, PlusMinus(d)
  PROVE  MenuOK'
<1>1. CASE Modify(d)
  <2> DEFINE e == ModifyList[cursor1]
             v == IF d = 1 THEN P_1(entry[e], Entry[e].end)
                           ELSE M_1(entry[e], Entry[e].end)
  <2>1. e \in DOMAIN Entry
    BY ListAssumption DEF TypeOK
  <2>2. entry' = [entry EXCEPT ![e] = v]
    BY <1>1 DEF Modify
  <2>3. /\ entry[e] \in Nat /\ Entry[e].end \in Nat /\ Entry[e].init \in Nat
        /\ entry[e] <= Entry[e].end \/ entry[e] <= Entry[e].init
    BY <2>1, EntryAssumption DEF TypeOK
  <2> HIDE DEF e
  <2>4. v \in Nat /\ (v <= Entry[e].end \/ v <= Entry[e].init)
    BY <2>3 DEF P_1, M_1
  <2> HIDE DEF v
  <2>5. /\ entry' \in [DOMAIN Entry -> Nat]
        /\ \A f \in DOMAIN Entry : entry'[f] <= Entry[f].end \/ entry'[f] <= Entry[f].init
    BY <2>1, <2>2, <2>4, EntryChanged
  <2> QED  BY <1>1, <2>5 DEF Modify, TypeOK, MenuOK
<1>2. CASE TweakThreshold(d)
  <2>1. val' = [val EXCEPT !["threshold"] = Tuned("threshold", d)] /\ "threshold" \in Settings
    BY <1>2 DEF TweakThreshold, Settings
  <2>2. /\ val' \in [Settings -> Nat]
        /\ \A t \in Settings : val'[t] < Limit[t].range
    BY <2>1, ValChanged
  <2> QED  BY <1>2, <2>2 DEF TweakThreshold, TypeOK, MenuOK
<1>3. ASSUME NEW s \in {"bright", "exp"}, Configure(s, d)
      PROVE  MenuOK'
  <2>1. val' = [val EXCEPT ![s] = Tuned(s, d)] /\ s \in Settings
    BY <1>3 DEF Configure, Settings
  <2>2. /\ val' \in [Settings -> Nat]
        /\ \A t \in Settings : val'[t] < Limit[t].range
    BY <2>1, ValChanged
  <2> QED  BY <1>3, <2>2 DEF Configure, TypeOK, MenuOK
<1>4. CASE UNCHANGED <<menu, btn>>
  BY <1>4 DEF menu, TypeOK, MenuOK
<1> QED  BY <1>1, <1>2, <1>3, <1>4 DEF PlusMinus

LEMMA ClickType ==
  ASSUME TypeOK, NEW key \in Keys, Click(key)
  PROVE  TypeOK'
<1>1. MenuOK'
  <2>1. Handle(key)
    BY DEF Click
  <2>2. CASE \E d \in {-1, 1} : Arrow(d)
    BY <2>2, ArrowType
  <2>3. CASE \E d \in {-1, 1} : PlusMinus(d)
    BY <2>3, PlusMinusType
  <2>4. CASE Start
    BY <2>4 DEF Start, menu, TypeOK, MenuOK
  <2>5. CASE Reset
    <3>1. /\ entry' \in [DOMAIN Entry -> Nat]
          /\ \A f \in DOMAIN Entry : entry'[f] <= Entry[f].end \/ entry'[f] <= Entry[f].init
      <4>1. 0 <= Entry["current_turns"].init /\ "current_turns" \in DOMAIN Entry
        BY EntryAssumption
      <4>2. entry' = [entry EXCEPT !["current_turns"] = 0]
        BY <2>5 DEF Reset
      <4> QED  BY <4>1, <4>2, EntryChanged
    <3> QED  BY <2>5, <3>1 DEF Reset, TypeOK, MenuOK
  <2>6. CASE Enter
    BY <2>6 DEF Enter, TypeOK, MenuOK
  <2> QED  BY <2>1, <2>2, <2>3, <2>4, <2>5, <2>6 DEF Handle
<1>2. /\ refresh' \in {0, 1} /\ lost' \in BOOLEAN
      /\ screen' \in {"blank", "current", "mixed"}
      /\ UNCHANGED <<pc, view>>
  BY DEF Click, display, TypeOK
<1> QED  BY <1>1, <1>2 DEF TypeOK, MenuOK

LEMMA DisplayType ==
  ASSUME TypeOK, Display
  PROVE  TypeOK'
<1>1. CASE Fresh
  BY <1>1 DEF Fresh, TypeOK, menu
<1>2. CASE Refreshed
  BY <1>2 DEF Refreshed, TypeOK, menu
<1>3. CASE TestLevel
  <2>1. view' \in [what : Views, page : Pages] /\ pc' \in {"draw", "call"}
    BY <1>3, Bounds DEF TestLevel, Show, TypeOK, Views
  <2> QED  BY <1>3, <2>1 DEF TestLevel, TypeOK, menu
<1>4. CASE CallSelected
  <2>1. Selected \in Views
    BY TitleType DEF Selected, TypeOK
  <2>2. view' \in [what : Views, page : Pages]
    BY <1>4, <2>1 DEF CallSelected, Show, TypeOK
  <2> QED  BY <1>4, <2>2 DEF CallSelected, TypeOK, menu
<1>5. CASE ModifyFresh
  BY <1>5 DEF ModifyFresh, TypeOK, menu
<1>6. CASE ModifyRefreshed
  BY <1>6 DEF ModifyRefreshed, TypeOK, menu
<1>7. CASE DrawRow
  BY <1>7 DEF DrawRow, TypeOK, menu
<1>8. CASE Done
  BY <1>8 DEF Done, TypeOK, menu
<1> QED  BY <1>1, <1>2, <1>3, <1>4, <1>5, <1>6, <1>7, <1>8 DEF Display

LEMMA TypePreserved == TypeOK /\ [Next]_vars => TypeOK'
<1> SUFFICES ASSUME TypeOK, [Next]_vars PROVE TypeOK'
  OBVIOUS
<1>1. CASE CameraReady
  BY <1>1 DEF CameraReady, TypeOK, menu, display
<1>2. CASE UNCHANGED vars
  BY <1>2 DEF vars, menu, display, TypeOK
<1> QED  BY <1>1, <1>2, ClickType, DisplayType DEF Next
-----------------------------------------------------------------------------
(* What is drawn is what is selected while the view is the current one.    *)
LEMMA DrawsCurrent ==
  ASSUME TypeOK, ViewIsCurrent
  PROVE  <<view.what, Detail(view.what, view.page)>> = Current
<1>1. CASE level = 0 /\ view.what = "titles"
  BY <1>1 DEF Current, Detail
<1>2. CASE /\ level = 1 /\ view.what = Selected
           /\ view.what = "show_param" => view.page = param_page
  <2>1. Current = <<view.what, Detail(view.what, param_page)>>
    BY <1>2 DEF Current
  <2>2. Detail(view.what, view.page) = Detail(view.what, param_page)
    BY <1>2 DEF Detail
  <2> QED  BY <2>1, <2>2
<1> QED  BY <1>1, <1>2 DEF ViewIsCurrent

LEMMA ClickScreen ==
  ASSUME TypeOK, ScreenInv, NEW key \in Keys, Click(key)
  PROVE  ScreenInv'
<1>1. /\ refresh' = 1 /\ pc' = pc /\ view' = view
      /\ pc \in {"call", "modify", "emptied"} => lost'
  BY DEF Click, display
<1>2. screen = "blank" => screen' = "blank"
  BY DEF Click
<1> QED  BY <1>1, <1>2 DEF ScreenInv

LEMMA DisplayScreen ==
  ASSUME TypeOK, ScreenInv, Display
  PROVE  ScreenInv'
<1>1. CASE Fresh
  BY <1>1 DEF Fresh, ScreenInv, menu
<1>2. CASE Refreshed
  BY <1>2 DEF Refreshed, ScreenInv, menu
<1>3. CASE TestLevel
  BY <1>3 DEF TestLevel, Show, ScreenInv, menu, TypeOK, ViewIsCurrent
<1>4. CASE CallSelected
  <2>1. Selected' = Selected
    BY <1>4 DEF CallSelected, menu, Selected
  <2> QED  BY <1>4, <2>1 DEF CallSelected, Show, ScreenInv, menu, TypeOK, ViewIsCurrent, ListOnTop
<1>5. CASE ModifyFresh
  <2>1. UNCHANGED <<level, view, param_page>> /\ Selected' = Selected
    BY <1>5 DEF ModifyFresh, menu, Selected
  <2> QED  BY <1>5, <2>1 DEF ModifyFresh, ScreenInv, ListOnTop, ViewIsCurrent
<1>6. CASE ModifyRefreshed
  <2>1. UNCHANGED <<level, view, param_page>> /\ Selected' = Selected
    BY <1>6 DEF ModifyRefreshed, menu, Selected
  <2> QED  BY <1>6, <2>1 DEF ModifyRefreshed, ScreenInv, ListOnTop, ViewIsCurrent
<1>7. CASE DrawRow
  <2>1. UNCHANGED <<level, view, param_page, lost, refresh>> /\ Selected' = Selected
    BY <1>7 DEF DrawRow, menu, Selected
  <2>2. ViewIsCurrent => screen' # "mixed" \/ screen = "mixed"
    BY <1>7, DrawsCurrent DEF DrawRow
  <2> QED  BY <1>7, <2>1, <2>2 DEF DrawRow, ScreenInv, ViewIsCurrent
<1>8. CASE Done
  BY <1>8 DEF Done, ScreenInv, menu
<1> QED  BY <1>1, <1>2, <1>3, <1>4, <1>5, <1>6, <1>7, <1>8 DEF Display

LEMMA ScreenPreserved == TypeOK /\ ScreenInv /\ [Next]_vars => ScreenInv'
<1> SUFFICES ASSUME TypeOK, ScreenInv, [Next]_vars PROVE ScreenInv'
  OBVIOUS
<1>1. CASE CameraReady
  BY <1>1 DEF CameraReady, ScreenInv, menu, display, Selected, ListOnTop, ViewIsCurrent
<1>2. CASE UNCHANGED vars
  BY <1>2 DEF vars, menu, display, ScreenInv, Selected, ListOnTop, ViewIsCurrent
<1> QED  BY <1>1, <1>2, ClickScreen, DisplayScreen DEF Next

THEOREM InvHolds == Spec => [](TypeOK /\ ScreenInv)
BY InitInv, TypePreserved, ScreenPreserved, PTL DEF Spec

(* Types, for every choice of limits, entries and pages.                   *)
THEOREM TypeCorrect == Spec => []TypeOK
BY InvHolds, PTL

(* No interleaving of clicks and drawing leaves remnants on the screen,    *)
(* except through ui_modify_fresh.                                         *)
THEOREM NothingRemains == Spec => []NoRemnants
<1>1. ScreenInv => NoRemnants
  BY DEF ScreenInv, NoRemnants
<1> QED  BY <1>1, InvHolds, PTL
-----------------------------------------------------------------------------
(* When nobody clicks any more: the display thread comes round, serves the *)
(* last request, and what it draws from then on is what is selected.       *)

Clicked == \E key \in Keys : Click(key)
Quiet == CameraReady \/ Display

(* A function that runs once is never entered as a screen.                 *)
NotOnce == level = 1 => Selected # "once"

LEMMA NeverOnce == Spec => []NotOnce
<1>1. Init => NotOnce
  BY DEF Init, NotOnce
<1>2. ASSUME TypeOK, NotOnce, [Next]_vars
      PROVE  NotOnce'
  <2>1. CASE UNCHANGED <<level, cursor0>>
    BY <1>2, <2>1 DEF NotOnce, Selected
  <2>2. ASSUME NEW key \in Keys, Click(key)
        PROVE  NotOnce'
    <3>1. Handle(key)
      BY <2>2 DEF Click
    <3>2. UNCHANGED <<level, cursor0>> \/ Enter \/ level' = 0
      BY <3>1 DEF Handle, Arrow, MoveCursor, NextPicture, TurnPage, MoveEntry,
                  MoveLine, PlusMinus, Modify, TweakThreshold, Configure,
                  Start, Reset, menu
    <3>3. CASE Enter
      BY <3>3 DEF Enter, FuncType, NotOnce, Selected
    <3> QED  BY <2>1, <3>2, <3>3 DEF NotOnce
  <2>3. CASE Quiet \/ UNCHANGED vars
    BY <2>1, <2>3 DEF Quiet, CameraReady, Display, Fresh, Refreshed, TestLevel,
         CallSelected, ModifyFresh, ModifyRefreshed, DrawRow, Done, menu, vars
  <2> QED  BY <1>2, <2>2, <2>3 DEF Next, Quiet
<1> QED  BY <1>1, <1>2, TypeCorrect, PTL DEF Spec

(* The points of a pass, in the order they are passed.                     *)
PassOn(now, next) ==
  CASE now = "idle" -> next \in {"cleared", "level"}
    [] now = "cleared" -> next = "level"
    [] now = "level" -> next \in {"call", "draw"}
    [] now = "call" -> next \in {"modify", "draw"}
    [] now = "modify" -> next \in {"emptied", "draw"}
    [] now = "emptied" -> next = "draw"
    [] now = "draw" -> next \in {"drawn", "idle"}
    [] now = "drawn" -> next = "idle"

LEMMA DisplayPasses ==
  ASSUME TypeOK, Display
  PROVE  PassOn(pc, pc') \/ (pc = "drawn" /\ pc' = "drawn")
BY DEF TypeOK, Display, Fresh, Refreshed, TestLevel, CallSelected, ModifyFresh,
       ModifyRefreshed, DrawRow, Done, PassOn

LEMMA OthersWait ==
  ASSUME TypeOK, [Next]_vars
  PROVE  pc' = pc \/ PassOn(pc, pc')
<1>1. CASE Clicked \/ CameraReady \/ UNCHANGED vars
  BY <1>1 DEF Clicked, Click, CameraReady, display, vars
<1> QED  BY <1>1, DisplayPasses DEF Next, Clicked

(* The display thread passes ui_title_fresh again and again.               *)
LEMMA ComesRound == Spec /\ DisplayRuns => []<>(pc = "idle")
<1>1. TypeOK /\ [Next]_vars =>
        /\ pc = "cleared" => (pc = "cleared")' \/ (pc = "level")'
        /\ pc = "level" => (pc = "level")' \/ (pc = "call")' \/ (pc = "draw")'
        /\ pc = "call" => (pc = "call")' \/ (pc = "modify")' \/ (pc = "draw")'
        /\ pc = "modify" => (pc = "modify")' \/ (pc = "emptied")' \/ (pc = "draw")'
        /\ pc = "emptied" => (pc = "emptied")' \/ (pc = "draw")'
        /\ pc = "draw" => (pc = "draw")' \/ (pc = "drawn")' \/ (pc = "idle")'
        /\ pc = "drawn" => (pc = "drawn")' \/ (pc = "idle")'
  BY OthersWait DEF PassOn
<1>2. TypeOK /\ <<Display>>_vars =>
        /\ pc = "cleared" => ~(pc = "cleared")'
        /\ pc = "level" => ~(pc = "level")'
        /\ pc = "call" => ~(pc = "call")'
        /\ pc = "modify" => ~(pc = "modify")'
        /\ pc = "emptied" => ~(pc = "emptied")'
        /\ pc = "draw" => ~(pc = "draw")'
  BY DisplayPasses DEF PassOn
<1>3. <<Done>>_vars => (pc = "idle")'
  BY DEF Done
<1>4. pc = "drawn" => MayFinish
  BY DEF MayFinish
<1>5. Spec /\ DisplayRuns => (pc = "drawn" ~> pc = "idle")
  BY <1>1, <1>3, <1>4, TypeCorrect, PTL DEF Spec, DisplayRuns
<1>6. Spec /\ DisplayRuns => (pc = "draw" ~> pc = "idle")
  BY <1>1, <1>2, <1>5, TypeCorrect, PTL DEF Spec, DisplayRuns
<1>7. Spec /\ DisplayRuns => (pc = "emptied" \/ pc = "modify" ~> pc = "idle")
  BY <1>1, <1>2, <1>6, TypeCorrect, PTL DEF Spec, DisplayRuns
<1>8. Spec /\ DisplayRuns => (pc = "call" \/ pc = "level" ~> pc = "idle")
  BY <1>1, <1>2, <1>6, <1>7, TypeCorrect, PTL DEF Spec, DisplayRuns
<1>9. Spec /\ DisplayRuns => (pc = "cleared" ~> pc = "idle")
  BY <1>1, <1>2, <1>8, TypeCorrect, PTL DEF Spec, DisplayRuns
<1>10. TypeOK => \/ pc = "idle" \/ pc = "cleared" \/ pc = "level" \/ pc = "call"
                 \/ pc = "modify" \/ pc = "emptied" \/ pc = "draw" \/ pc = "drawn"
  BY DEF TypeOK
<1> QED  BY <1>5, <1>6, <1>7, <1>8, <1>9, <1>10, TypeCorrect, PTL

(* And so it comes to drawing again and again.                             *)
LEMMA ComesToDraw == Spec /\ DisplayRuns => []<>(pc = "draw")
<1>1. TypeOK /\ [Next]_vars =>
        /\ pc = "idle" => (pc = "idle")' \/ (pc = "cleared")' \/ (pc = "level")'
        /\ pc = "cleared" => (pc = "cleared")' \/ (pc = "level")'
        /\ pc = "level" => (pc = "level")' \/ (pc = "call")' \/ (pc = "draw")'
        /\ pc = "call" => (pc = "call")' \/ (pc = "modify")' \/ (pc = "draw")'
        /\ pc = "modify" => (pc = "modify")' \/ (pc = "emptied")' \/ (pc = "draw")'
        /\ pc = "emptied" => (pc = "emptied")' \/ (pc = "draw")'
  BY OthersWait DEF PassOn
<1>2. TypeOK /\ <<Display>>_vars =>
        /\ pc = "idle" => ~(pc = "idle")'
        /\ pc = "cleared" => ~(pc = "cleared")'
        /\ pc = "level" => ~(pc = "level")'
        /\ pc = "call" => ~(pc = "call")'
        /\ pc = "modify" => ~(pc = "modify")'
        /\ pc = "emptied" => ~(pc = "emptied")'
  BY DisplayPasses DEF PassOn
<1>3. Spec /\ DisplayRuns => (pc = "emptied" \/ pc = "modify" ~> pc = "draw")
  BY <1>1, <1>2, TypeCorrect, PTL DEF Spec, DisplayRuns
<1>4. Spec /\ DisplayRuns => (pc = "call" \/ pc = "level" ~> pc = "draw")
  BY <1>1, <1>2, <1>3, TypeCorrect, PTL DEF Spec, DisplayRuns
<1>5. Spec /\ DisplayRuns => (pc = "idle" \/ pc = "cleared" ~> pc = "draw")
  BY <1>1, <1>2, <1>4, TypeCorrect, PTL DEF Spec, DisplayRuns
<1> QED  BY <1>5, ComesRound, PTL

(* A request is served: only a click makes a new one.                      *)
LEMMA RequestServed ==
  Spec /\ DisplayRuns /\ <>[][Quiet]_vars => <>[](refresh = 0)
<1>1. TypeOK /\ [Quiet]_vars =>
        /\ refresh = 0 => (refresh = 0)'
        /\ pc = "idle" /\ refresh = 1
             => (pc = "idle" /\ refresh = 1)' \/ (pc = "cleared")'
        /\ pc = "cleared" => (pc = "cleared")' \/ (refresh = 0)'
  BY DEF TypeOK, Quiet, CameraReady, Display, Fresh, Refreshed, TestLevel,
         CallSelected, ModifyFresh, ModifyRefreshed, DrawRow, Done, menu,
         display, vars
<1>2. TypeOK /\ <<Display>>_vars =>
        /\ pc = "idle" => ~(pc = "idle")'
        /\ pc = "cleared" => ~(pc = "cleared")'
  BY DisplayPasses DEF PassOn
<1>3. TypeOK => refresh = 0 \/ refresh = 1
  BY DEF TypeOK
<1> QED  BY <1>1, <1>2, <1>3, TypeCorrect, ComesRound, PTL DEF DisplayRuns

(* Once it is served, either a click is lost for good, or what is drawn    *)
(* next is what is selected, and nothing else is drawn over it.            *)
THEOREM ScreenShowsSelection == Spec /\ DisplayRuns => ScreenCatchesUp
<1> DEFINE Inv == TypeOK /\ ScreenInv /\ NotOnce
<1>1. Inv /\ [Quiet]_vars /\ refresh = 0 =>
        /\ lost => lost'
        /\ ~lost => ~lost'
  BY DEF TypeOK, Quiet, CameraReady, Display, Fresh, Refreshed, TestLevel,
         CallSelected, ModifyFresh, ModifyRefreshed, DrawRow, Done, vars
<1>2. ASSUME Inv, [Quiet]_vars, refresh = 0, ~lost, screen = "current"
      PROVE  screen' = "current"
  <2>1. CASE DrawRow
    <3>1. <<view.what, Detail(view.what, view.page)>> = Current
      BY <1>2, <2>1, DrawsCurrent DEF ScreenInv, DrawRow
    <3> QED  BY <1>2, <2>1, <3>1 DEF DrawRow
  <2> QED
    BY <1>2, <2>1 DEF ScreenInv, Quiet, CameraReady, Display, Fresh, Refreshed,
         TestLevel, CallSelected, ModifyFresh, ModifyRefreshed, Done, vars
<1>3. ASSUME Inv, <<Display>>_vars, refresh = 0, ~lost, pc = "draw"
      PROVE  screen' = "current"
  <2>1. ViewIsCurrent /\ screen # "mixed"
    BY <1>3 DEF ScreenInv
  <2>2. view.what # "once"
    BY <1>3, <2>1 DEF ViewIsCurrent, NotOnce
  <2>3. DrawRow
    BY <1>3, <2>2 DEF Display, Fresh, Refreshed, TestLevel, CallSelected,
         ModifyFresh, ModifyRefreshed, Done
  <2>4. <<view.what, Detail(view.what, view.page)>> = Current
    BY <1>3, <2>1, DrawsCurrent
  <2> QED  BY <1>3, <2>1, <2>3, <2>4 DEF DrawRow, TypeOK
<1>4. Inv /\ [Quiet]_vars /\ pc = "draw" /\ ~<<Display>>_vars => (pc = "draw")'
  BY DEF Quiet, CameraReady, display, vars
<1>5. [Next]_vars /\ ~<<\E key \in Keys : Click(key)>>_vars => [Quiet]_vars
  BY DEF Next, Quiet
<1>6. Spec => []Inv
  BY InvHolds, NeverOnce, PTL
<1>7. Inv /\ [Quiet]_vars /\ refresh = 0 /\ ~lost /\ screen = "current"
        => (screen = "current")'
  BY <1>2
<1>8. Inv /\ <<Display>>_vars /\ refresh = 0 /\ ~lost /\ pc = "draw"
        => (screen = "current")'
  BY <1>3
<1> HIDE DEF Inv
<1>9. Spec /\ DisplayRuns /\ <>[][Quiet]_vars => <>[](lost \/ screen = "current")
  BY <1>1, <1>4, <1>6, <1>7, <1>8, ComesToDraw, RequestServed, PTL DEF DisplayRuns
<1> QED  BY <1>5, <1>9, PTL DEF Spec, ScreenCatchesUp
=============================================================================
