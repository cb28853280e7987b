-------------------------------- MODULE Menu --------------------------------
(***************************************************************************)
(* The menu (display_ui.cpp): btn_event_cb, called by the button thread    *)
(* for every click, moves cursors and pages, tunes settings and asks for a *)
(* fresh screen; the display thread, of the lowest priority, clears the    *)
(* screen when asked to and draws, again and again, what the level and the *)
(* cursor select.  They share everything without a lock.                   *)
(*                                                                         *)
(* A click is one step: the display thread cannot run in it, except while  *)
(* mt9v03x_csi_init waits for the camera to take its configuration.        *)
(* Clicks come between any two accesses of the display thread.  The pages  *)
(* of the two lists follow from their cursors and are derived.  What START *)
(* and RESET do to the car is in MainLoop and Elements.                    *)
(***************************************************************************)
EXTENDS Integers

CONSTANTS
  Limit,       \* per setting: first value, step, min, max, and the range of
               \* its C type: a value is stored modulo range
  UI_PARAM_MAX_PAGE,   \* the number of parameter pages
  Entry,       \* the entries that can be modified: first and largest value
  UI_MODIFY_LEN, ModifyList    \* the entries in the order of ui_modify_y

Settings == {"bright", "exp", "threshold", "line"}

ASSUME LimitAssumption ==
  /\ Limit \in [Settings -> [init : Nat, step : Nat, min : Nat, max : Nat,
                             range : Nat \ {0}]]
  /\ \A s \in Settings : Limit[s].init < Limit[s].range
ASSUME PageAssumption == UI_PARAM_MAX_PAGE \in Nat \ {0}
ASSUME EntryAssumption ==
  /\ Entry \in [DOMAIN Entry -> [init : Nat, end : Nat]]
  /\ {"current_turns", "disp_pic_type"} \subseteq DOMAIN Entry
  /\ Entry["disp_pic_type"].end = 2
ASSUME ListAssumption ==
  /\ UI_MODIFY_LEN \in Nat \ {0}
  /\ ModifyList \in [0 .. UI_MODIFY_LEN - 1 -> DOMAIN Entry]

(* ui_title_y: what each title shows, or a function that runs once.        *)
UI_TITLE_LEN == 10
Titles == 0 .. UI_TITLE_LEN - 1
Title == [i \in Titles |->
  CASE i = 0 -> "show_image"      [] i = 1 -> "show_param"
    [] i = 2 -> "tweak_bright"    [] i = 3 -> "tweak_auto_exp"
    [] i = 4 -> "tweak_threshold" [] i = 5 -> "change_param"
    [] i = 6 -> "line_pos"        [] OTHER -> "once"]
FuncType(i) == IF Title[i] = "once" THEN 1 ELSE 0

Keys == {"down", "up", "plus", "minus", "START", "RESET", "ENTER"}

VARIABLES
  level, cursor0, cursor1, param_page,   \* ui_option
  val,       \* the settings
  entry,     \* the entries of ui_modify_y
  refresh,   \* refresh_lcd_signal
  btn,       \* the button thread: "idle", or in mt9v03x_csi_init
  pc,        \* where the display thread is
  view,      \* what it draws, and the page it has read
  screen,    \* "blank", "current": all that has been drawn since it was
             \* cleared is what is selected, or "mixed"
  lost       \* history: a click has come while ui_title_fresh was on its way
             \* into a function, where ui_modify_fresh can take its request
             \* back, and the screen has not been cleared for it since

menu == <<level, cursor0, cursor1, param_page, val, entry>>
display == <<pc, view>>
vars == <<menu, refresh, btn, display, screen, lost>>

Views == {"titles", "show_image", "show_param", "tweak_bright",
          "tweak_auto_exp", "tweak_threshold", "change_param", "line_pos",
          "once"}
Pages == 0 .. UI_PARAM_MAX_PAGE - 1

TypeOK ==
  /\ level \in {0, 1} /\ cursor0 \in Titles
  /\ cursor1 \in 0 .. UI_MODIFY_LEN - 1
  /\ param_page \in Pages
  /\ val \in [Settings -> Nat] /\ \A s \in Settings : val[s] < Limit[s].range
  /\ entry \in [DOMAIN Entry -> Nat]
  /\ \A e \in DOMAIN Entry : entry[e] <= Entry[e].end \/ entry[e] <= Entry[e].init
  /\ refresh \in {0, 1}
  /\ btn \in {"idle", "camera"}
  /\ pc \in {"idle", "cleared", "level", "call", "modify", "emptied", "draw", "drawn"}
  /\ view \in [what : Views, page : Pages]
  /\ screen \in {"blank", "current", "mixed"} /\ lost \in BOOLEAN
-----------------------------------------------------------------------------
(* __ValuePlus, P_1 and M_1.                                               *)

ValuePlus(src, plus, min, max) ==
  LET v == src + plus IN IF v < min THEN max ELSE IF v > max THEN min ELSE v

P_1(addr, end) == IF addr + 1 > end THEN 0 ELSE addr + 1
M_1(addr, end) == IF addr = 0 THEN end ELSE addr - 1

Tuned(s, sign) ==
  ValuePlus(val[s], sign * Limit[s].step, Limit[s].min, Limit[s].max)
    % Limit[s].range
-----------------------------------------------------------------------------
Init ==
  /\ level = 0 /\ cursor0 = 0 /\ cursor1 = 0 /\ param_page = 0
  /\ val = [s \in Settings |-> Limit[s].init]
  /\ entry = [e \in DOMAIN Entry |-> Entry[e].init]
  /\ refresh = 0
  /\ btn = "idle"
  /\ pc = "idle" /\ view = [what |-> "titles", page |-> 0]
  /\ screen = "mixed" /\ lost = TRUE      \* inoutdev.init has left STOPED on it

Selected == Title[cursor0]

Pictures == {"show_image", "tweak_bright", "tweak_auto_exp",
             "tweak_threshold", "line_pos"}

(* What distinguishes two screens of a view: the page read before, or the  *)
(* cursor or picture as it is when it is drawn.                            *)
Detail(what, page) ==
  CASE what = "show_param" -> page
    [] what = "titles" -> cursor0
    [] what = "change_param" -> cursor1
    [] what \in Pictures -> entry["disp_pic_type"]
    [] OTHER -> 0

(* What the screen ought to show.                                          *)
Current ==
  LET what == IF level = 0 THEN "titles" ELSE Selected
  IN <<what, Detail(what, param_page)>>

(* DOWN and UP, at the list of titles and below it.                        *)
MoveCursor(d) ==
  /\ level = 0
  /\ cursor0' = ValuePlus(cursor0, d, 0, UI_TITLE_LEN - 1)
  /\ UNCHANGED <<level, cursor1, param_page, val, entry, btn>>

NextPicture(d) ==
  /\ level = 1 /\ Selected \in {"show_image", "tweak_bright"}
  /\ entry' = [entry EXCEPT !["disp_pic_type"] = ValuePlus(@, d, 0, 2)]
  /\ UNCHANGED <<level, cursor0, cursor1, param_page, val, btn>>

TurnPage(d) ==
  /\ level = 1 /\ Selected = "show_param"
  /\ param_page' = ValuePlus(param_page, d, 0, UI_PARAM_MAX_PAGE - 1)
  /\ UNCHANGED <<level, cursor0, cursor1, val, entry, btn>>

MoveEntry(d) ==
  /\ level = 1 /\ Selected = "change_param"
  /\ cursor1' = ValuePlus(cursor1, d, 0, UI_MODIFY_LEN - 1)
  /\ UNCHANGED <<level, cursor0, param_page, val, entry, btn>>

MoveLine(d) ==
  /\ level = 1 /\ Selected = "line_pos"
  /\ val' = [val EXCEPT !["line"] = Tuned("line", -d)]
  /\ UNCHANGED <<level, cursor0, cursor1, param_page, entry, btn>>

Arrow(d) ==
  \/ MoveCursor(d) \/ NextPicture(d) \/ TurnPage(d) \/ MoveEntry(d) \/ MoveLine(d)
  \/ /\ level = 1 /\ Selected \in {"tweak_auto_exp", "tweak_threshold"}
     /\ UNCHANGED <<menu, btn>>

(* PLUS and MINUS.                                                         *)
Modify(d) ==
  /\ level = 1 /\ Selected = "change_param"
  /\ LET e == ModifyList[cursor1]
     IN entry' = [entry EXCEPT ![e] = IF d = 1 THEN P_1(@, Entry[e].end)
                                               ELSE M_1(@, Entry[e].end)]
  /\ UNCHANGED <<level, cursor0, cursor1, param_page, val, btn>>

TweakThreshold(d) ==
  /\ level = 1 /\ Selected = "tweak_threshold"
  /\ val' = [val EXCEPT !["threshold"] = Tuned("threshold", d)]
  /\ UNCHANGED <<level, cursor0, cursor1, param_page, entry, btn>>

(* The setting is stored, written into MT9V03X_CFG_CSI, and the camera is  *)
(* initialised again.                                                      *)
Configure(s, d) ==
  /\ val' = [val EXCEPT ![s] = Tuned(s, d)]
  /\ btn' = "camera"
  /\ UNCHANGED <<level, cursor0, cursor1, param_page, entry>>

PlusMinus(d) ==
  \/ Modify(d) \/ TweakThreshold(d)
  \/ level = 1 /\ Selected \in {"show_image", "tweak_bright"} /\ Configure("bright", d)
  \/ level = 1 /\ Selected = "tweak_auto_exp" /\ Configure("exp", d)
  \/ /\ level = 0 \/ Selected \in {"show_param", "line_pos"}
     /\ UNCHANGED <<menu, btn>>

(* A function that runs once runs here and leaves the menu as it is.       *)
Enter ==
  /\ level' = IF level = 0 /\ FuncType(cursor0) = 0 THEN 1 ELSE 0
  /\ UNCHANGED <<cursor0, cursor1, param_page, val, entry, btn>>

Start == UNCHANGED <<menu, btn>>

Reset ==
  /\ entry' = [entry EXCEPT !["current_turns"] = 0]
  /\ UNCHANGED <<level, cursor0, cursor1, param_page, val, btn>>

Handle(key) ==
  \/ key = "down" /\ Arrow(1)
  \/ key = "up" /\ Arrow(-1)
  \/ key = "plus" /\ PlusMinus(1)
  \/ key = "minus" /\ PlusMinus(-1)
  \/ key = "START" /\ Start
  \/ key = "RESET" /\ Reset
  \/ key = "ENTER" /\ Enter

(* Mutant: only ENTER asks for a fresh screen.                             *)
ClickQuietly(key) ==
  /\ btn = "idle"
  /\ refresh' = IF key = "ENTER" THEN 1 ELSE refresh
  /\ Handle(key)
  /\ lost' = (lost \/ pc \in {"call", "modify", "emptied"})
  /\ screen' = IF screen = "current" /\ Current' # Current THEN "mixed" ELSE screen
  /\ UNCHANGED display

Click(key) ==
  /\ btn = "idle"
  /\ refresh' = 1
  /\ Handle(key)
  /\ lost' = (lost \/ pc \in {"call", "modify", "emptied"})
  /\ screen' = IF screen = "current" /\ Current' # Current THEN "mixed" ELSE screen
  /\ UNCHANGED display

CameraReady ==
  /\ btn = "camera"
  /\ btn' = "idle"
  /\ UNCHANGED <<menu, refresh, display, screen, lost>>
-----------------------------------------------------------------------------
(* The display thread: ui_title_fresh, every 100 ms.                       *)

Fresh ==
  /\ pc = "idle"
  /\ IF refresh = 1 THEN pc' = "cleared" /\ screen' = "blank" /\ lost' = FALSE
                    ELSE pc' = "level" /\ UNCHANGED <<screen, lost>>
  /\ UNCHANGED <<menu, refresh, btn, view>>

Refreshed ==
  /\ pc = "cleared"
  /\ refresh' = 0
  /\ pc' = "level"
  /\ UNCHANGED <<menu, btn, view, screen, lost>>

Show(what, page) == view' = [what |-> what, page |-> page]

TestLevel ==
  /\ pc = "level"
  /\ IF level = 0 THEN pc' = "draw" /\ Show("titles", 0)
                  ELSE pc' = "call" /\ UNCHANGED view
  /\ UNCHANGED <<menu, refresh, btn, screen, lost>>

(* Calls the function under the cursor.                                    *)
CallSelected ==
  /\ pc = "call"
  /\ pc' = IF Selected = "change_param" THEN "modify" ELSE "draw"
  /\ Show(Selected, param_page)
  /\ UNCHANGED <<menu, refresh, btn, screen, lost>>

(* ui_modify_fresh looks at refresh_lcd_signal once more.                  *)
ModifyFresh ==
  /\ pc = "modify"
  /\ IF refresh = 1 THEN pc' = "emptied" /\ screen' = "blank"
                    ELSE pc' = "draw" /\ UNCHANGED screen
  /\ UNCHANGED <<menu, refresh, btn, view, lost>>

ModifyRefreshed ==
  /\ pc = "emptied"
  /\ refresh' = 0
  /\ pc' = "draw"
  /\ UNCHANGED <<menu, btn, view, screen, lost>>

(* One row or picture of the view.  A function that runs once draws none.  *)
DrawRow ==
  /\ pc \in {"draw", "drawn"} /\ view.what # "once"
  /\ pc' = "drawn"
  /\ screen' = IF <<view.what, Detail(view.what, view.page)>> # Current THEN "mixed"
               ELSE IF screen = "blank" THEN "current" ELSE screen
  /\ UNCHANGED <<menu, refresh, btn, view, lost>>

Done ==
  /\ \/ pc = "drawn"
     \/ pc = "draw" /\ view.what = "once"
  /\ pc' = "idle"
  /\ UNCHANGED <<menu, refresh, btn, view, screen, lost>>

Display ==
  \/ Fresh \/ Refreshed \/ TestLevel \/ CallSelected
  \/ ModifyFresh \/ ModifyRefreshed \/ DrawRow \/ Done

Next == CameraReady \/ Display \/ \E key \in Keys : Click(key)

Spec == Init /\ [][Next]_vars

(* The display thread gets the processor again and again: the main thread  *)
(* waits for frames, the button thread sleeps.  Nobody has to press a key. *)
FairSpec == Spec /\ WF_vars(CameraReady) /\ WF_vars(Display) /\ WF_vars(Done)

(* The fairness of the display thread once more, in terms the prover knows:*)
(* it can always go on, and leave a function that has nothing more to draw.*)
MayFinish == pc = "drawn" \/ (pc = "draw" /\ view.what = "once")

DisplayRuns ==
  /\ []<><<Display>>_vars
  /\ []<>~MayFinish \/ []<><<Done>>_vars
-----------------------------------------------------------------------------
(* Between two passes nothing stays on the screen that the level, the      *)
(* cursor and the pages no longer select, however clicks and drawing       *)
(* interleave: it has been cleared, or that is still asked for.  The one   *)
(* exception: ui_modify_fresh takes the request for what it draws itself.  *)
NoRemnants == pc = "idle" /\ refresh = 0 /\ ~lost => screen # "mixed"

(* When nobody clicks any more the screen ends up showing what is          *)
(* selected, and goes on showing just that, or a click was lost.           *)
ScreenCatchesUp ==
  \/ []<><<\E key \in Keys : Click(key)>>_vars
  \/ <>[](lost \/ screen = "current")
=============================================================================
