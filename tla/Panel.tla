-------------------------------- MODULE Panel -------------------------------
(***************************************************************************)
(* src/display/ili9341.c and the menus of screens.c: the panel at the      *)
(* grill, with its one knob. The encoder's thread and the display's tick   *)
(* share the panel under its mutex; what a press does follows the screen   *)
(* on top of a short stack and the last status. A press looks at the       *)
(* screen and acts on it in one step. Numbers, names and the picture       *)
(* (theme, colour, the margins themselves) are left out, and the four      *)
(* edges are one.                                                          *)
(***************************************************************************)
EXTENDS Integers, Sequences

CONSTANTS
  Statuses,     \* what the grill may show: [mode, has], has among "timer", "food", "target",
                \* "paired", "hopper", "recipe", "waiting"
  NavMax,       \* PF_NAV_MAX
  Kinds,        \* PF_BT_KIND_COUNT
  MenuTime,     \* 5 s, in ticks
  DarkTime      \* backlight_timeout

VARIABLES
  nav,          \* ui.stack up to ui.depth, each screen with what it alone uses of ui
  ring,         \* ui.main_focus
  bt,           \* [scanning, found]: ui.bt_scanning and whether ui.bt has an entry
  lit,          \* backlight_on
  splash,
  flash,        \* ui.attention is not empty
  status,       \* t->status: [mode, has]
  idle,         \* ticks since last_activity, up to the longest that matters
  click,        \* click_pending of the encoder's thread
  estop,
  sent,         \* what the last step asked of the rest of the daemon
  turned        \* history: the knob was turned on the screen that is shown

pvars == <<nav, ring, bt, lit, splash, flash, status, idle, click, estop, sent, turned>>

Screen(at) ==
  [at |-> at, list |-> "none", index |-> 0, act |-> "none", focus |-> 0,
   editing |-> FALSE, over |-> FALSE]

Init ==
  /\ nav = <<>> /\ ring = "none"
  /\ bt = [scanning |-> FALSE, found |-> FALSE]
  /\ lit = TRUE /\ splash = TRUE /\ flash = FALSE
  /\ status \in Statuses
  /\ idle = 0 /\ click = FALSE /\ estop = FALSE
  /\ sent = {} /\ turned = FALSE

-----------------------------------------------------------------------------
(* The stack *)

Top == nav[Len(nav)]
At == IF nav = <<>> THEN "main" ELSE Top.at
Popped == IF nav = <<>> THEN nav ELSE SubSeq(nav, 1, Len(nav) - 1)

\* pf_nav_push: on a full stack the screen on top makes way
Pushed(stack, screen) ==
  Append(IF Len(stack) >= NavMax THEN SubSeq(stack, 1, NavMax - 1) ELSE stack, screen)

With(screen) == [nav EXCEPT ![Len(nav)] = screen]

List(l) == [Screen("list") EXCEPT !.list = l]
Selector(act) == [Screen("temp") EXCEPT !.act = act, !.editing = TRUE]
DialogOnYes(act) == [Screen("confirm") EXCEPT !.act = act, !.focus = 1]   \* fault: on the action
Dialog(act) == [Screen("confirm") EXCEPT !.act = act]
Message == Screen("message")

Has(x) == x \in status.has

-----------------------------------------------------------------------------
(* pf_menu_build: the rows of a list under the last status *)

Row(act) == [act |-> act, arg |-> "none"]
To(l) == [act |-> "list", arg |-> l]
Only(c, rows) == IF c THEN rows ELSE <<>>
Back == <<Row("back")>>
TimerRow == Row(IF Has("timer") THEN "timer cancel" ELSE "timer")
Opposite == IF status.mode = "Hold" THEN Row("smoke") ELSE Row("hold")

RootRows ==
  (IF Has("recipe")
     THEN <<Row(IF Has("waiting") THEN "recipe next" ELSE "recipe skip"),
            Row("recipe back"), Row("recipe exit"), To("stop")>>
   ELSE IF status.mode = "Error" THEN <<Row("clear error")>>
   ELSE IF status.mode = "Monitor"
     THEN <<Row("manual"), To("startup"), TimerRow, To("stop")>>
   ELSE IF status.mode \in {"Stop", "Prime"}
     THEN <<To("startup"), Row("monitor"), TimerRow>>
   ELSE <<Opposite, To("probe"), TimerRow, To("stop")>>)
  \o <<To("settings"), Row("netinfo")>>
  \o Only(status.mode = "Stop", <<To("power")>>)

ModeRows ==
  IF status.mode = "Error" THEN <<Row("clear error")>>
  ELSE IF status.mode \in {"Stop", "Monitor", "Prime"}
    THEN <<Row("startup hold"), Row("startup smoke")>>
         \o Only(status.mode # "Monitor", <<Row("monitor")>>)
         \o Only(status.mode # "Stop", <<Row("stop")>>)
  ELSE <<Opposite>> \o Only(status.mode # "Shutdown", <<Row("end cook")>>) \o <<Row("stop")>>

Rows(l) ==
  (CASE l = "root" -> RootRows
     [] l = "mode" -> ModeRows
     [] l = "startup" -> <<Row("startup hold"), Row("startup smoke")>>
     [] l = "settings" -> <<To("bt"), Row("margins"), Row("theme"), Row("colour")>>
     [] l = "stop" -> <<Row("end cook"), Row("stop grill")>>
     [] l = "timer" -> <<Row("timer change"), Row("timer cancel")>>
     [] l = "hopper" -> <<Row("hopper full"), Row("hopper empty")>>
     [] l = "probe act" -> <<Row("probe pick"), Row("probe custom"), Row("probe clear")>>
     [] l = "meat" -> <<Row("probe custom"), Row("meat")>>
     [] l = "done" -> <<Row("done")>>
     [] l = "power" -> <<Row("restart"), Row("power off")>>
     [] l = "probe" -> <<Row(IF Has("food") THEN "probe" ELSE "nothing")>>
     [] l = "bt" -> <<To("bt kind")>> \o Only(Has("paired"), <<To("bt edit"), To("bt delete")>>)
     [] l = "bt kind" -> [k \in 1..Kinds |-> Row("bt scan")]
     [] l = "bt edit" -> <<Row(IF Has("paired") THEN "bt toggle" ELSE "nothing")>>
     [] l = "bt delete" -> <<Row(IF Has("paired") THEN "bt delete" ELSE "nothing")>>)
  \o Back

-----------------------------------------------------------------------------
(* do_action: what a row does *)

Opens(stack, screen) ==
  /\ nav' = Pushed(stack, screen) /\ ring' = "none" /\ sent' = {} /\ UNCHANGED bt
Says(what) == nav' = <<Message>> /\ ring' = "none" /\ sent' = what
Asks(what) == nav' = <<>> /\ ring' = "none" /\ sent' = what /\ UNCHANGED bt
Stays == UNCHANGED <<nav, ring, bt>> /\ sent' = {}

AtOnce == {"startup smoke", "monitor", "end cook", "stop", "clear error", "recipe next"}
Selects == {"startup hold", "hold", "probe custom", "timer", "timer change"}
Confirms == {"smoke", "recipe skip", "recipe back", "recipe exit", "hopper full",
             "hopper empty", "bt delete", "bt add", "restart", "power off"}

ScanBegins ==
  /\ bt' = [scanning |-> TRUE, found |-> FALSE]
  /\ nav' = Pushed(nav, Screen("scan")) /\ sent' = {"scan"} /\ UNCHANGED ring

Do(stack, row) ==
  LET a == row.act IN
  \/ a = "back" /\ nav' = SubSeq(stack, 1, Len(stack) - 1) /\ sent' = {}
       /\ UNCHANGED <<ring, bt>>
  \/ a = "list" /\ Opens(stack, List(row.arg))
  \/ a = "netinfo" /\ Opens(stack, Screen("netinfo"))
  \/ a = "margins" /\ Opens(stack, Screen("margins"))
  \/ a = "manual" /\ Opens(stack, Screen("manual"))
  \/ a \in {"theme", "colour", "nothing"} /\ Stays
  \/ a \in AtOnce /\ Asks({IF a = "clear error" THEN "stop" ELSE a})
  \/ a \in Selects /\ Opens(stack, Selector(a))
  \/ a \in Confirms /\ Opens(stack, Dialog(a))
  \/ a = "stop grill" /\ Opens(stack, Dialog("stop"))
  \/ a = "probe" /\ Has("food")
       /\ Opens(stack, List(IF Has("target") THEN "probe act" ELSE "meat"))
  \/ a = "probe pick" /\ Opens(stack, List("meat"))
  \/ a = "meat" /\ Opens(stack, List("done"))
  \/ a = "probe clear" /\ Says({"target"}) /\ UNCHANGED bt
  \/ a = "done" /\ Says({"target"}) /\ UNCHANGED bt
  \/ a = "timer cancel" /\ Says({a}) /\ UNCHANGED bt
  \/ a = "bt scan" /\ ScanBegins
  \/ a = "bt toggle" /\ UNCHANGED <<nav, ring, bt>> /\ sent' = {"probes"}

-----------------------------------------------------------------------------
(* The screens, under a press and a turn *)

\* pf_main_focus_step: round the things the status has
Stops ==
  <<"mode">> \o Only(Has("timer"), <<"timer">>) \o <<"setpoint">>
  \o Only(Has("hopper"), <<"hopper">>) \o Only(Has("food"), <<"probe">>)

Steps(from, dir) ==
  LET at == {i \in 1..Len(Stops) : Stops[i] = from} IN
  IF from = "none" THEN {"setpoint"}
  ELSE IF at = {} THEN {Stops[i] : i \in 1..Len(Stops)}   \* what it stood on has gone: the next one
  ELSE {Stops[((i - 1 + dir) % Len(Stops)) + 1] : i \in at}

\* focus_act
MainPressed ==
  \/ ring = "none" /\ Stays
  \/ ring \in {"mode", "timer", "hopper"} /\ Opens(nav, List(ring))
  \/ ring = "setpoint" /\ Opens(nav, Selector(IF status.mode = "Smoke" THEN "pmode" ELSE "hold"))
  \/ ring = "probe" /\ Has("food")
       /\ Opens(nav, List(IF Has("target") THEN "probe act" ELSE "meat"))
  \/ ring = "probe" /\ ~Has("food") /\ ring' = "none" /\ UNCHANGED <<nav, bt>> /\ sent' = {}

\* temp_confirm: a hold is a new set point or a new mode as the grill now is
TempPressed ==
  \/ Top.editing /\ nav' = With([Top EXCEPT !.editing = FALSE, !.focus = 1])
       /\ sent' = {} /\ UNCHANGED <<ring, bt>>
  \/ ~Top.editing /\ Top.focus = 0 /\ nav' = With([Top EXCEPT !.editing = TRUE])
       /\ sent' = {} /\ UNCHANGED <<ring, bt>>
  \/ ~Top.editing /\ Top.focus = 2 /\ Do(nav, Row("back"))
  \/ /\ ~Top.editing /\ Top.focus = 1
     /\ \/ Top.act = "startup hold" /\ Asks({"hold"})
        \/ Top.act = "hold"
             /\ Asks({IF status.mode \in {"Hold", "Startup", "Relight"} THEN "setpoint"
                                                                        ELSE "hold"})
        \/ Top.act = "probe custom" /\ Asks({"target"})
        \/ Top.act \in {"timer", "timer change"} /\ Asks({"timer"})
        \/ Top.act = "pmode" /\ Says({"settings"}) /\ UNCHANGED bt
        \/ Top.act = "pmode" /\ Says({}) /\ UNCHANGED bt

\* confirm_yes
Yes ==
  LET a == Top.act IN
  \/ a \in {"hopper full", "hopper empty"} /\ Says({a}) /\ UNCHANGED bt
  \/ a \in {"restart", "power off"} /\ Says({"stop", a}) /\ UNCHANGED bt
  \/ a \in {"recipe skip", "recipe back", "recipe exit"} /\ Asks({a})
  \/ a = "bt add" /\ Says({a}) /\ UNCHANGED bt
  \/ a = "bt add" /\ Says({}) /\ UNCHANGED bt
  \/ a = "bt delete" /\ Says({a}) /\ UNCHANGED bt
  \/ a \in {"smoke", "stop"} /\ Do(Popped, Row(a))

ConfirmPressed == IF Top.focus = 1 THEN Yes ELSE Do(nav, Row("back"))

ScanPressed ==
  \/ bt.scanning /\ Stays
  \/ /\ ~bt.scanning /\ ~bt.found
     /\ bt' = [bt EXCEPT !.scanning = TRUE] /\ sent' = {"scan"} /\ UNCHANGED <<nav, ring>>
  \/ ~bt.scanning /\ bt.found /\ Do(nav, Row(IF Top.index = 1 THEN "back" ELSE "bt add"))

\* manual_press
ManualPressed ==
  \/ Top.focus < 3 /\ UNCHANGED <<nav, ring, bt>> /\ sent' = {"output"}
  \/ Top.focus = 3 /\ nav' = Popped /\ UNCHANGED <<ring, bt>> /\ sent' = {"outputs off"}

\* the margin editor: the margin, Back and Save (done, or "Save Failed")
MarginsPressed ==
  \/ Top.focus = 0 /\ nav' = With([Top EXCEPT !.editing = ~@])
       /\ sent' = {} /\ UNCHANGED <<ring, bt>>
  \/ Top.focus = 1 /\ Do(nav, Row("back"))
  \/ Top.focus = 2 /\ Says({}) /\ UNCHANGED bt

Pressed ==
  \/ At = "main" /\ MainPressed
  \/ At = "list" /\ Do(nav, Rows(Top.list)[(Top.index % Len(Rows(Top.list))) + 1])
  \/ At = "temp" /\ TempPressed
  \/ At = "confirm" /\ ConfirmPressed
  \/ At = "scan" /\ ScanPressed
  \/ At = "manual" /\ ManualPressed
  \/ At = "margins" /\ MarginsPressed
  \/ At \in {"netinfo", "message"} /\ Do(nav, Row("back"))

Clamped(x, top) == IF x < 0 THEN 0 ELSE IF x > top THEN top ELSE x

\* the screen after a turn
Moved(dir) ==
  LET round(n) == [Top EXCEPT !.index = (@ + dir) % n] IN
  CASE At = "list" -> With(round(Len(Rows(Top.list))))
    [] At = "temp" -> IF Top.editing THEN nav ELSE With([Top EXCEPT !.focus = Clamped(@ + dir, 2)])
    [] At = "confirm" -> With([Top EXCEPT !.focus = IF dir > 0 THEN 1 ELSE 0])
    [] At = "scan" -> IF bt.scanning THEN nav ELSE With(round(IF bt.found THEN 2 ELSE 1))
    [] At = "manual" -> With([Top EXCEPT !.focus = (@ + dir) % 4])
    [] At = "margins" ->
         IF Top.editing THEN nav ELSE With([Top EXCEPT !.focus = (@ + dir) % 3])
    [] At \in {"netinfo", "message"} -> Popped
    [] OTHER -> nav

Turned(dir) ==
  /\ nav' = Moved(dir)
  /\ IF At = "main" THEN ring' \in Steps(ring, dir) ELSE UNCHANGED ring
  /\ sent' = {} /\ UNCHANGED bt

-----------------------------------------------------------------------------
(* input: a key reaches the panel *)

Turns == {"up", "down"}
Dir(key) == IF key = "up" THEN 1 ELSE -1

OpensMenu == nav' = <<List("root")>> /\ ring' = "none" /\ sent' = {} /\ UNCHANGED bt

Handles(key) ==
  /\ lit' = TRUE /\ UNCHANGED <<splash, flash>>
  /\ \/ ~lit /\ key = "enter" /\ OpensMenu
     \/ ~lit /\ key # "enter" /\ Stays
     \/ lit /\ key = "double" /\ IF At = "main" THEN OpensMenu ELSE Stays
     \/ lit /\ key = "enter" /\ Pressed
     \/ lit /\ key \in Turns /\ Turned(Dir(key))

\* redraw: a message whose time is over goes
Over(stack) == stack # <<>> /\ stack[Len(stack)].at = "message" /\ stack[Len(stack)].over

\* the start-up screen is put away, or the flash acknowledged, and nothing else
PutsAway ==
  /\ IF splash THEN splash' = FALSE /\ UNCHANGED flash /\ sent' = {}
               ELSE flash' = FALSE /\ UNCHANGED splash /\ sent' = {"ack"}
  /\ IF Over(nav) THEN nav' = <<>> /\ ring' = "none" ELSE UNCHANGED <<nav, ring>>
  /\ UNCHANGED <<lit, bt>>

Input(key) ==
  /\ IF splash \/ flash THEN PutsAway ELSE Handles(key)
  /\ idle' = 0 /\ turned' = (key \in Turns \/ (turned /\ nav' = nav))
  /\ UNCHANGED <<status, estop>>

-----------------------------------------------------------------------------
(* The encoder's thread *)

Turn == \E key \in Turns : Input(key) /\ UNCHANGED click

\* on the grill's screen a press is held back for another that may follow
Press ==
  \/ (nav # <<>> \/ flash) /\ Input("enter") /\ UNCHANGED click
  \/ nav = <<>> /\ ~flash /\ click /\ Input("double") /\ click' = FALSE
  \/ /\ nav = <<>> /\ ~flash /\ ~click /\ click' = TRUE /\ sent' = {}
     /\ UNCHANGED <<nav, ring, bt, lit, splash, flash, status, idle, estop, turned>>

ClickOver == click /\ click' = FALSE /\ Input("enter")

\* a long press backs out of a menu; on the grill's screen it is the emergency stop
LongPress ==
  /\ nav' = <<>> /\ ring' = (IF nav # <<>> THEN "none" ELSE ring)
  /\ estop' = (estop \/ nav = <<>>)
  /\ sent' = {} /\ turned' = FALSE
  /\ UNCHANGED <<bt, lit, splash, flash, status, idle, click>>

-----------------------------------------------------------------------------
(* The rest of the daemon *)

Older(stack) ==
  IF stack # <<>> /\ stack[Len(stack)].at = "message"
    THEN [stack EXCEPT ![Len(stack)].over = TRUE] ELSE stack
TopRow(stack) == IF stack = <<>> THEN stack ELSE [stack EXCEPT ![Len(stack)].index = 0]

TimesOutAsleep(stack, scans, age) ==   \* fault: the dialogs wait for an answer
  stack # <<>> /\ stack[Len(stack)].at \notin {"message", "confirm"} /\ ~scans /\ age > MenuTime
TimesOut(stack, scans, age) ==
  stack # <<>> /\ stack[Len(stack)].at # "message" /\ ~scans /\ age > MenuTime

\* pf_display_tick, status: twice a second; a scan may have ended, an alarm begun or gone
Tick ==
  \E s \in Statuses, word \in BOOLEAN, scans \in {bt.scanning, FALSE} :
    LET ends == bt.scanning /\ ~scans
        stack == IF ends THEN TopRow(nav) ELSE nav
        older == IF idle > MenuTime /\ idle > DarkTime THEN idle ELSE idle + 1
        closed == TimesOut(stack, scans, older)
        left == IF closed THEN <<>> ELSE stack
        wakes == word /\ ~flash
        age == IF wakes THEN 0 ELSE older
    IN
    /\ status' = s
    /\ splash' \in {splash, FALSE}
    /\ bt' \in IF ends THEN [scanning : {FALSE}, found : BOOLEAN] ELSE {bt}
    /\ nav' = IF Over(left) THEN <<>> ELSE Older(left)
    /\ ring' \in {"none"} \cup IF closed \/ Over(left) THEN {} ELSE {ring}
    /\ flash' = word /\ idle' = age
    /\ lit' = /\ lit \/ wakes \/ s.mode # "Stop"
              /\ ~(s.mode = "Stop" /\ left = <<>> /\ age > DarkTime)
    /\ estop' = FALSE /\ sent' = IF estop THEN {"stop"} ELSE {}
    /\ UNCHANGED <<click, turned>>

\* pf_display_text
Text ==
  /\ nav' = <<Message>> /\ ring' = "none" /\ lit' = TRUE /\ idle' = 0 /\ sent' = {}
  /\ UNCHANGED <<bt, splash, flash, status, click, estop, turned>>

Next == Turn \/ Press \/ ClickOver \/ LongPress \/ Tick \/ Text

Spec == Init /\ [][Next]_pvars
FairSpec == Spec /\ WF_pvars(Tick)

-----------------------------------------------------------------------------

\* "A stray press never triggers the action" (ili9341.c:227): whatever a dialog asks about is
\* carried out only when the knob was turned on that very dialog; however presses pile up,
\* held-back clicks and those a flash takes included, none is done by presses alone.
Dangerous == {"recipe skip", "recipe back", "recipe exit", "hopper full", "hopper empty",
              "bt add", "bt delete", "restart", "power off"}
StrayPress == sent' \cap Dangerous # {} => turned
StrayPressIsHarmless == [][StrayPress]_pvars

\* Left alone, the panel comes back to the grill's screen, from any menu, dialog, editor or
\* message, again and again, unless it is touched or a scan stands (status: MENU_TIMEOUT_S;
\* redraw: message_until).
HomeOrInUse == nav = <<>> \/ idle = 0 \/ bt.scanning
IdleComesHome == []<>HomeOrInUse

\* "Confirmed, then applied now" (screens.h:51), of Smoke: a press on the dialog's Smoke button
\* asks the grill for it.  Refuted, on a grill in Hold: the dialog opens again (README, Found).
ConfirmedIsApplied ==
  [][At = "confirm" /\ Top.act = "smoke" /\ Top.focus = 1 /\ lit /\ ~splash /\ ~flash
     /\ Press => "smoke" \in sent']_pvars
=============================================================================
