---------------------------------- MODULE Menu ---------------------------------
(***************************************************************************)
(* menu.c with its applications, the charging screen, the power latch and  *)
(* the dispatch of button events to handlers: which screen is shown, which *)
(* handler is enabled, and which application is started after a reset.     *)
(*                                                                         *)
(* Two threads call into the menu: main, once, when it starts, and the     *)
(* button task from then on.  What a thread has still to do is a stack of  *)
(* steps: a call of the C code puts the steps of the function it calls on  *)
(* the stack of its thread.  The power may fail between any two steps.     *)
(***************************************************************************)
EXTENDS Integers, Sequences, FiniteSets

CONSTANTS
  Apps, Submenus, menutree_root,
  Entries,              \* the entries of each submenu, in order
  Toggles,              \* apps that change a setting and return at once, with 1
  KeepVisible,          \* keep_menu_visible
  Unnamed,              \* apps without a name
  PowerOff,             \* the app that shows the charging screen
  HandlerOf,            \* the button handler of each app that has a screen
  Registered,           \* the handlers, in the order of their registration
  MaxPresses, MaxResets \* bounds of the number of events and of resets

NoEntry == "no_entry"

Items == Apps \cup Submenus
Handlers == {Registered[k] : k \in 1..Len(Registered)}

HasEntry(s, e) == \E k \in 1..Len(Entries[s]) : Entries[s][k] = e

\* An entry is in the list of one submenu, its parent.
ASSUME MenuAssumption ==
  /\ menutree_root \in Submenus /\ Apps \cap Submenus = {} /\ NoEntry \notin Items
  /\ Entries \in [Submenus -> Seq(Items \ {menutree_root})] /\ Entries[menutree_root] # <<>>
  /\ \A e \in Items \ {menutree_root} : \E s \in Submenus :
       HasEntry(s, e) /\ \A other \in Submenus : HasEntry(other, e) => other = s
  /\ {"menu", "charging"} \cap Items = {}
  /\ Toggles \subseteq Apps /\ KeepVisible \subseteq Toggles
  /\ PowerOff \in Unnamed /\ Unnamed \subseteq Apps /\ PowerOff \notin Toggles
  /\ HandlerOf \in [Apps \ Toggles -> Handlers \ {"shutdown", "menu"}]
  /\ Len(Registered) \in Nat /\ {"shutdown", "menu"} \subseteq Handlers
  /\ \A a \in Apps \ Toggles : HandlerOf[a] = "charging" <=> a = PowerOff
  /\ MaxPresses \in Nat /\ MaxResets \in Nat

Threads == {"main", "buttons"}
Events == {"up", "down", "enter", "exit", "hold_exit"}

VARIABLES
  selected, in_app,     \* of menu_t
  enabled,              \* the handlers that are enabled
  visible,              \* the screens: "menu", "charging", or an app
  lists, highlighted,   \* the submenus not hidden; the highlighted entry of each
  container,            \* the app whose screen a handler is to hide, or NoEntry
  latch,                \* the level of GPIO_PWR_EN
  todo,                 \* the stacks of the threads
  default_app,          \* in flash: the app to start with, or NoEntry
  presses, resets,
  raced                 \* history: where the button task came in between main

screenVars == <<enabled, visible, lists, highlighted, container>>
volatile == <<selected, in_app, screenVars, latch>>
menuVars == <<volatile, todo, default_app, presses, resets, raced>>

-------------------------------------------------------------------------------
(* Steps.                                                                   *)

Do(op) == [op |-> op, entry |-> NoEntry, handler |-> "menu"]
DoWith(op, e) == [Do(op) EXCEPT !.entry = e]
Dispatch(b, h) == [op |-> "dispatch", entry |-> b, handler |-> h]

Busy(t) == todo[t] # <<>>
Now(t) == Head(todo[t])
Idle == \A t \in Threads : ~Busy(t)

\* Thread t takes its step, which calls for others.
Calls(t, steps) == todo' = [todo EXCEPT ![t] = steps \o Tail(@)]
Returns(t) == Calls(t, <<>>)

\* Mutant: the error path of enter_app comes before on_app_entry.
EntryAfterExit(a) ==
  <<DoWith("run", a)>> \o (IF a \in Toggles THEN <<Do("app_exit_cb")>> ELSE <<>>)
    \o <<DoWith("on_app_entry", a)>>

\* run, and what enter_app does afterwards.
EnterSteps(a) ==
  <<DoWith("run", a), DoWith("on_app_entry", a)>>
    \o IF a \in Toggles THEN <<Do("app_exit_cb")>> ELSE <<>>

-------------------------------------------------------------------------------
(* The menu.                                                                *)

\* The submenu that has entry e.
ParentOf(e) == CHOOSE s \in Submenus : HasEntry(s, e)

menu_find_first_entry(s) == Head(Entries[s])

\* The list head is not an entry: it is skipped.
menu_find_next_entry(e, step) ==
  LET siblings == Entries[ParentOf(e)]
      k == CHOOSE k \in 1..Len(siblings) : siblings[k] = e
  IN  siblings[((k - 1 + step) % Len(siblings)) + 1]

\* menu_show, from where the list is unhidden.
ShowList(e) ==
  /\ highlighted' = [highlighted EXCEPT ![ParentOf(e)] = e]
  /\ lists' = lists \cup {ParentOf(e)}
  /\ visible' = visible \cup {"menu"}
  /\ enabled' = enabled \cup {"menu"}

\* enter_app up to the call of run; menu_hide.
enter_app(a) ==
  /\ in_app' = TRUE
  /\ enabled' = IF a \in KeepVisible THEN enabled ELSE enabled \ {"menu"}
  /\ visible' = IF a \in KeepVisible THEN visible ELSE visible \ {"menu"}

menu_show(t) ==
  LET e == IF selected = NoEntry THEN menu_find_first_entry(menutree_root) ELSE selected
  IN
  /\ Busy(t) /\ Now(t).op = "menu_show"
  /\ selected' = e
  /\ \/ /\ selected # NoEntry /\ in_app
        /\ enter_app(e)
        /\ Calls(t, EnterSteps(e) \o IF e \in Toggles THEN <<DoWith("show_list", e)>> ELSE <<>>)
        /\ UNCHANGED <<lists, highlighted>>
     \/ /\ selected = NoEntry \/ ~in_app
        /\ in_app' = FALSE
        /\ ShowList(e)
        /\ Returns(t)
  /\ UNCHANGED <<container, latch, default_app, presses, resets, raced>>

\* menu_show, after an app that has returned already.
show_list(t) ==
  /\ Busy(t) /\ Now(t).op = "show_list"
  /\ ShowList(Now(t).entry)
  /\ Returns(t)
  /\ UNCHANGED <<selected, in_app, container, latch, default_app, presses, resets, raced>>

app_exit_cb(t) ==
  /\ Busy(t) /\ Now(t).op = "app_exit_cb"
  /\ in_app' = FALSE
  /\ Calls(t, IF in_app THEN <<Do("on_app_exit"), Do("menu_show")>> ELSE <<>>)
  /\ UNCHANGED <<selected, screenVars, latch, default_app, presses, resets, raced>>

-------------------------------------------------------------------------------
(* menutree.c                                                               *)

\* settings_set_default_app of the name, or of NULL.
on_app_entry(t) ==
  /\ Busy(t) /\ Now(t).op = "on_app_entry"
  /\ default_app' = IF Now(t).entry \in Unnamed THEN NoEntry ELSE Now(t).entry
  /\ Returns(t)
  /\ UNCHANGED <<volatile, presses, resets, raced>>

on_app_exit(t) ==
  /\ Busy(t) /\ Now(t).op = "on_app_exit"
  /\ default_app' = NoEntry
  /\ Returns(t)
  /\ UNCHANGED <<volatile, presses, resets, raced>>

-------------------------------------------------------------------------------
(* The apps and the charging screen.                                        *)

\* The screen and the handler of an app, or of the charging screen.
charging_screen_show == visible' = visible \cup {"charging"} /\ enabled' = enabled \cup {"charging"}

ShowApp(a) ==
  /\ visible' = visible \cup {a}
  /\ enabled' = enabled \cup {HandlerOf[a]}
  /\ container' = [container EXCEPT ![HandlerOf[a]] = a]
  /\ UNCHANGED latch

power_off_run ==
  /\ latch' = FALSE
  /\ container' = [container EXCEPT !["charging"] = PowerOff]
  /\ charging_screen_show

\* What changes a setting has nothing left to show.
run(t) ==
  LET a == Now(t).entry
  IN
  /\ Busy(t) /\ Now(t).op = "run"
  /\ \/ a \in Toggles /\ UNCHANGED <<enabled, visible, container, latch>>
     \/ a = PowerOff /\ power_off_run
     \/ a \notin Toggles \cup {PowerOff} /\ ShowApp(a)
  /\ UNCHANGED <<lists, highlighted>>
  /\ Returns(t)
  /\ UNCHANGED <<selected, in_app, default_app, presses, resets, raced>>

\* Mutant: the handler of an app stays enabled.
LeaveStillEnabled(h) ==
  /\ visible' = visible \ {IF h = "charging" THEN h ELSE container[h]}
  /\ UNCHANGED enabled

\* on_button_event of an app that is left.
Leave(h) ==
  /\ visible' = visible \ {IF h = "charging" THEN h ELSE container[h]}
  /\ enabled' = enabled \ {h}

\* Mutant: leaving a submenu leaves its list.
BackStillShown(s) ==
  /\ selected' = s
  /\ lists' = lists \cup {ParentOf(s)}
  /\ highlighted' = [highlighted EXCEPT ![ParentOf(s)] = s]

\* on_button_event of the menu: from submenu s to the one it is in.
Back(s) ==
  /\ selected' = s
  /\ lists' = (lists \ {s}) \cup {ParentOf(s)}
  /\ highlighted' = [highlighted EXCEPT ![ParentOf(s)] = s]

OpenSubmenu(s) ==
  /\ selected' = menu_find_first_entry(s)
  /\ lists' = (lists \ {ParentOf(s)}) \cup {s}
  /\ highlighted' = [highlighted EXCEPT ![s] = menu_find_first_entry(s)]

Move(step) ==
  /\ selected' = menu_find_next_entry(selected, step)
  /\ highlighted' = [highlighted EXCEPT ![ParentOf(selected)] = selected']
  /\ UNCHANGED lists

-------------------------------------------------------------------------------
(* The dispatch of a button event, by the button task.                      *)

\* A handler that returned true: the rest of the event's handlers are not
\* called.
Handled(steps) == todo' = [todo EXCEPT !["buttons"] = steps]
Passed == Returns("buttons")

\* The calls of the handlers that are enabled.
shadow_list(b) ==
  LET upto[k \in 0..Len(Registered)] ==
        IF k = 0 THEN <<>>
        ELSE IF Registered[k] \in enabled THEN Append(upto[k - 1], Dispatch(b, Registered[k]))
        ELSE upto[k - 1]
  IN  upto[Len(Registered)]

\* The handlers that are enabled now will be called, even one that an earlier
\* one disables.
process_button_event(b) ==
  /\ ~Busy("buttons") /\ presses < MaxPresses
  /\ presses' = presses + 1
  /\ todo' = [todo EXCEPT !["buttons"] = shadow_list(b)]
  /\ UNCHANGED <<volatile, default_app, resets, raced>>

\* power.c
ShutdownHandler(b) ==
  /\ UNCHANGED <<selected, in_app, screenVars>>
  /\ \/ b = "hold_exit" /\ latch' = FALSE /\ Handled(<<>>)
     \/ b # "hold_exit" /\ UNCHANGED latch /\ Passed

ChargingHandler(b) ==
  \/ /\ b = "enter"
     /\ latch' = TRUE
     /\ Leave("charging")
     /\ Handled(<<Do(IF container["charging"] = NoEntry THEN "menu_show" ELSE "app_exit_cb")>>)
     /\ UNCHANGED <<selected, in_app, lists, highlighted, container>>
  \/ b # "enter" /\ Passed /\ UNCHANGED volatile

\* What an app does with other buttons does not concern the menu.
AppHandler(h, b) ==
  \/ /\ b = "exit"
     /\ Leave(h)
     /\ Handled(<<Do("app_exit_cb")>>)
     /\ UNCHANGED <<selected, in_app, lists, highlighted, container, latch>>
  \/ b # "exit" /\ Passed /\ UNCHANGED volatile
  \/ b \notin {"exit", "hold_exit"} /\ Handled(<<>>) /\ UNCHANGED volatile

MenuHandler(b) ==
  \/ /\ b \in {"up", "down"}
     /\ Move(IF b = "up" THEN -1 ELSE 1)
     /\ Passed
     /\ UNCHANGED <<in_app, enabled, visible, container, latch>>
  \/ /\ b = "exit" /\ ParentOf(selected) # menutree_root
     /\ Back(ParentOf(selected))
     /\ Handled(<<>>)
     /\ UNCHANGED <<in_app, enabled, visible, container, latch>>
  \/ /\ b = "enter" /\ selected \in Apps /\ ~in_app
     /\ enter_app(selected)
     /\ Handled(EnterSteps(selected))
     /\ UNCHANGED <<selected, lists, highlighted, container, latch>>
  \/ /\ b = "enter" /\ selected \in Submenus /\ Entries[selected] # <<>>
     /\ OpenSubmenu(selected)
     /\ Handled(<<>>)
     /\ UNCHANGED <<in_app, enabled, visible, container, latch>>
  \/ /\ \/ b = "hold_exit"
        \/ b = "exit" /\ ParentOf(selected) = menutree_root
        \/ b = "enter" /\ selected \in Apps /\ in_app
        \/ b = "enter" /\ selected \in Submenus /\ Entries[selected] = <<>>
     /\ Passed
     /\ UNCHANGED volatile

\* dispatch_event.  What main has still to do when an event changes something
\* is noted.
dispatch_event ==
  LET b == Now("buttons").entry
      h == Now("buttons").handler
  IN
  /\ Busy("buttons") /\ Now("buttons").op = "dispatch"
  /\ CASE h = "shutdown" -> ShutdownHandler(b)
       [] h = "charging" -> ChargingHandler(b)
       [] h = "menu" -> MenuHandler(b)
       [] OTHER -> AppHandler(h, b)
  /\ raced' = IF UNCHANGED <<selected, in_app, screenVars>> THEN raced
              ELSE raced \cup {todo["main"][k].op : k \in 1..Len(todo["main"])}
  /\ UNCHANGED <<default_app, presses, resets>>

-------------------------------------------------------------------------------
(* Power on, and the loss of power.                                         *)

AfterReset ==
  [selected |-> NoEntry, in_app |-> FALSE, enabled |-> {"shutdown"}, visible |-> {},
   lists |-> {}, highlighted |-> [s \in Submenus |-> NoEntry],
   container |-> [h \in Handlers |-> NoEntry], latch |-> TRUE,
   todo |-> [t \in Threads |-> IF t = "main" THEN <<Do("menutree_init")>> ELSE <<>>]]

MenuInit ==
  /\ selected = AfterReset.selected /\ in_app = AfterReset.in_app
  /\ enabled = AfterReset.enabled /\ visible = AfterReset.visible
  /\ lists = AfterReset.lists /\ highlighted = AfterReset.highlighted
  /\ container = AfterReset.container /\ latch = AfterReset.latch
  /\ todo = AfterReset.todo
  /\ default_app = NoEntry /\ presses = 0 /\ resets = 0 /\ raced = {}

\* At any moment: the battery is empty, the device is reset, or it is switched
\* off and on.
Reset ==
  /\ resets < MaxResets
  /\ resets' = resets + 1
  /\ selected' = AfterReset.selected /\ in_app' = AfterReset.in_app
  /\ enabled' = AfterReset.enabled /\ visible' = AfterReset.visible
  /\ lists' = AfterReset.lists /\ highlighted' = AfterReset.highlighted
  /\ container' = AfterReset.container /\ latch' = AfterReset.latch
  /\ todo' = AfterReset.todo /\ raced' = {}
  /\ UNCHANGED <<default_app, presses>>

\* The app that is to be started becomes the active one.
menutree_init ==
  /\ Busy("main") /\ Now("main").op = "menutree_init"
  /\ selected' = default_app
  /\ in_app' = (default_app # NoEntry)
  /\ Calls("main", <<Do("app_main")>>)
  /\ UNCHANGED <<screenVars, latch, default_app, presses, resets, raced>>

\* On battery the menu is shown, on USB the charging screen.
app_main ==
  /\ Busy("main") /\ Now("main").op = "app_main"
  /\ \/ /\ Calls("main", <<Do("menu_show")>>)
        /\ UNCHANGED <<screenVars, latch>>
     \/ /\ latch' = FALSE
        /\ charging_screen_show
        /\ Returns("main")
        /\ UNCHANGED <<lists, highlighted, container>>
  /\ UNCHANGED <<selected, in_app, default_app, presses, resets, raced>>

Thread(t) ==
  menu_show(t) \/ show_list(t) \/ app_exit_cb(t) \/ on_app_entry(t) \/ on_app_exit(t) \/ run(t)

MenuNext ==
  \/ \E t \in Threads : Thread(t)
  \/ \E b \in Events : process_button_event(b)
  \/ dispatch_event
  \/ menutree_init \/ app_main
  \/ Reset

MenuSpec == MenuInit /\ [][MenuNext]_menuVars

-------------------------------------------------------------------------------
(* Properties.                                                              *)

StepOK(s) ==
  /\ s.op \in {"menutree_init", "app_main", "menu_show", "show_list", "app_exit_cb",
               "on_app_entry", "on_app_exit", "run", "dispatch"}
  /\ s.handler \in Handlers
  /\ s.op \in {"run", "on_app_entry", "show_list"} => s.entry \in Apps
  /\ s.op = "dispatch" => s.entry \in Events

\* The values of the variables; the stacks do not grow.
MenuTypeOK ==
  /\ selected \in Items \cup {NoEntry} /\ in_app \in BOOLEAN
  /\ enabled \subseteq Handlers
  /\ visible \subseteq (Apps \ Toggles) \cup {"menu", "charging"}
  /\ lists \subseteq Submenus /\ highlighted \in [Submenus -> Items \cup {NoEntry}]
  /\ container \in [Handlers -> Apps \cup {NoEntry}] /\ latch \in BOOLEAN
  /\ DOMAIN todo = Threads
  /\ \A t \in Threads : \A k \in 1..Len(todo[t]) : StepOK(todo[t][k])
  /\ Len(todo["main"]) <= 5
  /\ default_app \in (Apps \ Unnamed) \cup {NoEntry}
  /\ presses \in 0..MaxPresses /\ resets \in 0..MaxResets

\* When nothing is under way exactly one screen is shown, its handler is the
\* one that is enabled, beside that of the power button, and the menu agrees:
\* the buttons are never taken by two parts at once, nor by none.  Left out is
\* a start that overlaps with a press while main has still to show the list: an app
\* that returns at once has then shown the menu already, and the app that the
\* press entered is shown with the menu over it.
OneScreen ==
  Idle /\ "show_list" \notin raced =>
    \E s \in (Apps \ Toggles) \cup {"menu", "charging"} :
      /\ visible = {s}
      /\ enabled = {"shutdown", IF s \in Apps THEN HandlerOf[s] ELSE s}
      /\ s = "menu" => ~in_app
      /\ s \in Apps => in_app /\ selected = s
      /\ s = "charging" => ~latch

\* When the menu is shown one list is not hidden, the one with the selected
\* entry, which is highlighted: what is selected is what the user sees.
MenuShowsSelected ==
  Idle /\ visible = {"menu"} /\ "show_list" \notin raced =>
    lists = {ParentOf(selected)} /\ highlighted[ParentOf(selected)] = selected

\* The app in flash is the active one, and none when the menu is shown, so the
\* device starts again as it was.  Left out are the starts in which a press changed
\* something while main had still to call on_app_entry or to show the list.  EXIT
\* between the app's run (menu.c:67) and main's on_app_entry (68-70) stores that
\* no app is active before main stores the app: it stays in flash while the menu
\* is shown, and the device starts with it.
DefaultAppIsActive ==
  Idle /\ raced \cap {"show_list", "on_app_entry"} = {} =>
    default_app = IF in_app /\ selected \notin Unnamed THEN selected ELSE NoEntry
================================================================================
