-------------------------------- MODULE Buttons --------------------------------
(***************************************************************************)
(* main/src/buttons.c up to the dispatch of events: the GPIO interrupt,    *)
(* the queue, the debouncing of the levels and the detection of holds.     *)
(*                                                                         *)
(*   pins --edge--> button_isr --queue--> button_event_loop                *)
(*                                            | process_gpio_event         *)
(*                                            v                            *)
(*      esp_timer <--debounce_set_timer-- button_state                     *)
(*          |                                 ^                            *)
(*          +--> debounce_timer_elapsed_cb ---+--queue--> button events    *)
(*                                                                         *)
(* button_state, the dispatched flags and the timer's variables are        *)
(* touched under button_mutex only, so that of button_event_loop's is one  *)
(* action; the timer callback's is one for every button, because the       *)
(* interrupt and buttons_emulate_press send to the queue at any time, and  *)
(* it reads the time before it waits for the mutex.  A full queue drops    *)
(* what is sent to it.                                                     *)
(*                                                                         *)
(* Times are in microseconds, of which UsPerMs make a millisecond.         *)
(***************************************************************************)
EXTENDS Integers, Sequences, FiniteSets, SequencesExt

CONSTANTS
  NumButtons,           \* ARRAY_SIZE(buttons)
  ActiveLow,            \* the buttons that read 0 while pressed
  HoldHandlers,         \* the registered single button handlers for HOLD
  HoldButton,           \* their button, by handler
  MinHold,              \* their min_hold_duration_ms, by handler
  Debounce,             \* GPIO_DEBOUNCE_INTERVAL_MS
  UsPerMs,              \* 1000
  QueueLength,          \* GPIO_EVENT_QUEUE_LENGTH
  Emulated,             \* the buttons buttons_emulate_press is called for
  MaxTime,              \* bound of the clock
  LastEdge              \* bound of the time of an edge, where time is prompt

Buttons == 1..NumButtons

ASSUME ButtonsAssumption ==
  /\ NumButtons \in Nat \ {0} /\ ActiveLow \subseteq Buttons /\ Emulated \subseteq Buttons
  /\ IsFiniteSet(HoldHandlers)
  /\ HoldButton \in [HoldHandlers -> Buttons] /\ MinHold \in [HoldHandlers -> Nat]
  /\ Debounce \in Nat \ {0} /\ UsPerMs \in Nat \ {0}
  /\ QueueLength \in Nat /\ MaxTime \in Nat /\ LastEdge \in Nat

Off == -1               \* the esp_timer is not armed; no deadline

VARIABLES
  clock,                \* esp_timer_get_time()
  pin,                  \* gpio_get_level() # 0, by button
  irq,                  \* the pins with a latched edge button_isr has not seen
  queue,                \* gpio_event_queue
  lost,                 \* history: the type and the button of the events dropped
  last_level,
  debounce_deadline_us,
  debounced_level,
  last_button_press,
  dispatched,           \* by HOLD handler
  debounce_timer_active,
  debounce_timer_deadline,
  alarm,                \* esp_timer: when debounce_timer expires, or Off
  esp_timer,            \* "elapsed": debounce_timer_elapsed_cb waits for the mutex
  now,                  \* its local variables
  i,                    \* the button it looks at next
  next_deadline

state == <<last_level, debounce_deadline_us, debounced_level, last_button_press, dispatched>>
timer == <<debounce_timer_active, debounce_timer_deadline, alarm, esp_timer, now, i, next_deadline>>
vars == <<clock, pin, irq, queue, lost, state, timer>>

GpioEvent(b, timestamp, level) ==
  [type |-> "gpio", button |-> b, timestamp |-> timestamp, level |-> level]

\* emulated is no field of the code's: it tells the events of
\* buttons_emulate_press from those of a pin.
ButtonEvent(b, action, press_duration_ms, emulated) ==
  [type |-> "button", button |-> b, action |-> action,
   press_duration_ms |-> press_duration_ms, emulated |-> emulated]

\* DIV_ROUND(us, 1000)
ToMs(us) == (us + UsPerMs \div 2) \div UsPerMs

\* A level of button b that button_is_pressed takes for pressed.
IsPressed(b, level) == level # (b \in ActiveLow)
button_is_pressed(b) == IsPressed(b, debounced_level[b])

Event ==
  [type : {"gpio"}, button : Buttons, timestamp : 0..MaxTime, level : BOOLEAN]
    \cup [type : {"button"}, button : Buttons, action : {"press", "hold", "release"},
          press_duration_ms : Nat, emulated : BOOLEAN]

TypeOK ==
  /\ clock \in 0..MaxTime /\ now \in 0..MaxTime
  /\ pin \in [Buttons -> BOOLEAN] /\ irq \subseteq Buttons
  /\ queue \in Seq(Event)
  /\ Len(queue) <= QueueLength
  /\ lost \subseteq {"gpio", "button"} \X Buttons
  /\ last_level \in [Buttons -> BOOLEAN] /\ debounced_level \in [Buttons -> BOOLEAN]
  /\ debounce_deadline_us \in [Buttons -> Nat] /\ last_button_press \in [Buttons -> 0..MaxTime]
  /\ dispatched \in [HoldHandlers -> BOOLEAN]
  /\ debounce_timer_active \in BOOLEAN /\ debounce_timer_deadline \in Nat \cup {Off}
  /\ alarm \in Nat \cup {Off}
  /\ esp_timer \in {"idle", "elapsed"}
  /\ i \in Buttons /\ next_deadline \in Nat \cup {Off}

\* After buttons_init; a button may have been held since power-on, and EXIT,
\* which powers the device on, usually is.
Init ==
  /\ clock = 0 /\ now = 0
  /\ pin \in [Buttons -> BOOLEAN] /\ irq = {}
  /\ queue = <<>> /\ lost = {}
  /\ last_level = pin /\ debounced_level = pin
  /\ debounce_deadline_us = [b \in Buttons |-> 0]
  /\ last_button_press = [b \in Buttons |-> 0]
  /\ dispatched = [h \in HoldHandlers |-> FALSE]
  /\ debounce_timer_active = FALSE /\ debounce_timer_deadline = Off
  /\ alarm = Off /\ esp_timer = "idle" /\ i = 1 /\ next_deadline = Off

\* xQueueSendToBack with no time to wait, and xQueueSendToBackFromISR.
Send(events) ==
  LET all == queue \o events
      room == QueueLength - Len(queue)
  IN  /\ queue' = SubSeq(all, 1, IF Len(events) <= room THEN Len(all) ELSE QueueLength)
      /\ lost' = lost \cup {<<events[n].type, events[n].button>> : n \in {n \in DOMAIN events : n > room}}

-------------------------------------------------------------------------------
(* The pins and the interrupt.                                              *)

Edge(b) ==
  /\ pin' = [pin EXCEPT ![b] = ~@]
  /\ irq' = irq \cup {b}
  /\ UNCHANGED <<clock, queue, lost, state, timer>>

button_isr(b) ==
  /\ b \in irq
  /\ irq' = irq \ {b}
  /\ Send(<<GpioEvent(b, clock, pin[b])>>)
  /\ UNCHANGED <<clock, pin, state, timer>>

-------------------------------------------------------------------------------
(* button_event_loop                                                        *)

\* The debounce interval starts at the time of the edge, the timer at the
\* time the edge is looked at.  A timer that is armed for a later time, for a
\* hold, is restarted.
debounce_set_timer ==
  LET then == clock + Debounce * UsPerMs
  IN  IF debounce_timer_active /\ then >= debounce_timer_deadline
        THEN UNCHANGED timer
        ELSE /\ debounce_timer_active' = TRUE
             /\ debounce_timer_deadline' = then
             /\ alarm' = IF debounce_timer_active \/ alarm = Off THEN then ELSE alarm
             /\ UNCHANGED <<esp_timer, now, i, next_deadline>>

\* The timer callback has the mutex from its first look at a button to its
\* last.  An event that waits for it is left in the queue here.
MutexFree == i = 1

\* Mutant: edges within the debounce interval are ignored.
IgnoreBounces(event) ==
  /\ event.type = "gpio"
  /\ IF event.level # last_level[event.button]
        /\ event.timestamp >= debounce_deadline_us[event.button]
       THEN /\ MutexFree
            /\ last_level' = [last_level EXCEPT ![event.button] = event.level]
            /\ debounce_deadline_us' = [debounce_deadline_us EXCEPT
                 ![event.button] = event.timestamp + Debounce * UsPerMs]
            /\ debounce_set_timer
       ELSE UNCHANGED <<last_level, debounce_deadline_us, timer>>
  /\ UNCHANGED <<debounced_level, last_button_press, dispatched>>

process_gpio_event(event) ==
  /\ event.type = "gpio"
  /\ IF event.level # last_level[event.button]
       THEN /\ MutexFree
            /\ last_level' = [last_level EXCEPT ![event.button] = event.level]
            /\ debounce_deadline_us' = [debounce_deadline_us EXCEPT
                 ![event.button] = event.timestamp + Debounce * UsPerMs]
            /\ debounce_set_timer
       ELSE UNCHANGED <<last_level, debounce_deadline_us, timer>>
  /\ UNCHANGED <<debounced_level, last_button_press, dispatched>>

\* process_button_event changes none of this state: ButtonDispatch.
process_button_event(event) ==
  /\ event.type = "button"
  /\ UNCHANGED <<state, timer>>

button_event_loop ==
  /\ queue # <<>>
  /\ queue' = Tail(queue)
  /\ process_gpio_event(Head(queue)) \/ process_button_event(Head(queue))
  /\ UNCHANGED <<clock, pin, irq, lost>>

-------------------------------------------------------------------------------
(* debounce_timer_elapsed_cb                                                *)

TimerExpires ==
  /\ esp_timer = "idle" /\ alarm # Off /\ alarm <= clock
  /\ alarm' = Off
  /\ esp_timer' = "elapsed"
  /\ now' = clock
  /\ UNCHANGED <<clock, pin, irq, queue, lost, state, debounce_timer_active,
                 debounce_timer_deadline, i, next_deadline>>

\* What the callback makes of each button and each handler.
Settled(b) == now >= debounce_deadline_us[b]
Changed(b) == Settled(b) /\ last_level[b] # debounced_level[b]
NewLevel(b) == IF Settled(b) THEN last_level[b] ELSE debounced_level[b]
NewPress(b) == IF Changed(b) /\ IsPressed(b, last_level[b]) THEN now ELSE last_button_press[b]
Released(b) == Changed(b) /\ ~IsPressed(b, last_level[b])
Held(b) == Settled(b) /\ IsPressed(b, last_level[b])

\* Mutants: the hold starts over with every look at it; it is measured from
\* the press before.
HoldFromNow(h) == now + MinHold[h] * UsPerMs
HoldFromLastPress(h) == last_button_press[HoldButton[h]] + MinHold[h] * UsPerMs

HoldDeadline(h) == NewPress(HoldButton[h]) + MinHold[h] * UsPerMs

\* Mutant: a handler is sent a hold again and again.
HoldRepeats(h) == Held(HoldButton[h])

HoldOpen(h) == Held(HoldButton[h]) /\ ~dispatched[h]
HoldElapsed(h) == HoldOpen(h) /\ now > HoldDeadline(h)

\* debounced_level_changed, then handle_button_held
LevelEvents(b) ==
  IF ~Changed(b) THEN <<>>
  ELSE IF IsPressed(b, last_level[b]) THEN <<ButtonEvent(b, "press", 0, FALSE)>>
  ELSE <<ButtonEvent(b, "release", ToMs(now - last_button_press[b]), FALSE)>>
HoldEvents(b) ==
  [n \in 1..Cardinality({h \in HoldHandlers : HoldButton[h] = b /\ HoldElapsed(h)}) |->
     ButtonEvent(b, "hold", ToMs(now - NewPress(b)), FALSE)]

\* Mutants: the timer is set for one of the two reasons only.
HoldDeadlines(b) ==
  {HoldDeadline(h) : h \in {h \in HoldHandlers :
     HoldButton[h] = b /\ HoldOpen(h) /\ ~HoldElapsed(h)}}
DebounceDeadlines(b) == IF Settled(b) THEN {} ELSE {debounce_deadline_us[b]}

ButtonDeadlines(b) ==
  IF Settled(b)
    THEN {HoldDeadline(h) : h \in {h \in HoldHandlers :
            HoldButton[h] = b /\ HoldOpen(h) /\ ~HoldElapsed(h)}}
    ELSE {debounce_deadline_us[b]}

\* The next_deadline after a look at button b.
NextDeadline(b) ==
  LET deadlines == ButtonDeadlines(b) \cup ({next_deadline} \ {Off})
  IN  IF deadlines = {} THEN Off
      ELSE CHOOSE d \in deadlines : \A e \in deadlines : d <= e

\* The loop is over: the timer is started again, or marked inactive.
SetTimer(deadline) ==
  IF deadline = Off
    THEN /\ debounce_timer_active' = FALSE
         /\ UNCHANGED <<debounce_timer_deadline, alarm>>
    ELSE LET delay_us == IF deadline > now THEN deadline - now ELSE 1
         IN  /\ alarm' = IF alarm = Off THEN clock + delay_us ELSE alarm
             /\ debounce_timer_deadline' = deadline
             /\ UNCHANGED debounce_timer_active

\* One turn of the loop; the mutex is taken before the first and given back
\* after the last.
debounce_timer_elapsed_cb ==
  /\ esp_timer = "elapsed"
  /\ debounced_level' = [debounced_level EXCEPT ![i] = NewLevel(i)]
  /\ last_button_press' = [last_button_press EXCEPT ![i] = NewPress(i)]
  /\ dispatched' = [h \in HoldHandlers |->
       IF HoldButton[h] = i THEN (dispatched[h] /\ ~Released(i)) \/ HoldElapsed(h)
       ELSE dispatched[h]]
  /\ Send(LevelEvents(i) \o HoldEvents(i))
  /\ IF i < NumButtons
       THEN /\ i' = i + 1
            /\ next_deadline' = NextDeadline(i)
            /\ UNCHANGED <<esp_timer, debounce_timer_active, debounce_timer_deadline, alarm>>
       ELSE /\ i' = 1
            /\ next_deadline' = Off
            /\ esp_timer' = "idle"
            /\ SetTimer(NextDeadline(i))
  /\ UNCHANGED <<clock, pin, irq, last_level, debounce_deadline_us, now>>

-------------------------------------------------------------------------------
\* The button emulator task of main.c.
buttons_emulate_press(b, press_duration_ms) ==
  /\ Send(<<ButtonEvent(b, "press", 0, TRUE), ButtonEvent(b, "release", press_duration_ms, TRUE)>>)
  /\ UNCHANGED <<clock, pin, irq, state, timer>>

Tick ==
  /\ clock < MaxTime
  /\ clock' = clock + 1
  /\ UNCHANGED <<pin, irq, queue, lost, state, timer>>

EspTimerTask == TimerExpires \/ debounce_timer_elapsed_cb

Next ==
  \/ \E b \in Buttons : Edge(b) \/ button_isr(b)
  \/ \E b \in Emulated : buttons_emulate_press(b, 1)
  \/ button_event_loop \/ EspTimerTask \/ Tick

SafetySpec == Init /\ [][Next]_vars

\* For the liveness properties: what happened is handled in less than a tick,
\* as it is in a millisecond, and the pins come to rest.
Handled ==
  /\ irq = {} /\ queue = <<>> /\ esp_timer = "idle"
  /\ alarm # Off => alarm > clock

PromptTick == Handled /\ Tick
PromptEdge(b) == clock <= LastEdge /\ irq = {} /\ queue = <<>> /\ Edge(b)

PromptNext ==
  \/ \E b \in Buttons : PromptEdge(b) \/ button_isr(b)
  \/ button_event_loop \/ EspTimerTask \/ PromptTick

\* Interrupts are served, the two tasks run when they can, and time passes
\* however often the pins change.
Fairness ==
  /\ \A b \in Buttons : WF_vars(button_isr(b))
  /\ WF_vars(button_event_loop) /\ WF_vars(EspTimerTask) /\ SF_vars(PromptTick)

PromptSpec == Init /\ [][PromptNext]_vars /\ Fairness

-------------------------------------------------------------------------------
(* Properties.                                                              *)

\* debounce_timer_active tells the truth: the timer is armed, or its callback
\* is on its way, and never both, so that no esp_timer_start_once fails and no
\* timer is left without its mark, although a callback that waits for the
\* mutex cannot be stopped.
TimerMarked ==
  /\ debounce_timer_active <=> alarm # Off \/ esp_timer = "elapsed"
  /\ ~(alarm # Off /\ esp_timer = "elapsed")

\* While a level is to be debounced, or a hold to be detected, the timer will
\* look at it.  A button held since power-on is not looked at.
NothingForgotten ==
  /\ \A b \in Buttons : last_level[b] # debounced_level[b] => debounce_timer_active
  /\ \A h \in HoldHandlers :
       LET b == HoldButton[h]
       IN  button_is_pressed(b) /\ last_button_press[b] > 0 /\ ~dispatched[h]
             => debounce_timer_active

\* The places in the queue of the events of a button's pin, and of the events
\* its debounced level led to.
GpioEvents(b) == {n \in DOMAIN queue : queue[n].type = "gpio" /\ queue[n].button = b}
ButtonEvents(b) ==
  {n \in DOMAIN queue : queue[n].type = "button" /\ queue[n].button = b /\ ~queue[n].emulated}

\* Unless the queue was full, the newest level known to the program, in the
\* queue or in last_level, is that of the pin once the interrupt was served.
LevelTracked ==
  \A b \in Buttons :
    b \notin irq /\ <<"gpio", b>> \notin lost =>
      \/ GpioEvents(b) = {} /\ last_level[b] = pin[b]
      \/ \E newest \in GpioEvents(b) :
           (\A n \in GpioEvents(b) : n <= newest) /\ queue[newest].level = pin[b]

\* The holds at the end of the events of a button, and the handlers that were
\* sent theirs.
LastHolds(b) ==
  {n \in ButtonEvents(b) : \A m \in ButtonEvents(b) : m >= n => queue[m].action = "hold"}
Dispatched(b) == {h \in HoldHandlers : HoldButton[h] = b /\ dispatched[h]}

\* Unless the queue was full, the events of a press come in the order press,
\* holds, release, at most one hold for each handler, and the last of them
\* tells the debounced level.
Follow == [press |-> {"hold", "release"}, hold |-> {"hold", "release"}, release |-> {"press"}]
InOrder(b) ==
  \A m, n \in ButtonEvents(b) :
    m < n /\ (\A k \in ButtonEvents(b) : k <= m \/ n <= k)
      => queue[n].action \in Follow[queue[m].action]
LastTellsLevel(b) ==
  \A m \in ButtonEvents(b) :
    (\A k \in ButtonEvents(b) : k <= m) => (queue[m].action # "release" <=> button_is_pressed(b))
EventsInOrder(b) ==
  /\ InOrder(b)
  /\ LastTellsLevel(b)
  /\ Cardinality(LastHolds(b)) <= Cardinality(Dispatched(b))
  /\ ButtonEvents(b) # {} /\ LastHolds(b) = {} => Dispatched(b) = {}
EventOrder == \A b \in Buttons : <<"button", b>> \notin lost => EventsInOrder(b)

\* A hold event is long enough for a handler it is sent for, in the
\* milliseconds the handler compares, after the rounding.
HoldEventsMatch ==
  \A e \in ToSet(queue) :
    e.type = "button" /\ e.action = "hold" =>
      \E h \in HoldHandlers : HoldButton[h] = e.button /\ e.press_duration_ms >= MinHold[h]

\* Once a pin is at rest its level is the debounced one, unless an edge was
\* dropped.
LevelsSettle ==
  \A b \in Buttons : <>[](debounced_level[b] = pin[b] \/ <<"gpio", b>> \in lost)

\* A press is held long enough for a handler, or ends.
HoldsDetected ==
  \A h \in HoldHandlers :
    LET b == HoldButton[h]
    IN  button_is_pressed(b) /\ last_button_press[b] > 0
          ~> dispatched[h] \/ ~button_is_pressed(b)
===============================================================================
