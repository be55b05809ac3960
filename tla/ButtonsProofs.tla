----------------------------- MODULE ButtonsProofs -----------------------------
(***************************************************************************)
(* buttons.c for any number of buttons and handlers and a queue of any     *)
(* length.  First the debounce timer: the types, the truth of              *)
(* debounce_timer_active, and that no level and no hold is forgotten.      *)
(* Then what is in the queue: the newest level of each pin, the order of   *)
(* the events of each button, and that hold events are long enough.        *)
(***************************************************************************)
EXTENDS Buttons, SequenceTheorems, FiniteSetTheorems, WellFoundedInduction, TLAPS

(* The invariant.  The timer never expires before the deadline it was set  *)
(* for, so that while its callback waits no edge can want it any earlier;  *)
(* and what the callback has found open is in its next deadline.           *)

\* The program has still to look at button b.
HoldIsOpen(b, h) ==
  button_is_pressed(b) /\ last_button_press[b] > 0 /\ ~dispatched[h]
IsOpen(b) ==
  \/ last_level[b] # debounced_level[b]
  \/ \E h \in HoldHandlers : HoldButton[h] = b /\ HoldIsOpen(b, h)

TimesInv ==
  /\ now <= clock
  /\ \A b \in Buttons : last_button_press[b] <= now
  /\ alarm # Off => debounce_timer_deadline \in Nat /\ debounce_timer_deadline <= alarm
  /\ esp_timer = "elapsed" => debounce_timer_deadline \in Nat /\ debounce_timer_deadline <= clock

LoopInv ==
  /\ esp_timer = "idle" => i = 1 /\ next_deadline = Off
  /\ \A b \in 1..i - 1 : IsOpen(b) => next_deadline # Off

ButtonsInv == TypeOK /\ TimesInv /\ TimerMarked /\ LoopInv /\ NothingForgotten

-------------------------------------------------------------------------------
(* Sending and the deadlines.                                               *)

\* Rounding keeps a duration a natural number.
LEMMA ToMsType == ASSUME NEW us \in Nat PROVE ToMs(us) \in Nat
<1>1. UsPerMs \in Nat \ {0} BY ButtonsAssumption
<1>2. UsPerMs \div 2 \in Nat BY <1>1
<1>3. \A a \in Nat, d \in Nat \ {0} : a \div d \in Nat BY Z3
<1> QED BY <1>1, <1>2, <1>3 DEF ToMs

\* A queue stays a queue of at most its length, and what is dropped is noted.
LEMMA SendType ==
  ASSUME queue \in Seq(Event), Len(queue) <= QueueLength,
         lost \subseteq {"gpio", "button"} \X Buttons,
         NEW events \in Seq(Event), Send(events)
  PROVE  /\ queue' \in Seq(Event)
         /\ Len(queue') <= QueueLength
         /\ lost' \subseteq {"gpio", "button"} \X Buttons
<1> DEFINE all == queue \o events
           room == QueueLength - Len(queue)
           n == IF Len(events) <= room THEN Len(all) ELSE QueueLength
<1>1. QueueLength \in Nat BY ButtonsAssumption
<1>2. all \in Seq(Event) /\ Len(all) = Len(queue) + Len(events) BY ConcatProperties
<1>3. Len(queue) \in Nat /\ Len(events) \in Nat BY LenProperties
<1>4. n \in 0..Len(all) /\ n <= QueueLength BY <1>1, <1>2, <1>3
<1>5. queue' = SubSeq(all, 1, n) BY DEF Send
<1>6. queue' \in Seq(Event) /\ Len(queue') = n
  <2> HIDE DEF n, all
  <2>1. CASE n = 0
    BY <2>1, <1>2, <1>5, SubSeqProperties
  <2>2. CASE n # 0
    BY <2>2, <1>2, <1>4, <1>5, SubSeqProperties
  <2> QED BY <2>1, <2>2
<1>7. \A k \in DOMAIN events : events[k] \in Event BY ElementOfSeq, LenProperties
<1>8. \A e \in Event : <<e.type, e.button>> \in {"gpio", "button"} \X Buttons BY DEF Event
<1>9. lost' \subseteq {"gpio", "button"} \X Buttons BY <1>7, <1>8 DEF Send
<1> QED BY <1>4, <1>6, <1>9

\* A set of natural numbers has an earliest.
LEMMA Earliest ==
  ASSUME NEW S, S \subseteq Nat, S # {}
  PROVE  \E d \in S : \A e \in S : d <= e
<1> DEFINE upto(d) == 0..d
           R == StrictSubsetOrdering(Nat)
           T == {upto(d) : d \in S}
<1>1. IsWellFoundedOn(R, FiniteSubsetsOf(Nat)) BY FS_StrictSubsetOrderingWellFounded
<1>2. T \subseteq FiniteSubsetsOf(Nat)
  <2>1. \A d \in Nat : IsFiniteSet(upto(d)) BY FS_Interval
  <2>2. \A d \in Nat : upto(d) \in SUBSET Nat OBVIOUS
  <2> HIDE DEF upto
  <2> QED BY <2>1, <2>2 DEF FiniteSubsetsOf
<1>3. T # {} OBVIOUS
<1>4. \E x \in T : \A y \in T : ~(<<y, x>> \in R)
  <2> HIDE DEF T, R
  <2> QED BY <1>1, <1>2, <1>3, WFMin
<1>5. PICK d \in S : \A e \in S : ~(<<upto(e), upto(d)>> \in R) BY <1>4
<1>6. ASSUME NEW e \in S, e < d PROVE FALSE
  <2>1. upto(e) \subseteq upto(d) /\ d \in upto(d) /\ d \notin upto(e) BY <1>6
  <2>2. upto(e) \subseteq Nat /\ upto(d) \subseteq Nat OBVIOUS
  <2>3. <<upto(e), upto(d)>> \in R
    <3> HIDE DEF upto
    <3> QED BY <2>1, <2>2 DEF StrictSubsetOrdering
  <2> QED BY <2>3, <1>5
<1> QED BY <1>6

LEMMA ConstantTypes ==
  /\ Debounce * UsPerMs \in Nat \ {0}
  /\ \A h \in HoldHandlers : MinHold[h] * UsPerMs \in Nat /\ HoldButton[h] \in Buttons
<1>1. \A a, c \in Nat : a * c \in Nat BY Z3
<1>2. \A a, c \in Nat \ {0} : a * c # 0 BY Z3
<1> QED BY <1>1, <1>2, ButtonsAssumption

\* The deadlines of a button are times, and the next deadline is one of those
\* there are.
LEMMA NextDeadlineType ==
  ASSUME TypeOK, NEW b \in Buttons
  PROVE  /\ NextDeadline(b) \in Nat \cup {Off}
         /\ ButtonDeadlines(b) # {} \/ next_deadline # Off => NextDeadline(b) # Off
<1> DEFINE deadlines == ButtonDeadlines(b) \cup ({next_deadline} \ {Off})
<1>1. \A h \in HoldHandlers : HoldDeadline(h) \in Nat
  BY ConstantTypes DEF TypeOK, HoldDeadline, NewPress
<1>2. ButtonDeadlines(b) \subseteq Nat BY <1>1 DEF ButtonDeadlines, TypeOK
<1>3. deadlines \subseteq Nat BY <1>2 DEF TypeOK
<1>4. NextDeadline(b) = IF deadlines = {} THEN Off
                        ELSE CHOOSE d \in deadlines : \A e \in deadlines : d <= e
  BY DEF NextDeadline
<1>5. Off \notin Nat BY DEF Off
<1>6. CASE deadlines = {} BY <1>4, <1>6
<1>7. CASE deadlines # {}
  <2> HIDE DEF deadlines
  <2>1. NextDeadline(b) \in deadlines BY <1>3, <1>4, <1>7, Earliest
  <2> QED BY <2>1, <1>3, <1>5
<1> QED BY <1>6, <1>7

\* What the callback makes of a button.
LEMMA LookTypes ==
  ASSUME TypeOK, TimesInv, NEW b \in Buttons
  PROVE  /\ NewLevel(b) \in BOOLEAN
         /\ NewPress(b) \in 0..now
         /\ LevelEvents(b) \o HoldEvents(b) \in Seq(Event)
<1>1. now \in 0..MaxTime /\ last_button_press[b] \in 0..now BY DEF TypeOK, TimesInv
<1>2. NewPress(b) \in 0..now BY <1>1 DEF NewPress
<1>3. \A act \in {"press", "hold", "release"}, ms \in Nat : ButtonEvent(b, act, ms, FALSE) \in Event
  BY DEF Event, ButtonEvent
<1>4. ToMs(now - last_button_press[b]) \in Nat /\ ToMs(now - NewPress(b)) \in Nat
  BY <1>1, <1>2, ToMsType
<1>5. LevelEvents(b) \in Seq(Event)
  <2>1. <<>> \in Seq(Event) BY EmptySeq
  <2>2. \A e \in Event : <<e>> \in Seq(Event) OBVIOUS
  <2> QED BY <1>3, <1>4, <2>1, <2>2 DEF LevelEvents
<1>6. HoldEvents(b) \in Seq(Event)
  <2> DEFINE H == {h \in HoldHandlers : HoldButton[h] = b /\ HoldElapsed(h)}
             e == ButtonEvent(b, "hold", ToMs(now - NewPress(b)), FALSE)
  <2>1. IsFiniteSet(H) BY ButtonsAssumption, FS_Subset
  <2>2. Cardinality(H) \in Nat
    <3> HIDE DEF H
    <3> QED BY <2>1, FS_CardinalityType
  <2>3. e \in Event BY <1>3, <1>4
  <2>4. HoldEvents(b) = [n \in 1..Cardinality(H) |-> e] BY DEF HoldEvents
  <2> HIDE DEF H, e
  <2> QED BY <2>2, <2>3, <2>4, IsASeq
<1>7. NewLevel(b) \in BOOLEAN BY DEF NewLevel, TypeOK
<1> QED BY <1>2, <1>5, <1>6, <1>7, ConcatProperties

-------------------------------------------------------------------------------
(* The steps.                                                               *)

\* Steps that only send, take from the queue or let time pass.
LEMMA StateKept ==
  ASSUME ButtonsInv, UNCHANGED <<state, timer>>,
         clock' \in 0..MaxTime, clock <= clock',
         pin' \in [Buttons -> BOOLEAN], irq' \subseteq Buttons,
         queue' \in Seq(Event), Len(queue') <= QueueLength,
         lost' \subseteq {"gpio", "button"} \X Buttons
  PROVE  ButtonsInv'
<1>1. TypeOK' BY DEF ButtonsInv, TypeOK, state, timer
<1>2. TimesInv'
  <2>1. clock \in Nat /\ clock' \in Nat /\ now \in Nat BY DEF ButtonsInv, TypeOK
  <2> QED BY <2>1 DEF ButtonsInv, TimesInv, state, timer
<1>3. TimerMarked' BY DEF ButtonsInv, TimerMarked, timer
<1>4. LoopInv' BY DEF ButtonsInv, LoopInv, IsOpen, HoldIsOpen, button_is_pressed, IsPressed, state, timer
<1>5. NothingForgotten' BY DEF ButtonsInv, NothingForgotten, button_is_pressed, IsPressed, state, timer
<1> QED BY <1>1, <1>2, <1>3, <1>4, <1>5 DEF ButtonsInv

LEMMA GpioStep ==
  ASSUME ButtonsInv, queue # <<>>, queue' = Tail(queue), process_gpio_event(Head(queue)),
         UNCHANGED <<clock, pin, irq, lost>>
  PROVE  ButtonsInv'
<1> DEFINE event == Head(queue)
           b == event.button
           then == clock + Debounce * UsPerMs
<1>1. TypeOK /\ TimesInv /\ TimerMarked /\ LoopInv /\ NothingForgotten BY DEF ButtonsInv
<1>2. /\ event \in Event /\ queue' \in Seq(Event)
      /\ Len(queue') <= QueueLength
  <2>1. Len(queue') = Len(queue) - 1 BY <1>1, HeadTailProperties DEF TypeOK
  <2>2. QueueLength \in Nat /\ Len(queue) \in Nat BY <1>1, ButtonsAssumption, LenProperties DEF TypeOK
  <2> QED BY <1>1, <2>1, <2>2, HeadTailProperties DEF TypeOK
<1>3. b \in Buttons /\ event.timestamp \in 0..MaxTime /\ event.level \in BOOLEAN
  BY <1>2 DEF Event, process_gpio_event
<1>4. Debounce * UsPerMs \in Nat \ {0} /\ clock \in Nat /\ MaxTime \in Nat
  BY <1>1, ConstantTypes, ButtonsAssumption DEF TypeOK
<1>5. CASE event.level = last_level[b]
  <2>1. UNCHANGED <<state, timer>> BY <1>5, <1>3 DEF process_gpio_event, state
  <2>2. clock' \in 0..MaxTime /\ clock <= clock' BY <1>1, <1>4 DEF TypeOK
  <2>3. /\ pin' \in [Buttons -> BOOLEAN] /\ irq' \subseteq Buttons
        /\ lost' \subseteq {"gpio", "button"} \X Buttons
    BY <1>1 DEF TypeOK
  <2> HIDE DEF event, b, then
  <2> QED BY <1>2, <2>1, <2>2, <2>3, StateKept
<1>6. CASE event.level # last_level[b]
  <2>1. /\ i = 1
        /\ last_level' = [last_level EXCEPT ![b] = event.level]
        /\ debounce_deadline_us' =
             [debounce_deadline_us EXCEPT ![b] = event.timestamp + Debounce * UsPerMs]
        /\ debounce_set_timer
        /\ UNCHANGED <<debounced_level, last_button_press, dispatched>>
    BY <1>6 DEF process_gpio_event, MutexFree
  <2>2. UNCHANGED <<esp_timer, now, i, next_deadline>> BY <2>1 DEF debounce_set_timer, timer
  <2>3. /\ debounce_timer_active' = TRUE
        /\ \/ UNCHANGED <<debounce_timer_deadline, alarm>>
           \/ esp_timer = "idle" /\ debounce_timer_deadline' = then /\ alarm' = then
    <3>1. CASE debounce_timer_active /\ then >= debounce_timer_deadline
      BY <3>1, <2>1 DEF debounce_set_timer, timer
    <3>2. CASE ~(debounce_timer_active /\ then >= debounce_timer_deadline)
      <4>1. esp_timer # "elapsed" BY <3>2, <1>1, <1>4 DEF TimesInv, TimerMarked
      <4> QED BY <3>2, <4>1, <2>1, <1>1 DEF debounce_set_timer, TypeOK, TimerMarked
    <3> QED BY <3>1, <3>2
  <2>4. alarm' # Off \/ esp_timer' = "elapsed"
    <3>1. CASE UNCHANGED <<debounce_timer_deadline, alarm>> /\ debounce_timer_active
      BY <3>1, <2>2, <1>1 DEF TimerMarked
    <3>2. CASE alarm' = then BY <3>2, <1>4 DEF Off
    <3>3. CASE ~debounce_timer_active
      BY <3>3, <1>4, <2>1 DEF debounce_set_timer, Off
    <3> QED BY <3>1, <3>2, <3>3, <2>3
  <2>5. TypeOK'
    <3>1. debounce_timer_deadline' \in Nat \cup {Off} /\ alarm' \in Nat \cup {Off}
      BY <1>1, <1>4, <2>3 DEF TypeOK
    <3>2. /\ last_level' \in [Buttons -> BOOLEAN]
          /\ debounce_deadline_us' \in [Buttons -> Nat]
      BY <1>1, <1>3, <1>4, <2>1 DEF TypeOK
    <3> QED BY <1>1, <1>2, <2>1, <2>2, <2>3, <3>1, <3>2 DEF TypeOK
  <2>6. TimesInv' BY <1>1, <1>4, <2>1, <2>2, <2>3 DEF TimesInv
  <2>7. TimerMarked' BY <1>1, <2>2, <2>3, <2>4 DEF TimerMarked
  <2>8. LoopInv' BY <1>1, <2>1, <2>2 DEF LoopInv
  <2>9. NothingForgotten' BY <2>3 DEF NothingForgotten
  <2> QED BY <2>5, <2>6, <2>7, <2>8, <2>9 DEF ButtonsInv
<1> QED BY <1>5, <1>6

LEMMA ExpireStep == ASSUME ButtonsInv, TimerExpires PROVE ButtonsInv'
<1>1. TypeOK /\ TimesInv /\ TimerMarked /\ LoopInv /\ NothingForgotten BY DEF ButtonsInv
<1>2. TypeOK' BY <1>1 DEF TypeOK, TimerExpires, state
<1>3. TimesInv'
  <2>1. clock \in Nat /\ now \in Nat /\ alarm \in Int BY <1>1 DEF TypeOK, Off
  <2>2. \A b \in Buttons : last_button_press[b] \in Nat BY <1>1 DEF TypeOK
  <2> QED BY <1>1, <2>1, <2>2 DEF TimesInv, TimerExpires, state
<1>4. TimerMarked' BY <1>1 DEF TimerMarked, TimerExpires
<1>5. LoopInv' BY <1>1 DEF LoopInv, TimerExpires
<1>6. NothingForgotten' BY <1>1 DEF NothingForgotten, button_is_pressed, IsPressed, TimerExpires, state
<1> QED BY <1>2, <1>3, <1>4, <1>5, <1>6 DEF ButtonsInv

\* A button that is open after the callback looked at it has left a deadline.
LEMMA LookedAt ==
  ASSUME ButtonsInv, debounce_timer_elapsed_cb
  PROVE  \A b \in 1..i : IsOpen(b)' => NextDeadline(i) # Off
<1>1. TypeOK /\ LoopInv /\ i \in Buttons /\ i \in Nat
  BY ButtonsAssumption DEF ButtonsInv, TypeOK, Buttons
<1>2. /\ last_level' = last_level
      /\ debounced_level' = [debounced_level EXCEPT ![i] = NewLevel(i)]
      /\ last_button_press' = [last_button_press EXCEPT ![i] = NewPress(i)]
      /\ \A h \in HoldHandlers : dispatched'[h] =
           IF HoldButton[h] = i THEN (dispatched[h] /\ ~Released(i)) \/ HoldElapsed(h)
           ELSE dispatched[h]
  BY DEF debounce_timer_elapsed_cb
<1>3. ButtonDeadlines(i) # {} \/ next_deadline # Off => NextDeadline(i) # Off
  BY <1>1, NextDeadlineType
<1>4. ASSUME NEW b \in 1..i, b # i, IsOpen(b)' PROVE NextDeadline(i) # Off
  <2>1. b \in 1..i - 1 /\ b \in Buttons BY <1>1, <1>4, ButtonsAssumption DEF Buttons
  <2>2. debounced_level'[b] = debounced_level[b] /\ last_button_press'[b] = last_button_press[b]
    BY <1>1, <1>2, <1>4, <2>1 DEF TypeOK
  <2>3. IsOpen(b) BY <1>2, <1>4, <2>2 DEF IsOpen, HoldIsOpen, button_is_pressed, IsPressed
  <2> QED BY <1>1, <1>3, <2>1, <2>3 DEF LoopInv
<1>5. ASSUME NEW b \in 1..i, b = i, IsOpen(b)' PROVE ButtonDeadlines(i) # {}
  <2>1. debounced_level'[b] = NewLevel(b) /\ last_button_press'[b] = NewPress(b) /\ b \in Buttons
    BY <1>1, <1>2, <1>5 DEF TypeOK
  <2>2. CASE ~Settled(b) BY <2>2, <1>5 DEF ButtonDeadlines
  <2>3. CASE Settled(b)
    <3>1. debounced_level'[b] = last_level'[b] BY <1>2, <2>1, <2>3 DEF NewLevel
    <3>2. PICK h \in HoldHandlers : HoldButton[h] = b /\ HoldIsOpen(b, h)'
      BY <1>5, <3>1 DEF IsOpen
    <3>3. IsPressed(b, last_level[b]) BY <1>2, <3>1, <3>2 DEF HoldIsOpen, button_is_pressed, IsPressed
    <3>4. HoldOpen(h) /\ ~HoldElapsed(h)
      BY <1>2, <1>5, <2>3, <3>2, <3>3 DEF HoldIsOpen, HoldOpen, Held, Released
    <3> QED BY <1>5, <2>3, <3>2, <3>4 DEF ButtonDeadlines
  <2> QED BY <2>2, <2>3
<1> QED BY <1>3, <1>4, <1>5

LEMMA CallbackStep == ASSUME ButtonsInv, debounce_timer_elapsed_cb PROVE ButtonsInv'
<1>1. TypeOK /\ TimesInv /\ TimerMarked /\ LoopInv /\ NothingForgotten BY DEF ButtonsInv
<1>2. /\ i \in Buttons /\ i \in Nat /\ NumButtons \in Nat /\ 1 \in Buttons
      /\ Buttons = 1..NumButtons
  BY <1>1, ButtonsAssumption DEF TypeOK, Buttons
<1>3. NextDeadline(i) \in Nat \cup {Off} BY <1>1, <1>2, NextDeadlineType
<1>4. esp_timer = "elapsed" /\ debounce_timer_active /\ alarm = Off
  BY <1>1 DEF debounce_timer_elapsed_cb, TimerMarked
<1>5. /\ debounced_level' = [debounced_level EXCEPT ![i] = NewLevel(i)]
      /\ last_button_press' = [last_button_press EXCEPT ![i] = NewPress(i)]
      /\ dispatched' \in [HoldHandlers -> BOOLEAN]
      /\ UNCHANGED <<clock, pin, irq, last_level, debounce_deadline_us, now>>
  BY <1>1 DEF debounce_timer_elapsed_cb, TypeOK, Released, HoldElapsed, HoldOpen, Held,
              Changed, Settled, IsPressed
<1>6. /\ queue' \in Seq(Event) /\ Len(queue') <= QueueLength
      /\ lost' \subseteq {"gpio", "button"} \X Buttons
  <2>1. Send(LevelEvents(i) \o HoldEvents(i)) BY DEF debounce_timer_elapsed_cb
  <2>2. LevelEvents(i) \o HoldEvents(i) \in Seq(Event) BY <1>1, <1>2, LookTypes
  <2> QED BY <1>1, <2>1, <2>2, SendType DEF TypeOK
<1>7. /\ debounced_level' \in [Buttons -> BOOLEAN]
      /\ last_button_press' \in [Buttons -> 0..MaxTime]
      /\ \A b \in Buttons : last_button_press'[b] <= now
  <2>1. NewLevel(i) \in BOOLEAN /\ NewPress(i) \in 0..now /\ now \in 0..MaxTime
    BY <1>1, <1>2, LookTypes DEF TypeOK
  <2>2. NewPress(i) \in 0..MaxTime BY <2>1, ButtonsAssumption
  <2> QED BY <1>1, <1>2, <1>5, <2>1, <2>2 DEF TypeOK, TimesInv
<1>8. \A b \in 1..i : IsOpen(b)' => NextDeadline(i) # Off BY LookedAt
<1>9. CASE i < NumButtons
  <2>1. /\ i' = i + 1 /\ next_deadline' = NextDeadline(i)
        /\ UNCHANGED <<esp_timer, debounce_timer_active, debounce_timer_deadline, alarm>>
    BY <1>9 DEF debounce_timer_elapsed_cb
  <2>2. i' \in Buttons /\ i' - 1 = i BY <1>2, <1>9, <2>1
  <2>3. TypeOK' BY <1>1, <1>3, <1>5, <1>6, <1>7, <2>1, <2>2 DEF TypeOK
  <2>4. TimesInv' BY <1>1, <1>5, <1>7, <2>1 DEF TimesInv
  <2>5. TimerMarked' BY <1>1, <2>1 DEF TimerMarked
  <2>6. LoopInv' BY <1>4, <1>8, <2>1, <2>2 DEF LoopInv
  <2>7. NothingForgotten' BY <1>4, <2>1 DEF NothingForgotten
  <2> QED BY <2>3, <2>4, <2>5, <2>6, <2>7 DEF ButtonsInv
<1>10. CASE ~(i < NumButtons)
  <2>1. i' = 1 /\ next_deadline' = Off /\ esp_timer' = "idle" /\ SetTimer(NextDeadline(i))
    BY <1>10 DEF debounce_timer_elapsed_cb
  <2>2. i = NumButtons BY <1>2, <1>10
  <2>3. CASE NextDeadline(i) = Off
    <3>1. debounce_timer_active' = FALSE /\ UNCHANGED <<debounce_timer_deadline, alarm>>
      BY <2>1, <2>3 DEF SetTimer
    <3>2. TypeOK' BY <1>1, <1>2, <1>5, <1>6, <1>7, <2>1, <3>1 DEF TypeOK
    <3>3. TimesInv' BY <1>1, <1>4, <1>5, <1>7, <2>1, <3>1 DEF TimesInv
    <3>4. TimerMarked' BY <1>4, <2>1, <3>1 DEF TimerMarked
    <3>5. LoopInv' BY <2>1 DEF LoopInv
    <3>6. NothingForgotten'
      <4>1. \A b \in Buttons : ~IsOpen(b)' BY <1>2, <1>8, <2>2, <2>3
      <4> QED BY <4>1, ConstantTypes DEF NothingForgotten, IsOpen, HoldIsOpen
    <3> QED BY <3>2, <3>3, <3>4, <3>5, <3>6 DEF ButtonsInv
  <2>4. CASE NextDeadline(i) # Off
    <3> DEFINE delay_us == IF NextDeadline(i) > now THEN NextDeadline(i) - now ELSE 1
    <3>1. /\ alarm' = clock + delay_us /\ debounce_timer_deadline' = NextDeadline(i)
          /\ UNCHANGED debounce_timer_active
      BY <1>4, <2>1, <2>4 DEF SetTimer
    <3>2. NextDeadline(i) \in Nat /\ clock \in Nat /\ now \in Nat /\ now <= clock
      BY <1>1, <1>3, <2>4 DEF TypeOK, TimesInv
    <3>3. alarm' \in Nat /\ NextDeadline(i) <= alarm' /\ alarm' # Off
      BY <3>1, <3>2 DEF Off
    <3>4. TypeOK' BY <1>1, <1>2, <1>5, <1>6, <1>7, <2>1, <3>1, <3>2, <3>3 DEF TypeOK
    <3>5. TimesInv' BY <1>1, <1>5, <1>7, <2>1, <3>1, <3>2, <3>3 DEF TimesInv
    <3>6. TimerMarked' BY <1>4, <2>1, <3>1, <3>3 DEF TimerMarked
    <3>7. LoopInv' BY <2>1 DEF LoopInv
    <3>8. NothingForgotten' BY <1>4, <3>1 DEF NothingForgotten
    <3> QED BY <3>4, <3>5, <3>6, <3>7, <3>8 DEF ButtonsInv
  <2> QED BY <2>3, <2>4
<1> QED BY <1>9, <1>10

-------------------------------------------------------------------------------
(* The theorems.                                                            *)

LEMMA InitInv == Init => ButtonsInv
<1> SUFFICES ASSUME Init PROVE ButtonsInv OBVIOUS
<1>1. TypeOK
  <2>1. queue \in Seq(Event) /\ Len(queue) = 0 BY EmptySeq DEF Init
  <2>2. QueueLength \in Nat /\ MaxTime \in Nat /\ 1 \in Buttons BY ButtonsAssumption DEF Buttons
  <2>3. pin \in [Buttons -> BOOLEAN] /\ last_level = pin /\ debounced_level = pin BY DEF Init
  <2>4. /\ debounce_deadline_us \in [Buttons -> Nat]
        /\ last_button_press \in [Buttons -> 0..MaxTime]
        /\ dispatched \in [HoldHandlers -> BOOLEAN]
    BY <2>2 DEF Init
  <2>5. clock \in 0..MaxTime /\ now \in 0..MaxTime /\ irq \subseteq Buttons
    BY <2>2 DEF Init
  <2>6. /\ lost \subseteq {"gpio", "button"} \X Buttons /\ debounce_timer_active \in BOOLEAN
        /\ debounce_timer_deadline = Off /\ alarm = Off /\ next_deadline = Off
        /\ esp_timer \in {"idle", "elapsed"} /\ i \in Buttons
    BY <2>2 DEF Init
  <2> QED BY <2>1, <2>2, <2>3, <2>4, <2>5, <2>6 DEF TypeOK
<1>2. TimesInv BY DEF Init, TimesInv
<1>3. TimerMarked BY DEF Init, TimerMarked
<1>4. LoopInv BY DEF Init, LoopInv
<1>5. NothingForgotten BY ConstantTypes DEF Init, NothingForgotten
<1> QED BY <1>1, <1>2, <1>3, <1>4, <1>5 DEF ButtonsInv

LEMMA StepInv == ButtonsInv /\ [Next]_vars => ButtonsInv'
<1> SUFFICES ASSUME ButtonsInv, [Next]_vars PROVE ButtonsInv' OBVIOUS
<1>1. /\ clock \in 0..MaxTime /\ MaxTime \in Nat
      /\ pin \in [Buttons -> BOOLEAN] /\ irq \subseteq Buttons
      /\ queue \in Seq(Event) /\ Len(queue) <= QueueLength
      /\ lost \subseteq {"gpio", "button"} \X Buttons
  BY ButtonsAssumption DEF ButtonsInv, TypeOK
<1>2. ASSUME NEW b \in Buttons, Edge(b) PROVE ButtonsInv'
  BY <1>1, <1>2, StateKept DEF Edge
<1>3. ASSUME NEW b \in Buttons, button_isr(b) PROVE ButtonsInv'
  <2>1. <<GpioEvent(b, clock, pin[b])>> \in Seq(Event) BY <1>1 DEF GpioEvent, Event
  <2>2. Send(<<GpioEvent(b, clock, pin[b])>>) BY <1>3 DEF button_isr
  <2>3. /\ queue' \in Seq(Event) /\ Len(queue') <= QueueLength
        /\ lost' \subseteq {"gpio", "button"} \X Buttons
    BY <1>1, <2>1, <2>2, SendType
  <2> QED BY <1>1, <1>3, <2>3, StateKept DEF button_isr
<1>4. ASSUME NEW b \in Emulated, buttons_emulate_press(b, 1) PROVE ButtonsInv'
  <2> DEFINE events == <<ButtonEvent(b, "press", 0, TRUE), ButtonEvent(b, "release", 1, TRUE)>>
  <2>1. events \in Seq(Event) BY ButtonsAssumption DEF ButtonEvent, Event
  <2>2. Send(events) BY <1>4 DEF buttons_emulate_press
  <2>3. /\ queue' \in Seq(Event) /\ Len(queue') <= QueueLength
        /\ lost' \subseteq {"gpio", "button"} \X Buttons
    <3> HIDE DEF events
    <3> QED BY <1>1, <2>1, <2>2, SendType
  <2> QED BY <1>1, <1>4, <2>3, StateKept DEF buttons_emulate_press
<1>5. CASE button_event_loop
  <2>1. CASE process_gpio_event(Head(queue)) BY <1>5, <2>1, GpioStep DEF button_event_loop
  <2>2. CASE process_button_event(Head(queue))
    <3>1. queue' \in Seq(Event) /\ Len(queue') <= QueueLength
      <4>1. Len(queue) \in Nat /\ QueueLength \in Nat BY <1>1, ButtonsAssumption, LenProperties
      <4> QED BY <1>1, <1>5, <4>1, HeadTailProperties DEF button_event_loop
    <3> QED BY <1>1, <1>5, <2>2, <3>1, StateKept DEF button_event_loop, process_button_event
  <2> QED BY <1>5, <2>1, <2>2 DEF button_event_loop
<1>6. CASE EspTimerTask BY <1>6, ExpireStep, CallbackStep DEF EspTimerTask
<1>7. CASE Tick
  <2>1. clock' \in 0..MaxTime /\ clock <= clock' BY <1>1, <1>7 DEF Tick
  <2> QED BY <1>1, <1>7, <2>1, StateKept DEF Tick
<1>8. CASE UNCHANGED vars BY <1>1, <1>8, StateKept DEF vars
<1> QED BY <1>2, <1>3, <1>4, <1>5, <1>6, <1>7, <1>8 DEF Next

\* Every variable of buttons.c stays in its range; the queue holds well-formed
\* events and never more than fit it.
THEOREM ButtonTypes == SafetySpec => []TypeOK
<1>1. ButtonsInv => TypeOK BY DEF ButtonsInv
<1> QED BY <1>1, InitInv, StepInv, PTL DEF SafetySpec

\* debounce_timer_active is set exactly while the timer is armed or its
\* callback is on its way, and the two are never both the case.
THEOREM TimerMark == SafetySpec => []TimerMarked
<1>1. ButtonsInv => TimerMarked BY DEF ButtonsInv
<1> QED BY <1>1, InitInv, StepInv, PTL DEF SafetySpec

\* No level to be debounced and no hold to be detected is left without the
\* timer.
THEOREM NothingIsForgotten == SafetySpec => []NothingForgotten
<1>1. ButtonsInv => NothingForgotten BY DEF ButtonsInv
<1> QED BY <1>1, InitInv, StepInv, PTL DEF SafetySpec

-------------------------------------------------------------------------------
(* What is in the queue.  Sending puts events behind those there are, and  *)
(* what does not fit is noted as lost; the event loop takes the first.     *)

LEMMA SendContents ==
  ASSUME queue \in Seq(Event), Len(queue) <= QueueLength, NEW events \in Seq(Event), Send(events)
  PROVE  /\ Len(queue) <= Len(queue') /\ Len(queue') <= Len(queue) + Len(events)
         /\ \A n \in 1..Len(queue') :
              queue'[n] = IF n <= Len(queue) THEN queue[n] ELSE events[n - Len(queue)]
         /\ lost \subseteq lost'
         /\ \A n \in 1..Len(events) :
              Len(queue) + n <= Len(queue') \/ <<events[n].type, events[n].button>> \in lost'
<1> DEFINE all == queue \o events
           room == QueueLength - Len(queue)
           n == IF Len(events) <= room THEN Len(all) ELSE QueueLength
<1>1. QueueLength \in Nat BY ButtonsAssumption
<1>2. /\ all \in Seq(Event) /\ Len(all) = Len(queue) + Len(events)
      /\ \A k \in 1..Len(queue) + Len(events) :
           all[k] = IF k <= Len(queue) THEN queue[k] ELSE events[k - Len(queue)]
  BY ConcatProperties
<1>3. Len(queue) \in Nat /\ Len(events) \in Nat BY LenProperties
<1>4. n \in 0..Len(all) /\ Len(queue) <= n BY <1>1, <1>2, <1>3
<1>5. queue' = SubSeq(all, 1, n) BY DEF Send
<1>6. /\ Len(queue') = n
      /\ \A k \in 1..n : queue'[k] = all[k]
  <2>1. \A k \in 1..n : all[k] \in Event BY <1>2, <1>4, ElementOfSeq
  <2>2. n \in Int /\ 1 \in Int BY <1>4
  <2> HIDE DEF n, all
  <2>3. /\ Len(SubSeq(all, 1, n)) = IF 1 <= n THEN n - 1 + 1 ELSE 0
        /\ \A k \in 1..n - 1 + 1 : SubSeq(all, 1, n)[k] = all[1 + k - 1]
    BY <2>1, <2>2, SubSeqProperties
  <2>4. n \in Nat BY <1>4, <1>2, <1>3
  <2> QED BY <2>3, <2>4, <1>5
<1>7. lost' = lost \cup {<<events[k].type, events[k].button>> : k \in {k \in DOMAIN events : k > room}}
  BY DEF Send
<1>8. ASSUME NEW k \in 1..Len(events)
      PROVE  Len(queue) + k <= Len(queue') \/ <<events[k].type, events[k].button>> \in lost'
  <2>1. DOMAIN events = 1..Len(events) BY LenProperties
  <2>2. CASE k > room BY <2>1, <2>2, <1>7
  <2>3. CASE ~(k > room)
    <3>1. Len(queue) + k <= n BY <2>3, <1>1, <1>2, <1>3
    <3> QED BY <3>1, <1>6
  <2> QED BY <2>2, <2>3
<1> HIDE DEF n, all
<1>9. \A k \in 1..Len(queue') : queue'[k] = IF k <= Len(queue) THEN queue[k] ELSE events[k - Len(queue)]
  <2>1. \A k \in 1..n : k \in 1..Len(queue) + Len(events) BY <1>2, <1>3, <1>4
  <2> QED BY <2>1, <1>2, <1>6
<1> QED BY <1>2, <1>3, <1>4, <1>6, <1>7, <1>8, <1>9

LEMMA TailContents ==
  ASSUME queue \in Seq(Event), queue # <<>>, queue' = Tail(queue)
  PROVE  /\ Len(queue) \in Nat \ {0} /\ Len(queue') = Len(queue) - 1
         /\ \A n \in 1..Len(queue) - 1 : queue'[n] = queue[n + 1]
         /\ Head(queue) = queue[1]
<1>1. Len(Tail(queue)) = Len(queue) - 1 /\ \A n \in 1..Len(Tail(queue)) : Tail(queue)[n] = queue[n + 1]
  BY HeadTailProperties
<1>2. Len(queue) \in Nat /\ Len(queue) # 0 BY EmptySeq, LenProperties
<1> QED BY <1>1, <1>2

\* Every place of the queue holds an event.
LEMMA PlacesHold ==
  ASSUME queue \in Seq(Event)
  PROVE  /\ DOMAIN queue = 1..Len(queue) /\ Len(queue) \in Nat
         /\ \A n \in 1..Len(queue) : queue[n] \in Event
BY LenProperties, ElementOfSeq

-------------------------------------------------------------------------------
(* HoldEventsMatch.                                                         *)

\* A duration no shorter than a number of milliseconds is not rounded below it.
LEMMA ToMsLowerBound ==
  ASSUME NEW us \in Nat, NEW ms \in Nat, us >= ms * UsPerMs
  PROVE  ToMs(us) >= ms
<1>1. UsPerMs \in Nat \ {0} BY ButtonsAssumption
<1>2. UsPerMs \div 2 \in Nat BY <1>1
<1>3. \A a \in Nat, d \in Nat \ {0}, m \in Nat : a >= m * d => a \div d >= m BY Z3
<1>4. us + UsPerMs \div 2 \in Nat /\ us + UsPerMs \div 2 >= ms * UsPerMs
  <2>1. ms * UsPerMs \in Nat BY <1>1, Z3
  <2> QED BY <1>2, <2>1
<1> QED BY <1>1, <1>3, <1>4 DEF ToMs

\* The hold events the callback sends are long enough for the handlers they
\* are sent for.
LEMMA HoldLongEnough ==
  ASSUME TypeOK, TimesInv, NEW h \in HoldHandlers, HoldElapsed(h)
  PROVE  ToMs(now - NewPress(HoldButton[h])) >= MinHold[h]
<1> DEFINE press == NewPress(HoldButton[h])
           ms == MinHold[h]
           hold == ms * UsPerMs
<1>1. HoldButton[h] \in Buttons /\ hold \in Nat /\ ms \in Nat BY ConstantTypes, ButtonsAssumption
<1>2. press \in 0..now /\ now \in Nat
  <2>1. now \in Nat BY DEF TypeOK
  <2> HIDE DEF hold, ms
  <2> QED BY <1>1, <2>1, LookTypes
<1>3. now > press + hold BY DEF HoldElapsed, HoldDeadline
<1>4. now - press \in Nat /\ now - press >= hold
  <2> HIDE DEF press, hold
  <2> QED BY <1>1, <1>2, <1>3
<1> QED BY <1>1, <1>4, ToMsLowerBound

LongEnough(e) ==
  e.type = "button" /\ e.action = "hold" =>
    \E h \in HoldHandlers : HoldButton[h] = e.button /\ e.press_duration_ms >= MinHold[h]

\* The property, by the places of the queue.
LEMMA MembersByPlace ==
  ASSUME NEW q \in Seq(Event)
  PROVE  ToSet(q) = {q[n] : n \in 1..Len(q)}
BY LenProperties DEF ToSet

LEMMA HoldEventsByPlace ==
  /\ queue \in Seq(Event) =>
       (HoldEventsMatch <=> \A n \in 1..Len(queue) : LongEnough(queue[n]))
  /\ queue' \in Seq(Event) =>
       (HoldEventsMatch' <=> \A n \in 1..Len(queue') : LongEnough(queue'[n]))
<1>1. ASSUME queue \in Seq(Event)
      PROVE  HoldEventsMatch <=> \A n \in 1..Len(queue) : LongEnough(queue[n])
  BY <1>1, MembersByPlace DEF HoldEventsMatch, LongEnough
<1>2. ASSUME queue' \in Seq(Event)
      PROVE  HoldEventsMatch' <=> \A n \in 1..Len(queue') : LongEnough(queue'[n])
  BY <1>2, MembersByPlace DEF HoldEventsMatch, LongEnough
<1> QED BY <1>1, <1>2

-------------------------------------------------------------------------------
(* LevelTracked.                                                            *)

LevelKnown(b) ==
  \/ GpioEvents(b) = {} /\ last_level[b] = pin[b]
  \/ \E newest \in GpioEvents(b) :
       (\A n \in GpioEvents(b) : n <= newest) /\ queue[newest].level = pin[b]

\* What is sent without an event of the button's pin leaves its newest level.
LEMMA LevelKept ==
  ASSUME queue \in Seq(Event), queue' \in Seq(Event), NEW b \in Buttons, LevelKnown(b),
         Len(queue) <= Len(queue'), \A n \in 1..Len(queue) : queue'[n] = queue[n],
         \A n \in Len(queue) + 1..Len(queue') : ~(queue'[n].type = "gpio" /\ queue'[n].button = b),
         last_level'[b] = last_level[b], pin'[b] = pin[b]
  PROVE  LevelKnown(b)'
<1>1. /\ DOMAIN queue = 1..Len(queue) /\ DOMAIN queue' = 1..Len(queue')
      /\ Len(queue) \in Nat /\ Len(queue') \in Nat
  BY LenProperties
<1>2. GpioEvents(b)' = GpioEvents(b) /\ \A n \in GpioEvents(b) : queue'[n] = queue[n]
  BY <1>1 DEF GpioEvents
<1> QED BY <1>2 DEF LevelKnown

\* An event of the button's pin that is sent, or lost, tells its newest level.
LEMMA LevelSent ==
  ASSUME queue \in Seq(Event), queue' \in Seq(Event), NEW b \in Buttons,
         Len(queue') = Len(queue) + 1, \A n \in 1..Len(queue) : queue'[n] = queue[n],
         queue'[Len(queue')] = GpioEvent(b, clock, pin[b]), pin'[b] = pin[b]
  PROVE  LevelKnown(b)'
<1>1. DOMAIN queue' = 1..Len(queue') /\ Len(queue') \in Nat \ {0} BY LenProperties
<1>2. Len(queue') \in GpioEvents(b)' /\ \A n \in GpioEvents(b)' : n <= Len(queue')
  BY <1>1 DEF GpioEvents, GpioEvent
<1>3. queue'[Len(queue')].level = pin'[b] BY DEF GpioEvent
<1> QED BY <1>2, <1>3 DEF LevelKnown

\* Taking an event from the queue takes its level over.
LEMMA LevelTaken ==
  ASSUME queue \in Seq(Event), queue # <<>>, queue' = Tail(queue), NEW b \in Buttons, LevelKnown(b),
         pin'[b] = pin[b],
         last_level'[b] = IF Head(queue).type = "gpio" /\ Head(queue).button = b
                            THEN Head(queue).level ELSE last_level[b]
  PROVE  LevelKnown(b)'
<1>1. /\ Len(queue) \in Nat \ {0} /\ Len(queue') = Len(queue) - 1
      /\ \A n \in 1..Len(queue) - 1 : queue'[n] = queue[n + 1]
      /\ Head(queue) = queue[1]
  BY TailContents
<1>2. DOMAIN queue = 1..Len(queue) /\ DOMAIN queue' = 1..Len(queue) - 1
  <2>1. queue' \in Seq(Event) BY HeadTailProperties
  <2> QED BY <1>1, <2>1, LenProperties
<1>3. \A n \in 1..Len(queue) - 1 : n \in GpioEvents(b)' <=> n + 1 \in GpioEvents(b)
  BY <1>1, <1>2 DEF GpioEvents
<1>4. 1 \in GpioEvents(b) <=> Head(queue).type = "gpio" /\ Head(queue).button = b
  BY <1>1, <1>2 DEF GpioEvents
<1>5. /\ \A n \in GpioEvents(b) : n \in 1..Len(queue)
      /\ \A n \in GpioEvents(b)' : n \in 1..Len(queue) - 1
  BY <1>2 DEF GpioEvents
<1>6. CASE GpioEvents(b) = {}
  <2>1. GpioEvents(b)' = {} BY <1>3, <1>5, <1>6
  <2> QED BY <1>4, <1>6, <2>1 DEF LevelKnown
<1>7. ASSUME NEW newest \in GpioEvents(b), \A n \in GpioEvents(b) : n <= newest,
             queue[newest].level = pin[b]
      PROVE  LevelKnown(b)'
  <2>1. CASE newest = 1
    <3>1. GpioEvents(b)' = {} BY <1>1, <1>3, <1>5, <1>7, <2>1
    <3>2. last_level'[b] = pin'[b] BY <1>1, <1>4, <1>7, <2>1
    <3> QED BY <3>1, <3>2 DEF LevelKnown
  <2>2. CASE newest # 1
    <3>1. newest - 1 \in 1..Len(queue) - 1 /\ newest - 1 + 1 = newest BY <1>1, <1>5, <1>7, <2>2
    <3>2. newest - 1 \in GpioEvents(b)' /\ queue'[newest - 1].level = pin'[b]
      BY <1>1, <1>3, <1>7, <3>1
    <3>3. \A n \in GpioEvents(b)' : n <= newest - 1 BY <1>1, <1>3, <1>5, <1>7, <3>1
    <3> QED BY <3>2, <3>3 DEF LevelKnown
  <2> QED BY <2>1, <2>2
<1> QED BY <1>6, <1>7 DEF LevelKnown

-------------------------------------------------------------------------------
(* EventOrder.                                                              *)

\* No hold is marked as sent while its button is up.
HoldsWhilePressed == \A h \in HoldHandlers : dispatched[h] => button_is_pressed(HoldButton[h])

LEMMA ButtonEventPlaces ==
  ASSUME queue \in Seq(Event), NEW b
  PROVE  /\ ButtonEvents(b) \subseteq 1..Len(queue)
         /\ \A n \in ButtonEvents(b) : queue[n].action \in {"press", "hold", "release"}
         /\ LastHolds(b) \subseteq ButtonEvents(b)
         /\ IsFiniteSet(LastHolds(b)) /\ Cardinality(LastHolds(b)) \in Nat
<1>1. ButtonEvents(b) \subseteq 1..Len(queue) BY PlacesHold DEF ButtonEvents
<1>2. ASSUME NEW n \in ButtonEvents(b) PROVE queue[n].action \in {"press", "hold", "release"}
  <2>1. queue[n] \in Event /\ queue[n].type = "button" BY PlacesHold DEF ButtonEvents
  <2> QED BY <2>1 DEF Event
<1>3. LastHolds(b) \subseteq ButtonEvents(b) BY DEF LastHolds
<1>4. IsFiniteSet(1..Len(queue)) BY PlacesHold, FS_Interval
<1>5. IsFiniteSet(LastHolds(b)) BY <1>1, <1>3, <1>4, FS_Subset
<1> QED BY <1>1, <1>2, <1>3, <1>5, FS_CardinalityType

LEMMA DispatchedTypes ==
  ASSUME NEW b
  PROVE  IsFiniteSet(Dispatched(b)) /\ Cardinality(Dispatched(b)) \in Nat
<1>1. IsFiniteSet(Dispatched(b)) BY ButtonsAssumption, FS_Subset DEF Dispatched
<1> QED BY <1>1, FS_CardinalityType

\* Nothing is sent for the button, and nothing about it changes.
LEMMA OrderKept ==
  ASSUME queue \in Seq(Event), queue' \in Seq(Event), NEW b, EventsInOrder(b),
         Len(queue) <= Len(queue'), \A n \in 1..Len(queue) : queue'[n] = queue[n],
         \A n \in Len(queue) + 1..Len(queue') :
           ~(queue'[n].type = "button" /\ queue'[n].button = b /\ ~queue'[n].emulated),
         button_is_pressed(b)' = button_is_pressed(b), Dispatched(b)' = Dispatched(b)
  PROVE  EventsInOrder(b)'
<1>1. /\ DOMAIN queue = 1..Len(queue) /\ DOMAIN queue' = 1..Len(queue')
      /\ Len(queue) \in Nat /\ Len(queue') \in Nat
  BY LenProperties
<1>2. ButtonEvents(b)' = ButtonEvents(b) /\ \A n \in ButtonEvents(b) : queue'[n] = queue[n]
  BY <1>1 DEF ButtonEvents
<1>3. LastHolds(b)' = LastHolds(b) BY <1>2 DEF LastHolds
<1>4. InOrder(b)' BY <1>2 DEF EventsInOrder, InOrder, Follow
<1>5. LastTellsLevel(b)' BY <1>2 DEF EventsInOrder, LastTellsLevel
<1> QED BY <1>2, <1>3, <1>4, <1>5 DEF EventsInOrder

\* The first event is taken.
LEMMA OrderTaken ==
  ASSUME queue \in Seq(Event), queue # <<>>, queue' = Tail(queue), NEW b, EventsInOrder(b),
         button_is_pressed(b)' = button_is_pressed(b), Dispatched(b)' = Dispatched(b)
  PROVE  EventsInOrder(b)'
<1> DEFINE E == ButtonEvents(b)
<1>1. /\ Len(queue) \in Nat \ {0} /\ Len(queue') = Len(queue) - 1
      /\ \A n \in 1..Len(queue) - 1 : queue'[n] = queue[n + 1]
  BY TailContents
<1>2. /\ DOMAIN queue = 1..Len(queue) /\ DOMAIN queue' = 1..Len(queue) - 1
      /\ queue' \in Seq(Event)
  <2>1. queue' \in Seq(Event) BY HeadTailProperties
  <2> QED BY <1>1, <2>1, LenProperties
<1>3. /\ \A n \in E' : n \in 1..Len(queue) - 1 /\ n + 1 \in E /\ queue'[n] = queue[n + 1]
      /\ \A n \in E : n \in 1..Len(queue) /\ (n = 1 \/ n - 1 \in E')
  <2>1. \A n \in 1..Len(queue) - 1 : n + 1 \in 1..Len(queue) /\ (n \in E' <=> n + 1 \in E)
    BY <1>1, <1>2 DEF ButtonEvents
  <2>2. \A n \in E : n \in 1..Len(queue) BY <1>2 DEF ButtonEvents
  <2>3. \A n \in E' : n \in 1..Len(queue) - 1 BY <1>2 DEF ButtonEvents
  <2>4. ASSUME NEW n \in E, n # 1 PROVE n - 1 \in E'
    <3>1. n - 1 \in 1..Len(queue) - 1 /\ n - 1 + 1 = n BY <1>1, <2>2, <2>4
    <3> QED BY <2>1, <3>1
  <2> QED BY <1>1, <2>1, <2>2, <2>3, <2>4
<1> HIDE DEF E
<1>4. InOrder(b)'
  <2> SUFFICES ASSUME NEW m \in E', NEW n \in E', m < n, \A k \in E' : k <= m \/ n <= k
               PROVE  queue'[n].action \in Follow[queue'[m].action]
    BY DEF InOrder, E, Follow
  <2>1. m + 1 \in E /\ n + 1 \in E /\ m + 1 < n + 1 BY <1>3
  <2>2. ASSUME NEW k \in E PROVE k <= m + 1 \/ n + 1 <= k
    <3>1. k \in Int /\ m \in 1..Len(queue) - 1 /\ n \in Int BY <1>3, <2>2
    <3>2. CASE k = 1 BY <3>1, <3>2
    <3>3. CASE k # 1
      <4>1. k - 1 \in E' BY <1>3, <2>2, <3>3
      <4>2. k - 1 <= m \/ n <= k - 1 BY <4>1
      <4> QED BY <3>1, <4>2
    <3> QED BY <3>2, <3>3
  <2>3. queue[n + 1].action \in Follow[queue[m + 1].action]
    BY <2>1, <2>2 DEF EventsInOrder, InOrder, E
  <2> QED BY <1>3, <2>3
<1>5. LastTellsLevel(b)'
  <2> SUFFICES ASSUME NEW m \in E', \A k \in E' : k <= m
               PROVE  queue'[m].action # "release" <=> button_is_pressed(b)'
    BY DEF LastTellsLevel, E
  <2>1. m + 1 \in E /\ queue'[m] = queue[m + 1] BY <1>3
  <2>2. ASSUME NEW k \in E PROVE k <= m + 1
    <3>1. k \in Int /\ m \in 1..Len(queue) - 1 BY <1>3, <2>2
    <3>2. CASE k = 1 BY <3>1, <3>2
    <3>3. CASE k # 1
      <4>1. k - 1 <= m BY <1>3, <2>2, <3>3
      <4> QED BY <3>1, <4>1
    <3> QED BY <3>2, <3>3
  <2> QED BY <2>1, <2>2 DEF EventsInOrder, LastTellsLevel, E
<1>6. /\ \A n \in LastHolds(b)' : n + 1 \in LastHolds(b)
      /\ E' # {} /\ LastHolds(b)' = {} => E # {} /\ LastHolds(b) = {}
  <2>1. ASSUME NEW n \in E', n + 1 \in LastHolds(b) PROVE n \in LastHolds(b)'
    <3>1. ASSUME NEW m \in E', m >= n PROVE queue'[m].action = "hold"
      <4>1. m + 1 \in E /\ m + 1 >= n + 1 /\ queue'[m] = queue[m + 1] BY <1>3, <3>1, <2>1
      <4> QED BY <2>1, <4>1 DEF LastHolds, E
    <3> QED BY <2>1, <3>1 DEF LastHolds, E
  <2>2. ASSUME NEW n \in LastHolds(b)' PROVE n + 1 \in LastHolds(b)
    <3>1. n \in E' /\ \A m \in E' : m >= n => queue'[m].action = "hold"
      BY <2>2 DEF LastHolds, E
    <3>2. n \in 1..Len(queue) - 1 BY <1>3, <3>1
    <3>3. ASSUME NEW m \in E, m >= n + 1 PROVE queue[m].action = "hold"
      <4>1. m \in 1..Len(queue) BY <1>3, <3>3
      <4>2. m - 1 \in E' /\ m - 1 >= n /\ m - 1 + 1 = m BY <1>3, <3>2, <3>3, <4>1
      <4> QED BY <1>3, <3>1, <4>2
    <3> QED BY <1>3, <3>1, <3>3 DEF LastHolds, E
  <2>3. ASSUME E' # {}, LastHolds(b)' = {}, NEW n \in LastHolds(b) PROVE FALSE
    <3>1. n \in E /\ \A m \in E : m >= n => queue[m].action = "hold" BY <2>3 DEF LastHolds, E
    <3>2. CASE n = 1
      <4>1. PICK m \in E' : TRUE BY <2>3
      <4>2. \A k \in E : k >= m + 1 => queue[k].action = "hold" BY <1>1, <1>3, <3>1, <3>2, <4>1
      <4>3. m + 1 \in LastHolds(b) BY <1>3, <4>1, <4>2 DEF LastHolds, E
      <4> QED BY <2>1, <2>3, <4>1, <4>3
    <3>3. CASE n # 1
      <4>1. n - 1 \in E' /\ n - 1 + 1 = n BY <1>3, <3>1, <3>3
      <4> QED BY <2>1, <2>3, <4>1
    <3> QED BY <3>2, <3>3
  <2>4. E' # {} => E # {} BY <1>3
  <2> QED BY <2>2, <2>3, <2>4
<1>7. Cardinality(LastHolds(b)') <= Cardinality(Dispatched(b)')
  <2> DEFINE S == LastHolds(b)'
             T == LastHolds(b)
             f == [n \in S |-> n + 1]
  <2>1. IsFiniteSet(T) /\ Cardinality(T) \in Nat BY ButtonEventPlaces
  <2>2. S \subseteq Nat
    <3>1. S \subseteq E' BY DEF LastHolds, E
    <3> QED BY <1>1, <1>3, <3>1
  <2>3. f \in Injection(S, T)
    <3>1. f \in [S -> T] BY <1>6
    <3>2. \A x, y \in S : f[x] = f[y] => x = y BY <2>2
    <3> HIDE DEF f, S, T
    <3> QED BY <3>1, <3>2 DEF Injection, IsInjective
  <2>4. IsFiniteSet(S) /\ Cardinality(S) <= Cardinality(T)
    <3> HIDE DEF f, S, T
    <3> QED BY <2>1, <2>3, FS_Injection
  <2>5. Cardinality(S) \in Nat /\ Cardinality(Dispatched(b)) \in Nat
    BY <2>4, FS_CardinalityType, DispatchedTypes
  <2>6. Cardinality(T) <= Cardinality(Dispatched(b)) BY DEF EventsInOrder
  <2> QED BY <2>1, <2>4, <2>5, <2>6
<1> QED BY <1>4, <1>5, <1>6, <1>7 DEF EventsInOrder, E

\* The events of the callback for the button it looks at, all of which fit.
ElapsedHolds(b) == {h \in HoldHandlers : HoldButton[h] = b /\ HoldElapsed(h)}

LEMMA SentByCallback ==
  ASSUME TypeOK, TimesInv, NEW b \in Buttons, queue' \in Seq(Event),
         Send(LevelEvents(b) \o HoldEvents(b)), <<"button", b>> \notin lost'
  PROVE  LET q == Len(queue)
             l == IF Changed(b) THEN 1 ELSE 0
             k == Cardinality(ElapsedHolds(b))
         IN  /\ k \in Nat /\ Len(queue') = q + (l + k)
             /\ \A n \in 1..q : queue'[n] = queue[n]
             /\ l = 1 => queue'[q + 1].action = IF IsPressed(b, last_level[b]) THEN "press" ELSE "release"
             /\ \A n \in q + 1..q + (l + k) : n = q + l \/ queue'[n].action = "hold"
             /\ ButtonEvents(b)' = ButtonEvents(b) \cup (q + 1..q + (l + k))
<1> DEFINE q == Len(queue)
           l == IF Changed(b) THEN 1 ELSE 0
           k == Cardinality(ElapsedHolds(b))
           level == LevelEvents(b)
           hold == ButtonEvent(b, "hold", ToMs(now - NewPress(b)), FALSE)
           holds == HoldEvents(b)
           events == level \o holds
<1>1. IsFiniteSet(ElapsedHolds(b)) BY ButtonsAssumption, FS_Subset DEF ElapsedHolds
<1>2. k \in Nat BY <1>1, FS_CardinalityType
<1>3. q \in Nat /\ queue \in Seq(Event) BY LenProperties DEF TypeOK
<1>4. holds = [n \in 1..k |-> hold] BY DEF HoldEvents, ElapsedHolds
<1>5. now \in 0..MaxTime /\ last_button_press[b] \in 0..now /\ NewPress(b) \in 0..now
  BY LookTypes DEF TypeOK, TimesInv
<1>6. \A act \in {"press", "hold", "release"}, ms \in Nat :
        /\ ButtonEvent(b, act, ms, FALSE) \in Event
        /\ ButtonEvent(b, act, ms, FALSE).type = "button" /\ ButtonEvent(b, act, ms, FALSE).button = b
        /\ ~ButtonEvent(b, act, ms, FALSE).emulated /\ ButtonEvent(b, act, ms, FALSE).action = act
  BY DEF Event, ButtonEvent
<1>7. ToMs(now - last_button_press[b]) \in Nat /\ ToMs(now - NewPress(b)) \in Nat
  <2>1. now - last_button_press[b] \in Nat /\ now - NewPress(b) \in Nat
    BY <1>5, ButtonsAssumption
  <2> QED BY <2>1, ToMsType
<1>8. /\ hold \in Event /\ hold.action = "hold"
      /\ hold.type = "button" /\ hold.button = b /\ ~hold.emulated
  BY <1>6, <1>7
<1>9. /\ holds \in Seq(Event) /\ Len(holds) = k
      /\ \A n \in 1..k : holds[n] = hold
  <2> HIDE DEF k, hold
  <2> QED BY <1>2, <1>4, <1>8, IsASeq
<1>10. /\ level \in Seq(Event) /\ Len(level) = l
       /\ l = 1 => /\ level[1].action = IF IsPressed(b, last_level[b]) THEN "press" ELSE "release"
                   /\ level[1].type = "button" /\ level[1].button = b /\ ~level[1].emulated
  <2>1. CASE ~Changed(b)
    <3>1. level = <<>> BY <2>1 DEF LevelEvents
    <3> QED BY <2>1, <3>1, EmptySeq
  <2>2. CASE Changed(b)
    <3> DEFINE act == IF IsPressed(b, last_level[b]) THEN "press" ELSE "release"
               ms == IF IsPressed(b, last_level[b]) THEN 0 ELSE ToMs(now - last_button_press[b])
               e == ButtonEvent(b, act, ms, FALSE)
    <3>1. level = <<e>> BY <2>2 DEF LevelEvents
    <3>2. act \in {"press", "hold", "release"} /\ ms \in Nat BY <1>7
    <3>3. e \in Event /\ e.action = act /\ e.type = "button" /\ e.button = b /\ ~e.emulated
      <4> HIDE DEF act, ms
      <4> QED BY <1>6, <3>2
    <3> HIDE DEF e
    <3>4. <<e>> \in Seq(Event) /\ Len(<<e>>) = 1 /\ <<e>>[1] = e BY <3>3
    <3> QED BY <2>2, <3>1, <3>3, <3>4
  <2> QED BY <2>1, <2>2
<1>11. l \in {0, 1} OBVIOUS
<1> HIDE DEF k, hold, l, level, holds
<1>12. /\ events \in Seq(Event) /\ Len(events) = l + k
       /\ \A n \in 1..l + k : events[n] = IF n <= l THEN level[n] ELSE holds[n - l]
  <2>1. level \in Seq(Event) /\ holds \in Seq(Event) /\ Len(level) = l /\ Len(holds) = k
    BY <1>9, <1>10
  <2> QED BY <2>1, ConcatProperties
<1> HIDE DEF events
<1>13. \A n \in 1..l + k :
         /\ events[n].type = "button" /\ events[n].button = b /\ ~events[n].emulated
         /\ n > l => events[n].action = "hold"
         /\ n = l => events[n].action = IF IsPressed(b, last_level[b]) THEN "press" ELSE "release"
  <2> SUFFICES ASSUME NEW n \in 1..l + k
               PROVE  /\ events[n].type = "button" /\ events[n].button = b /\ ~events[n].emulated
                      /\ n > l => events[n].action = "hold"
                      /\ n = l => events[n].action = IF IsPressed(b, last_level[b]) THEN "press" ELSE "release"
    OBVIOUS
  <2>1. CASE n <= l
    <3>1. n = 1 /\ l = 1 BY <1>11, <2>1, <1>2
    <3>2. events[n] = level[1] BY <1>12, <2>1, <3>1
    <3> QED BY <1>10, <3>1, <3>2
  <2>2. CASE ~(n <= l)
    <3>1. n - l \in 1..k BY <1>11, <1>2, <2>2
    <3>2. events[n] = hold BY <1>9, <1>12, <2>2, <3>1
    <3>3. n # l BY <2>2, <1>11
    <3> QED BY <1>8, <3>2, <3>3
  <2> QED BY <2>1, <2>2
<1>14. /\ Len(queue) <= Len(queue') /\ Len(queue') <= q + (l + k)
       /\ \A n \in 1..Len(queue') : queue'[n] = IF n <= q THEN queue[n] ELSE events[n - q]
       /\ \A n \in 1..l + k : q + n <= Len(queue') \/ <<events[n].type, events[n].button>> \in lost'
  <2>1. Send(events) /\ Len(queue) <= QueueLength
    BY DEF events, level, holds, TypeOK
  <2> QED BY <1>3, <1>12, <2>1, SendContents
<1>15. Len(queue') \in Nat BY LenProperties
<1>16. Len(queue') = q + (l + k)
  <2>1. CASE l + k = 0 BY <2>1, <1>2, <1>3, <1>11, <1>14, <1>15
  <2>2. CASE l + k # 0
    <3>1. l + k \in 1..l + k BY <2>2, <1>2, <1>11
    <3>2. q + (l + k) <= Len(queue') BY <1>13, <1>14, <3>1
    <3> QED BY <3>2, <1>2, <1>3, <1>11, <1>14, <1>15
  <2> QED BY <2>1, <2>2
<1>17. \A n \in q + 1..q + (l + k) : n - q \in 1..l + k /\ queue'[n] = events[n - q]
  BY <1>2, <1>3, <1>11, <1>14, <1>16
<1>18. \A n \in 1..q : queue'[n] = queue[n] BY <1>2, <1>3, <1>11, <1>14, <1>16
<1>19. l = 1 => queue'[q + 1].action = IF IsPressed(b, last_level[b]) THEN "press" ELSE "release"
  <2> SUFFICES ASSUME l = 1
               PROVE  queue'[q + 1].action = IF IsPressed(b, last_level[b]) THEN "press" ELSE "release"
    OBVIOUS
  <2>1. q + 1 \in q + 1..q + (l + k) /\ q + 1 - q = 1 /\ 1 \in 1..l + k BY <1>2, <1>3
  <2>2. queue'[q + 1] = events[1] BY <1>17, <2>1
  <2> QED BY <1>13, <2>1, <2>2
<1>20. \A n \in q + 1..q + (l + k) : n = q + l \/ queue'[n].action = "hold"
  <2> SUFFICES ASSUME NEW n \in q + 1..q + (l + k), n # q + l PROVE queue'[n].action = "hold" OBVIOUS
  <2>1. n - q > l BY <1>2, <1>3, <1>11
  <2> QED BY <1>13, <1>17, <2>1
<1>21. ButtonEvents(b)' = ButtonEvents(b) \cup (q + 1..q + (l + k))
  <2>1. DOMAIN queue = 1..q /\ DOMAIN queue' = 1..q + (l + k)
    <3>1. DOMAIN queue = 1..q BY <1>3, LenProperties
    <3>2. DOMAIN queue' = 1..Len(queue') BY LenProperties
    <3> QED BY <3>1, <3>2, <1>16
  <2>2. 1..q + (l + k) = (1..q) \cup (q + 1..q + (l + k)) BY <1>2, <1>3, <1>11
  <2>3. \A n \in q + 1..q + (l + k) :
          queue'[n].type = "button" /\ queue'[n].button = b /\ ~queue'[n].emulated
    BY <1>13, <1>17
  <2> QED BY <2>1, <2>2, <2>3, <1>18 DEF ButtonEvents
<1> QED BY <1>2, <1>3, <1>16, <1>18, <1>19, <1>20, <1>21 DEF k, l

\* Neighbours, and the last, of a set of places that grows at its end.
LEMMA Neighbours ==
  ASSUME NEW q \in Nat, NEW k \in Nat, NEW E \in SUBSET (1..q),
         NEW m \in E \cup (q + 1..q + k), NEW n \in E \cup (q + 1..q + k), m < n,
         \A j \in E \cup (q + 1..q + k) : j <= m \/ n <= j
  PROVE  \/ m \in E /\ n \in E /\ \A j \in E : j <= m \/ n <= j
         \/ n = q + 1 /\ n \in q + 1..q + k /\ m \in E /\ \A j \in E : j <= m
         \/ m \in q + 1..q + k /\ n \in q + 1..q + k /\ n # q + 1
<1>1. CASE n \in E
  <2>1. m \in E BY <1>1
  <2> QED BY <1>1, <2>1
<1>2. CASE n \in q + 1..q + k
  <2>1. CASE m \in q + 1..q + k BY <1>2, <2>1
  <2>2. CASE m \in E
    <3>1. q + 1 \in q + 1..q + k BY <1>2
    <3>2. n = q + 1 BY <1>2, <2>2, <3>1
    <3> QED BY <1>2, <2>2, <3>2
  <2> QED BY <2>1, <2>2
<1> QED BY <1>1, <1>2

LEMMA LastPlace ==
  ASSUME NEW q \in Nat, NEW k \in Nat, NEW E \in SUBSET (1..q),
         NEW m \in E \cup (q + 1..q + k), \A j \in E \cup (q + 1..q + k) : j <= m
  PROVE  IF k = 0 THEN m \in E /\ \A j \in E : j <= m ELSE m = q + k
<1>1. CASE k = 0
  <2>1. q + 1..q + k = {} BY <1>1
  <2> QED BY <1>1, <2>1
<1>2. CASE k # 0
  <2>1. q + k \in q + 1..q + k BY <1>2
  <2> QED BY <1>2, <2>1
<1> QED BY <1>1, <1>2

LEMMA RangeSize ==
  ASSUME NEW q \in Nat, NEW k \in Nat
  PROVE  IsFiniteSet(q + 1..q + k) /\ Cardinality(q + 1..q + k) = k
<1>1. q + 1 \in Int /\ q + k \in Int OBVIOUS
<1>2. /\ IsFiniteSet(q + 1..q + k)
      /\ Cardinality(q + 1..q + k) = IF q + 1 > q + k THEN 0 ELSE (q + k) - (q + 1) + 1
  BY <1>1, FS_Interval
<1> QED BY <1>2

LEMMA DisjointSize ==
  ASSUME NEW S, NEW T, IsFiniteSet(S), IsFiniteSet(T), S \cap T = {}
  PROVE  Cardinality(S \cup T) = Cardinality(S) + Cardinality(T)
<1>1. Cardinality(S) \in Nat /\ Cardinality(T) \in Nat BY FS_CardinalityType
<1>2. Cardinality(S \cup T) = Cardinality(S) + Cardinality(T) - Cardinality(S \cap T) BY FS_Union
<1> QED BY <1>1, <1>2, FS_EmptySet

\* The events of a button stay in order through the callback's look at it.
LEMMA OrderSent ==
  ASSUME TypeOK, TypeOK', TimesInv, debounce_timer_elapsed_cb, NEW b \in Buttons, b = i,
         <<"button", b>> \notin lost', HoldsWhilePressed, EventsInOrder(b)
  PROVE  EventsInOrder(b)'
<1> DEFINE q == Len(queue)
           H == ElapsedHolds(b)
           k == Cardinality(H)
           E == ButtonEvents(b)
           D == Dispatched(b)
<1>1. b \in Buttons /\ queue \in Seq(Event) /\ queue' \in Seq(Event) BY DEF TypeOK
<1>2. /\ Send(LevelEvents(b) \o HoldEvents(b))
      /\ debounced_level' = [debounced_level EXCEPT ![b] = NewLevel(b)]
      /\ \A h \in HoldHandlers : dispatched'[h] =
           IF HoldButton[h] = b THEN (dispatched[h] /\ ~Released(b)) \/ HoldElapsed(h)
           ELSE dispatched[h]
  BY DEF debounce_timer_elapsed_cb
<1>3. button_is_pressed(b)' = IsPressed(b, NewLevel(b))
  BY <1>1, <1>2 DEF button_is_pressed, IsPressed, TypeOK
<1>4. /\ E \subseteq 1..q /\ q \in Nat
      /\ \A n \in E : queue[n].action \in {"press", "hold", "release"}
      /\ IsFiniteSet(LastHolds(b)) /\ Cardinality(LastHolds(b)) \in Nat
      /\ LastHolds(b) \subseteq E
  BY <1>1, ButtonEventPlaces, LenProperties
<1>5. D' = {h \in D : ~Released(b)} \cup H
  BY <1>2 DEF Dispatched, ElapsedHolds
<1>6. H \cap D = {} BY DEF ElapsedHolds, Dispatched, HoldElapsed, HoldOpen
<1>7. /\ IsFiniteSet(H) /\ k \in Nat
      /\ IsFiniteSet(D) /\ Cardinality(D) \in Nat
      /\ H = {} <=> k = 0
  <2>1. IsFiniteSet(H) BY ButtonsAssumption, FS_Subset DEF ElapsedHolds
  <2> QED BY <2>1, FS_CardinalityType, FS_EmptySet, DispatchedTypes
<1>8. H # {} => Held(b) BY DEF ElapsedHolds, HoldElapsed, HoldOpen
<1>9. /\ InOrder(b) /\ LastTellsLevel(b)
      /\ Cardinality(LastHolds(b)) <= Cardinality(D)
      /\ E # {} /\ LastHolds(b) = {} => D = {}
  BY DEF EventsInOrder
<1>10. ~button_is_pressed(b) => D = {} BY DEF HoldsWhilePressed, Dispatched
<1>11. last_level[b] \in BOOLEAN /\ debounced_level[b] \in BOOLEAN BY <1>1 DEF TypeOK
<1> SUFFICES InOrder(b)' /\ LastTellsLevel(b)'
             /\ Cardinality(LastHolds(b)') <= Cardinality(D')
             /\ (E' # {} /\ LastHolds(b)' = {} => D' = {})
  BY DEF EventsInOrder
<1>12. ASSUME Changed(b), IsPressed(b, last_level[b])
       PROVE  InOrder(b)' /\ LastTellsLevel(b)'
              /\ Cardinality(LastHolds(b)') <= Cardinality(D')
              /\ (E' # {} /\ LastHolds(b)' = {} => D' = {})
  <2> DEFINE K == 1 + k
             new == q + 1..q + K
             late == q + 1 + 1..q + 1 + k
  <2>1. ~button_is_pressed(b) /\ button_is_pressed(b)'
    BY <1>3, <1>11, <1>12 DEF Changed, NewLevel, button_is_pressed, IsPressed
  <2>2. D' = H BY <1>5, <1>10, <2>1
  <2>3. /\ \A n \in 1..q : queue'[n] = queue[n]
        /\ queue'[q + 1].action = "press"
        /\ \A n \in new : n = q + 1 \/ queue'[n].action = "hold"
        /\ E' = E \cup new
    BY <1>1, <1>2, <1>12, SentByCallback
  <2>4. K \in Nat /\ K # 0 BY <1>7
  <2>5. \A n \in E : queue'[n] = queue[n] BY <1>4, <2>3
  <2>6. q + 1 \in new /\ \A n \in new : queue'[n].action \in {"press", "hold"}
    <3>1. q + 1 \in new BY <1>4, <2>4
    <3> QED BY <2>3, <3>1
  <2>7. new = {q + 1} \cup late /\ q + 1 \notin late /\ \A n \in late : n > q + 1
    BY <1>4, <1>7
  <2> HIDE DEF E, D, k, H, q, K
  <2>8. InOrder(b)'
    <3> SUFFICES ASSUME NEW m \in E', NEW n \in E', m < n, \A j \in E' : j <= m \/ n <= j
                 PROVE  queue'[n].action \in Follow[queue'[m].action]
      BY DEF InOrder, E, Follow
    <3>1. CASE m \in E /\ n \in E /\ \A j \in E : j <= m \/ n <= j
      <4>1. queue[n].action \in Follow[queue[m].action] BY <1>9, <3>1 DEF InOrder, E
      <4> QED BY <2>5, <3>1, <4>1
    <3>2. CASE n = q + 1 /\ m \in E /\ \A j \in E : j <= m
      <4>1. queue[m].action = "release" BY <1>9, <2>1, <3>2 DEF LastTellsLevel, E
      <4> QED BY <2>3, <2>5, <3>2, <4>1 DEF Follow
    <3>3. CASE m \in new /\ n \in new /\ n # q + 1
      <4>1. queue'[n].action = "hold" /\ queue'[m].action \in {"press", "hold"} BY <2>3, <2>6, <3>3
      <4> QED BY <4>1 DEF Follow
    <3> QED BY <1>4, <2>3, <2>4, <3>1, <3>2, <3>3, Neighbours
  <2>9. LastTellsLevel(b)'
    <3> SUFFICES ASSUME NEW m \in E', \A j \in E' : j <= m
                 PROVE  queue'[m].action # "release"
      BY <2>1 DEF LastTellsLevel, E
    <3>1. m = q + K
      <4>1. E \in SUBSET (1..q) /\ q \in Nat /\ E' = E \cup (q + 1..q + K) BY <1>4, <2>3
      <4>2. IF K = 0 THEN m \in E /\ \A j \in E : j <= m ELSE m = q + K
        BY <2>4, <4>1, LastPlace
      <4> QED BY <2>4, <4>2
    <3>2. m \in new BY <1>4, <2>4, <3>1
    <3> QED BY <2>6, <3>2
  <2>10. LastHolds(b)' = late
    <3>1. ASSUME NEW n \in LastHolds(b)' PROVE n \in late
      <4>1. n \in E' /\ \A m \in E' : m >= n => queue'[m].action = "hold"
        BY <3>1 DEF LastHolds, E
      <4>2. q + 1 \in E' /\ queue'[q + 1].action # "hold" BY <2>3, <2>6
      <4>3. ~(q + 1 >= n) BY <4>1, <4>2
      <4> QED BY <1>4, <2>3, <2>7, <4>1, <4>3
    <3>2. ASSUME NEW n \in late PROVE n \in LastHolds(b)'
      <4>1. ASSUME NEW m \in E', m >= n PROVE queue'[m].action = "hold"
        <5>1. m \in late BY <1>4, <2>3, <2>7, <3>2, <4>1
        <5> QED BY <2>3, <2>7, <5>1
      <4> QED BY <2>3, <2>7, <3>2, <4>1 DEF LastHolds, E
    <3> QED BY <3>1, <3>2
  <2>11. Cardinality(late) = k
    <3>1. q + 1 \in Nat BY <1>4
    <3> QED BY <1>7, <3>1, RangeSize
  <2>12. Cardinality(D') = k BY <2>2 DEF k
  <2>13. LastHolds(b)' = {} => D' = {}
    <3>1. k # 0 => q + 1 + 1 \in late BY <1>4, <1>7
    <3> QED BY <3>1, <1>7, <2>2, <2>10
  <2> QED BY <1>7, <2>8, <2>9, <2>10, <2>11, <2>12, <2>13
<1>13. ASSUME Changed(b), ~IsPressed(b, last_level[b])
       PROVE  InOrder(b)' /\ LastTellsLevel(b)'
              /\ Cardinality(LastHolds(b)') <= Cardinality(D')
              /\ (E' # {} /\ LastHolds(b)' = {} => D' = {})
  <2>1. button_is_pressed(b) /\ ~button_is_pressed(b)' /\ Released(b)
    BY <1>3, <1>11, <1>13 DEF Changed, NewLevel, button_is_pressed, IsPressed, Released
  <2>2. H = {} /\ k = 0 BY <1>7, <1>8, <1>13 DEF Held
  <2>3. D' = {} BY <1>5, <2>1, <2>2
  <2>4. /\ \A n \in 1..q : queue'[n] = queue[n]
        /\ queue'[q + 1].action = "release"
        /\ E' = E \cup (q + 1..q + 1)
    <3>1. /\ \A n \in 1..q : queue'[n] = queue[n]
          /\ queue'[q + 1].action = "release"
          /\ E' = E \cup (q + 1..q + (1 + k))
      BY <1>1, <1>2, <1>13, SentByCallback
    <3> QED BY <3>1, <2>2, <1>4
  <2>5. \A n \in E : queue'[n] = queue[n] BY <1>4, <2>4
  <2>6. q + 1..q + 1 = {q + 1} BY <1>4
  <2> HIDE DEF E, D, k, H, q
  <2>7. InOrder(b)'
    <3> SUFFICES ASSUME NEW m \in E', NEW n \in E', m < n, \A j \in E' : j <= m \/ n <= j
                 PROVE  queue'[n].action \in Follow[queue'[m].action]
      BY DEF InOrder, E, Follow
    <3>1. CASE m \in E /\ n \in E /\ \A j \in E : j <= m \/ n <= j
      <4>1. queue[n].action \in Follow[queue[m].action] BY <1>9, <3>1 DEF InOrder, E
      <4> QED BY <2>5, <3>1, <4>1
    <3>2. CASE n = q + 1 /\ m \in E /\ \A j \in E : j <= m
      <4>1. queue[m].action # "release" BY <1>9, <2>1, <3>2 DEF LastTellsLevel, E
      <4>2. queue'[m].action \in {"press", "hold"} BY <1>4, <2>5, <3>2, <4>1
      <4> QED BY <2>4, <3>2, <4>2 DEF Follow
    <3> QED BY <1>4, <2>4, <2>6, <3>1, <3>2, Neighbours
  <2>8. LastTellsLevel(b)'
    <3> SUFFICES ASSUME NEW m \in E', \A j \in E' : j <= m
                 PROVE  queue'[m].action = "release"
      BY <2>1 DEF LastTellsLevel, E
    <3>1. m = q + 1 BY <1>4, <2>4, <2>6
    <3> QED BY <2>4, <3>1
  <2>9. LastHolds(b)' = {}
    <3>1. q + 1 \in E' /\ \A n \in E' : q + 1 >= n BY <1>4, <2>4, <2>6
    <3> QED BY <2>4, <3>1 DEF LastHolds, E
  <2> QED BY <2>3, <2>7, <2>8, <2>9, FS_EmptySet
<1>14. ASSUME ~Changed(b)
       PROVE  InOrder(b)' /\ LastTellsLevel(b)'
              /\ Cardinality(LastHolds(b)') <= Cardinality(D')
              /\ (E' # {} /\ LastHolds(b)' = {} => D' = {})
  <2> DEFINE new == q + 1..q + k
  <2>1. button_is_pressed(b)' = button_is_pressed(b)
    BY <1>3, <1>11, <1>14 DEF Changed, NewLevel, button_is_pressed, IsPressed
  <2>2. D' = D \cup H BY <1>5, <1>14 DEF Released
  <2>3. /\ \A n \in 1..q : queue'[n] = queue[n]
        /\ \A n \in new : queue'[n].action = "hold"
        /\ E' = E \cup new
    <3>1. /\ \A n \in 1..q : queue'[n] = queue[n]
          /\ \A n \in q + 1..q + (0 + k) : n = q + 0 \/ queue'[n].action = "hold"
          /\ E' = E \cup (q + 1..q + (0 + k))
      BY <1>1, <1>2, <1>14, SentByCallback
    <3>2. q + (0 + k) = q + k /\ \A n \in new : n # q + 0 BY <1>4, <1>7
    <3> QED BY <3>1, <3>2
  <2>4. k # 0 => button_is_pressed(b)
    BY <1>7, <1>8, <1>11, <1>14 DEF Held, Changed, button_is_pressed, IsPressed
  <2>5. \A n \in E : queue'[n] = queue[n] BY <1>4, <2>3
  <2>6. \A n \in new : n > q /\ k # 0 BY <1>4, <1>7
  <2> HIDE DEF E, D, k, H, q
  <2>7. InOrder(b)'
    <3> SUFFICES ASSUME NEW m \in E', NEW n \in E', m < n, \A j \in E' : j <= m \/ n <= j
                 PROVE  queue'[n].action \in Follow[queue'[m].action]
      BY DEF InOrder, E, Follow
    <3>1. CASE m \in E /\ n \in E /\ \A j \in E : j <= m \/ n <= j
      <4>1. queue[n].action \in Follow[queue[m].action] BY <1>9, <3>1 DEF InOrder, E
      <4> QED BY <2>5, <3>1, <4>1
    <3>2. CASE n \in new /\ m \in E /\ \A j \in E : j <= m
      <4>1. queue[m].action # "release" BY <1>9, <2>4, <2>6, <3>2 DEF LastTellsLevel, E
      <4>2. queue'[m].action \in {"press", "hold"} BY <1>4, <2>5, <3>2, <4>1
      <4> QED BY <2>3, <3>2, <4>2 DEF Follow
    <3>3. CASE m \in new /\ n \in new BY <2>3, <3>3 DEF Follow
    <3> QED BY <1>4, <1>7, <2>3, <3>1, <3>2, <3>3, Neighbours
  <2>8. LastTellsLevel(b)'
    <3> SUFFICES ASSUME NEW m \in E', \A j \in E' : j <= m
                 PROVE  queue'[m].action # "release" <=> button_is_pressed(b)
      BY <2>1 DEF LastTellsLevel, E
    <3>1. IF k = 0 THEN m \in E /\ \A j \in E : j <= m ELSE m = q + k
      <4>1. E \in SUBSET (1..q) /\ q \in Nat /\ E' = E \cup (q + 1..q + k) BY <1>4, <2>3
      <4> QED BY <1>7, <4>1, LastPlace
    <3>2. CASE k = 0 BY <1>9, <2>5, <3>1, <3>2 DEF LastTellsLevel, E
    <3>3. CASE k # 0
      <4>1. m \in new BY <1>4, <1>7, <3>1, <3>3
      <4> QED BY <2>3, <2>4, <3>3, <4>1
    <3> QED BY <3>2, <3>3
  <2>9. LastHolds(b)' = LastHolds(b) \cup new
    <3>1. ASSUME NEW n \in new PROVE n \in LastHolds(b)'
      <4>1. ASSUME NEW m \in E', m >= n PROVE m \in new
        <5>1. n \in Int /\ q \in Int /\ n > q BY <1>4, <2>6, <3>1
        <5>2. m \in E => m \in Int /\ m <= q BY <1>4
        <5> QED BY <2>3, <4>1, <5>1, <5>2
      <4> QED BY <2>3, <3>1, <4>1 DEF LastHolds, E
    <3>2. ASSUME NEW n \in LastHolds(b) PROVE n \in LastHolds(b)'
      <4>1. n \in E /\ \A m \in E : m >= n => queue[m].action = "hold"
        BY <3>2 DEF LastHolds, E
      <4> QED BY <2>3, <2>5, <4>1 DEF LastHolds, E
    <3>3. ASSUME NEW n \in LastHolds(b)', n \notin new PROVE n \in LastHolds(b)
      <4>1. n \in E' /\ \A m \in E' : m >= n => queue'[m].action = "hold"
        BY <3>3 DEF LastHolds, E
      <4>2. n \in E /\ \A m \in E : m >= n => queue[m].action = "hold"
        BY <2>3, <2>5, <3>3, <4>1
      <4> QED BY <4>2 DEF LastHolds, E
    <3> QED BY <3>1, <3>2, <3>3
  <2>10. Cardinality(new) = k /\ IsFiniteSet(new) BY <1>4, <1>7, RangeSize
  <2>11. LastHolds(b) \cap new = {} BY <1>4, <2>6
  <2>12. Cardinality(LastHolds(b)') = Cardinality(LastHolds(b)) + k
    <3> HIDE DEF new
    <3> QED BY <1>4, <2>9, <2>10, <2>11, DisjointSize
  <2>13. Cardinality(D') = Cardinality(D) + k
    BY <1>6, <1>7, <2>2, DisjointSize DEF k
  <2>14. Cardinality(LastHolds(b)') <= Cardinality(D') BY <1>4, <1>7, <1>9, <2>12, <2>13
  <2>15. E' # {} /\ LastHolds(b)' = {} => D' = {}
    <3> SUFFICES ASSUME E' # {}, LastHolds(b)' = {} PROVE D' = {} OBVIOUS
    <3>1. new = {} /\ LastHolds(b) = {} BY <2>9
    <3>2. k = 0
      <4>1. k # 0 => q + k \in new BY <1>4, <1>7
      <4> QED BY <3>1, <4>1
    <3>3. E' = E BY <2>3, <3>1
    <3> QED BY <1>7, <1>9, <2>2, <3>1, <3>2, <3>3
  <2> QED BY <2>7, <2>8, <2>14, <2>15
<1> QED BY <1>12, <1>13, <1>14

-------------------------------------------------------------------------------
(* The steps.                                                               *)

QueueInv == HoldEventsMatch /\ LevelTracked /\ HoldsWhilePressed /\ EventOrder

\* Steps that leave the state of the buttons alone and send events of no
\* debounced button, or one of a pin, or take an event.
LEMMA SendStep ==
  ASSUME TypeOK, TypeOK', QueueInv, UNCHANGED <<state, pin>>, NEW events \in Seq(Event), Send(events),
         \A n \in 1..Len(events) : LongEnough(events[n]),
         \A n \in 1..Len(events) : events[n].type = "button" => events[n].emulated,
         \A n \in 1..Len(events) : events[n].type = "gpio" =>
           events = <<GpioEvent(events[1].button, clock, pin[events[1].button])>>,
         irq \subseteq irq' \cup {events[n].button : n \in {n \in 1..Len(events) : events[n].type = "gpio"}}
  PROVE  QueueInv'
<1>1. /\ queue \in Seq(Event) /\ queue' \in Seq(Event) /\ Len(queue) <= QueueLength
      /\ Len(queue) \in Nat /\ Len(queue') \in Nat /\ Len(events) \in Nat
  BY LenProperties DEF TypeOK
<1>2. /\ Len(queue) <= Len(queue') /\ Len(queue') <= Len(queue) + Len(events)
      /\ \A n \in 1..Len(queue') :
           queue'[n] = IF n <= Len(queue) THEN queue[n] ELSE events[n - Len(queue)]
      /\ lost \subseteq lost'
      /\ \A n \in 1..Len(events) :
           Len(queue) + n <= Len(queue') \/ <<events[n].type, events[n].button>> \in lost'
  BY <1>1, SendContents
<1>3. \A n \in 1..Len(queue) : queue'[n] = queue[n] BY <1>1, <1>2
<1>4. ASSUME NEW n \in Len(queue) + 1..Len(queue')
      PROVE  n - Len(queue) \in 1..Len(events) /\ queue'[n] = events[n - Len(queue)]
  BY <1>1, <1>2
<1>5. HoldEventsMatch'
  <2>1. \A n \in 1..Len(queue) : LongEnough(queue[n]) BY <1>1, HoldEventsByPlace DEF QueueInv
  <2>2. ASSUME NEW n \in 1..Len(queue') PROVE LongEnough(queue'[n])
    <3>1. n \in 1..Len(queue) \/ n \in Len(queue) + 1..Len(queue') BY <1>1
    <3> QED BY <1>3, <1>4, <2>1, <3>1
  <2>3. HoldEventsMatch' <=> \A n \in 1..Len(queue') : LongEnough(queue'[n])
    BY <1>1, HoldEventsByPlace
  <2> QED BY <2>2, <2>3
<1>6. HoldsWhilePressed'
  BY DEF QueueInv, HoldsWhilePressed, button_is_pressed, IsPressed, state
<1>7. EventOrder'
  <2> SUFFICES ASSUME NEW b \in Buttons, <<"button", b>> \notin lost' PROVE EventsInOrder(b)'
    BY DEF EventOrder
  <2>1. EventsInOrder(b) BY <1>2 DEF QueueInv, EventOrder
  <2>2. \A n \in Len(queue) + 1..Len(queue') :
          ~(queue'[n].type = "button" /\ queue'[n].button = b /\ ~queue'[n].emulated)
    BY <1>4
  <2>3. button_is_pressed(b)' = button_is_pressed(b) /\ Dispatched(b)' = Dispatched(b)
    BY DEF button_is_pressed, IsPressed, Dispatched, state
  <2> QED BY <1>1, <1>2, <1>3, <2>1, <2>2, <2>3, OrderKept
<1>8. LevelTracked'
  <2> SUFFICES ASSUME NEW b \in Buttons, b \notin irq', <<"gpio", b>> \notin lost' PROVE LevelKnown(b)'
    BY DEF LevelTracked, LevelKnown
  <2>1. last_level'[b] = last_level[b] /\ pin'[b] = pin[b] BY DEF state
  <2>2. CASE \E n \in 1..Len(events) : events[n].type = "gpio" /\ events[n].button = b
    <3>1. PICK n \in 1..Len(events) : events[n].type = "gpio" /\ events[n].button = b BY <2>2
    <3>2. events = <<GpioEvent(events[1].button, clock, pin[events[1].button])>> BY <3>1
    <3>3. Len(events) = 1 BY <3>2
    <3>4. n = 1 /\ events[1] = GpioEvent(b, clock, pin[b]) BY <3>1, <3>2, <3>3
    <3>5. Len(queue) + 1 <= Len(queue') BY <1>2, <3>1, <3>4
    <3>6. Len(queue') = Len(queue) + 1 BY <1>1, <1>2, <3>3, <3>5
    <3>7. queue'[Len(queue')] = events[1]
      <4>1. Len(queue') \in Len(queue) + 1..Len(queue') /\ Len(queue') - Len(queue) = 1 BY <1>1, <3>6
      <4> QED BY <1>4, <4>1
    <3> QED BY <1>1, <1>3, <2>1, <3>4, <3>6, <3>7, LevelSent
  <2>3. CASE ~\E n \in 1..Len(events) : events[n].type = "gpio" /\ events[n].button = b
    <3>1. b \notin irq /\ <<"gpio", b>> \notin lost BY <1>2, <2>3
    <3>2. LevelKnown(b) BY <3>1 DEF QueueInv, LevelTracked, LevelKnown
    <3>3. \A n \in Len(queue) + 1..Len(queue') : ~(queue'[n].type = "gpio" /\ queue'[n].button = b)
      BY <1>4, <2>3
    <3> QED BY <1>1, <1>2, <1>3, <2>1, <3>2, <3>3, LevelKept
  <2> QED BY <2>2, <2>3
<1> QED BY <1>5, <1>6, <1>7, <1>8 DEF QueueInv

LEMMA TakeStep == ASSUME TypeOK, TypeOK', QueueInv, button_event_loop PROVE QueueInv'
<1>1. /\ queue # <<>> /\ queue' = Tail(queue)
      /\ process_gpio_event(Head(queue)) \/ process_button_event(Head(queue))
      /\ UNCHANGED <<clock, pin, irq, lost>>
  BY DEF button_event_loop
<1>2. UNCHANGED <<debounced_level, last_button_press, dispatched>>
  BY <1>1 DEF process_gpio_event, process_button_event, state
<1>3. queue \in Seq(Event) /\ queue' \in Seq(Event) /\ Head(queue) \in Event
  BY <1>1, HeadTailProperties DEF TypeOK
<1>4. /\ Len(queue) \in Nat \ {0} /\ Len(queue') = Len(queue) - 1
      /\ \A n \in 1..Len(queue) - 1 : queue'[n] = queue[n + 1]
  BY <1>1, <1>3, TailContents
<1>5. HoldEventsMatch'
  <2>1. \A n \in 1..Len(queue) : LongEnough(queue[n]) BY <1>3, HoldEventsByPlace DEF QueueInv
  <2>2. ASSUME NEW n \in 1..Len(queue') PROVE LongEnough(queue'[n])
    <3>1. n \in 1..Len(queue) - 1 /\ n + 1 \in 1..Len(queue) BY <1>4
    <3> QED BY <1>4, <2>1, <3>1
  <2>3. HoldEventsMatch' <=> \A n \in 1..Len(queue') : LongEnough(queue'[n])
    BY <1>3, HoldEventsByPlace
  <2> QED BY <2>2, <2>3
<1>6. HoldsWhilePressed' BY <1>2 DEF QueueInv, HoldsWhilePressed, button_is_pressed, IsPressed
<1>7. EventOrder'
  <2> SUFFICES ASSUME NEW b \in Buttons, <<"button", b>> \notin lost' PROVE EventsInOrder(b)'
    BY DEF EventOrder
  <2>1. EventsInOrder(b) BY <1>1 DEF QueueInv, EventOrder
  <2>2. button_is_pressed(b)' = button_is_pressed(b) /\ Dispatched(b)' = Dispatched(b)
    BY <1>2 DEF button_is_pressed, IsPressed, Dispatched
  <2> QED BY <1>1, <1>3, <2>1, <2>2, OrderTaken
<1>8. LevelTracked'
  <2> SUFFICES ASSUME NEW b \in Buttons, b \notin irq', <<"gpio", b>> \notin lost' PROVE LevelKnown(b)'
    BY DEF LevelTracked, LevelKnown
  <2>1. LevelKnown(b) BY <1>1 DEF QueueInv, LevelTracked, LevelKnown
  <2>2. last_level'[b] = IF Head(queue).type = "gpio" /\ Head(queue).button = b
                           THEN Head(queue).level ELSE last_level[b]
    <3>1. CASE process_gpio_event(Head(queue))
      <4>1. CASE Head(queue).level # last_level[Head(queue).button]
        BY <3>1, <4>1 DEF process_gpio_event, TypeOK
      <4>2. CASE Head(queue).level = last_level[Head(queue).button]
        BY <3>1, <4>2 DEF process_gpio_event
      <4> QED BY <4>1, <4>2
    <3>2. CASE process_button_event(Head(queue))
      BY <3>2 DEF process_button_event, state
    <3> QED BY <1>1, <3>1, <3>2
  <2> QED BY <1>1, <1>3, <2>1, <2>2, LevelTaken
<1> QED BY <1>5, <1>6, <1>7, <1>8 DEF QueueInv

LEMMA LookStep ==
  ASSUME TypeOK, TypeOK', TimesInv, QueueInv, debounce_timer_elapsed_cb
  PROVE  QueueInv'
<1> DEFINE events == LevelEvents(i) \o HoldEvents(i)
<1>1. /\ queue \in Seq(Event) /\ queue' \in Seq(Event) /\ Len(queue) <= QueueLength
      /\ Len(queue) \in Nat /\ Len(queue') \in Nat /\ i \in Buttons
  BY LenProperties DEF TypeOK
<1>2. /\ Send(events) /\ UNCHANGED <<pin, irq, last_level>>
      /\ debounced_level' = [debounced_level EXCEPT ![i] = NewLevel(i)]
      /\ \A h \in HoldHandlers : dispatched'[h] =
           IF HoldButton[h] = i THEN (dispatched[h] /\ ~Released(i)) \/ HoldElapsed(h)
           ELSE dispatched[h]
  BY DEF debounce_timer_elapsed_cb
<1>3. /\ events \in Seq(Event)
      /\ \A n \in 1..Len(events) :
           /\ events[n].type = "button" /\ events[n].button = i
           /\ LongEnough(events[n])
  <2>1. events \in Seq(Event) BY <1>1, LookTypes
  <2>2. ASSUME NEW n \in 1..Len(LevelEvents(i))
        PROVE  LevelEvents(i)[n].type = "button" /\ LevelEvents(i)[n].button = i
               /\ LongEnough(LevelEvents(i)[n])
    BY <2>2 DEF LevelEvents, ButtonEvent, LongEnough
  <2>3. ASSUME NEW n \in DOMAIN HoldEvents(i)
        PROVE  HoldEvents(i)[n].type = "button" /\ HoldEvents(i)[n].button = i
               /\ LongEnough(HoldEvents(i)[n])
    <3>1. n \in 1..Cardinality(ElapsedHolds(i)) BY <2>3 DEF HoldEvents, ElapsedHolds
    <3>2. IsFiniteSet(ElapsedHolds(i)) BY ButtonsAssumption, FS_Subset DEF ElapsedHolds
    <3>3. ElapsedHolds(i) # {}
      <4> SUFFICES ASSUME ElapsedHolds(i) = {} PROVE FALSE OBVIOUS
      <4>1. Cardinality(ElapsedHolds(i)) = 0 BY FS_EmptySet
      <4> QED BY <3>1, <4>1
    <3>4. PICK h \in HoldHandlers : HoldButton[h] = i /\ HoldElapsed(h) BY <3>3 DEF ElapsedHolds
    <3>5. ToMs(now - NewPress(i)) >= MinHold[h] BY <3>4, HoldLongEnough
    <3>6. HoldEvents(i)[n] = ButtonEvent(i, "hold", ToMs(now - NewPress(i)), FALSE)
      BY <3>1 DEF HoldEvents, ElapsedHolds
    <3> QED BY <3>4, <3>5, <3>6 DEF ButtonEvent, LongEnough
  <2>4. LevelEvents(i) \in Seq(Event) /\ HoldEvents(i) \in Seq(Event)
    BY <1>1, LookTypes
  <2>5. Len(events) = Len(LevelEvents(i)) + Len(HoldEvents(i))
        /\ \A n \in 1..Len(LevelEvents(i)) + Len(HoldEvents(i)) :
             events[n] = IF n <= Len(LevelEvents(i)) THEN LevelEvents(i)[n]
                         ELSE HoldEvents(i)[n - Len(LevelEvents(i))]
    BY <2>4, ConcatProperties
  <2>6. /\ Len(LevelEvents(i)) \in Nat /\ Len(HoldEvents(i)) \in Nat
        /\ DOMAIN HoldEvents(i) = 1..Len(HoldEvents(i))
    BY <2>4, LenProperties
  <2> QED BY <2>1, <2>2, <2>3, <2>5, <2>6
<1>4. /\ Len(queue) <= Len(queue') /\ Len(queue') <= Len(queue) + Len(events)
      /\ \A n \in 1..Len(queue') :
           queue'[n] = IF n <= Len(queue) THEN queue[n] ELSE events[n - Len(queue)]
      /\ lost \subseteq lost'
  BY <1>1, <1>2, <1>3, SendContents
<1>5. Len(events) \in Nat BY <1>3, LenProperties
<1> HIDE DEF events
<1>6. \A n \in 1..Len(queue) : queue'[n] = queue[n] BY <1>1, <1>4
<1>7. ASSUME NEW n \in Len(queue) + 1..Len(queue')
      PROVE  n - Len(queue) \in 1..Len(events) /\ queue'[n] = events[n - Len(queue)]
  BY <1>1, <1>4, <1>5
<1>8. HoldEventsMatch'
  <2>1. \A n \in 1..Len(queue) : LongEnough(queue[n]) BY <1>1, HoldEventsByPlace DEF QueueInv
  <2>2. ASSUME NEW n \in 1..Len(queue') PROVE LongEnough(queue'[n])
    <3>1. n \in 1..Len(queue) \/ n \in Len(queue) + 1..Len(queue') BY <1>1
    <3> QED BY <1>3, <1>6, <1>7, <2>1, <3>1
  <2>3. HoldEventsMatch' <=> \A n \in 1..Len(queue') : LongEnough(queue'[n])
    BY <1>1, HoldEventsByPlace
  <2> QED BY <2>2, <2>3
<1>9. HoldsWhilePressed'
  <2> SUFFICES ASSUME NEW h \in HoldHandlers, dispatched'[h]
               PROVE  button_is_pressed(HoldButton[h])'
    BY DEF HoldsWhilePressed
  <2>1. HoldButton[h] \in Buttons BY ButtonsAssumption
  <2>2. CASE HoldButton[h] # i
    BY <1>1, <1>2, <2>1, <2>2 DEF QueueInv, HoldsWhilePressed, button_is_pressed, IsPressed, TypeOK
  <2>3. CASE HoldButton[h] = i
    <3>1. debounced_level'[i] = NewLevel(i) BY <1>1, <1>2 DEF TypeOK
    <3>2. last_level[i] \in BOOLEAN /\ debounced_level[i] \in BOOLEAN BY <1>1 DEF TypeOK
    <3>3. CASE HoldElapsed(h)
      BY <2>3, <3>1, <3>3 DEF HoldElapsed, HoldOpen, Held, NewLevel, button_is_pressed, IsPressed
    <3>4. CASE dispatched[h] /\ ~Released(i)
      <4>1. IsPressed(i, debounced_level[i]) BY <2>3, <3>4 DEF QueueInv, HoldsWhilePressed, button_is_pressed
      <4>2. IsPressed(i, NewLevel(i)) BY <3>4, <4>1 DEF NewLevel, Released, Changed
      <4> QED BY <2>3, <3>1, <4>2 DEF button_is_pressed, IsPressed
    <3> QED BY <1>2, <2>3, <3>3, <3>4
  <2> QED BY <2>2, <2>3
<1>10. EventOrder'
  <2> SUFFICES ASSUME NEW b \in Buttons, <<"button", b>> \notin lost' PROVE EventsInOrder(b)'
    BY DEF EventOrder
  <2>1. EventsInOrder(b) BY <1>4 DEF QueueInv, EventOrder
  <2>2. CASE b = i BY <2>1, <2>2, OrderSent DEF QueueInv
  <2>3. CASE b # i
    <3>1. \A n \in Len(queue) + 1..Len(queue') :
            ~(queue'[n].type = "button" /\ queue'[n].button = b /\ ~queue'[n].emulated)
      BY <1>3, <1>7, <2>3
    <3>2. button_is_pressed(b)' = button_is_pressed(b)
      BY <1>1, <1>2, <2>3 DEF button_is_pressed, IsPressed, TypeOK
    <3>3. Dispatched(b)' = Dispatched(b) BY <1>2, <2>3 DEF Dispatched
    <3> QED BY <1>1, <1>4, <1>6, <2>1, <3>1, <3>2, <3>3, OrderKept
  <2> QED BY <2>2, <2>3
<1>11. LevelTracked'
  <2> SUFFICES ASSUME NEW b \in Buttons, b \notin irq', <<"gpio", b>> \notin lost' PROVE LevelKnown(b)'
    BY DEF LevelTracked, LevelKnown
  <2>1. LevelKnown(b) BY <1>2, <1>4 DEF QueueInv, LevelTracked, LevelKnown
  <2>2. \A n \in Len(queue) + 1..Len(queue') : ~(queue'[n].type = "gpio" /\ queue'[n].button = b)
    BY <1>3, <1>7
  <2>3. last_level'[b] = last_level[b] /\ pin'[b] = pin[b] BY <1>2
  <2> QED BY <1>1, <1>4, <1>6, <2>1, <2>2, <2>3, LevelKept
<1> QED BY <1>8, <1>9, <1>10, <1>11 DEF QueueInv

\* Steps that touch neither the queue nor the buttons.
LEMMA QuietStep ==
  ASSUME QueueInv, UNCHANGED <<queue, lost, state>>,
         \A b \in Buttons : b \notin irq' => b \notin irq /\ pin'[b] = pin[b]
  PROVE  QueueInv'
<1>1. HoldEventsMatch' BY DEF QueueInv, HoldEventsMatch
<1>2. HoldsWhilePressed' BY DEF QueueInv, HoldsWhilePressed, button_is_pressed, IsPressed, state
<1>3. EventOrder'
  <2> SUFFICES ASSUME NEW b \in Buttons, <<"button", b>> \notin lost' PROVE EventsInOrder(b)'
    BY DEF EventOrder
  <2>1. EventsInOrder(b) BY DEF QueueInv, EventOrder
  <2>2. /\ ButtonEvents(b)' = ButtonEvents(b) /\ LastHolds(b)' = LastHolds(b)
        /\ Dispatched(b)' = Dispatched(b) /\ (button_is_pressed(b)' <=> button_is_pressed(b))
    BY DEF ButtonEvents, LastHolds, Dispatched, button_is_pressed, IsPressed, state
  <2>3. InOrder(b)' BY <2>1, <2>2 DEF EventsInOrder, InOrder, Follow
  <2>4. LastTellsLevel(b)' BY <2>1, <2>2 DEF EventsInOrder, LastTellsLevel
  <2> QED BY <2>1, <2>2, <2>3, <2>4 DEF EventsInOrder
<1>4. LevelTracked' BY DEF QueueInv, LevelTracked, GpioEvents, state
<1> QED BY <1>1, <1>2, <1>3, <1>4 DEF QueueInv

LEMMA InitQueue == Init => QueueInv
<1> SUFFICES ASSUME Init PROVE QueueInv OBVIOUS
<1>1. queue = <<>> /\ DOMAIN queue = {} BY DEF Init
<1>2. HoldEventsMatch BY <1>1 DEF HoldEventsMatch, ToSet
<1>3. LevelTracked BY <1>1 DEF Init, LevelTracked, GpioEvents
<1>4. HoldsWhilePressed BY DEF Init, HoldsWhilePressed
<1>5. EventOrder
  <2>1. \A b : ButtonEvents(b) = {} /\ LastHolds(b) = {} BY <1>1 DEF ButtonEvents, LastHolds
  <2>2. \A b : Dispatched(b) = {} BY DEF Init, Dispatched
  <2> QED BY <2>1, <2>2, FS_EmptySet DEF EventOrder, EventsInOrder, InOrder, LastTellsLevel
<1> QED BY <1>2, <1>3, <1>4, <1>5 DEF QueueInv

LEMMA StepQueue == ASSUME ButtonsInv, ButtonsInv', QueueInv, [Next]_vars PROVE QueueInv'
<1>1. TypeOK /\ TypeOK' /\ TimesInv BY DEF ButtonsInv
<1>2. ASSUME NEW b \in Buttons, Edge(b) PROVE QueueInv'
  <2>1. irq' = irq \cup {b} /\ UNCHANGED <<queue, lost, state>>
        /\ \A c \in Buttons : c # b => pin'[c] = pin[c]
    BY <1>1, <1>2 DEF Edge, TypeOK
  <2> QED BY <2>1, QuietStep
<1>3. ASSUME NEW b \in Buttons, button_isr(b) PROVE QueueInv'
  <2> DEFINE e == GpioEvent(b, clock, pin[b])
             events == <<e>>
  <2>1. Send(events) /\ UNCHANGED <<state, pin>> /\ irq' = irq \ {b} BY <1>3 DEF button_isr
  <2>2. e \in Event /\ e.type = "gpio" /\ e.button = b BY <1>1 DEF GpioEvent, Event, TypeOK
  <2>3. events \in Seq(Event) /\ Len(events) = 1 /\ events[1] = e BY <2>2
  <2>4. events = <<GpioEvent(events[1].button, clock, pin[events[1].button])>> BY <2>2, <2>3
  <2> HIDE DEF e
  <2>5. \A n \in 1..Len(events) : n = 1 /\ events[n] = e BY <2>3
  <2>6. irq \subseteq irq' \cup {events[n].button : n \in {n \in 1..Len(events) : events[n].type = "gpio"}}
    <3>1. 1 \in {n \in 1..Len(events) : events[n].type = "gpio"} /\ events[1].button = b BY <2>2, <2>3
    <3> QED BY <2>1, <3>1
  <2> HIDE DEF events
  <2>7. /\ \A n \in 1..Len(events) : LongEnough(events[n])
        /\ \A n \in 1..Len(events) : events[n].type = "button" => events[n].emulated
    BY <2>2, <2>5 DEF LongEnough
  <2> QED BY <1>1, <2>1, <2>3, <2>4, <2>6, <2>7, SendStep
<1>4. ASSUME NEW b \in Emulated, buttons_emulate_press(b, 1) PROVE QueueInv'
  <2> DEFINE press == ButtonEvent(b, "press", 0, TRUE)
             release == ButtonEvent(b, "release", 1, TRUE)
             events == <<press, release>>
  <2>1. Send(events) /\ UNCHANGED <<state, pin, irq>> BY <1>4 DEF buttons_emulate_press
  <2>2. \A e \in {press, release} :
          /\ e \in Event /\ e.type = "button" /\ e.emulated /\ e.action # "hold"
    <3>1. b \in Buttons BY ButtonsAssumption
    <3>2. press \in Event /\ press.type = "button" /\ press.emulated /\ press.action # "hold"
      BY <3>1 DEF ButtonEvent, Event
    <3>3. release \in Event /\ release.type = "button" /\ release.emulated /\ release.action # "hold"
      BY <3>1 DEF ButtonEvent, Event
    <3> QED BY <3>2, <3>3
  <2> HIDE DEF press, release
  <2>3. events \in Seq(Event) /\ \A n \in 1..Len(events) : events[n] \in {press, release}
    BY <2>2
  <2> HIDE DEF events
  <2>4. /\ \A n \in 1..Len(events) : LongEnough(events[n])
        /\ \A n \in 1..Len(events) : events[n].type = "button" /\ events[n].emulated
    BY <2>2, <2>3 DEF LongEnough
  <2> QED BY <1>1, <2>1, <2>3, <2>4, SendStep
<1>5. CASE button_event_loop BY <1>1, <1>5, TakeStep
<1>6. CASE TimerExpires BY <1>6, QuietStep DEF TimerExpires
<1>7. CASE debounce_timer_elapsed_cb BY <1>1, <1>7, LookStep
<1>8. CASE Tick BY <1>8, QuietStep DEF Tick
<1>9. CASE UNCHANGED vars BY <1>9, QuietStep DEF vars
<1> QED BY <1>2, <1>3, <1>4, <1>5, <1>6, <1>7, <1>8, <1>9 DEF Next, EspTimerTask

LEMMA QueueInvariant == SafetySpec => [](ButtonsInv /\ QueueInv)
<1>1. Init => ButtonsInv /\ QueueInv BY InitInv, InitQueue
<1>2. ButtonsInv /\ QueueInv /\ [Next]_vars => (ButtonsInv /\ QueueInv)' BY StepInv, StepQueue
<1> QED BY <1>1, <1>2, PTL DEF SafetySpec

\* However many edges there were, the newest level the program knows of a pin
\* whose interrupt was served is the level of that pin, unless the queue was
\* full.
THEOREM LevelsAreTracked == SafetySpec => []LevelTracked
<1>1. QueueInv => LevelTracked BY DEF QueueInv
<1> QED BY <1>1, QueueInvariant, PTL

\* For any number of buttons, handlers and queued events: press, holds,
\* release, no more holds than handlers were sent theirs, and the last event
\* in the queue tells the debounced level, unless the queue was full.
THEOREM EventsKeepOrder == SafetySpec => []EventOrder
<1>1. QueueInv => EventOrder BY DEF QueueInv
<1> QED BY <1>1, QueueInvariant, PTL

\* Rounding to milliseconds takes no hold below what a handler waits for.
THEOREM HoldsAreLongEnough == SafetySpec => []HoldEventsMatch
<1>1. QueueInv => HoldEventsMatch BY DEF QueueInv
<1> QED BY <1>1, QueueInvariant, PTL

================================================================================
