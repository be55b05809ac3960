----------------------------- MODULE SensorsProofs -----------------------------
(***************************************************************************)
(* The sensors, the battery and the brightness, for any mapping of light   *)
(* to brightness, any number of low readings and any number of inputs: the *)
(* brightness is the chosen one, no polling task is lost, and the device   *)
(* switches itself off only when the last readings were all low.           *)
(*                                                                         *)
(* Two threads interleave step by step.  The invariant therefore says what *)
(* each has still to do, and what is true of the shared variables at each  *)
(* of these places.                                                        *)
(***************************************************************************)
EXTENDS Sensors, SequenceTheorems, TLAPS

(* What the threads have still to do.                                       *)

ofButtons == todo["buttons"]
ofScheduler == todo["scheduler"]

\* A brightness that is set, and stored as well if a button has chosen it.
ToSet2(b) == <<Step("command", b), Step("remember", b)>>
ToSet1(b) == <<Step("remember", b)>>
ToChoose3(b) == <<Step("command", b), Step("remember", b), Step("store", b)>>
ToChoose2(b) == <<Step("remember", b), Step("store", b)>>
ToChoose1(b) == <<Step("store", b)>>

ToToggle3 == <<Step("toggle", 0), Step("storeToggle", 0), Step("apply", 0)>>
ToToggle2 == <<Step("storeToggle", 0), Step("apply", 0)>>
ToToggle1 == <<Step("apply", 0)>>

\* The screen of the bus stops the tasks, and starts them.
ToStop3 == <<StepOf("stop", "light"), StepOf("stop", "gauge"), Step("delete", 0)>>
ToStop2 == <<StepOf("stop", "gauge"), Step("delete", 0)>>
ToStop1 == <<Step("delete", 0)>>
ToStart3 == <<Step("configure", 0), StepOf("start", "light"), StepOf("start", "gauge")>>
ToStart2 == <<StepOf("start", "light"), StepOf("start", "gauge")>>
ToStart1 == <<StepOf("start", "gauge")>>

ButtonsTodo ==
  \/ ofButtons \in {<<>>, ToToggle3, ToToggle2, ToToggle1}
  \/ \E b \in Levels : ofButtons \in {ToChoose3(b), ToChoose2(b), ToChoose1(b)}
  \/ ~adaptive /\ ofButtons \in {ToSet2(stored.brightness), ToSet1(stored.brightness)}
  \/ ofButtons \in {ToStop3, ToStop2, ToStop1, ToStart3, ToStart2, ToStart1}

\* A callback has read nothing yet, or will schedule its task again.
ToRead(s) == <<StepOf("read", s)>>
ToAdapt(l, s) == <<Step("adapt", l), StepOf("again", s)>>
ToAdjust(l, s) == <<Step("adjust", l), StepOf("again", s)>>
ToSet3(b, s) == <<Step("command", b), Step("remember", b), StepOf("again", s)>>
ToRemember(b, s) == <<Step("remember", b), StepOf("again", s)>>

Called(s) ==
  \/ ofScheduler \in {ToRead(s), Again(s)}
  \/ \E l \in Lights : ofScheduler \in {ToAdapt(l, s), ToAdjust(l, s)}
  \/ \E b \in Levels : ofScheduler \in {ToSet3(b, s), ToRemember(b, s)}
SchedulerTodo == ofScheduler = <<>> \/ \E s \in Tasks : Called(s)

-------------------------------------------------------------------------------
(* The invariant.                                                           *)

Types ==
  /\ light \in Lights /\ controller \in Levels /\ oled_brightness \in Levels
  /\ stored \in [brightness : Levels, adaptive : BOOLEAN]
  /\ adaptive \in BOOLEAN /\ overlap \in BOOLEAN /\ late \in BOOLEAN
  /\ released \in BOOLEAN /\ latch \in BOOLEAN
  /\ task = [s \in Tasks |-> task[s]]
  /\ todo = [t \in Threads |-> todo[t]]

\* What is to do next is to remember the brightness that was sent to the display.
Remembers(steps, b) == steps # <<>> /\ Head(steps) = Step("remember", b)
Idles(steps) == \A b \in Levels : ~Remembers(steps, b)

Agree ==
  ~overlap =>
    /\ \A t \in Threads, b \in Levels : Remembers(todo[t], b) => controller = b
    /\ \E t \in Threads : Idles(todo[t])
    /\ (\A t \in Threads : Idles(todo[t])) => controller = oled_brightness

\* What oled_brightness is, unless it is about to be set to what is stored.
Chosen ==
  ~adaptive /\ ~late =>
    \/ ofButtons \in {ToToggle2, ToToggle1, ToSet2(stored.brightness), ToSet1(stored.brightness)}
    \/ \E b \in Levels : ofButtons = ToChoose1(b) /\ oled_brightness = b
    \/ oled_brightness = stored.brightness /\ \A b \in Levels : ofButtons # ToChoose1(b)

\* The screen of the bus has stopped the task, or will start it.
Stopped(s) ==
  \/ released
  \/ ofButtons \in {ToStop1, ToStart2}
  \/ s = "light" /\ ofButtons = ToStop2
  \/ s = "gauge" /\ ofButtons = ToStart1
Polling ==
  latch => \A s \in Tasks : Polled(s) => task[s] = "scheduled" \/ Called(s) \/ Stopped(s)

Counted ==
  /\ gauge = [initialized |-> gauge.initialized, healthy |-> gauge.healthy,
              exponent |-> gauge.exponent, low |-> gauge.low]
  /\ gauge.low \in 0..PoweroffSamples
  /\ latch => gauge.low < PoweroffSamples
  /\ voltages \in Seq({"none", "low", "good"}) /\ Len(voltages) = PoweroffSamples
  /\ \A k \in 1..gauge.low : voltages[k] = "low"
  /\ OffWhenEmpty

SensorsInv == Types /\ ButtonsTodo /\ SchedulerTodo /\ Agree /\ Chosen /\ Polling /\ Counted

-------------------------------------------------------------------------------
(* Sequences of up to three steps.                                          *)

LEMMA Pair == ASSUME NEW a, NEW b PROVE <<a>> \o <<b>> = <<a, b>>
<1> DEFINE S == {a, b}
<1>1. <<a>> \in Seq(S) /\ <<b>> \in Seq(S) /\ <<a, b>> \in Seq(S) OBVIOUS
<1>2. Len(<<a>>) = 1 /\ Len(<<b>>) = 1 /\ Len(<<a, b>>) = 2 OBVIOUS
<1> HIDE DEF S
<1>3. /\ <<a>> \o <<b>> \in Seq(S) /\ Len(<<a>> \o <<b>>) = 2
      /\ \A i \in 1..2 : (<<a>> \o <<b>>)[i] = IF i <= 1 THEN <<a>>[i] ELSE <<b>>[i - 1]
  BY <1>1, <1>2, ConcatProperties
<1>4. \A i \in 1..2 : (<<a>> \o <<b>>)[i] = <<a, b>>[i] BY <1>3
<1> QED BY <1>1, <1>2, <1>3, <1>4, SeqEqual

LEMMA Triple == ASSUME NEW a, NEW b, NEW c PROVE <<a, b>> \o <<c>> = <<a, b, c>>
<1> DEFINE S == {a, b, c}
<1>1. <<a, b>> \in Seq(S) /\ <<c>> \in Seq(S) /\ <<a, b, c>> \in Seq(S) OBVIOUS
<1>2. Len(<<a, b>>) = 2 /\ Len(<<c>>) = 1 /\ Len(<<a, b, c>>) = 3 OBVIOUS
<1> HIDE DEF S
<1>3. /\ <<a, b>> \o <<c>> \in Seq(S) /\ Len(<<a, b>> \o <<c>>) = 3
      /\ \A i \in 1..3 : (<<a, b>> \o <<c>>)[i] = IF i <= 2 THEN <<a, b>>[i] ELSE <<c>>[i - 2]
  BY <1>1, <1>2, ConcatProperties
<1>4. \A i \in 1..3 : (<<a, b>> \o <<c>>)[i] = <<a, b, c>>[i] BY <1>3
<1> QED BY <1>1, <1>2, <1>3, <1>4, SeqEqual

LEMMA WithEmpty ==
  /\ <<>> \o <<>> = <<>>
  /\ \A a : <<>> \o <<a>> = <<a>> /\ <<a>> \o <<>> = <<a>>
  /\ \A a, b : <<>> \o <<a, b>> = <<a, b>> /\ <<a, b>> \o <<>> = <<a, b>>
  /\ \A a, b, c : <<a, b, c>> \o <<>> = <<a, b, c>>
OBVIOUS

\* The step of each, and what follows it.
Splits(s, step, rest) == s # <<>> /\ Head(s) = step /\ Tail(s) = rest
LEMMA TupleSplits ==
  /\ \A a : Splits(<<a>>, a, <<>>)
  /\ \A a, b : Splits(<<a, b>>, a, <<b>>)
  /\ \A a, b, c : Splits(<<a, b, c>>, a, <<b, c>>)
<1>1. \A a : Splits(<<a>>, a, <<>>) BY DEF Splits
<1>2. \A a, b : Splits(<<a, b>>, a, <<b>>) BY DEF Splits
<1>3. \A a, b, c : Splits(<<a, b, c>>, a, <<b, c>>) BY DEF Splits
<1> QED BY <1>1, <1>2, <1>3

LEMMA StepFields ==
  \A op, x : /\ Step(op, x).op = op /\ Step(op, x).arg = x
             /\ StepOf(op, x).op = op /\ StepOf(op, x).task = x
BY DEF Step, StepOf

LEMMA ButtonsSplits ==
  /\ \A b : /\ Splits(ToChoose3(b), Step("command", b), ToChoose2(b))
            /\ Splits(ToChoose2(b), Step("remember", b), ToChoose1(b))
            /\ Splits(ToChoose1(b), Step("store", b), <<>>)
            /\ Splits(ToSet2(b), Step("command", b), ToSet1(b))
            /\ Splits(ToSet1(b), Step("remember", b), <<>>)
  /\ Splits(ToToggle3, Step("toggle", 0), ToToggle2)
  /\ Splits(ToToggle2, Step("storeToggle", 0), ToToggle1)
  /\ Splits(ToToggle1, Step("apply", 0), <<>>)
  /\ Splits(ToStop3, StepOf("stop", "light"), ToStop2)
  /\ Splits(ToStop2, StepOf("stop", "gauge"), ToStop1)
  /\ Splits(ToStop1, Step("delete", 0), <<>>)
  /\ Splits(ToStart3, Step("configure", 0), ToStart2)
  /\ Splits(ToStart2, StepOf("start", "light"), ToStart1)
  /\ Splits(ToStart1, StepOf("start", "gauge"), <<>>)
BY TupleSplits DEF ToChoose3, ToChoose2, ToChoose1, ToSet2, ToSet1, ToToggle3, ToToggle2, ToToggle1,
                   ToStop3, ToStop2, ToStop1, ToStart3, ToStart2, ToStart1

LEMMA SchedulerSplits ==
  \A s : /\ Splits(ToRead(s), StepOf("read", s), <<>>)
         /\ Splits(Again(s), StepOf("again", s), <<>>)
         /\ \A l : /\ Splits(ToAdapt(l, s), Step("adapt", l), Again(s))
                   /\ Splits(ToAdjust(l, s), Step("adjust", l), Again(s))
                   /\ Splits(ToSet3(l, s), Step("command", l), ToRemember(l, s))
                   /\ Splits(ToRemember(l, s), Step("remember", l), Again(s))
BY TupleSplits DEF ToRead, Again, ToAdapt, ToAdjust, ToSet3, ToRemember

\* What is done first.
Starts(steps, op) == steps # <<>> /\ Head(steps).op = op
LEMMA FirstSteps ==
  /\ \A b : /\ Starts(ToChoose3(b), "command") /\ Starts(ToChoose2(b), "remember")
            /\ Starts(ToChoose1(b), "store")
            /\ Starts(ToSet2(b), "command") /\ Starts(ToSet1(b), "remember")
  /\ Starts(ToToggle3, "toggle") /\ Starts(ToToggle2, "storeToggle") /\ Starts(ToToggle1, "apply")
  /\ Starts(ToStop3, "stop") /\ Starts(ToStop2, "stop") /\ Starts(ToStop1, "delete")
  /\ Starts(ToStart3, "configure") /\ Starts(ToStart2, "start") /\ Starts(ToStart1, "start")
<1>1. ASSUME NEW x, NEW op, NEW a, NEW rest,
             Splits(x, Step(op, a), rest) \/ Splits(x, StepOf(op, a), rest)
      PROVE  Starts(x, op)
  BY <1>1, StepFields DEF Splits, Starts
<1>2. \A b : /\ Starts(ToChoose3(b), "command") /\ Starts(ToChoose2(b), "remember")
             /\ Starts(ToChoose1(b), "store")
             /\ Starts(ToSet2(b), "command") /\ Starts(ToSet1(b), "remember")
  BY <1>1, ButtonsSplits
<1>3. Starts(ToToggle3, "toggle") /\ Starts(ToToggle2, "storeToggle") /\ Starts(ToToggle1, "apply")
  BY <1>1, ButtonsSplits
<1>4. Starts(ToStop3, "stop") /\ Starts(ToStop2, "stop") /\ Starts(ToStop1, "delete")
  BY <1>1, ButtonsSplits
<1>5. Starts(ToStart3, "configure") /\ Starts(ToStart2, "start") /\ Starts(ToStart1, "start")
  BY <1>1, ButtonsSplits
<1> QED BY <1>2, <1>3, <1>4, <1>5

\* A thread takes the first of its steps.
LEMMA TakesStep ==
  ASSUME NEW t, NEW op, Now(t, op), NEW o, NEW a, NEW rest, Splits(todo[t], Step(o, a), rest)
  PROVE  op = o /\ Arg(t) = a /\ Tail(todo[t]) = rest
BY StepFields DEF Now, Arg, Splits

LEMMA TakesStepOf ==
  ASSUME NEW t, NEW op, Now(t, op), NEW o, NEW s, NEW rest, Splits(todo[t], StepOf(o, s), rest)
  PROVE  op = o /\ TaskOf(t) = s /\ Tail(todo[t]) = rest
BY StepFields DEF Now, TaskOf, Splits

NoSteps == <<>>

\* Where the buttons' thread is when it takes a step, and what is left to do.
Chooses(op, arg, rest, b) ==
  \/ op = "command" /\ arg = b /\ ofButtons = ToChoose3(b) /\ rest = ToChoose2(b)
  \/ op = "remember" /\ arg = b /\ ofButtons = ToChoose2(b) /\ rest = ToChoose1(b)
  \/ op = "store" /\ arg = b /\ ofButtons = ToChoose1(b) /\ rest = NoSteps
Sets(op, arg, rest, b) ==
  \/ op = "command" /\ arg = b /\ ofButtons = ToSet2(b) /\ rest = ToSet1(b)
  \/ op = "remember" /\ arg = b /\ ofButtons = ToSet1(b) /\ rest = NoSteps
Toggles(op, rest) ==
  \/ op = "toggle" /\ ofButtons = ToToggle3 /\ rest = ToToggle2
  \/ op = "storeToggle" /\ ofButtons = ToToggle2 /\ rest = ToToggle1
  \/ op = "apply" /\ ofButtons = ToToggle1 /\ rest = NoSteps
Switches(op, s, rest) ==
  \/ op = "stop" /\ s = "light" /\ ofButtons = ToStop3 /\ rest = ToStop2
  \/ op = "stop" /\ s = "gauge" /\ ofButtons = ToStop2 /\ rest = ToStop1
  \/ op = "delete" /\ ofButtons = ToStop1 /\ rest = NoSteps
  \/ op = "configure" /\ ofButtons = ToStart3 /\ rest = ToStart2
  \/ op = "start" /\ s = "light" /\ ofButtons = ToStart2 /\ rest = ToStart1
  \/ op = "start" /\ s = "gauge" /\ ofButtons = ToStart1 /\ rest = NoSteps
ButtonsAt(op, arg, s, rest) ==
  \/ \E b \in Levels : Chooses(op, arg, rest, b)
  \/ ~adaptive /\ Sets(op, arg, rest, stored.brightness)
  \/ Toggles(op, rest)
  \/ Switches(op, s, rest)

LEMMA StorePlace ==
  ASSUME NEW arg, NEW s, NEW rest, ButtonsAt("store", arg, s, rest)
  PROVE  arg \in Levels /\ ofButtons = ToChoose1(arg) /\ rest = NoSteps
BY DEF ButtonsAt, Chooses, Sets, Toggles, Switches

LEMMA TogglePlace ==
  ASSUME NEW arg, NEW s, NEW rest, ButtonsAt("toggle", arg, s, rest)
  PROVE  ofButtons = ToToggle3 /\ rest = ToToggle2
BY DEF ButtonsAt, Chooses, Sets, Toggles, Switches

LEMMA StoreTogglePlace ==
  ASSUME NEW arg, NEW s, NEW rest, ButtonsAt("storeToggle", arg, s, rest)
  PROVE  ofButtons = ToToggle2 /\ rest = ToToggle1
BY DEF ButtonsAt, Chooses, Sets, Toggles, Switches

LEMMA ApplyPlace ==
  ASSUME NEW arg, NEW s, NEW rest, ButtonsAt("apply", arg, s, rest)
  PROVE  ofButtons = ToToggle1 /\ rest = NoSteps
BY DEF ButtonsAt, Chooses, Sets, Toggles, Switches

LEMMA CommandPlace ==
  ASSUME NEW arg, NEW s, NEW rest, ButtonsAt("command", arg, s, rest)
  PROVE  \/ arg \in Levels /\ ofButtons = ToChoose3(arg) /\ rest = ToChoose2(arg)
         \/ /\ ~adaptive /\ arg = stored.brightness
            /\ ofButtons = ToSet2(arg) /\ rest = ToSet1(arg)
BY DEF ButtonsAt, Chooses, Sets, Toggles, Switches

LEMMA RememberPlace ==
  ASSUME NEW arg, NEW s, NEW rest, ButtonsAt("remember", arg, s, rest)
  PROVE  \/ arg \in Levels /\ ofButtons = ToChoose2(arg) /\ rest = ToChoose1(arg)
         \/ /\ ~adaptive /\ arg = stored.brightness
            /\ ofButtons = ToSet1(arg) /\ rest = <<>>
BY DEF ButtonsAt, Chooses, Sets, Toggles, Switches, NoSteps

LEMMA SwitchPlace ==
  ASSUME NEW op \in {"stop", "delete", "configure", "start"}, NEW arg, NEW s, NEW rest,
         ButtonsAt(op, arg, s, rest)
  PROVE  Switches(op, s, rest)
BY DEF ButtonsAt, Chooses, Sets, Toggles, Switches

LEMMA ButtonsTake ==
  ASSUME ButtonsTodo, NEW op, Now("buttons", op)
  PROVE  ButtonsAt(op, Arg("buttons"), TaskOf("buttons"), Tail(ofButtons))
<1> USE DEF ofButtons
<1> DEFINE a == Arg("buttons")
           s == TaskOf("buttons")
           r == Tail(ofButtons)
<1>1. ofButtons # <<>> BY DEF Now, Busy
<1>2. ASSUME NEW b \in Levels, ofButtons \in {ToChoose3(b), ToChoose2(b), ToChoose1(b)}
      PROVE  Chooses(op, a, r, b)
  <2>1. CASE ofButtons = ToChoose3(b)
    <3>1. Splits(todo["buttons"], Step("command", b), ToChoose2(b)) BY <2>1, ButtonsSplits
    <3> QED BY <2>1, <3>1, TakesStep DEF Chooses, NoSteps
  <2>2. CASE ofButtons = ToChoose2(b)
    <3>1. Splits(todo["buttons"], Step("remember", b), ToChoose1(b)) BY <2>2, ButtonsSplits
    <3> QED BY <2>2, <3>1, TakesStep DEF Chooses, NoSteps
  <2>3. CASE ofButtons = ToChoose1(b)
    <3>1. Splits(todo["buttons"], Step("store", b), <<>>) BY <2>3, ButtonsSplits
    <3> QED BY <2>3, <3>1, TakesStep DEF Chooses, NoSteps
  <2> QED BY <1>2, <2>1, <2>2, <2>3
<1>3. ASSUME NEW b, ofButtons \in {ToSet2(b), ToSet1(b)} PROVE Sets(op, a, r, b)
  <2>1. CASE ofButtons = ToSet2(b)
    <3>1. Splits(todo["buttons"], Step("command", b), ToSet1(b)) BY <2>1, ButtonsSplits
    <3> QED BY <2>1, <3>1, TakesStep DEF Sets, NoSteps
  <2>2. CASE ofButtons = ToSet1(b)
    <3>1. Splits(todo["buttons"], Step("remember", b), <<>>) BY <2>2, ButtonsSplits
    <3> QED BY <2>2, <3>1, TakesStep DEF Sets, NoSteps
  <2> QED BY <1>3, <2>1, <2>2
<1>4. ASSUME ofButtons \in {ToToggle3, ToToggle2, ToToggle1} PROVE Toggles(op, r)
  <2>1. CASE ofButtons = ToToggle3
    <3>1. Splits(todo["buttons"], Step("toggle", 0), ToToggle2) BY <2>1, ButtonsSplits
    <3> QED BY <2>1, <3>1, TakesStep DEF Toggles, NoSteps
  <2>2. CASE ofButtons = ToToggle2
    <3>1. Splits(todo["buttons"], Step("storeToggle", 0), ToToggle1) BY <2>2, ButtonsSplits
    <3> QED BY <2>2, <3>1, TakesStep DEF Toggles, NoSteps
  <2>3. CASE ofButtons = ToToggle1
    <3>1. Splits(todo["buttons"], Step("apply", 0), <<>>) BY <2>3, ButtonsSplits
    <3> QED BY <2>3, <3>1, TakesStep DEF Toggles, NoSteps
  <2> QED BY <1>4, <2>1, <2>2, <2>3
<1>5. ASSUME ofButtons \in {ToStop3, ToStop2, ToStop1, ToStart3, ToStart2, ToStart1}
      PROVE  Switches(op, s, r)
  <2>1. CASE ofButtons = ToStop3
    <3>1. Splits(todo["buttons"], StepOf("stop", "light"), ToStop2) BY <2>1, ButtonsSplits
    <3> QED BY <2>1, <3>1, TakesStepOf DEF Switches, NoSteps
  <2>2. CASE ofButtons = ToStop2
    <3>1. Splits(todo["buttons"], StepOf("stop", "gauge"), ToStop1) BY <2>2, ButtonsSplits
    <3> QED BY <2>2, <3>1, TakesStepOf DEF Switches, NoSteps
  <2>3. CASE ofButtons = ToStop1
    <3>1. Splits(todo["buttons"], Step("delete", 0), <<>>) BY <2>3, ButtonsSplits
    <3> QED BY <2>3, <3>1, TakesStep DEF Switches, NoSteps
  <2>4. CASE ofButtons = ToStart3
    <3>1. Splits(todo["buttons"], Step("configure", 0), ToStart2) BY <2>4, ButtonsSplits
    <3> QED BY <2>4, <3>1, TakesStep DEF Switches, NoSteps
  <2>5. CASE ofButtons = ToStart2
    <3>1. Splits(todo["buttons"], StepOf("start", "light"), ToStart1) BY <2>5, ButtonsSplits
    <3> QED BY <2>5, <3>1, TakesStepOf DEF Switches, NoSteps
  <2>6. CASE ofButtons = ToStart1
    <3>1. Splits(todo["buttons"], StepOf("start", "gauge"), <<>>) BY <2>6, ButtonsSplits
    <3> QED BY <2>6, <3>1, TakesStepOf DEF Switches, NoSteps
  <2> QED BY <1>5, <2>1, <2>2, <2>3, <2>4, <2>5, <2>6
<1> QED BY <1>1, <1>2, <1>3, <1>4, <1>5 DEF ButtonsTodo, ButtonsAt

\* Where the scheduler's thread is when it takes a step.
SchedulerAt(op, arg, called, rest, s) ==
  \/ op = "read" /\ called = s /\ ofScheduler = ToRead(s) /\ rest = NoSteps
  \/ op = "again" /\ called = s /\ ofScheduler = Again(s) /\ rest = NoSteps
  \/ op \in {"adapt", "adjust"} /\ arg \in Lights /\ rest = Again(s)
  \/ op = "command" /\ arg \in Levels /\ ofScheduler = ToSet3(arg, s) /\ rest = ToRemember(arg, s)
  \/ op = "remember" /\ arg \in Levels /\ ofScheduler = ToRemember(arg, s) /\ rest = Again(s)

LEMMA SchedulerTakes ==
  ASSUME NEW op, Now("scheduler", op), NEW s, Called(s)
  PROVE  SchedulerAt(op, Arg("scheduler"), TaskOf("scheduler"), Tail(ofScheduler), s)
<1> USE DEF ofScheduler
<1> DEFINE At(x) == SchedulerAt(op, Arg("scheduler"), TaskOf("scheduler"), Tail(ofScheduler), x)
<1>3. ASSUME ofScheduler = ToRead(s) PROVE At(s)
  <2>1. Splits(todo["scheduler"], StepOf("read", s), <<>>) BY <1>3, SchedulerSplits
  <2> QED BY <1>3, <2>1, TakesStepOf DEF SchedulerAt, NoSteps
<1>4. ASSUME ofScheduler = Again(s) PROVE At(s)
  <2>1. Splits(todo["scheduler"], StepOf("again", s), <<>>) BY <1>4, SchedulerSplits
  <2> QED BY <1>4, <2>1, TakesStepOf DEF SchedulerAt, NoSteps
<1>5. ASSUME NEW l \in Lights, ofScheduler = ToAdapt(l, s) PROVE At(s)
  <2>1. Splits(todo["scheduler"], Step("adapt", l), Again(s)) BY <1>5, SchedulerSplits
  <2> QED BY <1>5, <2>1, TakesStep DEF SchedulerAt, NoSteps
<1>6. ASSUME NEW l \in Lights, ofScheduler = ToAdjust(l, s) PROVE At(s)
  <2>1. Splits(todo["scheduler"], Step("adjust", l), Again(s)) BY <1>6, SchedulerSplits
  <2> QED BY <1>6, <2>1, TakesStep DEF SchedulerAt, NoSteps
<1>7. ASSUME NEW b \in Levels, ofScheduler = ToSet3(b, s) PROVE At(s)
  <2>1. Splits(todo["scheduler"], Step("command", b), ToRemember(b, s)) BY <1>7, SchedulerSplits
  <2> QED BY <1>7, <2>1, TakesStep DEF SchedulerAt, NoSteps
<1>8. ASSUME NEW b \in Levels, ofScheduler = ToRemember(b, s) PROVE At(s)
  <2>1. Splits(todo["scheduler"], Step("remember", b), Again(s)) BY <1>8, SchedulerSplits
  <2> QED BY <1>8, <2>1, TakesStep DEF SchedulerAt, NoSteps
<1> QED BY <1>3, <1>4, <1>5, <1>6, <1>7, <1>8 DEF Called

LEMMA NothingBefore ==
  /\ <<>> \o <<>> = <<>>
  /\ \A b : /\ <<>> \o ToChoose2(b) = ToChoose2(b) /\ <<>> \o ToChoose1(b) = ToChoose1(b)
            /\ <<>> \o ToSet1(b) = ToSet1(b)
  /\ <<>> \o ToToggle2 = ToToggle2 /\ <<>> \o ToToggle1 = ToToggle1
  /\ <<>> \o ToStop2 = ToStop2 /\ <<>> \o ToStop1 = ToStop1
  /\ <<>> \o ToStart2 = ToStart2 /\ <<>> \o ToStart1 = ToStart1
  /\ \A s : <<>> \o Again(s) = Again(s) /\ \A b : <<>> \o ToRemember(b, s) = ToRemember(b, s)
BY WithEmpty DEF ToChoose2, ToChoose1, ToSet1, ToToggle2, ToToggle1, ToStop2, ToStop1, ToStart2,
                 ToStart1, Again, ToRemember

\* A thread has taken a step, and has to do what this calls.
LEMMA CallsOf ==
  ASSUME Types, NEW t \in Threads, NEW steps, Calls(t, steps)
  PROVE  /\ todo' = [u \in Threads |-> todo'[u]]
         /\ todo'[t] = steps \o Tail(todo[t])
         /\ \A u \in Threads : u # t => todo'[u] = todo[u]
BY DEF Types, Calls

LEMMA ButtonsDone ==
  ASSUME Types, ButtonsTodo, NEW op, Now("buttons", op), Done("buttons")
  PROVE  /\ ButtonsAt(op, Arg("buttons"), TaskOf("buttons"), ofButtons')
         /\ ofScheduler' = ofScheduler
         /\ todo' = [u \in Threads |-> todo'[u]]
<1> DEFINE r == Tail(ofButtons)
<1>1. ButtonsAt(op, Arg("buttons"), TaskOf("buttons"), r) BY ButtonsTake
<1>2. /\ ofButtons' = <<>> \o r /\ ofScheduler' = ofScheduler
      /\ todo' = [u \in Threads |-> todo'[u]]
  BY CallsOf DEF Done, ofButtons, ofScheduler, Threads
<1> HIDE DEF r
<1>3. ASSUME NEW b, Chooses(op, Arg("buttons"), r, b) \/ Sets(op, Arg("buttons"), r, b)
      PROVE  <<>> \o r = r
  BY <1>3, NothingBefore DEF Chooses, Sets, NoSteps
<1>4. ASSUME Toggles(op, r) PROVE <<>> \o r = r BY <1>4, NothingBefore DEF Toggles, NoSteps
<1>5. ASSUME Switches(op, TaskOf("buttons"), r) PROVE <<>> \o r = r
  BY <1>5, NothingBefore DEF Switches, NoSteps
<1>6. <<>> \o r = r BY <1>1, <1>3, <1>4, <1>5 DEF ButtonsAt
<1> QED BY <1>1, <1>2, <1>6

LEMMA SchedulerDone ==
  ASSUME Types, SchedulerTodo, NEW op, Now("scheduler", op), Done("scheduler")
  PROVE  /\ \A s : Called(s) =>
              SchedulerAt(op, Arg("scheduler"), TaskOf("scheduler"), ofScheduler', s)
         /\ \E s \in Tasks : Called(s)
         /\ ofButtons' = ofButtons
         /\ todo' = [u \in Threads |-> todo'[u]]
<1> DEFINE r == Tail(ofScheduler)
<1>1. /\ ofScheduler' = <<>> \o r /\ ofButtons' = ofButtons
      /\ todo' = [u \in Threads |-> todo'[u]]
  BY CallsOf DEF Done, ofButtons, ofScheduler, Threads
<1>2. \E s \in Tasks : Called(s) BY DEF SchedulerTodo, Now, Busy, ofScheduler
<1>3. ASSUME NEW s, Called(s)
      PROVE  SchedulerAt(op, Arg("scheduler"), TaskOf("scheduler"), ofScheduler', s)
  <2>1. SchedulerAt(op, Arg("scheduler"), TaskOf("scheduler"), r, s) BY <1>3, SchedulerTakes
  <2> HIDE DEF r
  <2>2. <<>> \o r = r BY <2>1, NothingBefore DEF SchedulerAt, NoSteps
  <2> QED BY <1>1, <2>1, <2>2
<1> QED BY <1>1, <1>2, <1>3

-------------------------------------------------------------------------------
(* What the parts of the invariant depend on.                               *)

LEMMA IdleSteps ==
  /\ Idles(<<>>)
  /\ \A b : Idles(ToChoose3(b)) /\ Idles(ToChoose1(b)) /\ Idles(ToSet2(b))
  /\ Idles(ToToggle3) /\ Idles(ToToggle2) /\ Idles(ToToggle1)
  /\ Idles(ToStop3) /\ Idles(ToStop2) /\ Idles(ToStop1)
  /\ Idles(ToStart3) /\ Idles(ToStart2) /\ Idles(ToStart1)
  /\ \A s : Idles(ToRead(s)) /\ Idles(Again(s))
  /\ \A s, l : Idles(ToAdapt(l, s)) /\ Idles(ToAdjust(l, s)) /\ Idles(ToSet3(l, s))
<1>1. ASSUME NEW x, NEW op, NEW a, NEW rest, op # "remember",
             Splits(x, Step(op, a), rest) \/ Splits(x, StepOf(op, a), rest)
      PROVE  Idles(x)
  BY <1>1, StepFields DEF Splits, Idles, Remembers
<1>2. \A b : Idles(ToChoose3(b)) /\ Idles(ToChoose1(b)) /\ Idles(ToSet2(b))
  BY <1>1, ButtonsSplits
<1>3. Idles(ToToggle3) /\ Idles(ToToggle2) /\ Idles(ToToggle1) BY <1>1, ButtonsSplits
<1>4. Idles(ToStop3) /\ Idles(ToStop2) /\ Idles(ToStop1) BY <1>1, ButtonsSplits
<1>5. Idles(ToStart3) /\ Idles(ToStart2) /\ Idles(ToStart1) BY <1>1, ButtonsSplits
<1>6. \A s : Idles(ToRead(s)) /\ Idles(Again(s)) BY <1>1, SchedulerSplits
<1>7. \A s, l : Idles(ToAdapt(l, s)) /\ Idles(ToAdjust(l, s)) /\ Idles(ToSet3(l, s))
  BY <1>1, SchedulerSplits
<1>8. Idles(<<>>) BY DEF Idles, Remembers
<1> QED BY <1>2, <1>3, <1>4, <1>5, <1>6, <1>7, <1>8

\* A step that neither sends a brightness nor remembers one.
LEMMA AgreeKept ==
  ASSUME Agree, NEW t \in Threads, NEW u \in Threads, t # u, Threads = {t, u},
         UNCHANGED <<controller, oled_brightness, overlap, todo[u]>>,
         Idles(todo[t]), Idles(todo'[t])
  PROVE  Agree'
<1>1. Idles(todo[u]) <=> Idles(todo'[u]) OBVIOUS
<1>2. \A b : Remembers(todo[u], b) <=> Remembers(todo'[u], b) OBVIOUS
<1>3. \A b \in Levels : ~Remembers(todo'[t], b) BY DEF Idles
<1> QED BY <1>1, <1>2, <1>3 DEF Agree

LEMMA Frames ==
  /\ UNCHANGED <<ofButtons, stored, adaptive>> => (ButtonsTodo => ButtonsTodo')
  /\ UNCHANGED ofScheduler => (SchedulerTodo => SchedulerTodo')
  /\ UNCHANGED <<controller, oled_brightness, overlap, todo>> => (Agree => Agree')
  /\ UNCHANGED <<adaptive, late, ofButtons, oled_brightness, stored>> => (Chosen => Chosen')
  /\ UNCHANGED <<latch, task, gauge, released, ofButtons, ofScheduler>> => (Polling => Polling')
  /\ UNCHANGED <<battery>> => (Counted => Counted')
<1>1. UNCHANGED <<ofButtons, stored, adaptive>> => (ButtonsTodo => ButtonsTodo')
  BY DEF ButtonsTodo
<1>2. UNCHANGED ofScheduler => (SchedulerTodo => SchedulerTodo') BY DEF SchedulerTodo, Called
<1>3. UNCHANGED <<controller, oled_brightness, overlap, todo>> => (Agree => Agree') BY DEF Agree
<1>4. UNCHANGED <<adaptive, late, ofButtons, oled_brightness, stored>> => (Chosen => Chosen')
  BY DEF Chosen
<1>5. UNCHANGED <<latch, task, gauge, released, ofButtons, ofScheduler>> => (Polling => Polling')
  BY DEF Polling, Polled, Called, Stopped
<1>6. UNCHANGED <<battery>> => (Counted => Counted') BY DEF Counted, OffWhenEmpty, battery
<1> QED BY <1>1, <1>2, <1>3, <1>4, <1>5, <1>6

\* The thread of the buttons is at none of the steps op.
Elsewhere(ops) == ofButtons = <<>> \/ \E op : Now("buttons", op) /\ op \notin ops

LEMMA NotStoppedElsewhere ==
  ASSUME Elsewhere({"stop", "start", "delete"}), NEW s, Stopped(s)
  PROVE  released
<1>1. \A o \in {"stop", "start", "delete"} : ~Starts(ofButtons, o)
  BY DEF Elsewhere, Now, Starts, ofButtons
<1>2. ofButtons \notin {ToStop2, ToStop1, ToStart2, ToStart1} BY <1>1, FirstSteps
<1> QED BY <1>2 DEF Stopped

LEMMA PollingElsewhere ==
  ASSUME Polling, Elsewhere({"stop", "start", "delete"}),
         UNCHANGED <<latch, task, gauge, released, ofScheduler>>
  PROVE  Polling'
<1>1. \A s : Stopped(s) => Stopped(s)' BY NotStoppedElsewhere DEF Stopped
<1>2. \A s : Called(s)' <=> Called(s) BY DEF Called
<1>3. \A s : Polled(s)' <=> Polled(s) BY DEF Polled
<1> QED BY <1>1, <1>2, <1>3 DEF Polling

Setting == {"command", "remember", "store", "storeToggle", "apply"}
LEMMA ChosenElsewhere ==
  ASSUME Chosen, Elsewhere(Setting), UNCHANGED <<adaptive, late, oled_brightness, stored>>,
         \A b : ofButtons' # ToChoose1(b)
  PROVE  Chosen'
<1>1. \A o \in Setting : ~Starts(ofButtons, o) BY DEF Elsewhere, Now, Starts, ofButtons
<1>2. \A b : ofButtons \notin {ToToggle2, ToToggle1, ToSet2(b), ToSet1(b), ToChoose1(b)}
  BY <1>1, FirstSteps DEF Setting
<1> QED BY <1>2 DEF Chosen

LEMMA NotToStore ==
  \A b, c : /\ ToChoose1(b) # <<>>
            /\ ToChoose1(b) \notin {ToChoose3(c), ToChoose2(c), ToSet2(c), ToSet1(c)}
            /\ ToChoose1(b) \notin {ToToggle3, ToToggle2, ToToggle1}
            /\ ToChoose1(b) \notin {ToStop3, ToStop2, ToStop1, ToStart3, ToStart2, ToStart1}
            /\ ToChoose1(b) = ToChoose1(c) => b = c
<1>1. \A b, x, o : o # "store" /\ Starts(x, o) => ToChoose1(b) # x BY FirstSteps DEF Starts
<1>2. \A b : ToChoose1(b) # <<>> BY FirstSteps DEF Starts
<1>3. \A b, c : ToChoose1(b) \notin {ToChoose3(c), ToChoose2(c), ToSet2(c), ToSet1(c)}
  BY <1>1, FirstSteps
<1>4. \A b : ToChoose1(b) \notin {ToToggle3, ToToggle2, ToToggle1} BY <1>1, FirstSteps
<1>5. \A b : ToChoose1(b) \notin {ToStop3, ToStop2, ToStop1, ToStart3, ToStart2, ToStart1}
  BY <1>1, FirstSteps
<1>6. \A b, c : ToChoose1(b) = ToChoose1(c) => b = c BY DEF ToChoose1, Step
<1> QED BY <1>2, <1>3, <1>4, <1>5, <1>6

LEMMA ToStopDiffers ==
  /\ ToStop3 \notin {ToStop2, ToStop1, ToStart2, ToStart1}
  /\ ToStart1 \notin {ToStop2, ToStop1, ToStart2}
<1>1. ToStop3 # ToStop2 /\ ToStart1 # ToStart2 BY DEF ToStop3, ToStop2, ToStart1, ToStart2
<1>2. ToStop3 \notin {ToStop1, ToStart2, ToStart1} /\ ToStart1 \notin {ToStop2, ToStop1}
  BY FirstSteps DEF Starts
<1> QED BY <1>1, <1>2

-------------------------------------------------------------------------------
(* The buttons.                                                             *)

LEMMA LevelsAreNumbers == MaxBrightness \in Nat /\ Levels \subseteq Nat
BY SensorsAssumption, EmptySeq DEF MaxBrightness, Levels

LEMMA SettingOf ==
  ASSUME NEW b \in Nat
  PROVE  \E c \in Levels : oled_set_brightness(b) = ToSet2(c) /\ (b \in Levels => c = b)
<1>1. PICK c \in Levels : c = IF b > MaxBrightness THEN MaxBrightness ELSE b
  BY LevelsAreNumbers DEF Levels
<1>2. oled_set_brightness(b) = ToSet2(c) BY <1>1 DEF oled_set_brightness, ToSet2
<1>3. b \in Levels => c = b BY <1>1, LevelsAreNumbers DEF Levels
<1> QED BY <1>2, <1>3

\* What a button press makes the thread do.
LEMMA PressStep ==
  ASSUME SensorsInv, NEW steps, Press(steps),
         \/ steps \in {ToToggle3, ToStop3, ToStart3}
         \/ \E b \in Levels : steps = ToChoose3(b)
  PROVE  SensorsInv'
<1> USE DEF SensorsInv
<1>1. /\ ofButtons = <<>> /\ ofButtons' = steps /\ ofScheduler' = ofScheduler
      /\ todo["buttons"] = <<>> /\ todo'["buttons"] = steps
      /\ todo'["scheduler"] = todo["scheduler"]
      /\ todo' = [u \in Threads |-> todo'[u]]
  BY DEF Press, Busy, ofButtons, ofScheduler, Types, Threads
<1>2. UNCHANGED <<light, display, settings, samples, bus, task, battery>> BY DEF Press
<1> USE DEF display, settings, bus, battery
<1>3. Types' BY <1>1, <1>2 DEF Types
<1>4. ButtonsTodo' BY <1>1 DEF ButtonsTodo
<1>5. SchedulerTodo' BY <1>1, Frames
<1>6. Agree'
  <2>1. Idles(<<>>) /\ Idles(steps) BY IdleSteps
  <2> QED BY <1>1, <1>2, <2>1, AgreeKept DEF Threads
<1>7. Elsewhere({"stop", "start", "delete"}) /\ Elsewhere(Setting) BY <1>1 DEF Elsewhere
<1>8. Chosen'
  <2>1. \A b : ofButtons' # ToChoose1(b) BY <1>1, NotToStore
  <2> QED BY <1>2, <1>7, <2>1, ChosenElsewhere
<1>9. Polling' BY <1>1, <1>2, <1>7, PollingElsewhere
<1>10. Counted' BY <1>2, Frames
<1> QED BY <1>3, <1>4, <1>5, <1>6, <1>8, <1>9, <1>10

LEMMA SelectStep ==
  ASSUME SensorsInv, NEW b \in Levels, Select(b)
  PROVE  SensorsInv'
<1>1. oled_set_brightness(b) = ToSet2(b) BY SettingOf, LevelsAreNumbers
<1>2. ToSet2(b) \o <<Step("store", b)>> = ToChoose3(b) BY Triple DEF ToSet2, ToChoose3
<1>3. Press(ToChoose3(b)) BY <1>1, <1>2 DEF Select
<1> QED BY <1>3, PressStep

LEMMA PressesStep ==
  ASSUME SensorsInv,
         \/ BrighterPressed \/ DarkerPressed \/ display_settings_endisable_adaptive_brightness_run
         \/ i2c_bus_disable_run \/ ExitPressed
  PROVE  SensorsInv'
<1>1. CASE BrighterPressed
  <2>1. (IF oled_brightness < MaxBrightness THEN oled_brightness + 1 ELSE oled_brightness)
          \in Levels
    BY LevelsAreNumbers DEF SensorsInv, Types, Levels
  <2> QED BY <1>1, <2>1, SelectStep DEF BrighterPressed
<1>2. CASE DarkerPressed
  <2>1. (IF oled_brightness > 0 THEN oled_brightness - 1 ELSE oled_brightness) \in Levels
    BY LevelsAreNumbers DEF SensorsInv, Types, Levels
  <2> QED BY <1>2, <2>1, SelectStep DEF DarkerPressed
<1>3. CASE display_settings_endisable_adaptive_brightness_run
  BY <1>3, PressStep DEF display_settings_endisable_adaptive_brightness_run, ToToggle3
<1>4. CASE i2c_bus_disable_run BY <1>4, PressStep DEF i2c_bus_disable_run, ToStop3
<1>5. CASE ExitPressed BY <1>5, PressStep DEF ExitPressed, ToStart3
<1> QED BY <1>1, <1>2, <1>3, <1>4, <1>5

\* The steps of the thread, each at its place.
LEMMA ToggleSteps ==
  ASSUME SensorsInv, Toggle \/ StoreToggle
  PROVE  SensorsInv'
<1> USE DEF SensorsInv
<1>1. /\ ofScheduler' = ofScheduler /\ todo' = [u \in Threads |-> todo'[u]]
      /\ \/ ofButtons = ToToggle3 /\ ofButtons' = ToToggle2 /\ stored' = stored
         \/ ofButtons = ToToggle2 /\ ofButtons' = ToToggle1 /\ adaptive' = adaptive
            /\ stored' = [stored EXCEPT !.adaptive = adaptive]
      /\ Elsewhere({"stop", "start", "delete"})
  <2>1. CASE Toggle
    <3>1. Now("buttons", "toggle") /\ Done("buttons") /\ stored' = stored BY <2>1 DEF Toggle
    <3>2. /\ ButtonsAt("toggle", Arg("buttons"), TaskOf("buttons"), ofButtons')
          /\ ofScheduler' = ofScheduler /\ todo' = [u \in Threads |-> todo'[u]]
      BY <3>1, ButtonsDone
    <3> QED BY <3>1, <3>2, TogglePlace DEF Elsewhere
  <2>2. CASE StoreToggle
    <3>1. /\ Now("buttons", "storeToggle") /\ Done("buttons") /\ adaptive' = adaptive
          /\ stored' = [stored EXCEPT !.adaptive = adaptive]
      BY <2>2 DEF StoreToggle
    <3>2. /\ ButtonsAt("storeToggle", Arg("buttons"), TaskOf("buttons"), ofButtons')
          /\ ofScheduler' = ofScheduler /\ todo' = [u \in Threads |-> todo'[u]]
      BY <3>1, ButtonsDone
    <3> QED BY <3>1, <3>2, StoreTogglePlace DEF Elsewhere
  <2> QED BY <2>1, <2>2
<1>2. UNCHANGED <<light, display, samples, bus, task, battery>> BY DEF Toggle, StoreToggle
<1> USE DEF display, bus, battery
<1>3. Types'
  <2>1. adaptive' \in BOOLEAN BY DEF Toggle, StoreToggle, Types
  <2>2. stored' \in [brightness : Levels, adaptive : BOOLEAN] BY <1>1 DEF Types
  <2> QED BY <1>1, <1>2, <2>1, <2>2 DEF Types
<1>4. ButtonsTodo' BY <1>1 DEF ButtonsTodo
<1>5. SchedulerTodo' BY <1>1, Frames
<1>6. Agree'
  <2>1. Idles(ofButtons) /\ Idles(ofButtons') BY <1>1, IdleSteps
  <2>2. todo'["scheduler"] = todo["scheduler"] BY <1>1 DEF ofScheduler
  <2> QED BY <1>2, <2>1, <2>2, AgreeKept DEF Threads, ofButtons
<1>7. Chosen' BY <1>1 DEF Chosen
<1>8. Polling' BY <1>1, <1>2, PollingElsewhere
<1>9. Counted' BY <1>2, Frames
<1> QED BY <1>3, <1>4, <1>5, <1>6, <1>7, <1>8, <1>9

\* The brightness that is stored is the one that was set.
LEMMA StoreStep ==
  ASSUME SensorsInv, Store
  PROVE  SensorsInv'
<1> USE DEF SensorsInv
<1>1. /\ Now("buttons", "store") /\ Done("buttons")
      /\ stored' = [stored EXCEPT !.brightness = Arg("buttons")]
      /\ UNCHANGED <<light, display, adaptive, samples, bus, task, battery>>
  BY DEF Store
<1>2. /\ ofScheduler' = ofScheduler /\ todo' = [u \in Threads |-> todo'[u]]
      /\ ButtonsAt("store", Arg("buttons"), TaskOf("buttons"), ofButtons')
  BY <1>1, ButtonsDone
<1>3. PICK b \in Levels : ofButtons = ToChoose1(b) /\ ofButtons' = <<>> /\ Arg("buttons") = b
  BY <1>2, StorePlace DEF NoSteps
<1>4. stored' = [stored EXCEPT !.brightness = b] BY <1>1, <1>3
<1> USE DEF display, bus, battery
<1>5. Types' BY <1>1, <1>2, <1>4 DEF Types
<1>6. ButtonsTodo' BY <1>3 DEF ButtonsTodo
<1>7. SchedulerTodo' BY <1>2, Frames
<1>8. Agree'
  <2>1. Idles(ofButtons) /\ Idles(ofButtons') BY <1>3, IdleSteps
  <2>2. todo'["scheduler"] = todo["scheduler"] BY <1>2 DEF ofScheduler
  <2> QED BY <1>1, <2>1, <2>2, AgreeKept DEF Threads, ofButtons
<1>9. Chosen'
  <2>1. stored'.brightness = b BY <1>4 DEF Types
  <2>2. \A c : ofButtons \notin {ToToggle2, ToToggle1, ToSet2(c), ToSet1(c)}
    BY <1>3, NotToStore
  <2>3. \A c : ofButtons = ToChoose1(c) => c = b BY <1>3, NotToStore
  <2>4. ~adaptive /\ ~late => oled_brightness = b BY <1>3, <2>2, <2>3 DEF Chosen
  <2>5. \A c : ofButtons' # ToChoose1(c) BY <1>3, NotToStore
  <2> QED BY <1>1, <2>1, <2>4, <2>5 DEF Chosen
<1>10. Polling'
  <2>1. Elsewhere({"stop", "start", "delete"}) BY <1>1 DEF Elsewhere
  <2> QED BY <1>1, <1>2, <2>1, PollingElsewhere
<1>11. Counted' BY <1>1, Frames
<1> QED BY <1>5, <1>6, <1>7, <1>8, <1>9, <1>10, <1>11

LEMMA ApplyStep ==
  ASSUME SensorsInv, apply_adaptive_brightness_control
  PROVE  SensorsInv'
<1> USE DEF SensorsInv
<1>1. /\ Now("buttons", "apply")
      /\ Calls("buttons", IF adaptive THEN <<>> ELSE oled_set_brightness(stored.brightness))
      /\ UNCHANGED <<light, display, settings, samples, bus, task, battery>>
  BY DEF apply_adaptive_brightness_control
<1>2. ofButtons = ToToggle1 /\ Tail(ofButtons) = <<>>
  <2> DEFINE rest == Tail(ofButtons)
  <2>1. ButtonsAt("apply", Arg("buttons"), TaskOf("buttons"), rest) BY <1>1, ButtonsTake
  <2> HIDE DEF rest
  <2>2. ofButtons = ToToggle1 /\ rest = <<>> BY <2>1, ApplyPlace DEF NoSteps
  <2> QED BY <2>2 DEF rest
<1>3. /\ ofScheduler' = ofScheduler /\ todo' = [u \in Threads |-> todo'[u]]
      /\ ofButtons' = (IF adaptive THEN <<>> ELSE oled_set_brightness(stored.brightness)) \o <<>>
  BY <1>1, <1>2, CallsOf DEF ofButtons, ofScheduler, Threads
<1>4. ofButtons' = IF adaptive THEN <<>> ELSE ToSet2(stored.brightness)
  <2>1. oled_set_brightness(stored.brightness) = ToSet2(stored.brightness)
    BY SettingOf, LevelsAreNumbers DEF Types
  <2>2. <<>> \o <<>> = <<>> /\ \A b : ToSet2(b) \o <<>> = ToSet2(b) BY WithEmpty DEF ToSet2
  <2> QED BY <1>3, <2>1, <2>2
<1> USE DEF display, settings, bus, battery
<1>5. Types' BY <1>1, <1>3 DEF Types
<1>6. ButtonsTodo' BY <1>1, <1>4 DEF ButtonsTodo, Types
<1>7. SchedulerTodo' BY <1>3, Frames
<1>8. Agree'
  <2>1. Idles(ofButtons) /\ Idles(ofButtons') BY <1>2, <1>4, IdleSteps
  <2>2. todo'["scheduler"] = todo["scheduler"] BY <1>3 DEF ofScheduler
  <2> QED BY <1>1, <2>1, <2>2, AgreeKept DEF Threads, ofButtons
<1>9. Chosen' BY <1>1, <1>4 DEF Chosen, Types
<1>10. Polling'
  <2>1. Elsewhere({"stop", "start", "delete"}) BY <1>1 DEF Elsewhere
  <2> QED BY <1>1, <1>3, <2>1, PollingElsewhere
<1>11. Counted' BY <1>1, Frames
<1> QED BY <1>5, <1>6, <1>7, <1>8, <1>9, <1>10, <1>11

\* The screen of the bus: its steps change what is known of the tasks.
LEMMA ScreenKeeps ==
  ASSUME SensorsInv, NEW op \in {"delete", "configure", "stop", "start"},
         Now("buttons", op), Done("buttons"),
         UNCHANGED <<light, display, settings, battery>>, released' \in BOOLEAN,
         task' = [s \in Tasks |-> task'[s]]
  PROVE  Types' /\ ButtonsTodo' /\ SchedulerTodo' /\ Agree' /\ Chosen' /\ Counted'
<1> USE DEF SensorsInv
<1>1. /\ ofScheduler' = ofScheduler /\ todo' = [u \in Threads |-> todo'[u]]
      /\ Switches(op, TaskOf("buttons"), ofButtons')
  BY ButtonsDone DEF ButtonsAt, Chooses, Sets, Toggles
<1>2. /\ ofButtons \in {ToStop3, ToStop2, ToStop1, ToStart3, ToStart2, ToStart1}
      /\ ofButtons' \in {<<>>, ToStop2, ToStop1, ToStart2, ToStart1}
  BY <1>1 DEF Switches, NoSteps
<1> USE DEF display, settings, battery
<1>3. Types' BY <1>1 DEF Types
<1>4. ButtonsTodo' BY <1>2 DEF ButtonsTodo
<1>5. SchedulerTodo' BY <1>1, Frames
<1>6. Agree'
  <2>1. Idles(ofButtons) /\ Idles(ofButtons') BY <1>2, IdleSteps
  <2>2. todo'["scheduler"] = todo["scheduler"] BY <1>1 DEF ofScheduler
  <2> QED BY <2>1, <2>2, AgreeKept DEF Threads, ofButtons
<1>7. Chosen'
  <2>1. Elsewhere(Setting) BY DEF Elsewhere, Setting
  <2>2. \A b : ofButtons' # ToChoose1(b) BY <1>2, NotToStore
  <2> QED BY <2>1, <2>2, ChosenElsewhere
<1>8. Counted' BY Frames
<1> QED BY <1>3, <1>4, <1>5, <1>6, <1>7, <1>8

LEMMA SwitchBusStep ==
  ASSUME SensorsInv, SwitchBus
  PROVE  SensorsInv'
<1> USE DEF SensorsInv
<1>1. /\ Done("buttons") /\ installed' = Now("buttons", "configure") /\ released' = ~installed'
      /\ UNCHANGED <<light, display, settings, task, battery>>
  BY DEF SwitchBus
<1>2. PICK op \in {"delete", "configure"} : Now("buttons", op) BY DEF SwitchBus
<1>3. released' \in BOOLEAN BY <1>1
<1>4. Types' /\ ButtonsTodo' /\ SchedulerTodo' /\ Agree' /\ Chosen' /\ Counted'
  BY <1>1, <1>2, <1>3, ScreenKeeps DEF Types
<1>5. Polling'
  <2>1. \A s : Stopped(s)'
    <3>1. CASE op = "delete"
      <4>1. ~Now("buttons", "configure") BY <1>2, <3>1 DEF Now
      <4> QED BY <1>1, <4>1 DEF Stopped
    <3>2. CASE op = "configure"
      <4>1. ofButtons' = ToStart2
        BY <1>1, <1>2, <3>2, ButtonsDone DEF ButtonsAt, Chooses, Sets, Toggles, Switches
      <4> QED BY <4>1 DEF Stopped
    <3> QED BY <3>1, <3>2
  <2> QED BY <2>1 DEF Polling
<1> QED BY <1>4, <1>5

LEMMA StopTaskStep ==
  ASSUME SensorsInv, StopTask
  PROVE  SensorsInv'
<1> USE DEF SensorsInv
<1> DEFINE s == TaskOf("buttons")
<1>1. /\ Now("buttons", "stop") /\ Done("buttons")
      /\ task' = (IF task[s] = "idle" \/ ~Polled(s) THEN task ELSE [task EXCEPT ![s] = "aborted"])
      /\ UNCHANGED <<light, display, settings, bus, battery>>
  BY DEF StopTask
<1>2. \/ s = "light" /\ ofButtons = ToStop3 /\ ofButtons' = ToStop2
      \/ s = "gauge" /\ ofButtons = ToStop2 /\ ofButtons' = ToStop1
  <2>1. ButtonsAt("stop", Arg("buttons"), s, ofButtons') BY <1>1, ButtonsDone
  <2>2. Switches("stop", s, ofButtons') BY <2>1, SwitchPlace
  <2> QED BY <2>2 DEF Switches, NoSteps
<1>3. ofScheduler' = ofScheduler BY <1>1, ButtonsDone
<1> HIDE DEF s
<1> USE DEF bus, battery
<1>4. task' = [x \in Tasks |-> task'[x]] /\ \A x \in Tasks : x # s => task'[x] = task[x]
  BY <1>1 DEF Types
<1>5. Types' /\ ButtonsTodo' /\ SchedulerTodo' /\ Agree' /\ Chosen' /\ Counted'
  BY <1>1, <1>4, ScreenKeeps DEF Types
<1>6. Polling'
  <2>1. CASE s = "light"
    <3>1. Stopped("light")' BY <1>2, <2>1 DEF Stopped
    <3>2. Stopped("gauge") => released'
      <4>1. ofButtons = ToStop3 BY <1>2, <2>1
      <4>2. ofButtons \notin {ToStop2, ToStop1, ToStart2, ToStart1}
        BY <4>1, ToStopDiffers
      <4> QED BY <1>1, <4>2 DEF Stopped
    <3> QED BY <1>1, <1>3, <1>4, <2>1, <3>1, <3>2 DEF Polling, Polled, Called, Tasks, Stopped
  <2>2. CASE s = "gauge"
    <3>1. \A x : Stopped(x)' BY <1>2, <2>2 DEF Stopped
    <3> QED BY <3>1 DEF Polling
  <2> QED BY <1>2, <2>1, <2>2
<1> QED BY <1>5, <1>6

LEMMA StartTaskStep ==
  ASSUME SensorsInv, StartTask
  PROVE  SensorsInv'
<1> USE DEF SensorsInv
<1> DEFINE s == TaskOf("buttons")
<1>1. /\ Now("buttons", "start") /\ Done("buttons")
      /\ task' = (IF Polled(s) THEN [task EXCEPT ![s] = "scheduled"] ELSE task)
      /\ UNCHANGED <<light, display, settings, bus, battery>>
  BY DEF StartTask
<1>2. \/ s = "light" /\ ofButtons = ToStart2 /\ ofButtons' = ToStart1
      \/ s = "gauge" /\ ofButtons = ToStart1 /\ ofButtons' = <<>>
  <2>1. ButtonsAt("start", Arg("buttons"), s, ofButtons') BY <1>1, ButtonsDone
  <2>2. Switches("start", s, ofButtons') BY <2>1, SwitchPlace
  <2> QED BY <2>2 DEF Switches, NoSteps
<1>3. ofScheduler' = ofScheduler BY <1>1, ButtonsDone
<1> HIDE DEF s
<1> USE DEF bus, battery
<1>4. /\ task' = [x \in Tasks |-> task'[x]] /\ \A x \in Tasks : x # s => task'[x] = task[x]
      /\ s \in Tasks /\ (Polled(s) => task'[s] = "scheduled")
  BY <1>1, <1>2 DEF Types, Tasks
<1>5. Types' /\ ButtonsTodo' /\ SchedulerTodo' /\ Agree' /\ Chosen' /\ Counted'
  BY <1>1, <1>4, ScreenKeeps DEF Types
<1>6. Polling'
  <2>1. \A x : Polled(x)' <=> Polled(x) BY <1>1 DEF Polled
  <2>2. CASE s = "light"
    <3>1. Stopped("gauge")' BY <1>2, <2>2 DEF Stopped
    <3> QED BY <1>1, <1>4, <2>1, <2>2, <3>1 DEF Polling, Tasks
  <2>3. CASE s = "gauge"
    <3>1. ofButtons = ToStart1 BY <1>2, <2>3
    <3>2. ofButtons \notin {ToStop2, ToStop1, ToStart2} BY <3>1, ToStopDiffers
    <3>3. Stopped("light") => Stopped("light")' BY <1>1, <3>2 DEF Stopped
    <3>4. Called("light")' <=> Called("light") BY <1>3 DEF Called
    <3> QED BY <1>1, <1>4, <2>1, <2>3, <3>3, <3>4 DEF Polling, Tasks
  <2> QED BY <1>2, <2>2, <2>3
<1> QED BY <1>5, <1>6

-------------------------------------------------------------------------------
(* The display, which both threads set.                                     *)

LEMMA Reminders ==
  \A b, s : /\ Remembers(ToChoose2(b), b) /\ Remembers(ToSet1(b), b)
            /\ Remembers(ToRemember(b, s), b)
BY ButtonsSplits, SchedulerSplits DEF Splits, Remembers

LEMMA TheOther ==
  \A t \in Threads : Other(t) \in Threads /\ Other(t) # t /\ Threads = {t, Other(t)}
BY DEF Threads, Other

LEMMA AgreeSent ==
  ASSUME Types, Agree, NEW t \in Threads, Command(t), NEW b \in Levels, Arg(t) = b,
         Remembers(todo'[t], b)
  PROVE  Agree' /\ controller' = b /\ overlap' \in BOOLEAN
<1> DEFINE o == Other(t)
<1>1. /\ latch /\ controller' = b /\ overlap' = Now(o, "remember")
      /\ oled_brightness' = oled_brightness
  BY DEF Command, Now
<1>2. todo'[o] = todo[o] BY TheOther, CallsOf DEF Command, Done
<1>3. o \in Threads /\ Threads = {t, o} BY TheOther
<1> HIDE DEF o
<1>4. ASSUME ~overlap' PROVE Idles(todo'[o])
  <2>1. todo[o] = <<>> \/ Head(todo[o]).op # "remember" BY <1>1, <1>4 DEF Now, Busy
  <2>2. \A c : ~Remembers(todo[o], c) BY <2>1, StepFields DEF Remembers
  <2> QED BY <1>2, <2>2 DEF Idles
<1>5. \A c : Remembers(todo'[t], c) => c = b BY StepFields DEF Remembers
<1>6. ~Idles(todo'[t]) BY DEF Idles
<1>7. \A c \in Levels : Idles(todo'[o]) => ~Remembers(todo'[o], c) BY DEF Idles
<1>8. Agree' BY <1>1, <1>3, <1>4, <1>5, <1>6, <1>7 DEF Agree
<1>9. overlap' \in BOOLEAN BY <1>1 DEF Now
<1> QED BY <1>1, <1>8, <1>9

LEMMA AgreeRemembered ==
  ASSUME Types, Agree, NEW t \in Threads, Remember(t), NEW b \in Levels, Arg(t) = b,
         Remembers(todo[t], b), Idles(todo'[t])
  PROVE  Agree' /\ oled_brightness' = b /\ late' \in BOOLEAN
<1> DEFINE o == Other(t)
<1>1. /\ oled_brightness' = b /\ controller' = controller /\ overlap' = overlap
      /\ late' = (t = "scheduler" /\ ~adaptive)
  BY DEF Remember
<1>2. todo'[o] = todo[o] BY TheOther, CallsOf DEF Remember, Done
<1>3. o \in Threads /\ Threads = {t, o} BY TheOther
<1> HIDE DEF o
<1>4. ~Idles(todo[t]) BY DEF Idles
<1>5. ~overlap => controller = b /\ Idles(todo'[o]) BY <1>2, <1>3, <1>4 DEF Agree
<1>6. \A u \in Threads, c \in Levels : Idles(todo'[u]) => ~Remembers(todo'[u], c) BY DEF Idles
<1>7. Agree' BY <1>1, <1>3, <1>5, <1>6 DEF Agree
<1>8. late' \in BOOLEAN BY <1>1
<1> QED BY <1>1, <1>7, <1>8

LEMMA ButtonsCommandStep ==
  ASSUME SensorsInv, Command("buttons")
  PROVE  SensorsInv'
<1> USE DEF SensorsInv
<1> DEFINE b == Arg("buttons")
<1>1. /\ Now("buttons", "command") /\ Done("buttons")
      /\ UNCHANGED <<light, oled_brightness, late, settings, samples, bus, task, battery>>
  BY DEF Command
<1>2. /\ ButtonsAt("command", b, TaskOf("buttons"), ofButtons')
      /\ ofScheduler' = ofScheduler /\ todo' = [u \in Threads |-> todo'[u]]
  BY <1>1, ButtonsDone
<1>3. \/ b \in Levels /\ ofButtons = ToChoose3(b) /\ ofButtons' = ToChoose2(b)
      \/ ~adaptive /\ b = stored.brightness /\ ofButtons = ToSet2(b) /\ ofButtons' = ToSet1(b)
  BY <1>2, CommandPlace
<1>4. b \in Levels BY <1>3 DEF Types
<1>5. Agree' /\ controller' = b /\ overlap' \in BOOLEAN
  <2>1. Remembers(todo'["buttons"], b) BY <1>3, Reminders DEF ofButtons
  <2> QED BY <1>4, <2>1, AgreeSent DEF Threads
<1> HIDE DEF b
<1> USE DEF settings, bus, battery
<1>6. Types' BY <1>1, <1>2, <1>4, <1>5 DEF Types
<1>7. ButtonsTodo' BY <1>1, <1>3 DEF ButtonsTodo
<1>8. SchedulerTodo' BY <1>2, Frames
<1>9. Chosen'
  <2>1. CASE ofButtons = ToChoose3(b) /\ ofButtons' = ToChoose2(b)
    <3>1. \A c : ofButtons \notin {ToToggle2, ToToggle1, ToSet1(c), ToChoose1(c)}
      BY <2>1, FirstSteps DEF Starts
    <3>2. \A c : ofButtons # ToSet2(c) BY <2>1 DEF ToChoose3, ToSet2
    <3>3. \A c : ofButtons' # ToChoose1(c) BY <2>1, NotToStore
    <3> QED BY <1>1, <3>1, <3>2, <3>3 DEF Chosen
  <2>2. CASE b = stored.brightness /\ ofButtons' = ToSet1(b) BY <1>1, <2>2 DEF Chosen
  <2> QED BY <1>3, <2>1, <2>2
<1>10. Polling'
  <2>1. Elsewhere({"stop", "start", "delete"}) BY <1>1 DEF Elsewhere
  <2> QED BY <1>1, <1>2, <2>1, PollingElsewhere
<1>11. Counted' BY <1>1, Frames
<1> QED BY <1>5, <1>6, <1>7, <1>8, <1>9, <1>10, <1>11

LEMMA ButtonsRememberStep ==
  ASSUME SensorsInv, Remember("buttons")
  PROVE  SensorsInv'
<1> USE DEF SensorsInv
<1> DEFINE b == Arg("buttons")
<1>1. /\ Now("buttons", "remember") /\ Done("buttons") /\ late' = FALSE
      /\ UNCHANGED <<light, controller, overlap, settings, samples, bus, task, battery>>
  BY DEF Remember
<1>2. /\ ButtonsAt("remember", b, TaskOf("buttons"), ofButtons')
      /\ ofScheduler' = ofScheduler /\ todo' = [u \in Threads |-> todo'[u]]
  BY <1>1, ButtonsDone
<1>3. \/ b \in Levels /\ ofButtons = ToChoose2(b) /\ ofButtons' = ToChoose1(b)
      \/ ~adaptive /\ b = stored.brightness /\ ofButtons = ToSet1(b) /\ ofButtons' = <<>>
  BY <1>2, RememberPlace
<1>4. b \in Levels BY <1>3 DEF Types
<1>5. Agree' /\ oled_brightness' = b /\ late' \in BOOLEAN
  <2>1. Remembers(todo["buttons"], b) BY <1>3, Reminders DEF ofButtons
  <2>2. Idles(todo'["buttons"]) BY <1>3, IdleSteps DEF ofButtons
  <2> QED BY <1>4, <2>1, <2>2, AgreeRemembered DEF Threads
<1> HIDE DEF b
<1> USE DEF settings, bus, battery
<1>6. Types' BY <1>1, <1>2, <1>4, <1>5 DEF Types
<1>7. ButtonsTodo' BY <1>1, <1>3 DEF ButtonsTodo
<1>8. SchedulerTodo' BY <1>2, Frames
<1>9. Chosen'
  <2>1. CASE b \in Levels /\ ofButtons' = ToChoose1(b) BY <1>5, <2>1 DEF Chosen
  <2>2. CASE b = stored.brightness /\ ofButtons' = <<>>
    <3>1. \A c : ofButtons' # ToChoose1(c) BY <2>2, NotToStore
    <3> QED BY <1>1, <1>5, <2>2, <3>1 DEF Chosen
  <2> QED BY <1>3, <2>1, <2>2
<1>10. Polling'
  <2>1. Elsewhere({"stop", "start", "delete"}) BY <1>1 DEF Elsewhere
  <2> QED BY <1>1, <1>2, <2>1, PollingElsewhere
<1>11. Counted' BY <1>1, Frames
<1> QED BY <1>5, <1>6, <1>7, <1>8, <1>9, <1>10, <1>11

-------------------------------------------------------------------------------
(* The scheduler and its callbacks.                                         *)

LEMMA SchedulerCommandStep ==
  ASSUME SensorsInv, Command("scheduler")
  PROVE  SensorsInv'
<1> USE DEF SensorsInv
<1> DEFINE b == Arg("scheduler")
<1>1. /\ Now("scheduler", "command") /\ Done("scheduler")
      /\ UNCHANGED <<light, oled_brightness, late, settings, samples, bus, task, battery>>
  BY DEF Command
<1>2. /\ \A s : Called(s) =>
           SchedulerAt("command", b, TaskOf("scheduler"), ofScheduler', s)
      /\ \E s \in Tasks : Called(s)
      /\ ofButtons' = ofButtons /\ todo' = [u \in Threads |-> todo'[u]]
  BY <1>1, SchedulerDone
<1>3. \A s : Called(s) => b \in Levels /\ ofScheduler' = ToRemember(b, s)
  BY <1>2 DEF SchedulerAt
<1>4. b \in Levels BY <1>2, <1>3
<1>5. Agree' /\ controller' = b /\ overlap' \in BOOLEAN
  <2>1. Remembers(todo'["scheduler"], b) BY <1>2, <1>3, Reminders DEF ofScheduler
  <2> QED BY <1>4, <2>1, AgreeSent DEF Threads
<1> HIDE DEF b
<1>6. \A s : Called(s) => Called(s)' BY <1>3, <1>4 DEF Called
<1> USE DEF settings, bus, battery
<1>7. Types' BY <1>1, <1>2, <1>4, <1>5 DEF Types
<1>8. ButtonsTodo' BY <1>1, <1>2, Frames
<1>9. SchedulerTodo' BY <1>2, <1>6 DEF SchedulerTodo
<1>10. Chosen' BY <1>1, <1>2, Frames
<1>11. Polling' BY <1>1, <1>2, <1>6 DEF Polling, Polled, Stopped
<1>12. Counted' BY <1>1, Frames
<1> QED BY <1>5, <1>7, <1>8, <1>9, <1>10, <1>11, <1>12

LEMMA SchedulerRememberStep ==
  ASSUME SensorsInv, Remember("scheduler")
  PROVE  SensorsInv'
<1> USE DEF SensorsInv
<1> DEFINE b == Arg("scheduler")
<1>1. /\ Now("scheduler", "remember") /\ Done("scheduler") /\ late' = ~adaptive
      /\ UNCHANGED <<light, controller, overlap, settings, samples, bus, task, battery>>
  BY DEF Remember
<1>2. /\ \A s : Called(s) =>
           SchedulerAt("remember", b, TaskOf("scheduler"), ofScheduler', s)
      /\ \E s \in Tasks : Called(s)
      /\ ofButtons' = ofButtons /\ todo' = [u \in Threads |-> todo'[u]]
  BY <1>1, SchedulerDone
<1>3. \A s : Called(s) =>
        b \in Levels /\ ofScheduler = ToRemember(b, s) /\ ofScheduler' = Again(s)
  BY <1>2 DEF SchedulerAt
<1>4. b \in Levels BY <1>2, <1>3
<1>5. Agree' /\ oled_brightness' = b /\ late' \in BOOLEAN
  <2>1. Remembers(todo["scheduler"], b) BY <1>2, <1>3, Reminders DEF ofScheduler
  <2>2. Idles(todo'["scheduler"]) BY <1>2, <1>3, IdleSteps DEF ofScheduler
  <2> QED BY <1>4, <2>1, <2>2, AgreeRemembered DEF Threads
<1> HIDE DEF b
<1>6. \A s : Called(s) => Called(s)' BY <1>3 DEF Called
<1> USE DEF settings, bus, battery
<1>7. Types' BY <1>1, <1>2, <1>4, <1>5 DEF Types
<1>8. ButtonsTodo' BY <1>1, <1>2, Frames
<1>9. SchedulerTodo' BY <1>2, <1>6 DEF SchedulerTodo
<1>10. Chosen' BY <1>1 DEF Chosen
<1>11. Polling' BY <1>1, <1>2, <1>6 DEF Polling, Polled, Stopped
<1>12. Counted' BY <1>1, Frames
<1> QED BY <1>5, <1>7, <1>8, <1>9, <1>10, <1>11, <1>12

\* A step of a callback that sets no brightness.
LEMMA CallbackKeeps ==
  ASSUME SensorsInv, UNCHANGED <<light, display, settings, released, ofButtons>>,
         todo' = [u \in Threads |-> todo'[u]],
         Idles(ofScheduler), Idles(ofScheduler'), SchedulerTodo',
         task' = [s \in Tasks |-> task'[s]], latch' \in BOOLEAN
  PROVE  Types' /\ ButtonsTodo' /\ Agree' /\ Chosen'
<1> USE DEF SensorsInv, display, settings
<1>1. Types' BY DEF Types
<1>2. ButtonsTodo' BY Frames
<1>3. Agree' BY AgreeKept DEF Threads, ofButtons, ofScheduler
<1>4. Chosen' BY Frames
<1> QED BY <1>1, <1>2, <1>3, <1>4

LEMMA IdleBefore ==
  ASSUME NEW t, NEW op, op # "remember", Now(t, op)
  PROVE  Idles(todo[t])
BY StepFields DEF Now, Idles, Remembers

LEMMA AbortDoneStep ==
  ASSUME SensorsInv, NEW s \in Tasks, AbortDone(s)
  PROVE  SensorsInv'
<1> USE DEF SensorsInv, display, settings, bus, battery
<1>1. /\ task[s] = "aborted" /\ task' = [task EXCEPT ![s] = "idle"]
      /\ UNCHANGED <<light, display, settings, bus, battery, todo>>
  BY DEF AbortDone
<1>2. UNCHANGED <<ofButtons, ofScheduler>> BY <1>1 DEF ofButtons, ofScheduler
<1>3. task' = [x \in Tasks |-> task'[x]] /\ \A x \in Tasks : x # s => task'[x] = task[x]
  BY <1>1 DEF Types
<1>4. Types' BY <1>1, <1>3 DEF Types
<1>5. ButtonsTodo' /\ SchedulerTodo' /\ Agree' /\ Chosen' /\ Counted' BY <1>1, <1>2, Frames
<1>6. Polling' BY <1>1, <1>2, <1>3 DEF Polling, Polled, Called, Stopped
<1> QED BY <1>4, <1>5, <1>6

LEMMA StartCallbackStep ==
  ASSUME SensorsInv, NEW s \in Tasks, StartCallback(s)
  PROVE  SensorsInv'
<1> USE DEF SensorsInv, display, settings, bus, battery
<1>1. /\ task' = [task EXCEPT ![s] = "idle"]
      /\ todo' = [todo EXCEPT !["scheduler"] = <<StepOf("read", s)>>]
      /\ UNCHANGED <<light, display, settings, bus, battery>>
  BY DEF StartCallback
<1>2. ofScheduler = <<>> BY DEF StartCallback, Busy, ofScheduler
<1>3. /\ ofScheduler' = ToRead(s) /\ ofButtons' = ofButtons
      /\ todo' = [u \in Threads |-> todo'[u]]
  BY <1>1 DEF Types, Threads, ofScheduler, ofButtons, ToRead
<1>4. task' = [x \in Tasks |-> task'[x]] /\ \A x \in Tasks : x # s => task'[x] = task[x]
  BY <1>1 DEF Types
<1>5. Called(s)' BY <1>3 DEF Called
<1>6. SchedulerTodo' BY <1>5 DEF SchedulerTodo
<1>7. Types' /\ ButtonsTodo' /\ Agree' /\ Chosen'
  <2>1. Idles(ofScheduler) /\ Idles(ofScheduler') BY <1>2, <1>3, IdleSteps
  <2> QED BY <1>1, <1>3, <1>4, <1>6, <2>1, CallbackKeeps DEF Types
<1>8. Polling'
  <2>1. \A x : ~Called(x)
    BY <1>2, SchedulerSplits DEF Called, Splits
  <2> QED BY <1>1, <1>3, <1>4, <1>5, <2>1 DEF Polling, Polled, Stopped
<1>9. Counted' BY <1>1, Frames
<1> QED BY <1>6, <1>7, <1>8, <1>9

\* A callback of the light sensor, or of its event, goes on.
LEMMA CallbackGoesOn ==
  ASSUME SensorsInv, NEW op, op # "remember", Now("scheduler", op), NEW steps,
         Calls("scheduler", steps),
         UNCHANGED <<light, display, settings, bus, task, battery>>,
         NEW s \in Tasks, \A x : Called(x) => x = s,
         NEW rest, steps \o Tail(ofScheduler) = rest, Idles(rest),
         ofScheduler' = rest => Called(s)'
  PROVE  SensorsInv'
<1> USE DEF SensorsInv, display, settings, bus, battery
<1>1. /\ ofScheduler' = rest /\ ofButtons' = ofButtons
      /\ todo' = [u \in Threads |-> todo'[u]]
  BY CallsOf DEF ofScheduler, ofButtons, Threads
<1>2. Called(s)' BY <1>1
<1>3. SchedulerTodo' BY <1>2 DEF SchedulerTodo
<1>4. Types' /\ ButtonsTodo' /\ Agree' /\ Chosen'
  <2>1. Idles(ofScheduler) BY IdleBefore DEF ofScheduler
  <2> QED BY <1>1, <1>3, <2>1, CallbackKeeps DEF Types
<1>5. Polling' BY <1>1, <1>2 DEF Polling, Polled, Stopped
<1>6. Counted' BY Frames
<1> QED BY <1>3, <1>4, <1>5, <1>6

\* Only one task has its callback called.
LEMMA OneCallback ==
  ASSUME NEW s, NEW x, Called(s), Called(x)
  PROVE  s = x
<1> DEFINE last(y) == y[Len(y)]
<1>1. ASSUME NEW y, Called(y) PROVE last(ofScheduler).task = y
  <2>1. Len(ToRead(y)) = 1 /\ Len(Again(y)) = 1 BY DEF ToRead, Again
  <2>2. \A l : Len(ToAdapt(l, y)) = 2 /\ Len(ToAdjust(l, y)) = 2 BY DEF ToAdapt, ToAdjust
  <2>3. \A l : Len(ToSet3(l, y)) = 3 /\ Len(ToRemember(l, y)) = 2 BY DEF ToSet3, ToRemember
  <2>4. last(ToRead(y)) = StepOf("read", y) /\ last(Again(y)) = StepOf("again", y)
    BY <2>1 DEF ToRead, Again
  <2>5. \A l : /\ last(ToAdapt(l, y)) = StepOf("again", y)
               /\ last(ToAdjust(l, y)) = StepOf("again", y)
    BY <2>2 DEF ToAdapt, ToAdjust
  <2>6. \A l : /\ last(ToSet3(l, y)) = StepOf("again", y)
               /\ last(ToRemember(l, y)) = StepOf("again", y)
    BY <2>3 DEF ToSet3, ToRemember
  <2>7. last(ofScheduler) \in {StepOf("read", y), StepOf("again", y)}
    BY <1>1, <2>4, <2>5, <2>6 DEF Called
  <2> QED BY <2>7, StepFields
<1> QED BY <1>1

LEMMA LightReadStep ==
  ASSUME SensorsInv, NEW ok \in BOOLEAN, ambient_light_sensor_update(ok)
  PROVE  SensorsInv'
<1> DEFINE read == IF ok THEN <<Step("adapt", light)>> ELSE <<>>
           steps == read \o Again("light")
           rest == steps \o Tail(ofScheduler)
<1>1. /\ Now("scheduler", "read") /\ TaskOf("scheduler") = "light"
      /\ Calls("scheduler", steps)
      /\ UNCHANGED <<light, display, settings, samples, bus, task, battery, inputs>>
  BY DEF ambient_light_sensor_update
<1>2. PICK s \in Tasks : Called(s) BY <1>1 DEF SensorsInv, SchedulerTodo, Now, Busy, ofScheduler
<1>3. s = "light" /\ Tail(ofScheduler) = <<>>
  <2> DEFINE tail == Tail(ofScheduler)
  <2>1. SchedulerAt("read", Arg("scheduler"), TaskOf("scheduler"), tail, s)
    BY <1>1, <1>2, SchedulerTakes
  <2> HIDE DEF tail
  <2>2. s = "light" /\ tail = <<>> BY <1>1, <2>1 DEF SchedulerAt, NoSteps
  <2> QED BY <2>2 DEF tail
<1>4. rest = IF ok THEN ToAdapt(light, "light") ELSE Again("light")
  <2>1. <<Step("adapt", light)>> \o Again("light") = ToAdapt(light, "light")
    BY Pair DEF Again, ToAdapt
  <2>2. <<>> \o Again("light") = Again("light") BY NothingBefore
  <2>3. Again("light") \o <<>> = Again("light") BY WithEmpty DEF Again
  <2>4. ToAdapt(light, "light") \o <<>> = ToAdapt(light, "light") BY WithEmpty DEF ToAdapt
  <2> QED BY <1>3, <2>1, <2>2, <2>3, <2>4
<1> HIDE DEF rest
<1>5. Idles(rest) BY <1>4, IdleSteps
<1>6. ofScheduler' = rest => Called(s)' BY <1>1, <1>3, <1>4 DEF Called, SensorsInv, Types
<1>7. \A x : Called(x) => x = s BY <1>2, OneCallback
<1>8. steps \o Tail(ofScheduler) = rest BY DEF rest
<1> HIDE DEF steps
<1> QED BY <1>1, <1>5, <1>6, <1>7, <1>8, CallbackGoesOn

LEMMA AdaptStep ==
  ASSUME SensorsInv, on_ambient_light_level_event
  PROVE  SensorsInv'
<1> DEFINE a == Arg("scheduler")
           steps == IF samples = MinSamples /\ adaptive THEN <<Step("adjust", a)>> ELSE <<>>
           rest == steps \o Tail(ofScheduler)
<1>1. /\ Now("scheduler", "adapt") /\ Calls("scheduler", steps)
      /\ UNCHANGED <<light, display, settings, bus, task, battery, inputs>>
  BY DEF on_ambient_light_level_event
<1>2. PICK s \in Tasks : Called(s) BY <1>1 DEF SensorsInv, SchedulerTodo, Now, Busy, ofScheduler
<1>3. a \in Lights /\ Tail(ofScheduler) = Again(s)
  BY <1>1, <1>2, SchedulerTakes DEF SchedulerAt
<1>4. rest \in {ToAdjust(a, s), Again(s)}
  <2>1. <<Step("adjust", a)>> \o Again(s) = ToAdjust(a, s) BY Pair DEF Again, ToAdjust
  <2>2. <<>> \o Again(s) = Again(s) BY NothingBefore
  <2> QED BY <1>3, <2>1, <2>2
<1> HIDE DEF rest
<1>5. Idles(rest) BY <1>4, IdleSteps
<1> HIDE DEF a
<1>6. ofScheduler' = rest => Called(s)' BY <1>3, <1>4 DEF Called
<1>7. \A x : Called(x) => x = s BY <1>2, OneCallback
<1>8. steps \o Tail(ofScheduler) = rest BY DEF rest
<1> HIDE DEF steps
<1> QED BY <1>1, <1>5, <1>6, <1>7, <1>8, CallbackGoesOn

LEMMA AdjustStep ==
  ASSUME SensorsInv, Adjust
  PROVE  SensorsInv'
<1> DEFINE b == oled_brightness
           l == Arg("scheduler")
           steps == IF TooDark(b, l) THEN oled_set_brightness(b + 1)
                    ELSE IF TooBright(b, l) THEN oled_set_brightness(b - 1) ELSE <<>>
           rest == steps \o Tail(ofScheduler)
<1>1. /\ Now("scheduler", "adjust") /\ Calls("scheduler", steps)
      /\ UNCHANGED <<light, display, settings, samples, bus, task, battery, inputs>>
  BY DEF Adjust
<1>2. PICK s \in Tasks : Called(s) BY <1>1 DEF SensorsInv, SchedulerTodo, Now, Busy, ofScheduler
<1>3. Tail(ofScheduler) = Again(s) BY <1>1, <1>2, SchedulerTakes DEF SchedulerAt
<1>4. rest = Again(s) \/ \E c \in Levels : rest = ToSet3(c, s)
  <2>1. b \in Nat BY LevelsAreNumbers DEF SensorsInv, Types
  <2>2. ASSUME NEW n \in Nat
        PROVE  \E c \in Levels : oled_set_brightness(n) \o Again(s) = ToSet3(c, s)
    <3>1. PICK c \in Levels : oled_set_brightness(n) = ToSet2(c) BY SettingOf
    <3>2. ToSet2(c) \o Again(s) = ToSet3(c, s) BY Triple DEF ToSet2, Again, ToSet3
    <3> QED BY <3>1, <3>2
  <2>3. CASE TooDark(b, l)
    <3>1. b + 1 \in Nat BY <2>1
    <3>2. rest = oled_set_brightness(b + 1) \o Again(s) BY <1>3, <2>3
    <3> QED BY <2>2, <3>1, <3>2
  <2>4. CASE ~TooDark(b, l) /\ TooBright(b, l)
    <3>1. b - 1 \in Nat BY <2>1, <2>4 DEF TooBright
    <3>2. rest = oled_set_brightness(b - 1) \o Again(s) BY <1>3, <2>4
    <3> QED BY <2>2, <3>1, <3>2
  <2>5. CASE ~TooDark(b, l) /\ ~TooBright(b, l) BY <1>3, <2>5, NothingBefore
  <2> QED BY <2>3, <2>4, <2>5
<1> HIDE DEF rest
<1>5. Idles(rest) BY <1>4, IdleSteps
<1>6. ofScheduler' = rest => Called(s)' BY <1>4 DEF Called
<1>7. \A x : Called(x) => x = s BY <1>2, OneCallback
<1>8. steps \o Tail(ofScheduler) = rest BY DEF rest
<1> HIDE DEF steps
<1> QED BY <1>1, <1>5, <1>6, <1>7, <1>8, CallbackGoesOn

LEMMA ScheduleAgainStep ==
  ASSUME SensorsInv, ScheduleAgain
  PROVE  SensorsInv'
<1> USE DEF SensorsInv, display, settings, bus, battery
<1> DEFINE called == TaskOf("scheduler")
<1>1. /\ Now("scheduler", "again") /\ Done("scheduler")
      /\ task' = [task EXCEPT ![called] = "scheduled"]
      /\ UNCHANGED <<light, display, settings, bus, battery>>
  BY DEF ScheduleAgain
<1>2. /\ \A s : Called(s) =>
           SchedulerAt("again", Arg("scheduler"), called, ofScheduler', s)
      /\ \E s \in Tasks : Called(s)
      /\ ofButtons' = ofButtons /\ todo' = [u \in Threads |-> todo'[u]]
  BY <1>1, SchedulerDone
<1>3. \A s : Called(s) => s = called /\ ofScheduler' = <<>>
  BY <1>2 DEF SchedulerAt, NoSteps
<1>4. called \in Tasks /\ ofScheduler' = <<>> BY <1>2, <1>3
<1> HIDE DEF called
<1>5. /\ task' = [x \in Tasks |-> task'[x]] /\ task'[called] = "scheduled"
      /\ \A x \in Tasks : x # called => task'[x] = task[x]
  BY <1>1, <1>4 DEF Types
<1>6. SchedulerTodo' BY <1>4 DEF SchedulerTodo
<1>7. Types' /\ ButtonsTodo' /\ Agree' /\ Chosen'
  <2>1. Idles(ofScheduler) BY <1>1, IdleBefore DEF ofScheduler
  <2>2. Idles(ofScheduler') BY <1>4, IdleSteps
  <2> QED BY <1>1, <1>2, <1>5, <1>6, <2>1, <2>2, CallbackKeeps DEF Types
<1>8. Polling' BY <1>1, <1>2, <1>3, <1>5 DEF Polling, Polled, Stopped
<1>9. Counted' BY <1>1, Frames
<1> QED BY <1>6, <1>7, <1>8, <1>9

\* What the last readings were, as the gauge counts them.
Voltages == {"none", "low", "good"}
Lows(v, n) == \A k \in 1..n : v[k] = "low"
LEMMA LastReadings ==
  ASSUME NEW n \in Nat \ {0}, NEW v \in Seq(Voltages), Len(v) = n, NEW x \in Voltages
  PROVE  LET w == SubSeq(<<x>> \o v, 1, n)
         IN /\ w \in Seq(Voltages) /\ Len(w) = n
            /\ \A low \in Nat : low < n /\ Lows(v, low) /\ x = "low" => Lows(w, low + 1)
            /\ Lows(w, n) => w = [k \in 1..n |-> "low"]
<1> DEFINE c == <<x>> \o v
           w == SubSeq(c, 1, n)
<1>1. <<x>> \in Seq(Voltages) /\ Len(<<x>>) = 1 /\ <<x>>[1] = x OBVIOUS
<1>2. /\ c \in Seq(Voltages) /\ Len(c) = n + 1
      /\ \A i \in 1..n + 1 : c[i] = IF i <= 1 THEN <<x>>[i] ELSE v[i - 1]
  BY <1>1, ConcatProperties
<1> HIDE DEF c
<1>3. w \in Seq(Voltages) /\ Len(w) = n /\ \A i \in 1..n : w[i] = c[i]
  BY <1>2, SubSeqProperties
<1> HIDE DEF w
<1>4. ASSUME NEW low \in Nat, low < n, Lows(v, low), x = "low" PROVE Lows(w, low + 1)
  <2>1. ASSUME NEW k \in 1..low + 1 PROVE w[k] = "low"
    <3>1. w[k] = c[k] BY <1>3, <1>4
    <3>2. CASE k = 1 BY <1>1, <1>2, <1>4, <3>1, <3>2
    <3>3. CASE k # 1
      <4>1. k - 1 \in 1..low BY <3>3
      <4>2. c[k] = v[k - 1] BY <1>2, <1>4, <3>3
      <4> QED BY <1>4, <3>1, <4>1, <4>2 DEF Lows
    <3> QED BY <3>2, <3>3
  <2> QED BY <2>1 DEF Lows
<1>5. Lows(w, n) => w = [k \in 1..n |-> "low"]
  <2>1. w = [k \in 1..n |-> w[k]] BY <1>3
  <2> QED BY <2>1 DEF Lows
<1> QED BY <1>3, <1>4, <1>5 DEF w, c

LEMMA BatteryCounted ==
  ASSUME Counted, latch, NEW voltage \in {"low", "good", "failed"}, NEW ok \in BOOLEAN,
         battery_gauge_update(voltage, ok)
  PROVE  Counted' /\ gauge'.initialized = gauge.initialized
<1> DEFINE n == PoweroffSamples
           w == SubSeq(<<voltage>> \o voltages, 1, n)
           low == CountLow(voltage)
           exponent == IF ok THEN 0 ELSE IF gauge.exponent < MaxBackoff THEN gauge.exponent + 1
                       ELSE gauge.exponent
<1>1. /\ gauge' = [gauge EXCEPT !.low = low, !.healthy = ok, !.exponent = exponent]
      /\ latch' = ~(voltage = "low" /\ gauge'.low >= n)
      /\ voltages' = IF voltage = "failed" THEN voltages ELSE w
  BY DEF battery_gauge_update
<1>2. /\ gauge = [initialized |-> gauge.initialized, healthy |-> gauge.healthy,
                  exponent |-> gauge.exponent, low |-> gauge.low]
      /\ gauge.low \in 0..n /\ gauge.low < n
      /\ voltages \in Seq(Voltages) /\ Len(voltages) = n /\ Lows(voltages, gauge.low)
  BY DEF Counted, Voltages, Lows
<1>3. n \in Nat \ {0} BY SensorsAssumption
<1> HIDE DEF n, exponent
<1>4. gauge' = [initialized |-> gauge.initialized, healthy |-> ok,
                exponent |-> exponent, low |-> low]
  BY <1>1, <1>2
<1>5. gauge'.low = low /\ gauge'.initialized = gauge.initialized BY <1>4
<1>6. /\ low \in 0..n /\ voltages' \in Seq(Voltages) /\ Len(voltages') = n
      /\ Lows(voltages', low) /\ (latch' => low < n)
      /\ ~latch' => voltages' = [k \in 1..n |-> "low"]
  <2>1. CASE voltage = "low"
    <3>1. low = gauge.low + 1 /\ low \in 0..n BY <1>2, <1>3, <2>1 DEF CountLow
    <3>2. /\ w \in Seq(Voltages) /\ Len(w) = n /\ Lows(w, low)
          /\ Lows(w, n) => w = [k \in 1..n |-> "low"]
      BY <1>2, <1>3, <2>1, <3>1, LastReadings DEF Voltages
    <3>3. voltages' = w BY <1>1, <2>1
    <3>4. latch' <=> low < n
      <4>1. latch' = ~(gauge'.low >= n) BY <1>1, <2>1
      <4>2. gauge'.low = low BY <1>5
      <4> HIDE DEF low
      <4>3. low >= n <=> ~(low < n) BY <1>3, <3>1
      <4> QED BY <4>1, <4>2, <4>3
    <3> HIDE DEF w, low
    <3>5. ~latch' => low = n BY <1>3, <3>1, <3>4
    <3> QED BY <3>1, <3>2, <3>3, <3>4, <3>5
  <2>2. CASE voltage = "good"
    <3>1. low = 0 BY <2>2 DEF CountLow
    <3>2. w \in Seq(Voltages) /\ Len(w) = n BY <1>2, <1>3, <2>2, LastReadings DEF Voltages
    <3>3. voltages' = w /\ latch' BY <1>1, <2>2
    <3> HIDE DEF w, low
    <3> QED BY <1>3, <3>1, <3>2, <3>3 DEF Lows
  <2>3. CASE voltage = "failed"
    <3>1. low = gauge.low BY <2>3 DEF CountLow
    <3>2. voltages' = voltages /\ latch' BY <1>1, <2>3
    <3> HIDE DEF low
    <3> QED BY <1>2, <3>1, <3>2
  <2> QED BY <2>1, <2>2, <2>3
<1> HIDE DEF low
<1> QED BY <1>4, <1>5, <1>6 DEF Counted, OffWhenEmpty, Voltages, Lows, n

LEMMA BatteryStep ==
  ASSUME SensorsInv, NEW voltage \in {"low", "good", "failed"}, NEW ok \in BOOLEAN,
         battery_gauge_update(voltage, ok)
  PROVE  SensorsInv'
<1> USE DEF SensorsInv, display, settings, bus
<1>1. /\ Now("scheduler", "read") /\ TaskOf("scheduler") = "gauge"
      /\ latch' = ~(voltage = "low" /\ gauge'.low >= PoweroffSamples)
      /\ Calls("scheduler", Again("gauge"))
      /\ UNCHANGED <<light, display, settings, bus, task>>
  BY DEF battery_gauge_update
<1>2. latch BY <1>1 DEF Now
<1>3. PICK s \in Tasks : Called(s) BY <1>1 DEF SchedulerTodo, Now, Busy, ofScheduler
<1>4. s = "gauge" /\ Tail(ofScheduler) = <<>>
  <2> DEFINE tail == Tail(ofScheduler)
  <2>1. SchedulerAt("read", Arg("scheduler"), TaskOf("scheduler"), tail, s)
    BY <1>1, <1>3, SchedulerTakes
  <2> HIDE DEF tail
  <2>2. s = "gauge" /\ tail = <<>> BY <1>1, <2>1 DEF SchedulerAt, NoSteps
  <2> QED BY <2>2 DEF tail
<1>5. /\ ofScheduler' = Again("gauge") /\ ofButtons' = ofButtons
      /\ todo' = [u \in Threads |-> todo'[u]]
  <2>1. Again("gauge") \o <<>> = Again("gauge") BY WithEmpty DEF Again
  <2> QED BY <1>1, <1>4, <2>1, CallsOf DEF ofScheduler, ofButtons, Threads
<1>6. Called("gauge")' BY <1>5 DEF Called
<1>7. SchedulerTodo' BY <1>6 DEF SchedulerTodo, Tasks
<1>8. latch' \in BOOLEAN BY <1>1
<1>9. Types' /\ ButtonsTodo' /\ Agree' /\ Chosen'
  <2>1. Idles(ofScheduler) BY <1>1, IdleBefore DEF ofScheduler
  <2>2. Idles(ofScheduler') BY <1>5, IdleSteps
  <2> QED BY <1>1, <1>5, <1>7, <1>8, <2>1, <2>2, CallbackKeeps DEF Types
<1>10. Counted' /\ gauge'.initialized = gauge.initialized BY <1>2, BatteryCounted
<1>11. Polling'
  <2>1. \A x \in Tasks : Called(x) => Called(x)' BY <1>3, <1>4, <1>6, OneCallback
  <2> QED BY <1>1, <1>2, <1>5, <1>10, <2>1 DEF Polling, Polled, Stopped
<1> QED BY <1>7, <1>9, <1>10, <1>11

-------------------------------------------------------------------------------
(* The start, and all steps.                                                *)

\* The device has just started.
Fresh ==
  /\ light \in Lights /\ stored \in [brightness : Levels, adaptive : BOOLEAN]
  /\ \E found \in BOOLEAN :
       LET start == Started(stored, found)
       IN /\ controller = start.brightness /\ oled_brightness = start.brightness
          /\ adaptive = start.adaptive /\ task = start.task /\ gauge = start.gauge
  /\ installed = TRUE /\ released = FALSE /\ latch = TRUE
  /\ todo = [t \in Threads |-> <<>>]
  /\ overlap = FALSE /\ late = FALSE /\ voltages = NoVoltages

LEMMA FreshInv == Fresh => SensorsInv
<1> SUFFICES ASSUME Fresh PROVE SensorsInv OBVIOUS
<1>1. PICK found \in BOOLEAN :
        /\ controller = IF stored.adaptive THEN MaxBrightness ELSE stored.brightness
        /\ oled_brightness = controller /\ adaptive = stored.adaptive
        /\ task = [s \in Tasks |-> IF s = "gauge" /\ ~found THEN "idle" ELSE "scheduled"]
        /\ gauge = [initialized |-> found, healthy |-> found, exponent |-> 0, low |-> 0]
  BY DEF Fresh, Started
<1>2. /\ light \in Lights /\ stored \in [brightness : Levels, adaptive : BOOLEAN]
      /\ released = FALSE /\ latch = TRUE /\ todo = [t \in Threads |-> <<>>]
      /\ overlap = FALSE /\ late = FALSE /\ voltages = NoVoltages
  BY DEF Fresh
<1>3. ofButtons = <<>> /\ ofScheduler = <<>> BY <1>2 DEF Threads, ofButtons, ofScheduler
<1>4. Types
  <2>1. controller \in Levels BY <1>1, <1>2, LevelsAreNumbers DEF Levels
  <2>2. {overlap, late, released, latch, adaptive} \subseteq BOOLEAN BY <1>1, <1>2
  <2> QED BY <1>1, <1>2, <2>1, <2>2 DEF Types
<1>5. ButtonsTodo /\ SchedulerTodo BY <1>3 DEF ButtonsTodo, SchedulerTodo
<1>6. Agree
  <2>1. \A t \in Threads : Idles(todo[t]) BY <1>2, IdleSteps
  <2>2. \A t \in Threads, b \in Levels : ~Remembers(todo[t], b) BY <2>1 DEF Idles
  <2> QED BY <1>1, <2>1, <2>2 DEF Agree, Threads
<1>7. Chosen BY <1>1, <1>3, NotToStore DEF Chosen
<1>8. Polling BY <1>1 DEF Polling, Polled, Tasks
<1>9. Counted
  <2>1. PoweroffSamples \in Nat \ {0} BY SensorsAssumption
  <2>2. voltages \in Seq({"none", "low", "good"}) /\ Len(voltages) = PoweroffSamples
    BY <1>2, <2>1 DEF NoVoltages
  <2> QED BY <1>1, <1>2, <2>1, <2>2 DEF Counted, OffWhenEmpty
<1> QED BY <1>4, <1>5, <1>6, <1>7, <1>8, <1>9 DEF SensorsInv

LEMMA InitSensors == Init => SensorsInv
<1>1. Init => Fresh BY DEF Init, Fresh
<1> QED BY <1>1, FreshInv

LEMMA ResetStep ==
  ASSUME SensorsInv, Reset
  PROVE  SensorsInv'
<1>1. Fresh' BY DEF Reset, Fresh, SensorsInv, Types
<1>2. (Fresh => SensorsInv)' BY FreshInv, PTL
<1> QED BY <1>1, <1>2

LEMMA IdleStep ==
  ASSUME SensorsInv, \/ LightChanges
                     \/ UNCHANGED vars
  PROVE  SensorsInv'
<1> USE DEF SensorsInv, display, settings, bus, battery
<1>1. UNCHANGED <<display, settings, bus, task, battery, todo>> BY DEF LightChanges, vars
<1>2. UNCHANGED <<ofButtons, ofScheduler>> BY <1>1 DEF ofButtons, ofScheduler
<1>3. light' \in Lights BY DEF LightChanges, vars, Types
<1>4. Types' BY <1>1, <1>3 DEF Types
<1>5. ButtonsTodo' /\ SchedulerTodo' /\ Agree' /\ Chosen' /\ Polling' /\ Counted'
  BY <1>1, <1>2, Frames
<1> QED BY <1>4, <1>5

LEMMA StepSensors == SensorsInv /\ [Next]_vars => SensorsInv'
<1> SUFFICES ASSUME SensorsInv, [Next]_vars PROVE SensorsInv' OBVIOUS
<1>1. CASE BrighterPressed \/ DarkerPressed \/ i2c_bus_disable_run \/ ExitPressed
           \/ display_settings_endisable_adaptive_brightness_run
  BY <1>1, PressesStep
<1>2. CASE Buttons
  BY <1>2, ButtonsCommandStep, ButtonsRememberStep, StoreStep, ToggleSteps, ApplyStep,
     SwitchBusStep, StopTaskStep, StartTaskStep DEF Buttons
<1>3. CASE Scheduler
  BY <1>3, AbortDoneStep, StartCallbackStep, LightReadStep, BatteryStep, AdaptStep, AdjustStep,
     ScheduleAgainStep, SchedulerCommandStep, SchedulerRememberStep DEF Scheduler
<1>4. CASE Reset BY <1>4, ResetStep
<1>5. CASE LightChanges \/ UNCHANGED vars BY <1>5, IdleStep
<1> QED BY <1>1, <1>2, <1>3, <1>4, <1>5 DEF Next

\* Init => SensorsInv, and every step keeps it.
THEOREM SensorsInvariant == Spec => []SensorsInv
BY InitSensors, StepSensors, PTL DEF Spec

-------------------------------------------------------------------------------
(* What it is for.                                                          *)

\* When both threads are done, the display has the brightness the program knows of,
\* unless two setters had met, and without adaptive control it is the chosen one,
\* unless the sensor came last: oled_set_brightness and its callers.
THEOREM BrightnessIsChosen == Spec => []ChosenBrightness
<1>1. SensorsInv => ChosenBrightness
  <2> SUFFICES ASSUME SensorsInv, \A t \in Threads : Idle(t)
               PROVE  /\ ~overlap => controller = oled_brightness
                      /\ ~adaptive /\ ~late => oled_brightness = stored.brightness
    BY DEF ChosenBrightness
  <2>1. \A t \in Threads : todo[t] = <<>> BY DEF Idle, Busy
  <2>2. ~overlap => controller = oled_brightness
    <3>1. \A t \in Threads : Idles(todo[t]) BY <2>1, IdleSteps
    <3> QED BY <3>1 DEF SensorsInv, Agree
  <2>3. ~adaptive /\ ~late => oled_brightness = stored.brightness
    <3>1. ofButtons = <<>> BY <2>1 DEF ofButtons, Threads
    <3>3. \A b : ofButtons \notin {ToToggle2, ToToggle1, ToSet2(b), ToSet1(b), ToChoose1(b)}
      BY <3>1, FirstSteps DEF Starts
    <3> QED BY <3>3 DEF SensorsInv, Chosen
  <2> QED BY <2>2, <2>3
<1> QED BY <1>1, SensorsInvariant, PTL

\* A polling task is scheduled, or its callback will schedule it, unless the screen
\* of the bus has stopped it: ambient_light_sensor_update, battery_gauge_update and
\* i2c_bus_disable_run.
THEOREM PollingGoesOn == Spec => []KeepsPolling
<1>1. ASSUME NEW s, Called(s) PROVE Polls(s)
  <2> DEFINE Ends(x) == \E k \in 1..Len(x) : x[k] \in {StepOf("read", s), StepOf("again", s)}
  <2>1. Ends(<<StepOf("read", s)>>) /\ Ends(<<StepOf("again", s)>>) OBVIOUS
  <2>2. \A a : Ends(<<a, StepOf("again", s)>>)
    <3>1. ASSUME NEW a PROVE Ends(<<a, StepOf("again", s)>>)
      <4>1. 2 \in 1..Len(<<a, StepOf("again", s)>>) OBVIOUS
      <4> QED BY <4>1
    <3> QED BY <3>1
  <2>3. \A a, b : Ends(<<a, b, StepOf("again", s)>>)
    <3>1. ASSUME NEW a, NEW b PROVE Ends(<<a, b, StepOf("again", s)>>)
      <4>1. 3 \in 1..Len(<<a, b, StepOf("again", s)>>) OBVIOUS
      <4> QED BY <4>1
    <3> QED BY <3>1
  <2> HIDE DEF Ends
  <2>4. Ends(ofScheduler)
    BY <1>1, <2>1, <2>2, <2>3 DEF Called, ToRead, Again, ToAdapt, ToAdjust, ToSet3, ToRemember
  <2> QED BY <2>4 DEF Ends, Polls, ofScheduler
<1>2. SensorsInv => KeepsPolling
  <2> SUFFICES ASSUME SensorsInv, latch, ~released, Idle("buttons"), NEW s \in Tasks, Polled(s)
               PROVE  Polls(s)
    BY DEF KeepsPolling
  <2>1. ofButtons = <<>> BY DEF Idle, Busy, ofButtons
  <2>2. Elsewhere({"stop", "start", "delete"}) BY <2>1 DEF Elsewhere
  <2>3. ~Stopped(s) BY <2>2, NotStoppedElsewhere
  <2>4. task[s] = "scheduled" \/ Called(s) BY <2>3 DEF SensorsInv, Polling
  <2> QED BY <1>1, <2>4 DEF Polls
<1> QED BY <1>2, SensorsInvariant, PTL

\* The device switches itself off only when the last readings were all low:
\* battery_gauge_update.
THEOREM OffOnlyWhenEmpty == Spec => []OffWhenEmpty
<1>1. SensorsInv => OffWhenEmpty BY DEF SensorsInv, Counted
<1> QED BY <1>1, SensorsInvariant, PTL
================================================================================
