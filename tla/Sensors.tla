--------------------------------- MODULE Sensors -------------------------------
(***************************************************************************)
(* The tasks that poll the light sensor and the battery gauge, the screen  *)
(* that releases the I2C bus, and the brightness of the display: buttons   *)
(* set it, and the light does, on another thread, if that is enabled.      *)
(* ambient_light_sensor.c, battery_gauge.c, i2c_bus.c, display_settings.c  *)
(* and oled.c.                                                             *)
(*                                                                         *)
(* A callback of the scheduler, and what a button does, is a sequence of   *)
(* steps; one step is one access to what the threads share.  The scheduler *)
(* itself is that of TaskTimers.  Left out: intervals, texts, what is read *)
(* besides the voltage, and the filtered light, which nothing uses.        *)
(***************************************************************************)
EXTENDS Integers, Sequences, SequencesExt

CONSTANTS
  Mapping,              \* display_brightness_mapping_mlux
  Hysteresis,           \* AMBIENT_LIGHT_HYSTERESIS_MLUX
  MinSamples,           \* MIN_AMBIENT_LIGHT_LEVEL_SAMPLES
  PoweroffSamples,      \* POWEROFF_SAMPLES
  MaxBackoff,           \* UPDATE_INTERVAL_MAX_BACKOFF
  Lights,               \* what the light sensor may measure
  MaxInputs             \* bounds presses, resets and changes of the light

ASSUME SensorsAssumption ==
  /\ Mapping \in Seq(Nat) /\ Mapping # <<>>
  /\ \A k \in 1..Len(Mapping) - 1 : Mapping[k] < Mapping[k + 1]
  /\ {Hysteresis, MinSamples, MaxBackoff, MaxInputs} \subseteq Nat
  /\ PoweroffSamples \in Nat \ {0} /\ Lights \subseteq Nat

MaxBrightness == Len(Mapping) - 1
Levels == 0..MaxBrightness
Tasks == {"light", "gauge"}
Threads == {"buttons", "scheduler"}

VARIABLES
  light,
  controller,           \* the brightness that was sent to the display
  oled_brightness,
  adaptive,             \* adaptive_brightness_control_enabled
  samples,              \* ambient_light_level_samples
  stored,               \* settings: brightness and adaptive
  installed, released,  \* the driver of the bus; the screen that releases it
  task,                 \* "aborted": the scheduler has not seen the abort yet
  gauge,                \* battery_gauge.c
  latch,                \* GPIO_PWR_EN: without it the device is off
  todo,                 \* of the threads
  inputs,
  overlap,              \* history: the last command met another one
  late,                 \* history: the sensor set the brightness last, though
                        \* adaptive control was off by then
  voltages              \* history: what the last readings said

display == <<controller, oled_brightness, overlap, late>>
settings == <<adaptive, stored>>
bus == <<installed, released>>
battery == <<gauge, latch, voltages>>
vars == <<light, display, settings, samples, bus, task, battery, todo, inputs>>

-------------------------------------------------------------------------------
(* Steps.                                                                   *)

Step(op, arg) == [op |-> op, arg |-> arg, task |-> "light"]
StepOf(op, s) == [op |-> op, arg |-> 0, task |-> s]
Busy(t) == todo[t] # <<>>
Now(t, op) == latch /\ Busy(t) /\ Head(todo[t]).op = op
Arg(t) == Head(todo[t]).arg
TaskOf(t) == Head(todo[t]).task
Calls(t, steps) == todo' = [todo EXCEPT ![t] = steps \o Tail(@)]
Done(t) == Calls(t, <<>>)

oled_set_brightness(b) ==
  LET level == IF b > MaxBrightness THEN MaxBrightness ELSE b
  IN <<Step("command", level), Step("remember", level)>>

-------------------------------------------------------------------------------
(* The display.                                                             *)

Other(t) == IF t = "buttons" THEN "scheduler" ELSE "buttons"

\* OLED_CMD, with the display locked.
Command(t) ==
  /\ Now(t, "command")
  /\ controller' = Arg(t)
  /\ overlap' = Now(Other(t), "remember")
  /\ Done(t)
  /\ UNCHANGED <<light, oled_brightness, late, settings, samples, bus, task, battery, inputs>>

Remember(t) ==
  /\ Now(t, "remember")
  /\ oled_brightness' = Arg(t)
  /\ late' = (t = "scheduler" /\ ~adaptive)
  /\ Done(t)
  /\ UNCHANGED <<light, controller, overlap, settings, samples, bus, task, battery, inputs>>

-------------------------------------------------------------------------------
(* The buttons.                                                             *)

Press(steps) ==
  /\ latch /\ ~Busy("buttons") /\ inputs < MaxInputs
  /\ inputs' = inputs + 1
  /\ todo' = [todo EXCEPT !["buttons"] = steps]
  /\ UNCHANGED <<light, display, settings, samples, bus, task, battery>>

Select(b) == Press(oled_set_brightness(b) \o <<Step("store", b)>>)
BrighterPressed ==
  ~released /\ Select(IF oled_brightness < MaxBrightness THEN oled_brightness + 1
                      ELSE oled_brightness)
DarkerPressed ==
  ~released /\ Select(IF oled_brightness > 0 THEN oled_brightness - 1 ELSE oled_brightness)

\* Mutant: the brightness stays what the light made it.
ToggleOnly == ~released /\ Press(<<Step("toggle", 0), Step("storeToggle", 0)>>)

display_settings_endisable_adaptive_brightness_run ==
  ~released /\ Press(<<Step("toggle", 0), Step("storeToggle", 0), Step("apply", 0)>>)

Store ==
  /\ Now("buttons", "store")
  /\ stored' = [stored EXCEPT !.brightness = Arg("buttons")]
  /\ Done("buttons")
  /\ UNCHANGED <<light, display, adaptive, samples, bus, task, battery, inputs>>

Toggle ==
  /\ Now("buttons", "toggle")
  /\ adaptive' = ~adaptive
  /\ Done("buttons")
  /\ UNCHANGED <<light, display, stored, samples, bus, task, battery, inputs>>

StoreToggle ==
  /\ Now("buttons", "storeToggle")
  /\ stored' = [stored EXCEPT !.adaptive = adaptive]
  /\ Done("buttons")
  /\ UNCHANGED <<light, display, adaptive, samples, bus, task, battery, inputs>>

apply_adaptive_brightness_control ==
  /\ Now("buttons", "apply")
  /\ Calls("buttons", IF adaptive THEN <<>> ELSE oled_set_brightness(stored.brightness))
  /\ UNCHANGED <<light, display, settings, samples, bus, task, battery, inputs>>

\* i2c_bus.c: the screen is entered and left.
i2c_bus_disable_run ==
  ~released /\ Press(<<StepOf("stop", "light"), StepOf("stop", "gauge"), Step("delete", 0)>>)
ExitPressed ==
  released /\ Press(<<Step("configure", 0), StepOf("start", "light"), StepOf("start", "gauge")>>)

\* i2c_driver_delete, or i2c_bus_configure.
SwitchBus ==
  /\ Now("buttons", "delete") \/ Now("buttons", "configure")
  /\ installed' = Now("buttons", "configure")
  /\ released' = ~installed'
  /\ Done("buttons")
  /\ UNCHANGED <<light, display, settings, samples, task, battery, inputs>>

\* What concerns the gauge is done only if it was found.
Polled(s) == s = "gauge" => gauge.initialized

StopTask ==
  LET s == TaskOf("buttons")
  IN /\ Now("buttons", "stop")
     /\ task' = IF task[s] = "idle" \/ ~Polled(s) THEN task ELSE [task EXCEPT ![s] = "aborted"]
     /\ Done("buttons")
     /\ UNCHANGED <<light, display, settings, samples, bus, battery, inputs>>

StartTask ==
  LET s == TaskOf("buttons")
  IN /\ Now("buttons", "start")
     /\ task' = IF Polled(s) THEN [task EXCEPT ![s] = "scheduled"] ELSE task
     /\ Done("buttons")
     /\ UNCHANGED <<light, display, settings, samples, bus, battery, inputs>>

Buttons ==
  \/ \E t \in {"buttons"} : Command(t) \/ Remember(t)
  \/ Store \/ Toggle \/ StoreToggle \/ apply_adaptive_brightness_control
  \/ SwitchBus \/ StopTask \/ StartTask

-------------------------------------------------------------------------------
(* The scheduler and its callbacks.                                         *)

AbortDone(s) ==
  /\ latch /\ task[s] = "aborted"
  /\ task' = [task EXCEPT ![s] = "idle"]
  /\ UNCHANGED <<light, display, settings, samples, bus, battery, todo, inputs>>

StartCallback(s) ==
  /\ latch /\ ~Busy("scheduler") /\ task[s] # "idle"
  /\ task' = [task EXCEPT ![s] = "idle"]
  /\ todo' = [todo EXCEPT !["scheduler"] = <<StepOf("read", s)>>]
  /\ UNCHANGED <<light, display, settings, samples, bus, battery, inputs>>

Again(s) == <<StepOf("again", s)>>

\* Mutant: a reading that failed is the last one.
ReadOnce(ok) ==
  /\ Now("scheduler", "read") /\ TaskOf("scheduler") = "light" /\ (ok => installed)
  /\ Calls("scheduler", IF ok THEN <<Step("adapt", light)>> \o Again("light") ELSE <<>>)
  /\ UNCHANGED <<light, display, settings, samples, bus, task, battery, inputs>>

ambient_light_sensor_update(ok) ==
  /\ Now("scheduler", "read") /\ TaskOf("scheduler") = "light" /\ (ok => installed)
  /\ Calls("scheduler", (IF ok THEN <<Step("adapt", light)>> ELSE <<>>) \o Again("light"))
  /\ UNCHANGED <<light, display, settings, samples, bus, task, battery, inputs>>

on_ambient_light_level_event ==
  /\ Now("scheduler", "adapt")
  /\ samples' = IF samples < MinSamples THEN samples + 1 ELSE samples
  /\ Calls("scheduler", IF samples = MinSamples /\ adaptive
                        THEN <<Step("adjust", Arg("scheduler"))>> ELSE <<>>)
  /\ UNCHANGED <<light, display, settings, bus, task, battery, inputs>>

\* Mutant: the bound below is that of the brightness itself.
TooBrightHere(b, l) == b > 0 /\ l < Mapping[b + 1]

TooDark(b, l) == l > Mapping[b + 1] + Hysteresis
TooBright(b, l) == b > 0 /\ l < Mapping[b]

Adjust ==
  LET b == oled_brightness
      l == Arg("scheduler")
  IN /\ Now("scheduler", "adjust")
     /\ Calls("scheduler", IF TooDark(b, l) THEN oled_set_brightness(b + 1)
                           ELSE IF TooBright(b, l) THEN oled_set_brightness(b - 1) ELSE <<>>)
     /\ UNCHANGED <<light, display, settings, samples, bus, task, battery, inputs>>

\* Mutant: a good reading does not start the count anew.
CountAllLow(voltage) == IF voltage = "low" THEN gauge.low + 1 ELSE gauge.low

CountLow(voltage) ==
  CASE voltage = "low" -> gauge.low + 1
    [] voltage = "good" -> 0
    [] voltage = "failed" -> gauge.low

\* A voltage is low only without USB.  Any of the other values may fail too.
battery_gauge_update(voltage, ok) ==
  /\ Now("scheduler", "read") /\ TaskOf("scheduler") = "gauge"
  /\ ~installed \/ voltage = "failed" => ~ok
  /\ ~installed => voltage = "failed"
  /\ gauge' = [gauge EXCEPT
       !.low = CountLow(voltage), !.healthy = ok,
       !.exponent = IF ok THEN 0 ELSE IF @ < MaxBackoff THEN @ + 1 ELSE @]
  /\ latch' = ~(voltage = "low" /\ gauge'.low >= PoweroffSamples)
  /\ voltages' = IF voltage = "failed" THEN voltages
                 ELSE SubSeq(<<voltage>> \o voltages, 1, PoweroffSamples)
  /\ Calls("scheduler", Again("gauge"))
  /\ UNCHANGED <<light, display, settings, samples, bus, task, inputs>>

ScheduleAgain ==
  /\ Now("scheduler", "again")
  /\ task' = [task EXCEPT ![TaskOf("scheduler")] = "scheduled"]
  /\ Done("scheduler")
  /\ UNCHANGED <<light, display, settings, samples, bus, battery, inputs>>

Scheduler ==
  \/ \E s \in Tasks : AbortDone(s) \/ StartCallback(s)
  \/ \E ok \in BOOLEAN : ambient_light_sensor_update(ok)
  \/ \E v \in {"low", "good", "failed"}, ok \in BOOLEAN : battery_gauge_update(v, ok)
  \/ on_ambient_light_level_event \/ Adjust \/ ScheduleAgain
  \/ \E t \in {"scheduler"} : Command(t) \/ Remember(t)

-------------------------------------------------------------------------------
(* The light, the power, and the start.                                     *)

LightChanges ==
  /\ inputs < MaxInputs
  /\ inputs' = inputs + 1
  /\ light' \in Lights
  /\ UNCHANGED <<display, settings, samples, bus, task, battery, todo>>

NoVoltages == [k \in 1..PoweroffSamples |-> "none"]

\* What is left after a reset, and the start with the settings st.
Started(st, found) ==
  [brightness |-> IF st.adaptive THEN MaxBrightness ELSE st.brightness,
   adaptive |-> st.adaptive,
   task |-> [s \in Tasks |-> IF s = "gauge" /\ ~found THEN "idle" ELSE "scheduled"],
   gauge |-> [initialized |-> found, healthy |-> found, exponent |-> 0, low |-> 0]]

Init ==
  \E st \in [brightness : Levels, adaptive : BOOLEAN], found \in BOOLEAN :
    LET start == Started(st, found)
    IN /\ light \in Lights /\ stored = st
       /\ controller = start.brightness /\ oled_brightness = start.brightness
       /\ adaptive = start.adaptive /\ samples = 0
       /\ installed = TRUE /\ released = FALSE
       /\ task = start.task /\ gauge = start.gauge /\ latch = TRUE
       /\ todo = [t \in Threads |-> <<>>] /\ inputs = 0
       /\ overlap = FALSE /\ late = FALSE /\ voltages = NoVoltages

\* The device is reset, or switched on again.
Reset ==
  \E found \in BOOLEAN :
    LET start == Started(stored, found)
    IN /\ inputs < MaxInputs
       /\ inputs' = inputs + 1
       /\ controller' = start.brightness /\ oled_brightness' = start.brightness
       /\ adaptive' = start.adaptive /\ samples' = 0
       /\ installed' = TRUE /\ released' = FALSE
       /\ task' = start.task /\ gauge' = start.gauge /\ latch' = TRUE
       /\ todo' = [t \in Threads |-> <<>>]
       /\ overlap' = FALSE /\ late' = FALSE /\ voltages' = NoVoltages
       /\ UNCHANGED <<light, stored>>

Next ==
  \/ BrighterPressed \/ DarkerPressed \/ display_settings_endisable_adaptive_brightness_run
  \/ i2c_bus_disable_run \/ ExitPressed
  \/ Buttons \/ Scheduler
  \/ LightChanges \/ Reset

Spec == Init /\ [][Next]_vars

\* Both threads run; each task has its turn, as the scheduler takes the earliest
\* deadline first; and not every reading of the light fails.
FairSpec ==
  /\ Spec
  /\ WF_vars(Buttons) /\ WF_vars(Scheduler)
  /\ SF_vars(StartCallback("light")) /\ SF_vars(ambient_light_sensor_update(TRUE))

-------------------------------------------------------------------------------
(* Properties.                                                              *)

Ops == {"command", "remember", "store", "toggle", "storeToggle", "apply", "stop", "start",
        "delete", "configure", "read", "adapt", "adjust", "again"}

TypeOK ==
  /\ light \in Lights /\ {controller, oled_brightness} \subseteq Levels
  /\ stored \in [brightness : Levels, adaptive : BOOLEAN] /\ samples \in 0..MinSamples
  /\ {adaptive, installed, released, latch, overlap, late} \subseteq BOOLEAN
  /\ task \in [Tasks -> {"idle", "scheduled", "aborted"}]
  /\ gauge \in [initialized : BOOLEAN, healthy : BOOLEAN, exponent : 0..MaxBackoff,
                low : 0..PoweroffSamples]
  /\ gauge.initialized => (gauge.healthy <=> gauge.exponent = 0)
  /\ \A t \in Threads : \A k \in 1..Len(todo[t]) : todo[t][k].op \in Ops
  /\ inputs \in 0..MaxInputs

Idle(t) == ~Busy(t)

\* The display has the brightness that the program knows of: the two are set
\* one after the other, without a lock, so two setters must not have met. And
\* without adaptive control it is the one the user has chosen, also when adaptive
\* control was just switched off and had changed it before; unless the sensor was
\* about to set it, and came last.
ChosenBrightness ==
  (\A t \in Threads : Idle(t)) =>
    /\ ~overlap => controller = oled_brightness
    /\ ~adaptive /\ ~late => oled_brightness = stored.brightness

\* A task that polls is not lost: it is scheduled, or its callback will schedule
\* it, whatever fails, and however the screen of the bus was entered and left
\* while the callback ran.
Polls(s) ==
  \/ task[s] = "scheduled"
  \/ \E k \in 1..Len(todo["scheduler"]) :
       todo["scheduler"][k] \in {StepOf("read", s), StepOf("again", s)}
KeepsPolling == latch /\ ~released /\ Idle("buttons") => \A s \in Tasks : Polled(s) => Polls(s)

\* The device does not switch itself off unless the last readings that did not
\* fail were all low.
OffWhenEmpty == ~latch => voltages = [k \in 1..PoweroffSamples |-> "low"]

\* In a light that does not change the brightness gets to where it suits, and
\* stays: up and down do not alternate.
Suits(b) == (b = MaxBrightness \/ ~TooDark(b, light)) /\ (b = 0 \/ light >= Mapping[b])
BrightnessSettles == <>[](Suits(controller) \/ ~adaptive \/ ~latch \/ released \/ overlap)
================================================================================
