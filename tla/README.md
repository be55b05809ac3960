# Verification of the OLED name tag firmware

TLA+ models of the firmware in `src/main/src`, model-checked with TLC and, for
the core, proved with TLAPS for every value of the constants. The source files
named below are in `src/main/src`.

## 1. The system

An ESP32-S3 (two cores) drives a 256x64 OLED that is worn as a name tag. The
program is C on FreeRTOS. Its threads:

| thread | created in | what it does |
|---|---|---|
| main, the render loop | `main.c` | waits for a notification or the time of the next frame, renders under the GUI lock, sends the frame to the display |
| `button_event_loop` | `buttons.c` | takes interrupts and button events from a queue; runs the menu's and the apps' button callbacks |
| ESP timer task | ESP-IDF | `debounce_timer_elapsed_cb`, `scheduler_timer_cb` |
| `scheduler` | `scheduler.c` | runs the callbacks of periodic tasks: battery, light sensor, charger, WLAN scan, charging screen |
| ESP event task | ESP-IDF | `sta_event_handler`, `ip_event_handler` |
| HTTP server | ESP-IDF, `httpd.c` | runs the handlers of `api.c` and the pages |
| HTTP client | `async_http_client.c` | a release check or an update |
| audio capture, button emulator | `microphone.c`, `main.c` | sums spectra; turns console input into button events |

### Components, their state and operations

| component | state | operations | hard because |
|---|---|---|---|
| Task scheduler (`scheduler.c`) | a sorted list of tasks, two pending lists, one ESP timer | schedule, abort; the thread; the timer callback | three parties, one of them without a lock and on another core |
| Lists (`list.h`) | circular, intrusive | append, delete, splice, iterate | nodes are self-linked when free; splicing is easy to get wrong |
| Buttons (`buttons.c`) | levels, deadlines, handlers, one queue, one ESP timer | interrupt, debounce, hold, dispatch, enable, disable, emulate | the queue is lossy and late, the timer callback waits for a mutex |
| Event bus (`event_bus.c`) | a list of handlers under a recursive lock | subscribe, notify | handlers run under the lock and take other locks |
| Menu (`menu.c`, `menutree.c`) | the selected entry, `in_app`, the persisted app | up, down, enter, exit, app exit | an app may end before, while or after it is started |
| GUI (`gui.c`, `main.c`) | a tree of elements with dirty, shown, hidden | invalidate, check render, show, hide, render | a change must reach the screen although flags cut the way up the tree |
| GIF player (`gifplayer.c`, `dirent_cache.c`, `api.c`) | the animation, its next frame, a cache of file names | set, next, previous, upload, delete, render | two locks in two orders; a file may vanish while it is played |
| WLAN (`wlan.c`, `wlan_station.c`, `wlan_ap.c`) | started, enabled, active, connected, scanning | enable, disable, reconfigure, scan, events | one radio, two components with a lock each |
| Display (`oled.c`, `display_settings.c`, `ambient_light_sensor.c`) | brightness, adaptive control | set, adapt | set by two threads, remembered outside the lock |
| Power (`battery_gauge.c`, `charger.c`, `charging_screen.c`, `power.c`, `i2c_bus.c`) | readings, counters, the power latch | periodic update, stop, start, power off | tasks that reschedule themselves are stopped from outside |
| Release check (`github.c`, `github_release_ota.c`, `async_http_client.c`, `ota.c`) | a request, a list of releases, their labels on the screen | start, abort, done, error | an abort races the completion |
| Text (`ring.c`, `template.c`, `cbjson.c`, `kvparser.c`, `httpd.c`) | parsers fed in pieces | feed, apply, register | boundaries between pieces, full buffers |
| Audio (`microphone.c`, `fft.c`) | sums of spectra | add, take and reset | shared between threads |

They interact by direct calls, by callbacks (buttons to menu to app and back),
by the event bus, by notifications of threads and by the scheduler; they share
the GUI tree under one non-recursive lock.

## 2. Plan

In this order, the most important behaviour first. Each module comes with an MC
module, its run, and the properties that its hazards in `PROJECT.json` call for.

| step | modules | state |
|---|---|---|
| 1 | `TaskTimers`, `LinkedLists`, `Scheduler`, `SchedulerProofs` | done |
| 2 | `Buttons`, `ButtonsProofs` | done |
| 3 | `Menu` (with `GuiProofs`): the menu, its apps, the power latch, the dispatch of button events | done |
| 4 | `Gui`, `GuiProofs`: the tree of elements and the render loop | done |
| 5 | `Locks`: the lock order of all threads, with the handlers of the event bus | done |
| 6 | `Wlan`, `WlanProofs`: station and access point over the one driver | done |
| 7 | `GifPlayer`, `DirentCache`, `GifPlayerProofs`: the player and the HTTP API | done |
| 8 | `Sensors`, `SensorsProofs`: brightness, light sensor, battery gauge, release of the I2C bus | done |
| 9 | `Ring`, `Templates`, `KvParser`, `Httpd`, `HttpdProofs`: pages and queries against their meaning | done |
| 10 | `CbJson`, `JsonDocument`, `JsonText`, `JsonProofs`: the streaming parser, for any text | done |
| 11 | `ReleaseCheck` (with `JsonProofs`): the asynchronous request, its abort, the parser's callbacks, the screen | done |
| 12 | `Painting`: clipping, scrolling and drawing, against the places of the elements | done |
| 13 | the options of templates and the includes of `httpd.c` | open |

Abstract specifications: task timers, which the scheduler implements; the
meaning of a page, of a query, and of a JSON document as it comes; what a frame
shows, pixel by pixel, from where the elements are.

## 3. Modules and runs

An MC module (`MC*.tla`) gives the constants their values, a cfg one run its
bounds. Actions carry the names of the C functions they model. Two runs expect a
violation: each checks one statement of a header or an assertion that the code
does not keep. `TypeOK` states the types of a module's state for its reader;
the runs check what the types do not say, and those of `Scheduler`, `Buttons` and
`Gui` are proved.

### Scheduler

`Scheduler.tla` has one action for every step of `scheduler_run` that another
thread can come between, one for each interface function, and three for the
ESP timer task. The lists are sequences (`LinkedLists.tla`): a node is in a
list at most once, so `LIST_DELETE` of a node that is in no list is no change,
as in the code. Where a stretch of `scheduler_run` reads `timer_running` more
than once or writes it before it starts the timer, it is one action
(`StopTimer`, `StartTimer`): the only other writer stores FALSE, and either
order leaves the same state. `TaskTimers.tla` is what callers may expect:
callbacks run never early, earliest deadline first, once per accepted deadline;
the last request wins; a request takes effect when the thread gets to it, so a
callback may still run after `scheduler_abort_task` returned.

| run | bounds | shows |
|---|---|---|
| `scheduler_tasks` | 2 tasks, 2 instants | membership of the lists, nothing due left behind, no lost wake-up; `Scheduler` implements `TaskTimers`; accepted tasks leave, requests settle |

Two tasks give a list an order and one task that another overtakes; two instants
order deadlines, put them in the past, and let the timer be armed, moved and
late. That a list may have a middle is no question left open: the safety
properties are proved for every set of tasks. Fairness is weak for the scheduler
thread, the ESP timer task and the clock: each is a FreeRTOS task of its own, or
time. Nothing is assumed of callers.

### Buttons

`Buttons.tla` goes from the pins to the queue of button events. The critical
sections under `button_mutex` are single actions; the timer callback is two,
because it reads the time before it waits for the mutex. `irq` holds an edge
that `button_isr` has not served; `Send` drops what does not fit the queue.
`lost` and the field `emulated` are history: the code has no such variables,
and no guard reads them.

| run | bounds | shows |
|---|---|---|
| `buttons_safety` | 1 button, a queue of 2, 7 instants of half a millisecond, 2 hold handlers, emulated presses | nothing forgotten, levels tracked, the order of events, holds long enough after rounding |
| `press_to_display`, part `buttons` | 2 buttons that share the timer, 6 instants | levels settle, holds are detected |

The queue of two overflows at once, as the real one of 128 does after a long
callback. `press_to_display` takes the steps of `PromptSpec`: what happened is handled before
the next tick (a millisecond is long against the handling), and pins come to
rest at `LastEdge`; time passes however often the pins changed (strong
fairness), interrupts and the two tasks are weakly fair.

### Menu

`Menu.tla` is `menu.c` and `menutree.c` with the apps' entering and leaving, the
charging screen, the power latch (`power.c`) and the dispatch of one event to
the handlers that were enabled when it came (`process_button_event`). C calls
nest, and the app's exit callback may come back into the menu before the call
that started the app has returned; so each thread has a stack of steps, and a
step that calls others puts theirs on top. There are two threads: main, which
starts the menu, and the button task. `Reset` may come at any step and leaves
only the default app in flash.

| run | bounds | shows |
|---|---|---|
| `menu_screens` | 5 apps of the kinds `menutree.c` has (toggles, named and unnamed screens, power off), 3 submenus, 12 presses, 2 resets | one screen with its handler, one list with its selected entry, the active app in flash |

Twelve presses reach every entry, and back, with apps entered and left on the
way. `raced` is history: the steps main had still to make when a press changed
something. The properties leave out two overlaps of main's start with presses,
and hold in all the others. Both need an app in flash that main starts.

All three leave out the presses before main has shown the list. A
reset between `on_app_entry` and `on_app_exit` (`menutree.c:714-723`) makes a
toggle the app that the next start runs; it returns at once, and `app_exit_cb`
shows the menu and enables its handler while the call that entered the app has
still to show the list and the root (`menu.c:230-242`: "We have entered an app,
menu shall not be shown"). A press that the button task takes in between enters
an app, and the menu is then shown over it.

`DefaultAppIsActive` leaves out besides the presses before main has called
`on_app_entry`. The app's `run` enables its buttons (`menu.c:67`); EXIT may then
come before main goes on: it shows the menu and stores that no app is active, and
main's `on_app_entry` (`menu.c:68-70`) stores the app afterwards. The menu is shown,
and the device starts with the app that was left. No text of the repository says
what flash has to hold, so it is no finding.

### GUI and render loop

`Gui.tla` has the flags of `gui.c` as sets of elements. `Chain` is what is
reached by parent pointers, `Subtree` by the lists of children, `Visible` what
is drawn: a picture is the look of each visible element, positions included.
Which pixels that makes is in `Painting.tla`. A change under `gui_lock` with its
check is one action, one without the lock two (`UnlockedChange`,
`gui_element_check_render`): menu, apps and the HTTP client change elements so.
The loop of `main.c` takes its notification, draws the tree, and sends the image.
The marks are taken away one after the other, each when its element's own
rendering returns, those of the children first (`ElementReturns`, `gui.c:80`) and
the root's last (`RenderReturns`): callers without the lock see them in between.
A change that they make during the drawing is in the frame or not, and elements
that it shows or hides are still drawn or not (`MeetsFrame`).

| run | bounds | shows |
|---|---|---|
| `press_to_display`, part `changes` | a container, a label that moves in it, a label that comes and goes; 1 caller without the lock; 3 changes | a visible change has a frame on its way; when changes end the display shows the tree |

`met` names callers whose change without the lock met the drawing of a frame, and
who have asked for no other since. Their check, during the drawing or after it, may find
that the mark of the element, or of one above it, is gone already: it then
returns (`gui.c:22`) and asks for nothing, while the frame need not have the change.
Such a request is lost, as the code stands. The properties leave it out, until the
next frame is drawn; a check that found the marks did ask, and counts.
Three levels give
the marks a middle element at which they may stop; three changes hide, change
and show again. The render loop and each caller's check are weakly fair: both
are tasks that run.

`Painting.tla` is what one frame is made of: each kind of element draws the part
of itself it is given, and containers, lists and marquees compute that part for
their children, on each axis, as `gui.c` does (`ContainerClip` and `ListClip`
cut in a different order). Texts are sequences of glyphs of some width
(`fonts.c`); a pixel is the element it belongs to and its place in it. `Shown`
says the same from the positions alone: which element covers a place of the
frame, whatever is above and below it. Between frames elements move, hide, and
are selected; what a list or a marquee remembers of its scrolling is state.

| run | bounds | shows |
|---|---|---|
| `press_to_display`, part `frame` | a frame of 6x4; a menu with two lists, of which entries move, overlap and are nearly as high as the list; an application with an animation, a container cut on any side, texts and a marquee | a frame shows each element at its place and nothing beside it, and the next one is due in time; the selected entry is in view |

Six by four pixels are enough to cut elements on every side, and to scroll both
ways. The two trees keep off five cases in which the code does otherwise than
`Shown`: a marquee or a list that is itself cut on the left, or whose entry is
higher than the list, has its children drawn beyond its room (`gui.c:263`); a text that is not aligned at
its start is aligned in what is left of a label that is cut (`gui.c:480`); a
list scrolls up and down in turn when an entry is as high as the list
(`gui.c:204`, `207`); an inverted entry is inverted though it is hidden; a
glyph that is cut on the left and wider than the room it is drawn into is cut too
short on the right, or by a length below zero (`fonts.c:121-129`). Inverted
elements, which no screen has, are left out. A marquee begins again before its
last column has come (`gui.c:550`), so the reference takes its position as given.

The run `press_to_display` holds three components side by side, of which the
initial state selects one: what a press makes of the pins, what a change makes of
the marks, what a frame makes of the tree. They share no variable; what connects
them are the callbacks, of which `Gui` assumes that they may change anything.

### Locks

`Locks.tla` is who takes which lock while holding which. A function is a
sequence of takes and gives, made of the sequences of the functions it calls;
`Notified` runs the handlers of a topic under the bus lock, the last subscribed
first. A branch that depends on the radio, the player or a sensor is a `Maybe`.
`Entry` lists what each of the six threads may run.

| run | bounds | shows |
|---|---|---|
| `locks_quiet` | the entry points that take locks in one order, all six threads | no circle of waiting threads |
| `locks_animation` | render loop, buttons, HTTP upload, scheduler | the player and the renderer wait for each other (finding) |

`locks_quiet` leaves out what loads an animation, sets up the station or changes
the serial number. Two further circles exist, of the same form as the one in
`locks_animation`, and can be seen by adding their entry points to
`MCLocksAnimation.cfg`: the station's screen takes the station's lock under the
GUI's (`wlan_settings.c:172-174`) while the station notifies handlers that take
the GUI's under its own (`wlan_station.c:237`, `297`); and the access point's
handler of the vendor event takes the access point's lock under the bus lock
(`wlan_ap.c:170`), which is held where the bus is notified (`156`, `163`).

### WLAN

`Wlan.tla` is the access point and the station, each under its own lock, over
the driver they share. An operation is a sequence of steps, one for each access
to the driver or to the other component's variables. The buttons' task switches the
components on and off (`wlan_settings.c:334-360`) and makes a new pre-shared key;
the HTTP server sets the station up anew, or, with a new serial number, restarts the access
point (`api.c:221-253`). Each task is in one operation at a time, and each component
in one, by its lock. The driver is modelled from
its use: stopping it, or taking the station out of its mode, ends a scan and a
connection, and it reports both with events; setting the configuration of an
interface that is not in the mode fails, which ends the program through
`ESP_ERROR_CHECK`.

| run | bounds | shows |
|---|---|---|
| `wlan_radio` | 2 operations of either task that do not overlap, any events | the driver does what is switched on; the station knows whether it is connected, keeps trying, and connects in range |
| `wlan_concurrent` | 2 operations, which may overlap | a mode computed by one is set after the other's (finding) |

Two operations are enough to switch one component while the other's scan,
connection or events are under way. What holds in `wlan_radio` is said of
operations that do not overlap only. In `wlan_concurrent` the HTTP server restarts the
access point while the buttons enable the station, whose mode was computed before
the access point was enabled again and is set after it is. Fairness: the tasks run, the driver ends its
scans; and strong fairness says what "in range" means: a scan that is made over
and over finds the network, a connection that is tried over and over succeeds.
The pre-shared key is there always; without one, for want of memory at power-on,
`wlan_ap.c:154` leaves the access point enabled and not active.

### GIF player

`GifPlayer.tla` is the player, the animation handlers of `api.c` and the cache
of names; `DirentCache.tla` has the buffer of NUL-terminated names with its
iterators as they compute (looking for NULs). `todo` is what the holder of the
player's lock has still to do; the renderer's two steps
(`gui_gifplayer_render`, `gifplayer_frame_played`) come between. Files are
absent, broken, still or animated. An upload may fail at any time; a reset may
come at any step and leaves the directory, the files and the default animation.
`unlisted` is history: files created by an upload that failed before the cache
was refreshed.

| run | bounds | shows |
|---|---|---|
| `gifplayer_files` | 3 names, one the beginning of another; 3 operations or resets | what plays is whole and is what a reset will play; the list is the directory's; the buttons go round it |

Deadlock is not checked here: the two locks may block each other (`Locks`).
`FileIsWhole` has an exception, which is the code's: an upload cuts the file to
nothing before it stops the playback (`api.c:46`). What the run does not judge,
since no text of the repository does: after a frame without a duration
`next_frame_deadline` stays -1, and an animation that is chosen then plays no
frame.

### Brightness and sensors

`Sensors.tla` has the two threads that set the brightness, the button task and
the scheduler, each with the steps it has still to make; what one step does is
what the other thread cannot come between: sending the brightness (under the
display's lock), remembering it, storing it, reading whether control is
adaptive. The tasks of the light sensor and the battery gauge are in the states
that `TaskTimers` promises: a task that was aborted while its callback runs
runs no more unless it is scheduled again. Releasing the I2C bus stops both and
removes the sensor; a reading fails without it, and may fail with it.

| run | bounds | shows |
|---|---|---|
| `sensors_display` | brightness 0 to 2 with the first three values of the table, light below, in and above the hysteresis band, 1 sample, 2 low readings, 1 step of back-off, 2 inputs | display, program and flash agree on the brightness; polling survives failures and the release of the bus; the device switches off only for low readings in a row (of those that did not fail); the brightness settles |

Light 43 lies inside the hysteresis of one level, 10 and 60 outside all: the
brightness must rise, fall and stay. Two inputs are two presses, or one and a
reset. `overlap` and `late` are history: two setters that met, and a sensor that
set the brightness after adaptive control was switched off; the code has no lock
against either (`oled.c:195`, `display_settings.c:101`), and the properties say
what holds without them. Fairness: both threads are FreeRTOS tasks; the light
task has its turn (strong fairness: the scheduler runs the earliest deadline
first), and of its readings not all fail.

### Pages and queries

`Templates.tla` parses a page once through the ring of `ring.c` (`Ring.tla`, the
offsets as the code computes them) and renders it by reading it again.
`KvParser.tla` parses a query where it stands: keys and values are pointers into
it, decoded in place, each ended by a NUL. `Httpd.tla` composes them as
`httpd.c` does: pages are parsed at start-up, where a bad one ends the program;
then one task serves requests, one after the other and for ever.

| run | bounds | shows |
|---|---|---|
| `httpd_requests` | every page of at most 5 pieces, every query of at most 6 | the ring holds the rest of what was read; pages and queries are answered by their meaning |

Pieces are what tells pages apart: two identifiers of different length, the
terminator and half of it, a byte, and arguments that are too long; and for
queries two letters, the separator, the assignment, an escape, and a percent sign
and a digit alone, so that escapes are cut off at the end of a key, of a value and
of the query, or are followed by anything. The constants
are scaled down (arguments of 3 for 200, a ring of 13, a buffer of 4), so that a
page of 20 bytes wraps the ring, with identifiers and terminators across its end
and across two readings. `Meaning` and `Expected` are written from the text
alone. A page and a query share no state, so a behaviour has one or the other.

`query_string_decode_value` decodes each key and value in place, and refuses an escape
with nothing behind it (`httpd.c:530`, `DecodeTurn`). That check is of two bytes
where three are needed: an escape with one digit before a token takes the token for
the other digit, and what is moved then is -1 bytes (`httpd.c:534-537`), that is, all of the
memory; in the model the program ends there and starts again (`Restart`). The last
text of a query has the query's NUL in its length, so at the end of the query an
escape with nothing behind it does the same, and one with a digit takes the NUL for the
other. What `hex_to_byte` makes of characters that are no digits is a value
like any other. `+`, which becomes a space, is left out.

`ParametersAsSent` leaves out three cases, in which the code does otherwise. An escape
with one digit at the end of the query takes the NUL for its second digit. A query
with an escape that makes the copy of -1 bytes gets no answer; the property
says that no other does. And of
`ssid=&psk=x` it takes the value of `ssid` to be `ssid`. The separator right
behind the assignment is found in the same turn of the loop
(`kvparser.c:164-172`), before `last_token` has moved behind the key. The check
for an empty parameter (`api.c:226`) then does not see it. No text of the
repository says what an empty value means, so it is no finding.

### Release check and JSON parser

`CbJson.tla` is the parser of `cbjson.c`, a character at a time: the stack of
entries that it reallocates, the lists of paths that hang on the entries, the
literal it is in, the array index, every error and every assertion. What the
stack does to a list whose head moves with it is modelled by its outcome: the
list is lost, and going back to it is undefined. `JsonText.tla` gives it any
text; `JsonProofs.tla` proves about that (section 4). `JsonDocument.tla` says
what a document is, as it comes, token by token, and what releases it publishes;
it knows nothing of the parser.

`ReleaseCheck.tla` composes the parser with the callbacks of `github.c`, the
request of `async_http_client.c` as a task, and the screen of
`github_release_ota.c` with the user who leaves it. The HTTP client of ESP-IDF is
external: it connects or not, hands over text, goes on after an error of the
parser, as it discards what the callback for data returns, and ends with or
without an event for the error. `trusted` is history: the server has so far sent
a document, and memory has sufficed. A task that returns, or an assertion that
fails, restarts the system.

| run | bounds | shows |
|---|---|---|
| `release_check` | 5 levels of nesting with a stack of 4 (for 8), 2 elements of an array and of the list of releases, strings of 2, keys of one letter | no assertion of the parser fails; the releases are those published; what is shown exists; in the menu the request is over; the user gets back to the menu |

Five levels let the stack grow, in the middle of a document of the form that the
paths look for. Two elements tell the first of an array from the next. The server
sends a list of releases, or, before it is deep in one, any text. Two
abstractions shorten the state: the parser is as new when a request is over, and
the memory of the task is taken for the next one when the task has gone. One case
is excepted (`aborted`): a request that is aborted when its list is
already shown reports an error then, which frees the releases that the labels
name. Leaving then removes no label from the screen, as there is no release left to
count them by (`github_release_ota.c:33-42`), and frees them all: the freed labels stay
in `app_container` (`freed_child`), whose list is gone through whenever it is drawn. The
system may restart there (`FreedIsDrawn`) or go on, and until it does
`ShownReleasesExist` claims nothing of any request. A request that was never started, for want of memory, is waited for without
end (`async_http_client.c:101`); so deadlock is not checked, and
`ExitLeadsToMenu` excepts it. Keys that begin like the one looked for are not
distinguished from it by `cbjson.c:609`, and the keys here have one letter, so
that none begins like another. Fairness: the task runs and its transfers end
(the client has a timeout), and the buttons' task looks again whether the request
is done.

## 4. Proofs

All are checked by `tlapm` for every value of the constants, from the named
assumptions of the modules alone; for `Wlan` there is one hypothesis more, that
no two operations overlap. Liveness is checked by TLC only, and so is all
of `Locks` (its run is complete: the threads named in the configuration, and no
bound; the property rests on which threads these are, as no order of the locks
does), what queries mean and which releases a document publishes, and
`Painting`: the meaning of a query, of a text and of the tree of elements is
defined by recursion over the data. So is the meaning of a page, which is proved:
where an induction over data is needed, it is made from the well-foundedness of
the numbers (the least one that fails), as the library's theorems about induction
cannot be used.

**Scheduler** (`SchedulerProofs.tla`, after facts about sorted lists): types, the order of the list of tasks, the three safety
invariants of the run, and the refinement of `TaskTimers`. The inductive
invariant `SchedulerInv` adds two parts that the properties need and do not say.
`ThreadInv` ties the place of the scheduler thread to what it has established
(what it has emptied stays empty while it holds the lock; what is not due is
still not due until the lists change). `WakeupInv` says why a wake-up is on its
way: while tasks are accepted and the thread is not between releasing the lock
and arming the timer, the timer is armed or its callback is running.

**Buttons** (`ButtonsProofs.tla`): types; the mark of the timer agrees with the
timer and its callback (`TimerMark`); a level to be debounced or a hold to be
detected always has the timer (`NothingIsForgotten`). The events in the queue
keep the order in which things happened (`EventsKeepOrder`), a level that the
program has taken over is that of the last event sent or lost
(`LevelsAreTracked`), and a hold is announced when the button was down for as
long as the handler asked (`HoldsAreLongEnough`).

**WLAN** (`WlanProofs.tla`), for any number of operations and of events that
wait, under the hypothesis `Callers = 1`, that no two operations overlap: if they may, the run
`wlan_concurrent` refutes `ConfigIsAccepted`. `RadioIsRight` and
`ConfigIsAccepted` need `Controlled`: an operation that has steps left has one of
the known remainders, and at each of them the driver is as far as the steps
before have brought it (`Phase`). `ConnectionIsKnown` and `TheStationTries` need
`Station`: the last event that waits tells the link (`Known`), a link or a scan
needs a driver that operates the station, and what is enabled and has neither
has a task, a callback or an event to come.

**Brightness and sensors** (`SensorsProofs.tla`): `BrightnessIsChosen`,
`PollingGoesOn` and `OffOnlyWhenEmpty`, for any mapping of light to brightness
and any number of inputs. As two threads interleave, the invariant says what
each has still to do: the remaining steps are the end of one of the operations,
and what they will write is what the other may already see.

**GUI** (`GuiProofs.tla`): types; `ChangesAreNoticed`, for any tree and any
number of callers and changes. `ChangeNoticed` speaks of what is on the screen,
and of the changes that no drawing met (`met`);
the strengthening `Noticed` adds what the marks say of the frame being drawn.
The lemma `ChangeRequests` shows that each kind of change, where it can be seen,
leaves marks that reach the root, `RequestsKept` that a caller's check is not
spoilt by other changes.

**Menu** (also `GuiProofs.tla`): the three invariants of its run, `OneScreenIsShown`,
`MenuIsRight` and `StartsAsItWas`, with the overlaps of a start left out that they leave
out, for any menu tree, any list of handlers and any
number of presses and resets. They speak of moments when nothing is under way;
the inductive invariant `MenuInv` says what holds in between. A thread that is at
work (`AtWork`) has one of ten remainders left, and each goes with what is shown,
selected and stored; `Places` sorts them by the next step, and a lemma for each
kind of step says which follows. Until main has finished, the button task has
only calls left of handlers that are enabled, and no screen is there whose handler
could start anything, but where main has one last thing to do: to note its app
(`ButtonsWork`, the note may be late) or to show the list (`Wild`, after which
only that the calls go on is known until the next reset). The calls of an event
are made by a loop over the handlers, a recursive function: that it is defined
and calls enabled handlers only is by induction (`InductionOnSet`, from the
well-foundedness of the numbers).

**GIF player** (`GifPlayerProofs.tla`): what plays, once shown, is what a reset
plays (`PlayedAnimationIsStored`, from the types alone); what plays is whole
(`PlayedFileIsWhole`). The second needs `Remains`: what the holder of the lock
has still to do is one of the known endings of an operation, and before it
writes or deletes a file that file is there and not the one playing.
`ListShowsDirectory` needs besides that the list is behind the directory only
where the update is all that remains (`ListOrUpdate`), and lemmas about `Without`:
a file that is created and not listed yet leaves the listed names as they were
(`WithoutInserted`).

`ButtonsVisitAll` is about the buffer of names, for any names and any number of
files. `RingIsWritten` says where `iterate_dir` has put each name and its NUL;
from that, `TerminatorOf` and `BackFrom` say what looking for a NUL forwards and
backwards finds, `Iterators` that the iterators go from place to place and stop
at both ends, and `FoundAtPlace` that the loop of `find_entry` stops at the place
of its name. `FlattenSeq`, `Without` and that loop are recursive functions: that
they are defined is by induction (`ChainExists`, `LoopEnds`: each turn goes to
the right).

**Pages** (`HttpdProofs.tla`): while a page is parsed, the ring has what was read
of it and not yet passed (`RingHoldsTheRest`); and what is sent for a page is the
page with each template expanded, or it is refused, and then for a template that
does not end or has arguments that are too long (`PagesAreRendered`): for all
pages, identifiers, terminators and lengths. Assumed of the identifiers is that none is empty
or the beginning of another, and of the terminator that it is not empty
(`TemplatesAssumption`; `httpd.c:592` and `596` register two, `{{include` and
`{{variable`). Three groups of lemmas come first. About the ring:
`AdvanceReadReadsOn` and `StoringAppends` say that reading on and storing keep the
order of the bytes wherever the end of the ring falls. About the meaning:
`MeantIs` says that its recursion defines a function, and `RefusedIsBad` and
`UnderstoodIsGood` when a page is bad. About the slices: `Parsed` says what the
slices made so far have to do with the meaning, `Rendering` what has been sent,
and there is a lemma for each way in which they grow. The inductive invariant
`PInv` joins them: the ring byte by byte (`HInv`); what parsing relies on
(`ParseInv`): when more is to be read the ring has space, so that a reading of
nothing is the end of the page (`ReadMorePInv`), a template is found
wherever it begins (`Scanned`) and ended at its first terminator (`FirstIsEnd`), and one that is
refused has none within reach (`NoneIsRefused`); and what is rendered (`RenderInv`).

**JSON parser** (`JsonProofs.tla`): no text makes an assertion of the parser fail
(`NoTextFailsAssertions`), for any paths, characters, size of the stack and
failure of memory. The assumption on the paths (`PathsAssumption`) is what
`cbjson_path` makes of any string. The heart of the invariant `Inv` is
`PathsInPlace`: a path is in a list only where it goes down nearly as far as the
container of the list, so that it can go back up wherever the document does
(`Pop`), and down if it is taken to go on (`Store`). "Nearly" is for callbacks
that fail when an object begins: the parser is down in the object then, and its
paths are not (`NotGoneDown`). That is made up for when the object ends, unless
an object right inside it fails as well; so behind such an error the theorem asks
that the paths look for no object right inside another (`ObjectsApart`).
It cannot do without: with the paths `""`, `"."` and `".."` the text `{{}{}` makes
`cbjson.c:286` fail, when the callbacks of the first and of the third object
fail. The code that exists has one path that looks for an object (`github.c:139`).
A list that the growing stack has lost (`cbjson.c:251`) is undefined once it is
reached (`UNDEFINED`), which ends what is proved.

**Release check** (also `JsonProofs.tla`): no text panics (`NoTextPanics`): the
client hands over piece after piece, whatever the parser said of the last one,
and the parser stays where the invariant above has it until a list is reached
that was lost when the stack grew. This is for any length of a piece (`Text`, by
induction over its characters) and needs that the paths of `github.c` look for
releases only (`ObjectsAssumption`, which the run evaluates). And whatever the
parser makes of the text, nothing is left of the application in the menu (`NothingIsLeft`), and what is
shown exists (`WhatIsShownExists`). The first needs that `done` comes only behind
the last callback, with the release under construction freed or in the list
(`NothingCurrent`); the second, what has been reported at each place of the
task (`ReportsMade`), so that a list is reported at most once, labels are
those of the list reported (`LabelsOfReleases`), and only after an aborted request are
labels left behind (`FreedIfAborted`).

## 5. What is not modelled

See `PROJECT.json`, "components", for each part and the reason; hazards without
a property say why. Times are instants of a
bounded clock; the 64-bit microsecond counter does not wrap in the life of the
device. Contexts and function pointers that never change for a task or a handler
are left out. Running out of memory is modelled in the JSON parser and the release
check, and left out elsewhere.
