---------------------------------- MODULE Wlan ---------------------------------
(***************************************************************************)
(* wlan.c, wlan_ap.c and wlan_station.c: the access point and the station, *)
(* each under a lock of its own, share one driver, which has to be stopped *)
(* and started again whenever one of them is switched.  The station looks  *)
(* for its network with a task of the scheduler and connects when a scan   *)
(* has found it; the driver reports what happened with events.             *)
(*                                                                         *)
(* A function that holds a lock is a sequence of steps, one for each       *)
(* access to the driver or to a variable of the other component.  How long *)
(* the station waits before it scans, the notifications of the event bus   *)
(* (see Locks) and the list of networks are left out, and so is a want of  *)
(* memory: there is always a PSK.                                          *)
(***************************************************************************)
EXTENDS Integers, Sequences, FiniteSets

CONSTANTS
  Callers,              \* 1: the buttons' task and the HTTP server never call at the same
                        \* time, 2: they may
  MaxCalls              \* bounds the number of operations

ASSUME WlanAssumption == Callers \in {1, 2} /\ MaxCalls \in Nat

Components == {"ap", "station"}
Tasks == {"buttons", "http"}

VARIABLES
  enabled,              \* wlan_ap_enabled, sta_enabled
  wlan_started, wlan_ap_active,
  sta_connected, scan_in_progress,
  stored,               \* in flash: the components to enable at power-on
  todo, mode,           \* of an operation: its steps, the mode it will set
  scan_task,            \* "aborted": the scheduler has not seen the abort yet
  scan_cb,              \* where the task's callback is
  radio,                \* the driver
  events,               \* posted by the driver
  aborted,              \* an ESP_ERROR_CHECK has failed
  by, calls             \* which task called the operation; how many there were

switches == <<enabled, wlan_started, wlan_ap_active>>
station == <<sta_connected, scan_in_progress>>
calling == <<by, calls>>
operation == <<stored, todo, mode, calling>>
scan == <<scan_task, scan_cb>>
driver == <<radio, events, aborted>>
vars == <<switches, station, operation, scan, driver>>

Busy(c) == todo[c] # <<>>
Now(c) == Head(todo[c])
Idle == \A c \in Components : ~Busy(c)
Enabled == {c \in Components : enabled[c]}

-------------------------------------------------------------------------------
(* The driver.                                                              *)

Operates(c) == radio.running /\ c \in radio.mode

\* The station's interface goes down: what it was doing ends, and is reported.
Lost ==
  (IF radio.link = "down" THEN <<>> ELSE <<"disconnected">>)
    \o (IF radio.scanning THEN <<"scanDone">> ELSE <<>>)
Down(r) == [r EXCEPT !.link = "down", !.scanning = FALSE]

esp_wifi_stop ==
  /\ radio' = [Down(radio) EXCEPT !.running = FALSE]
  /\ events' = events \o Lost

esp_wifi_set_mode(m) ==
  \/ /\ "station" \in m
     /\ radio' = [radio EXCEPT !.mode = m]
     /\ UNCHANGED events
  \/ /\ "station" \notin m
     /\ radio' = [Down(radio) EXCEPT !.mode = m]
     /\ events' = events \o Lost

DriverScanDone ==
  /\ radio.scanning
  /\ radio' = [radio EXCEPT !.scanning = FALSE]
  /\ events' = Append(events, "scanDone")

DriverConnected ==
  /\ radio.link = "connecting"
  /\ radio' = [radio EXCEPT !.link = "up"]
  /\ events' = Append(events, "connected")

\* The connection could not be made, or has been lost.
DriverDisconnected ==
  /\ radio.link # "down"
  /\ radio' = [radio EXCEPT !.link = "down"]
  /\ events' = Append(events, "disconnected")

Driver ==
  /\ DriverScanDone \/ DriverConnected \/ DriverDisconnected
  /\ UNCHANGED <<switches, station, operation, scan, aborted>>

-------------------------------------------------------------------------------
(* The operations, by the steps they take with the lock held.               *)

wlan_stop == <<"stop", "stopped">>
\* Mutant: the mode is not set anew.
RestartOnly == <<>>
wlan_reconfigure == <<"reconfigure", "setMode">>
wlan_start == <<"start", "started">>
wlan_restart == wlan_stop \o wlan_reconfigure \o wlan_start

enable_ap_ ==
  <<"enable">> \o wlan_stop \o wlan_reconfigure \o <<"setConfig">> \o wlan_start
    \o <<"active">>
disable_ap_ == <<"disable">> \o wlan_restart \o <<"inactive">>

wlan_station_enable_ ==
  <<"enable">> \o wlan_stop \o wlan_reconfigure \o <<"setConfig">> \o wlan_start \o <<"scan">>
wlan_station_disable_ ==
  IF enabled["station"] THEN <<"disable">> \o wlan_restart \o <<"scanEnded">> ELSE <<>>

\* A task is in one operation at a time, and so is a component, by its lock.
Free(task, c) ==
  /\ ~Busy(c) /\ \A d \in Components : Busy(d) => by[d] # task
  /\ Callers = 1 => Idle

Call(task, c, steps) ==
  /\ Free(task, c) /\ calls < MaxCalls
  /\ calls' = calls + 1 /\ by' = [by EXCEPT ![c] = task]
  /\ todo' = [todo EXCEPT ![c] = steps]
  /\ UNCHANGED <<switches, station, stored, mode, scan, driver>>

\* wlan_ap_endisable_run, of the menu.
wlan_ap_endisable ==
  Call("buttons", "ap", IF enabled["ap"]
                        THEN (IF wlan_ap_active THEN disable_ap_ ELSE <<>>) \o <<"storeOff">>
                        ELSE (IF wlan_ap_active THEN <<>> ELSE enable_ap_) \o <<"storeOn">>)

\* wlan_ap_generate_new_psk, of a screen, and on_vendor_event with a new serial number,
\* of the HTTP server; for an access point that is not active both only change what
\* it will be enabled with.
restart_ap ==
  /\ wlan_ap_active
  /\ \E task \in Tasks : Call(task, "ap", disable_ap_ \o enable_ap_)

\* wlan_station_endisable_run, of the menu.
wlan_station_endisable ==
  Call("buttons", "station", IF enabled["station"] THEN wlan_station_disable_ \o <<"storeOff">>
                             ELSE wlan_station_enable_ \o <<"storeOn">>)

\* wlan_station_set_ssid and wlan_station_set_psk, of the HTTP server, with the value
\* that is set already: any other is only remembered.
wlan_station_reconfigure_ ==
  /\ enabled["station"]
  /\ Call("http", "station", wlan_station_disable_ \o wlan_station_enable_)

-------------------------------------------------------------------------------
(* The scan task.                                                           *)

schedule_scan == scan_task' = "scheduled"
abort_scan == scan_task' = IF scan_task = "idle" THEN "idle" ELSE "aborted"

schedule_scan_conditional ==
  IF enabled["station"] /\ ~sta_connected' THEN schedule_scan ELSE UNCHANGED scan_task

\* The scheduler gets to the abort, or to the callback first.
AbortDone ==
  /\ scan_task = "aborted"
  /\ scan_task' = "idle"
  /\ UNCHANGED <<switches, station, operation, scan_cb, driver>>

scan_due ==
  /\ scan_task # "idle" /\ scan_cb = "none"
  /\ scan_task' = "idle" /\ scan_cb' = "called"
  /\ UNCHANGED <<switches, station, operation, driver>>

CanScan == Operates("station") /\ radio.link # "connecting"

\* wlan_station_start_scan.
wlan_station_start_scan ==
  /\ scan_cb = "called" /\ ~Busy("station")
  /\ IF scan_in_progress THEN scan_cb' = "none" /\ UNCHANGED <<scan_in_progress, radio>>
     ELSE /\ scan_in_progress' = CanScan
          /\ scan_cb' = IF CanScan THEN "none" ELSE "failed"
          /\ radio' = [radio EXCEPT !.scanning = CanScan]
  /\ UNCHANGED <<switches, sta_connected, operation, scan_task, events, aborted>>

\* Mutant: a scan that could not be started is not tried again.
ScanGivenUp ==
  /\ scan_cb = "failed"
  /\ scan_cb' = "none"
  /\ UNCHANGED <<switches, station, operation, scan_task, driver>>

\* The rest of the callback, without the lock: the station may be connected, or
\* disabled, between the check and the call.
scan_failed ==
  /\ scan_cb = "failed"
  /\ scan_cb' = IF enabled["station"] /\ ~sta_connected THEN "retry" ELSE "none"
  /\ UNCHANGED <<switches, station, operation, scan_task, driver>>

scan_retry ==
  /\ scan_cb = "retry"
  /\ scan_cb' = "none"
  /\ schedule_scan
  /\ UNCHANGED <<switches, station, operation, driver>>

-------------------------------------------------------------------------------
(* The steps of an operation.                                               *)

Done(c) == todo' = [todo EXCEPT ![c] = Tail(@)]
Skip(c) == todo' = [todo EXCEPT ![c] = Tail(Tail(@))]

SetEnabled(c) ==
  /\ Now(c) \in {"enable", "disable"}
  /\ enabled' = [enabled EXCEPT ![c] = (Now(c) = "enable")]
  /\ IF c = "station" THEN abort_scan /\ sta_connected' = FALSE
     ELSE UNCHANGED <<scan_task, sta_connected>>
  /\ Done(c)
  /\ UNCHANGED <<wlan_started, wlan_ap_active, scan_in_progress, stored, mode, calling, scan_cb,
                 driver>>

Stop(c) ==
  /\ Now(c) = "stop"
  /\ IF wlan_started THEN esp_wifi_stop /\ Done(c) ELSE Skip(c) /\ UNCHANGED <<radio, events>>
  /\ UNCHANGED <<switches, station, stored, mode, calling, scan, aborted>>

SetStarted(c) ==
  /\ Now(c) \in {"stopped", "started"}
  /\ wlan_started' = (Now(c) = "started")
  /\ Done(c)
  /\ UNCHANGED <<enabled, wlan_ap_active, station, stored, mode, calling, scan, driver>>

Reconfigure(c) ==
  /\ Now(c) = "reconfigure"
  /\ IF Enabled # {} THEN mode' = [mode EXCEPT ![c] = Enabled] /\ Done(c)
     ELSE Skip(c) /\ UNCHANGED mode
  /\ UNCHANGED <<switches, station, stored, calling, scan, driver>>

SetMode(c) ==
  /\ Now(c) = "setMode"
  /\ esp_wifi_set_mode(mode[c])
  /\ mode' = [mode EXCEPT ![c] = {}]
  /\ Done(c)
  /\ UNCHANGED <<switches, station, stored, calling, scan, aborted>>

\* The driver does not accept the configuration of an interface that is not of
\* its mode.
SetConfig(c) ==
  /\ Now(c) = "setConfig"
  /\ aborted' = (c \notin radio.mode)
  /\ Done(c)
  /\ UNCHANGED <<switches, station, stored, mode, calling, scan, radio, events>>

Start(c) ==
  /\ Now(c) = "start"
  /\ IF Enabled # {} THEN radio' = [radio EXCEPT !.running = TRUE] /\ Done(c)
     ELSE Skip(c) /\ UNCHANGED radio
  /\ UNCHANGED <<switches, station, stored, mode, calling, scan, events, aborted>>

SetActive ==
  /\ Now("ap") \in {"active", "inactive"}
  /\ wlan_ap_active' = (Now("ap") = "active" /\ wlan_started)
  /\ Done("ap")
  /\ UNCHANGED <<enabled, wlan_started, station, stored, mode, calling, scan, driver>>

EndScan ==
  /\ Now("station") \in {"scan", "scanEnded"}
  /\ scan_in_progress' = FALSE
  /\ IF Now("station") = "scan" THEN schedule_scan ELSE UNCHANGED scan_task
  /\ Done("station")
  /\ UNCHANGED <<switches, sta_connected, stored, mode, calling, scan_cb, driver>>

Store(c) ==
  /\ Now(c) \in {"storeOn", "storeOff"}
  /\ stored' = [stored EXCEPT ![c] = (Now(c) = "storeOn")]
  /\ Done(c)
  /\ UNCHANGED <<switches, station, mode, calling, scan, driver>>

Operation(c) ==
  /\ Busy(c)
  /\ \/ SetEnabled(c) \/ Stop(c) \/ SetStarted(c) \/ Reconfigure(c) \/ SetMode(c)
     \/ SetConfig(c) \/ Start(c) \/ Store(c)
     \/ c = "ap" /\ SetActive
     \/ c = "station" /\ EndScan

-------------------------------------------------------------------------------
(* The events, with the station locked.                                     *)

Event(e) ==
  /\ events # <<>> /\ Head(events) = e /\ ~Busy("station")
  /\ events' = Tail(events)

\* connect_to_ap_, if the network was found.
handle_scan_done_event(found) ==
  /\ Event("scanDone")
  /\ scan_in_progress' = FALSE
  /\ UNCHANGED sta_connected
  /\ radio' = IF found /\ ~sta_connected /\ Operates("station") /\ radio.link = "down"
              THEN [radio EXCEPT !.link = "connecting"] ELSE radio
  /\ schedule_scan_conditional
  /\ UNCHANGED <<switches, operation, scan_cb, aborted>>

handle_station_connected_event ==
  /\ Event("connected")
  /\ sta_connected' = TRUE
  /\ abort_scan
  /\ UNCHANGED <<switches, scan_in_progress, operation, scan_cb, radio, aborted>>

\* Mutant: a station whose connection was lost believes it has one.
StillConnected ==
  /\ Event("disconnected")
  /\ UNCHANGED sta_connected
  /\ schedule_scan_conditional
  /\ UNCHANGED <<switches, scan_in_progress, operation, scan_cb, radio, aborted>>

\* Mutant: a lost connection is not looked for again.
DisconnectedForGood ==
  /\ Event("disconnected")
  /\ sta_connected' = FALSE
  /\ UNCHANGED <<switches, scan_in_progress, operation, scan, radio, aborted>>

handle_station_disconnected_event ==
  /\ Event("disconnected")
  /\ sta_connected' = FALSE
  /\ schedule_scan_conditional
  /\ UNCHANGED <<switches, scan_in_progress, operation, scan_cb, radio, aborted>>

Init ==
  /\ enabled \in [Components -> BOOLEAN]
  /\ wlan_started = (Enabled # {}) /\ wlan_ap_active = enabled["ap"]
  /\ sta_connected = FALSE /\ scan_in_progress = FALSE
  /\ stored = enabled
  /\ todo = [c \in Components |-> <<>>] /\ mode = [c \in Components |-> {}]
  /\ scan_task = (IF enabled["station"] THEN "scheduled" ELSE "idle") /\ scan_cb = "none"
  /\ radio = [running |-> wlan_started, mode |-> Enabled, link |-> "down", scanning |-> FALSE]
  /\ events = <<>> /\ aborted = FALSE /\ calls = 0 /\ by = [c \in Components |-> "buttons"]

Scheduler == AbortDone \/ scan_due \/ wlan_station_start_scan \/ scan_failed \/ scan_retry

Events ==
  \/ \E found \in BOOLEAN : handle_scan_done_event(found)
  \/ handle_station_connected_event
  \/ handle_station_disconnected_event

Caller ==
  wlan_ap_endisable \/ restart_ap \/ wlan_station_endisable \/ wlan_station_reconfigure_

Next ==
  /\ ~aborted
  /\ Driver \/ Scheduler \/ Events \/ Caller \/ \E c \in Components : Operation(c)

Spec == Init /\ [][Next]_vars

\* The tasks run, the driver ends its scans, and a network that is in range is
\* found, and accepts the station, if that is tried over and over.
FairSpec ==
  /\ Spec
  /\ WF_vars(Next /\ Scheduler) /\ WF_vars(Next /\ Events)
  /\ \A c \in Components : WF_vars(Next /\ Operation(c))
  /\ WF_vars(Next /\ Driver /\ DriverScanDone)
  /\ SF_vars(Next /\ handle_scan_done_event(TRUE))
  /\ SF_vars(Next /\ Driver /\ DriverConnected)

-------------------------------------------------------------------------------
(* Properties.                                                              *)

TypeOK ==
  /\ enabled \in [Components -> BOOLEAN] /\ stored \in [Components -> BOOLEAN]
  /\ {wlan_started, wlan_ap_active, sta_connected, scan_in_progress, aborted}
       \subseteq BOOLEAN
  /\ \A c \in Components : Len(todo[c]) <= 17
  /\ mode \in [Components -> SUBSET Components]
  /\ scan_task \in {"idle", "scheduled", "aborted"}
  /\ scan_cb \in {"none", "called", "failed", "retry"}
  /\ radio \in [running : BOOLEAN, mode : SUBSET Components,
                link : {"down", "connecting", "up"}, scanning : BOOLEAN]
  /\ \A k \in 1..Len(events) : events[k] \in {"scanDone", "connected", "disconnected"}
  /\ calls \in 0..MaxCalls /\ by \in [Components -> Tasks]

\* When no operation is under way the driver runs what is enabled, and nothing
\* else, and is known to; the access point is active if it is enabled; and the
\* device will start the same way.
RadioAgrees ==
  Idle =>
    /\ radio.running = (Enabled # {}) /\ wlan_started = radio.running
    /\ radio.running => radio.mode = Enabled
    /\ wlan_ap_active = enabled["ap"]
    /\ stored = enabled

\* When the events are handled the station knows whether it is connected.
ConnectionKnown ==
  Idle /\ events = <<>> => sta_connected = (radio.link = "up")

\* A station that is enabled and has no connection is about to get one: a scan
\* is planned or under way, or the driver is connecting or has news.  None of
\* the early returns, aborts and restarts leaves it idle for ever.
KeepsTrying ==
  Idle /\ enabled["station"] /\ radio.link = "down" =>
    scan_task = "scheduled" \/ scan_cb # "none" \/ radio.scanning \/ events # <<>>

\* In range of its network an enabled station gets connected.
StationConnects == enabled["station"] ~> sta_connected \/ ~enabled["station"]

\* "ESP_ERROR_CHECK(esp_wifi_set_config(WIFI_IF_STA, &wifi_config))"
\* (wlan_station.c:234): the driver accepts the configuration of the interface
\* that is being enabled.
ConfigAccepted == ~aborted
================================================================================
