---------------------------------- MODULE Locks --------------------------------
(***************************************************************************)
(* The locks of the firmware: who takes which while holding which.  A C    *)
(* function is the sequence of locks it takes and gives back, composed of  *)
(* the sequences of the functions it calls; the handlers of the event bus  *)
(* run under the lock of the bus.  Whether a branch that only the state of *)
(* the radio, of the player or of a sensor decides is taken is left open.  *)
(*                                                                         *)
(* Locks under which no other lock is taken (those of the scheduler, the   *)
(* buttons and the battery gauge) are left out: nobody waits while holding *)
(* one.                                                                    *)
(***************************************************************************)
EXTENDS Integers, Sequences, FiniteSets

CONSTANTS Running       \* the entry points that the threads may run

Recursive == {"bus", "station", "ap", "vendor", "player"}
Locks == Recursive \cup {"gui", "oled"}

-------------------------------------------------------------------------------
(* What a function does with the locks.                                     *)

Step(op, l, body) == [op |-> op, lock |-> l, body |-> body]

\* body, with lock l held.
Locked(l, body) == <<Step("take", l, <<>>)>> \o body \o <<Step("give", l, <<>>)>>

\* A branch that is taken or not.
Maybe(body) == <<Step("maybe", "gui", body)>>

\* Any of the handlers that change elements with the GUI locked and call no
\* one else.
gui_update == Locked("gui", <<>>)

wlan_encode_qrcode == Locked("ap", <<>>) \o Maybe(gui_update)

update_station_state == Locked("gui", Locked("station", <<>>))
apply_vendor_state == Locked("vendor", <<>>)

\* The handlers of a topic, the one subscribed last first, under the bus lock.
Notified(handlers) == Locked("bus", handlers)

notify_wlan_ap == Notified(gui_update \o wlan_encode_qrcode)
notify_wlan_station == Notified(gui_update \o update_station_state)
notify_battery_gauge == Notified(gui_update \o gui_update \o gui_update)
notify_display_settings == Notified(gui_update)
notify_display == Notified(gui_update)
notify_battery_charger == Notified(<<>>)

\* Mutant: the bus is notified before the lock is given back.
NotifyUnderLock == Locked("oled", notify_display)

oled_set_brightness == Locked("oled", <<>>) \o notify_display

notify_ambient_light_level == Notified(gui_update \o Maybe(oled_set_brightness))

enable_ap_ == notify_wlan_ap
disable_ap_ == notify_wlan_ap

\* on_vendor_event of the access point.
ap_on_vendor_event ==
  apply_vendor_state
    \o Locked("ap", Maybe(disable_ap_) \o apply_vendor_state \o Maybe(enable_ap_))

notify_vendor ==
  Notified(Locked("gui", apply_vendor_state) \o apply_vendor_state \o ap_on_vendor_event)

-------------------------------------------------------------------------------
(* The functions that the threads run.                                      *)

\* The render loop of main.
gifplayer_frame_played == Maybe(Locked("player", <<>>))
oled_write_image == Locked("oled", <<>>)
oled_show_image == Locked("oled", <<>>)
render == Locked("gui", gifplayer_frame_played) \o oled_write_image \o oled_show_image

\* The player.
gifplayer_set_animation__ == Locked("gui", <<>>)
gifplayer_set_animation == Locked("player", gifplayer_set_animation__)
gifplayer_play_next_animation == Locked("player", gifplayer_set_animation__)

\* The access point, the station and their screens.
wlan_ap_generate_new_psk == Locked("ap", Maybe(disable_ap_ \o enable_ap_))
wlan_ap_endisable_run == Locked("ap", Maybe(enable_ap_))
wlan_station_endisable_run == Locked("station", Locked("station", Maybe(notify_wlan_station)))
wlan_station_info_run == update_station_state
wlan_settings_run == wlan_encode_qrcode
wlan_station_reconfigure_ == notify_wlan_station \o notify_wlan_station
wlan_station_set_ssid == Locked("station", Maybe(wlan_station_reconfigure_))
wlan_station_set_psk == Locked("station", Maybe(wlan_station_reconfigure_))
schedule_scan_conditional == Maybe(Locked("ap", <<>>))
wlan_station_schedule_scan_cb == Locked("station", <<>>) \o schedule_scan_conditional
handle_scan_done_event == Locked("station", schedule_scan_conditional)
handle_station_connected_event == Locked("station", <<>>) \o notify_wlan_station
handle_station_disconnected_event ==
  Locked("station", schedule_scan_conditional) \o notify_wlan_station
ip_event_handler == notify_wlan_station

\* The other tasks of the scheduler, and the display.
battery_gauge_update == notify_battery_gauge
ambient_light_sensor_update == Maybe(notify_ambient_light_level)
battery_charger_update == notify_battery_charger
charging_status_move_task == gui_update
endisable_adaptive_brightness_run == Maybe(oled_set_brightness) \o notify_display_settings

\* The HTTP server and the HTTP client.
http_get_animations == Locked("player", <<>>)
http_post_upload_animation ==
  Locked("player", Maybe(gifplayer_set_animation) \o Maybe(gifplayer_set_animation__))
http_get_delete_animation == Locked("player", Maybe(gifplayer_set_animation))
http_get_set_wlan_station_ssid_psk == wlan_station_set_ssid \o wlan_station_set_psk
vendor_set_serial_number == Locked("vendor", <<>>) \o notify_vendor
ota_cb == Maybe(gui_update)
leave_ota == Maybe(gui_update)

\* The entry points by name.
Entry ==
  [ render |-> render,
    next_animation |-> gifplayer_play_next_animation,
    brightness |-> oled_set_brightness,
    endisable_adaptive |-> endisable_adaptive_brightness_run,
    generate_psk |-> wlan_ap_generate_new_psk,
    wlan_settings |-> wlan_settings_run,
    station_info |-> wlan_station_info_run,
    endisable_ap |-> wlan_ap_endisable_run,
    endisable_station |-> wlan_station_endisable_run,
    leave_ota |-> leave_ota,
    battery_gauge |-> battery_gauge_update,
    ambient_light |-> ambient_light_sensor_update,
    charger |-> battery_charger_update,
    charging_status |-> charging_status_move_task,
    scan |-> wlan_station_schedule_scan_cb,
    get_animations |-> http_get_animations,
    set_animation |-> gifplayer_set_animation,
    upload_animation |-> http_post_upload_animation,
    delete_animation |-> http_get_delete_animation,
    set_ssid_psk |-> http_get_set_wlan_station_ssid_psk,
    set_serial |-> vendor_set_serial_number,
    scan_done |-> handle_scan_done_event,
    connected |-> handle_station_connected_event,
    disconnected |-> handle_station_disconnected_event,
    got_ip |-> ip_event_handler,
    ota |-> ota_cb ]

\* The entry points of each thread.
Own(t) ==
  CASE t = "main" -> {"render"}
    [] t = "buttons" -> {"next_animation", "brightness", "endisable_adaptive", "generate_psk",
                         "wlan_settings", "station_info", "endisable_ap", "endisable_station",
                         "leave_ota"}
    [] t = "scheduler" -> {"battery_gauge", "ambient_light", "charger", "charging_status", "scan"}
    [] t = "httpd" -> {"get_animations", "set_animation", "upload_animation", "delete_animation",
                       "set_ssid_psk", "set_serial"}
    [] t = "events" -> {"scan_done", "connected", "disconnected", "got_ip"}
    [] t = "client" -> {"ota"}

Threads == {t \in {"main", "buttons", "scheduler", "httpd", "events", "client"} :
              Own(t) \cap Running # {}}

ASSUME RunningAssumption == Running \subseteq DOMAIN Entry /\ Running # {}

VARIABLES
  todo,                 \* the steps a thread has still to take
  held                  \* how often a thread has taken a lock

vars == <<todo, held>>

Busy(t) == todo[t] # <<>>
Now(t) == Head(todo[t])
HeldBy(t, l) == held[t][l] > 0

Init ==
  /\ todo = [t \in Threads |-> <<>>]
  /\ held = [t \in Threads |-> [l \in Locks |-> 0]]

Start(t) ==
  /\ ~Busy(t)
  /\ \E e \in Own(t) \cap Running : todo' = [todo EXCEPT ![t] = Entry[e]]
  /\ UNCHANGED held

\* Another thread has the lock, or t itself has it and cannot take it again.
Blocks(u, t, l) == HeldBy(u, l) /\ (u = t => l \notin Recursive)

Take(t) ==
  /\ Busy(t) /\ Now(t).op = "take"
  /\ \A u \in Threads : ~Blocks(u, t, Now(t).lock)
  /\ held' = [held EXCEPT ![t][Now(t).lock] = @ + 1]
  /\ todo' = [todo EXCEPT ![t] = Tail(@)]

Give(t) ==
  /\ Busy(t) /\ Now(t).op = "give"
  /\ held' = [held EXCEPT ![t][Now(t).lock] = @ - 1]
  /\ todo' = [todo EXCEPT ![t] = Tail(@)]

Branch(t) ==
  /\ Busy(t) /\ Now(t).op = "maybe"
  /\ \/ todo' = [todo EXCEPT ![t] = Now(t).body \o Tail(@)]
     \/ todo' = [todo EXCEPT ![t] = Tail(@)]
  /\ UNCHANGED held

Next == \E t \in Threads : Start(t) \/ Take(t) \/ Give(t) \/ Branch(t)

Spec == Init /\ [][Next]_vars

-------------------------------------------------------------------------------
(* Properties.                                                              *)

\* The counts are those of nested calls; a lock has one holder.
TypeOK ==
  /\ held \in [Threads -> [Locks -> 0..4]]
  /\ \A l \in Locks : Cardinality({t \in Threads : HeldBy(t, l)}) <= 1
  /\ \A t \in Threads : ~Busy(t) => \A l \in Locks : ~HeldBy(t, l)

\* t waits for a lock that u has.
WaitsFor(t, u) == Busy(t) /\ Now(t).op = "take" /\ Blocks(u, t, Now(t).lock)

\* Threads never wait for one another in a circle: not for the locks that a
\* handler of the event bus takes, and not for a lock they have already.  So
\* the functions the headers call "Threadsafe" return.
NoCircularWait ==
  LET Waiting == {t \in Threads : \E u \in Threads : WaitsFor(t, u)}
  IN  \A S \in SUBSET Waiting : S # {} => \E t \in S : \A u \in S : ~WaitsFor(t, u)
================================================================================
