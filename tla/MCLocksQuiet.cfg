\* All but what loads an animation, sets up the station or changes the serial
\* number.
CONSTANTS
  Running = {"render", "brightness", "endisable_adaptive", "generate_psk", "wlan_settings", "station_info", "endisable_ap", "leave_ota", "battery_gauge", "ambient_light", "charger", "charging_status", "scan", "get_animations", "scan_done", "connected", "disconnected", "got_ip", "ota"}
SPECIFICATION Spec
INVARIANTS
  NoCircularWait
