\* The menu, the apps, the charging screen and resets.
CONSTANTS
  Apps = {"power off", "adaptive", "apinfo", "endisableap", "stainfo"}
  Submenus = {"root", "settings", "wlan"}
  menutree_root = "root"
  Entries <- MCEntries
  Toggles = {"adaptive", "endisableap"}
  KeepVisible = {"adaptive"}
  Unnamed = {"adaptive", "power off"}
  PowerOff = "power off"
  HandlerOf <- MCHandlerOf
  Registered <- MCRegistered
  MaxPresses = 12
  MaxResets = 2
SPECIFICATION MenuSpec
INVARIANTS
  OneScreen
  MenuShowsSelected
  DefaultAppIsActive
\* The bounds of presses and resets are reached.
CHECK_DEADLOCK FALSE
