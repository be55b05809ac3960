--------------------------------- MODULE MCMenu --------------------------------
(* The menu with two submenus, one in the other, and an app of every kind.   *)
EXTENDS Menu

MCEntries ==
  [root |-> <<"settings", "power off">>,
   settings |-> <<"wlan", "adaptive">>,
   wlan |-> <<"apinfo", "endisableap", "stainfo">>]
MCHandlerOf ==
  [a \in {"power off", "apinfo", "stainfo"} |->
     IF a = "power off" THEN "charging" ELSE "wlan_settings"]
MCRegistered == <<"shutdown", "wlan_settings", "charging", "menu">>
===============================================================================
