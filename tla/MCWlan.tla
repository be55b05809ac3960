--------------------------------- MODULE MCWlan --------------------------------
(* Access point and station, for a number of operations.                     *)
EXTENDS Wlan
===============================================================================
