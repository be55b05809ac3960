------------------------------- MODULE MCSensors -------------------------------
(* The first three steps of the mapping, in lux.                             *)
EXTENDS Sensors
MCMapping == <<20, 32, 44>>
================================================================================
