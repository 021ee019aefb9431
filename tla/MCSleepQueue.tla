---------------------------- MODULE MCSleepQueue ----------------------------
(* Instances of SleepQueue for TLC.                                        *)
EXTENDS SleepQueue

CONSTANTS a, b, c

MCThread  == {a, b, c}
MCTimeout == 1..3
====
