--------------------------- MODULE MCDissemBarrier ---------------------------
(* DissemBarrier for TLC.                                                    *)
EXTENDS DissemBarrier
==============================================================================
