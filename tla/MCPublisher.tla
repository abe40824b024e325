----------------------------- MODULE MCPublisher -----------------------------
(* Small instances of Publisher for TLC.                                   *)
EXTENDS Publisher

CONSTANTS parent, child

AllFaults == {"connect", "execute", "kill"}
==============================================================================
