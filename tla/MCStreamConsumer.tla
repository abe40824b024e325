--------------------------- MODULE MCStreamConsumer ---------------------------
(* Small instances of StreamConsumer for TLC.                              *)
EXTENDS StreamConsumer

CONSTANTS c1, c2

\* Each set of faults leaves out what the run's property is not about.
SafetyFaults   == AllFaults \ {"deadLetterWrite"}
LivenessFaults == AllFaults \ {"xpending", "permanentError"}
LookupFaults   == {"xpending", "work"}

SecondMalformed == {2}
NoneMalformed   == {}
==============================================================================
