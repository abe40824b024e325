---------------------------- MODULE MCStorageWriter ----------------------------
(* Small instances of StorageWriter for TLC.                               *)
EXTENDS StorageWriter

CONSTANTS w1, w2

Event(type, trace, span, status, started, ended, input) ==
  [type |-> type, trace |-> trace, span |-> span, status |-> status,
   started |-> started, ended |-> ended, input |-> input]

\* A trace whose only span fails: the envelope itself reports ok.
FailingTrace == <<
  Event("trace.start", "t", None, "running", 1, 0, FALSE),
  Event("span.start", "t", "s", "running", 2, 0, TRUE),
  Event("span.end", "t", "s", "error", 2, 3, FALSE),
  Event("trace.end", "t", None, "ok", 0, 4, FALSE)>>

\* Two traces whose events share batches.
TwoTraces == <<
  Event("span.start", "t", "s", "running", 1, 0, TRUE),
  Event("span.end", "t", "s", "error", 1, 2, FALSE),
  Event("trace.end", "t", None, "ok", 0, 3, FALSE),
  Event("span.end", "u", "r", "ok", 2, 4, TRUE)>>

OnlyT == {"t"}
==============================================================================
