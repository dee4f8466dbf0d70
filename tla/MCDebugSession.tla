---------------------------- MODULE MCDebugSession ----------------------------
(***************************************************************************)
(* DebugSession for TLC: main calls a function of another file twice.      *)
(***************************************************************************)
EXTENDS Debugging

Event(k, f, l) == [kind |-> k, frame |-> f, line |-> l]

TwoFiles == <<Event("call", "main", 1), Event("line", "main", 2),
              Event("call", "helper", 11), Event("line", "helper", 12), Event("return", "helper", 12),
              Event("call", "helper", 11), Event("line", "helper", 12), Event("return", "helper", 12),
              Event("return", "main", 2)>>
TwoFrames == [f \in {"main", "helper"} |-> IF f = "main" THEN "main.py" ELSE "util.py"]
MainOnly == {"main"}

=============================================================================
