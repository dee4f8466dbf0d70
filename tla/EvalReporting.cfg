\* Two items on two workers, so no item is left when both workers are lost; up
\* to two faults, one resumed process.  Liveness, so no symmetry.
CONSTANTS
    Evals = {e1, e2}
    Lanes = 2
    Verbose = TRUE
    Nothing = Nothing
    MaxFaults = 2
    MaxResumes = 1
SPECIFICATION ReportingSpec
INVARIANTS
    RunsAddUp
PROPERTIES
    FinalVerdictKept
    Ends
\* The process ends.
CHECK_DEADLOCK FALSE
