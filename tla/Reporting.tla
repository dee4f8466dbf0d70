------------------------------ MODULE Reporting -------------------------------
(***************************************************************************)
(* EvalReporting under names that stand beside those of ParallelEval, for  *)
(* TLC and for the proofs: Lanes are the --workers, phase is where the     *)
(* process stands, Nothing is None.                                        *)
(***************************************************************************)
CONSTANTS Evals, Lanes, Verbose, Nothing, MaxFaults, MaxResumes

VARIABLES
    phase, resume, given, evals, evalPc, outcome, task, setRunId, runIds, anyFailed, status,
    sets, runs, faults, resumes

Eval == INSTANCE EvalReporting WITH NWorkers <- Lanes, pc <- phase, None <- Nothing

ASSUME ReportingIsAssumed == Eval!ReportingAssumption

ReportingSpec == Eval!FairSpec

\* The backend's runs and set runs are well formed, one per item, and say how
\* the items ended once the run returned (_progress_reporter.py, runtime.py
\* 572-655).
RunsAddUp == Eval!RunsAddUp

\* The verdict the backend holds for a run never changes once it is final
\* (runtime.py 760-763).
FinalVerdictKept == Eval!FinalVerdictKept

\* The process ends, or all its workers are lost with items left.
Ends == Eval!Ends

===============================================================================
