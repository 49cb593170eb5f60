----------------------------- MODULE JobAbstract -----------------------------
(***************************************************************************)
(* What a long-running operation promises its caller (spec 3 and 4.4): a   *)
(* Start creates a job, the job runs, ends with an error code, and the     *)
(* caller is handed exactly the code its own job ended with.               *)
(***************************************************************************)
CONSTANTS ErrorCodes, NoCode

ASSUME NoCode \notin ErrorCodes

VARIABLES
    jobPhase,   \* "idle" | "running" | "ended" | "returned"
    jobCode,    \* code the job ended with, NoCode before
    jobResult   \* code handed to the caller, NoCode before

absVars == <<jobPhase, jobCode, jobResult>>

Init ==
    /\ jobPhase = "idle"
    /\ jobCode = NoCode
    /\ jobResult = NoCode

Begin ==
    /\ jobPhase = "idle"
    /\ jobPhase' = "running"
    /\ UNCHANGED <<jobCode, jobResult>>

End ==
    /\ jobPhase = "running"
    /\ jobPhase' = "ended"
    /\ jobCode' \in ErrorCodes
    /\ UNCHANGED jobResult

Return ==
    /\ jobPhase = "ended"
    /\ jobPhase' = "returned"
    /\ jobResult' = jobCode
    /\ UNCHANGED jobCode

Next == Begin \/ End \/ Return

Spec == Init /\ [][Next]_absVars
=============================================================================
