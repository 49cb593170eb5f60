---------------------------- MODULE ComputeDeploy ----------------------------
(***************************************************************************)
(* Steps 12 to 16 of class_based_client_test.py: run Compute and wait for  *)
(* it; on a non-zero code read ErrorMessage and stop; fetch the aggregate  *)
(* and the per-stream computed results; run Deploy and wait for it; on a   *)
(* non-zero code read ErrorMessage and stop. Compute and Deploy are two    *)
(* instances of the long-running job (compute_tsn_project and              *)
(* deploy_tsn_project); their server-side jobs run concurrently with the   *)
(* client's poll loops.                                                    *)
(***************************************************************************)
EXTENDS Naturals

CONSTANTS
    TerminalLabels, ErrorCodes, InitCodes, NoCode, StartMayFail, MaxPolls,
    MaxStreams       \* bound on the length of configuration['ComputedResult']

ASSUME 0 \in ErrorCodes /\ MaxStreams \in Nat

VARIABLES
    pc,            \* "compute" | "results" | "streams" | "deploy" | "done" | "failed"
    streamsLeft,   \* stream names of ComputedResult not yet fetched
    cState, cCode, cPhase, cCnt, cResult, cAccepted, cOwn,  \* Compute job
    dState, dCode, dPhase, dCnt, dResult, dAccepted, dOwn   \* Deploy job

cVars == <<cState, cCode, cPhase, cCnt, cResult, cAccepted, cOwn>>
dVars == <<dState, dCode, dPhase, dCnt, dResult, dAccepted, dOwn>>
vars  == <<pc, streamsLeft, cVars, dVars>>

Compute == INSTANCE LongRunningJob
    WITH RunningLabel <- "Running",
         state <- cState, errorCode <- cCode, phase <- cPhase, cnt <- cCnt,
         result <- cResult, accepted <- cAccepted, ownCode <- cOwn

Deploy == INSTANCE LongRunningJob
    WITH RunningLabel <- "Running",
         state <- dState, errorCode <- dCode, phase <- dPhase, cnt <- dCnt,
         result <- dResult, accepted <- dAccepted, ownCode <- dOwn

Init ==
    /\ pc = "compute"
    /\ streamsLeft \in 0..MaxStreams
    /\ Compute!Init
    /\ Deploy!Init

(***************************************************************************)
(* Compute (step 12).                                                      *)
(***************************************************************************)

\* get_child of Compute and of its Start method raise when the node is
\* missing; the test's except prints the exception and the try is left.
ComputeStart ==
    /\ pc = "compute"
    /\ \/ Compute!Start /\ UNCHANGED pc
       \/ /\ cPhase = "idle"
          /\ pc' = "failed"
          /\ UNCHANGED cVars
    /\ UNCHANGED <<streamsLeft, dVars>>

ComputePoll ==
    /\ Compute!Poll
    /\ UNCHANGED <<pc, streamsLeft, dVars>>

ComputeJobEnds ==
    /\ Compute!JobEnds
    /\ UNCHANGED <<pc, streamsLeft, dVars>>

\* Mutant: the error_code check after Compute is missing.
ComputeCheckedNoGate ==
    /\ pc = "compute"
    /\ cPhase = "returned"
    /\ pc' = "results"
    /\ UNCHANGED <<streamsLeft, cVars, dVars>>

\* "if (error_code != 0)": read Compute.ErrorMessage, print it, return.
ComputeChecked ==
    /\ pc = "compute"
    /\ cPhase = "returned"
    /\ pc' = IF cResult # 0 THEN "failed" ELSE "results"
    /\ UNCHANGED <<streamsLeft, cVars, dVars>>

(***************************************************************************)
(* Computed results (steps 13 and 14): a non-zero status returns.          *)
(***************************************************************************)
GetAllStreamComputedResult ==
    /\ pc = "results"
    /\ pc' \in {"streams", "failed"}
    /\ UNCHANGED <<streamsLeft, cVars, dVars>>

\* Mutant: the loop over ComputedResult runs one stream past its end.
GetStreamComputedResultPastEnd ==
    /\ pc = "streams"
    /\ streamsLeft >= 0
    /\ \/ streamsLeft' = streamsLeft - 1 /\ UNCHANGED pc
       \/ pc' = "failed" /\ UNCHANGED streamsLeft
    /\ UNCHANGED <<cVars, dVars>>

GetStreamComputedResult ==
    /\ pc = "streams"
    /\ streamsLeft > 0
    /\ \/ streamsLeft' = streamsLeft - 1 /\ UNCHANGED pc
       \/ pc' = "failed" /\ UNCHANGED streamsLeft
    /\ UNCHANGED <<cVars, dVars>>

\* Step 15 (Compare) is commented out in the test; only its banner prints.
StreamsFetched ==
    /\ pc = "streams"
    /\ streamsLeft = 0
    /\ pc' = "deploy"
    /\ UNCHANGED <<streamsLeft, cVars, dVars>>

(***************************************************************************)
(* Deploy (step 16).                                                       *)
(***************************************************************************)

\* As for Compute, a missing Deploy or Start node raises.
DeployStart ==
    /\ pc = "deploy"
    /\ \/ Deploy!Start /\ UNCHANGED pc
       \/ /\ dPhase = "idle"
          /\ pc' = "failed"
          /\ UNCHANGED dVars
    /\ UNCHANGED <<streamsLeft, cVars>>

DeployPoll ==
    /\ Deploy!Poll
    /\ UNCHANGED <<pc, streamsLeft, cVars>>

DeployJobEnds ==
    /\ Deploy!JobEnds
    /\ UNCHANGED <<pc, streamsLeft, cVars>>

\* Mutant: the error_code of Deploy is not looked at.
DeployCheckedIgnoringCode ==
    /\ pc = "deploy"
    /\ dPhase = "returned"
    /\ pc' = "done"
    /\ UNCHANGED <<streamsLeft, cVars, dVars>>

DeployChecked ==
    /\ pc = "deploy"
    /\ dPhase = "returned"
    /\ pc' = IF dResult # 0 THEN "failed" ELSE "done"
    /\ UNCHANGED <<streamsLeft, cVars, dVars>>

Next ==
    \/ ComputeStart \/ ComputePoll \/ ComputeJobEnds \/ ComputeChecked
    \/ GetAllStreamComputedResult \/ GetStreamComputedResult \/ StreamsFetched
    \/ DeployStart \/ DeployPoll \/ DeployJobEnds \/ DeployChecked

\* The test is one coroutine that never gives up the thread for good
\* (sleep(1) returns), and the server ends every job it runs; since the
\* number of polls per job is bounded, weak fairness of Next gives both.
Spec == Init /\ [][Next]_vars /\ WF_vars(Next)

(***************************************************************************)
(* Properties.                                                             *)
(***************************************************************************)

TypeOK ==
    /\ pc \in {"compute", "results", "streams", "deploy", "done", "failed"}
    /\ streamsLeft \in 0..MaxStreams
    /\ Compute!TypeOK
    /\ Deploy!TypeOK

\* Deploy depends on Compute (spec 4.5, 7): the Deploy job is never started
\* unless the Compute job started by this run has ended with code 0.
DeployRequiresComputed ==
    dPhase # "idle" => cOwn = 0

\* The run reports success (reaches the end of the script) only if the
\* Compute job and the Deploy job it started both ended with code 0.
SuccessMeansDeployed ==
    pc = "done" => (cOwn = 0 /\ dOwn = 0)

\* The Compute poll loop implements the abstract job: it returns the code
\* of its own job, after that job has ended. The Deploy loop is the same
\* LongRunningJob, instantiated with other variables.
ComputeRefinesJob == Compute!JobRefinesAbstract
=============================================================================
