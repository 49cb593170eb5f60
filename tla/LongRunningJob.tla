---------------------------- MODULE LongRunningJob ----------------------------
(***************************************************************************)
(* One long-running remote operation and the client function that drives  *)
(* it (ER9/method.py compute_tsn_project; compare_tsn_project,             *)
(* deploy_tsn_project, auto_scan_tsn_project, start_device_discovery,      *)
(* start_retry_connection, start_link_sequence and start_ip_configure are  *)
(* the same loop with another node and another in-progress label).        *)
(*                                                                         *)
(* Client: call the node's Start method and ignore its result (cnt = 0),   *)
(* then loop: read CurrentState; while its text equals the in-progress     *)
(* label, cnt += 1, print, sleep(1); otherwise read ErrorCode and return   *)
(* it. Server: the job runs concurrently with the client and ends with an  *)
(* error code and a terminal state text.                                   *)
(***************************************************************************)
EXTENDS Naturals

CONSTANTS
    RunningLabel,    \* the in-progress text, "Running" for Compute
    TerminalLabels,  \* texts CurrentState shows when no job runs
    ErrorCodes,      \* codes a job may end with (0 is success)
    InitCodes,       \* ErrorCode of the node before the first Start
    NoCode,          \* no code yet
    StartMayFail,    \* whether the server may refuse a Start call
    MaxPolls         \* bound on cnt, the number of in-progress polls

ASSUME /\ RunningLabel \notin TerminalLabels
       /\ InitCodes \subseteq ErrorCodes
       /\ NoCode \notin ErrorCodes
       /\ StartMayFail \in BOOLEAN
       /\ MaxPolls \in Nat

VARIABLES
    state,      \* remote: <node>.CurrentState text
    errorCode,  \* remote: <node>.ErrorCode
    phase,      \* client: "idle" | "polling" | "returned"
    cnt,        \* client: polls that saw the in-progress label
    result,     \* client: the value returned to the caller
    accepted,   \* history: the server accepted this client's Start
    ownCode     \* history: code the job this client started ended with

jobVars == <<state, errorCode, phase, cnt, result, accepted, ownCode>>

Init ==
    /\ state \in TerminalLabels
    /\ errorCode \in InitCodes
    /\ phase = "idle"
    /\ cnt = 0
    /\ result = NoCode
    /\ accepted = FALSE
    /\ ownCode = NoCode

(***************************************************************************)
(* Client steps.                                                           *)
(***************************************************************************)

\* await call_method_full(node, Start): the returned status is discarded.
\* An accepted Start puts the job in progress before the call returns; a
\* refused one leaves the node as it was.
Start ==
    /\ phase = "idle"
    /\ phase' = "polling"
    /\ cnt' = 0
    /\ \/ /\ state' = RunningLabel
          /\ accepted' = TRUE
       \/ /\ StartMayFail
          /\ UNCHANGED <<state, accepted>>
    /\ UNCHANGED <<errorCode, result, ownCode>>

\* Mutant: the loop leaves on the first poll, whatever the state says.
PollNoStateCheck ==
    /\ phase = "polling"
    /\ result' = errorCode
    /\ phase' = "returned"
    /\ UNCHANGED <<state, errorCode, cnt, accepted, ownCode>>

\* Mutant: the loop waits for one specific terminal text instead of for
\* "anything but the in-progress label".
PollUntilFirstTerminal ==
    /\ phase = "polling"
    /\ \/ /\ state # CHOOSE l \in TerminalLabels : TRUE
          /\ cnt < MaxPolls
          /\ cnt' = cnt + 1
          /\ UNCHANGED <<result, phase>>
       \/ /\ state = CHOOSE l \in TerminalLabels : TRUE
          /\ result' = errorCode
          /\ phase' = "returned"
          /\ UNCHANGED cnt
    /\ UNCHANGED <<state, errorCode, accepted, ownCode>>

\* One iteration of "while True": read CurrentState; the in-progress label
\* means cnt += 1 and sleep, anything else means read ErrorCode and return.
Poll ==
    /\ phase = "polling"
    /\ \/ /\ state = RunningLabel
          /\ cnt < MaxPolls
          /\ cnt' = cnt + 1
          /\ UNCHANGED <<result, phase>>
       \/ /\ state # RunningLabel
          /\ result' = errorCode
          /\ phase' = "returned"
          /\ UNCHANGED cnt
    /\ UNCHANGED <<state, errorCode, accepted, ownCode>>

(***************************************************************************)
(* Server step: the job in progress ends.                                  *)
(***************************************************************************)
JobEnds ==
    /\ state = RunningLabel
    /\ state' \in TerminalLabels
    /\ errorCode' \in ErrorCodes
    /\ ownCode' = errorCode'
    /\ UNCHANGED <<phase, cnt, result, accepted>>

Next == Start \/ Poll \/ JobEnds

\* The client coroutine is never descheduled for good (sleep returns); the
\* server is assumed to end every job it runs.
Fairness == WF_jobVars(Start) /\ WF_jobVars(Poll) /\ WF_jobVars(JobEnds)

Spec == Init /\ [][Next]_jobVars /\ Fairness

(***************************************************************************)
(* Properties.                                                             *)
(***************************************************************************)

TypeOK ==
    /\ state \in TerminalLabels \cup {RunningLabel}
    /\ errorCode \in ErrorCodes
    /\ phase \in {"idle", "polling", "returned"}
    /\ cnt \in 0..MaxPolls
    /\ result \in ErrorCodes \cup {NoCode}
    /\ accepted \in BOOLEAN
    /\ ownCode \in ErrorCodes \cup {NoCode}

\* The job as the caller sees it, mapped onto the abstract job: running
\* from an accepted Start until the server ends it, ended until the loop
\* returns.
AbstractPhase ==
    CASE phase = "idle"                -> "idle"
      [] phase = "returned"            -> "returned"
      [] accepted /\ ownCode = NoCode  -> "running"
      [] OTHER                         -> "ended"

Abstract == INSTANCE JobAbstract
                WITH jobPhase <- AbstractPhase, jobCode <- ownCode, jobResult <- result

\* The poll loop implements the abstract job (spec 3, 4.4): the value the
\* function returns is the ErrorCode of the job its own Start created, read
\* only after that job has left the in-progress state.
JobRefinesAbstract == Abstract!Spec

\* Poller termination (spec 4.4): once Start has been called, the loop
\* returns, provided the server ends the job.
PollerReturns == phase = "polling" ~> phase = "returned"
=============================================================================
