---------------------------- MODULE DeviceAccounts ----------------------------
(***************************************************************************)
(* Replacement of a bridge's device accounts (demo.py, "Add device         *)
(* account"): method.clear_device_accounts removes every child of the      *)
(* DeviceAccounts node, swallowing the server's refusal "The device        *)
(* account table cannot be empty"; then method.add_device_account adds     *)
(* each declared account, treating "already in use" and "Warning" answers  *)
(* as warnings. The server keeps the table non-empty.                      *)
(***************************************************************************)
EXTENDS Naturals, Sequences, FiniteSets, SequencesExt

CONSTANTS
    Users,        \* user names
    Settings,     \* Password / Authority / Email of an account, abstracted
    NoUser,       \* a declared entry that fails to compile (no UserName,
                  \* or an Authority outside Admin|Supervisor|User)
    MaxDeclared   \* bound on the number of declared accounts

ASSUME NoUser \notin Users /\ MaxDeclared \in Nat

Entries == [user: Users \cup {NoUser}, setting: Settings]

\* The declared accounts, keyed by their natural key UserName.
Declarations ==
    {s \in BoundedSeq(Entries, MaxDeclared) :
        \A i, j \in DOMAIN s : s[i].user = s[j].user => i = j}

\* Account tables the server may hold: never empty.
Tables == UNION {[D -> Settings] : D \in SUBSET Users \ {{}}}

VARIABLES
    accounts,   \* remote: DeviceAccounts, user name -> settings
    declared,   \* device_config['DeviceAccounts'] (input)
    children,   \* the children list read once before the remove loop
    ci,         \* next index into children
    ai,         \* next index into declared
    pc,         \* "clear" | "add" | "done"
    aborted,    \* an exception left the step (and the deployment)
    warned      \* users whose AddDeviceAccount answered a Warning

vars == <<accounts, declared, children, ci, ai, pc, aborted, warned>>

DeclaredUsers == {declared[i].user : i \in DOMAIN declared}

Init ==
    /\ accounts \in Tables
    /\ declared \in Declarations
    \* get_children: the current accounts, in the server's browse order.
    /\ children \in SetToSeqs(DOMAIN accounts)
    /\ ci = 1
    /\ ai = 1
    /\ pc = "clear"
    /\ aborted = FALSE
    /\ warned = {}

(***************************************************************************)
(* clear_device_accounts                                                   *)
(***************************************************************************)

\* One iteration over children: RemoveDeviceAccount(child). The server
\* refuses to remove the last account ("The device account table cannot be
\* empty"); the code continues past that refusal. Any other non-zero
\* answer (also a Warning) raises out of the deployment.
RemoveDeviceAccount ==
    LET u == children[ci] IN
    /\ pc = "clear"
    /\ ~aborted
    /\ ci <= Len(children)
    /\ \/ /\ u \in DOMAIN accounts
          /\ Cardinality(DOMAIN accounts) > 1
          /\ accounts' = [x \in DOMAIN accounts \ {u} |-> accounts[x]]
          /\ ci' = ci + 1
          /\ UNCHANGED aborted
       \/ /\ Cardinality(DOMAIN accounts) = 1     \* "cannot be empty"
          /\ ci' = ci + 1
          /\ UNCHANGED <<accounts, aborted>>
       \/ /\ aborted' = TRUE                      \* any other error
          /\ UNCHANGED <<accounts, ci>>
    /\ UNCHANGED <<declared, children, ai, pc, warned>>

ClearDone ==
    /\ pc = "clear"
    /\ ~aborted
    /\ ci > Len(children)
    /\ pc' = "add"
    /\ UNCHANGED <<accounts, declared, children, ci, ai, aborted, warned>>

(***************************************************************************)
(* add_device_account, once per declared entry                             *)
(***************************************************************************)

\* Mutant: the entry is sent without the UserName and Authority checks.
AddDeviceAccountUnchecked ==
    LET e == declared[ai] IN
    /\ pc = "add"
    /\ ~aborted
    /\ ai <= Len(declared)
    /\ accounts' = (e.user :> e.setting) @@ accounts
    /\ ai' = ai + 1
    /\ UNCHANGED <<declared, children, ci, pc, aborted, warned>>

\* The entry is compiled first: a missing UserName or an unknown Authority
\* raises before any call. Then AddDeviceAccount: an existing user name is
\* answered "already in use", which is printed and skipped, so the stored
\* account keeps its settings; a "Warning" answer is printed (whether the
\* account was written is not reported); any other error raises.
AddDeviceAccount ==
    LET e == declared[ai] IN
    /\ pc = "add"
    /\ ~aborted
    /\ ai <= Len(declared)
    /\ \/ /\ e.user = NoUser
          /\ aborted' = TRUE
          /\ UNCHANGED <<accounts, ai, warned>>
       \/ /\ e.user \in Users \ DOMAIN accounts
          /\ accounts' = (e.user :> e.setting) @@ accounts
          /\ ai' = ai + 1
          /\ UNCHANGED <<aborted, warned>>
       \/ /\ e.user \in DOMAIN accounts             \* "already in use"
          /\ ai' = ai + 1
          /\ UNCHANGED <<accounts, aborted, warned>>
       \/ /\ e.user \in Users \ DOMAIN accounts     \* "Warning"
          /\ accounts' \in {accounts, (e.user :> e.setting) @@ accounts}
          /\ warned' = warned \cup {e.user}
          /\ ai' = ai + 1
          /\ UNCHANGED aborted
       \/ /\ e.user \in Users \ DOMAIN accounts     \* other error
          /\ aborted' = TRUE
          /\ UNCHANGED <<accounts, ai, warned>>
    /\ UNCHANGED <<declared, children, ci, pc>>

\* Mutant: the add loop stops one entry short.
AddsDoneEarly ==
    /\ pc = "add"
    /\ ~aborted
    /\ ai >= Len(declared)
    /\ pc' = "done"
    /\ UNCHANGED <<accounts, declared, children, ci, ai, aborted, warned>>

AddsDone ==
    /\ pc = "add"
    /\ ~aborted
    /\ ai > Len(declared)
    /\ pc' = "done"
    /\ UNCHANGED <<accounts, declared, children, ci, ai, aborted, warned>>

Next == RemoveDeviceAccount \/ ClearDone \/ AddDeviceAccount \/ AddsDone

Spec == Init /\ [][Next]_vars

(***************************************************************************)
(* Properties.                                                             *)
(***************************************************************************)

TypeOK ==
    /\ accounts \in Tables
    /\ declared \in Declarations
    /\ ci \in 1..Len(children) + 1
    /\ ai \in 1..Len(declared) + 1
    /\ pc \in {"clear", "add", "done"}
    /\ aborted \in BOOLEAN
    /\ warned \subseteq Users

\* The clear-then-add replacement leaves at most one stale account: when
\* the step completes, every declared account that did not only warn is
\* present, and besides the declared accounts at most one account of the
\* table found at the start survives (the one the server refused to
\* remove because the table may not be empty).
DeclaredAccountsPresent ==
    pc = "done" =>
        /\ DeclaredUsers \ warned \subseteq DOMAIN accounts
        /\ Cardinality(DOMAIN accounts \ DeclaredUsers) <= 1
=============================================================================
