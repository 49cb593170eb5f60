----------------------------- MODULE DeviceConfig -----------------------------
(***************************************************************************)
(* The DeviceConfig block of a bridge in demo.py, in the code's order:     *)
(* device accounts (DeviceAccounts), the management interface, the port    *)
(* and VLAN reconciliation of the static forward rows (VlanReconcile),     *)
(* the multicast static forward table (clear, then add each row),          *)
(* spanning tree, time sync, and the unicast static forward table (clear,  *)
(* then add each row). A raise leaves the block and the run ("aborted");   *)
(* the VLAN block catches its own exceptions.                              *)
(***************************************************************************)
EXTENDS Naturals, Sequences, FiniteSets, SequencesExt

CONSTANTS
    Users, Settings, NoUser, MaxDeclared,    \* as in DeviceAccounts
    Ports, VlanIds, NoVid, NoPort, MaxRows,  \* as in VlanReconcile
    Values,     \* a ManagementInterface / SpanningTree / TimeSync record
    Old,        \* the setting found on the device
    Absent,     \* the key is missing from device_config
    MaxStale    \* bound on the entries a static forward table holds at the start

ASSUME /\ Old \notin Values /\ Absent \notin Values \cup {Old}
       /\ MaxStale \in Nat

VARIABLES
    accounts, accDeclared, accChildren, ci, ai, accPc, accAborted, accWarned,
    rows, portMode, vlans, vlPc, cur, todoPorts, todoVlans, vlAborted,
    portFailed, vlanFailed, vlanWarned,
    cfg,        \* device_config (input)
    stage,      \* the step of the block being run, "done" or "aborted"
    sub,        \* within a table step: "begin" | "clear" | "add"
    setting,    \* remote: ManagementInterface, SpanningTree, TimeSync
    fwd,        \* remote: the multicast and the unicast static forward table
    children,   \* the children read by clear_*_static_forward_table
    j,          \* index into children or into the declared rows
    warned      \* the keys some call for which only warned

accVars == <<accounts, accDeclared, accChildren, ci, ai, accPc, accAborted, accWarned>>
vlVars  == <<rows, portMode, vlans, vlPc, cur, todoPorts, todoVlans, vlAborted,
             portFailed, vlanFailed, vlanWarned>>
dcVars  == <<cfg, stage, sub, setting, fwd, children, j, warned>>
vars    == <<accVars, vlVars, dcVars>>

Acc == INSTANCE DeviceAccounts
    WITH declared <- accDeclared, children <- accChildren, pc <- accPc,
         aborted <- accAborted, warned <- accWarned

Vl == INSTANCE VlanReconcile WITH pc <- vlPc, aborted <- vlAborted

SettingKeys == {"mgmt", "stree", "tsync"}
Tables      == {"mcast", "ucast"}

\* Mutant: the static forward tables are written before the VLAN block.
AfterTablesFirst == [accounts |-> "mgmt", mgmt |-> "mcast", mcast |-> "vlans",
                     vlans |-> "stree", stree |-> "tsync", tsync |-> "ucast", ucast |-> "done"]

\* The steps of the block in the order of demo.py.
After == [accounts |-> "mgmt", mgmt |-> "vlans", vlans |-> "mcast",
          mcast |-> "stree", stree |-> "tsync", tsync |-> "ucast", ucast |-> "done"]

FwdRows == Vl!MulticastRows \cup Vl!UnicastRows

\* Entries a table may hold on the device: they always carry a VlanId.
StaleTables(R) == UNION {kSubset(n, {r \in R : r.VlanId \in VlanIds}) : n \in 0..MaxStale}

Configs ==
    [accounts: Acc!Declarations \cup {Absent},
     mgmt: Values \cup {Absent}, stree: Values \cup {Absent}, tsync: Values \cup {Absent},
     mcast: BoundedSeq(Vl!MulticastRows, MaxRows) \cup {Absent},
     ucast: BoundedSeq(Vl!UnicastRows, MaxRows) \cup {Absent}]

Declared(list) == IF list = Absent THEN <<>> ELSE list

\* Mutant: static_forward_tables is built from the multicast rows only.
StaticForwardTablesMulticastOnly(c) == Declared(c.mcast)

\* static_forward_tables: extended by the multicast, then the unicast rows.
StaticForwardTables(c) == Declared(c.mcast) \o Declared(c.ucast)

Init ==
    /\ cfg \in Configs
    /\ Len(Declared(cfg.mcast)) + Len(Declared(cfg.ucast)) <= MaxRows
    /\ accDeclared = Declared(cfg.accounts)
    /\ Acc!Init
    /\ rows = StaticForwardTables(cfg)
    /\ Vl!Init
    /\ stage = "accounts"
    /\ sub = "begin"
    /\ setting = [k \in SettingKeys |-> Old]
    /\ fwd \in [mcast: StaleTables(Vl!MulticastRows), ucast: StaleTables(Vl!UnicastRows)]
    /\ children = <<>>
    /\ j = 1
    /\ warned = {}

Abort == stage' = "aborted" /\ UNCHANGED <<cfg, sub, setting, fwd, children, j, warned>>

(***************************************************************************)
(* Device accounts: the steps of DeviceAccounts, when the key is present.  *)
(***************************************************************************)
AccountsStep ==
    /\ stage = "accounts"
    /\ cfg.accounts # Absent
    /\ Acc!Next
    /\ UNCHANGED <<vlVars, dcVars>>

AccountsDone ==
    /\ stage = "accounts"
    /\ cfg.accounts = Absent \/ accPc = "done"
    /\ stage' = After[stage]
    /\ UNCHANGED <<accVars, vlVars, cfg, sub, setting, fwd, children, j, warned>>

\* A raise in clear_device_accounts or add_device_account.
AccountsRaised ==
    /\ stage = "accounts"
    /\ accAborted
    /\ Abort
    /\ UNCHANGED <<accVars, vlVars>>

(***************************************************************************)
(* set_management_interface, set_spanning_tree, set_time_sync. An unknown  *)
(* enum string raises before the call exactly as an error answer raises   *)
(* after it, without a remote change; the error disjunct covers both.     *)
(***************************************************************************)
SetDeviceSetting(key) ==
    LET v == cfg[key] IN
    /\ stage = key
    /\ \/ /\ v = Absent
          /\ stage' = After[stage]
          /\ UNCHANGED <<setting, warned>>
       \/ /\ v # Absent
          /\ setting' = [setting EXCEPT ![stage] = v]
          /\ stage' = After[stage]
          /\ UNCHANGED warned
       \/ /\ v # Absent                       \* "Warning" printed
          /\ setting' \in {setting, [setting EXCEPT ![stage] = v]}
          /\ warned' = warned \cup {stage}
          /\ stage' = After[stage]
       \/ /\ v # Absent
          /\ Abort
    /\ UNCHANGED <<accVars, vlVars, cfg, sub, fwd, children, j>>

SetManagementInterface == SetDeviceSetting("mgmt")
SetSpanningTree        == SetDeviceSetting("stree")
SetTimeSync            == SetDeviceSetting("tsync")

(***************************************************************************)
(* The port and VLAN block: the steps of VlanReconcile. Its outer except  *)
(* prints, so the block always ends and the next step runs.                *)
(***************************************************************************)
VlanStep ==
    /\ stage = "vlans"
    /\ Vl!Next
    /\ UNCHANGED <<accVars, dcVars>>

VlanDone ==
    /\ stage = "vlans"
    /\ vlPc = "done"
    /\ stage' = After[stage]
    /\ UNCHANGED <<accVars, vlVars, cfg, sub, setting, fwd, children, j, warned>>

(***************************************************************************)
(* A static forward table: clear_*_static_forward_table, then               *)
(* add_*_static_forward_table per declared row.                            *)
(***************************************************************************)

\* Mutant: the table is written without clear_*_static_forward_table.
BeginTableWithoutClear ==
    /\ stage \in Tables
    /\ sub = "begin"
    /\ \/ /\ cfg[stage] = Absent
          /\ stage' = After[stage]
          /\ UNCHANGED sub
       \/ /\ cfg[stage] # Absent
          /\ sub' = "add"
          /\ UNCHANGED stage
    /\ j' = 1
    /\ UNCHANGED <<accVars, vlVars, cfg, setting, fwd, children, warned>>

\* "if 'MulticastStaticForwardTable' in device_config" (or Unicast), then
\* get_children, in the server's browse order.
BeginTable ==
    /\ stage \in Tables
    /\ sub = "begin"
    /\ \/ /\ cfg[stage] = Absent
          /\ stage' = After[stage]
          /\ UNCHANGED <<sub, children>>
       \/ /\ cfg[stage] # Absent
          /\ children' \in SetToSeqs(fwd[stage])
          /\ sub' = "clear"
          /\ UNCHANGED stage
    /\ j' = 1
    /\ UNCHANGED <<accVars, vlVars, cfg, setting, fwd, warned>>

\* RemoveMulticastStaticForward(child) / RemoveUnicastStaticForward(child):
\* any non-zero status raises.
RemoveStaticForward ==
    /\ stage \in Tables
    /\ sub = "clear"
    /\ j <= Len(children)
    /\ \/ /\ fwd' = [fwd EXCEPT ![stage] = @ \ {children[j]}]
          /\ j' = j + 1
          /\ UNCHANGED <<stage, cfg, sub, setting, children, warned>>
       \/ Abort
    /\ UNCHANGED <<accVars, vlVars>>

\* Mutant: the remove loop stops one child early.
TableClearedEarly ==
    /\ stage \in Tables
    /\ sub = "clear"
    /\ j >= Len(children)
    /\ sub' = "add"
    /\ j' = 1
    /\ UNCHANGED <<accVars, vlVars, cfg, stage, setting, fwd, children, warned>>

TableCleared ==
    /\ stage \in Tables
    /\ sub = "clear"
    /\ j > Len(children)
    /\ sub' = "add"
    /\ j' = 1
    /\ UNCHANGED <<accVars, vlVars, cfg, stage, setting, fwd, children, warned>>

\* Mutant: the record is sent without reading the required VlanId.
AddStaticForwardUnchecked ==
    /\ stage \in Tables
    /\ sub = "add"
    /\ j <= Len(cfg[stage])
    /\ fwd' = [fwd EXCEPT ![stage] = @ \cup {cfg[stage][j]}]
    /\ j' = j + 1
    /\ UNCHANGED <<accVars, vlVars, cfg, stage, sub, setting, children, warned>>

\* add_multicast_static_forward_table / add_unicast_static_forward_table:
\* VlanId and MacAddress are required (KeyError); a Warning answer is
\* printed, any other non-zero status raises.
AddStaticForward ==
    LET e == cfg[stage][j] IN
    /\ stage \in Tables
    /\ sub = "add"
    /\ j <= Len(cfg[stage])
    /\ \/ /\ e.VlanId # NoVid
          /\ fwd' = [fwd EXCEPT ![stage] = @ \cup {e}]
          /\ j' = j + 1
          /\ UNCHANGED <<stage, cfg, sub, setting, children, warned>>
       \/ /\ e.VlanId # NoVid
          /\ fwd' \in {fwd, [fwd EXCEPT ![stage] = @ \cup {e}]}
          /\ warned' = warned \cup {stage}
          /\ j' = j + 1
          /\ UNCHANGED <<stage, cfg, sub, setting, children>>
       \/ Abort
    /\ UNCHANGED <<accVars, vlVars>>

TableAdded ==
    /\ stage \in Tables
    /\ sub = "add"
    /\ j > Len(cfg[stage])
    /\ stage' = After[stage]
    /\ sub' = "begin"
    /\ UNCHANGED <<accVars, vlVars, cfg, setting, fwd, children, j, warned>>

Next ==
    \/ AccountsStep \/ AccountsDone \/ AccountsRaised
    \/ SetManagementInterface \/ SetSpanningTree \/ SetTimeSync
    \/ VlanStep \/ VlanDone
    \/ BeginTable \/ RemoveStaticForward \/ TableCleared
    \/ AddStaticForward \/ TableAdded

Spec == Init /\ [][Next]_vars

(***************************************************************************)
(* Properties.                                                             *)
(***************************************************************************)

TypeOK ==
    /\ Acc!TypeOK
    /\ Vl!TypeOK
    /\ cfg \in Configs
    /\ stage \in DOMAIN After \cup {"done", "aborted"}
    /\ sub \in {"begin", "clear", "add"}
    /\ setting \in [SettingKeys -> Values \cup {Old}]
    /\ fwd \in [Tables -> SUBSET {r \in FwdRows : r.VlanId \in VlanIds}]
    /\ warned \subseteq SettingKeys \cup Tables

\* Device configuration applied (spec 4.5 "replace multicast/unicast
\* static-forward tables, set spanning-tree, set time-sync"): when the
\* block completes, each declared static forward table holds exactly the
\* declared rows, whatever entries the device held before (rows whose add
\* only warned may be missing), and each declared setting is written
\* unless its Set call only warned.
DeviceConfigApplied ==
    stage = "done" =>
        /\ \A t \in Tables :
              /\ cfg[t] # Absent => fwd[t] \subseteq Range(cfg[t])
              /\ cfg[t] # Absent /\ t \notin warned => fwd[t] = Range(cfg[t])
        /\ \A s \in SettingKeys :
              cfg[s] # Absent /\ s \notin warned => setting[s] = cfg[s]

\* The VLAN v exists in the VLAN table, or the reconciliation reported it:
\* its own add_vlan / set_vlan raised or warned, or the VLAN loop was
\* abandoned before reaching it.
VlanReady(v) ==
    \/ v \in DOMAIN vlans
    \/ v \in vlanFailed \cup vlanWarned
    \/ vlAborted /\ v \in todoVlans

\* Forward entries reference existing VLANs (spec 4.5: the order of the
\* steps is dictated by remote referential dependencies): at the moment a
\* multicast or unicast static forward row is written to the bridge, the
\* VLAN it names already exists, unless the reconciliation reported it.
\* This needs the VLAN block of demo.py (lines 124-171) to run before both
\* tables (175-203) and to have read the rows of both.
ForwardRowsAfterVlans ==
    [][\A t \in Tables : \A e \in fwd'[t] \ fwd[t] : VlanReady(e.VlanId)]_vars

\* The rows add_*_static_forward_table can write: those with a VlanId.
WrittenRows(t) == {r \in Range(Declared(cfg[t])) : r.VlanId # NoVid}

McastTable == INSTANCE TableReplace WITH tbl <- fwd["mcast"], want <- WrittenRows("mcast")
UcastTable == INSTANCE TableReplace WITH tbl <- fwd["ucast"], want <- WrittenRows("ucast")

\* Each static forward table is replaced, and at no step does the device
\* hold a stale entry beside a newly added one: the clear of
\* clear_*_static_forward_table removes every child it read before any
\* add_*_static_forward_table call, whatever call raises or warns, and
\* only declared rows are written. Both tables implement TableReplace.
StaticForwardTablesReplaced == McastTable!Spec /\ UcastTable!Spec
====
