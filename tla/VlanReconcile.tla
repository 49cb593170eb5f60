---------------------------- MODULE VlanReconcile ----------------------------
(***************************************************************************)
(* Reconciliation of port modes and VLAN membership from the static        *)
(* forward tables of one bridge: the block of demo.py that merges the      *)
(* MulticastStaticForwardTable and UnicastStaticForwardTable rows, sets    *)
(* every egress port to Trunk (method.set_vlan_port) and then writes one   *)
(* aggregate VLAN record per VLAN id (method.add_vlan, falling back to     *)
(* method.set_vlan when the server answers "is exist").                    *)
(*                                                                         *)
(* The engine is one sequential coroutine; the nondeterminism is the       *)
(* input rows, the remote state found at the start, the server's answer    *)
(* to every call, and the iteration order of Python sets.                  *)
(***************************************************************************)
EXTENDS Naturals, Sequences, FiniteSets, SequencesExt, TLC

CONSTANTS
    Ports,      \* interface ids of the bridge
    VlanIds,    \* VLAN ids that rows may name
    NoVid,      \* a row without a "VlanId" key
    NoPort,     \* a row without an "EgressPort" key
    MaxRows     \* bound on the number of static forward rows

ASSUME /\ NoVid \notin VlanIds
       /\ NoPort \notin Ports
       /\ MaxRows \in Nat

PortModes == {"Access", "Trunk", "Hybrid"}

\* A multicast row carries the list EgressPorts, a unicast row the single
\* EgressPort; either may lack VlanId.
MulticastRows == [VlanId: VlanIds \cup {NoVid}, EgressPorts: SUBSET Ports,
                  EgressPort: {NoPort}]
UnicastRows   == [VlanId: VlanIds \cup {NoVid}, EgressPorts: {{}},
                  EgressPort: Ports \cup {NoPort}]

\* static_forward_tables: the multicast rows, then the unicast rows.
Inputs ==
    {m \o u : m \in BoundedSeq(MulticastRows, MaxRows),
              u \in BoundedSeq(UnicastRows, MaxRows)}
    \cap BoundedSeq(MulticastRows \cup UnicastRows, MaxRows)

\* The egress ports a row names, in both of its forms.
RowPorts(r) == r.EgressPorts \cup (IF r.EgressPort = NoPort THEN {} ELSE {r.EgressPort})

VARIABLES
    rows,        \* static_forward_tables (input, never changed)
    portMode,    \* remote: VlanPort.Mode of every port
    vlans,       \* remote: VlanTable, VLAN id -> MemberPort, for existing VLANs
    pc,          \* "ports" | "vlans" | "setvlan" | "done"
    cur,         \* the VLAN id set_vlan is called for after "is exist"
    todoPorts,   \* ports of ports_to_config not yet visited
    todoVlans,   \* ids of unique_vids not yet visited
    aborted,     \* the VLAN loop was left through the outer except
    portFailed,  \* ports whose set_vlan_port did not succeed
    vlanFailed,  \* VLAN ids whose add_vlan / set_vlan raised
    vlanWarned   \* VLAN ids whose add_vlan / set_vlan answered a Warning

vars == <<rows, portMode, vlans, pc, cur, todoPorts, todoVlans, aborted,
          portFailed, vlanFailed, vlanWarned>>

(***************************************************************************)
(* The collections the code builds from the rows.                          *)
(***************************************************************************)

\* ports_to_config: the set filled by the first loop over the rows.
PortsToConfig(seq) ==
    FoldLeft(LAMBDA acc, r : acc \cup RowPorts(r), {}, seq)

\* Mutant: the "if 'VlanId' in row" filter is missing.
UniqueVidsUnfiltered(seq) == {seq[i].VlanId : i \in DOMAIN seq}

\* unique_vids: the VlanId of every row that has one.
UniqueVids(seq) == {seq[i].VlanId : i \in {j \in DOMAIN seq : seq[j].VlanId # NoVid}}

\* Mutant: vlan_ports reassigned for every matching row instead of updated.
VlanPortsLastRowWins(seq, vid) ==
    FoldLeft(LAMBDA acc, r : IF r.VlanId = vid THEN RowPorts(r) ELSE acc, {}, seq)

\* vlan_ports: the egress ports of every row naming vid, in row order.
VlanPorts(seq, vid) ==
    FoldLeft(LAMBDA acc, r : IF r.VlanId = vid THEN acc \cup RowPorts(r) ELSE acc,
             {}, seq)

(***************************************************************************)
(* Reference definitions the properties compare with.                      *)
(***************************************************************************)
ReferencedPorts == UNION {RowPorts(rows[i]) : i \in DOMAIN rows}
DeclaredVids    == {rows[i].VlanId : i \in DOMAIN rows} \ {NoVid}
MemberUnion(v)  == UNION {RowPorts(rows[i]) : i \in {j \in DOMAIN rows : rows[j].VlanId = v}}

(***************************************************************************)
(* Remote state found at the start: any port modes, any VLAN records.      *)
(***************************************************************************)
VlanTables == UNION {[D -> SUBSET Ports] : D \in SUBSET VlanIds}

Init ==
    /\ rows \in Inputs
    /\ portMode \in [Ports -> PortModes]
    /\ vlans \in VlanTables
    \* "if static_forward_tables:" - the block is skipped without rows.
    /\ pc = IF rows = <<>> THEN "done" ELSE "ports"
    /\ cur = NoVid
    /\ todoPorts = PortsToConfig(rows)
    /\ todoVlans = {}
    /\ aborted = FALSE
    /\ portFailed = {}
    /\ vlanFailed = {}
    /\ vlanWarned = {}

(***************************************************************************)
(* Mutants of the steps below (plausible bugs in the same code).           *)
(***************************************************************************)

\* The per-port try/except placed around the whole port loop.
SetPortTrunkAbortOnFailure(p) ==
    /\ pc = "ports"
    /\ p \in todoPorts
    /\ \/ /\ portMode' = [portMode EXCEPT ![p] = "Trunk"]
          /\ todoPorts' = todoPorts \ {p}
          /\ UNCHANGED portFailed
       \/ /\ todoPorts' = {}
          /\ portFailed' = portFailed \cup {p}
          /\ UNCHANGED portMode
    /\ UNCHANGED <<rows, vlans, pc, cur, todoVlans, aborted, vlanFailed, vlanWarned>>

(***************************************************************************)
(* Steps.                                                                  *)
(***************************************************************************)

\* One iteration of "for port_id in ports_to_config": set_vlan_port with
\* Mode Trunk. A Warning answer is printed, any other failure raises and
\* is caught by the per-port except; both leave the port as it was.
SetPortTrunk(p) ==
    /\ pc = "ports"
    /\ p \in todoPorts
    /\ todoPorts' = todoPorts \ {p}
    /\ \/ /\ portMode' = [portMode EXCEPT ![p] = "Trunk"]
          /\ UNCHANGED portFailed
       \/ /\ portFailed' = portFailed \cup {p}
          /\ UNCHANGED portMode
    /\ UNCHANGED <<rows, vlans, pc, cur, todoVlans, aborted, vlanFailed, vlanWarned>>

\* End of the port loop: unique_vids is built and the VLAN loop starts.
StartVlans ==
    /\ pc = "ports"
    /\ todoPorts = {}
    /\ pc' = "vlans"
    /\ todoVlans' = UniqueVids(rows)
    /\ UNCHANGED <<rows, portMode, vlans, cur, todoPorts, aborted, portFailed,
                   vlanFailed, vlanWarned>>

\* The record written for vid: {VlanId, VlanName, MemberPort: vlan_ports}.
Members(vid) == VlanPorts(rows, vid)

\* The VLAN table after a call the server answered with a Warning: the code
\* prints the message and goes on; the answer does not say whether the
\* record was written.
WarnedTables(vid) == {vlans, (vid :> Members(vid)) @@ vlans}

\* The except clauses: a raise of set_vlan, or one of add_vlan without
\* "is exist", propagates to the outer except, which prints it; the rest of
\* unique_vids is skipped and the block is over.
AbandonVlans(vid) ==
    /\ pc' = "done"
    /\ aborted' = TRUE
    /\ vlanFailed' = vlanFailed \cup {vid}
    /\ UNCHANGED <<vlans, vlanWarned, cur>>

\* One iteration of "for vid in unique_vids": add_vlan with MemberPort set
\* to vlan_ports. It succeeds, warns (printed), or raises; an existing id
\* is answered "is exist".
AddVlan(vid) ==
    /\ pc = "vlans"
    /\ vid \in todoVlans
    /\ todoVlans' = todoVlans \ {vid}
    /\ \/ /\ vid \notin DOMAIN vlans
          /\ vlans' = (vid :> Members(vid)) @@ vlans
          /\ UNCHANGED <<pc, cur, aborted, vlanFailed, vlanWarned>>
       \/ /\ vlans' \in WarnedTables(vid)
          /\ vlanWarned' = vlanWarned \cup {vid}
          /\ UNCHANGED <<pc, cur, aborted, vlanFailed>>
       \/ /\ vid \in DOMAIN vlans                     \* "is exist"
          /\ pc' = "setvlan"
          /\ cur' = vid
          /\ UNCHANGED <<vlans, aborted, vlanFailed, vlanWarned>>
       \/ AbandonVlans(vid)
    /\ UNCHANGED <<rows, portMode, todoPorts, portFailed>>

\* set_vlan with the same record: replaces MemberPort, warns, or raises.
SetVlan ==
    /\ pc = "setvlan"
    /\ \/ /\ vlans' = [vlans EXCEPT ![cur] = Members(cur)]
          /\ pc' = "vlans"
          /\ cur' = NoVid
          /\ UNCHANGED <<aborted, vlanFailed, vlanWarned>>
       \/ /\ vlans' \in WarnedTables(cur)
          /\ vlanWarned' = vlanWarned \cup {cur}
          /\ pc' = "vlans"
          /\ cur' = NoVid
          /\ UNCHANGED <<aborted, vlanFailed>>
       \/ AbandonVlans(cur)
    /\ UNCHANGED <<rows, portMode, todoPorts, todoVlans, portFailed>>

\* Normal end of the VLAN loop.
FinishVlans ==
    /\ pc = "vlans"
    /\ todoVlans = {}
    /\ pc' = "done"
    /\ UNCHANGED <<rows, portMode, vlans, cur, todoPorts, todoVlans, aborted,
                   portFailed, vlanFailed, vlanWarned>>

Next ==
    \/ \E p \in Ports : SetPortTrunk(p)
    \/ StartVlans
    \/ \E v \in VlanIds : AddVlan(v)
    \/ SetVlan
    \/ FinishVlans

Spec == Init /\ [][Next]_vars

(***************************************************************************)
(* Properties.                                                             *)
(***************************************************************************)

TypeOK ==
    /\ rows \in Inputs
    /\ portMode \in [Ports -> PortModes]
    /\ vlans \in VlanTables
    /\ pc \in {"ports", "vlans", "setvlan", "done"}
    /\ cur \in VlanIds \cup {NoVid}
    /\ todoPorts \subseteq Ports
    /\ todoVlans \subseteq VlanIds
    /\ aborted \in BOOLEAN
    /\ portFailed \subseteq Ports
    /\ vlanFailed \subseteq VlanIds
    /\ vlanWarned \subseteq VlanIds

\* Partial failure isolation of the port loop (spec 4.3 step 2): when the
\* block is over, every port named by any row, in EgressPorts or in
\* EgressPort, is in Trunk mode or its own set_vlan_port call failed; a
\* failure on one port never leaves another port unconfigured.
PortsTrunkOrReported ==
    pc = "done" =>
        \A p \in ReferencedPorts : portMode[p] = "Trunk" \/ p \in portFailed

\* VLAN union correctness (spec 8): when the VLAN loop ran to its end, every
\* declared VLAN whose calls did not only warn exists with MemberPort equal
\* to the union of the egress ports of all rows naming it, whether it was
\* created by add_vlan or already existed and was replaced by set_vlan.
VlanMembershipApplied ==
    (pc = "done" /\ ~aborted) =>
        \A v \in DeclaredVids \ vlanWarned :
            v \in DOMAIN vlans /\ vlans[v] = MemberUnion(v)

\* Failure isolation of the VLAN loop (spec 4.3, rationale): a failure on
\* one VLAN must not prevent the remaining VLANs from being applied, so at
\* the end every declared VLAN whose own call neither raised nor warned
\* holds the union of its rows' egress ports.
VlanFailureIsolated ==
    pc = "done" =>
        \A v \in DeclaredVids \ (vlanWarned \cup vlanFailed) :
            v \in DOMAIN vlans /\ vlans[v] = MemberUnion(v)
=============================================================================
