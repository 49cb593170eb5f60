--------------------------- MODULE InterfaceTables ---------------------------
(***************************************************************************)
(* The per-interface block of demo.py (the loop over a bridge's            *)
(* EthernetInterfaces): PerStreamPriorities replaced by                    *)
(* method.clear_per_stream_priorities then add_per_stream_priority per     *)
(* entry; SpanningTreePort by set_spanning_tree_port; the gate control     *)
(* list replaced by clear_time_aware_shaper (RemoveGateControl(0) once per *)
(* child of the TimeAwareShaper node) then insert_time_aware_shaper per    *)
(* entry, the server inserting each at its Index; TimeSyncPort by          *)
(* set_ieee_dot1as_2011_port. A raise ends the bridge's configuration      *)
(* and the run (pc "aborted").                                             *)
(***************************************************************************)
EXTENDS Naturals, Sequences, FiniteSets, SequencesExt

CONSTANTS
    PspEntries,   \* per-stream priority entries (EtherType, VlanId, ...)
    Gates,        \* the queue states of a gate control entry, abstracted
    Settings,     \* a SpanningTreePort or TimeSyncPort setting
    Old,          \* the setting found on the device
    Absent,       \* the key is missing from the interface's config
    Bad,          \* an entry that fails to compile (missing key, bad enum)
    MaxIfaces,    \* bound on the number of EthernetInterfaces
    MaxEntries    \* bound on the length of each declared and remote list

ASSUME /\ Old \notin Settings /\ {Absent, Bad} \cap (Settings \cup {Old}) = {}
       /\ {MaxIfaces, MaxEntries} \subseteq Nat

Ifaces     == 1..MaxIfaces
GclEntries == [Index: 0..MaxEntries - 1, gate: Gates]

\* One entry of EthernetInterfaces.
IfaceConfigs ==
    [psp: BoundedSeq(PspEntries \cup {Bad}, MaxEntries) \cup {Absent},
     stp: Settings \cup {Absent, Bad},
     tas: BoundedSeq(GclEntries \cup {Bad}, MaxEntries) \cup {Absent},
     ts:  Settings \cup {Absent}]

VARIABLES
    psp,        \* remote: PerStreamPriorities of each interface
    stp,        \* remote: SpanningTreePort of each interface
    gcl,        \* remote: the gate control list of each interface, in order
    ts,         \* remote: TimeSyncPort of each interface
    ifaces,     \* input: EthernetInterfaces
    k,          \* the interface being configured
    st,         \* its step: "psp_clear" ... "ts", or "next", "done", "aborted"
    children,   \* the children read by the current clear_* call
    j,          \* index into children or into the declared list
    warned      \* <<interface, key>> pairs some call for which only warned

vars == <<psp, stp, gcl, ts, ifaces, k, st, children, j, warned>>

Cfg == ifaces[k]

Init ==
    /\ psp \in [Ifaces -> SUBSET PspEntries]
    /\ stp \in [Ifaces -> Settings \cup {Old}]
    /\ gcl \in [Ifaces -> BoundedSeq(Gates, MaxEntries)]
    /\ ts \in [Ifaces -> Settings \cup {Old}]
    /\ ifaces \in BoundedSeq(IfaceConfigs, MaxIfaces)
    /\ k = 1
    /\ st = "next"
    /\ children = <<>>
    /\ j = 1
    /\ warned = {}

\* A raise: the rest of the bridge (and of the run) is skipped.
Abort == st' = "aborted" /\ UNCHANGED <<psp, stp, gcl, ts, j, warned>>

(***************************************************************************)
(* The loop over EthernetInterfaces.                                       *)
(***************************************************************************)

\* get_interface_node: the next interface, or the end of the loop. An entry
\* without InterfaceId raises KeyError.
NextIface ==
    /\ st = "next"
    /\ \/ /\ st' = IF k <= Len(ifaces) THEN "psp" ELSE "done"
          /\ UNCHANGED <<psp, stp, gcl, ts, j, warned>>
       \/ /\ k <= Len(ifaces)
          /\ Abort
    /\ UNCHANGED <<ifaces, k, children>>

(***************************************************************************)
(* PerStreamPriorities: clear_per_stream_priorities, then the adds.        *)
(***************************************************************************)

\* "if 'PerStreamPriorities' in interface_config", then get_children.
BeginPsp ==
    /\ st = "psp"
    /\ IF Cfg.psp = Absent
       THEN st' = "stp" /\ UNCHANGED children
       ELSE st' = "psp_clear" /\ children' \in SetToSeqs(psp[k])
    /\ j' = 1
    /\ UNCHANGED <<psp, stp, gcl, ts, ifaces, k, warned>>

\* RemovePerStreamPriority(child): any non-zero status raises.
RemovePerStreamPriority ==
    /\ st = "psp_clear"
    /\ j <= Len(children)
    /\ \/ /\ psp' = [psp EXCEPT ![k] = @ \ {children[j]}]
          /\ j' = j + 1
          /\ UNCHANGED <<st, stp, gcl, ts, warned>>
       \/ Abort
    /\ UNCHANGED <<ifaces, k, children>>

\* Mutant: the remove loop stops one child early.
PspClearedEarly ==
    /\ st = "psp_clear"
    /\ j >= Len(children)
    /\ st' = "psp_add"
    /\ j' = 1
    /\ UNCHANGED <<psp, stp, gcl, ts, ifaces, k, children, warned>>

PspCleared ==
    /\ st = "psp_clear"
    /\ j > Len(children)
    /\ st' = "psp_add"
    /\ j' = 1
    /\ UNCHANGED <<psp, stp, gcl, ts, ifaces, k, children, warned>>

\* Mutant: the entry is sent without the EtherType / VlanId lookups.
AddPerStreamPriorityUnchecked ==
    /\ st = "psp_add"
    /\ j <= Len(Cfg.psp)
    /\ psp' = [psp EXCEPT ![k] = @ \cup {Cfg.psp[j]}]
    /\ j' = j + 1
    /\ UNCHANGED <<st, stp, gcl, ts, warned, ifaces, k, children>>

\* add_per_stream_priority: EtherType and VlanId are required (KeyError);
\* a Warning answer is printed, any other non-zero status raises.
AddPerStreamPriority ==
    LET e == Cfg.psp[j] IN
    /\ st = "psp_add"
    /\ j <= Len(Cfg.psp)
    /\ \/ /\ e # Bad
          /\ psp' = [psp EXCEPT ![k] = @ \cup {e}]
          /\ j' = j + 1
          /\ UNCHANGED <<st, stp, gcl, ts, warned>>
       \/ /\ e # Bad
          /\ psp' \in {psp, [psp EXCEPT ![k] = @ \cup {e}]}
          /\ warned' = warned \cup {<<k, "psp">>}
          /\ j' = j + 1
          /\ UNCHANGED <<st, stp, gcl, ts>>
       \/ Abort
    /\ UNCHANGED <<ifaces, k, children>>

PspAdded ==
    /\ st = "psp_add"
    /\ j > Len(Cfg.psp)
    /\ st' = "stp"
    /\ UNCHANGED <<psp, stp, gcl, ts, ifaces, k, children, j, warned>>

(***************************************************************************)
(* One Set call of a single setting: SpanningTreePort and TimeSyncPort.    *)
(***************************************************************************)

\* The setting of interface k after a Set of value v: written, or (Warning
\* printed) perhaps written.
SetOutcomes(var, v) == {[var EXCEPT ![k] = v], var}

\* set_spanning_tree_port: Edge and LinkType strings outside their enums
\* raise before the call; Warning is printed, other errors raise.
SetSpanningTreePort ==
    /\ st = "stp"
    /\ \/ /\ Cfg.stp = Absent
          /\ st' = "tas"
          /\ UNCHANGED <<stp, warned>>
       \/ /\ Cfg.stp \in Settings
          /\ stp' = [stp EXCEPT ![k] = Cfg.stp]
          /\ st' = "tas"
          /\ UNCHANGED warned
       \/ /\ Cfg.stp \in Settings
          /\ stp' \in SetOutcomes(stp, Cfg.stp)
          /\ warned' = warned \cup {<<k, "stp">>}
          /\ st' = "tas"
       \/ /\ Cfg.stp # Absent
          /\ st' = "aborted"
          /\ UNCHANGED <<stp, warned>>
    /\ UNCHANGED <<psp, gcl, ts, ifaces, k, children, j>>
(***************************************************************************)
(* TimeAwareShaper: clear_time_aware_shaper, then the inserts.             *)
(***************************************************************************)

\* "if 'TimeAwareShaper' in interface_config", then get_children: one
\* child per gate control entry.
BeginTas ==
    /\ st = "tas"
    /\ IF Cfg.tas = Absent
       THEN st' = "ts" /\ UNCHANGED children
       ELSE st' = "tas_clear" /\ children' = gcl[k]
    /\ j' = 1
    /\ UNCHANGED <<psp, stp, gcl, ts, ifaces, k, warned>>

\* "for _ in children": RemoveGateControl(0), the first entry; the server
\* fails on an empty list; any non-zero status raises.
RemoveGateControl ==
    /\ st = "tas_clear"
    /\ j <= Len(children)
    /\ \/ /\ gcl[k] # <<>>
          /\ gcl' = [gcl EXCEPT ![k] = Tail(@)]
          /\ j' = j + 1
          /\ UNCHANGED <<st, psp, stp, ts, warned>>
       \/ Abort
    /\ UNCHANGED <<ifaces, k, children>>

\* Mutant: the remove loop stops one child early.
TasClearedEarly ==
    /\ st = "tas_clear"
    /\ j >= Len(children)
    /\ st' = "tas_add"
    /\ j' = 1
    /\ UNCHANGED <<psp, stp, gcl, ts, ifaces, k, children, warned>>

TasCleared ==
    /\ st = "tas_clear"
    /\ j > Len(children)
    /\ st' = "tas_add"
    /\ j' = 1
    /\ UNCHANGED <<psp, stp, gcl, ts, ifaces, k, children, warned>>

\* InsertGateControl(entry): the server inserts the entry at its Index
\* (0-based), shifting the entries from there on; an Index past the end is
\* an error.
Inserted(e) == InsertAt(gcl[k], e.Index + 1, e.gate)

\* insert_time_aware_shaper: Index and Queue0..7 are required (KeyError);
\* a Warning answer is printed, any other non-zero status raises.
InsertGateControl ==
    LET e == Cfg.tas[j] IN
    /\ st = "tas_add"
    /\ j <= Len(Cfg.tas)
    /\ \/ /\ e # Bad
          /\ e.Index <= Len(gcl[k])
          /\ gcl' = [gcl EXCEPT ![k] = Inserted(e)]
          /\ j' = j + 1
          /\ UNCHANGED <<st, psp, stp, ts, warned>>
       \/ /\ e # Bad
          /\ e.Index <= Len(gcl[k])
          /\ gcl' \in {gcl, [gcl EXCEPT ![k] = Inserted(e)]}
          /\ warned' = warned \cup {<<k, "tas">>}
          /\ j' = j + 1
          /\ UNCHANGED <<st, psp, stp, ts>>
       \/ Abort
    /\ UNCHANGED <<ifaces, k, children>>

TasInserted ==
    /\ st = "tas_add"
    /\ j > Len(Cfg.tas)
    /\ st' = "ts"
    /\ UNCHANGED <<psp, stp, gcl, ts, ifaces, k, children, j, warned>>

\* set_ieee_dot1as_2011_port, then the next interface. A Warning is
\* printed, any other non-zero status raises.
SetIeeeDot1AS2011Port ==
    /\ st = "ts"
    /\ \/ /\ Cfg.ts = Absent
          /\ st' = "next" /\ k' = k + 1
          /\ UNCHANGED <<ts, warned>>
       \/ /\ Cfg.ts \in Settings
          /\ ts' = [ts EXCEPT ![k] = Cfg.ts]
          /\ st' = "next" /\ k' = k + 1
          /\ UNCHANGED warned
       \/ /\ Cfg.ts \in Settings
          /\ ts' \in SetOutcomes(ts, Cfg.ts)
          /\ warned' = warned \cup {<<k, "ts">>}
          /\ st' = "next" /\ k' = k + 1
       \/ /\ Cfg.ts \in Settings
          /\ st' = "aborted"
          /\ UNCHANGED <<ts, k, warned>>
    /\ UNCHANGED <<psp, stp, gcl, ifaces, children, j>>

Next ==
    \/ NextIface
    \/ BeginPsp \/ RemovePerStreamPriority \/ PspCleared
    \/ AddPerStreamPriority \/ PspAdded
    \/ SetSpanningTreePort
    \/ BeginTas \/ RemoveGateControl \/ TasCleared
    \/ InsertGateControl \/ TasInserted
    \/ SetIeeeDot1AS2011Port

Spec == Init /\ [][Next]_vars

(***************************************************************************)
(* Properties.                                                             *)
(***************************************************************************)

TypeOK ==
    /\ psp \in [Ifaces -> SUBSET PspEntries]
    /\ stp \in [Ifaces -> Settings \cup {Old}]
    /\ \A i \in Ifaces : gcl[i] \in Seq(Gates)
    /\ ts \in [Ifaces -> Settings \cup {Old}]
    /\ k \in 1..MaxIfaces + 1
    /\ st \in {"next", "psp", "psp_clear", "psp_add", "stp", "tas", "tas_clear",
               "tas_add", "ts", "done", "aborted"}
    /\ j \in 1..MaxEntries + 1
    /\ warned \subseteq Ifaces \X {"psp", "stp", "tas", "ts"}

\* The declared gate control list numbers its entries 0, 1, ... in order,
\* as the Index fields of a list written for insertion in order do.
IndexesArePositions(list) == \A n \in DOMAIN list : list[n] # Bad /\ list[n].Index = n - 1

DeclaredPsp(list) == {list[n] : n \in DOMAIN list}

\* Table replacement (spec 4.5, 8 "clear any existing gate-control entries
\* before inserting the new ones in the declared order"): when every
\* interface is configured, each declared table has replaced the remote
\* one. PerStreamPriorities holds exactly the declared entries (those whose
\* add only warned may be missing); the gate control list is the declared
\* list in declared order, whatever list the device held before; and the
\* two settings are the declared ones. Keys a call for which only warned
\* are exempt.
InterfacesConfigured ==
    st = "done" =>
        \A i \in DOMAIN ifaces :
            LET c == ifaces[i] IN
            /\ c.psp # Absent /\ <<i, "psp">> \notin warned =>
                   psp[i] = DeclaredPsp(c.psp)
            /\ c.psp # Absent => psp[i] \subseteq DeclaredPsp(c.psp)
            /\ c.tas # Absent /\ IndexesArePositions(c.tas) /\ <<i, "tas">> \notin warned =>
                   gcl[i] = [n \in DOMAIN c.tas |-> c.tas[n].gate]
            /\ c.stp \in Settings /\ <<i, "stp">> \notin warned => stp[i] = c.stp
            /\ c.ts \in Settings /\ <<i, "ts">> \notin warned => ts[i] = c.ts

\* The entries add_per_stream_priority can write for interface i.
PspWritten(i) ==
    IF i \in DOMAIN ifaces /\ ifaces[i].psp # Absent
    THEN DeclaredPsp(ifaces[i].psp) \ {Bad}
    ELSE {}

PspTable(i) == INSTANCE TableReplace WITH tbl <- psp[i], want <- PspWritten(i)

\* PerStreamPriorities of every interface is replaced without a mixed
\* step: clear_per_stream_priorities removes every child it read before
\* the first add_per_stream_priority, so whatever call raises or warns,
\* the interface never holds a stale entry beside a new one, and only
\* declared entries are written. Each table implements TableReplace (its
\* Init is TRUE, so its Spec is the step formula below).
PerStreamPrioritiesReplaced ==
    [][\A i \in Ifaces : [PspTable(i)!Next]_(PspTable(i)!absVars)]_vars
=============================================================================
