# TLA+ models of the TSN configuration deployment client

This directory holds TLA+ models of the OPC UA client that deploys a TSN
topology to a Moxa device-management server. Each module is checked with TLC.
The modules are translated from these sources:

| file | role |
|---|---|
| `src/cogsworth/opcua/opcua_class_based/client_code/demo.py` | orchestrator (`main`) for the class-based project API |
| `src/module/opcua/opcua_class_based/client_code/method.py` | one function per remote operation used by `demo.py` |
| `src/module/opcua/opcua_class_based/client_code/ER9/method.py` | operations and long-running jobs of the ER9 API |
| `src/cogsworth_module/opcua/opcua_class_based/client_code/ER9/class_based_client_test.py` | the ER9 pipeline (steps 1-16) |

## 1. Inventory

### Parts and how they interact

The client is one asyncio coroutine. It sends remote calls strictly in
sequence, and every call is awaited before the next one. The only actors that
run concurrently with it are:
- the server, which answers calls, holds the remote state, and runs
  long-running jobs (Compute, Deploy, discovery, ...);
- anything else the server does to its object tree while the client reads it.

The parts of the client:
- **Orchestrator** (`demo.py main`, test `main`). It runs the steps in
  dependency order: profiles, then project, then bridges (their interfaces,
  then their device config), then end stations, then links. In the ER9 test it
  continues with time slots, streams, Compute and Deploy. Any exception that
  escapes ends the run through the outer `except`.
- **Entity compiler**. Each `add_*`/`set_*` first builds its record field by
  field, and an unknown enum string or a missing required key raises before the
  call.
- **Upsert**. Devices use Add, then Set on *any* failure (`add_bridge`,
  `add_end_station`). VLANs use Add, then Set on `"is exist"`. Accounts use
  Add, with `"already in use"` treated as a warning.
- **Table replacement**, clear-then-add. It applies to device accounts,
  per-stream priorities, gate-control lists and static forward tables. The
  clear reads the children once, then removes each.
- **Collection reconciliation**. It merges the multicast and unicast static
  forward rows into port modes (Trunk) and one VLAN record per VLAN id.
- **Long-running job poller**. It calls `Start` and ignores the answer. It then
  reads `CurrentState` until the text is not the in-progress label, and returns
  `ErrorCode`.
- **Error classification**, by substring: `Warning`, `is exist`,
  `already in use`, `The device account table cannot be empty`. Everything else
  raises.

### State

- **Remote:**
  - the project and its devices (keyed by IP);
  - links;
  - the account table of a bridge, which the server keeps non-empty;
  - port modes and the VLAN table;
  - gate-control lists, per-stream priority and static forward tables;
  - job nodes (`CurrentState`, `ErrorCode`);
  - profiles.
- **Client:** the position in the script, loop indices, the `children`
  snapshots, and the `cnt` of a poll loop.

### Behaviours that make it hard

- Partial failure inside loops. Some loops have a per-item `except` (ports);
  others have one `except` around the whole loop (VLANs, where the rest is
  skipped).
- Stale snapshots (`children`) and results that are discarded (`Start`).
- Classification by message text, sometimes applied to the wrong output
  argument (`add_project` checks the status for `"Warning"`).
- A state left behind by an earlier run that raised: the project is only
  removed at the end of a successful run.
- Server jobs running concurrently with the poller, with no timeout.

## 2. Modules

| module | models | source |
|---|---|---|
| `VlanReconcile` | the static-forward-table block of `demo.py` (lines 117-171), with `set_vlan_port`, `add_vlan` and `set_vlan` | demo.py, method.py |
| `DeviceAccounts` | `clear_device_accounts`, then `add_device_account` per declared account (demo.py 99-108) | method.py 670-716 |
| `TableReplace` | what replacing a table promises while it runs: entries only leave it until it holds declared entries alone, then only declared entries are written | spec 4.5 (abstract) |
| `JobAbstract` | what a long-running job promises: begin, end with a code, return that code | spec 4.4 (abstract) |
| `LongRunningJob` | one poll loop (`compute_tsn_project`; the other `*_tsn_project` and `start_*` loops differ only in the label) with the server job | ER9/method.py 89-132 |
| `ComputeDeploy` | steps 12-16 of the ER9 test: two `LongRunningJob` instances composed with the result fetches and the early returns | test 196-233 |
| `Er9Pipeline` | the whole ER9 test (`class_based_client_test.py main`): authentication, `connect`, `load_type_definitions` and the namespace and folder lookups before the try (each failure returns or leaves `main` with the session as it is), then inside the try: read the configuration, remove the project, check/remove/import each custom profile, check the builtins, add the project and its setting, the bridge, end-station and link loops, `set_time_slot`, the stream loop that resolves `TimeSlot_<idx>` by name, then `ComputeDeploy` by INSTANCE; and the `finally` that disconnects | test 62-233, ER9/method.py |
| `InterfaceTables` | the loop over a bridge's `EthernetInterfaces` (demo.py 60-95): per-stream priority clear-then-add, `set_spanning_tree_port`, `clear_time_aware_shaper` then `insert_time_aware_shaper`, `set_ieee_dot1as_2011_port` | method.py 501-668 |
| `DeviceConfig` | the `DeviceConfig` block of a bridge (demo.py 96-203) in its order: `DeviceAccounts` and `VlanReconcile` composed by INSTANCE, then `set_management_interface`, the multicast static forward table (clear, then add), `set_spanning_tree`, `set_time_sync`, and the unicast static forward table | demo.py, method.py 600-893 |
| `ProjectDeploy` | `demo.py main`: login (a failure returns), pre-clean, profiles, ProjectName check, project, settings, device upsert (`add_bridge`/`set_bridge` and `add_end_station`/`set_end_station` as separate actions sharing the Add call and the except branch), links, closing removal | demo.py, method.py |

How code maps to each module:
- State is VARIABLES. Every remote call becomes a disjunct per answer class
  (ok, Warning, "exists", other error). A raise that escapes sets `pc` to
  `"aborted"` (`"done"` for the blocks whose except only prints).
- Data is abstracted to what the properties tell apart:
  - a device is its kind plus one model value for all its other fields;
  - an account is a user name plus one settings value;
  - a row is its VLAN id plus its egress ports;
  - records that fail to compile are the model values `NoUser`, `NoIp`,
    `NoIfName` (an end-station interface without `InterfaceName`, a KeyError
    before the Add call that ends the run), `NoVid`/`NoPort`, `BadLink`.
- Python sets iterated by the code (`ports_to_config`, `unique_vids`) are
  visited in every order, through `\E`. The browse order of `get_children` is
  every permutation (`SetToSeqs`).
- Inputs are enumerated in `Init`: every document up to the bounds, and every
  remote state a previous run can leave behind.

`LongRunningJob` refines `JobAbstract`. The mapping is
`AbstractPhase`/`ownCode`/`result`. `ownCode` records the code of the job this
client's `Start` created, so the refinement says: "the poller returns the code
of its own job, after that job ended". `ComputeDeploy` instantiates
`LongRunningJob` twice, with the variables renamed. The refinement is checked
on the Compute loop (`ComputeRefinesJob`); the Deploy loop is the same module
under other names, so a second check would say nothing new.

Two server behaviours of the job are taken as assumptions, not modelled:
the server sets `CurrentState` to Running as part of `Start` (so the first
poll never reads the state of the previous job), and a job's `CurrentState`
and `ErrorCode` change together when it ends. Under the second one the two
reads of a poll (ER9/method.py 94 and 97) can be merged into one step, since
no interleaving of the server between them is visible. A `Start` whose call
raises, or a missing Compute, Deploy or Start node, is modelled: it leaves the
try and is printed.

The clear-then-add replacements of the static forward tables (`DeviceConfig`)
and of the per-stream priorities (`InterfaceTables`) refine `TableReplace`.
The mapping is `tbl <- fwd[t]` (or `psp[i]`) and `want <-` the declared
entries that compile (`WrittenRows`, `PspWritten`). A raise may stop the
replacement at any step; the abstract spec allows that as stuttering. What it
forbids is an add while a stale entry is still in the table, and the write of
an undeclared entry. The invariants `DeviceConfigApplied` and
`InterfacesConfigured` only look at a completed block; the refinement also
covers the runs that stop part-way, where the device keeps whatever the last
call left. Two tables do not refine it:
- the device accounts, because the server refuses to remove the last account,
  so a stale account may stay beside the new ones; spec 7 classifies that
  refusal, and "already in use" on an add, as Warnings, so this is what the
  spec allows (`DeclaredAccountsPresent` states what it still promises);
- the gate control list, because it is a sequence written by insertion at an
  index; its order is what `InterfacesConfigured` checks.

## 3. Runs

| run | cfg | expect | what it shows |
|---|---|---|---|
| vlan_reconcile | MC_VlanReconcile.cfg | pass | Every port named by any row ends in Trunk or its own call failed (`PortsTrunkOrReported`). A VLAN loop that ran to its end writes, for every VLAN, the union of the egress ports of all its rows, whether it created the VLAN or replaced it after "is exist" (`VlanMembershipApplied`). |
| vlan_isolation | MC_VlanReconcile_isolation.cfg | violation | One raising `add_vlan`/`set_vlan` skips the remaining VLANs (`VlanFailureIsolated`, spec 4.3). |
| er9_pipeline | MC_Er9Pipeline.cfg | pass | Every stream is added under a time slot this run declared, not one a left-over project or the server's defaults provide (`StreamsUnderDeclaredSlots`). A run that reaches the end of Deploy imported every custom profile and added every stream (`SuccessMeansComplete`). The script goes past the profile steps only with every declared profile on the server: step 2.1 removes a profile before step 3 re-imports it, and a failed re-import must end the script (`DeclaredProfilesPresent`). Deploy only starts after this run's Compute ended with 0 (`DeployRequiresComputed`), success needs both codes to be 0 (`SuccessMeansDeployed`), the Compute poll loop refines `JobAbstract` (`ComputeRefinesJob`), and the script ends (`ScriptEnds`). Once the script is inside its try, the session is always closed, whichever way the try is left (`SessionClosedAfterTry`). |
| compute_deploy_startfail | MC_ComputeDeploy_startfail.cfg | violation | With a server that may refuse `Start`, the poller returns the old ErrorCode 0 and Deploy runs. |
| device_accounts | MC_DeviceAccounts.cfg | pass | After the replacement, every declared account that did not only warn is present, and at most one stale account survives (`DeclaredAccountsPresent`). |
| interface_tables | MC_InterfaceTables.cfg | pass | Whatever tables the interface held, a loop that reaches its end leaves exactly the declared per-stream priorities, the declared gate control list in declared order, and the declared spanning-tree and time-sync settings. Keys whose call only warned are exempt (`InterfacesConfigured`). At every step, in runs that raise too, the per-stream priority table implements `TableReplace` (`PerStreamPrioritiesReplaced`). |
| device_config | MC_DeviceConfig.cfg | pass | The block ends with both static forward tables holding exactly the declared rows and the declared settings written (`DeviceConfigApplied`). No static forward row, multicast *or unicast*, is ever written before the VLAN it names exists, unless that VLAN's own call failed or warned, or the VLAN loop was abandoned before it (`ForwardRowsAfterVlans`, an action property checked at every step). It relates the two composed parts and their order: the reconciliation (demo.py 124-171) must run before both tables are written (175-203), and must have read the unicast rows, though that table is written last. At every step, in runs that raise too, both static forward tables implement `TableReplace` (`StaticForwardTablesReplaced`). |
| project_deploy | MC_ProjectDeploy.cfg | pass | Starting from any project left behind, every declared device and link is in place with its declared kind and settings before the closing removal (`DeclaredTopologyApplied`). |
| project_deploy_stale | MC_ProjectDeploy_stale.cfg | violation | A failed pre-clean is tolerated, and stale devices survive (`NoStaleDevices`). |
| project_deploy_warning | MC_ProjectDeploy_warning.cfg | violation | A Warning from AddProject aborts the run (`WarningsNeverAbort`). |
| project_deploy_verbatim | MC_ProjectDeploy_verbatim.cfg | violation | A real Add error is swallowed: a device of that IP survives a failed pre-clean, the Add fails, `set_bridge` succeeds, and the run goes on with no error in flight (`FailureReportedVerbatim`). The model keeps the chained `__context__` that `traceback.print_exc()` prints, so a fallback that raises is not counted as a lost error. |

Each finding is listed in `PROJECT.json` with its source line. Each property
of a passing run has a mutant, a plausible bug in the mapped code, that TLC
catches. Mutants that do *not* break a property are worth knowing too.
Device profiles are imported (demo.py 31-36) before the `ProjectName`
check (line 38). A document without a ProjectName therefore changes the
server before it is rejected, while spec 6 asks for the rejection before any
remote mutation. This is plain from the order of the lines, and a unit test
shows it directly, so no run is spent on it.

Stopping the remove loop of `clear_time_aware_shaper` one child early is
caught by `InterfacesConfigured`: an old gate entry then survives behind the
inserted ones. `RemoveGateControl` always removes index 0, and the model
follows the server in inserting each entry at its `Index`. The declared order
is therefore reproduced only when the declared Indexes are 0, 1, ... in order.
The property states this premise (`IndexesArePositions`), and the hazard list
records it.
Stopping the remove loop of `clear_device_accounts` one child early leaves
`DeclaredAccountsPresent` intact: the last child is exactly the one the server
refuses to remove anyway.

### Bounds and why they are enough

- **VlanReconcile:**
  - 2 ports, 2 VLAN ids, up to 2 rows;
  - each row is multicast or unicast, with or without a VLAN id;
  - any initial port modes and VLAN table.

  Two VLANs are needed for "one failure skips another"; two rows of one VLAN
  are needed for the union; two ports are needed for per-port isolation.
- **DeviceAccounts:** 3 users, 2 settings, up to 2 declared accounts, and any
  non-empty initial table. This covers a stale account and an existing
  declared one, in every browse order.
- **ComputeDeploy** (violation run): 2 terminal labels, codes {0, 1}, at
  most 2 polls per job, 0-2 streams, a `Start` that may be refused.
- **Er9Pipeline:**
  - 1 custom profile and 1 builtin, each present or absent on the server;
  - time slots {0, 1}; a left-over project, if any, has any set of slots;
  - profile, builtin and stream lists of up to 2 entries (`MaxItems`), so
    a profile is listed twice and two streams name the same or different
    slots;
  - bridge, end-station and link lists of exactly 1 entry (`MaxDevices`):
    each entry is one call with the same answers, so a second adds nothing,
    and an empty list only skips its step;
  - the `ComputeDeploy` bounds above, with `Start` always accepted and 1
    stream result.

  This is 1.1M states in under a minute. Letting the device lists also be
  empty multiplies the initial states by 8 and takes over 7 minutes with the
  liveness checks. The server
  assumptions are: `AddTsnProject` on a name still in use may refuse or
  return the old node; `SetTimeSlot` replaces the slot table (the test never
  clears it); a profile's display name equals its `NodeName`. A required key missing from
  the configuration (a KeyError while a record is built, in
  `set_tsn_project_setting`, `add_tsn_bridges`, `set_time_slot` or
  `add_class_based_stream`) is modelled as a raise that leaves the try
  (`RaisedInTry`).
- **InterfaceTables:**
  - 1 interface;
  - 2 per-stream priority entries and 2 gate values;
  - lists of up to 2 entries, also malformed (`Bad`);
  - Indexes 0..1, so both in-order and out-of-order Indexes occur;
  - one setting besides the old one;
  - any initial tables.

  The server is assumed to give the `TimeAwareShaper` node one `Object`
  child per gate control entry (method.py 592), so `BeginTas` takes the
  count from the gate list; a different count is a server defect the client
  cannot tell apart.

  Interfaces are independent: every call addresses interface `k` only. One
  interface therefore covers every path through the loop body. Two entries
  are the least needed for order and for a stale entry.
- **DeviceConfig:**
  - 1 user and 1 account setting, up to 1 declared account;
  - 1 port and 1 VLAN id;
  - 1 static forward row in total (multicast or unicast, with or without a VlanId);
  - one value per single-Set key, or the key absent;
  - up to 1 stale entry per forward table.

  This is 6.3M states, checked in about 2 minutes. Two rows give more than 36M states and do not finish
  in minutes. The multi-row union and the port loop are checked in
  `VlanReconcile` on its own, and the account table in `DeviceAccounts`. The
  composition needs one row: it shows the ordering between the parts.
- **ProjectDeploy:**
  - 2 IPs and 2 settings;
  - up to 2 devices of either kind (also without IP, and end stations with
    an interface lacking `InterfaceName`);
  - 1 link (or a malformed one), 1 profile;
  - any stale project with any devices and links.

  This covers Add, "exists" with Set, a kind mismatch, the KeyError and the
  stale-project cases.

Symmetry is used over the model-value sets (ports, VLAN ids, users, settings,
IPs). No property names a particular element, so the symmetry is sound.

### Fairness

Only `Er9Pipeline` checks liveness, under `WF_vars(Next)`. The client is a
single coroutine, and `sleep(1)` always returns, so the client always makes
progress. That the server ends every job it starts is an *assumption*, not
something the code guarantees: the loop has no timeout (spec 9). The model caps
the loop at `MaxPolls` in-progress polls, so `ScriptEnds` states
termination under that assumption. The hazard list records the missing
timeout. `SessionClosedAfterTry` needs the client's own progress and, like
`ScriptEnds`, the server ending every job: the try is only left after
Deploy's poll loop returns. The `finally` is the next statement after every
way out of the try.

The other modules model blocks that end. Their cfgs say `CHECK_DEADLOCK FALSE`
because the final states (`done`, `aborted`) really have no successor.

## 4. What is not modelled, and the plan

Not modelled:
- the namespace indexes and node ids themselves (the lookups and their
  failures are modelled);
- a session for `demo.py`: it never disconnects, so there is nothing to
  check (the hazard list records the leak);
- the field-by-field record building, whose outcome (valid or raises) is kept;
- printing;
- code no script calls: `compare_tsn_project` (its call is commented out in
  the ER9 test), `auto_scan_tsn_project`, the result getters of
  ER9/method.py (80-88) that the test does not use, the `start_*` broadcast
  searches (item 4 below), and `remove_device_profile` /
  `check_device_profile` of method.py (36-70), which `demo.py` does not call.
  Their loops are the one `LongRunningJob` models; with no caller there is no
  order of calls, and a model would have to invent one;
- the server beyond the answers each call can get: it is the environment, and
  its own behaviour (what a Warning answer did, which node `AddTsnProject`
  returns for a name in use) is a nondeterministic choice.

Planned next, in this order:
1. (done) **InterfaceTables**.
2. (done) **DeviceConfig**, which composes `DeviceAccounts` and
   `VlanReconcile`. `InterfaceTables` runs before it on other remote objects
   (the interfaces), and no state is shared, so it is not composed in.
3. (done) **Er9Pipeline**: steps 1-11 of the ER9 test, composed with
   `ComputeDeploy`. Its run replaces the separate pass run of
   `ComputeDeploy`, whose properties it checks.
4. **BroadcastSearch** (not modelled): the `start_*` jobs of ER9/method.py
   share one `CurrentState`/`ErrorCode` node, and `start_ip_assign` never
   polls. No script calls them, so there is no order of calls to check. A
   module would have to invent its caller.
5. Deeper properties for the existing runs, rather than new runs: the
   project keeps at most 12 runs. (done) Two-entry profile and stream lists
   in `Er9Pipeline`, with `DeclaredProfilesPresent`; (done) the end-station
   handlers in `ProjectDeploy`; (done) the refinement of the static forward
   tables and the per-stream priorities against `TableReplace`.
6. (done) The session steps of both scripts, with `SessionClosedAfterTry`
   for the `finally` of the ER9 test.
