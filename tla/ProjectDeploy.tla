---------------------------- MODULE ProjectDeploy ----------------------------
(***************************************************************************)
(* The project-level flow of demo.py main(): remove a project of the same  *)
(* name (errors tolerated), import the device profiles, check ProjectName, *)
(* method.add_project, method.set_project_setting, then every bridge       *)
(* (method.add_bridge) and end station (method.add_end_station), each an  *)
(* Add that falls back, on any failure, to resolving the device by its IP  *)
(* address and calling set_bridge / set_end_station; then method.add_link  *)
(* for every link, and finally remove_project again. Any exception that   *)
(* escapes ends the run through the outer except of main().                *)
(*                                                                         *)
(* The per-bridge configuration between add_bridge and the next bridge is  *)
(* modelled by the other modules; here a device is its kind and settings.  *)
(***************************************************************************)
EXTENDS Naturals, Sequences, FiniteSets, SequencesExt

CONSTANTS
    Ips,          \* device IP addresses, the devices' natural key
    Settings,     \* the remaining fields of a device record, abstracted
    NoIp,         \* a device entry without IpSetting.IpAddress
    NoIfName,     \* an end station with an EthernetInterfaces entry lacking InterfaceName
    BadLink,      \* a link entry lacking one of its four fields
    MaxDevices,   \* bound on the number of declared bridges and end stations
    MaxLinks,     \* bound on the number of declared links
    MaxProfiles   \* bound on the number of declared device profiles

ASSUME NoIp \notin Ips /\ NoIfName \notin Settings /\ {MaxDevices, MaxLinks, MaxProfiles} \subseteq Nat

Kinds   == {"bridge", "endstation"}
Links   == {l \in Ips \X Ips : l[1] # l[2]}
Devices == [kind: Kinds, setting: Settings]
BridgeEntries     == [kind: {"bridge"}, ip: Ips \cup {NoIp}, setting: Settings]
EndStationEntries == [kind: {"endstation"}, ip: Ips \cup {NoIp}, setting: Settings \cup {NoIfName}]

\* Bridges, then end stations, at most MaxDevices in all, the IPs distinct.
Declarations ==
    {s \in {b \o e : b \in BoundedSeq(BridgeEntries, MaxDevices),
                     e \in BoundedSeq(EndStationEntries, MaxDevices)} :
        /\ Len(s) <= MaxDevices
        /\ \A i, j \in DOMAIN s : s[i].ip = s[j].ip /\ s[i].ip # NoIp => i = j}

\* The calls whose failure the run can report, and "input": a record that
\* fails to compile before its call.
Calls == {"profile", "project", "setting", "add", "lookup", "set", "link",
          "remove", "input"}

VARIABLES
    project,     \* remote: the project named ProjectName exists
    devices,     \* remote: its Devices, IP address -> device
    links,       \* remote: its Links
    hasName,     \* input: ProjectSetting.ProjectName is present
    nProfiles,   \* input: number of DeviceProfiles entries
    decl,        \* input: Bridges followed by EndStations
    declLinks,   \* input: Links
    pc,          \* position in main()
    i,           \* next profile, device or link index of the current loop
    warned,      \* IPs and links a call for which answered a Warning
    fatal,       \* the first real error of the run: an error answer or bad input
    reported     \* the real errors of the exception in flight and of its
                 \* chained __context__, all printed by traceback.print_exc()

vars == <<project, devices, links, hasName, nProfiles, decl, declLinks, pc, i,
          warned, fatal, reported>>

None == "none"
Dev  == decl[i]

Init ==
    /\ project \in BOOLEAN
    \* a project left behind by an earlier run, with its devices and links
    /\ devices \in IF project THEN UNION {[D -> Devices] : D \in SUBSET Ips}
                              ELSE {<<>>}
    /\ links \in SUBSET {l \in Links : {l[1], l[2]} \subseteq DOMAIN devices}
    /\ hasName \in BOOLEAN
    /\ nProfiles \in 0..MaxProfiles
    /\ decl \in Declarations
    /\ declLinks \in BoundedSeq(Links \cup {BadLink}, MaxLinks)
    /\ pc = "login"
    /\ i = 1
    /\ warned = {}
    /\ fatal = None
    /\ reported = {}

\* The outer "except Exception": the run ends; traceback.print_exc() prints
\* the exception and the one it was raised while handling.
Raise(call) ==
    /\ pc' = "aborted"
    /\ reported' = reported \cup {call}

\* A non-zero answer without "Warning" in its message.
FatalAnswer(call) ==
    /\ fatal' = IF fatal = None THEN call ELSE fatal
    /\ Raise(call)

\* The project and everything in it disappear.
ProjectRemoved ==
    /\ project' = FALSE
    /\ devices' = <<>>
    /\ links' = {}

(***************************************************************************)
(* Before the project exists.                                              *)
(***************************************************************************)

\* method.login: connect, then load_type_definitions. An exception of
\* either is printed and main() returns; the client is never disconnected.
Login ==
    /\ pc = "login"
    /\ pc' \in {"preclean", "done"}
    /\ UNCHANGED <<project, devices, links, hasName, nProfiles, decl, declLinks,
                   i, warned, fatal, reported>>

\* "try: remove_project ... except: print": a missing ProjectName raises
\* KeyError before the call; a failed or warned removal is printed. Every
\* outcome is tolerated.
RemoveStaleProject ==
    /\ pc = "preclean"
    /\ \/ /\ hasName /\ project
          /\ ProjectRemoved
       \/ UNCHANGED <<project, devices, links>>
    /\ pc' = "profiles"
    /\ UNCHANGED <<hasName, nProfiles, decl, declLinks, i, warned,
                   fatal, reported>>

\* import_device_profile for each DeviceProfiles entry: any non-zero status
\* raises (there is no Warning case).
ImportDeviceProfile ==
    /\ pc = "profiles"
    /\ i <= nProfiles
    /\ \/ /\ i' = i + 1
          /\ UNCHANGED <<pc, fatal, reported>>
       \/ /\ FatalAnswer("profile")
          /\ UNCHANGED i
    /\ UNCHANGED <<project, devices, links, hasName, nProfiles, decl, declLinks,
                   warned>>

\* After the profiles: without ProjectName, print and return.
CheckProjectName ==
    /\ pc = "profiles"
    /\ i > nProfiles
    /\ pc' = IF hasName THEN "project" ELSE "done"
    /\ i' = 1
    /\ UNCHANGED <<project, devices, links, hasName, nProfiles, decl, declLinks,
                   warned, fatal, reported>>

(***************************************************************************)
(* The project.                                                            *)
(***************************************************************************)

\* add_project: an existing project is returned as it is. Otherwise
\* AddProject; on a non-zero status the code looks for "Warning" in the
\* status (OutputArguments[1]) instead of in the message, finds none, and
\* raises, also when the message is a Warning (the project may then exist).
AddProject ==
    /\ pc = "project"
    /\ \/ /\ project
          /\ pc' = "setting"
          /\ UNCHANGED <<project, fatal, reported>>
       \/ /\ ~project
          /\ project' = TRUE
          /\ pc' = "setting"
          /\ UNCHANGED <<fatal, reported>>
       \/ /\ ~project                                   \* answered Warning
          /\ project' \in BOOLEAN
          /\ Raise("project")
          /\ UNCHANGED fatal
       \/ /\ ~project
          /\ FatalAnswer("project")
          /\ UNCHANGED project
    /\ UNCHANGED <<devices, links, hasName, nProfiles, decl, declLinks, i,
                   warned>>

\* set_project_setting: an invalid SNMP Version raises before the call; a
\* Warning answer is printed; any other non-zero status raises.
SetProjectSetting ==
    /\ pc = "setting"
    /\ \/ /\ pc' = "devices"
          /\ UNCHANGED <<fatal, reported>>
       \/ FatalAnswer("setting")
    /\ UNCHANGED <<project, devices, links, hasName, nProfiles, decl, declLinks,
                   i, warned>>
(***************************************************************************)
(* Devices: add_bridge for every bridge, then add_end_station.             *)
(***************************************************************************)

\* The AddBridge / AddEndStation call inside the try. Success returns the
\* new node. Any non-zero status, and the Warning case is not told apart,
\* raises inside the try, and the except branch takes over (pc
\* "fallback"). The server answers "exists" for a known IP; a Warning answer
\* may or may not have created the device.
AddCall ==
    /\ \/ /\ Dev.ip \in Ips \ DOMAIN devices
          /\ devices' = (Dev.ip :> [kind |-> Dev.kind, setting |-> Dev.setting]) @@ devices
          /\ i' = i + 1
          /\ UNCHANGED <<pc, warned, fatal, reported>>
       \/ /\ Dev.ip \in DOMAIN devices                      \* "exists"
          /\ pc' = "fallback"
          /\ UNCHANGED <<devices, i, warned, fatal, reported>>
       \/ /\ Dev.ip \in Ips \ DOMAIN devices                \* Warning
          /\ devices' \in {devices, (Dev.ip :> [kind |-> Dev.kind, setting |-> Dev.setting]) @@ devices}
          /\ warned' = warned \cup {Dev.ip}
          /\ pc' = "fallback"
          /\ UNCHANGED <<i, fatal, reported>>
       \/ /\ fatal' = IF fatal = None THEN "add" ELSE fatal  \* other error
          /\ reported' = {"add"}
          /\ pc' = "fallback"
          /\ UNCHANGED <<devices, i, warned>>
    /\ UNCHANGED <<project, links, hasName, nProfiles, decl, declLinks>>

\* add_bridge: every field of BridgeDataType is copied only when present,
\* so the record always compiles; then the Add call.
AddBridge ==
    /\ pc = "devices"
    /\ i <= Len(decl)
    /\ Dev.kind = "bridge"
    /\ AddCall

\* add_end_station: each EthernetInterfaces entry is compiled with
\* ethernet_interface_config['InterfaceName']; without it the KeyError is
\* raised before the try and ends the run. Otherwise the Add call.
AddEndStation ==
    /\ pc = "devices"
    /\ i <= Len(decl)
    /\ Dev.kind = "endstation"
    /\ \/ /\ Dev.setting = NoIfName
          /\ FatalAnswer("input")
          /\ UNCHANGED <<project, devices, links, hasName, nProfiles, decl,
                         declLinks, i, warned>>
       \/ /\ Dev.setting # NoIfName
          /\ AddCall

\* Mutant: the except branch returns the resolved node without the Set call.
FallbackSkippingSet ==
    /\ \/ /\ Dev.ip \notin DOMAIN devices
          /\ Raise("lookup")
          /\ UNCHANGED i
       \/ /\ Dev.ip \in DOMAIN devices
          /\ i' = i + 1
          /\ pc' = "devices"
          /\ reported' = {}
    /\ UNCHANGED <<devices, warned, fatal, project, links, hasName,
                   nProfiles, decl, declLinks>>

\* The except branch: browse_name = config['IpSetting']['IpAddress'] (a
\* KeyError without it), get_child of Devices/<ip> (fails for an unknown
\* IP), then set_bridge / set_end_station on that node. The Set method of
\* one kind is not found under a device of the other kind, so that call
\* fails. A Warning answer is printed; another error raises, with the Add
\* error as its context. Returning the node discards the Add error.
Fallback ==
    /\ \/ /\ Dev.ip \notin DOMAIN devices                   \* KeyError, BadNoMatch
          /\ Raise("lookup")
          /\ UNCHANGED <<devices, i, warned, fatal>>
       \/ /\ Dev.ip \in DOMAIN devices
          /\ devices[Dev.ip].kind = Dev.kind
          /\ \/ /\ devices' = [devices EXCEPT ![Dev.ip].setting = Dev.setting]
                /\ UNCHANGED warned
             \/ /\ devices' \in {devices, [devices EXCEPT ![Dev.ip].setting = Dev.setting]}
                /\ warned' = warned \cup {Dev.ip}
          /\ i' = i + 1
          /\ pc' = "devices"
          /\ reported' = {}
          /\ UNCHANGED fatal
       \/ /\ Dev.ip \in DOMAIN devices
          /\ FatalAnswer("set")
          /\ UNCHANGED <<devices, i, warned>>
    /\ UNCHANGED <<project, links, hasName, nProfiles, decl, declLinks>>

\* set_bridge on the resolved node: SetBridgeSetting.
SetBridge ==
    /\ pc = "fallback"
    /\ Dev.kind = "bridge"
    /\ Fallback

\* set_end_station on the resolved node: SetEndStationSetting. Its record
\* compiles: the InterfaceName KeyError would have ended add_end_station.
SetEndStation ==
    /\ pc = "fallback"
    /\ Dev.kind = "endstation"
    /\ Fallback

DevicesDone ==
    /\ pc = "devices"
    /\ i > Len(decl)
    /\ pc' = "links"
    /\ i' = 1
    /\ UNCHANGED <<project, devices, links, hasName, nProfiles, decl, declLinks,
                   warned, fatal, reported>>

(***************************************************************************)
(* Links and the final removal.                                            *)
(***************************************************************************)

\* Mutant: add_link without the field check; the server stores the entry.
AddLinkUnparsed ==
    LET l == declLinks[i] IN
    /\ pc = "links"
    /\ i <= Len(declLinks)
    /\ links' = links \cup {l}
    /\ i' = i + 1
    /\ UNCHANGED <<warned, pc, fatal, reported, project, devices, hasName,
                   nProfiles, decl, declLinks>>

\* add_link: an entry lacking a field is printed and skipped. The server
\* resolves both ends by IP; a Warning answer is printed.
AddLink ==
    LET l == declLinks[i] IN
    /\ pc = "links"
    /\ i <= Len(declLinks)
    /\ \/ /\ l = BadLink
          /\ i' = i + 1
          /\ UNCHANGED <<links, warned, pc, fatal, reported>>
       \/ /\ l # BadLink
          /\ {l[1], l[2]} \subseteq DOMAIN devices
          /\ links' = links \cup {l}
          /\ i' = i + 1
          /\ UNCHANGED <<warned, pc, fatal, reported>>
       \/ /\ l # BadLink
          /\ links' \in {links, links \cup {l}}
          /\ warned' = warned \cup {l}
          /\ i' = i + 1
          /\ UNCHANGED <<pc, fatal, reported>>
       \/ /\ l # BadLink
          /\ FatalAnswer("link")
          /\ UNCHANGED <<links, i, warned>>
    /\ UNCHANGED <<project, devices, hasName, nProfiles, decl, declLinks>>

LinksDone ==
    /\ pc = "links"
    /\ i > Len(declLinks)
    /\ pc' = "remove"
    /\ UNCHANGED <<project, devices, links, hasName, nProfiles, decl, declLinks,
                   i, warned, fatal, reported>>

\* The closing remove_project: a Warning is printed, another error raises.
RemoveProject ==
    /\ pc = "remove"
    /\ \/ /\ ProjectRemoved
          /\ pc' = "done"
          /\ UNCHANGED <<fatal, reported>>
       \/ /\ pc' = "done"                                   \* Warning
          /\ UNCHANGED <<project, devices, links, fatal, reported>>
       \/ /\ FatalAnswer("remove")
          /\ UNCHANGED <<project, devices, links>>
    /\ UNCHANGED <<hasName, nProfiles, decl, declLinks, i, warned>>

Next ==
    \/ Login \/ RemoveStaleProject \/ ImportDeviceProfile \/ CheckProjectName
    \/ AddProject \/ SetProjectSetting
    \/ AddBridge \/ AddEndStation \/ SetBridge \/ SetEndStation \/ DevicesDone
    \/ AddLink \/ LinksDone \/ RemoveProject

Spec == Init /\ [][Next]_vars

(***************************************************************************)
(* Properties.                                                             *)
(***************************************************************************)

TypeOK ==
    /\ project \in BOOLEAN
    /\ devices \in UNION {[D -> Devices] : D \in SUBSET Ips}
    /\ links \subseteq Links
    /\ pc \in {"login", "preclean", "profiles", "project", "setting", "devices",
               "fallback", "links", "remove", "done", "aborted"}
    /\ i \in Nat \ {0}
    /\ warned \subseteq Ips \cup Links
    /\ fatal \in Calls \cup {None}
    /\ reported \subseteq Calls
DeclaredIps == {decl[k].ip : k \in DOMAIN decl}

\* Idempotent upsert (spec 4.2, 8): whatever project a previous run left
\* behind, when the links are done (before the closing removal) every
\* declared bridge and end station exists under its IP with its declared
\* kind and settings, and every declared link exists, unless a call for it
\* only warned. Add, "exists" and the Set fallback all lead there.
DeclaredTopologyApplied ==
    pc = "remove" =>
        /\ \A k \in DOMAIN decl :
              decl[k].ip \notin warned =>
                  /\ decl[k].ip \in DOMAIN devices
                  /\ devices[decl[k].ip] = [kind |-> decl[k].kind, setting |-> decl[k].setting]
        /\ \A k \in DOMAIN declLinks :
              declLinks[k] \in Links \ warned => declLinks[k] \in links

\* Convergence to the declared state (spec 4.5, 8): the project built by
\* the run holds no device or link that the document does not declare;
\* the pre-clean removal (spec: tolerating only "not found") guarantees it.
NoStaleDevices ==
    pc = "remove" =>
        /\ DOMAIN devices \subseteq DeclaredIps
        /\ links \subseteq {declLinks[k] : k \in DOMAIN declLinks}

\* Error taxonomy (spec 7): a Warning never aborts the run; the run only
\* ends through an exception after a real error: a call answered with an
\* error, or an entry failed to compile (MissingField).
WarningsNeverAbort ==
    pc = "aborted" => fatal # None

\* Propagation policy (spec 4.2, 7): once a call has answered with a real
\* error (other than the benign "exists"), the run stops and its traceback
\* shows that failure, also when it is the context of a later exception;
\* add_bridge / add_end_station may not swallow it.
FailureReportedVerbatim ==
    (fatal # None /\ pc # "fallback") => (pc = "aborted" /\ fatal \in reported)
=============================================================================
