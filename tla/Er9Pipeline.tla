----------------------------- MODULE Er9Pipeline -----------------------------
(***************************************************************************)
(* The ER9 test script (class_based_client_test.py main), steps 1 to 16:   *)
(* remove the project (a failure is only printed), check / remove / import *)
(* each custom device profile, check the builtin profiles, add the project *)
(* and set its setting, add bridges, end stations and links, set the time  *)
(* slots, add each stream under TimeSlot_<TimeSlotIndex>, then Compute and *)
(* Deploy (ComputeDeploy, by INSTANCE). A non-zero answer makes the script *)
(* print and return ("returned"); an exception, such as get_child of a     *)
(* missing time slot, is printed by the outer except ("raised").           *)
(***************************************************************************)
EXTENDS Naturals, Sequences, FiniteSets, SequencesExt

CONSTANTS
    Profiles,     \* NodeNames of the custom device profiles
    Builtins,     \* NodeNames of the builtin device profiles
    Slots,        \* TimeSlotIndex values
    MaxItems,     \* bound on the profile, builtin and stream lists
    MaxDevices,   \* length of the bridge, end-station and link lists: each
                  \* entry is one call with the same answers, and an empty
                  \* list only skips its step
    TerminalLabels, ErrorCodes, InitCodes, NoCode, StartMayFail, MaxPolls,
    MaxStreams    \* as in ComputeDeploy

ASSUME {MaxItems, MaxDevices} \subseteq Nat

VARIABLES
    cfg,          \* the configuration file (input)
    step,         \* the step of main() being run, "returned", "raised" or
                  \* "crashed" (an exception left main())
    i,            \* index into the list of the current step
    project,      \* remote: a project named TsnProjectName exists
    profiles,     \* remote: custom device profiles on the server
    imported,     \* history: profiles this run imported
    builtins,     \* remote: builtin device profiles on the server
    slotTable,    \* remote: the TimeSlot_<idx> nodes of the project
    streamsAdded, \* remote: time slots a stream was added under
    session,      \* the client's session: "none", "open" or "closed"
    tried,        \* main() has entered its try ... finally
    cdPc, streamsLeft,
    cState, cCode, cPhase, cCnt, cResult, cAccepted, cOwn,
    dState, dCode, dPhase, dCnt, dResult, dAccepted, dOwn

cdVars  == <<cdPc, streamsLeft, cState, cCode, cPhase, cCnt, cResult, cAccepted, cOwn,
             dState, dCode, dPhase, dCnt, dResult, dAccepted, dOwn>>
er9Vars == <<cfg, step, i, project, profiles, imported, builtins, slotTable,
             streamsAdded>>
sessionVars == <<session, tried>>
vars    == <<er9Vars, cdVars, sessionVars>>

Cd == INSTANCE ComputeDeploy WITH pc <- cdPc

\* Device lists whose entries are added one by one (steps 7 to 9).
DeviceLists == {"bridges", "endstations", "links"}

Configs ==
    [profiles: BoundedSeq(Profiles, MaxItems), builtins: BoundedSeq(Builtins, MaxItems),
     bridges: {MaxDevices}, endstations: {MaxDevices}, links: {MaxDevices},
     slots: SUBSET Slots, streams: BoundedSeq(Slots, MaxItems)]

\* Mutant: the streams are added before the time slots are set.
StepOrderStreamsFirst ==
    <<"auth", "connect", "types", "lookup", "file", "remove", "profiles", "builtins", "project", "setting", "bridges",
      "endstations", "links", "streams", "slots", "compute">>

\* The steps of main() in the order of the script.
StepOrder ==
    <<"auth", "connect", "types", "lookup", "file", "remove", "profiles", "builtins", "project", "setting", "bridges",
      "endstations", "links", "slots", "streams", "compute">>

Following(s) ==
    LET n == CHOOSE k \in DOMAIN StepOrder : StepOrder[k] = s
    IN  StepOrder[n + 1]

Init ==
    /\ cfg \in Configs
    /\ step = "auth"
    /\ i = 1
    /\ session = "none"
    /\ tried = FALSE
    /\ project \in BOOLEAN
    /\ profiles \in SUBSET Profiles
    /\ imported = {}
    /\ builtins \in SUBSET Builtins
    /\ slotTable \in IF project THEN SUBSET Slots ELSE {{}}
    /\ streamsAdded = {}
    /\ Cd!Init

\* "return print(ret.OutputArguments[...])" after a non-zero answer.
Return == step' = "returned" /\ UNCHANGED i

\* The step is over: the next one starts with a fresh index.
Advance == step' = Following(step) /\ i' = 1

(***************************************************************************)
(* The session, before the try (lines 10 to 60), and the finally.          *)
(***************************************************************************)

\* Lines 13-27: with certificate authentication, a certificate or private
\* key that fails to load prints and returns; a user name and password are
\* only stored.
Authenticate ==
    /\ step = "auth"
    /\ Advance \/ Return
    /\ UNCHANGED <<cfg, project, profiles, imported, builtins, slotTable,
                   streamsAdded, cdVars, sessionVars>>

\* client.connect(): a failure prints and returns; no session exists.
Connect ==
    /\ step = "connect"
    /\ \/ session' = "open" /\ Advance
       \/ Return /\ UNCHANGED session
    /\ UNCHANGED <<cfg, project, profiles, imported, builtins, slotTable,
                   streamsAdded, cdVars, tried>>

\* load_type_definitions(): a failure prints and returns. There is no try
\* around it with a finally, so the session stays open.
LoadTypeDefinitions ==
    /\ step = "types"
    /\ Advance \/ Return
    /\ UNCHANGED <<cfg, project, profiles, imported, builtins, slotTable,
                   streamsAdded, cdVars, sessionVars>>

\* The namespace indexes and the TsnDeviceProfiles / TsnProjects folders,
\* still outside the try: an exception here leaves main() with the session
\* open. Otherwise the try is entered.
LookupFolders ==
    /\ step = "lookup"
    /\ \/ /\ Advance
          /\ tried' = TRUE
       \/ /\ step' = "crashed"
          /\ UNCHANGED <<i, tried>>
    /\ UNCHANGED <<cfg, project, profiles, imported, builtins, slotTable,
                   streamsAdded, cdVars, session>>

\* Inside the try: open and parse the configuration file and read
\* TsnProjectSetting.TsnProjectName. FileNotFoundError, and any other
\* exception, is printed by an except clause.
LoadConfiguration ==
    /\ step = "file"
    /\ \/ Advance
       \/ step' = "raised" /\ UNCHANGED i
    /\ UNCHANGED <<cfg, project, profiles, imported, builtins, slotTable,
                   streamsAdded, cdVars>>

\* The try has been left: by a return, by an exception an except clause
\* printed, or after the last step, Deploy.
TryLeft ==
    \/ step \in {"returned", "raised"}
    \/ step = "compute" /\ cdPc \in {"done", "failed"}

\* Mutant: the finally is only reached by the returns.
DisconnectOnReturnOnly ==
    /\ tried
    /\ step = "returned"
    /\ session = "open"
    /\ session' = "closed"
    /\ UNCHANGED <<er9Vars, cdVars, tried>>

\* finally: client.disconnect().
Disconnect ==
    /\ tried
    /\ TryLeft
    /\ session = "open"
    /\ session' = "closed"
    /\ UNCHANGED <<er9Vars, cdVars, tried>>

(***************************************************************************)
(* Steps 1 to 4: the project and the device profiles.                      *)
(***************************************************************************)

\* Step 1: remove_tsn_project; a non-zero answer (no such project) is only
\* printed.
RemoveTsnProject ==
    /\ step = "remove"
    /\ project' \in {FALSE, project}
    /\ Advance
    /\ UNCHANGED <<cfg, profiles, imported, builtins, slotTable, streamsAdded, cdVars>>

\* Mutant: a profile the server already has is kept, not re-imported.
ImportProfileSkippingExisting ==
    LET p == cfg.profiles[i] IN
    /\ step = "profiles"
    /\ i <= Len(cfg.profiles)
    /\ \/ /\ p \in profiles
          /\ i' = i + 1
          /\ UNCHANGED <<step, profiles, imported>>
       \/ /\ p \notin profiles
          /\ profiles' = profiles \cup {p}
          /\ imported' = imported \cup {p}
          /\ i' = i + 1
          /\ UNCHANGED step
    /\ UNCHANGED <<cfg, project, builtins, slotTable, streamsAdded, cdVars>>

\* Mutant: a refused import is printed and the loop goes on.
ImportProfileIgnoringRefusal ==
    LET p == cfg.profiles[i] IN
    /\ step = "profiles"
    /\ i <= Len(cfg.profiles)
    /\ \/ /\ p \in profiles
          /\ Return
          /\ UNCHANGED <<profiles, imported>>
       \/ /\ profiles' = profiles \cup {p}
          /\ imported' = imported \cup {p}
          /\ i' = i + 1
          /\ UNCHANGED step
       \/ /\ profiles' = profiles \ {p}
          /\ i' = i + 1
          /\ UNCHANGED <<step, imported>>
    /\ UNCHANGED <<cfg, project, builtins, slotTable, streamsAdded, cdVars>>

\* Steps 2, 2.1 and 3 for one entry of ImportDeviceProfiles:
\* check_device_profile; if it exists, the child whose display name is the
\* NodeName is removed (a non-zero answer returns); then
\* import_device_profile (a non-zero answer returns). For a missing file the
\* FileNotFoundError handler prints tsn_device_profile_filename, a name
\* that is not defined: the NameError reaches the outer except.
ImportProfile ==
    LET p == cfg.profiles[i] IN
    /\ step = "profiles"
    /\ i <= Len(cfg.profiles)
    /\ \/ /\ p \in profiles                          \* removal refused
          /\ Return
          /\ UNCHANGED <<profiles, imported>>
       \/ /\ profiles' = profiles \cup {p}           \* (removed and) imported
          /\ imported' = imported \cup {p}
          /\ i' = i + 1
          /\ UNCHANGED step
       \/ /\ profiles' = profiles \ {p}              \* import refused
          /\ Return
          /\ UNCHANGED imported
       \/ /\ profiles' = profiles \ {p}              \* file missing
          /\ step' = "raised"
          /\ UNCHANGED <<i, imported>>
    /\ UNCHANGED <<cfg, project, builtins, slotTable, streamsAdded, cdVars>>

ProfilesDone ==
    /\ step = "profiles"
    /\ i > Len(cfg.profiles)
    /\ Advance
    /\ UNCHANGED <<cfg, project, profiles, imported, builtins, slotTable,
                   streamsAdded, cdVars>>

\* Step 4: check_device_profile of every builtin profile; the first one
\* missing returns.
CheckBuiltins ==
    /\ step = "builtins"
    /\ IF Range(cfg.builtins) \subseteq builtins THEN Advance ELSE Return
    /\ UNCHANGED <<cfg, project, profiles, imported, builtins, slotTable,
                   streamsAdded, cdVars>>

(***************************************************************************)
(* Steps 5 to 11: the project and its contents.                            *)
(***************************************************************************)

\* Step 5: add_tsn_project. A name still in use (step 1 failed) is refused
\* or answered with the existing node: the server's answer is not in the
\* repository, so both are modelled. A new project comes with whatever
\* time slots the server gives it.
AddTsnProject ==
    /\ step = "project"
    /\ \/ /\ ~project
          /\ project' = TRUE
          /\ slotTable' \in SUBSET Slots
          /\ Advance
       \/ /\ project
          /\ Advance
          /\ UNCHANGED <<project, slotTable>>
       \/ /\ Return
          /\ UNCHANGED <<project, slotTable>>
    /\ UNCHANGED <<cfg, profiles, imported, builtins, streamsAdded, cdVars>>

\* A required key missing from the configuration: the KeyError raised while
\* the record is built is printed by the except clause.
RaisedInTry == step' = "raised" /\ UNCHANGED i

\* Step 6: set_tsn_project_setting; a missing key raises, a non-zero answer
\* returns.
SetTsnProjectSetting ==
    /\ step = "setting"
    /\ Advance \/ Return \/ RaisedInTry
    /\ UNCHANGED <<cfg, project, profiles, imported, builtins, slotTable,
                   streamsAdded, cdVars>>

\* Steps 7 to 9: add_tsn_bridges, add_tsn_end_stations, add_tsn_links for
\* one entry; a missing key raises, a non-zero answer returns.
AddDevice ==
    /\ step \in DeviceLists
    /\ i <= cfg[step]
    /\ \/ i' = i + 1 /\ UNCHANGED step
       \/ Return
       \/ RaisedInTry
    /\ UNCHANGED <<cfg, project, profiles, imported, builtins, slotTable,
                   streamsAdded, cdVars>>

DevicesDone ==
    /\ step \in DeviceLists
    /\ i > cfg[step]
    /\ Advance
    /\ UNCHANGED <<cfg, project, profiles, imported, builtins, slotTable,
                   streamsAdded, cdVars>>

\* Step 10: set_time_slot with the whole TimeSlots list: SetTimeSlot writes
\* the project's time slot table (the server is assumed to replace it); a
\* missing key raises, a non-zero answer returns.
SetTimeSlot ==
    /\ step = "slots"
    /\ \/ /\ slotTable' = cfg.slots
          /\ Advance
       \/ /\ Return \/ RaisedInTry
          /\ UNCHANGED slotTable
    /\ UNCHANGED <<cfg, project, profiles, imported, builtins, streamsAdded, cdVars>>

\* Step 11 for one stream: get_child of TimeSlot_<TimeSlotIndex> raises when
\* the node does not exist, as a missing key of the stream raises anywhere;
\* add_class_based_stream under it; a non-zero answer returns.
AddClassBasedStream ==
    LET idx == cfg.streams[i] IN
    /\ step = "streams"
    /\ i <= Len(cfg.streams)
    /\ \/ /\ RaisedInTry
          /\ UNCHANGED streamsAdded
       \/ /\ idx \in slotTable
          /\ streamsAdded' = streamsAdded \cup {idx}
          /\ i' = i + 1
          /\ UNCHANGED step
       \/ /\ idx \in slotTable
          /\ Return
          /\ UNCHANGED streamsAdded
    /\ UNCHANGED <<cfg, project, profiles, imported, builtins, slotTable, cdVars>>

StreamsDone ==
    /\ step = "streams"
    /\ i > Len(cfg.streams)
    /\ Advance
    /\ UNCHANGED <<cfg, project, profiles, imported, builtins, slotTable,
                   streamsAdded, cdVars>>

(***************************************************************************)
(* Steps 12 to 16: ComputeDeploy.                                          *)
(***************************************************************************)
ComputeAndDeploy ==
    /\ step = "compute"
    /\ Cd!Next
    /\ UNCHANGED er9Vars

\* The steps inside the try leave the session alone.
TryStep ==
    \/ LoadConfiguration
    \/ RemoveTsnProject \/ ImportProfile \/ ProfilesDone \/ CheckBuiltins
    \/ AddTsnProject \/ SetTsnProjectSetting \/ AddDevice \/ DevicesDone
    \/ SetTimeSlot \/ AddClassBasedStream \/ StreamsDone
    \/ ComputeAndDeploy

Next ==
    \/ Authenticate \/ Connect \/ LoadTypeDefinitions \/ LookupFolders
    \/ TryStep /\ UNCHANGED sessionVars
    \/ Disconnect

\* One coroutine that only waits on the server; with the number of polls
\* bounded, weak fairness of Next is what the code's progress gives.
Spec == Init /\ [][Next]_vars /\ WF_vars(Next)

(***************************************************************************)
(* Properties.                                                             *)
(***************************************************************************)

TypeOK ==
    /\ cfg \in Configs
    /\ step \in Range(StepOrder) \cup {"returned", "raised", "crashed"}
    /\ session \in {"none", "open", "closed"}
    /\ tried \in BOOLEAN
    /\ i \in 1..MaxItems + MaxDevices + 1
    /\ project \in BOOLEAN
    /\ profiles \subseteq Profiles /\ imported \subseteq Profiles
    /\ builtins \subseteq Builtins
    /\ slotTable \subseteq Slots /\ streamsAdded \subseteq Slots
    /\ Cd!TypeOK

\* Streams nest under the time slots of this run (spec 4.5: "add
\* class-based streams nested under their referenced time slot"; a stream
\* cannot be added before its time slot exists): every stream the script
\* added sits under a time slot that the configuration's TimeSlots
\* declares, not under one the server had before SetTimeSlot.
StreamsUnderDeclaredSlots ==
    streamsAdded \subseteq cfg.slots

\* A run that deploys has applied the whole configuration: every custom
\* profile was imported by this run (also those the server already had),
\* and a stream was added under every time slot a stream references.
SuccessMeansComplete ==
    cdPc = "done" =>
        /\ Range(cfg.profiles) \subseteq imported
        /\ streamsAdded = Range(cfg.streams)

\* Steps 2.1 and 3 replace a profile the server has by removing it first.
\* The script goes on past the profiles only with every declared profile,
\* custom and builtin, on the server: a removal whose re-import failed
\* ends the script instead of leaving later steps to run without it.
AfterProfiles == {"builtins", "project", "setting", "bridges", "endstations",
                  "links", "slots", "streams", "compute"}

DeclaredProfilesPresent ==
    /\ step \in AfterProfiles => Range(cfg.profiles) \subseteq profiles
    /\ step \in AfterProfiles \ {"builtins"} => Range(cfg.builtins) \subseteq builtins

DeployRequiresComputed == Cd!DeployRequiresComputed
SuccessMeansDeployed   == Cd!SuccessMeansDeployed
ComputeRefinesJob      == Cd!ComputeRefinesJob

\* The script always ends: it returns early, raises, or finishes Compute and
\* Deploy, provided the server ends every job it starts.
ScriptEnds ==
    <>(step \in {"returned", "raised", "crashed"} \/ cdPc \in {"done", "failed"})

\* The finally of main(): once the script is inside its try, the session is
\* eventually closed, whether the try is left by a return, by an exception
\* an except clause prints, or at the end of Deploy.
SessionClosedAfterTry == tried ~> session = "closed"
====
