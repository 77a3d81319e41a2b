-------------------------------- MODULE CfgDB --------------------------------
(***************************************************************************)
(* The start of a controller (upk_ctrl_init of controller/controller.c):   *)
(* with the lock in hand it reads the service files (module CfgStart) and  *)
(* brings the configuration database up to date (controller/ctrl_data.c).  *)
(* There is no transaction: every SQL statement is committed by itself,    *)
(* and a crash comes between any two of them, or one of them fails.  What  *)
(* a SELECT returns is used in the next statement of the same process, so  *)
(* they are one step.  The tables are created, and their names entered in  *)
(* _schema again, at every start before anything is looked up in them.     *)
(*                                                                         *)
(* The database is followed as long as the lock excludes other controllers *)
(* (orphaned of CtrlLock is FALSE).  The times of rows are left out.       *)
(***************************************************************************)
EXTENDS CtrlLock, SvcDesc, FiniteSets

CONSTANTS Readings,     \* what reading the files can give: a set of
                        \* [config, alive, svcs, runtime], the number of the
                        \* configuration, whether the controller survives, the
                        \* services of the files and the ones at run time
          MaxStarts,    \* bound: starts that read the service files
          MaxFaults     \* bound: statements that fail, all before the last start

ASSUME BoundsAssumption == MaxStarts \in Nat /\ MaxFaults \in Nat

Sections == {"Provides", "StartAfter", "RestartOnNamedPrereqRestart", "CustomActions"}

(* The services are descriptions, each with its one at run time, which has *)
(* the UUID of the file if that gives one (upk_overlay_svcconf_values).    *)
ASSUME ReadingsAssumption ==
  \A r \in Readings :
    /\ r.config # 0
    /\ Len(r.svcs) \in Nat
    /\ r.svcs = [i \in 1 .. Len(r.svcs) |-> [o \in Options |-> r.svcs[i][o]]]
    /\ \A i \in 1 .. Len(r.svcs) :
         /\ \A o \in Sections : Len(r.svcs[i][o]) \in Nat
         /\ r.runtime[i].UUID = NilUUID => r.svcs[i].UUID = NilUUID

VARIABLES services,   \* upk_cfg.services: uuid -> [svcid, package], where
                      \* package is <<>> for NULL or <<the package>>
          options,    \* upk_cfg.svc_options: <<uuid, key>> -> value
          lists,      \* upk_cfg.svc_list_options: uuid -> its rows, in order
          mem,        \* the memory of the controller that has the lock
          lastUuid,   \* the last UUID generated
          starts, faults,
          known,      \* history: service -> UUIDs it had after faultless starts
          mistaken    \* history: services that were given another one's UUID

tables == <<services, options, lists>>
dbVars == <<tables, mem, lastUuid, starts, faults, known, mistaken>>
vars == <<lockVars, dbVars>>

Null == <<>>
NoMemory == [loaded |-> 0, svcs |-> <<>>, runtime |-> <<>>,
             next |-> 1, entry |-> "none", todo |-> {}, buffer |-> NilUUID,
             failed |-> FALSE]

(* Does the file of the i-th service give its UUID?  The description at    *)
(* run time does not get a UUID from the database.                         *)
Given(i) == mem.runtime[i].UUID # NilUUID

Init ==
  /\ LockInit
  /\ services = <<>>
  /\ options = <<>>
  /\ lists = <<>>
  /\ mem = NoMemory
  /\ lastUuid = 0
  /\ starts = 0
  /\ faults = 0
  /\ known = <<>>
  /\ mistaken = {}
-----------------------------------------------------------------------------
(* The statements of upk_db_upsert_options for a service.                  *)
OptionOrder ==
  <<"StartPriority", "Name", "Package", "ShortDescription", "LongDescription",
    "RestartAllDependencies", "RestartOnPrerequisiteRestart", "KillTimeout",
    "StartupDelay", "MaxConsecutiveFailures", "UserMaxRestarts",
    "UserRestartWindow", "UserRateLimit", "RandomizeRateLimit", "SetUID",
    "SetGID", "RingbufferSize", "ReconnectRetries", "ExecStart", "StartScript",
    "ExecStop", "StopScript", "ExecReload", "ReloadScript", "PipeStdoutScript",
    "PipeStderrScript", "RedirectStdout", "RedirectStderr", "InitialState",
    "UnconfigureOnFileRemoval", "PreferBuddyStateForStopped",
    "PreferBuddyStateForRunning">>

(* UPSERT_TEXT and UPSERT_INT leave out what is not set.  The booleans and *)
(* states svc_desc_clear makes 0 count as set.                             *)
IsSet(svc, o) ==
  CASE o \in TextOptions -> svc[o] # <<>>
    [] o \in IntOptions -> svc[o] # Int32Min
    [] o \in ByteOptions -> svc[o] # Int8Min
    [] OTHER -> TRUE

(* upk_db_try_insert reads every number as an int: of a field of one byte  *)
(* also the three bytes behind it, which are other fields of the           *)
(* description, zero padding ("pad") or a list pointer ("next").           *)
Bound(svc, o) ==
  CASE o = "RandomizeRateLimit" -> <<svc[o], "pad">>
    [] o = "UnconfigureOnFileRemoval" ->
         <<svc[o], svc.PreferBuddyStateForStopped, svc.PreferBuddyStateForRunning, "pad">>
    [] o = "PreferBuddyStateForStopped" ->
         <<svc[o], svc.PreferBuddyStateForRunning, "pad", "next">>
    [] o = "PreferBuddyStateForRunning" -> <<svc[o], "pad", "next">>
    [] OTHER -> svc[o]

Upserts(svc) ==
  [k \in 1 .. Len(OptionOrder) |->
     [op |-> "upsert", key |-> OptionOrder[k], value |-> Bound(svc, OptionOrder[k])]]

(* LIST_UPSERT_TEXT for both parts of every element, numbered from 0; the  *)
(* number of custom actions is not counted up.                             *)
ListRows(svc, section, parts) ==
  [k \in 1 .. 2 * Len(svc[section]) |->
     LET i == (k + 1) \div 2
         part == parts[2 - (k % 2)]
     IN  [op |-> "row", section |-> section, key |-> part, value |-> svc[section][i][part],
          id |-> IF section = "CustomActions" THEN 0 ELSE i - 1]]

Rows(svc) ==
  ListRows(svc, "Provides", <<"name", "pkg">>)
    \o ListRows(svc, "StartAfter", <<"name", "pkg">>)
    \o ListRows(svc, "RestartOnNamedPrereqRestart", <<"name", "pkg">>)
    \o ListRows(svc, "CustomActions", <<"name", "script">>)

(* Mutant: the list options are added without deleting the old ones.       *)
MutantUpsertOptions(svc) == Upserts(svc) \o Rows(svc)

UpsertOptions(svc) == Upserts(svc) \o <<[op |-> "delete"]>> \o Rows(svc)

(* The places of those that are executed: the macros leave out what is not *)
(* set, and texts that are empty.                                          *)
Todo(svc) ==
  {k \in 1 .. Len(UpsertOptions(svc)) :
     LET s == UpsertOptions(svc)[k]
     IN  /\ s.op = "upsert" => IsSet(svc, s.key)
         /\ s.op = "row" => s.value # <<>>}
-----------------------------------------------------------------------------
Killed(c) ==
  /\ ~orphaned
  /\ End(c)
  /\ mem' = IF pc[c] \in {"locked", "run"} THEN NoMemory ELSE mem
  /\ UNCHANGED <<tables, lastUuid, starts, faults, known, mistaken>>

(* upk_ctrl_init_db and upk_load_runtime_services, with what came before   *)
(* the lock from upk_ctrl_load_config, which nobody else sees.  A service  *)
(* file the walk does not survive ends the controller.                     *)
Load(c) ==
  /\ ~orphaned
  /\ pc[c] = "locked" /\ mem.loaded = 0 /\ starts < MaxStarts
  /\ starts' = starts + 1
  /\ \E read \in Readings :
       \/ /\ read.alive
          /\ mem' = [mem EXCEPT !.loaded = read.config, !.svcs = read.svcs,
                                !.runtime = read.runtime]
          /\ UNCHANGED <<lockVars, mistaken>>
       \/ /\ ~read.alive
          /\ End(c)
          /\ mem' = NoMemory
          /\ UNCHANGED mistaken
  /\ UNCHANGED <<tables, lastUuid, faults, known>>

(* upk_db_svc_uuid_lookup: the static buffer keeps the UUID of an earlier  *)
(* call if there is no row for this service.                               *)
Matching(svc) ==
  {u \in DOMAIN services : /\ services[u].svcid = svc.Name
                           /\ services[u].package = <<svc.Package>>}

(* Mutant: the package is not part of what is looked up.                   *)
MutantSvcUuidLookup(svc) ==
  LET named == {u \in DOMAIN services : services[u].svcid = svc.Name}
  IN  IF named # {} THEN named ELSE {mem.buffer}

SvcUuidLookup(svc) == IF Matching(svc) # {} THEN Matching(svc) ELSE {mem.buffer}

(* No statement is left for the service that was looked up last.           *)
Idle == mem.entry = "none" /\ mem.todo = {}

(* The UUID of the service is set; then it may need a row (entry) and its  *)
(* options.                                                                *)
Proceed(buffer, uuid, entry, withOptions) ==
  LET svcs == [mem.svcs EXCEPT ![mem.next].UUID = uuid]
  IN  mem' = [mem EXCEPT !.buffer = buffer, !.next = mem.next + 1, !.svcs = svcs,
                         !.entry = entry,
                         !.todo = IF withOptions THEN Todo(svcs[mem.next]) ELSE {}]

(* upk_db_insert_cfg for the next service of the files.  With a UUID in    *)
(* the file, a lookup that has never found anything is compared all the    *)
(* same (and ends the process), and one that finds that UUID is taken for  *)
(* a conflict and the service is left out.                                 *)
InsertCfg(c) ==
  /\ ~orphaned
  /\ pc[c] = "locked" /\ mem.loaded # 0 /\ Idle /\ mem.next <= Len(mem.svcs)
  /\ LET svc == mem.svcs[mem.next]
     IN  \E found \in SvcUuidLookup(svc) :
           \/ /\ svc.UUID # NilUUID /\ found = NilUUID
              /\ End(c)
              /\ mem' = NoMemory
              /\ UNCHANGED <<lastUuid, mistaken>>
           \/ /\ svc.UUID # NilUUID /\ found # NilUUID
              /\ Proceed(found, svc.UUID, "none", found # svc.UUID)
              /\ UNCHANGED <<lockVars, lastUuid, mistaken>>
           \/ /\ svc.UUID = NilUUID /\ found # NilUUID
              /\ Proceed(found, found, "none", TRUE)
              /\ mistaken' = IF found = mem.buffer /\ found \notin Matching(svc)
                             THEN mistaken \cup {Id(svc)} ELSE mistaken
              /\ UNCHANGED <<lockVars, lastUuid>>
           \/ /\ svc.UUID = NilUUID /\ found = NilUUID
              /\ lastUuid' = lastUuid + 1
              /\ Proceed(found, lastUuid + 1, "row", TRUE)
              /\ UNCHANGED <<lockVars, mistaken>>
  /\ UNCHANGED <<tables, starts, faults, known>>

Latest == mem.svcs[mem.next - 1]

(* A statement fails; no caller looks at the result.                       *)
Fails ==
  /\ faults < MaxFaults /\ starts < MaxStarts
  /\ faults' = faults + 1
  /\ UNCHANGED tables

(* upk_db_add_new_service, with a UUID no service has: the row comes       *)
(* first, and if that fails the package is not tried ...                   *)
InsertRow(c) ==
  /\ ~orphaned
  /\ pc[c] = "locked" /\ mem.entry = "row"
  /\ \/ /\ services' = [u \in DOMAIN services \cup {Latest.UUID} |->
                          IF u \in DOMAIN services THEN services[u]
                          ELSE [svcid |-> Latest.Name, package |-> Null]]
        /\ mem' = [mem EXCEPT !.entry = "package"]
        /\ UNCHANGED <<options, lists, faults>>
     \/ /\ Fails
        /\ mem' = [mem EXCEPT !.entry = "none", !.failed = TRUE]
  /\ UNCHANGED <<lockVars, lastUuid, starts, known, mistaken>>

(* ... and its package is set by a second statement.                       *)
SetPackage(c) ==
  /\ ~orphaned
  /\ pc[c] = "locked" /\ mem.entry = "package"
  /\ \/ /\ services' = [u \in DOMAIN services |->
                          IF u = Latest.UUID
                          THEN [services[u] EXCEPT !.package = <<Latest.Package>>]
                          ELSE services[u]]
        /\ mem' = [mem EXCEPT !.entry = "none"]
        /\ UNCHANGED <<options, lists, faults>>
     \/ /\ Fails
        /\ mem' = [mem EXCEPT !.entry = "none", !.failed = TRUE]
  /\ UNCHANGED <<lockVars, lastUuid, starts, known, mistaken>>

Listed(uuid) == IF uuid \in DOMAIN lists THEN lists[uuid] ELSE <<>>

(* A statement of upk_db_upsert_options for the service looked up last.    *)
Effect(uuid, s) ==
  /\ UNCHANGED services
  /\ CASE s.op = "upsert" ->
            /\ options' = [k \in DOMAIN options \cup {<<uuid, s.key>>} |->
                             IF k = <<uuid, s.key>> THEN s.value ELSE options[k]]
            /\ UNCHANGED lists
       [] s.op = "delete" ->
            /\ lists' = [u \in DOMAIN lists \ {uuid} |-> lists[u]]
            /\ UNCHANGED options
       [] s.op = "row" ->
            /\ lists' = [u \in DOMAIN lists \cup {uuid} |->
                           IF u = uuid THEN Append(Listed(uuid), s) ELSE lists[u]]
            /\ UNCHANGED options

Statement(c) ==
  /\ ~orphaned
  /\ pc[c] = "locked" /\ mem.entry = "none"
  /\ \E k \in mem.todo :
       /\ \A j \in mem.todo : k <= j
       /\ \/ /\ Effect(Latest.UUID, UpsertOptions(Latest)[k])
             /\ mem' = [mem EXCEPT !.todo = @ \ {k}]
             /\ UNCHANGED faults
          \/ /\ Fails
             /\ mem' = [mem EXCEPT !.todo = @ \ {k}, !.failed = TRUE]
  /\ UNCHANGED <<lockVars, lastUuid, starts, known, mistaken>>

(* All services are in; the controller goes on to its event loop.          *)
Ready(c) ==
  /\ ~orphaned
  /\ Run(c)
  /\ mem.loaded # 0 /\ Idle /\ mem.next > Len(mem.svcs)
  /\ known' =
       IF mem.failed THEN known
       ELSE LET unnamed == {i \in DOMAIN mem.svcs : ~Given(i)}
                now == {Id(mem.svcs[i]) : i \in unnamed}
                had(s) == IF s \in DOMAIN known THEN known[s] ELSE {}
                has(s) == {mem.svcs[i].UUID : i \in {j \in unnamed : Id(mem.svcs[j]) = s}}
            IN  [s \in now \cup DOMAIN known |-> had(s) \cup has(s)]
  /\ UNCHANGED <<tables, mem, lastUuid, starts, faults, mistaken>>

Exit(c) ==
  /\ ~orphaned
  /\ CtrlExit(c)
  /\ mem' = NoMemory
  /\ UNCHANGED <<tables, lastUuid, starts, faults, known, mistaken>>

Lock(c) ==
  /\ ~orphaned
  /\ OpenLock(c) \/ Flock(c)
  /\ UNCHANGED dbVars

Next ==
  \E c \in Controllers :
    \/ Lock(c) \/ Load(c) \/ InsertCfg(c)
    \/ InsertRow(c) \/ SetPackage(c) \/ Statement(c)
    \/ Ready(c) \/ Exit(c) \/ Killed(c)

Spec == Init /\ [][Next]_vars
-----------------------------------------------------------------------------
(* A service keeps the UUID it was first given, and shares it with no      *)
(* other one, through crashes between any two statements, statements that  *)
(* fail and services that come and go -- but for those whose lookup        *)
(* returned the UUID left in its static buffer by the service before.      *)
OwnIdentity ==
  LET own == DOMAIN known \ mistaken
  IN  \A s \in own :
        /\ \A u, v \in known[s] : u = v
        /\ \A t \in own \ {s} : known[s] \cap known[t] = {}

(* Is the description of a service in the database, under its UUID: all    *)
(* its options, and one row for each text in its lists, in their order?    *)
Stored(svc) ==
  LET rows == Rows(svc)
      texts(k) == {j \in 1 .. k : rows[j].value # <<>>}
  IN  /\ \A k \in 1 .. Len(OptionOrder) :
           LET o == OptionOrder[k]
           IN  IsSet(svc, o) => /\ <<svc.UUID, o>> \in DOMAIN options
                                /\ options[<<svc.UUID, o>>] = Bound(svc, o)
      /\ Len(Listed(svc.UUID)) = Cardinality(texts(Len(rows)))
      /\ \A k \in texts(Len(rows)) : Listed(svc.UUID)[Cardinality(texts(k))] = rows[k]

(* After a start in which no statement failed, whatever earlier starts     *)
(* left half done, the database has under the UUID of a service one row    *)
(* for it, all its options and exactly its lists.  A service with a UUID   *)
(* in its file is not entered, and a UUID from the buffer has no row; of   *)
(* the files for one service, the last one counts (no later service has    *)
(* its UUID).                                                              *)
Recorded ==
  \A c \in Controllers :
    pc[c] = "run" /\ ~mem.failed /\ ~orphaned =>
      \A i \in 1 .. Len(mem.svcs) :
        LET svc == mem.svcs[i]
        IN  ~Given(i) /\ mistaken = {}
              /\ (\A j \in 1 .. Len(mem.svcs) : j > i => mem.svcs[j].UUID # svc.UUID) =>
              Matching(svc) = {svc.UUID} /\ Stored(svc)
=============================================================================
