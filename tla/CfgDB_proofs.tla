---------------------------- MODULE CfgDB_proofs ----------------------------
(***************************************************************************)
(* The lock and the database, for any set of controllers, whatever their   *)
(* files hold and however many starts there are and statements fail.       *)
(*                                                                         *)
(* That two holders of the lock are one (OneController) is not inductive:  *)
(* it rests on two facts, that a lock has one holder (Exclusive), and that *)
(* the file of every controller from open() to upk_ctrl_exit is the one    *)
(* with the name (Current), which an exit keeps only if nobody waits.      *)
(*                                                                         *)
(* OwnIdentity compares what services were called at different starts; it  *)
(* rests on the table: a row with a package is the only one with its       *)
(* package and name (Unique), and every service that was known has its row *)
(* (Kept).  Between the two statements that enter a service its row is     *)
(* there without a package (Entering): the lookup found no row for it      *)
(* before, and nobody else writes one.                                     *)
(*                                                                         *)
(* Recorded is about the end of a start.  On the way there the statements  *)
(* of the service looked up last are executed in their order (InTurn), and *)
(* the tables hold what those behind did (Partly): the options each for    *)
(* itself, and as many list rows, in order, as were appended since the     *)
(* deletion.  With none left the service is stored, and stays so (Over)    *)
(* until a later one with its UUID.                                        *)
(***************************************************************************)
EXTENDS CfgDB, SequenceTheorems, FiniteSetTheorems, TLAPS

(* The process identifies its lock file by an inode created before.        *)
LockTypeOK ==
  /\ pc \in [Controllers -> {"off", "open", "locked", "run", "exit"}]
  /\ fd \in [Controllers -> 0 .. last]
  /\ path \in 0 .. last
  /\ last \in Nat

(* The kernel grants the lock of an inode to one process.                  *)
Exclusive ==
  \A c, d \in Controllers : Holds(c) /\ Holds(d) /\ fd[c] = fd[d] => c = d

(* Whoever waits for the lock, or runs with it, has the file open that the *)
(* next controller will open.                                              *)
Current ==
  ~orphaned => \A c \in Controllers :
                 pc[c] \in {"open", "locked", "run"} => path # 0 /\ fd[c] = path

LockInv == LockTypeOK /\ Exclusive /\ Current

(* Initially there is no controller and no lock file.                      *)
LEMMA LockInitInv == LockInit => LockInv
<1> SUFFICES ASSUME LockInit PROVE LockInv
  OBVIOUS
<1>1. LockTypeOK
  BY DEF LockInit, LockTypeOK
<1>2. Exclusive /\ Current
  BY DEF LockInit, Exclusive, Current, Holds
<1> QED BY <1>1, <1>2 DEF LockInv

(* Every step of a controller, its end included, keeps the types.          *)
LEMMA LockTypeStep == LockTypeOK /\ [LockNext]_lockVars => LockTypeOK'
<1> SUFFICES ASSUME LockTypeOK, [LockNext]_lockVars PROVE LockTypeOK'
  OBVIOUS
<1>1. CASE UNCHANGED lockVars
  BY <1>1 DEF LockTypeOK, lockVars
<1>2. ASSUME NEW c \in Controllers, OpenLock(c) PROVE LockTypeOK'
  <2>1. CASE path # 0 /\ UNCHANGED <<path, last>>
    BY <1>2, <2>1 DEF LockTypeOK, OpenLock
  <2>2. CASE path = 0 /\ path' = last + 1 /\ last' = last + 1
    <3>1. 0 .. last \subseteq 0 .. last' /\ path' \in 0 .. last' /\ last' \in Nat
      BY <2>2 DEF LockTypeOK
    <3>2. fd' \in [Controllers -> 0 .. last']
      BY <1>2, <3>1 DEF LockTypeOK, OpenLock
    <3> QED BY <1>2, <3>1, <3>2 DEF LockTypeOK, OpenLock
  <2> QED BY <1>2, <2>1, <2>2 DEF OpenLock
<1>3. ASSUME NEW c \in Controllers, Flock(c) \/ Run(c) PROVE LockTypeOK'
  BY <1>3 DEF LockTypeOK, Flock, Run
<1>4. ASSUME NEW c \in Controllers, CtrlExit(c) PROVE LockTypeOK'
  BY <1>4 DEF LockTypeOK, CtrlExit
<1>5. ASSUME NEW c \in Controllers, End(c) PROVE LockTypeOK'
  BY <1>5 DEF LockTypeOK, End
<1> QED BY <1>1, <1>2, <1>3, <1>4, <1>5 DEF LockNext, Step

(* flock() is what makes a controller a holder; nobody changes the inode   *)
(* of a holder.                                                            *)
LEMMA ExclusiveStep == LockInv /\ [LockNext]_lockVars => Exclusive'
<1> SUFFICES ASSUME LockInv, [LockNext]_lockVars PROVE Exclusive'
  OBVIOUS
<1> USE DEF LockInv, LockTypeOK, Exclusive, Holds
<1>1. CASE UNCHANGED lockVars
  BY <1>1 DEF lockVars
<1>2. ASSUME NEW c \in Controllers, OpenLock(c) PROVE Exclusive'
  BY <1>2 DEF OpenLock
<1>3. ASSUME NEW c \in Controllers, Flock(c) PROVE Exclusive'
  BY <1>3 DEF Flock
<1>4. ASSUME NEW c \in Controllers, Run(c) \/ CtrlExit(c) PROVE Exclusive'
  BY <1>4 DEF Run, CtrlExit
<1>5. ASSUME NEW c \in Controllers, End(c) PROVE Exclusive'
  BY <1>5 DEF End
<1> QED BY <1>1, <1>2, <1>3, <1>4, <1>5 DEF LockNext, Step

(* The exit of a controller takes the name from its file.  As nobody waits *)
(* for it, and the others that run would hold the same lock, there is no   *)
(* controller left whose file this is.                                     *)
LEMMA CurrentStep == LockInv /\ [LockNext]_lockVars => Current'
<1> SUFFICES ASSUME LockInv, [LockNext]_lockVars, ~orphaned',
                    NEW e \in Controllers, pc'[e] \in {"open", "locked", "run"}
             PROVE  path' # 0 /\ fd'[e] = path'
  BY DEF Current
<1> USE DEF LockInv, LockTypeOK
<1>1. CASE UNCHANGED lockVars
  BY <1>1 DEF lockVars, Current
<1>2. ASSUME NEW c \in Controllers, OpenLock(c) PROVE path' # 0 /\ fd'[e] = path'
  BY <1>2 DEF OpenLock, Current
<1>3. ASSUME NEW c \in Controllers, Flock(c) \/ Run(c) PROVE path' # 0 /\ fd'[e] = path'
  BY <1>3 DEF Flock, Run, Current
<1>4. ASSUME NEW c \in Controllers, CtrlExit(c) PROVE FALSE
  <2>1. ~orphaned /\ pc[c] \in {"locked", "run"} /\ pc'[c] = "exit"
        /\ \A d \in Controllers : pc[d] # "open"
    BY <1>4 DEF CtrlExit
  <2>2. e # c /\ pc[e] \in {"locked", "run"}
    BY <1>4, <2>1 DEF CtrlExit
  <2>3. fd[c] = path /\ fd[e] = path
    BY <2>1, <2>2 DEF Current
  <2> QED BY <2>1, <2>2, <2>3 DEF Exclusive, Holds
<1>5. ASSUME NEW c \in Controllers, End(c) PROVE path' # 0 /\ fd'[e] = path'
  BY <1>5 DEF End, Current
<1> QED BY <1>1, <1>2, <1>3, <1>4, <1>5 DEF LockNext, Step

(* However many controllers are started, killed or exit, two never have    *)
(* the lock at the same time, unless one of them exited while another one  *)
(* waited (upk_state_init, upk_ctrl_exit).                                 *)
THEOREM OneControllerAlways == LockSpec => []OneController
<1>1. LockInv /\ [LockNext]_lockVars => LockInv'
  BY LockTypeStep, ExclusiveStep, CurrentStep DEF LockInv
<1>2. LockInv => OneController
  BY DEF LockInv, Exclusive, Current, OneController, Holds
<1> QED BY LockInitInv, <1>1, <1>2, PTL DEF LockSpec
-----------------------------------------------------------------------------
(* A sequence of descriptions of services.                                 *)
Described(svcs) ==
  /\ Len(svcs) \in Nat
  /\ svcs = [i \in 1 .. Len(svcs) |-> [o \in Options |-> svcs[i][o]]]
  /\ \A i \in 1 .. Len(svcs) : \A o \in Sections : Len(svcs[i][o]) \in Nat

(* The process that has read nothing has done nothing.                     *)
MemType ==
  /\ mem = [loaded |-> mem.loaded, svcs |-> mem.svcs, runtime |-> mem.runtime,
            next |-> mem.next, entry |-> mem.entry, todo |-> mem.todo,
            buffer |-> mem.buffer, failed |-> mem.failed]
  /\ mem.loaded = 0 => mem = NoMemory
  /\ Described(mem.svcs)
  /\ mem.next \in Nat \ {0}
  /\ mem.entry \in {"none", "row", "package"}
  /\ mem.failed \in BOOLEAN

(* Rows have UUIDs that were generated.                                    *)
TableType ==
  /\ lastUuid \in Nat
  /\ DOMAIN services \subseteq 1 .. lastUuid
  /\ services = [u \in DOMAIN services |->
                   [svcid |-> services[u].svcid, package |-> services[u].package]]

(* The row of u is the one of the service s.                               *)
HasRow(u, s) ==
  /\ u \in DOMAIN services
  /\ s = <<s[1], s[2]>>
  /\ services[u] = [svcid |-> s[2], package |-> <<s[1]>>]

(* Rows that have a package differ.                                        *)
Unique ==
  \A u, v \in DOMAIN services :
    services[u] = services[v] /\ services[u].package # Null => u = v

(* The service that is being entered has the newest UUID and no row that   *)
(* the lookup can find: its own has no package yet.                        *)
Entering ==
  mem.entry # "none" =>
    /\ mem.next - 1 \in 1 .. Len(mem.svcs)
    /\ Latest.UUID = lastUuid /\ lastUuid # 0
    /\ Matching(Latest) = {}
    /\ mem.entry = "row" => lastUuid \notin DOMAIN services
    /\ mem.entry = "package" =>
         /\ lastUuid \in DOMAIN services
         /\ services[lastUuid] = [svcid |-> Latest.Name, package |-> Null]

(* Was the i-th service of the files looked up, and entered if need be?    *)
Done(i) == i < mem.next /\ (i = mem.next - 1 => mem.entry = "none")

(* If no statement failed, the services that are done have their rows.     *)
Filed ==
  ~mem.failed =>
    \A i \in 1 .. Len(mem.svcs) :
      Done(i) /\ ~Given(i) /\ Id(mem.svcs[i]) \notin mistaken =>
        HasRow(mem.svcs[i].UUID, Id(mem.svcs[i]))

(* A service that is not looked up yet has no UUID but from its file.      *)
Unnamed ==
  \A i \in 1 .. Len(mem.svcs) :
    i >= mem.next /\ ~Given(i) => mem.svcs[i].UUID = NilUUID

(* Every UUID a service was known by is the one of its row.                *)
Kept == \A s \in DOMAIN known \ mistaken : \A u \in known[s] : HasRow(u, s)

DBInv ==
  /\ MemType
  /\ TableType
  /\ Unique
  /\ Entering
  /\ Filed
  /\ Unnamed
  /\ Kept

-----------------------------------------------------------------------------
(* A function on 1 .. n is a sequence of length n.                         *)
LEMMA LenOf ==
  ASSUME NEW n \in Nat, NEW f, DOMAIN f = 1 .. n, f = [i \in 1 .. n |-> f[i]]
  PROVE  Len(f) = n
<1> DEFINE S == {f[i] : i \in 1 .. n}
<1>1. f \in [1 .. n -> S]
  OBVIOUS
<1>2. f \in Seq(S)
  BY <1>1
<1>3. Len(f) \in Nat /\ DOMAIN f = 1 .. Len(f)
  BY <1>2
<1> QED BY <1>3

(* Initially there is no table and no process.                             *)
LEMMA InitDB == Init => DBInv
<1> SUFFICES ASSUME Init PROVE DBInv
  OBVIOUS
<1>1. mem = NoMemory /\ services = << >> /\ lastUuid = 0 /\ known = << >>
  BY DEF Init
<1>2. DOMAIN services = {} /\ DOMAIN known = {} /\ services = [u \in {} |-> services[u]]
  BY <1>1
<1>3. Described(<< >>)
  BY DEF Described
<1>4. MemType
  BY <1>1, <1>3 DEF MemType, NoMemory
<1>5. TableType
  BY <1>1, <1>2 DEF TableType
<1>6. Len(mem.svcs) = 0 /\ mem.entry = "none"
  BY <1>1 DEF NoMemory
<1> QED BY <1>2, <1>4, <1>5, <1>6 DEF DBInv, Unique, Entering, Filed, Unnamed, Kept

(* What holds of the tables alone is kept while they are.                  *)
LEMMA TablesKept ==
  ASSUME DBInv, UNCHANGED <<services, lastUuid, known>>, mistaken \subseteq mistaken'
  PROVE  /\ TableType' /\ Unique' /\ Kept'
         /\ \A u, s : HasRow(u, s)' <=> HasRow(u, s)
BY DEF DBInv, TableType, Unique, Kept, HasRow

(* The process ends, or nothing happens to it.                             *)
LEMMA Forgotten ==
  ASSUME DBInv, UNCHANGED <<services, lastUuid, known, mistaken>>,
         mem' = NoMemory \/ mem' = mem
  PROVE  DBInv'
<1>1. TableType' /\ Unique' /\ Kept' /\ \A u, s : HasRow(u, s)' <=> HasRow(u, s)
  BY TablesKept
<1>2. CASE mem' = mem
  BY <1>1, <1>2 DEF DBInv, MemType, Entering, Filed, Unnamed, Latest, Matching, Done, Given
<1>3. CASE mem' = NoMemory
  <2>1. MemType'
    <3>1. Described(<< >>)
      BY DEF Described
    <3> QED BY <1>3, <3>1 DEF MemType, NoMemory
  <2>2. Len(mem'.svcs) = 0 /\ mem'.entry = "none"
    BY <1>3 DEF NoMemory
  <2> QED BY <1>1, <2>1, <2>2 DEF DBInv, Entering, Filed, Unnamed
<1> QED BY <1>2, <1>3

(* A start reads the files; nothing is looked up yet.                      *)
LEMMA LoadInv ==
  ASSUME DBInv, NEW c, Load(c)
  PROVE  DBInv'
<1>1. PICK read \in Readings :
        \/ /\ read.alive
           /\ mem' = [mem EXCEPT !.loaded = read.config, !.svcs = read.svcs,
                                 !.runtime = read.runtime]
           /\ UNCHANGED <<lockVars, mistaken>>
        \/ /\ ~read.alive
           /\ End(c)
           /\ mem' = NoMemory
           /\ UNCHANGED mistaken
  BY DEF Load
<1>2. UNCHANGED <<services, lastUuid, known, mistaken>> /\ mem.loaded = 0
  BY <1>1 DEF Load, tables
<1>3. CASE mem' = NoMemory
  BY <1>2, <1>3, Forgotten
<1>4. CASE mem' = [mem EXCEPT !.loaded = read.config, !.svcs = read.svcs, !.runtime = read.runtime]
  <2>1. TableType' /\ Unique' /\ Kept'
    BY <1>2, TablesKept
  <2>2. mem = NoMemory
    BY <1>2 DEF DBInv, MemType
  <2>3. mem' = [loaded |-> read.config, svcs |-> read.svcs, runtime |-> read.runtime, next |-> 1,
                entry |-> "none", todo |-> {}, buffer |-> NilUUID, failed |-> FALSE]
    BY <1>4, <2>2 DEF NoMemory
  <2>4. /\ read.config # 0 /\ Described(read.svcs)
        /\ \A i \in 1 .. Len(read.svcs) : read.runtime[i].UUID = NilUUID => read.svcs[i].UUID = NilUUID
    BY ReadingsAssumption DEF Described
  <2>5. MemType'
    BY <2>3, <2>4 DEF MemType
  <2>6. Entering' /\ Filed' /\ Unnamed'
    BY <2>3, <2>4 DEF Entering, Filed, Unnamed, Done, Given
  <2> QED BY <2>1, <2>5, <2>6 DEF DBInv
<1> QED BY <1>1, <1>3, <1>4

(* A statement of upk_db_upsert_options leaves the services alone.         *)
LEMMA StatementInv ==
  ASSUME DBInv, NEW c, Statement(c)
  PROVE  DBInv'
<1>1. UNCHANGED <<services, lastUuid, known, mistaken>> /\ mem.entry = "none"
  BY DEF Statement, Effect, Fails, tables
<1>2. TableType' /\ Unique' /\ Kept' /\ \A u, s : HasRow(u, s)' <=> HasRow(u, s)
  BY <1>1, TablesKept
<1>3. PICK k \in mem.todo : \/ mem' = [mem EXCEPT !.todo = @ \ {k}]
                           \/ mem' = [mem EXCEPT !.todo = @ \ {k}, !.failed = TRUE]
  BY DEF Statement
<1>4. /\ mem'.svcs = mem.svcs /\ mem'.runtime = mem.runtime /\ mem'.next = mem.next
      /\ mem'.entry = "none" /\ (mem'.failed = mem.failed \/ mem'.failed = TRUE)
      /\ mem'.loaded = mem.loaded /\ mem'.failed \in BOOLEAN
      /\ mem' = [loaded |-> mem'.loaded, svcs |-> mem'.svcs, runtime |-> mem'.runtime,
                 next |-> mem'.next, entry |-> mem'.entry, todo |-> mem'.todo,
                 buffer |-> mem'.buffer, failed |-> mem'.failed]
  BY <1>1, <1>3 DEF DBInv, MemType
<1>5. mem.loaded # 0
  BY <1>3 DEF DBInv, MemType, NoMemory
<1>6. MemType'
  BY <1>4, <1>5 DEF DBInv, MemType
<1>7. Entering' /\ Unnamed'
  BY <1>4 DEF DBInv, Entering, Unnamed, Given
<1>8. Filed'
  BY <1>1, <1>2, <1>4 DEF DBInv, Filed, Done, Given
<1> QED BY <1>2, <1>6, <1>7, <1>8 DEF DBInv

(* The row of a new service is written, without its package.               *)
LEMMA InsertRowInv ==
  ASSUME DBInv, NEW c, InsertRow(c)
  PROVE  DBInv'
<1> DEFINE u == lastUuid
           svc == Latest
<1>1. /\ mem.entry = "row" /\ UNCHANGED <<lastUuid, known, mistaken>>
      /\ mem.next - 1 \in 1 .. Len(mem.svcs) /\ svc.UUID = u /\ u \in Nat \ {0}
      /\ Matching(svc) = {} /\ u \notin DOMAIN services
      /\ mem.next \in Nat /\ Len(mem.svcs) \in Nat
  BY DEF InsertRow, DBInv, Entering, TableType, MemType, Described
<1>2. mem.loaded # 0
  BY <1>1 DEF DBInv, MemType, NoMemory
<1>3. mem' = [mem EXCEPT !.entry = "package"] \/ mem' = [mem EXCEPT !.entry = "none", !.failed = TRUE]
  BY DEF InsertRow
<1>4. /\ mem'.svcs = mem.svcs /\ mem'.runtime = mem.runtime /\ mem'.next = mem.next
      /\ mem'.entry \in {"package", "none"} /\ mem'.loaded = mem.loaded
      /\ (mem'.failed = mem.failed \/ mem'.failed = TRUE) /\ mem'.failed \in BOOLEAN
      /\ mem' = [loaded |-> mem'.loaded, svcs |-> mem'.svcs, runtime |-> mem'.runtime,
                 next |-> mem'.next, entry |-> mem'.entry, todo |-> mem'.todo,
                 buffer |-> mem'.buffer, failed |-> mem'.failed]
  BY <1>3 DEF DBInv, MemType
<1>5. MemType'
  BY <1>2, <1>4 DEF DBInv, MemType
<1>6. Latest' = svc /\ Unnamed'
  BY <1>4 DEF DBInv, Unnamed, Given, Latest
<1>7. CASE mem' = [mem EXCEPT !.entry = "package"]
           /\ services' = [v \in DOMAIN services \cup {Latest.UUID} |->
                          IF v \in DOMAIN services THEN services[v]
                          ELSE [svcid |-> Latest.Name, package |-> Null]]
  <2>0. mem'.entry = "package" /\ mem'.failed = mem.failed
    BY <1>7 DEF DBInv, MemType
  <2>1. /\ DOMAIN services' = DOMAIN services \cup {u}
        /\ \A v \in DOMAIN services : services'[v] = services[v] /\ v # u
        /\ services'[u] = [svcid |-> svc.Name, package |-> Null]
    BY <1>1, <1>7
  <2> HIDE DEF u, svc
  <2>2. TableType'
    <3>1. DOMAIN services' \subseteq 1 .. lastUuid'
      BY <1>1, <2>1 DEF DBInv, TableType, u
    <3>2. services' = [v \in DOMAIN services' |-> services'[v]]
      BY <1>7
    <3>3. \A v \in DOMAIN services' :
            services'[v] = [svcid |-> services'[v].svcid, package |-> services'[v].package]
      BY <2>1 DEF DBInv, TableType
    <3> QED BY <1>1, <3>1, <3>2, <3>3 DEF TableType, DBInv
  <2>3. Unique'
    <3> SUFFICES ASSUME NEW v \in DOMAIN services', NEW w \in DOMAIN services',
                        services'[v] = services'[w], services'[v].package # Null
                 PROVE  v = w
      BY DEF Unique
    <3>1. v # u /\ w # u
      BY <2>1
    <3> QED BY <2>1, <3>1 DEF DBInv, Unique
  <2>4. \A v, s : HasRow(v, s) => HasRow(v, s)'
    BY <2>1 DEF HasRow
  <2>5. Kept'
    BY <1>1, <2>4 DEF DBInv, Kept
  <2>6. Filed'
    BY <1>1, <1>4, <2>0, <2>4 DEF DBInv, Filed, Done, Given
  <2>7. Matching(svc)' = {}
    <3>1. \A v \in DOMAIN services' : ~(services'[v].svcid = svc.Name /\ services'[v].package = <<svc.Package>>)
      <4>1. ASSUME NEW v \in DOMAIN services
            PROVE  ~(services[v].svcid = svc.Name /\ services[v].package = <<svc.Package>>)
        BY <1>1, <4>1 DEF Matching
      <4>2. services'[u].package = << >> /\ << >> # <<svc.Package>>
        BY <2>1 DEF Null
      <4> QED BY <2>1, <4>1, <4>2
    <3> QED BY <1>6, <3>1 DEF Matching, svc
  <2>8. Entering'
    BY <1>1, <1>4, <1>6, <2>0, <2>1, <2>7 DEF Entering, u, svc
  <2> QED BY <1>5, <1>6, <2>2, <2>3, <2>5, <2>6, <2>8 DEF DBInv
<1>8. CASE UNCHANGED services /\ mem' = [mem EXCEPT !.entry = "none", !.failed = TRUE]
  <2>1. TableType' /\ Unique' /\ Kept'
    BY <1>1, <1>8, TablesKept
  <2>2. mem'.entry = "none" /\ mem'.failed = TRUE
    BY <1>8 DEF DBInv, MemType
  <2>3. Filed' /\ Entering'
    BY <2>2 DEF Filed, Entering
  <2> QED BY <1>5, <1>6, <2>1, <2>3 DEF DBInv
<1> QED BY <1>7, <1>8 DEF InsertRow, Fails, tables

(* The package makes the row the one of the new service.  Unique is kept   *)
(* as the lookup that came first found no such row.                        *)
LEMMA SetPackageInv ==
  ASSUME DBInv, NEW c, SetPackage(c)
  PROVE  DBInv'
<1> DEFINE u == lastUuid
           svc == Latest
<1>1. /\ mem.entry = "package" /\ UNCHANGED <<lastUuid, known, mistaken>>
      /\ mem.next - 1 \in 1 .. Len(mem.svcs) /\ svc.UUID = u /\ u \in Nat \ {0}
      /\ Matching(svc) = {}
      /\ u \in DOMAIN services /\ services[u] = [svcid |-> svc.Name, package |-> Null]
      /\ mem.next \in Nat /\ Len(mem.svcs) \in Nat
  BY DEF SetPackage, DBInv, Entering, TableType, MemType, Described
<1>2. mem.loaded # 0
  BY <1>1 DEF DBInv, MemType, NoMemory
<1>3. mem' = [mem EXCEPT !.entry = "none"] \/ mem' = [mem EXCEPT !.entry = "none", !.failed = TRUE]
  BY DEF SetPackage
<1>4. /\ mem'.svcs = mem.svcs /\ mem'.runtime = mem.runtime /\ mem'.next = mem.next
      /\ mem'.entry = "none" /\ mem'.loaded = mem.loaded
      /\ (mem'.failed = mem.failed \/ mem'.failed = TRUE) /\ mem'.failed \in BOOLEAN
      /\ mem' = [loaded |-> mem'.loaded, svcs |-> mem'.svcs, runtime |-> mem'.runtime,
                 next |-> mem'.next, entry |-> mem'.entry, todo |-> mem'.todo,
                 buffer |-> mem'.buffer, failed |-> mem'.failed]
  BY <1>3 DEF DBInv, MemType
<1>5. MemType' /\ Entering' /\ Unnamed'
  BY <1>2, <1>4 DEF DBInv, MemType, Entering, Unnamed, Given
<1>6. CASE services' = [v \in DOMAIN services |->
                          IF v = Latest.UUID THEN [services[v] EXCEPT !.package = <<Latest.Package>>]
                          ELSE services[v]]
  <2>1. /\ DOMAIN services' = DOMAIN services
        /\ \A v \in DOMAIN services : v # u => services'[v] = services[v]
        /\ services'[u] = [svcid |-> svc.Name, package |-> <<svc.Package>>]
        /\ services' = [v \in DOMAIN services' |-> services'[v]]
    BY <1>1, <1>6
  <2>2. ASSUME NEW v \in DOMAIN services
        PROVE  ~(services[v].svcid = svc.Name /\ services[v].package = <<svc.Package>>)
    BY <1>1, <2>2 DEF Matching
  <2>3. u \in DOMAIN services /\ services[u].package = Null
    BY <1>1
  <2> HIDE DEF u, svc
  <2>4. TableType'
    <3>1. \A v \in DOMAIN services' :
            services'[v] = [svcid |-> services'[v].svcid, package |-> services'[v].package]
      BY <2>1 DEF DBInv, TableType
    <3>2. services' = [v \in DOMAIN services' |->
                         [svcid |-> services'[v].svcid, package |-> services'[v].package]]
      BY <2>1, <3>1
    <3> QED BY <1>1, <2>1, <3>2 DEF DBInv, TableType
  <2>5. Unique'
    <3> SUFFICES ASSUME NEW v \in DOMAIN services', NEW w \in DOMAIN services',
                        services'[v] = services'[w], services'[v].package # Null
                 PROVE  v = w
      BY DEF Unique
    <3>1. CASE v # u /\ w # u
      BY <2>1, <3>1 DEF DBInv, Unique
    <3>2. CASE v = u /\ w # u
      BY <2>1, <2>2, <3>2
    <3>3. CASE v # u /\ w = u
      BY <2>1, <2>2, <3>3
    <3> QED BY <3>1, <3>2, <3>3
  <2>6. ASSUME NEW v, NEW s, HasRow(v, s) PROVE HasRow(v, s)'
    <3>1. services[v].package # Null /\ v \in DOMAIN services
      BY <2>6 DEF HasRow, Null
    <3> QED BY <2>1, <2>3, <2>6, <3>1 DEF HasRow
  <2>7. Kept'
    BY <1>1, <2>6 DEF DBInv, Kept
  <2>8. \A v, s : v = u /\ s = Id(svc) => HasRow(v, s)'
    BY <2>1, <2>3 DEF HasRow, Id
  <2>9. Filed'
    <3> SUFFICES ASSUME ~mem'.failed, NEW i \in 1 .. Len(mem.svcs), Done(i)', ~Given(i),
                        NEW v, v = mem.svcs[i].UUID, NEW s, s = Id(mem.svcs[i]), s \notin mistaken
                 PROVE  HasRow(v, s)'
      BY <1>1, <1>4 DEF Filed, Given
    <3>1. ~mem.failed /\ i < mem.next
      BY <1>4 DEF Done
    <3>2. CASE i = mem.next - 1
      BY <1>1, <2>8, <3>1, <3>2 DEF svc, Latest
    <3>3. CASE i # mem.next - 1
      BY <2>6, <3>1, <3>3 DEF DBInv, Filed, Done
    <3> QED BY <3>2, <3>3
  <2> QED BY <1>5, <2>4, <2>5, <2>7, <2>9 DEF DBInv
<1>7. CASE UNCHANGED services /\ mem'.failed = TRUE
  <2>1. TableType' /\ Unique' /\ Kept'
    BY <1>1, <1>7, TablesKept
  <2>2. Filed'
    BY <1>7 DEF Filed
  <2> QED BY <1>5, <2>1, <2>2 DEF DBInv
<1> QED BY <1>6, <1>7, <1>3 DEF SetPackage, Fails, tables, DBInv, MemType

(* upk_db_insert_cfg goes on to the statements for a service: nothing but  *)
(* its UUID changes among the descriptions.                                *)
LEMMA ProceedInv ==
  ASSUME DBInv, NEW buffer, NEW uuid, NEW entry \in {"none", "row"}, NEW full \in BOOLEAN,
         Proceed(buffer, uuid, entry, full),
         mem.loaded # 0, mem.next \in 1 .. Len(mem.svcs)
  PROVE  /\ mem'.next = mem.next + 1 /\ mem'.entry = entry /\ mem'.failed = mem.failed
         /\ mem'.runtime = mem.runtime /\ Len(mem'.svcs) = Len(mem.svcs)
         /\ \A i \in 1 .. Len(mem.svcs) :
              /\ Id(mem'.svcs[i]) = Id(mem.svcs[i])
              /\ i # mem.next => mem'.svcs[i] = mem.svcs[i]
         /\ mem'.svcs[mem.next].UUID = uuid
         /\ mem'.svcs[mem.next].Name = mem.svcs[mem.next].Name
         /\ mem'.svcs[mem.next].Package = mem.svcs[mem.next].Package
         /\ MemType' /\ Unnamed'
<1> DEFINE n == mem.next
           s == mem.svcs
           t == [s EXCEPT ![n].UUID = uuid]
<1>1. n \in Nat /\ Len(s) \in Nat /\ Described(s) /\ n \in 1 .. Len(s)
  BY DEF DBInv, MemType, Described
<1>2. /\ mem' = [loaded |-> mem.loaded, svcs |-> t, runtime |-> mem.runtime, next |-> n + 1,
                 entry |-> entry, todo |-> IF full THEN Todo(t[n]) ELSE {}, buffer |-> buffer, failed |-> mem.failed]
      /\ mem.failed \in BOOLEAN
  BY DEF DBInv, MemType, Proceed
<1>3. /\ Described(t) /\ Len(t) = Len(s)
      /\ \A i \in 1 .. Len(s) : i # n => t[i] = s[i]
      /\ t[n].UUID = uuid /\ t[n].Package = s[n].Package /\ t[n].Name = s[n].Name
  <2> DEFINE m == Len(s)
  <2>1. /\ m \in Nat /\ n \in 1 .. m /\ DOMAIN s = 1 .. m
        /\ \A i \in 1 .. m : s[i] = [o \in Options |-> s[i][o]]
        /\ \A i \in 1 .. m : \A o \in Sections : Len(s[i][o]) \in Nat
    BY <1>1 DEF Described
  <2>2. {"UUID", "Package", "Name"} \subseteq Options
    BY DEF Options, TextOptions
  <2>9. "UUID" \notin Sections /\ Sections \subseteq Options
    BY DEF Sections, Options, ArrayOptions, UnreadLists
  <2> HIDE DEF m, s, n
  <2>3. /\ DOMAIN t = 1 .. m /\ t = [i \in 1 .. m |-> t[i]]
        /\ \A i \in 1 .. m : i # n => t[i] = s[i]
        /\ t[n] = [s[n] EXCEPT !.UUID = uuid]
    BY <2>1
  <2> HIDE DEF t
  <2>4. /\ t[n] = [o \in Options |-> t[n][o]]
        /\ t[n].UUID = uuid /\ t[n].Package = s[n].Package /\ t[n].Name = s[n].Name
    BY <2>1, <2>2, <2>3
  <2>5. \A i \in 1 .. m : t[i] = [o \in Options |-> t[i][o]]
    BY <2>1, <2>3, <2>4
  <2>6. Len(t) = m
    BY <2>1, <2>3, LenOf
  <2>7. t = [i \in 1 .. m |-> [o \in Options |-> t[i][o]]]
    BY <2>3, <2>5
  <2>10. \A i \in 1 .. m : \A o \in Sections : t[i][o] = s[i][o]
    BY <2>1, <2>3, <2>9
  <2>8. Described(t)
    BY <2>1, <2>6, <2>7, <2>10 DEF Described
  <2> QED BY <2>3, <2>4, <2>6, <2>8 DEF m
<1> HIDE DEF t
<1>4. MemType'
  BY <1>1, <1>2, <1>3 DEF MemType
<1>5. Unnamed'
  <2> SUFFICES ASSUME NEW i \in 1 .. Len(s), i >= n + 1, ~Given(i)
               PROVE  t[i].UUID = NilUUID
    BY <1>2, <1>3 DEF Unnamed, Given
  <2>1. i # n /\ i >= n
    BY <1>1
  <2> QED BY <1>3, <2>1 DEF DBInv, Unnamed
<1>6. \A i \in 1 .. Len(s) : Id(t[i]) = Id(s[i])
  <2>1. ASSUME NEW i \in 1 .. Len(s) PROVE Id(t[i]) = Id(s[i])
    <3>1. CASE i = n
      BY <1>3, <3>1 DEF Id
    <3>2. CASE i # n
      BY <1>3, <3>2
    <3> QED BY <3>1, <3>2
  <2> QED BY <2>1
<1> QED BY <1>2, <1>3, <1>4, <1>5, <1>6

(* upk_db_insert_cfg.  A lookup that finds a row finds the one of the      *)
(* service, unless it returns what the buffer holds; one that finds        *)
(* nothing is followed by a new UUID, which has no row.                    *)
LEMMA InsertCfgInv ==
  ASSUME DBInv, NEW c, InsertCfg(c)
  PROVE  DBInv'
<1> DEFINE n == mem.next
           svc == mem.svcs[n]
<1>1. /\ mem.loaded # 0 /\ mem.entry = "none" /\ n \in 1 .. Len(mem.svcs)
      /\ UNCHANGED <<services, known>>
      /\ n \in Nat /\ Len(mem.svcs) \in Nat /\ Described(mem.svcs)
  BY DEF InsertCfg, Idle, tables, DBInv, MemType, Described
<1>2. PICK found \in SvcUuidLookup(svc) :
        \/ /\ svc.UUID # NilUUID /\ found = NilUUID
           /\ mem' = NoMemory
           /\ UNCHANGED <<lastUuid, mistaken>>
        \/ /\ svc.UUID # NilUUID
           /\ \E full \in BOOLEAN : Proceed(found, svc.UUID, "none", full)
           /\ UNCHANGED <<lastUuid, mistaken>>
        \/ /\ svc.UUID = NilUUID /\ found # NilUUID
           /\ \E full \in BOOLEAN : Proceed(found, found, "none", full)
           /\ mistaken' = IF found = mem.buffer /\ found \notin Matching(svc)
                          THEN mistaken \cup {Id(svc)} ELSE mistaken
           /\ UNCHANGED lastUuid
        \/ /\ svc.UUID = NilUUID /\ found = NilUUID
           /\ lastUuid' = lastUuid + 1
           /\ \E full \in BOOLEAN : Proceed(found, lastUuid + 1, "row", full)
           /\ UNCHANGED mistaken
  BY DEF InsertCfg
<1>3. CASE mem' = NoMemory /\ UNCHANGED <<lastUuid, mistaken>>
  BY <1>1, <1>3, Forgotten
<1>5. ASSUME NEW uuid, NEW full \in BOOLEAN, NEW b, Proceed(b, uuid, "none", full), UNCHANGED lastUuid,
             mistaken \subseteq mistaken',
             Given(n) \/ HasRow(uuid, Id(svc)) \/ Id(svc) \in mistaken'
      PROVE  DBInv'
  <2> HIDE DEF n, svc
  <2>0. /\ mem'.runtime = mem.runtime /\ mem'.next = n + 1 /\ mem'.entry = "none"
        /\ mem'.failed = mem.failed /\ Len(mem'.svcs) = Len(mem.svcs)
        /\ \A i \in 1 .. Len(mem.svcs) :
             /\ Id(mem'.svcs[i]) = Id(mem.svcs[i])
             /\ i # n => mem'.svcs[i] = mem.svcs[i]
        /\ mem'.svcs[n].UUID = uuid /\ MemType' /\ Unnamed'
    <3>1. /\ mem'.next = mem.next + 1 /\ mem'.entry = "none" /\ mem'.failed = mem.failed
          /\ mem'.runtime = mem.runtime /\ Len(mem'.svcs) = Len(mem.svcs)
          /\ \A i \in 1 .. Len(mem.svcs) :
               /\ Id(mem'.svcs[i]) = Id(mem.svcs[i])
               /\ i # mem.next => mem'.svcs[i] = mem.svcs[i]
          /\ mem'.svcs[mem.next].UUID = uuid
          /\ mem'.svcs[mem.next].Name = mem.svcs[mem.next].Name
          /\ mem'.svcs[mem.next].Package = mem.svcs[mem.next].Package
          /\ MemType' /\ Unnamed'
      <4>1. mem.loaded # 0 /\ mem.next \in 1 .. Len(mem.svcs)
        BY <1>1 DEF n
      <4> QED BY <4>1, <1>5, ProceedInv
    <3> QED BY <3>1 DEF n, svc
  <2>1. /\ TableType' /\ Unique' /\ Kept' /\ \A u, s : HasRow(u, s)' <=> HasRow(u, s)
    BY <1>1, <1>5, TablesKept
  <2>2. Entering'
    BY <2>0 DEF Entering
  <2>3. Filed'
    <3> SUFFICES ASSUME ~mem.failed, NEW i \in 1 .. Len(mem.svcs), i < n + 1, ~Given(i),
                        Id(mem.svcs[i]) \notin mistaken'
                 PROVE  HasRow(mem'.svcs[i].UUID, Id(mem.svcs[i]))
      BY <2>0, <2>1 DEF Filed, Done, Given
    <3>1. CASE i = n
      BY <1>5, <2>0, <3>1 DEF svc
    <3>2. CASE i # n
      <4>1. Done(i) /\ Id(mem.svcs[i]) \notin mistaken /\ mem'.svcs[i] = mem.svcs[i]
        BY <1>1, <1>5, <2>0, <3>2 DEF Done, n
      <4> QED BY <4>1 DEF DBInv, Filed
    <3> QED BY <3>1, <3>2
  <2> QED BY <2>0, <2>1, <2>2, <2>3 DEF DBInv
<1>6. ASSUME svc.UUID # NilUUID PROVE Given(n)
  BY <1>1, <1>6 DEF DBInv, Unnamed
<1>7. ASSUME found \in Matching(svc) PROVE HasRow(found, Id(svc))
  BY <1>7 DEF Matching, HasRow, Id, DBInv, TableType
<1>8. found \in Matching(svc) \/ (Matching(svc) = {} /\ found = mem.buffer)
  BY <1>2 DEF SvcUuidLookup
<1>9. ASSUME NEW full \in BOOLEAN, NEW fresh, fresh = lastUuid + 1, svc.UUID = NilUUID, found = NilUUID,
             lastUuid' = fresh, UNCHANGED mistaken, Proceed(found, fresh, "row", full)
      PROVE  DBInv'
  <2> HIDE DEF n, svc
  <2>0. /\ mem'.runtime = mem.runtime /\ mem'.next = n + 1 /\ mem'.entry = "row"
        /\ mem'.failed = mem.failed /\ Len(mem'.svcs) = Len(mem.svcs)
        /\ \A i \in 1 .. Len(mem.svcs) :
             /\ Id(mem'.svcs[i]) = Id(mem.svcs[i])
             /\ i # n => mem'.svcs[i] = mem.svcs[i]
        /\ mem'.svcs[n].UUID = fresh /\ mem'.svcs[n].Name = svc.Name
        /\ mem'.svcs[n].Package = svc.Package /\ MemType' /\ Unnamed'
    <3>1. /\ mem'.next = mem.next + 1 /\ mem'.entry = "row" /\ mem'.failed = mem.failed
          /\ mem'.runtime = mem.runtime /\ Len(mem'.svcs) = Len(mem.svcs)
          /\ \A i \in 1 .. Len(mem.svcs) :
               /\ Id(mem'.svcs[i]) = Id(mem.svcs[i])
               /\ i # mem.next => mem'.svcs[i] = mem.svcs[i]
          /\ mem'.svcs[mem.next].UUID = fresh
          /\ mem'.svcs[mem.next].Name = mem.svcs[mem.next].Name
          /\ mem'.svcs[mem.next].Package = mem.svcs[mem.next].Package
          /\ MemType' /\ Unnamed'
      <4>1. mem.loaded # 0 /\ mem.next \in 1 .. Len(mem.svcs)
        BY <1>1 DEF n
      <4>2. Proceed(found, fresh, "row", full)
        BY <1>9
      <4> QED BY <4>1, <4>2, ProceedInv
    <3> QED BY <3>1 DEF n, svc
  <2>1. Matching(svc) = {}
    <3>1. found \notin DOMAIN services
      BY <1>9 DEF DBInv, TableType, NilUUID
    <3> QED BY <1>8, <3>1 DEF Matching
  <2>2. /\ lastUuid \in Nat /\ DOMAIN services \subseteq 1 .. lastUuid
        /\ lastUuid + 1 \notin DOMAIN services /\ lastUuid + 1 # 0
        /\ TableType'
    BY <1>1, <1>9 DEF DBInv, TableType
  <2>3. Unique' /\ Kept' /\ \A u, s : HasRow(u, s)' <=> HasRow(u, s)
    BY <1>1, <1>9 DEF DBInv, Unique, Kept, HasRow
  <2>4. Entering'
    <3>1. Latest' = mem'.svcs[n] /\ mem'.next - 1 = n
      BY <1>1, <2>0 DEF Latest
    <3>2. Matching(Latest)' = {}
      BY <1>1, <2>0, <2>1, <3>1 DEF Matching
    <3> QED BY <1>1, <1>9, <2>0, <2>2, <3>1, <3>2 DEF Entering
  <2>5. Filed'
    <3> SUFFICES ASSUME ~mem.failed, NEW i \in 1 .. Len(mem.svcs), i < n, ~Given(i),
                        Id(mem.svcs[i]) \notin mistaken
                 PROVE  HasRow(mem'.svcs[i].UUID, Id(mem.svcs[i]))
      <4>1. \A i \in 1 .. Len(mem.svcs) : Done(i)' => i < n
        BY <1>1, <2>0 DEF Done
      <4> QED BY <1>9, <2>0, <2>3, <4>1 DEF Filed, Given
    <3>1. Done(i) /\ mem'.svcs[i] = mem.svcs[i]
      BY <1>1, <2>0 DEF Done, n
    <3> QED BY <3>1 DEF DBInv, Filed
  <2> QED BY <2>0, <2>2, <2>3, <2>4, <2>5 DEF DBInv
<1> HIDE DEF n, svc
<1> QED BY <1>2, <1>3, <1>5, <1>6, <1>7, <1>8, <1>9

(* All services are in, each with its row: what is known of them then is   *)
(* what the table says.                                                    *)
LEMMA ReadyInv ==
  ASSUME DBInv, NEW c, Ready(c)
  PROVE  DBInv'
<1> DEFINE unnamed == {i \in DOMAIN mem.svcs : ~Given(i)}
<1>1. UNCHANGED <<services, mem, lastUuid, mistaken>>
  BY DEF Ready, tables
<1>2. /\ mem.entry = "none" /\ mem.next > Len(mem.svcs) /\ mem.next \in Nat
      /\ Len(mem.svcs) \in Nat /\ DOMAIN mem.svcs = 1 .. Len(mem.svcs)
  BY DEF Ready, Idle, DBInv, MemType, Described
<1>3. MemType' /\ TableType' /\ Unique' /\ Entering' /\ Filed' /\ Unnamed'
  BY <1>1 DEF DBInv, MemType, TableType, Unique, Entering, Filed, Unnamed, Latest, Matching,
              Done, Given, HasRow
<1>4. \A u, s : HasRow(u, s)' <=> HasRow(u, s)
  BY <1>1 DEF HasRow
<1>5. ASSUME ~mem.failed, NEW i \in unnamed, Id(mem.svcs[i]) \notin mistaken
      PROVE  HasRow(mem.svcs[i].UUID, Id(mem.svcs[i]))
  <2>1. i \in 1 .. Len(mem.svcs) /\ ~Given(i) /\ Done(i)
    BY <1>2, <1>5 DEF Done
  <2> QED BY <1>5, <2>1 DEF DBInv, Filed
<1>6. Kept'
  <2>1. CASE mem.failed
    BY <1>1, <1>4, <2>1 DEF Ready, DBInv, Kept
  <2>2. CASE ~mem.failed
    <3> DEFINE now == {Id(mem.svcs[i]) : i \in unnamed}
               had(s) == IF s \in DOMAIN known THEN known[s] ELSE {}
               has(s) == {mem.svcs[i].UUID : i \in {j \in unnamed : Id(mem.svcs[j]) = s}}
    <3>1. known' = [s \in now \cup DOMAIN known |-> had(s) \cup has(s)]
      BY <2>2 DEF Ready
    <3>2. ASSUME NEW s \in now \cup DOMAIN known, s \notin mistaken, NEW u \in had(s) \cup has(s)
          PROVE  HasRow(u, s)
      <4>1. CASE u \in had(s)
        BY <3>2, <4>1 DEF DBInv, Kept
      <4>2. CASE u \in has(s)
        <5>1. PICK i \in unnamed : Id(mem.svcs[i]) = s /\ u = mem.svcs[i].UUID
          BY <4>2
        <5> QED BY <1>5, <2>2, <3>2, <5>1
      <4> QED BY <3>2, <4>1, <4>2
    <3> HIDE DEF now, had, has
    <3>3. DOMAIN known' = now \cup DOMAIN known
          /\ \A s \in now \cup DOMAIN known : known'[s] = had(s) \cup has(s)
      BY <3>1
    <3> QED BY <1>1, <1>4, <3>2, <3>3 DEF Kept
  <2> QED BY <2>1, <2>2
<1> QED BY <1>3, <1>6 DEF DBInv

(* Every step of a start keeps the tables as they should be.               *)
LEMMA DBStep == DBInv /\ [Next]_vars => DBInv'
<1> SUFFICES ASSUME DBInv, [Next]_vars PROVE DBInv'
  OBVIOUS
<1>1. CASE UNCHANGED dbVars
  BY <1>1, Forgotten DEF dbVars, tables
<1>2. ASSUME NEW c \in Controllers, Killed(c) PROVE DBInv'
  BY <1>2, Forgotten DEF Killed, tables
<1>3. ASSUME NEW c \in Controllers, Exit(c) PROVE DBInv'
  BY <1>3, Forgotten DEF Exit, tables
<1>4. ASSUME NEW c \in Controllers, Lock(c) PROVE DBInv'
  BY <1>1, <1>4 DEF Lock
<1>5. ASSUME NEW c \in Controllers, Load(c) PROVE DBInv'
  BY <1>5, LoadInv
<1>6. ASSUME NEW c \in Controllers, InsertCfg(c) PROVE DBInv'
  BY <1>6, InsertCfgInv
<1>7. ASSUME NEW c \in Controllers, InsertRow(c) PROVE DBInv'
  BY <1>7, InsertRowInv
<1>8. ASSUME NEW c \in Controllers, SetPackage(c) PROVE DBInv'
  BY <1>8, SetPackageInv
<1>9. ASSUME NEW c \in Controllers, Statement(c) PROVE DBInv'
  BY <1>9, StatementInv
<1>10. ASSUME NEW c \in Controllers, Ready(c) PROVE DBInv'
  BY <1>10, ReadyInv
<1> QED BY <1>1, <1>2, <1>3, <1>4, <1>5, <1>6, <1>7, <1>8, <1>9, <1>10 DEF Next, vars

(* What the tables and the process that fills them go by, at any moment.   *)
THEOREM DBInductive == Spec => []DBInv
<1> QED BY InitDB, DBStep, PTL DEF Spec

(* Two UUIDs of a service have the same row; the rows of two services are  *)
(* not the same.                                                           *)
LEMMA KeptIdentity == DBInv => OwnIdentity
<1> SUFFICES ASSUME DBInv, NEW s \in DOMAIN known \ mistaken
             PROVE  /\ \A u, v \in known[s] : u = v
                    /\ \A t \in (DOMAIN known \ mistaken) \ {s} : known[s] \cap known[t] = {}
  BY DEF OwnIdentity
<1>1. ASSUME NEW u \in known[s], NEW v \in known[s] PROVE u = v
  <2>1. HasRow(u, s) /\ HasRow(v, s)
    BY DEF DBInv, Kept
  <2>2. services[u] = services[v] /\ services[u].package # Null
    BY <2>1 DEF HasRow, Null
  <2> QED BY <2>1, <2>2 DEF DBInv, Unique, HasRow
<1>2. ASSUME NEW t \in DOMAIN known \ mistaken, NEW u \in known[s], u \in known[t] PROVE s = t
  <2>1. HasRow(u, s) /\ HasRow(u, t)
    BY <1>2 DEF DBInv, Kept
  <2>2. s[1] = t[1] /\ s[2] = t[2]
    BY <2>1 DEF HasRow
  <2> QED BY <2>1, <2>2 DEF HasRow
<1> QED BY <1>1, <1>2

(* A service keeps its UUID and shares it with no other one, whatever the  *)
(* files hold, through crashes between any two statements and statements   *)
(* that fail, but for those that were given what the static buffer of      *)
(* upk_db_svc_uuid_lookup held.                                            *)
THEOREM OwnIdentityAlways == Spec => []OwnIdentity
<1> QED BY DBInductive, KeptIdentity, PTL
-----------------------------------------------------------------------------
(* Bringing the database up to date leaves the lock alone.                 *)
THEOREM KeepsLock == Spec => LockSpec
<1>1. Init => LockInit
  BY DEF Init
<1>2. [Next]_vars => [LockNext]_lockVars
  <2> SUFFICES ASSUME [Next]_vars PROVE [LockNext]_lockVars
    OBVIOUS
  <2>1. CASE UNCHANGED vars
    BY <2>1 DEF vars
  <2>2. ASSUME NEW c \in Controllers, Killed(c) \/ Exit(c) \/ Lock(c) \/ Ready(c) PROVE LockNext
    BY <2>2 DEF Killed, Exit, Lock, Ready, LockNext, Step
  <2>3. ASSUME NEW c \in Controllers, Load(c) PROVE LockNext \/ UNCHANGED lockVars
    BY <2>3 DEF Load, LockNext, Step
  <2>4. ASSUME NEW c \in Controllers, InsertCfg(c) PROVE LockNext \/ UNCHANGED lockVars
    BY <2>4 DEF InsertCfg, LockNext, Step
  <2>5. ASSUME NEW c \in Controllers, InsertRow(c) \/ SetPackage(c) \/ Statement(c)
        PROVE  UNCHANGED lockVars
    BY <2>5 DEF InsertRow, SetPackage, Statement
  <2> QED BY <2>1, <2>2, <2>3, <2>4, <2>5 DEF Next
<1> QED BY <1>1, <1>2, PTL DEF Spec, LockSpec

(* Through the same lock, one controller at a time writes to the database. *)
THEOREM OneWriterAlways == Spec => []OneController
<1> QED BY KeepsLock, OneControllerAlways, PTL

(* A controller that goes on to its event loop has dealt with all services.*)
Through ==
  \A c \in Controllers :
    pc[c] = "run" /\ ~orphaned => Idle /\ mem.next > Len(mem.svcs)

(* In the event loop after a start in which no statement failed, a lookup  *)
(* would find one row for each service that is not given a UUID, and in it *)
(* the UUID of its description.                                            *)
Entered ==
  \A c \in Controllers :
    pc[c] = "run" /\ ~orphaned /\ ~mem.failed =>
      \A i \in 1 .. Len(mem.svcs) :
        ~Given(i) /\ Id(mem.svcs[i]) \notin mistaken =>
          Matching(mem.svcs[i]) = {mem.svcs[i].UUID}

(* The services are not touched but by the controller that has the lock,   *)
(* and then no other one is in its event loop.                             *)
LEMMA ThroughStep == LockInv /\ OneController /\ Through /\ [Next]_vars => Through'
<1> SUFFICES ASSUME LockInv, OneController, Through, [Next]_vars,
                    NEW c \in Controllers, pc'[c] = "run", ~orphaned'
             PROVE  Idle' /\ mem'.next > Len(mem'.svcs)
  BY DEF Through
<1> USE DEF LockInv, LockTypeOK
<1>1. ASSUME pc[c] = "run", UNCHANGED mem, ~orphaned PROVE Idle' /\ mem'.next > Len(mem'.svcs)
  BY <1>1 DEF Through, Idle
<1>2. ASSUME NEW d \in Controllers, pc[d] = "locked", pc[c] = "run", ~orphaned PROVE FALSE
  BY <1>2 DEF OneController
<1>3. CASE UNCHANGED vars
  BY <1>1, <1>3 DEF vars, lockVars, dbVars
<1>4. ASSUME NEW d \in Controllers, Lock(d) PROVE pc[c] = "run" /\ UNCHANGED mem /\ ~orphaned
  BY <1>4 DEF Lock, OpenLock, Flock, dbVars
<1>5. ASSUME NEW d \in Controllers, Load(d) \/ InsertCfg(d) \/ InsertRow(d) \/ SetPackage(d) \/ Statement(d)
      PROVE  pc[d] = "locked" /\ pc[c] = "run" /\ ~orphaned
  <2>1. pc[d] = "locked" /\ ~orphaned /\ (UNCHANGED lockVars \/ End(d))
    BY <1>5 DEF Load, InsertCfg, InsertRow, SetPackage, Statement
  <2> QED BY <2>1 DEF End, lockVars
<1>6. ASSUME NEW d \in Controllers, Ready(d) PROVE Idle' /\ mem'.next > Len(mem'.svcs)
  BY <1>6 DEF Ready, Idle
<1>7. ASSUME NEW d \in Controllers, Exit(d)
      PROVE  Idle' /\ mem'.next > Len(mem'.svcs)
  BY <1>7 DEF Exit, NoMemory, Idle
<1>8. ASSUME NEW d \in Controllers, Killed(d)
      PROVE  Idle' /\ mem'.next > Len(mem'.svcs)
  <2>1. CASE UNCHANGED mem
    BY <1>1, <1>8, <2>1 DEF Killed, End
  <2>2. CASE mem' = NoMemory
    BY <2>2 DEF NoMemory, Idle
  <2> QED BY <1>8, <2>1, <2>2 DEF Killed
<1> QED BY <1>1, <1>2, <1>3, <1>4, <1>5, <1>6, <1>7, <1>8 DEF Next

(* Every service of the files is entered once when the event loop starts.  *)
THEOREM EnteredAlways == Spec => []Entered
<1>1. Init => Through
  BY DEF Init, LockInit, Through
<1>2. LockInv => OneController
  BY DEF LockInv, Exclusive, Current, OneController, Holds
<1>3. DBInv /\ Through => Entered
  <2> SUFFICES ASSUME DBInv, Through, NEW c \in Controllers, pc[c] = "run", ~orphaned, ~mem.failed,
                      NEW i \in 1 .. Len(mem.svcs), ~Given(i), Id(mem.svcs[i]) \notin mistaken
               PROVE  Matching(mem.svcs[i]) = {mem.svcs[i].UUID}
    BY DEF Entered
  <2> DEFINE svc == mem.svcs[i]
  <2>1. Done(i)
    BY DEF Through, Idle, Done, DBInv, MemType, Described
  <2>2. HasRow(svc.UUID, Id(svc))
    BY <2>1 DEF DBInv, Filed
  <2>3. svc.UUID \in Matching(svc) /\ services[svc.UUID] = [svcid |-> svc.Name, package |-> <<svc.Package>>]
    BY <2>2 DEF HasRow, Matching, Id
  <2>4. ASSUME NEW u \in Matching(svc) PROVE u = svc.UUID
    <3>1. u \in DOMAIN services /\ services[u] = services[svc.UUID] /\ services[u].package # Null
      <4>1. /\ u \in DOMAIN services /\ services[u].svcid = svc.Name
            /\ services[u].package = <<svc.Package>>
        BY <2>4 DEF Matching
      <4>2. services[u] = [svcid |-> services[u].svcid, package |-> services[u].package]
        BY <4>1 DEF DBInv, TableType
      <4>3. <<svc.Package>> # << >>
        OBVIOUS
      <4> QED BY <2>3, <4>1, <4>2, <4>3 DEF Null
    <3> QED BY <2>3, <3>1 DEF DBInv, Unique, Matching
  <2> QED BY <2>3, <2>4
<1>4. Spec => []LockInv
  <2>1. LockInv /\ [LockNext]_lockVars => LockInv'
    BY LockTypeStep, ExclusiveStep, CurrentStep DEF LockInv
  <2> QED BY KeepsLock, LockInitInv, <2>1, PTL DEF LockSpec
<1> QED BY <1>1, <1>2, <1>3, <1>4, ThroughStep, DBInductive, PTL DEF Spec
-----------------------------------------------------------------------------
(* The first len rows of a service that have a text.                       *)
Texts(svc, len) == {j \in 1 .. len : Rows(svc)[j].value # << >>}

(* The statements of the service looked up last that are behind, and which *)
(* of its rows these wrote.  The rows come after the deletion (Deletion).  *)
Deletion == Len(OptionOrder) + 1
Behind == Todo(Latest) \ mem.todo
Written == {j \in 1 .. Len(Rows(Latest)) : Deletion + j \in Behind}

(* Statements are executed in their order.                                 *)
InTurn ==
  /\ mem.todo \subseteq Todo(Latest)
  /\ \A k \in Behind, j \in mem.todo : k < j

(* What they did is in the tables.                                         *)
Partly ==
  /\ \A k \in 1 .. Len(OptionOrder) : k \in Behind =>
       /\ <<Latest.UUID, OptionOrder[k]>> \in DOMAIN options
       /\ options[<<Latest.UUID, OptionOrder[k]>>] = Bound(Latest, OptionOrder[k])
  /\ Deletion \in Behind =>
       /\ Len(Listed(Latest.UUID)) = Cardinality(Written)
       /\ \A k \in Written :
            Listed(Latest.UUID)[Cardinality(Texts(Latest, k))] = Rows(Latest)[k]

(* Where the process is.                                                   *)
Position ==
  /\ mem.next <= Len(mem.svcs) + 1
  /\ mem.todo \subseteq (IF mem.next > 1 THEN Todo(Latest) ELSE {})

(* The table has a list of rows for each service.                          *)
ListType == \A u : \E S : Listed(u) \in Seq(S)

(* If no statement failed, the service looked up last is stored as far as  *)
(* its statements are behind ...                                           *)
UnderWay ==
  ~mem.failed /\ mem.next > 1 /\ ~Given(mem.next - 1) => InTurn /\ Partly

(* ... and those before it are, but for a later one with the same UUID.    *)
Over ==
  ~mem.failed =>
    \A i \in 1 .. Len(mem.svcs) :
      /\ i < mem.next - 1 /\ ~Given(i)
      /\ \A j \in 1 .. Len(mem.svcs) : i < j /\ j < mem.next => mem.svcs[j].UUID # mem.svcs[i].UUID
      => Stored(mem.svcs[i])

StoredInv == Position /\ ListType /\ UnderWay /\ Over

(* The rows of one list.                                                   *)
LEMMA ListRowsSeq ==
  ASSUME NEW svc, NEW section, NEW parts, Len(svc[section]) \in Nat
  PROVE  \E T : ListRows(svc, section, parts) \in Seq(T) /\ \A r \in T : r.op = "row"
<1> DEFINE f == ListRows(svc, section, parts)
           n == 2 * Len(svc[section])
           T == {f[k] : k \in 1 .. n}
<1>1. n \in Nat
  OBVIOUS
<1>2. DOMAIN f = 1 .. n /\ f = [k \in 1 .. n |-> f[k]]
  BY DEF ListRows
<1>3. \A k \in 1 .. n : f[k].op = "row"
  BY DEF ListRows
<1> HIDE DEF f, n
<1>4. f \in [1 .. n -> T]
  BY <1>2
<1>5. f \in Seq(T)
  BY <1>1, <1>4
<1> QED BY <1>3, <1>5 DEF f

(* The statements of a service: its options, the deletion, its rows.       *)
LEMMA Places ==
  ASSUME NEW svc, \A o \in Sections : Len(svc[o]) \in Nat
  PROVE  /\ Len(OptionOrder) \in Nat /\ Len(Rows(svc)) \in Nat
         /\ Len(UpsertOptions(svc)) = Deletion + Len(Rows(svc))
         /\ \A k \in 1 .. Len(OptionOrder) :
              UpsertOptions(svc)[k] = [op |-> "upsert", key |-> OptionOrder[k],
                                       value |-> Bound(svc, OptionOrder[k])]
         /\ UpsertOptions(svc)[Deletion] = [op |-> "delete"]
         /\ \A k \in 1 .. Len(Rows(svc)) : /\ UpsertOptions(svc)[Deletion + k] = Rows(svc)[k]
                                           /\ Rows(svc)[k].op = "row"
<1> DEFINE n == Len(OptionOrder)
           a == ListRows(svc, "Provides", <<"name", "pkg">>)
           b == ListRows(svc, "StartAfter", <<"name", "pkg">>)
           d == ListRows(svc, "RestartOnNamedPrereqRestart", <<"name", "pkg">>)
           e == ListRows(svc, "CustomActions", <<"name", "script">>)
           up == Upserts(svc)
           rows == Rows(svc)
<1>1. n \in Nat
  BY DEF OptionOrder
<1>2. PICK A : a \in Seq(A) /\ \A r \in A : r.op = "row"
  BY ListRowsSeq DEF Sections
<1>3. PICK B : b \in Seq(B) /\ \A r \in B : r.op = "row"
  BY ListRowsSeq DEF Sections
<1>4. PICK D : d \in Seq(D) /\ \A r \in D : r.op = "row"
  BY ListRowsSeq DEF Sections
<1>5. PICK E : e \in Seq(E) /\ \A r \in E : r.op = "row"
  BY ListRowsSeq DEF Sections
<1>6. rows = ((a \o b) \o d) \o e
  BY DEF Rows
<1> HIDE DEF a, b, d, e, rows
<1> DEFINE T == A \cup B \cup D \cup E
<1>7. a \in Seq(T) /\ b \in Seq(T) /\ d \in Seq(T) /\ e \in Seq(T) /\ \A r \in T : r.op = "row"
  BY <1>2, <1>3, <1>4, <1>5, SeqMonotonic
<1> HIDE DEF T
<1>8. rows \in Seq(T)
  BY <1>6, <1>7, ConcatProperties
<1>9. Len(rows) \in Nat /\ \A k \in 1 .. Len(rows) : rows[k].op = "row"
  BY <1>7, <1>8, ElementOfSeq, LenProperties
<1>10. DOMAIN up = 1 .. n /\ up = [k \in 1 .. n |-> up[k]]
       /\ \A k \in 1 .. n : up[k] = [op |-> "upsert", key |-> OptionOrder[k],
                                     value |-> Bound(svc, OptionOrder[k])]
  BY DEF Upserts
<1>11. UpsertOptions(svc) = (up \o <<[op |-> "delete"]>>) \o rows
  BY DEF UpsertOptions, rows
<1> HIDE DEF up, n
<1> DEFINE U == {up[k] : k \in 1 .. n} \cup {[op |-> "delete"]} \cup T
<1>12. /\ up \in Seq(U) /\ <<[op |-> "delete"]>> \in Seq(U) /\ rows \in Seq(U) /\ Len(up) = n
       /\ Len(<<[op |-> "delete"]>>) = 1 /\ <<[op |-> "delete"]>>[1] = [op |-> "delete"]
  <2>1. up \in [1 .. n -> U]
    BY <1>10
  <2>2. up \in Seq(U)
    BY <1>1, <2>1
  <2>3. Len(up) = n
    BY <1>1, <1>10, LenOf
  <2>4. [op |-> "delete"] \in U
    OBVIOUS
  <2>5. rows \in Seq(U)
    BY <1>8, SeqMonotonic
  <2> HIDE DEF U
  <2> QED BY <2>2, <2>3, <2>4, <2>5
<1> HIDE DEF U
<1> DEFINE h == up \o <<[op |-> "delete"]>>
<1>13. h \in Seq(U) /\ Len(h) = n + 1 /\ h[n + 1] = [op |-> "delete"]
       /\ \A k \in 1 .. n : h[k] = up[k]
  BY <1>1, <1>12, ConcatProperties
<1> HIDE DEF h
<1>14. /\ Len(h \o rows) = n + 1 + Len(rows)
       /\ \A k \in 1 .. n + 1 : (h \o rows)[k] = h[k]
       /\ \A k \in 1 .. Len(rows) : (h \o rows)[n + 1 + k] = rows[k]
  <2> DEFINE m == Len(rows)
             g == h \o rows
  <2>1. n \in Nat /\ m \in Nat /\ Len(h) = n + 1
    BY <1>1, <1>9, <1>13
  <2>2. /\ Len(g) = Len(h) + m
        /\ \A i \in 1 .. Len(h) + m : g[i] = IF i <= Len(h) THEN h[i] ELSE rows[i - Len(h)]
    BY <1>12, <1>13, ConcatProperties
  <2> HIDE DEF m, g
  <2>3. ASSUME NEW k \in 1 .. m PROVE g[n + 1 + k] = rows[k]
    <3> DEFINE i == n + 1 + k
    <3>1. i \in 1 .. Len(h) + m /\ ~(i <= Len(h)) /\ i - Len(h) = k
      BY <2>1
    <3>2. g[i] = rows[i - Len(h)]
      <4> HIDE DEF i
      <4> QED BY <2>2, <3>1
    <3> QED BY <3>1, <3>2
  <2>4. Len(g) = n + 1 + m /\ \A k \in 1 .. n + 1 : g[k] = h[k]
    BY <2>1, <2>2
  <2> QED BY <2>3, <2>4 DEF m, g
<1>15. UpsertOptions(svc) = h \o rows
  BY <1>11 DEF h
<1>16. Deletion = n + 1 /\ n = Len(OptionOrder) /\ rows = Rows(svc)
  BY DEF Deletion, n, rows
<1> QED BY <1>1, <1>9, <1>10, <1>13, <1>14, <1>15, <1>16

(* Which of them are executed.                                             *)
LEMMA TodoPlaces ==
  ASSUME NEW svc, \A o \in Sections : Len(svc[o]) \in Nat
  PROVE  /\ Todo(svc) \subseteq 1 .. Deletion + Len(Rows(svc))
         /\ \A k \in 1 .. Len(OptionOrder) : IsSet(svc, OptionOrder[k]) => k \in Todo(svc)
         /\ Deletion \in Todo(svc)
         /\ \A k \in 1 .. Len(Rows(svc)) :
              Deletion + k \in Todo(svc) <=> Rows(svc)[k].value # << >>
         /\ \A k \in Todo(svc) : UpsertOptions(svc)[k].op \in {"upsert", "delete", "row"}
<1> DEFINE U == UpsertOptions(svc)
           n == Len(OptionOrder)
           m == Len(Rows(svc))
           del == Deletion
<1>1. /\ n \in Nat /\ m \in Nat /\ Len(U) = del + m /\ del = n + 1
      /\ \A k \in 1 .. n : U[k] = [op |-> "upsert", key |-> OptionOrder[k],
                                   value |-> Bound(svc, OptionOrder[k])]
      /\ U[del] = [op |-> "delete"]
      /\ \A k \in 1 .. m : U[del + k] = Rows(svc)[k] /\ Rows(svc)[k].op = "row"
  BY Places DEF Deletion
<1> HIDE DEF U, n, m, del
<1>2. Todo(svc) = {k \in 1 .. del + m : /\ U[k].op = "upsert" => IsSet(svc, U[k].key)
                                        /\ U[k].op = "row" => U[k].value # << >>}
  BY <1>1 DEF Todo, U
<1>3. ASSUME NEW k \in 1 .. n, IsSet(svc, OptionOrder[k]) PROVE k \in Todo(svc)
  <2>1. k \in 1 .. del + m
    BY <1>1
  <2>2. U[k] = [op |-> "upsert", key |-> OptionOrder[k], value |-> Bound(svc, OptionOrder[k])]
    BY <1>1
  <2>3. U[k].op = "upsert" /\ U[k].key = OptionOrder[k]
    BY <2>2
  <2> QED BY <1>2, <1>3, <2>1, <2>3
<1>4. del \in Todo(svc)
  <2>1. del \in 1 .. del + m /\ U[del].op = "delete"
    BY <1>1
  <2> QED BY <1>2, <2>1
<1>5. ASSUME NEW k \in 1 .. m PROVE del + k \in Todo(svc) <=> Rows(svc)[k].value # << >>
  <2> DEFINE i == del + k
  <2>1. i \in 1 .. del + m /\ U[i] = Rows(svc)[k] /\ U[i].op = "row"
    BY <1>1
  <2> HIDE DEF i
  <2>2. i \in Todo(svc) <=> Rows(svc)[k].value # << >>
    BY <1>2, <2>1
  <2> QED BY <2>2 DEF i
<1>6. ASSUME NEW k \in Todo(svc) PROVE U[k].op \in {"upsert", "delete", "row"}
  <2>1. k \in 1 .. n \/ k = del \/ (k - del \in 1 .. m /\ k = del + (k - del))
    BY <1>1, <1>2
  <2>2. ASSUME k \in 1 .. n PROVE U[k].op = "upsert"
    <3>1. U[k] = [op |-> "upsert", key |-> OptionOrder[k], value |-> Bound(svc, OptionOrder[k])]
      BY <1>1, <2>2
    <3> QED BY <3>1
  <2>3. ASSUME k = del PROVE U[k].op = "delete"
    BY <1>1, <2>3
  <2>4. ASSUME NEW j \in 1 .. m, k = del + j PROVE U[k].op = "row"
    BY <1>1, <2>4
  <2> QED BY <2>1, <2>2, <2>3, <2>4
<1> QED BY <1>2, <1>3, <1>4, <1>5, <1>6 DEF n, m, del, U

(* A service whose statements are all behind is stored.                    *)
LEMMA StoredWhenDone ==
  ASSUME InTurn, Partly, mem.todo = {}, \A o \in Sections : Len(Latest[o]) \in Nat
  PROVE  Stored(Latest)
<1> DEFINE svc == Latest
           m == Len(Rows(svc))
<1>1. Behind = Todo(svc)
  BY DEF Behind
<1>2. Deletion \in Behind /\ m \in Nat
  BY <1>1, TodoPlaces, Places
<1>3. Written = Texts(svc, m)
  BY <1>1, <1>2, TodoPlaces DEF Written, Texts
<1>4. /\ Len(Listed(svc.UUID)) = Cardinality(Texts(svc, m))
      /\ \A k \in Texts(svc, m) : Listed(svc.UUID)[Cardinality(Texts(svc, k))] = Rows(svc)[k]
  BY <1>2, <1>3 DEF Partly
<1>5. ASSUME NEW k \in 1 .. Len(OptionOrder), IsSet(svc, OptionOrder[k])
      PROVE  /\ <<svc.UUID, OptionOrder[k]>> \in DOMAIN options
             /\ options[<<svc.UUID, OptionOrder[k]>>] = Bound(svc, OptionOrder[k])
  <2>1. k \in Behind
    BY <1>1, <1>5, TodoPlaces
  <2> QED BY <2>1 DEF Partly
<1> QED BY <1>4, <1>5 DEF Stored, Texts

(* A service stays stored while nothing is written under its UUID.         *)
LEMMA StoredKept ==
  ASSUME NEW svc, Stored(svc), Listed(svc.UUID)' = Listed(svc.UUID),
         \A o : <<svc.UUID, o>> \in DOMAIN options =>
                  /\ <<svc.UUID, o>> \in DOMAIN options'
                  /\ options'[<<svc.UUID, o>>] = options[<<svc.UUID, o>>]
  PROVE  Stored(svc)'
<1>1. Rows(svc)' = Rows(svc)
  BY DEF Rows
<1> QED BY <1>1 DEF Stored

(* What the statements of one service do to the rest.                      *)
LEMMA EffectElsewhere ==
  ASSUME NEW uuid, NEW s, Effect(uuid, s), s.op \in {"upsert", "delete", "row"}
  PROVE  \A v : v # uuid =>
           /\ Listed(v)' = Listed(v)
           /\ \A o : <<v, o>> \in DOMAIN options =>
                       /\ <<v, o>> \in DOMAIN options'
                       /\ options'[<<v, o>>] = options[<<v, o>>]
<1>1. CASE s.op = "upsert"
  BY <1>1 DEF Effect, Listed
<1>2. CASE s.op = "delete"
  BY <1>2 DEF Effect, Listed
<1>3. CASE s.op = "row"
  BY <1>3 DEF Effect, Listed
<1> QED BY <1>1, <1>2, <1>3

(* Lists stay lists.                                                       *)
LEMMA EffectLists ==
  ASSUME ListType, NEW uuid, NEW s, Effect(uuid, s), s.op \in {"upsert", "delete", "row"}
  PROVE  ListType'
<1> SUFFICES ASSUME NEW v PROVE \E S : Listed(v)' \in Seq(S)
  BY DEF ListType
<1>1. CASE v # uuid
  BY <1>1, EffectElsewhere DEF ListType
<1>2. CASE v = uuid /\ s.op = "upsert"
  BY <1>2 DEF Effect, Listed, ListType
<1>3. CASE v = uuid /\ s.op = "delete"
  <2>1. Listed(v)' = << >>
    BY <1>3 DEF Effect, Listed
  <2> QED BY <2>1, EmptySeq
<1>4. CASE v = uuid /\ s.op = "row"
  <2>1. Listed(v)' = Append(Listed(v), s)
    BY <1>4 DEF Effect, Listed
  <2>2. PICK S : Listed(v) \in Seq(S)
    BY DEF ListType
  <2>3. Listed(v) \in Seq(S \cup {s})
    BY <2>2, SeqMonotonic
  <2>4. Listed(v)' \in Seq(S \cup {s})
    BY <2>1, <2>3
  <2> QED BY <2>4
<1> QED BY <1>1, <1>2, <1>3, <1>4

(* Nothing is written, and the process goes on as it was or ends.          *)
LEMMA StoredSame ==
  ASSUME StoredInv, UNCHANGED <<options, lists>>,
         \/ /\ mem'.svcs = mem.svcs /\ mem'.runtime = mem.runtime /\ mem'.next = mem.next
            /\ mem'.todo = mem.todo /\ (mem.failed => mem'.failed)
         \/ mem'.next = 1 /\ mem'.todo = {} /\ Len(mem'.svcs) \in Nat
  PROVE  StoredInv'
<1>1. ListType'
  BY DEF StoredInv, ListType, Listed
<1>2. \A u : Listed(u)' = Listed(u)
  BY DEF Listed
<1>3. CASE mem'.next = 1 /\ mem'.todo = {} /\ Len(mem'.svcs) \in Nat
  BY <1>1, <1>3 DEF StoredInv, Position, UnderWay, Over
<1>4. CASE /\ mem'.svcs = mem.svcs /\ mem'.runtime = mem.runtime /\ mem'.next = mem.next
           /\ mem'.todo = mem.todo /\ (mem.failed => mem'.failed)
  <2>1. Latest' = Latest /\ Behind' = Behind /\ Written' = Written
    BY <1>4 DEF Latest, Behind, Written
  <2>2. (InTurn /\ Partly) => (InTurn /\ Partly)'
    BY <1>2, <1>4, <2>1 DEF InTurn, Partly
  <2>3. \A i \in 1 .. Len(mem.svcs) : Given(i)' = Given(i)
    BY <1>4 DEF Given
  <2>7. Position'
    BY <1>4, <2>1 DEF StoredInv, Position
  <2>4. UnderWay'
    BY <1>4, <2>2 DEF StoredInv, UnderWay, Given
  <2>5. \A svc : Stored(svc) => Stored(svc)'
    BY <1>2, StoredKept
  <2>6. Over'
    BY <1>4, <2>3, <2>5 DEF StoredInv, Over
  <2> QED BY <1>1, <2>4, <2>6, <2>7 DEF StoredInv
<1> QED BY <1>3, <1>4

(* The service looked up last has lists.                                   *)
LEMMA LatestLists ==
  ASSUME DBInv, mem.next > 1, mem.next <= Len(mem.svcs) + 1
  PROVE  /\ mem.next - 1 \in 1 .. Len(mem.svcs) /\ Latest = mem.svcs[mem.next - 1]
         /\ \A o \in Sections : Len(Latest[o]) \in Nat
<1>1. mem.next - 1 \in 1 .. Len(mem.svcs)
  BY DEF DBInv, MemType, Described
<1> QED BY <1>1 DEF DBInv, MemType, Described, Latest

(* The next statement of a service, if it does not fail.                   *)
LEMMA StatementUnderWay ==
  ASSUME ListType, InTurn, Partly, \A o \in Sections : Len(Latest[o]) \in Nat,
         NEW k \in mem.todo, \A j \in mem.todo : k <= j,
         Effect(Latest.UUID, UpsertOptions(Latest)[k]),
         mem'.todo = mem.todo \ {k}, mem'.svcs = mem.svcs, mem'.next = mem.next
  PROVE  InTurn' /\ Partly'
<1>0. PICK svc : svc = Latest
  OBVIOUS
<1>u. PICK u : u = svc.UUID
  OBVIOUS
<1> DEFINE s == UpsertOptions(svc)[k]
           n == Len(OptionOrder)
           m == Len(Rows(svc))
           del == Deletion
<1>1. /\ n \in Nat /\ m \in Nat /\ del = n + 1
      /\ \A j \in 1 .. n : UpsertOptions(svc)[j] =
           [op |-> "upsert", key |-> OptionOrder[j], value |-> Bound(svc, OptionOrder[j])]
      /\ UpsertOptions(svc)[del] = [op |-> "delete"]
      /\ \A j \in 1 .. m : UpsertOptions(svc)[del + j] = Rows(svc)[j] /\ Rows(svc)[j].op = "row"
  BY <1>0, Places DEF Deletion
<1>2. /\ Todo(svc) \subseteq 1 .. del + m /\ del \in Todo(svc)
      /\ \A j \in 1 .. m : del + j \in Todo(svc) <=> Rows(svc)[j].value # << >>
  BY <1>0, TodoPlaces
<1>3. /\ Latest' = svc /\ Behind' = Behind \cup {k} /\ k \in Todo(svc) /\ k \notin Behind
      /\ \A j \in Behind : j < k
      /\ \A j \in Todo(svc) : j < k => j \in Behind
  <2>1. Latest' = svc
    BY <1>0 DEF Latest
  <2>2. Behind = Todo(svc) \ mem.todo /\ mem.todo \subseteq Todo(svc)
    BY <1>0 DEF Behind, InTurn
  <2>3. Behind' = Todo(svc) \ (mem.todo \ {k})
    BY <2>1 DEF Behind
  <2>4. \A j \in Behind : j < k
    BY DEF InTurn
  <2>5. ASSUME NEW j \in Todo(svc), j < k PROVE j \in Behind
    <3>1. ~(k <= j)
      <4>1. j \in Int /\ k \in Int
        BY <1>1, <1>2, <2>2
      <4> QED BY <2>5, <4>1
    <3> QED BY <2>2, <3>1
  <2>6. k \in Todo(svc) /\ k \notin Behind
    BY <2>2
  <2>7. Behind' = Behind \cup {k}
    BY <2>2, <2>3
  <2> QED BY <2>1, <2>4, <2>5, <2>6, <2>7
<1>4. InTurn'
  <2>1. mem.todo \subseteq Todo(svc) /\ \A j \in Behind, i \in mem.todo : j < i
    BY <1>0 DEF InTurn
  <2>2. ASSUME NEW i \in mem.todo \ {k} PROVE k < i
    <3>1. k \in Int /\ i \in Int
      BY <1>1, <1>2, <2>1
    <3> QED BY <2>2, <3>1
  <2> QED BY <1>3, <2>1, <2>2 DEF InTurn
<1>5. /\ Rows(Latest)' = Rows(svc) /\ \A j : Texts(Latest, j)' = Texts(svc, j)
      /\ Written = {j \in 1 .. m : del + j \in Behind}
      /\ Written' = {j \in 1 .. m : del + j \in Behind'}
  BY <1>0, <1>3 DEF Rows, Texts, Written
<1>6. Behind \subseteq Todo(svc)
  BY <1>0 DEF Behind
<1>e. Effect(u, s)
  BY <1>0, <1>u
<1>f. Latest' = svc /\ Latest'.UUID = u /\ Latest.UUID = u
  BY <1>0, <1>3, <1>u
<1>7. CASE k \in 1 .. n
  <2>1. s.op = "upsert" /\ s.key = OptionOrder[k] /\ s.value = Bound(svc, OptionOrder[k])
    <3>1. s = [op |-> "upsert", key |-> OptionOrder[k], value |-> Bound(svc, OptionOrder[k])]
      BY <1>1, <1>7
    <3> QED BY <3>1
  <2>2. /\ options' = [p \in DOMAIN options \cup {<<u, s.key>>} |->
                         IF p = <<u, s.key>> THEN s.value ELSE options[p]]
        /\ UNCHANGED lists
    BY <1>e, <2>1 DEF Effect
  <2>4. Deletion \notin Behind'
    BY <1>1, <1>3, <1>7
  <2> HIDE DEF s
  <2>5. ASSUME NEW j \in 1 .. n, j \in Behind'
        PROVE  /\ <<u, OptionOrder[j]>> \in DOMAIN options'
               /\ options'[<<u, OptionOrder[j]>>] = Bound(svc, OptionOrder[j])
    <3>1. CASE OptionOrder[j] = OptionOrder[k]
      BY <2>1, <2>2, <3>1
    <3>2. CASE OptionOrder[j] # OptionOrder[k]
      <4>1. j \in Behind /\ <<u, OptionOrder[j]>> # <<u, s.key>>
        BY <1>3, <2>1, <2>5, <3>2
      <4>2. /\ <<u, OptionOrder[j]>> \in DOMAIN options
            /\ options[<<u, OptionOrder[j]>>] = Bound(svc, OptionOrder[j])
        BY <1>f, <1>0, <4>1 DEF Partly
      <4> QED BY <2>2, <4>1, <4>2
    <3> QED BY <3>1, <3>2
  <2>6. Partly'
    BY <1>f, <2>4, <2>5 DEF Partly
  <2> QED BY <1>4, <2>6
<1>8. CASE k = del
  <2>1. s.op = "delete"
    BY <1>1, <1>8
  <2>2. lists' = [v \in DOMAIN lists \ {u} |-> lists[v]] /\ UNCHANGED options
    BY <1>e, <2>1 DEF Effect
  <2>3. Listed(u)' = << >> /\ \A v : v # u => Listed(v)' = Listed(v)
    BY <2>2 DEF Listed
  <2>5. Written' = {}
    <3> SUFFICES ASSUME NEW j \in 1 .. m, del + j \in Behind' PROVE FALSE
      BY <1>5
    <3> QED BY <1>1, <1>3, <1>8
  <2>6. Len(Listed(u)') = Cardinality(Written')
    BY <2>3, <2>5, FS_EmptySet
  <2>7. \A j \in 1 .. n : j \in Behind' => j \in Behind
    BY <1>1, <1>3, <1>8
  <2>8. Partly'
    <3>1. \A j \in 1 .. n : j \in Behind' =>
            /\ <<u, OptionOrder[j]>> \in DOMAIN options'
            /\ options'[<<u, OptionOrder[j]>>] = Bound(svc, OptionOrder[j])
      BY <1>0, <1>f, <2>2, <2>7 DEF Partly
    <3> QED BY <1>f, <2>5, <2>6, <3>1 DEF Partly
  <2> QED BY <1>4, <2>8
<1>9. ASSUME NEW r \in 1 .. m, k = del + r PROVE Partly'
  <2>1. s = Rows(svc)[r] /\ s.op = "row" /\ s.value # << >>
    BY <1>1, <1>2, <1>3, <1>9
  <2>2. /\ lists' = [v \in DOMAIN lists \cup {u} |->
                       IF v = u THEN Append(Listed(u), s) ELSE lists[v]]
        /\ UNCHANGED options
    BY <1>e, <2>1 DEF Effect
  <2>3. Listed(u)' = Append(Listed(u), s) /\ \A v : v # u => Listed(v)' = Listed(v)
    BY <2>2 DEF Listed
  <2>4. PICK S : Listed(u) \in Seq(S)
    BY DEF ListType
  <2>5. /\ Len(Listed(u)) \in Nat
        /\ Listed(u)' \in Seq(S \cup {s}) /\ Len(Listed(u)') = Len(Listed(u)) + 1
        /\ Listed(u)'[Len(Listed(u)) + 1] = s
        /\ \A i \in 1 .. Len(Listed(u)) : Listed(u)'[i] = Listed(u)[i]
    <3>1. Listed(u) \in Seq(S \cup {s}) /\ Len(Listed(u)) \in Nat
      BY <2>4, SeqMonotonic, LenProperties
    <3> HIDE DEF s
    <3>2. /\ Append(Listed(u), s) \in Seq(S \cup {s})
          /\ Len(Append(Listed(u), s)) = Len(Listed(u)) + 1
          /\ Append(Listed(u), s)[Len(Listed(u)) + 1] = s
          /\ \A i \in 1 .. Len(Listed(u)) : Append(Listed(u), s)[i] = Listed(u)[i]
      BY <3>1
    <3> QED BY <2>3, <3>1, <3>2
  <2>7. Deletion \in Behind
    BY <1>1, <1>2, <1>3, <1>9
  <2>8. /\ Len(Listed(u)) = Cardinality(Written)
        /\ \A j \in Written : Listed(u)[Cardinality(Texts(svc, j))] = Rows(svc)[j]
    BY <1>0, <1>f, <2>7 DEF Partly
  <2>9. /\ Written' = Written \cup {r} /\ r \notin Written
        /\ \A j \in Written : j < r
        /\ Texts(svc, r) = Written \cup {r}
        /\ Written \subseteq 1 .. m
    <3>1. Written \subseteq 1 .. m /\ \A j \in 1 .. m : j \in Written <=> del + j \in Behind
      BY <1>5
    <3>2. \A j \in 1 .. m : j \in Written' <=> (j \in Written \/ j = r)
      <4> SUFFICES ASSUME NEW j \in 1 .. m
                   PROVE  del + j \in Behind \cup {k} <=> (del + j \in Behind \/ j = r)
        BY <1>3, <1>5
      <4> HIDE DEF del, m
      <4> QED BY <1>1, <1>9
    <3>3. Written' \subseteq 1 .. m
      BY <1>5
    <3>4. r \notin Written /\ \A j \in Written : j < r
      BY <1>1, <1>3, <1>9, <3>1
    <3>5. ASSUME NEW j \in 1 .. r PROVE Rows(svc)[j].value # << >> <=> j \in Written \/ j = r
      <4>1. j \in 1 .. m /\ (j # r => del + j < k)
        BY <1>1, <1>9
      <4>2. del + j \in Behind => del + j \in Todo(svc)
        BY <1>6
      <4> QED BY <1>2, <1>3, <2>1, <3>1, <4>1, <4>2
    <3>6. \A j \in Written \cup {r} : j \in 1 .. r
      BY <3>1, <3>4
    <3>7. Texts(svc, r) = Written \cup {r}
      BY <3>5, <3>6 DEF Texts
    <3> QED BY <3>1, <3>2, <3>3, <3>4, <3>7
  <2>10. IsFiniteSet(Written) /\ Cardinality(Written) \in Nat
         /\ Cardinality(Texts(svc, r)) = Cardinality(Written) + 1
    <3>1. IsFiniteSet(Written)
      <4>1. IsFiniteSet(1 .. m)
        BY <1>1, FS_Interval
      <4> QED BY <2>9, <4>1, FS_Subset
    <3> QED BY <2>9, <3>1, FS_AddElement, FS_CardinalityType
  <2>11. ASSUME NEW j \in Written
         PROVE  Cardinality(Texts(svc, j)) \in 1 .. Cardinality(Written)
    <3>1. Texts(svc, j) \subseteq Written /\ j \in Texts(svc, j)
      <4>1. j \in 1 .. r /\ j \in Texts(svc, r)
        BY <2>9
      <4>2. Texts(svc, j) \subseteq Texts(svc, r) /\ r \notin Texts(svc, j)
        BY <1>1, <2>9, <4>1 DEF Texts
      <4> QED BY <2>9, <4>1, <4>2 DEF Texts
    <3>2. IsFiniteSet(Texts(svc, j)) /\ Cardinality(Texts(svc, j)) <= Cardinality(Written)
      BY <2>10, <3>1, FS_Subset
    <3>3. Cardinality(Texts(svc, j)) \in Nat /\ Cardinality(Texts(svc, j)) # 0
      BY <3>1, <3>2, FS_CardinalityType, FS_EmptySet
    <3> QED BY <2>10, <3>2, <3>3
  <2>12. Len(Listed(u)') = Cardinality(Written')
    BY <2>5, <2>8, <2>9, <2>10
  <2>13. ASSUME NEW j \in Written'
         PROVE  Listed(u)'[Cardinality(Texts(svc, j))] = Rows(svc)[j]
    <3>1. CASE j = r
      BY <2>1, <2>5, <2>8, <2>10, <3>1
    <3>2. CASE j \in Written
      BY <2>5, <2>8, <2>11, <3>2
    <3> QED BY <2>9, <2>13, <3>1, <3>2
  <2>14. \A j \in 1 .. n : j \in Behind' => j \in Behind
    BY <1>1, <1>3, <1>9
  <2>15. Partly'
    <3>1. \A j \in 1 .. n : j \in Behind' =>
            /\ <<u, OptionOrder[j]>> \in DOMAIN options'
            /\ options'[<<u, OptionOrder[j]>>] = Bound(svc, OptionOrder[j])
      BY <1>0, <1>f, <2>2, <2>14 DEF Partly
    <3> QED BY <1>5, <1>f, <2>12, <2>13, <3>1 DEF Partly
  <2> QED BY <2>15
<1>10. k \in 1 .. n \/ k = del \/ \E r \in 1 .. m : k = del + r
  <2>1. k \in 1 .. del + m
    BY <1>2, <1>3
  <2>2. n \in Nat /\ m \in Nat /\ del = n + 1
    BY <1>1
  <2> HIDE DEF n, m, del
  <2>3. ASSUME k > del PROVE k - del \in 1 .. m /\ k = del + (k - del)
    BY <2>1, <2>2, <2>3
  <2> QED BY <2>1, <2>2, <2>3
<1> QED BY <1>4, <1>7, <1>8, <1>9, <1>10

(* Initially nothing is stored.                                            *)
LEMMA InitStored == Init => StoredInv
<1> SUFFICES ASSUME Init PROVE StoredInv
  OBVIOUS
<1>1. mem = NoMemory /\ lists = << >>
  BY DEF Init
<1>2. mem.next = 1 /\ mem.todo = {} /\ Len(mem.svcs) = 0
  BY <1>1 DEF NoMemory
<1>3. ListType
  <2>1. \A u : Listed(u) = << >>
    BY <1>1 DEF Listed
  <2> QED BY <2>1, EmptySeq DEF ListType
<1> QED BY <1>2, <1>3 DEF StoredInv, Position, UnderWay, Over

(* A statement of the service looked up last.                              *)
LEMMA StatementStored ==
  ASSUME DBInv, StoredInv, NEW c, Statement(c)
  PROVE  StoredInv'
<1>1. PICK k \in mem.todo :
        /\ \A j \in mem.todo : k <= j
        /\ \/ /\ Effect(Latest.UUID, UpsertOptions(Latest)[k])
              /\ mem' = [mem EXCEPT !.todo = @ \ {k}]
           \/ /\ Fails
              /\ mem' = [mem EXCEPT !.todo = @ \ {k}, !.failed = TRUE]
  BY DEF Statement
<1>2. mem.next > 1 /\ mem.next <= Len(mem.svcs) + 1 /\ mem.todo \subseteq Todo(Latest)
  BY <1>1 DEF StoredInv, Position
<1>3. /\ mem'.svcs = mem.svcs /\ mem'.runtime = mem.runtime /\ mem'.next = mem.next
      /\ mem'.todo = mem.todo \ {k}
  BY <1>1 DEF DBInv, MemType
<1>4. Position'
  <2>1. Latest' = Latest
    BY <1>3 DEF Latest
  <2> QED BY <1>2, <1>3, <2>1 DEF Position
<1>5. /\ mem.next - 1 \in 1 .. Len(mem.svcs) /\ Latest = mem.svcs[mem.next - 1]
      /\ \A o \in Sections : Len(Latest[o]) \in Nat
  BY <1>2, LatestLists
<1>6. CASE Fails /\ mem'.failed
  <2>1. ListType'
    BY <1>6 DEF StoredInv, ListType, Listed, Fails, tables
  <2> QED BY <1>4, <1>6, <2>1 DEF StoredInv, UnderWay, Over
<1>7. CASE Effect(Latest.UUID, UpsertOptions(Latest)[k]) /\ mem' = [mem EXCEPT !.todo = @ \ {k}]
  <2>1. UpsertOptions(Latest)[k].op \in {"upsert", "delete", "row"}
    BY <1>2, <1>5, TodoPlaces
  <2>2. ListType'
    BY <1>7, <2>1, EffectLists DEF StoredInv
  <2>3. mem'.failed = mem.failed
    BY <1>7 DEF DBInv, MemType
  <2>4. UnderWay'
    <3> SUFFICES ASSUME ~mem.failed, ~Given(mem.next - 1) PROVE InTurn' /\ Partly'
      BY <1>3, <2>3 DEF UnderWay, Given
    <3>1. ListType /\ InTurn /\ Partly
      BY <1>2 DEF StoredInv, UnderWay
    <3> QED BY <1>1, <1>3, <1>5, <1>7, <3>1, StatementUnderWay
  <2>5. Over'
    <3> SUFFICES ASSUME ~mem.failed, NEW i \in 1 .. Len(mem.svcs), i < mem.next - 1, ~Given(i),
                        \A j \in 1 .. Len(mem.svcs) :
                          i < j /\ j < mem.next => mem.svcs[j].UUID # mem.svcs[i].UUID,
                        NEW svc, svc = mem.svcs[i]
                 PROVE  Stored(svc)'
      BY <1>3, <2>3 DEF Over, Given
    <3>1. Stored(svc)
      BY DEF StoredInv, Over
    <3>2. svc.UUID # Latest.UUID
      <4> DEFINE j == mem.next - 1
      <4>1. j \in 1 .. Len(mem.svcs) /\ i < j /\ j < mem.next
        BY <1>5 DEF DBInv, MemType
      <4> HIDE DEF j
      <4>2. mem.svcs[j].UUID # mem.svcs[i].UUID
        BY <4>1
      <4> QED BY <4>2 DEF Latest, j
    <3> QED BY <1>7, <2>1, <3>1, <3>2, EffectElsewhere, StoredKept
  <2> QED BY <1>4, <2>2, <2>4, <2>5 DEF StoredInv
<1> QED BY <1>1, <1>6, <1>7 DEF DBInv, MemType

(* The next service is looked up when the one before it is stored.         *)
LEMMA InsertCfgStored ==
  ASSUME DBInv, StoredInv, NEW c, InsertCfg(c)
  PROVE  StoredInv'
<1> DEFINE n == mem.next
           svc == mem.svcs[n]
<1>1. /\ mem.loaded # 0 /\ mem.entry = "none" /\ mem.todo = {} /\ n \in 1 .. Len(mem.svcs)
      /\ UNCHANGED <<options, lists>> /\ n \in Nat /\ Len(mem.svcs) \in Nat
  BY DEF InsertCfg, Idle, tables, DBInv, MemType, Described
<1>2. \/ mem' = NoMemory
      \/ \E buffer, uuid : \E entry \in {"none", "row"} : \E full \in BOOLEAN :
           /\ Proceed(buffer, uuid, entry, full)
           /\ svc.UUID = NilUUID => full
  BY DEF InsertCfg
<1>3. CASE mem' = NoMemory
  <2>1. mem'.next = 1 /\ mem'.todo = {} /\ Len(mem'.svcs) = 0
    BY <1>3 DEF NoMemory
  <2> QED BY <1>1, <2>1, StoredSame
<1>4. ASSUME NEW buffer, NEW uuid, NEW entry \in {"none", "row"}, NEW full \in BOOLEAN,
             Proceed(buffer, uuid, entry, full), svc.UUID = NilUUID => full
      PROVE  StoredInv'
  <2>1. /\ mem'.next = n + 1 /\ mem'.failed = mem.failed
        /\ mem'.runtime = mem.runtime /\ Len(mem'.svcs) = Len(mem.svcs)
        /\ \A i \in 1 .. Len(mem.svcs) : i # n => mem'.svcs[i] = mem.svcs[i]
        /\ mem'.todo = IF full THEN Todo(mem'.svcs[n]) ELSE {}
    <3>1. mem.loaded # 0 /\ mem.next \in 1 .. Len(mem.svcs)
      BY <1>1
    <3> HIDE DEF n, svc
    <3>2. Proceed(buffer, uuid, entry, full)
      BY <1>4
    <3>3. /\ mem'.next = mem.next + 1 /\ mem'.failed = mem.failed
          /\ mem'.runtime = mem.runtime /\ Len(mem'.svcs) = Len(mem.svcs)
          /\ \A i \in 1 .. Len(mem.svcs) : i # mem.next => mem'.svcs[i] = mem.svcs[i]
      BY <3>1, <3>2, ProceedInv
    <3>4. mem'.todo = (IF full THEN Todo(mem'.svcs[mem.next]) ELSE {})
      BY <3>2 DEF Proceed, DBInv, MemType
    <3> QED BY <3>3, <3>4 DEF n
  <2>2. Latest' = mem'.svcs[n]
    BY <1>1, <2>1 DEF Latest
  <2>3. Position'
    BY <1>1, <2>1, <2>2 DEF Position
  <2>4. \A u : Listed(u)' = Listed(u)
    BY <1>1 DEF Listed
  <2>5. ListType'
    BY <2>4 DEF StoredInv, ListType
  <2>6. UnderWay'
    <3> SUFFICES ASSUME ~Given(n) PROVE InTurn' /\ Partly'
      BY <1>1, <2>1 DEF UnderWay, Given
    <3>1. svc.UUID = NilUUID
      BY <1>1 DEF DBInv, Unnamed
    <3>2. mem'.todo = Todo(Latest')
      BY <1>4, <2>1, <2>2, <3>1
    <3>3. Behind' = {}
      BY <3>2 DEF Behind
    <3> QED BY <3>2, <3>3 DEF InTurn, Partly
  <2>7. Over'
    <3> SUFFICES ASSUME ~mem.failed, NEW i \in 1 .. Len(mem.svcs), i < n, ~Given(i),
                        \A j \in 1 .. Len(mem.svcs) :
                          i < j /\ j < n + 1 => mem'.svcs[j].UUID # mem'.svcs[i].UUID,
                        NEW s, s = mem'.svcs[i]
                 PROVE  Stored(s)'
      BY <1>1, <2>1 DEF Over, Given
    <3>1. s = mem.svcs[i]
      BY <2>1
    <3>2. Stored(s)
      <4>1. CASE i = n - 1
        <5>1. n > 1 /\ Latest = s /\ \A o \in Sections : Len(Latest[o]) \in Nat
          BY <1>1, <3>1, <4>1, LatestLists
        <5>2. InTurn /\ Partly
          BY <4>1, <5>1 DEF StoredInv, UnderWay
        <5> QED BY <1>1, <5>1, <5>2, StoredWhenDone
      <4>2. CASE i < n - 1
        <5>1. \A j \in 1 .. Len(mem.svcs) : i < j /\ j < n => mem.svcs[j].UUID # mem.svcs[i].UUID
          <6> SUFFICES ASSUME NEW j \in 1 .. Len(mem.svcs), i < j, j < n
                       PROVE  mem.svcs[j].UUID # mem.svcs[i].UUID
            OBVIOUS
          <6>1. j < n + 1 /\ j # n /\ i # n
            BY <1>1
          <6> QED BY <2>1, <6>1
        <5> QED BY <3>1, <4>2, <5>1 DEF StoredInv, Over
      <4> QED BY <1>1, <4>1, <4>2
    <3> QED BY <1>1, <2>4, <3>2, StoredKept
  <2> QED BY <2>3, <2>5, <2>6, <2>7 DEF StoredInv
<1> HIDE DEF n, svc
<1> QED BY <1>2, <1>3, <1>4

(* Every step of a start keeps what is stored.                             *)
LEMMA StoredStep == DBInv /\ StoredInv /\ [Next]_vars => StoredInv'
<1> SUFFICES ASSUME DBInv, StoredInv, [Next]_vars PROVE StoredInv'
  OBVIOUS
<1>1. ASSUME UNCHANGED <<options, lists>>, mem' = NoMemory PROVE StoredInv'
  <2>1. mem'.next = 1 /\ mem'.todo = {} /\ Len(mem'.svcs) = 0
    BY <1>1 DEF NoMemory
  <2> QED BY <1>1, <2>1, StoredSame
<1>2. ASSUME UNCHANGED <<options, lists, mem>> PROVE StoredInv'
  BY <1>2, StoredSame
<1>3. CASE UNCHANGED dbVars
  BY <1>2, <1>3 DEF dbVars, tables
<1>4. ASSUME NEW c \in Controllers, Killed(c) PROVE StoredInv'
  BY <1>1, <1>2, <1>4 DEF Killed, tables
<1>5. ASSUME NEW c \in Controllers, Exit(c) PROVE StoredInv'
  BY <1>1, <1>5 DEF Exit, tables
<1>6. ASSUME NEW c \in Controllers, Lock(c) PROVE StoredInv'
  BY <1>3, <1>6 DEF Lock
<1>7. ASSUME NEW c \in Controllers, Load(c) PROVE StoredInv'
  <2>1. UNCHANGED <<options, lists>> /\ mem.loaded = 0
    BY <1>7 DEF Load, tables
  <2>2. mem = NoMemory
    BY <2>1 DEF DBInv, MemType
  <2>3. PICK read \in Readings :
          \/ mem' = NoMemory
          \/ mem' = [mem EXCEPT !.loaded = read.config, !.svcs = read.svcs, !.runtime = read.runtime]
    BY <1>7 DEF Load
  <2>4. CASE mem' = NoMemory
    BY <1>1, <2>1, <2>4
  <2>5. CASE mem' = [mem EXCEPT !.loaded = read.config, !.svcs = read.svcs, !.runtime = read.runtime]
    <3>1. mem'.next = 1 /\ mem'.todo = {} /\ mem'.svcs = read.svcs
      BY <2>2, <2>5 DEF NoMemory
    <3>2. Len(mem'.svcs) \in Nat
      BY <3>1, ReadingsAssumption
    <3> QED BY <2>1, <3>1, <3>2, StoredSame
  <2> QED BY <2>3, <2>4, <2>5
<1>8. ASSUME NEW c \in Controllers, InsertCfg(c) PROVE StoredInv'
  BY <1>8, InsertCfgStored
<1>9. ASSUME NEW c \in Controllers, InsertRow(c) \/ SetPackage(c) PROVE StoredInv'
  <2>1. /\ UNCHANGED <<options, lists>>
        /\ mem'.svcs = mem.svcs /\ mem'.runtime = mem.runtime /\ mem'.next = mem.next
        /\ mem'.todo = mem.todo /\ (mem.failed => mem'.failed)
    <3>1. UNCHANGED <<options, lists>>
      BY <1>9 DEF InsertRow, SetPackage, Fails, tables
    <3>2. \E entry \in {"none", "package"} : \/ mem' = [mem EXCEPT !.entry = entry]
                                             \/ mem' = [mem EXCEPT !.entry = entry, !.failed = TRUE]
      BY <1>9 DEF InsertRow, SetPackage
    <3> QED BY <3>1, <3>2 DEF DBInv, MemType
  <2> QED BY <2>1, StoredSame
<1>10. ASSUME NEW c \in Controllers, Statement(c) PROVE StoredInv'
  BY <1>10, StatementStored
<1>11. ASSUME NEW c \in Controllers, Ready(c) PROVE StoredInv'
  BY <1>2, <1>11 DEF Ready, tables
<1> QED BY <1>3, <1>4, <1>5, <1>6, <1>7, <1>8, <1>9, <1>10, <1>11 DEF Next, vars

(* After a start without a failed statement, whatever earlier starts left, *)
(* and whatever the files hold, each service that is not given a UUID has  *)
(* one row, all its options and exactly its lists.                         *)
THEOREM RecordedAlways == Spec => []Recorded
<1>1. DBInv /\ StoredInv /\ Through /\ Entered => Recorded
  <2> SUFFICES ASSUME DBInv, StoredInv, Through, Entered,
                      NEW c \in Controllers, pc[c] = "run", ~mem.failed, ~orphaned,
                      NEW i \in 1 .. Len(mem.svcs), ~Given(i), mistaken = {},
                      \A j \in 1 .. Len(mem.svcs) : j > i => mem.svcs[j].UUID # mem.svcs[i].UUID
               PROVE  Matching(mem.svcs[i]) = {mem.svcs[i].UUID} /\ Stored(mem.svcs[i])
    BY DEF Recorded
  <2>1. Matching(mem.svcs[i]) = {mem.svcs[i].UUID}
    BY DEF Entered
  <2>2. /\ mem.todo = {} /\ mem.next > Len(mem.svcs) /\ mem.next <= Len(mem.svcs) + 1
        /\ mem.next \in Nat /\ Len(mem.svcs) \in Nat
    BY DEF Through, Idle, StoredInv, Position, DBInv, MemType, Described
  <2>3. CASE i = mem.next - 1
    <3>1. mem.next > 1
      BY <2>2, <2>3
    <3>2. InTurn /\ Partly
      BY <2>3, <3>1 DEF StoredInv, UnderWay
    <3>3. Latest = mem.svcs[i] /\ \A o \in Sections : Len(Latest[o]) \in Nat
      BY <2>2, <2>3, <3>1, LatestLists
    <3>4. Stored(Latest)
      BY <2>2, <3>2, <3>3, StoredWhenDone
    <3> QED BY <2>1, <3>3, <3>4
  <2>4. CASE i < mem.next - 1
    BY <2>1, <2>2, <2>4 DEF StoredInv, Over
  <2> QED BY <2>2, <2>3, <2>4
<1>2. Init => Through
  BY DEF Init, LockInit, Through
<1>3. LockInv => OneController
  BY DEF LockInv, Exclusive, Current, OneController, Holds
<1>4. LockInv /\ [LockNext]_lockVars => LockInv'
  BY LockTypeStep, ExclusiveStep, CurrentStep DEF LockInv
<1>5. Spec => []LockInv
  BY KeepsLock, LockInitInv, <1>4, PTL DEF LockSpec
<1> QED BY <1>1, <1>2, <1>3, <1>5, InitStored, StoredStep, ThroughStep, DBInductive,
           EnteredAlways, PTL DEF Spec
=============================================================================
