------------------------- MODULE ServiceDir_proofs --------------------------
(***************************************************************************)
(* Proofs about the state directories of module ServiceDir, for any lists  *)
(* of services, any number of buddies and any crashes of either side.      *)
(*                                                                         *)
(* The properties say what holds of a buddy nobody has lost sight of.  The *)
(* invariant adds why no second one comes to be: a buddy that has bound    *)
(* its socket is seen through it (Bound), one that has not was started by  *)
(* the controller that is there, for an earlier entry of its list          *)
(* (Watched), and a controller touches only directories whose buddies are  *)
(* given up (AtWork).                                                      *)
(***************************************************************************)
EXTENDS ServiceDir, FiniteSetTheorems, TLAPS

Buddy == 1 .. MaxBuddies
Creates == {"mkdir", "scripts", "spawn"}
Removes == {"kill", "strip", "rmrf"}
Holding == {"bound", "listening", "told", "term"}

Work == [at : {"off", "stat", "poll"} \cup Creates \cup Removes, list : Seq(Svcs), version : Nat,
         i : Nat \ {0}, stat : {"none", "sock"}, todo : SUBSET Svcs, svc : Svcs \cup {""}]

Process == [svc : Svcs \cup {""}, version : Nat,
            st : Holding \cup {"forked", "unlinked", "closed", "dying", "dead"}]

DirType ==
  /\ dir \in [Svcs -> [made : BOOLEAN, scripts : Nat, link : BOOLEAN]]
  /\ sock \in [Svcs -> 0 .. MaxBuddies + 1]
  /\ buddies \in [Buddy -> Process]
  /\ ctl \in Work
  /\ version \in Versions
  /\ stray \subseteq Buddy

(* A socket that is not dead is that of a buddy of its service. *)
Owners ==
  \A s \in Svcs : sock[s] \in Buddy => buddies[sock[s]].svc = s /\ buddies[sock[s]].st \in Holding

(* Which buddies are lost. *)
Members ==
  \A b \in Buddy : /\ Live(b) => buddies[b].svc \in Svcs
                   /\ b \in stray => Live(b)
                   /\ buddies[b].st \in {"closed", "dying"} => b \in stray

(* The directory of a buddy is complete and of its version. *)
Furnished ==
  \A b \in Buddy \ stray : Live(b) =>
    dir[buddies[b].svc].made /\ dir[buddies[b].svc].scripts = buddies[b].version

(* A buddy holds the socket of its service from bind() on. *)
Bound ==
  \A b \in Buddy \ stray : buddies[b].st \in Holding => sock[buddies[b].svc] = b

(* A buddy that does not listen yet was started by the present controller. *)
Earlier(s) == \E j \in DOMAIN ctl.list : j < ctl.i /\ ctl.list[j] = s

Watched ==
  \A b \in Buddy \ stray : Starting(b) =>
    /\ ctl.at # "off"
    /\ ctl.at \in {"stat"} \cup Creates => Earlier(buddies[b].svc)

(* A service has at most one buddy that is not lost. *)
Alone ==
  \A a, b \in Buddy \ stray : Live(a) /\ Live(b) /\ buddies[a].svc = buddies[b].svc => a = b

(* Every buddy of the service is lost. *)
Abandoned(s) == \A b \in Buddy : Live(b) /\ buddies[b].svc = s => b \in stray

(* What the controller may rely on in the middle of its work. *)
AtWork ==
  /\ ctl.at # "off" => \A i, j \in DOMAIN ctl.list : ctl.list[i] = ctl.list[j] => i = j
  /\ ctl.at \in Creates => ctl.i \in DOMAIN ctl.list /\ Abandoned(Creating)
  /\ ctl.at \in {"scripts", "spawn"} => dir[Creating].made
  /\ ctl.at = "spawn" => dir[Creating].scripts = ctl.version
  /\ ctl.at \in Removes => ctl.svc \in Svcs /\ Abandoned(ctl.svc)

DirInv ==
  /\ DirType
  /\ Owners
  /\ Members
  /\ Furnished
  /\ Bound
  /\ Watched
  /\ Alone
  /\ AtWork
-----------------------------------------------------------------------------
(* A step in which no buddy is started or found again. *)
Quiet ==
  \A b \in Buddy : Live(b)' =>
    /\ Live(b)
    /\ buddies'[b].svc = buddies[b].svc
    /\ buddies'[b].version = buddies[b].version
    /\ b \in stray => b \in stray'
    /\ Starting(b)' => Starting(b)

(* Starting buddies are alive. *)
LEMMA StartingLive ==
  ASSUME NEW b \in Buddy
  PROVE  /\ Starting(b) => Live(b)
         /\ Starting(b)' => Live(b)'
BY DEF Live

(* A buddy that goes on to another state, and one that is gone. *)
LEMMA BecomeType ==
  ASSUME DirType, NEW b \in Buddy
  PROVE  /\ \A st \in Holding \cup {"forked", "unlinked", "closed", "dying", "dead"} :
              Become(b, st) =>
                /\ buddies' \in [Buddy -> Process]
                /\ buddies'[b].st = st /\ buddies'[b].svc = buddies[b].svc
                /\ buddies'[b].version = buddies[b].version
                /\ \A a \in Buddy \ {b} : buddies'[a] = buddies[a]
         /\ Ends(b) =>
              /\ buddies' \in [Buddy -> Process]
              /\ buddies'[b] = Nobody
              /\ \A a \in Buddy \ {b} : buddies'[a] = buddies[a]
<1>1. buddies \in [Buddy -> Process]
  BY DEF DirType
<1>2. Nobody \in Process
  BY DEF Nobody, Process
<1>3. ASSUME NEW st \in Holding \cup {"forked", "unlinked", "closed", "dying", "dead"}, Become(b, st)
      PROVE  /\ buddies' \in [Buddy -> Process]
             /\ buddies'[b].st = st /\ buddies'[b].svc = buddies[b].svc
             /\ buddies'[b].version = buddies[b].version
             /\ \A a \in Buddy \ {b} : buddies'[a] = buddies[a]
  BY <1>1, <1>3 DEF Become, Process
<1>4. ASSUME Ends(b)
      PROVE  /\ buddies' \in [Buddy -> Process]
             /\ buddies'[b] = Nobody
             /\ \A a \in Buddy \ {b} : buddies'[a] = buddies[a]
  BY <1>1, <1>2, <1>4 DEF Ends
<1> QED BY <1>3, <1>4

(* How a record of the controller's work is made up. *)
LEMMA WorkRecord ==
  ASSUME NEW at \in {"off", "stat", "poll"} \cup Creates \cup Removes, NEW list \in Seq(Svcs),
         NEW ver \in Nat, NEW i \in Nat \ {0}, NEW stat \in {"none", "sock"},
         NEW todo \in SUBSET Svcs, NEW svc \in Svcs \cup {""}
  PROVE  [at |-> at, list |-> list, version |-> ver, i |-> i, stat |-> stat, todo |-> todo,
          svc |-> svc] \in Work
BY DEF Work

(* The fields of what the controller works on. *)
LEMMA WorkType ==
  ASSUME DirInv
  PROVE  /\ ctl.list \in Seq(Svcs) /\ ctl.version \in Nat
         /\ ctl.i \in Nat /\ ctl.i # 0
         /\ DOMAIN ctl.list = 1 .. Len(ctl.list) /\ Len(ctl.list) \in Nat
         /\ ctl.i \in DOMAIN ctl.list => Creating \in Svcs
<1>1. ctl.list \in Seq(Svcs) /\ ctl.version \in Nat /\ ctl.i \in Nat /\ ctl.i # 0
  BY DEF DirInv, DirType, Work
<1> QED BY <1>1 DEF Creating

(* Such a step keeps what the directories and the controller's work owe to *)
(* the buddies there are.                                                  *)
LEMMA QuietKeeps ==
  ASSUME DirInv, Quiet
  PROVE  /\ Alone'
         /\ UNCHANGED dir => Furnished'
         /\ UNCHANGED ctl => Watched'
         /\ UNCHANGED <<dir, ctl>> => AtWork'
         /\ \A s \in Svcs : Abandoned(s) => Abandoned(s)'
<1> USE DEF DirInv
<1>1. ASSUME NEW b \in Buddy \ stray', Live(b)'
      PROVE  /\ b \in Buddy \ stray /\ Live(b)
             /\ buddies'[b].svc = buddies[b].svc
             /\ buddies'[b].version = buddies[b].version
             /\ Starting(b)' => Starting(b)
  BY <1>1 DEF Quiet
<1>2. Alone'
  BY <1>1 DEF Alone
<1>3. ASSUME UNCHANGED dir PROVE Furnished'
  BY <1>1, <1>3 DEF Furnished
<1>4. ASSUME UNCHANGED ctl PROVE Watched'
  <2> SUFFICES ASSUME NEW b \in Buddy \ stray', Starting(b)'
               PROVE  /\ ctl'.at # "off"
                      /\ ctl'.at \in {"stat"} \cup Creates => Earlier(buddies[b].svc)'
    BY StartingLive, <1>1 DEF Watched
  <2>1. b \in Buddy \ stray /\ Starting(b) /\ buddies'[b].svc = buddies[b].svc
    BY <1>1, StartingLive
  <2> QED BY <1>4, <2>1 DEF Watched, Earlier
<1>5. ASSUME NEW s, Abandoned(s) PROVE Abandoned(s)'
  BY <1>5 DEF Abandoned, Quiet
<1>6. ASSUME UNCHANGED <<dir, ctl>> PROVE AtWork'
  <2>1. Creating' = Creating
    BY <1>6 DEF Creating
  <2> QED BY <1>5, <1>6, <2>1 DEF AtWork, Abandoned
<1> QED BY <1>2, <1>3, <1>4, <1>5, <1>6
-----------------------------------------------------------------------------
(* At first there is nothing. *)
LEMMA InitDir == DirInit => DirInv
<1> SUFFICES ASSUME DirInit PROVE DirInv
  OBVIOUS
<1>1. \A b \in Buddy : ~Live(b) /\ ~Starting(b) /\ buddies[b].st = "dead"
  BY DEF DirInit, Nobody, Live, Starting, Open, Buddy
<1>2. DirType
  <2>1. Absent \in [made : BOOLEAN, scripts : Nat, link : BOOLEAN]
    BY DEF Absent
  <2>2. Nobody \in Process
    BY DEF Nobody, Process
  <2>3. None \in 0 .. MaxBuddies + 1
    BY MaxBuddiesAssumption DEF None
  <2>4. Off \in Work
    BY DEF Off, Work
  <2> QED BY <2>1, <2>2, <2>3, <2>4, SvcListsAssumption DEF DirInit, DirType, Buddy
<1>3. Owners
  BY DEF DirInit, Owners, None, Buddy
<1>4. Members /\ Furnished /\ Bound /\ Watched /\ Alone
  BY <1>1 DEF DirInit, Members, Furnished, Bound, Watched, Alone, Holding
<1>5. AtWork
  BY DEF DirInit, AtWork, Off, Creates, Removes
<1> QED BY <1>2, <1>3, <1>4, <1>5 DEF DirInv

(* A service in whose directory no socket is, and for which the controller *)
(* has not started a buddy yet, has none that anybody knows of: so the     *)
(* test of create_buddy is enough.                                         *)
LEMMA NoSocketNoBuddy ==
  ASSUME DirInv, ctl.at = "stat", ctl.i \in DOMAIN ctl.list, sock[Creating] = None
  PROVE  Abandoned(Creating)
<1> SUFFICES ASSUME NEW b \in Buddy \ stray, Live(b), buddies[b].svc = Creating PROVE FALSE
  BY DEF Abandoned
<1>1. buddies[b].st \notin Holding
  BY DEF DirInv, Bound, None, Buddy
<1>2. buddies[b].st \notin {"closed", "dying"}
  BY DEF DirInv, Members
<1>3. Starting(b)
  BY <1>1, <1>2 DEF Live, Starting, Open, Holding
<1>4. PICK j \in DOMAIN ctl.list : j < ctl.i /\ ctl.list[j] = Creating
  BY <1>3 DEF DirInv, Watched, Earlier
<1>5. j = ctl.i
  BY <1>4 DEF DirInv, AtWork, Creating
<1> QED BY <1>4, <1>5, WorkType

(* The steps of a controller that only read: it loads the list, looks for  *)
(* a socket, enters its loop and reads the directory.                      *)
LEMMA ReadInv ==
  ASSUME DirInv, LoadServices \/ CreateBuddy \/ EnterLoop \/ OpenDir
  PROVE  DirInv'
<1> USE DEF DirInv
<1>0. UNCHANGED <<dir, sock, buddies, version, stray>>
  BY DEF LoadServices, CreateBuddy, EnterLoop, OpenDir
<1>1. Quiet
  BY <1>0 DEF Quiet, Live, Starting, Open
<1>2. Owners' /\ Members' /\ Bound' /\ Furnished' /\ Alone'
  BY <1>0, <1>1, QuietKeeps DEF Owners, Members, Bound, Live, Starting, Open
<1>3. CASE LoadServices
  <2>1. ctl'.at = "stat" /\ ctl'.list = SvcLists[version]
    BY <1>3 DEF LoadServices, Off
  <2>2. DirType'
    <3>1. ctl' = [at |-> "stat", list |-> SvcLists[version], version |-> version, i |-> 1,
                  stat |-> "none", todo |-> {}, svc |-> ""]
      BY <1>3 DEF LoadServices, Off
    <3>2. SvcLists[version] \in Seq(Svcs) /\ version \in Nat
      BY SvcListsAssumption DEF DirType
    <3>3. ctl' \in Work
      <4>1. /\ "stat" \in {"off", "stat", "poll"} \cup Creates \cup Removes /\ 1 \in Nat \ {0}
            /\ "none" \in {"none", "sock"} /\ {} \in SUBSET Svcs /\ "" \in Svcs \cup {""}
        OBVIOUS
      <4>2. [at |-> "stat", list |-> SvcLists[version], version |-> version, i |-> 1,
             stat |-> "none", todo |-> {}, svc |-> ""] \in Work
        BY <3>2, <4>1, WorkRecord, Zenon
      <4> QED BY <3>1, <4>2
    <3> QED BY <1>0, <3>3 DEF DirType
  <2>3. \A b \in Buddy \ stray : ~Starting(b)
    BY <1>3 DEF LoadServices, Watched
  <2>4. Watched'
    BY <1>0, <2>3 DEF Watched, Starting
  <2>5. AtWork'
    <3>1. \A i, j \in DOMAIN ctl'.list : ctl'.list[i] = ctl'.list[j] => i = j
      BY <2>1, NamesAssumption DEF DirType
    <3> QED BY <2>1, <3>1 DEF AtWork, Creates, Removes
  <2> QED BY <1>2, <2>2, <2>4, <2>5
<1>4. CASE CreateBuddy
  <2>0. ctl.at = "stat" /\ ctl.i \in DOMAIN ctl.list /\ ctl.i \in Nat
    BY <1>4, WorkType DEF CreateBuddy
  <2>1. /\ ctl' \in Work
        /\ ctl'.list = ctl.list
        /\ \/ ctl'.at = "stat" /\ ctl'.i = ctl.i + 1
           \/ ctl'.at = "mkdir" /\ ctl'.i = ctl.i /\ sock[Creating] = None
    <3>1. ctl \in Work
      BY DEF DirType
    <3>2. CASE sock[Creating] # None \/ ctl.stat = "sock"
      <4>1. ctl' = [ctl EXCEPT !.stat = "sock", !.at = "stat", !.i = ctl.i + 1]
        BY <1>4, <3>2 DEF CreateBuddy
      <4>2. /\ ctl'.list = ctl.list /\ ctl'.at = "stat" /\ ctl'.i = ctl.i + 1
        BY <3>1, <4>1 DEF Work
      <4>3. ctl.i + 1 \in Nat \ {0}
        BY <2>0
      <4>4. ctl' \in Work
        BY <3>1, <4>1, <4>3 DEF Work
      <4> QED BY <4>2, <4>4
    <3>3. CASE sock[Creating] = None /\ ctl.stat # "sock"
      <4>1. ctl' = [ctl EXCEPT !.stat = ctl.stat, !.at = "mkdir", !.i = ctl.i]
        BY <1>4, <3>3 DEF CreateBuddy
      <4> QED BY <3>1, <3>3, <4>1 DEF Work, Creates
    <3> QED BY <3>2, <3>3
  <2>2. DirType'
    BY <1>0, <2>1 DEF DirType
  <2>3. Watched'
    <3> SUFFICES ASSUME NEW b \in Buddy \ stray', Starting(b)' PROVE Earlier(buddies[b].svc)'
      BY <2>1 DEF Watched
    <3>1. b \in Buddy \ stray /\ Starting(b)
      BY <1>0 DEF Starting
    <3>2. Earlier(buddies[b].svc)
      BY <2>0, <3>1 DEF Watched
    <3>3. ctl'.i >= ctl.i /\ ctl'.i \in Nat /\ ctl'.list = ctl.list
      BY <2>0, <2>1
    <3>4. PICK j \in DOMAIN ctl.list : j < ctl.i /\ ctl.list[j] = buddies[b].svc
      BY <3>2 DEF Earlier
    <3>5. j < ctl'.i
      BY <2>0, <3>3, <3>4, WorkType
    <3> QED BY <1>0, <3>3, <3>4, <3>5 DEF Earlier
  <2>4. AtWork'
    <3>1. CASE ctl'.at = "stat"
      BY <2>0, <2>1, <3>1 DEF AtWork, Creates, Removes
    <3>2. CASE ctl'.at = "mkdir"
      <4>1. Abandoned(Creating)
        BY <2>0, <2>1, <3>2, NoSocketNoBuddy
      <4>2. Creating' = Creating
        BY <2>1, <3>2 DEF Creating
      <4>3. Abandoned(Creating)'
        BY <1>0, <4>1, <4>2 DEF Abandoned, Live, Starting, Open
      <4> QED BY <2>0, <2>1, <3>2, <4>3 DEF AtWork, Removes
    <3> QED BY <2>1, <3>1, <3>2
  <2> QED BY <1>2, <2>2, <2>3, <2>4
<1>5. CASE EnterLoop \/ OpenDir
  <2>1. ctl'.at = "poll" /\ ctl'.list = ctl.list /\ ctl.at # "off"
    BY <1>5 DEF EnterLoop, OpenDir, DirType, Work
  <2>2. DirType'
    <3>1. CASE EnterLoop
      BY <1>0, <3>1 DEF EnterLoop, DirType, Work
    <3>2. CASE OpenDir
      BY <1>0, <3>2 DEF OpenDir, DirType, Work
    <3> QED BY <1>5, <3>1, <3>2
  <2>3. Watched' /\ AtWork'
    BY <2>1 DEF Watched, AtWork, Creates, Removes
  <2> QED BY <1>2, <2>2, <2>3
<1> QED BY <1>3, <1>4, <1>5
-----------------------------------------------------------------------------
(* A directory may be changed when its buddies are lost. *)
LEMMA DirTouched ==
  ASSUME DirInv, Quiet, NEW s \in Svcs, Abandoned(s),
         \A t \in Svcs \ {s} : dir'[t] = dir[t]
  PROVE  Furnished'
<1> SUFFICES ASSUME NEW b \in Buddy \ stray', Live(b)'
             PROVE  /\ dir'[buddies'[b].svc].made
                    /\ dir'[buddies'[b].svc].scripts = buddies'[b].version
  BY DEF Furnished
<1>1. b \in Buddy \ stray /\ Live(b)
  BY DEF Quiet
<1>2. buddies'[b].svc = buddies[b].svc /\ buddies'[b].version = buddies[b].version
  BY DEF Quiet
<1>3. buddies[b].svc \in Svcs \ {s}
  BY <1>1 DEF DirInv, Members, Abandoned
<1>4. dir[buddies[b].svc].made /\ dir[buddies[b].svc].scripts = buddies[b].version
  BY <1>1 DEF DirInv, Furnished
<1> QED BY <1>2, <1>3, <1>4

(* A controller that goes on keeps an eye on the buddies it has started. *)
LEMMA WatchKept ==
  ASSUME DirInv, Quiet, ctl'.at # "off", ctl.at # "off",
         ctl'.at \in {"stat"} \cup Creates =>
           /\ ctl.at \in {"stat"} \cup Creates
           /\ ctl'.list = ctl.list /\ (ctl'.i = ctl.i \/ ctl'.i = ctl.i + 1)
  PROVE  Watched'
<1> SUFFICES ASSUME NEW b \in Buddy \ stray', Starting(b)', ctl'.at \in {"stat"} \cup Creates
             PROVE  Earlier(buddies[b].svc)'
  BY DEF Watched
<1>1. b \in Buddy \ stray /\ Starting(b) /\ buddies'[b].svc = buddies[b].svc
  BY StartingLive DEF Quiet
<1>2. PICK j \in DOMAIN ctl.list : j < ctl.i /\ ctl.list[j] = buddies[b].svc
  BY <1>1 DEF DirInv, Watched, Earlier
<1>3. j < ctl'.i
  BY <1>2, WorkType
<1> QED BY <1>1, <1>2, <1>3 DEF Earlier

(* create_buddy_statedir: the directory it makes has no buddy. *)
LEMMA MakeInv ==
  ASSUME DirInv, MakeDirs \/ WriteScripts
  PROVE  DirInv'
<1> USE DEF DirInv
<1>0. UNCHANGED <<sock, buddies, version, stray>>
  BY DEF MakeDirs, WriteScripts
<1>1. Quiet
  BY <1>0 DEF Quiet, Live, Starting, Open
<1>2. Owners' /\ Members' /\ Bound' /\ Alone'
  BY <1>0, <1>1, QuietKeeps DEF Owners, Members, Bound, Live, Starting, Open
<1>3. ctl.at \in Creates /\ Creating \in Svcs /\ Abandoned(Creating)
  BY WorkType DEF MakeDirs, WriteScripts, Creates, AtWork
<1>4. Abandoned(Creating)'
  <2>1. Creating' = Creating
    BY DEF MakeDirs, WriteScripts, Creating, DirType, Work
  <2> QED BY <1>0, <1>3, <2>1 DEF Abandoned, Live, Starting, Open
<1>5. /\ ctl' \in Work /\ ctl'.list = ctl.list /\ ctl'.i = ctl.i /\ ctl'.version = ctl.version
      /\ ctl'.at \in {"scripts", "spawn"}
      /\ ctl'.at = "spawn" <=> WriteScripts
  <2>1. ctl \in Work
    BY DEF DirType
  <2>2. CASE MakeDirs
    <3>1. ctl' = [ctl EXCEPT !.at = "scripts"] /\ ctl.at = "mkdir"
      BY <2>2 DEF MakeDirs
    <3> QED BY <2>1, <3>1 DEF Work, Creates, WriteScripts
  <2>3. CASE WriteScripts
    <3>1. ctl' = [ctl EXCEPT !.at = "spawn"]
      BY <2>3 DEF WriteScripts
    <3> QED BY <2>1, <2>3, <3>1 DEF Work, Creates
  <2> QED BY <2>2, <2>3
<1>6. /\ dir' \in [Svcs -> [made : BOOLEAN, scripts : Nat, link : BOOLEAN]]
      /\ \A t \in Svcs \ {Creating} : dir'[t] = dir[t]
      /\ dir'[Creating].made
      /\ WriteScripts => dir'[Creating].scripts = ctl.version
  <2>1. dir \in [Svcs -> [made : BOOLEAN, scripts : Nat, link : BOOLEAN]] /\ ctl.version \in Nat
    BY WorkType DEF DirType
  <2>2. CASE MakeDirs
    <3>1. dir' = [dir EXCEPT ![Creating].made = TRUE]
      BY <2>2 DEF MakeDirs
    <3>2. ~WriteScripts
      BY <2>2 DEF MakeDirs, WriteScripts
    <3> QED BY <1>3, <2>1, <3>1, <3>2
  <2>3. CASE WriteScripts
    <3>1. dir' = [dir EXCEPT ![Creating].scripts = ctl.version, ![Creating].link = TRUE]
      BY <2>3 DEF WriteScripts
    <3>2. dir[Creating].made
      BY <2>3 DEF WriteScripts, AtWork
    <3> QED BY <1>3, <2>1, <3>1, <3>2
  <2> QED BY <2>2, <2>3
<1>7. DirType'
  BY <1>0, <1>5, <1>6 DEF DirType
<1>8. Furnished'
  BY <1>1, <1>3, <1>6, DirTouched
<1>9. Watched'
  BY <1>1, <1>3, <1>5, WatchKept DEF Creates
<1>10. AtWork'
  <2>1. Creating' = Creating
    BY <1>5 DEF Creating
  <2>2. ctl.i \in DOMAIN ctl.list /\ \A i, j \in DOMAIN ctl.list : ctl.list[i] = ctl.list[j] => i = j
    BY <1>3 DEF AtWork, Creates
  <2> QED BY <1>4, <1>5, <1>6, <2>1, <2>2 DEF AtWork, Creates, Removes
<1> QED BY <1>2, <1>7, <1>8, <1>9, <1>10

(* spawn_buddy: the buddy that is started is the only one of its service   *)
(* that anybody sees, and finds a complete directory.                      *)
LEMMA SpawnInv ==
  ASSUME DirInv, SpawnBuddy
  PROVE  DirInv'
<1> USE DEF DirInv
<1>0. /\ UNCHANGED <<dir, sock, version, stray>>
      /\ ctl.at = "spawn" /\ ctl \in Work
      /\ ctl' = [ctl EXCEPT !.at = "stat", !.i = ctl.i + 1]
  BY DEF SpawnBuddy, DirType
<1>1. /\ ctl.i \in DOMAIN ctl.list /\ Creating \in Svcs /\ Abandoned(Creating)
      /\ dir[Creating].made /\ dir[Creating].scripts = ctl.version
  BY <1>0, WorkType DEF AtWork, Creates
<1>2. ctl' \in Work /\ ctl'.at = "stat" /\ ctl'.i = ctl.i + 1 /\ ctl'.list = ctl.list
  <2>1. ctl.i + 1 \in Nat \ {0}
    BY WorkType
  <2> QED BY <1>0, <2>1 DEF Work
<1>3. AtWork'
  BY <1>0, <1>2 DEF AtWork, Creates, Removes
<1>4. CASE UNCHANGED buddies
  <2>1. Quiet
    BY <1>0, <1>4 DEF Quiet, Live, Starting, Open
  <2>2. Owners' /\ Members' /\ Bound' /\ Alone' /\ Furnished'
    BY <1>0, <1>4, <2>1, QuietKeeps DEF Owners, Members, Bound, Live, Starting, Open
  <2>3. Watched'
    BY <1>0, <1>2, <2>1, WatchKept DEF Creates
  <2>4. DirType'
    BY <1>0, <1>2, <1>4 DEF DirType
  <2> QED BY <1>3, <2>2, <2>3, <2>4
<1>5. ASSUME NEW b \in DOMAIN buddies, ~Live(b),
             buddies' = [buddies EXCEPT ![b] =
                           [svc |-> Creating, version |-> ctl.version, st |-> "forked"]]
      PROVE  DirInv'
  <2>0. b \in Buddy /\ b \notin stray /\ ctl.version \in Nat
    BY <1>5, WorkType DEF DirType, Members
  <2>1. /\ buddies'[b] = [svc |-> Creating, version |-> ctl.version, st |-> "forked"]
        /\ \A a \in Buddy \ {b} : buddies'[a] = buddies[a]
    BY <1>5, <2>0 DEF DirType
  <2>2. /\ Live(b)' /\ Starting(b)'
        /\ \A a \in Buddy \ {b} : (Live(a)' <=> Live(a)) /\ (Starting(a)' <=> Starting(a))
    BY <2>1 DEF Live, Starting, Open
  <2>3. DirType'
    <3>1. buddies' \in [Buddy -> Process]
      BY <1>1, <1>5, <2>0 DEF DirType, Process
    <3> QED BY <1>0, <1>2, <3>1 DEF DirType
  <2>4. Owners'
    <3>1. \A s \in Svcs : sock[s] \in Buddy => sock[s] # b
      BY <1>5 DEF Owners, Holding, Live, Starting, Open
    <3> QED BY <1>0, <2>1, <3>1 DEF Owners
  <2>5. Members' /\ Furnished' /\ Bound'
    BY <1>0, <1>1, <2>0, <2>1, <2>2 DEF Members, Furnished, Bound, Holding
  <2>6. Watched'
    <3> SUFFICES ASSUME NEW a \in Buddy \ stray, Starting(a)' PROVE Earlier(buddies[a].svc)'
      BY <1>0, <1>2 DEF Watched
    <3>1. CASE a = b
      <4>1. ctl.i < ctl'.i /\ ctl.list[ctl.i] = buddies'[a].svc
        BY <1>2, <2>1, <3>1, WorkType DEF Creating
      <4> QED BY <1>1, <1>2, <4>1 DEF Earlier
    <3>2. CASE a # b
      <4>1. Starting(a) /\ buddies'[a] = buddies[a]
        BY <2>1, <2>2, <3>2
      <4>2. PICK j \in DOMAIN ctl.list : j < ctl.i /\ ctl.list[j] = buddies[a].svc
        BY <1>0, <4>1 DEF Watched, Earlier, Creates
      <4>3. j < ctl'.i
        BY <1>2, <4>2, WorkType
      <4> QED BY <1>2, <4>1, <4>2, <4>3 DEF Earlier
    <3> QED BY <3>1, <3>2
  <2>7. Alone'
    BY <1>0, <1>1, <2>1, <2>2 DEF Alone, Abandoned
  <2> QED BY <1>3, <2>3, <2>4, <2>5, <2>6, <2>7
<1> QED BY <1>4, <1>5 DEF SpawnBuddy

(* handle_buddies gives up the buddies it cannot reach, and a controller   *)
(* that ends those that nobody can reach yet.                              *)
LEMMA GiveUpInv ==
  ASSUME DirInv, (\E s \in Svcs : Poll(s)) \/ End
  PROVE  DirInv'
<1> USE DEF DirInv
<1>0. /\ UNCHANGED <<dir, sock, buddies, version>>
      /\ ctl \in Work /\ stray \subseteq stray' /\ ctl.at # "off"
  BY DEF Poll, End, DirType
<1>1. \A b \in Buddy : b \in stray' => b \in stray \/ Live(b)
  BY DEF Poll, End, BuddiesOf, Unseen, Live
<1>2. Quiet
  BY <1>0 DEF Quiet, Live, Starting, Open
<1>3. Alone' /\ Furnished'
  BY <1>0, <1>2, QuietKeeps
<1>4. Owners' /\ Members' /\ Bound'
  BY <1>0, <1>1 DEF Owners, Members, Bound, Live, Starting, Open
<1>5. stray' \subseteq Buddy
  BY DEF Poll, End, BuddiesOf, Unseen, DirType
<1>6. ASSUME NEW s \in Svcs, Poll(s) PROVE DirInv'
  <2>1. CASE BuddyConnect(s)
    <3>1. ctl' = [ctl EXCEPT !.todo = ctl.todo \ {s}] /\ ctl.at = "poll"
      BY <1>6, <2>1 DEF Poll
    <3>2. ctl' \in Work /\ ctl'.at = "poll" /\ ctl'.list = ctl.list
      BY <1>0, <3>1 DEF Work
    <3>3. DirType'
      BY <1>0, <1>5, <3>2 DEF DirType
    <3>4. Watched' /\ AtWork'
      BY <1>0, <3>2 DEF Watched, AtWork, Creates, Removes
    <3> QED BY <1>3, <1>4, <3>3, <3>4
  <2>2. CASE ~BuddyConnect(s)
    <3>1. PICK next \in {"kill", "rmrf"} :
            ctl' = [ctl EXCEPT !.todo = ctl.todo \ {s}, !.svc = s, !.at = next]
      BY <1>6, <2>2 DEF Poll
    <3>2. ctl' \in Work /\ ctl'.at = next /\ ctl'.svc = s /\ ctl'.list = ctl.list
      BY <1>0, <3>1 DEF Work, Removes
    <3>3. DirType'
      BY <1>0, <1>5, <3>2 DEF DirType
    <3>4. stray' = stray \cup BuddiesOf(s)
      BY <1>6, <2>2 DEF Poll
    <3>5. \A b \in Buddy : Live(b)' /\ buddies'[b].svc = s => b \in stray'
      BY <1>0, <3>4 DEF BuddiesOf, Live, Starting, Open, DirType
    <3>6. Watched'
      BY <3>2 DEF Watched, Creates
    <3>7. AtWork'
      BY <1>0, <3>2, <3>5 DEF AtWork, Abandoned, Creates, Removes
    <3> QED BY <1>3, <1>4, <3>3, <3>6, <3>7
  <2> QED BY <2>1, <2>2
<1>7. CASE End
  <2>1. ctl' = Off /\ stray' = stray \cup Unseen
    BY <1>7 DEF End
  <2>2. DirType'
    <3>1. Off \in Work
      BY DEF Off, Work
    <3> QED BY <1>0, <1>5, <2>1, <3>1 DEF DirType
  <2>3. \A b \in Buddy \ stray' : ~Starting(b)'
    BY <1>0, <2>1 DEF Unseen, Starting, DirType
  <2>4. Watched' /\ AtWork'
    BY <2>1, <2>3 DEF Watched, AtWork, Off, Creates, Removes
  <2> QED BY <1>3, <1>4, <2>2, <2>4
<1> QED BY <1>6, <1>7

(* remove_buddy: a buddy that can be connected to after all is told to go; *)
(* it is lost already.                                                     *)
LEMMA KillInv ==
  ASSUME DirInv, KillBuddy
  PROVE  DirInv'
<1> USE DEF DirInv
<1>0. /\ UNCHANGED <<dir, sock, version, stray>>
      /\ ctl \in Work /\ ctl.at = "kill" /\ ctl' = [ctl EXCEPT !.at = "strip"]
  BY DEF KillBuddy, DirType
<1>1. ctl' \in Work /\ ctl'.at = "strip" /\ ctl'.svc = ctl.svc /\ ctl'.list = ctl.list
  BY <1>0 DEF Work, Removes
<1>2. ctl.svc \in Svcs /\ Abandoned(ctl.svc)
  BY <1>0 DEF AtWork, Removes
<1>3. \/ buddies' = buddies
      \/ \E b \in Buddy : /\ Open(b) /\ sock[ctl.svc] = b
                          /\ buddies' = [buddies EXCEPT ![b].st = "told"]
  BY <1>0 DEF KillBuddy, BuddyConnect, DirType
<1>4. \A b \in Buddy :
        /\ buddies'[b].svc = buddies[b].svc /\ buddies'[b].version = buddies[b].version
        /\ (Live(b)' <=> Live(b)) /\ (Starting(b)' <=> Starting(b))
        /\ buddies'[b].st = buddies[b].st
             \/ (b \in stray /\ buddies[b].st \in Holding /\ buddies'[b].st = "told")
  <2>1. CASE buddies' = buddies
    BY <2>1 DEF Live, Starting, Open
  <2>2. ASSUME NEW a \in Buddy, Open(a), sock[ctl.svc] = a,
               buddies' = [buddies EXCEPT ![a].st = "told"],
               NEW b \in Buddy
        PROVE  /\ buddies'[b].svc = buddies[b].svc /\ buddies'[b].version = buddies[b].version
               /\ (Live(b)' <=> Live(b)) /\ (Starting(b)' <=> Starting(b))
               /\ buddies'[b].st = buddies[b].st
                    \/ (b \in stray /\ buddies[b].st \in Holding /\ buddies'[b].st = "told")
    <3>1. a \in stray
      BY <1>2, <2>2 DEF Owners, Abandoned, Live
    <3>2. CASE b = a
      BY <2>2, <3>1, <3>2 DEF DirType, Live, Starting, Open, Holding
    <3>3. CASE b # a
      BY <2>2, <3>3 DEF DirType, Live, Starting, Open
    <3> QED BY <3>2, <3>3
  <2> QED BY <1>3, <2>1, <2>2
<1>5. Quiet
  BY <1>0, <1>4 DEF Quiet
<1>6. Alone' /\ Furnished' /\ Abandoned(ctl.svc)'
  <2>1. Abandoned(ctl.svc)'
    BY <1>0, <1>1, <1>2, <1>4 DEF Abandoned
  <2> QED BY <1>0, <1>5, <2>1, QuietKeeps
<1>7. DirType'
  <2>1. buddies' \in [Buddy -> Process]
    <3>1. CASE buddies' = buddies
      BY <3>1 DEF DirType
    <3>2. ASSUME NEW b \in Buddy, buddies' = [buddies EXCEPT ![b].st = "told"]
          PROVE  buddies' \in [Buddy -> Process]
      BY <3>2, BecomeType DEF Become, Holding
    <3> QED BY <1>3, <3>1, <3>2
  <2> QED BY <1>0, <1>1, <2>1 DEF DirType
<1>8. Owners' /\ Members' /\ Bound'
  BY <1>0, <1>4 DEF Owners, Members, Bound, Holding
<1>9. Watched' /\ AtWork'
  <2>1. Watched'
    BY <1>0, <1>1, <1>5, WatchKept DEF Creates
  <2>2. AtWork'
    BY <1>0, <1>1, <1>2, <1>6 DEF AtWork, Creates, Removes
  <2> QED BY <2>1, <2>2
<1> QED BY <1>6, <1>7, <1>8, <1>9

(* remove_buddy_statedir and upk_rm_rf: what they remove has no buddy that *)
(* anybody sees.                                                           *)
LEMMA RemoveInv ==
  ASSUME DirInv, RemoveScripts \/ RmRf
  PROVE  DirInv'
<1> USE DEF DirInv
<1> DEFINE s == ctl.svc
<1>0. /\ UNCHANGED <<buddies, version, stray>>
      /\ ctl \in Work /\ ctl.at \in Removes /\ s \in Svcs /\ Abandoned(s)
  BY DEF RemoveScripts, RmRf, DirType, AtWork, Removes
<1> HIDE DEF s
<1>1. \A b \in Buddy : (Live(b)' <=> Live(b)) /\ (Starting(b)' <=> Starting(b))
  BY <1>0 DEF Live, Starting, Open
<1>2. Quiet
  BY <1>0, <1>1 DEF Quiet
<1>3. /\ dir' \in [Svcs -> [made : BOOLEAN, scripts : Nat, link : BOOLEAN]]
      /\ \A t \in Svcs \ {s} : dir'[t] = dir[t]
  <2>1. dir \in [Svcs -> [made : BOOLEAN, scripts : Nat, link : BOOLEAN]]
    BY DEF DirType
  <2>2. \/ dir' = [dir EXCEPT ![s].scripts = 0, ![s].link = FALSE]
        \/ dir' = [dir EXCEPT ![s] = Absent]
        \/ dir' = [dir EXCEPT ![s].scripts = 0]
    BY DEF RemoveScripts, RmRf, s
  <2>3. CASE dir' = [dir EXCEPT ![s].scripts = 0, ![s].link = FALSE]
    BY <1>0, <2>1, <2>3
  <2>4. CASE dir' = [dir EXCEPT ![s] = Absent]
    BY <1>0, <2>1, <2>4 DEF Absent
  <2>5. CASE dir' = [dir EXCEPT ![s].scripts = 0]
    BY <1>0, <2>1, <2>5
  <2> QED BY <2>2, <2>3, <2>4, <2>5
<1>4. /\ sock' \in [Svcs -> 0 .. MaxBuddies + 1]
      /\ \A t \in Svcs \ {s} : sock'[t] = sock[t]
      /\ sock'[s] = sock[s] \/ sock'[s] = None
  <2>1. sock' = sock \/ sock' = [sock EXCEPT ![s] = None]
    BY DEF RemoveScripts, RmRf, s
  <2>2. sock \in [Svcs -> 0 .. MaxBuddies + 1]
    BY DEF DirType
  <2>3. None \in 0 .. MaxBuddies + 1
    BY MaxBuddiesAssumption DEF None
  <2> QED BY <1>0, <2>1, <2>2, <2>3
<1>5. /\ ctl' \in Work /\ ctl'.at \in {"rmrf", "poll"} /\ ctl'.list = ctl.list
      /\ ctl'.at = "rmrf" => ctl'.svc = s
  <2>1. \/ ctl' = [ctl EXCEPT !.at = "rmrf"]
        \/ ctl' = [ctl EXCEPT !.at = "poll", !.svc = ""]
    BY DEF RemoveScripts, RmRf
  <2> QED BY <1>0, <2>1 DEF Work, Removes, s
<1>6. DirType'
  BY <1>0, <1>3, <1>4, <1>5 DEF DirType
<1>7. Furnished' /\ Alone'
  BY <1>0, <1>2, <1>3, DirTouched, QuietKeeps
<1>8. Owners' /\ Members'
  BY <1>0, <1>1, <1>4 DEF Owners, Members, None, Buddy
<1>9. Bound'
  <2> SUFFICES ASSUME NEW b \in Buddy \ stray, buddies[b].st \in Holding
               PROVE  sock'[buddies[b].svc] = b
    BY <1>0 DEF Bound
  <2>1. Live(b)
    BY DEF Live, Starting, Open, Holding
  <2>2. buddies[b].svc \in Svcs \ {s}
    BY <1>0, <2>1 DEF Members, Abandoned
  <2> QED BY <1>4, <2>2 DEF Bound
<1>10. Watched'
  BY <1>5 DEF Watched, Creates
<1>11. AtWork'
  <2>1. \A b \in Buddy : Live(b)' /\ buddies'[b].svc = s => b \in stray'
    BY <1>0, <1>1 DEF Abandoned
  <2> QED BY <1>0, <1>5, <2>1 DEF AtWork, Abandoned, Creates, Removes
<1> QED BY <1>6, <1>7, <1>8, <1>9, <1>10, <1>11

(* The configuration on disk changes. *)
LEMMA ReconfigureInv ==
  ASSUME DirInv, Reconfigure \/ UNCHANGED vars
  PROVE  DirInv'
<1>0. UNCHANGED <<dir, sock, buddies, ctl, stray>> /\ version' \in Versions
  BY DEF Reconfigure, vars, DirInv, DirType
<1>1. DirType' /\ Owners' /\ Members' /\ Furnished' /\ Bound'
  BY <1>0 DEF DirInv, DirType, Owners, Members, Furnished, Bound, Live, Starting, Open
<1>2. Quiet
  BY <1>0 DEF Quiet, Live, Starting, Open
<1>3. Watched' /\ Alone' /\ AtWork'
  BY <1>0, <1>2, QuietKeeps
<1> QED BY <1>1, <1>3 DEF DirInv
-----------------------------------------------------------------------------
(* A step of one buddy, which goes on in its service or ends. *)
LEMMA BuddyKeeps ==
  ASSUME DirInv, NEW b \in Buddy, UNCHANGED <<dir, ctl>>,
         \A a \in Buddy \ {b} : buddies'[a] = buddies[a],
         Live(b)' => /\ Live(b) /\ buddies'[b].svc = buddies[b].svc
                     /\ buddies'[b].version = buddies[b].version
                     /\ b \in stray => b \in stray'
                     /\ Starting(b)' => Starting(b),
         stray \ {b} \subseteq stray'
  PROVE  Furnished' /\ Watched' /\ Alone' /\ AtWork'
<1>1. \A a \in Buddy \ {b} : (Live(a)' <=> Live(a)) /\ (Starting(a)' <=> Starting(a))
  BY DEF Live, Starting, Open
<1>2. Quiet
  BY <1>1 DEF Quiet
<1> QED BY <1>2, QuietKeeps

(* The buddies a step of another one may displace hold the socket. *)
LEMMA DisplacedType ==
  ASSUME DirInv, NEW b \in Buddy, Live(b), NEW a \in Displaced(b)
  PROVE  /\ a \in Buddy /\ a = sock[buddies[b].svc] /\ b \in stray
         /\ buddies[a].st \in Holding /\ Live(a)
<1>1. buddies[b].svc \in Svcs
  BY DEF DirInv, Members
<1>2. b \in stray /\ a = sock[buddies[b].svc] /\ a # None /\ a # Dead
  BY DEF Displaced
<1>3. a \in Buddy
  <2>1. sock[buddies[b].svc] \in 0 .. MaxBuddies + 1
    BY <1>1 DEF DirInv, DirType
  <2> QED BY <1>2, <2>1, MaxBuddiesAssumption DEF Buddy, None, Dead
<1>4. buddies[a].st \in Holding
  BY <1>1, <1>2, <1>3 DEF DirInv, Owners
<1>5. Live(a)
  BY <1>4 DEF Live, Starting, Open, Holding
<1> QED BY <1>2, <1>3, <1>4, <1>5

(* A buddy that removes the file of its socket takes it from nobody but    *)
(* from itself, unless it is lost; then the owner is lost as well.         *)
LEMMA UnlinkKeeps ==
  ASSUME DirInv, NEW b \in Buddy, Live(b),
         sock' = [sock EXCEPT ![buddies[b].svc] = None],
         \A a \in Buddy \ {b} : buddies'[a] = buddies[a],
         buddies'[b].st \notin Holding,
         \A a \in Buddy \ {b} : a \in stray' <=> a \in stray \/ a \in Displaced(b)
  PROVE  /\ sock' \in [Svcs -> 0 .. MaxBuddies + 1]
         /\ Owners' /\ Bound'
         /\ \A a \in Buddy \ {b} :
              /\ Live(a)' => buddies'[a].svc \in Svcs
              /\ a \in stray' => Live(a)'
              /\ buddies'[a].st \in {"closed", "dying"} => a \in stray'
<1> DEFINE s == buddies[b].svc
<1>0. s \in Svcs /\ sock \in [Svcs -> 0 .. MaxBuddies + 1]
  BY DEF DirInv, Members, DirType
<1> HIDE DEF s
<1>1. /\ sock' \in [Svcs -> 0 .. MaxBuddies + 1]
      /\ sock'[s] = None /\ \A t \in Svcs \ {s} : sock'[t] = sock[t]
  <2>1. sock' = [sock EXCEPT ![s] = None]
    BY DEF s
  <2>2. None \in 0 .. MaxBuddies + 1
    BY MaxBuddiesAssumption DEF None
  <2> QED BY <1>0, <2>1, <2>2
<1>2. Owners'
  <2> SUFFICES ASSUME NEW t \in Svcs, sock'[t] \in Buddy
               PROVE  buddies'[sock'[t]].svc = t /\ buddies'[sock'[t]].st \in Holding
    BY DEF Owners
  <2>1. t # s /\ sock'[t] = sock[t]
    BY <1>1 DEF None, Buddy
  <2>2. buddies[sock[t]].svc = t /\ buddies[sock[t]].st \in Holding
    BY <2>1 DEF DirInv, Owners
  <2>3. sock[t] # b
    BY <2>1, <2>2 DEF s
  <2> QED BY <2>1, <2>2, <2>3
<1>3. Bound'
  <2> SUFFICES ASSUME NEW a \in Buddy \ stray', buddies'[a].st \in Holding
               PROVE  sock'[buddies'[a].svc] = a
    BY DEF Bound
  <2>1. a # b /\ buddies'[a] = buddies[a] /\ a \notin stray /\ a \notin Displaced(b)
    OBVIOUS
  <2>2. sock[buddies[a].svc] = a /\ Live(a)
    BY <2>1 DEF DirInv, Bound, Live, Starting, Open, Holding
  <2>3. buddies[a].svc # s
    <3> SUFFICES ASSUME buddies[a].svc = s PROVE FALSE
      OBVIOUS
    <3>1. b \notin stray
      <4>1. a # None /\ a # Dead
        BY MaxBuddiesAssumption DEF None, Dead, Buddy
      <4> QED BY <2>1, <2>2, <4>1 DEF Displaced, s
    <3> QED BY <2>1, <2>2, <3>1 DEF DirInv, Alone, s
  <2>4. buddies[a].svc \in Svcs
    BY <2>2 DEF DirInv, Members
  <2> QED BY <1>1, <2>1, <2>2, <2>3, <2>4
<1>4. ASSUME NEW a \in Buddy \ {b}
      PROVE  /\ Live(a)' => buddies'[a].svc \in Svcs
             /\ a \in stray' => Live(a)'
             /\ buddies'[a].st \in {"closed", "dying"} => a \in stray'
  <2>1. Live(a)' <=> Live(a)
    BY DEF Live, Starting, Open
  <2> QED BY <2>1, DisplacedType DEF DirInv, Members
<1> QED BY <1>1, <1>2, <1>3, <1>4

(* buddy_init_socket before bind(), and the two calls of buddy_cleanup. *)
LEMMA UnlinkInv ==
  ASSUME DirInv, NEW b \in Buddy, BuddyUnlink(b) \/ Cleanup(b) \/ CleanupAgain(b)
  PROVE  DirInv'
<1>0. /\ UNCHANGED <<dir, ctl, version>> /\ Live(b)
      /\ sock' = [sock EXCEPT ![buddies[b].svc] = None]
  BY DEF BuddyUnlink, Cleanup, CleanupAgain, Live, Starting, Open
<1>1. stray \ {b} \subseteq stray' /\ stray' \subseteq Buddy
      /\ \A a \in Buddy \ {b} : a \in stray' <=> a \in stray \/ a \in Displaced(b)
  BY <1>0, DisplacedType DEF BuddyUnlink, Cleanup, CleanupAgain, DirInv, DirType
<1>2. /\ buddies' \in [Buddy -> Process]
      /\ \A a \in Buddy \ {b} : buddies'[a] = buddies[a]
      /\ buddies'[b].st \notin Holding
      /\ Live(b)' => /\ buddies'[b].svc = buddies[b].svc /\ buddies'[b].version = buddies[b].version
                     /\ b \in stray => b \in stray'
                     /\ Starting(b)' => Starting(b)
      /\ b \in stray' => Live(b)'
      /\ buddies'[b].st \in {"closed", "dying"} => b \in stray'
  <2>1. CASE BuddyUnlink(b)
    <3>1. Become(b, "unlinked") /\ buddies[b].st = "forked"
      BY <2>1 DEF BuddyUnlink
    <3>2. /\ buddies' \in [Buddy -> Process]
          /\ buddies'[b].st = "unlinked" /\ buddies'[b].svc = buddies[b].svc
          /\ buddies'[b].version = buddies[b].version
          /\ \A a \in Buddy \ {b} : buddies'[a] = buddies[a]
      BY <3>1, BecomeType DEF DirInv
    <3>3. b \in stray => b \in stray'
      BY <2>1 DEF BuddyUnlink
    <3> QED BY <3>1, <3>2, <3>3 DEF Live, Starting, Open, Holding
  <2>2. CASE Cleanup(b)
    <3>1. PICK st \in {"closed", "dying"} : Become(b, st)
      BY <2>2 DEF Cleanup
    <3>2. /\ buddies' \in [Buddy -> Process]
          /\ buddies'[b].st \in {"closed", "dying"} /\ buddies'[b].svc = buddies[b].svc
          /\ buddies'[b].version = buddies[b].version
          /\ \A a \in Buddy \ {b} : buddies'[a] = buddies[a]
      BY <3>1, BecomeType DEF DirInv
    <3>3. b \in stray'
      BY <2>2 DEF Cleanup
    <3> QED BY <3>2, <3>3 DEF Live, Starting, Open, Holding
  <2>3. CASE CleanupAgain(b)
    <3>1. /\ buddies' = [buddies EXCEPT ![b] = Nobody] /\ b \notin stray'
      BY <2>3 DEF CleanupAgain
    <3>2. /\ buddies' \in [Buddy -> Process]
          /\ buddies'[b] = Nobody
          /\ \A a \in Buddy \ {b} : buddies'[a] = buddies[a]
      <4>1. buddies \in [Buddy -> Process] /\ Nobody \in Process
        BY DEF DirInv, DirType, Nobody, Process
      <4> QED BY <3>1, <4>1
    <3> QED BY <3>1, <3>2 DEF Nobody, Live, Starting, Open, Holding
  <2> QED BY <2>1, <2>2, <2>3
<1>3. Furnished' /\ Watched' /\ Alone' /\ AtWork'
  BY <1>0, <1>1, <1>2, BuddyKeeps
<1>4. /\ sock' \in [Svcs -> 0 .. MaxBuddies + 1]
      /\ Owners' /\ Bound'
      /\ \A a \in Buddy \ {b} :
           /\ Live(a)' => buddies'[a].svc \in Svcs
           /\ a \in stray' => Live(a)'
           /\ buddies'[a].st \in {"closed", "dying"} => a \in stray'
  BY <1>0, <1>1, <1>2, UnlinkKeeps
<1>5. Members'
  <2>1. Live(b)' => buddies'[b].svc \in Svcs
    BY <1>0, <1>2 DEF DirInv, Members
  <2> QED BY <1>2, <1>4, <2>1 DEF Members
<1>6. DirType'
  BY <1>0, <1>1, <1>2, <1>4 DEF DirInv, DirType
<1> QED BY <1>3, <1>4, <1>5, <1>6 DEF DirInv

(* A buddy that ends: nobody else sees a difference, or the file of its    *)
(* socket is one that nobody listens on from now on.                       *)
LEMMA EndsInv ==
  ASSUME DirInv, NEW b \in Buddy, Ends(b), UNCHANGED <<dir, ctl, version>>,
         \/ sock' = sock /\ buddies[b].st \notin Holding
         \/ sock' = [s \in Svcs |-> IF sock[s] = b THEN Dead ELSE sock[s]]
  PROVE  DirInv'
<1> USE DEF DirInv
<1>1. /\ buddies' \in [Buddy -> Process]
      /\ buddies'[b] = Nobody
      /\ \A a \in Buddy \ {b} : buddies'[a] = buddies[a]
      /\ stray' = stray \ {b}
  BY BecomeType DEF Ends
<1>2. ~Live(b)' /\ buddies'[b].st = "dead"
  <2>1. Nobody.st = "dead"
    BY DEF Nobody
  <2>2. buddies'[b].st = "dead"
    BY <1>1, <2>1
  <2> QED BY <2>2 DEF Live, Starting, Open
<1>3. Furnished' /\ Watched' /\ Alone' /\ AtWork'
  BY <1>1, <1>2, BuddyKeeps
<1>4. /\ sock' \in [Svcs -> 0 .. MaxBuddies + 1]
      /\ \A s \in Svcs : /\ sock'[s] = sock[s] \/ (sock[s] = b /\ sock'[s] = Dead)
                         /\ sock'[s] # b
  <2>1. sock \in [Svcs -> 0 .. MaxBuddies + 1]
    BY DEF DirType
  <2>2. Dead \in 0 .. MaxBuddies + 1 /\ Dead # b
    BY MaxBuddiesAssumption DEF Dead, Buddy
  <2>3. CASE sock' = sock /\ buddies[b].st \notin Holding
    BY <2>1, <2>3 DEF Owners
  <2>4. CASE sock' = [s \in Svcs |-> IF sock[s] = b THEN Dead ELSE sock[s]]
    BY <2>1, <2>2, <2>4
  <2> QED BY <2>3, <2>4
<1>5. DirType'
  BY <1>1, <1>4 DEF DirType
<1>6. Owners'
  <2> SUFFICES ASSUME NEW s \in Svcs, sock'[s] \in Buddy
               PROVE  buddies'[sock'[s]].svc = s /\ buddies'[sock'[s]].st \in Holding
    BY DEF Owners
  <2>1. Dead \notin Buddy
    BY MaxBuddiesAssumption DEF Dead, Buddy
  <2>2. sock'[s] = sock[s] /\ sock'[s] # b
    BY <1>4, <2>1
  <2> QED BY <1>1, <2>2 DEF Owners
<1>7. Members'
  <2>1. \A a \in Buddy \ {b} : Live(a)' <=> Live(a)
    BY <1>1 DEF Live, Starting, Open
  <2> QED BY <1>1, <1>2, <2>1 DEF Members
<1>8. Bound'
  <2> SUFFICES ASSUME NEW a \in Buddy \ stray', buddies'[a].st \in Holding
               PROVE  sock'[buddies'[a].svc] = a
    BY DEF Bound
  <2>1. a # b /\ buddies'[a] = buddies[a] /\ a \notin stray
    BY <1>1, <1>2 DEF Holding
  <2>2. sock[buddies[a].svc] = a /\ Live(a)
    BY <2>1 DEF Bound, Live, Starting, Open, Holding
  <2>3. buddies[a].svc \in Svcs
    BY <2>2 DEF Members
  <2> QED BY <1>4, <2>1, <2>2, <2>3
<1> QED BY <1>3, <1>5, <1>6, <1>7, <1>8

(* The end of a buddy that has removed its socket, and of one that is      *)
(* killed.                                                                 *)
LEMMA LeaveInv ==
  ASSUME DirInv, NEW b \in Buddy, Buddycide(b) \/ Killed(b)
  PROVE  DirInv'
BY EndsInv DEF Buddycide, Killed, Holding

(* bind(), listen() and a SIGTERM: the buddy goes on, or ends where the    *)
(* assertion of bind() fails; it takes a socket only where there is none.  *)
LEMMA BindInv ==
  ASSUME DirInv, NEW b \in Buddy, BuddyBind(b) \/ BuddyListen(b) \/ Term(b)
  PROVE  DirInv'
<1> USE DEF DirInv
<1> DEFINE s == buddies[b].svc
<1>0. /\ UNCHANGED <<dir, ctl, version>> /\ Live(b)
      /\ buddies[b].st \in {"unlinked", "bound", "listening"}
  BY DEF BuddyBind, BuddyListen, Term, Live, Starting, Open
<1>1. s \in Svcs /\ sock \in [Svcs -> 0 .. MaxBuddies + 1]
  BY <1>0 DEF Members, DirType
<1>2. CASE Ends(b) /\ UNCHANGED sock /\ buddies[b].st = "unlinked"
  BY <1>0, <1>2, EndsInv DEF Holding
<1>3. ASSUME NEW st \in Holding, Become(b, st), UNCHANGED stray,
             buddies[b].st = "unlinked" => st = "bound",
             buddies[b].st = "bound" => st = "listening",
             buddies[b].st = "listening" => st = "term",
             \/ buddies[b].st = "unlinked" /\ sock[s] = None /\ sock' = [sock EXCEPT ![s] = b]
             \/ buddies[b].st # "unlinked" /\ sock' = sock
      PROVE  DirInv'
  <2>1. /\ buddies' \in [Buddy -> Process]
        /\ buddies'[b].st = st /\ buddies'[b].svc = buddies[b].svc
        /\ buddies'[b].version = buddies[b].version
        /\ \A a \in Buddy \ {b} : buddies'[a] = buddies[a]
    BY <1>3, BecomeType
  <2>2. Live(b)' /\ (Starting(b)' => Starting(b))
    BY <1>0, <1>3, <2>1 DEF Live, Starting, Open, Holding
  <2>3. Furnished' /\ Watched' /\ Alone' /\ AtWork'
    BY <1>0, <1>3, <2>1, <2>2, BuddyKeeps
  <2>4. DirType'
    <3>1. sock' \in [Svcs -> 0 .. MaxBuddies + 1]
      BY <1>1, <1>3, MaxBuddiesAssumption DEF Buddy
    <3> QED BY <1>0, <1>3, <2>1, <3>1 DEF DirType
  <2>5. Owners'
    <3> SUFFICES ASSUME NEW t \in Svcs, sock'[t] \in Buddy
                 PROVE  buddies'[sock'[t]].svc = t /\ buddies'[sock'[t]].st \in Holding
      BY DEF Owners
    <3>1. CASE sock'[t] = b
      <4>1. buddies[b].svc = t
        BY <1>1, <1>3, <3>1 DEF Owners
      <4> QED BY <1>3, <2>1, <3>1, <4>1
    <3>2. CASE sock'[t] # b
      <4>1. sock'[t] = sock[t]
        BY <1>1, <1>3, <3>2
      <4> QED BY <2>1, <3>2, <4>1 DEF Owners
    <3> QED BY <3>1, <3>2
  <2>6. Members'
    <3>1. \A a \in Buddy \ {b} : Live(a)' <=> Live(a)
      BY <2>1 DEF Live, Starting, Open
    <3>2. buddies'[b].st \notin {"closed", "dying"}
      BY <1>3, <2>1 DEF Holding
    <3> QED BY <1>1, <1>3, <2>1, <2>2, <3>1, <3>2 DEF Members
  <2>7. Bound'
    <3> SUFFICES ASSUME NEW a \in Buddy \ stray, buddies'[a].st \in Holding
                 PROVE  sock'[buddies'[a].svc] = a
      BY <1>3 DEF Bound
    <3>1. CASE a = b
      <4>1. CASE buddies[b].st = "unlinked"
        BY <1>1, <1>3, <2>1, <3>1, <4>1
      <4>2. CASE buddies[b].st # "unlinked"
        BY <1>0, <1>3, <2>1, <3>1, <4>2 DEF Bound, Holding
      <4> QED BY <4>1, <4>2
    <3>2. CASE a # b
      <4>1. sock[buddies[a].svc] = a /\ buddies'[a] = buddies[a]
        BY <2>1, <3>2 DEF Bound
      <4>2. buddies[a].svc \in Svcs
        BY <2>1, <3>2 DEF Members, Live, Starting, Open, Holding
      <4>3. a # None
        BY DEF None, Buddy
      <4> QED BY <1>1, <1>3, <4>1, <4>2, <4>3
    <3> QED BY <3>1, <3>2
  <2> QED BY <2>3, <2>4, <2>5, <2>6, <2>7
<1>4. CASE BuddyBind(b)
  <2>1. buddies[b].st = "unlinked"
    BY <1>4 DEF BuddyBind
  <2>2. CASE Ends(b) /\ UNCHANGED sock
    BY <1>2, <2>1, <2>2
  <2>3. CASE sock[s] = None /\ sock' = [sock EXCEPT ![s] = b] /\ Become(b, "bound") /\ UNCHANGED stray
    BY <1>3, <2>1, <2>3 DEF Holding
  <2> QED BY <1>4, <2>2, <2>3 DEF BuddyBind
<1>5. CASE BuddyListen(b)
  BY <1>3, <1>5 DEF BuddyListen, Holding
<1>6. CASE Term(b)
  BY <1>3, <1>6 DEF Term, Holding
<1> QED BY <1>4, <1>5, <1>6
-----------------------------------------------------------------------------
(* The next-state relation keeps the invariant. *)
LEMMA NextDir == DirInv /\ [DirNext]_vars => DirInv'
<1> SUFFICES ASSUME DirInv, [DirNext]_vars PROVE DirInv'
  OBVIOUS
<1>1. DOMAIN buddies = Buddy
  BY DEF DirInv, DirType
<1>2. CASE ControllerStep
  BY <1>2, ReadInv, MakeInv, SpawnInv, GiveUpInv, KillInv, RemoveInv DEF ControllerStep
<1>3. CASE End
  BY <1>3, GiveUpInv
<1>4. CASE Reconfigure \/ UNCHANGED vars
  BY <1>4, ReconfigureInv
<1>5. ASSUME NEW b \in Buddy, BuddyStep(b) \/ Term(b) \/ Killed(b)
      PROVE  DirInv'
  BY <1>5, UnlinkInv, BindInv, LeaveInv DEF BuddyStep
<1> QED BY <1>1, <1>2, <1>3, <1>4, <1>5 DEF DirNext

(* The invariant of the state directories holds in every state. *)
THEOREM DirInductive == DirSpec => []DirInv
<1>1. DirInit => DirInv
  BY InitDir
<1>2. DirInv /\ [DirNext]_vars => DirInv'
  BY NextDir
<1> QED BY <1>1, <1>2, PTL DEF DirSpec

(* A buddy that listens is found through the directory of its service,     *)
(* whatever controllers and buddies have ended (create_buddy_statedir,     *)
(* remove_buddy_statedir, buddy_init_socket, buddy_cleanup).               *)
THEOREM ReachableAlways == DirSpec => []Reachable
<1>1. DirInv => Reachable
  <2> SUFFICES ASSUME DirInv, NEW b \in DOMAIN buddies \ stray, buddies[b].st = "listening"
               PROVE  sock[buddies[b].svc] = b /\ dir[buddies[b].svc].made
    BY DEF Reachable
  <2>1. b \in Buddy \ stray /\ buddies[b].st \in Holding /\ Live(b)
    BY DEF DirInv, DirType, Holding, Live, Open
  <2> QED BY <2>1 DEF DirInv, Bound, Furnished
<1> QED BY <1>1, DirInductive, PTL

(* Nobody rewrites or removes the scripts of a buddy that is starting or   *)
(* running (create_buddy_statedir, remove_buddy_statedir, upk_rm_rf).      *)
THEOREM ScriptsMatchAlways == DirSpec => []ScriptsMatch
<1>1. DirInv => ScriptsMatch
  <2> SUFFICES ASSUME DirInv, NEW b \in DOMAIN buddies \ stray,
                      Starting(b) \/ buddies[b].st = "listening"
               PROVE  dir[buddies[b].svc].scripts = buddies[b].version
    BY DEF ScriptsMatch
  <2>1. b \in Buddy \ stray /\ Live(b)
    BY DEF DirInv, DirType, Live, Open
  <2> QED BY <2>1 DEF DirInv, Furnished
<1> QED BY <1>1, DirInductive, PTL

(* No second buddy is started for a service whose buddy is not lost        *)
(* (create_buddy's look for buddy.sock, spawn_buddy).                      *)
THEOREM OneBuddyAlways == DirSpec => []OneBuddy
<1>1. DirInv => OneBuddy
  <2> SUFFICES ASSUME DirInv, NEW s \in Svcs PROVE Cardinality(BuddiesOf(s) \ stray) <= 1
    BY DEF OneBuddy
  <2> DEFINE B == BuddiesOf(s) \ stray
  <2>1. \A a, b \in B : a = b
    BY DEF BuddiesOf, DirInv, DirType, Alone
  <2>2. CASE B = {}
    BY <2>2, FS_EmptySet
  <2>3. CASE B # {}
    <3>1. PICK b \in B : TRUE
      BY <2>3
    <3>2. B = {b}
      BY <2>1, <3>1
    <3>3. Cardinality(B) = 1
      BY <3>2, FS_Singleton, Zenon
    <3> QED BY <3>3
  <2> QED BY <2>2, <2>3
<1> QED BY <1>1, DirInductive, PTL
=============================================================================
