----------------------------- MODULE ServiceDir -----------------------------
(***************************************************************************)
(* The state directories of the services (controller/ctrl_buddy.c, the     *)
(* main function of controller_main.c and the start and the end of a       *)
(* buddy, controller/buddy.c).  There is one controller at a time          *)
(* (CtrlLock), which ends at any point and is started again.               *)
(*                                                                         *)
(* A controller that has the lock loads the list of services and, for each *)
(* of them that has no buddy.sock, makes a directory with scripts, links   *)
(* to them and a link to its own socket, and starts a buddy.  From then on *)
(* it polls every directory: one whose buddy it cannot connect to is       *)
(* removed.  A buddy binds buddy.sock some time after it was started and   *)
(* removes it when it leaves; when it is killed the file stays.            *)
(*                                                                         *)
(* One step is one system call, or a run of them that nobody else can see. *)
(* A directory is the version of the configuration its scripts come from   *)
(* (0: none) and whether the links to them are there.                      *)
(***************************************************************************)
EXTENDS Naturals, Sequences, FiniteSets

CONSTANTS SvcLists,     \* the svclist of every version of the configuration, by
                        \* the names of the directories, which are distinct
          MaxBuddies    \* bound: buddies alive at one time

ASSUME MaxBuddiesAssumption == MaxBuddies \in Nat \ {0}

Versions == DOMAIN SvcLists
Svcs == UNION {{SvcLists[v][i] : i \in DOMAIN SvcLists[v]} : v \in Versions}

ASSUME SvcListsAssumption ==
  /\ 1 \in Versions /\ Versions \subseteq Nat
  /\ \A v \in Versions : SvcLists[v] \in Seq(Svcs)

(* upk_config.h:48 demands distinct names; nothing checks it. *)
ASSUME NamesAssumption ==
  \A v \in Versions : \A i, j \in DOMAIN SvcLists[v] : SvcLists[v][i] = SvcLists[v][j] => i = j

VARIABLES dir,     \* the directory of every service: made, scripts, link
          sock,    \* whose socket buddy.sock in it is: a buddy's, Dead or None
          buddies, \* every buddy: its service, version and state
          ctl,     \* what the controller is doing
          version, \* the version of the configuration on disk
          stray    \* history: buddies a controller has lost sight of

vars == <<dir, sock, buddies, ctl, version, stray>>

None == 0
Dead == MaxBuddies + 1
Nobody == [svc |-> "", version |-> 0, st |-> "dead"]

Absent == [made |-> FALSE, scripts |-> 0, link |-> FALSE]

(* No controller.  at is the statement to come, list the svclist it has    *)
(* loaded, i its place in it, stat the type in create_buddy's static       *)
(* struct stat, todo the entries handle_buddies has still to visit and svc *)
(* the one it is removing.                                                 *)
Off == [at |-> "off", list |-> <<>>, version |-> 0, i |-> 1, stat |-> "none", todo |-> {}, svc |-> ""]

DirInit ==
  /\ dir = [s \in Svcs |-> Absent]
  /\ sock = [s \in Svcs |-> None]
  /\ buddies = [b \in 1..MaxBuddies |-> Nobody]
  /\ ctl = Off
  /\ version = 1
  /\ stray = {}

(* A buddy is started, unlinks buddy.sock, binds it, listens, is told to   *)
(* go by the controller or by a signal (term), closes (its socket is gone, *)
(* its process is being stopped) and is dead.                              *)
Starting(b) == buddies[b].st \in {"forked", "unlinked", "bound"}
Open(b) == buddies[b].st \in {"listening", "told", "term"}
Live(b) == Starting(b) \/ Open(b) \/ buddies[b].st \in {"closed", "dying"}

BuddiesOf(s) == {b \in DOMAIN buddies : buddies[b].svc = s /\ Live(b)}

(* connect() succeeds when the file is there and its owner listens. *)
BuddyConnect(s) ==
  /\ sock[s] \in DOMAIN buddies
  /\ Open(sock[s])
-----------------------------------------------------------------------------
(* The controller: upk_ctrl_init and main.                                 *)

(* The lock is taken and upk_load_runtime_services has read the services.  *)
LoadServices ==
  /\ ctl.at = "off"
  /\ ctl' = [Off EXCEPT !.at = "stat", !.list = SvcLists[version], !.version = version]
  /\ UNCHANGED <<dir, sock, buddies, version, stray>>

Creating == ctl.list[ctl.i]

(* Mutant: the test for a socket is missing. *)
MutantCreateBuddy ==
  /\ ctl.at = "stat" /\ ctl.i <= Len(ctl.list)
  /\ ctl' = [ctl EXCEPT !.at = "mkdir"]
  /\ UNCHANGED <<dir, sock, buddies, version, stray>>

(* create_buddy: stat() of a path that does not exist leaves the static    *)
(* buffer as the previous service left it.                                 *)
CreateBuddy ==
  /\ ctl.at = "stat" /\ ctl.i <= Len(ctl.list)
  /\ LET st == IF sock[Creating] # None THEN "sock" ELSE ctl.stat
     IN ctl' = [ctl EXCEPT !.stat = st,
                           !.at = IF st = "sock" THEN "stat" ELSE "mkdir",
                           !.i = IF st = "sock" THEN @ + 1 ELSE @]
  /\ UNCHANGED <<dir, sock, buddies, version, stray>>

(* create_buddy_statedir, the directories: mkdir() of one that exists      *)
(* changes nothing.                                                        *)
MakeDirs ==
  /\ ctl.at = "mkdir"
  /\ dir' = [dir EXCEPT ![Creating].made = TRUE]
  /\ ctl' = [ctl EXCEPT !.at = "scripts"]
  /\ UNCHANGED <<sock, buddies, version, stray>>

(* Mutant: scripts that exist are left alone. *)
MutantWriteScripts ==
  LET s == Creating IN
  /\ ctl.at = "scripts"
  /\ dir' = [dir EXCEPT ![s].scripts = IF @ = 0 THEN ctl.version ELSE @,
                        ![s].link = TRUE]
  /\ ctl' = [ctl EXCEPT !.at = "spawn"]
  /\ UNCHANGED <<sock, buddies, version, stray>>

(* create_buddy_statedir, scripts and links: fopen(..., "w") writes the    *)
(* scripts anew, symlink() fails if there is a link.                       *)
WriteScripts ==
  LET s == Creating IN
  /\ ctl.at = "scripts"
  /\ dir' = [dir EXCEPT ![s].scripts = ctl.version,
                        ![s].link = TRUE]
  /\ ctl' = [ctl EXCEPT !.at = "spawn"]
  /\ UNCHANGED <<sock, buddies, version, stray>>

(* spawn_buddy: fork() may fail, and nobody looks at its result. *)
SpawnBuddy ==
  /\ ctl.at = "spawn"
  /\ \/ \E b \in DOMAIN buddies :
          /\ ~Live(b) /\ \A a \in 1..(b - 1) : Live(a)
          /\ buddies' = [buddies EXCEPT ![b] = [svc |-> Creating, version |-> ctl.version, st |-> "forked"]]
     \/ UNCHANGED buddies
  /\ ctl' = [ctl EXCEPT !.at = "stat", !.i = @ + 1]
  /\ UNCHANGED <<dir, sock, version, stray>>

(* ctrl_sock_setup and ctrl_init: the event loop is entered. *)
EnterLoop ==
  /\ ctl.at = "stat" /\ ctl.i > Len(ctl.list)
  /\ ctl' = [ctl EXCEPT !.at = "poll"]
  /\ UNCHANGED <<dir, sock, buddies, version, stray>>
-----------------------------------------------------------------------------
(* The event loop: handle_buddies.                                         *)

(* opendir(SvcRunPath) *)
OpenDir ==
  /\ ctl.at = "poll" /\ ctl.todo = {}
  /\ \E s \in Svcs : dir[s].made
  /\ ctl' = [ctl EXCEPT !.todo = {s \in Svcs : dir[s].made}]
  /\ UNCHANGED <<dir, sock, buddies, version, stray>>

(* lookup_buddy_from_path *)
Known(s) == \E i \in DOMAIN ctl.list : ctl.list[i] = s

(* Mutant: every entry is taken for a dead one. *)
MutantPoll(s) ==
  /\ ctl.at = "poll" /\ s \in ctl.todo
  /\ ctl' = [ctl EXCEPT !.todo = @ \ {s}, !.svc = s,
                        !.at = IF Known(s) THEN "kill" ELSE "rmrf"]
  /\ stray' = stray \cup {b \in BuddiesOf(s) : ~BuddyConnect(s)}
  /\ UNCHANGED <<dir, sock, buddies, version>>

(* Mutant: a directory whose buddy does not answer is left for later. *)
MutantPollSkip(s) ==
  /\ ctl.at = "poll" /\ s \in ctl.todo
  /\ ctl' = [ctl EXCEPT !.todo = @ \ {s}]
  /\ UNCHANGED <<dir, sock, buddies, version, stray>>

(* One entry of the directory: a buddy that can be connected to is asked   *)
(* for its status (module BuddyLink), any other is taken for dead.         *)
Poll(s) ==
  /\ ctl.at = "poll" /\ s \in ctl.todo
  /\ IF BuddyConnect(s)
     THEN /\ ctl' = [ctl EXCEPT !.todo = @ \ {s}]
          /\ UNCHANGED stray
     ELSE /\ ctl' = [ctl EXCEPT !.todo = @ \ {s}, !.svc = s,
                                !.at = IF Known(s) THEN "kill" ELSE "rmrf"]
          /\ stray' = stray \cup BuddiesOf(s)
  /\ UNCHANGED <<dir, sock, buddies, version>>

(* remove_buddy: kill_buddy connects once more, and may succeed now. *)
KillBuddy ==
  /\ ctl.at = "kill"
  /\ buddies' = IF BuddyConnect(ctl.svc) THEN [buddies EXCEPT ![sock[ctl.svc]].st = "told"] ELSE buddies
  /\ ctl' = [ctl EXCEPT !.at = "strip"]
  /\ UNCHANGED <<dir, sock, version, stray>>

(* remove_buddy_statedir, the links and the scripts. *)
RemoveScripts ==
  /\ ctl.at = "strip"
  /\ dir' = [dir EXCEPT ![ctl.svc].scripts = 0, ![ctl.svc].link = FALSE]
  /\ ctl' = [ctl EXCEPT !.at = "rmrf"]
  /\ UNCHANGED <<sock, buddies, version, stray>>

(* upk_rm_rf of what is left.  A link whose script is gone already makes   *)
(* stat() fail, and the type of the entry is read from a buffer nobody     *)
(* wrote: the link may be taken for a directory and stay.                  *)
RmRf ==
  LET s == ctl.svc IN
  /\ ctl.at = "rmrf"
  /\ \/ dir' = [dir EXCEPT ![s] = Absent]
     \/ dir[s].link /\ dir' = [dir EXCEPT ![s].scripts = 0]
  /\ sock' = [sock EXCEPT ![s] = None]
  /\ ctl' = [ctl EXCEPT !.at = "poll", !.svc = ""]
  /\ UNCHANGED <<buddies, version, stray>>
-----------------------------------------------------------------------------
(* The end of a controller loses every buddy that it has started and that  *)
(* does not listen yet: the next one sees no socket and starts another.    *)
Unseen == {b \in DOMAIN buddies : Starting(b)}

End ==
  /\ ctl.at # "off"
  /\ ctl' = Off
  /\ stray' = stray \cup Unseen
  /\ UNCHANGED <<dir, sock, buddies, version>>

(* Somebody edits the files in SvcConfigPath. *)
Reconfigure ==
  /\ version + 1 \in Versions
  /\ version' = version + 1
  /\ UNCHANGED <<dir, sock, buddies, ctl, stray>>

ControllerStep ==
  \/ LoadServices \/ CreateBuddy \/ MakeDirs \/ WriteScripts \/ SpawnBuddy
  \/ EnterLoop \/ OpenDir \/ KillBuddy \/ RemoveScripts \/ RmRf
  \/ \E s \in Svcs : Poll(s)
-----------------------------------------------------------------------------
(* A buddy.                                                                *)

Become(b, st) == buddies' = [buddies EXCEPT ![b].st = st]

(* The process is gone; the file of its socket may be there still. *)
Ends(b) ==
  /\ buddies' = [buddies EXCEPT ![b] = Nobody]
  /\ stray' = stray \ {b}

(* The buddy that loses its socket to one that nobody sees is lost too. *)
Displaced(b) == IF b \in stray THEN {sock[buddies[b].svc]} \ {None, Dead} ELSE {}

(* buddy_init_socket, unlink *)
BuddyUnlink(b) ==
  /\ buddies[b].st = "forked"
  /\ sock' = [sock EXCEPT ![buddies[b].svc] = None]
  /\ Become(b, "unlinked")
  /\ stray' = stray \cup Displaced(b)
  /\ UNCHANGED <<dir, ctl, version>>

(* buddy_init_socket, bind: without directory, or with a socket that       *)
(* another buddy has bound meanwhile, the assertion fails.                 *)
BuddyBind(b) ==
  LET s == buddies[b].svc IN
  /\ buddies[b].st = "unlinked"
  /\ IF dir[s].made /\ sock[s] = None
     THEN sock' = [sock EXCEPT ![s] = b] /\ Become(b, "bound") /\ UNCHANGED stray
     ELSE UNCHANGED sock /\ Ends(b)
  /\ UNCHANGED <<dir, ctl, version>>

(* buddy_init_socket, listen *)
BuddyListen(b) ==
  /\ buddies[b].st = "bound"
  /\ Become(b, "listening")
  /\ UNCHANGED <<dir, sock, ctl, version, stray>>

(* SIGTERM from outside. *)
Term(b) ==
  /\ buddies[b].st = "listening"
  /\ Become(b, "term")
  /\ UNCHANGED <<dir, sock, ctl, version, stray>>

(* buddy_cleanup removes buddy.sock, whoever has bound it, and then stops  *)
(* the process: nobody can see any more that the buddy is still there.     *)
Cleanup(b) ==
  /\ buddies[b].st \in {"told", "term"}
  /\ sock' = [sock EXCEPT ![buddies[b].svc] = None]
  /\ Become(b, IF buddies[b].st = "told" THEN "closed" ELSE "dying")
  /\ stray' = stray \cup {b} \cup Displaced(b)
  /\ UNCHANGED <<dir, ctl, version>>

(* After a shutdown command main returns, and buddy_cleanup runs again at  *)
(* exit().                                                                 *)
CleanupAgain(b) ==
  /\ buddies[b].st = "closed"
  /\ sock' = [sock EXCEPT ![buddies[b].svc] = None]
  /\ buddies' = [buddies EXCEPT ![b] = Nobody]
  /\ stray' = (stray \cup Displaced(b)) \ {b}
  /\ UNCHANGED <<dir, ctl, version>>

(* After SIGTERM commit_buddycide ends the process by the signal. *)
Buddycide(b) ==
  /\ buddies[b].st = "dying" /\ Ends(b)
  /\ UNCHANGED <<dir, sock, ctl, version>>

(* A buddy is killed: its socket stays. *)
Killed(b) ==
  /\ Live(b) /\ Ends(b)
  /\ sock' = [s \in Svcs |-> IF sock[s] = b THEN Dead ELSE sock[s]]
  /\ UNCHANGED <<dir, ctl, version>>

BuddyStep(b) ==
  \/ BuddyUnlink(b) \/ BuddyBind(b) \/ BuddyListen(b)
  \/ Cleanup(b) \/ CleanupAgain(b) \/ Buddycide(b)

DirNext ==
  \/ ControllerStep \/ End \/ Reconfigure
  \/ \E b \in DOMAIN buddies : BuddyStep(b) \/ Term(b) \/ Killed(b)

(* A process that can go on does: the kernel schedules it.  Nobody has to  *)
(* crash, to exit or to edit the configuration.                            *)
Fairness ==
  /\ WF_vars(ControllerStep)
  /\ \A b \in 1..MaxBuddies : WF_vars(BuddyStep(b))

DirSpec == DirInit /\ [][DirNext]_vars /\ Fairness
-----------------------------------------------------------------------------
(* A service has one buddy: whatever controllers and buddies are killed or *)
(* leave, and whatever they leave behind, no second buddy is started for a *)
(* service that has one, except where a controller ended, or gave up,      *)
(* before the first one listened, or the first one has removed its socket  *)
(* and is stopping its process.                                            *)
OneBuddy ==
  \A s \in Svcs : Cardinality(BuddiesOf(s) \ stray) <= 1

(* A buddy that listens can be reached through the directory of its        *)
(* service, so that every later controller finds it and can tell it to     *)
(* stop: nobody removes or replaces the socket or the directory under it.  *)
Reachable ==
  \A b \in DOMAIN buddies \ stray : buddies[b].st = "listening" =>
    /\ sock[buddies[b].svc] = b
    /\ dir[buddies[b].svc].made

(* From the moment it is started until it leaves, a buddy has the scripts  *)
(* of the configuration it was started for: they are complete before it    *)
(* starts and nobody rewrites or removes them under it.                    *)
ScriptsMatch ==
  \A b \in DOMAIN buddies \ stray : Starting(b) \/ buddies[b].st = "listening" =>
    dir[buddies[b].svc].scripts = buddies[b].version

(* A controller that stays clears what dead buddies left: in the end every *)
(* directory of a service it knows belongs to a buddy that listens.        *)
LeftoversGo ==
  <>[](ctl.at # "off") =>
    <>[](\A s \in Svcs : dir[s].made /\ Known(s) => BuddyConnect(s))
=============================================================================
