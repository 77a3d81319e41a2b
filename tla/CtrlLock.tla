------------------------------ MODULE CtrlLock ------------------------------
(***************************************************************************)
(* How a controller makes sure that it is the only one (upk_state_init,    *)
(* upk_ctrl_init and upk_ctrl_exit of controller/controller.c): it opens   *)
(* StateDir/.lock, creating it if need be, waits for an exclusive flock()  *)
(* on it, and removes the file when it exits.  The lock belongs to the     *)
(* inode and is released by the kernel when the process ends; exit closes  *)
(* descriptor 0, the static flock_fd, not the one that holds the lock.     *)
(***************************************************************************)
EXTENDS Naturals, FiniteSets

CONSTANTS Controllers,   \* processes that are started as controllers
          MaxInodes      \* bound: lock files created in a behaviour

ASSUME MaxInodesAssumption == MaxInodes \in Nat \ {0}

VARIABLES pc,      \* off, open, locked, run or exit, for every controller
          fd,      \* the inode it has open
          path,    \* the inode StateDir/.lock names, 0 if there is none
          last,    \* the last inode created
          orphaned \* history: was a lock file removed that another one waits on?

lockVars == <<pc, fd, path, last, orphaned>>

LockInit ==
  /\ pc = [c \in Controllers |-> "off"]
  /\ fd = [c \in Controllers |-> 0]
  /\ path = 0
  /\ last = 0
  /\ orphaned = FALSE

Holds(c) == pc[c] \in {"locked", "run", "exit"}

(* open(flockpath, O_CREAT) *)
OpenLock(c) ==
  /\ pc[c] = "off"
  /\ \/ path # 0 /\ UNCHANGED <<path, last>>
     \/ path = 0 /\ last < MaxInodes /\ path' = last + 1 /\ last' = last + 1
  /\ fd' = [fd EXCEPT ![c] = path']
  /\ pc' = [pc EXCEPT ![c] = "open"]
  /\ UNCHANGED orphaned

(* Mutant: LOCK_SH in place of LOCK_EX. *)
MutantFlock(c) ==
  /\ pc[c] = "open"
  /\ pc' = [pc EXCEPT ![c] = "locked"]
  /\ UNCHANGED <<fd, path, last, orphaned>>

(* flock(flock_fd, LOCK_EX) waits until nobody holds the lock of the inode.*)
Flock(c) ==
  /\ pc[c] = "open"
  /\ ~\E d \in Controllers : Holds(d) /\ fd[d] = fd[c]
  /\ pc' = [pc EXCEPT ![c] = "locked"]
  /\ UNCHANGED <<fd, path, last, orphaned>>

(* The exit handler is registered, the databases are opened, buddies are   *)
(* created and the event loop is entered.                                  *)
Run(c) ==
  /\ pc[c] = "locked"
  /\ pc' = [pc EXCEPT ![c] = "run"]
  /\ UNCHANGED <<fd, path, last, orphaned>>

(* upk_ctrl_exit, which runs at every exit() after the lock was taken, the *)
(* ones of upk_fatal included: the database is closed, the file that has   *)
(* the name is removed.  (Should the controller be killed between          *)
(* upk_state_init and atexit, that is End.)                                *)
CtrlExit(c) ==
  /\ pc[c] \in {"locked", "run"}
  /\ path' = 0
  /\ pc' = [pc EXCEPT ![c] = "exit"]
  /\ orphaned' = (orphaned \/ \E d \in Controllers : pc[d] = "open")
  /\ UNCHANGED <<fd, last>>

(* The process is gone, by the end of exit() or killed at any point: its   *)
(* descriptors are closed and its lock is released.                        *)
End(c) ==
  /\ pc[c] # "off"
  /\ pc' = [pc EXCEPT ![c] = "off"]
  /\ fd' = [fd EXCEPT ![c] = 0]
  /\ UNCHANGED <<path, last, orphaned>>

Step(c) == OpenLock(c) \/ Flock(c) \/ Run(c) \/ CtrlExit(c) \/ End(c)

LockNext == \E c \in Controllers : Step(c)

LockSpec == LockInit /\ [][LockNext]_lockVars
-----------------------------------------------------------------------------
(* There is one controller at a time, and two never manage the same        *)
(* buddies and the same databases, whoever was waiting when another one    *)
(* was killed -- as long as no controller exited while another one waited  *)
(* for its lock: the one that waits then gets the lock of a file that has  *)
(* no name any more, and the next one to start makes and locks a new file. *)
OneController ==
  ~orphaned =>
    \A c, d \in Controllers : {pc[c], pc[d]} \subseteq {"locked", "run"} => c = d
=============================================================================
