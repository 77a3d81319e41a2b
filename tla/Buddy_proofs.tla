---------------------------- MODULE Buddy_proofs ----------------------------
(***************************************************************************)
(* Proofs about the supervisor of module Buddy, for any set of process     *)
(* identifiers, any limits, any commands and any combination of faults.    *)
(*                                                                         *)
(* PidTruth is not inductive: while buddy_start_proc runs, the process is  *)
(* there and proc_pid does not name it yet.  Service says where its pid is *)
(* meanwhile (in what buddy_exec_action returned), and StartProtected that *)
(* nothing can be reaped before it gets to its place.  StopHolds needs to  *)
(* know that buddy_start_proc is only ever entered for a service that is   *)
(* to run, which is StartsWanted.                                          *)
(***************************************************************************)
EXTENDS Buddy, FiniteSetTheorems, TLAPS

(* Where the pid of the managed process is. *)
Service ==
  /\ pc \in {"exec", "record"} => proc_pid = 0
  /\ pc = "record" => services = {forked} \cap Pid
  /\ pc # "record" => services = {proc_pid} \cap Pid

(* A process is started only if the last command that says so wants one. *)
StartsWanted ==
  /\ stopped <=> desired_state = "STOPPED"
  /\ pc \in {"start", "exec", "record"} => ~stopped

IInv ==
  /\ TypeOK
  /\ StartProtected
  /\ Service
  /\ StartsWanted

-----------------------------------------------------------------------------
(* The counter of buddy_stop_proc is a uint8_t again after n++. *)
LEMMA CountType == ASSUME NEW c \in 0 .. CounterMod - 1 PROVE Count(c) \in 0 .. CounterMod - 1
BY LimitsAssumption DEF Count

(* rapid_respawn_count stays within its bound. *)
LEMMA RapidType == ASSUME TypeOK PROVE Rapid \in 0 .. MaxRestarts + 1
BY LimitsAssumption DEF TypeOK, Rapid

(* 0 and -1 are not process identifiers. *)
LEMMA NoPid == 0 \notin Pid /\ -1 \notin Pid /\ \A p \in Pid : p > 0
BY PidAssumption

-----------------------------------------------------------------------------
(* The initial state: no process, nothing blocked, nothing to run. *)
LEMMA InitInv == Init => IInv
<1> SUFFICES ASSUME Init PROVE IInv
  OBVIOUS
<1>1. MaxElapsed \in 0 .. MaxElapsed /\ 0 \in 0 .. MaxRestarts + 1 /\ 0 \in 0 .. CounterMod - 1
  BY LimitsAssumption
<1>2. TypeOK
  BY <1>1 DEF Init, TypeOK
<1>3. StartProtected /\ Service
  BY NoPid DEF Init, StartProtected, Service
<1>4. StartsWanted
  BY DEF Init, StartsWanted
<1>5. QED BY <1>2, <1>3, <1>4 DEF IInv

(* The handler, the kernel and the clock keep the invariant. *)
LEMMA WorldInv ==
  ASSUME IInv,
         \/ HandleChld \/ HandleTerm \/ SendTerm \/ Tick
         \/ \E p \in Pid : ChildExit(p)
  PROVE  IInv'
<1> USE DEF IInv
<1>1. CASE HandleChld
  <2>0. chld' \in BOOLEAN
    BY <1>1, Zenon DEF HandleChld
  <2>1. TypeOK'
    BY <1>1, <2>0 DEF HandleChld, TypeOK, limits, history
  <2>2. pc \notin {"exec", "record"}
    BY <1>1 DEF HandleChld, StartProtected
  <2>3. StartProtected' /\ StartsWanted'
    BY <1>1, <2>2 DEF HandleChld, StartProtected, StartsWanted, history
  <2>4. Service'
    BY <1>1, <2>2, NoPid DEF HandleChld, Service, TypeOK
  <2>5. QED BY <2>1, <2>3, <2>4
<1>2. CASE HandleTerm
  <2>0. term' \in BOOLEAN
    BY <1>2, Zenon DEF HandleTerm
  <2>1. TypeOK'
    BY <1>2, <2>0 DEF HandleTerm, TypeOK, limits, kernel, control, history
  <2>2. StartProtected' /\ Service' /\ StartsWanted'
    BY <1>2 DEF HandleTerm, StartProtected, Service, StartsWanted, kernel, control, history
  <2>3. QED BY <2>1, <2>2
<1>3. CASE SendTerm
  BY <1>3 DEF SendTerm, TypeOK, StartProtected, Service, StartsWanted, buddy, limits, kernel, control, history
<1>4. CASE Tick
  BY <1>4, LimitsAssumption
     DEF Tick, TypeOK, StartProtected, Service, StartsWanted, buddy, signal, kernel, control, history
<1>5. ASSUME NEW p \in Pid, ChildExit(p) PROVE IInv'
  BY <1>5 DEF ChildExit, TypeOK, StartProtected, Service, StartsWanted, buddy, limits, control, history
<1>6. QED BY <1>1, <1>2, <1>3, <1>4, <1>5

-----------------------------------------------------------------------------
(* buddy_exec_action for a script leaves the types alone. *)
LEMMA ExecActionType ==
  ASSUME TypeOK, ExecAction
  PROVE  alive' \subseteq Pid /\ mask' \subseteq Signals /\ lapsed' \subseteq {"script", "runaway"}
<1>1. alive' \subseteq Pid /\ mask' \subseteq Signals
  BY DEF TypeOK, ExecAction
<1>2. lapsed' \subseteq {"script", "runaway"}
  BY DEF TypeOK, ExecAction
<1>3. QED BY <1>1, <1>2

(* kill() goes to next, or ends buddy. *)
LEMMA KillType ==
  ASSUME TypeOK, NEW sig \in {"TERM", "KILL"}, NEW next, Kill(sig, next)
  PROVE  doomed' \subseteq Pid /\ term' \in BOOLEAN /\ pc' \in {"dead", next}
<1>1. doomed' \subseteq Pid /\ pc' \in {"dead", next}
  BY DEF TypeOK, Kill
<1>2. term' \in BOOLEAN
  BY Zenon DEF Kill
<1>3. QED BY <1>1, <1>2

-----------------------------------------------------------------------------
(* The event loop and the commands keep the invariant. *)
LEMMA LoopInv ==
  ASSUME IInv, SelectTimeout \/ Command \/ RunOnce \/ Flush \/ HandleFlags \/ ClearFlag
  PROVE  IInv'
<1> USE DEF IInv
<1>1. CASE SelectTimeout \/ RunOnce \/ Flush
  <2>1. TypeOK'
    <3>1. CASE SelectTimeout
      BY <3>1 DEF SelectTimeout, TypeOK, buddy, limits, signal, kernel, history
    <3>2. CASE RunOnce
      BY <3>2 DEF RunOnce, TypeOK, limits, signal, kernel, history
    <3>3. CASE Flush
      BY <3>3 DEF Flush, TypeOK, buddy, limits, signal, kernel, history
    <3>4. QED BY <1>1, <3>1, <3>2, <3>3
  <2>2. StartProtected' /\ Service' /\ StartsWanted'
    BY <1>1 DEF SelectTimeout, RunOnce, Flush, StartProtected, Service, StartsWanted,
                buddy, signal, kernel, history
  <2>3. QED BY <2>1, <2>2
<1>2. CASE Shutdown \/ Stop
  <2>0. stopped' \in BOOLEAN
    BY <1>2, Zenon DEF Shutdown, Stop
  <2>1. TypeOK'
    <3>1. CASE Shutdown
      BY <3>1, <2>0 DEF Shutdown, TypeOK, limits, signal, kernel
    <3>2. CASE Stop
      BY <3>2, <2>0 DEF Stop, TypeOK, limits, signal, kernel
    <3>3. QED BY <1>2, <3>1, <3>2
  <2>2. StartProtected' /\ Service' /\ StartsWanted'
    BY <1>2 DEF Shutdown, Stop, StartProtected, Service, StartsWanted, signal, kernel
  <2>3. QED BY <2>1, <2>2
<1>3. CASE Status
  <2>1. TypeOK'
    BY <1>3 DEF Status, TypeOK, buddy, limits, signal, kernel, history
  <2>2. StartProtected' /\ Service' /\ StartsWanted'
    BY <1>3 DEF Status, StartProtected, Service, StartsWanted, buddy, signal, kernel, history
  <2>3. QED BY <2>1, <2>2
<1>4. ASSUME NEW cmd, NEW state \in {"RUNNING", "RANONCE"}, NEW after \in {"flush", "runonce"},
             Start(cmd, state, after)
      PROVE  IInv'
  <2>1. stopped' \in BOOLEAN
    BY <1>4, Zenon DEF Start
  <2>2. TypeOK'
    BY <1>4, <2>1 DEF Start, TypeOK, limits, signal, kernel
  <2>3. StartProtected' /\ Service'
    BY <1>4 DEF Start, StartProtected, Service, signal, kernel
  <2>4. StartsWanted'
    BY <1>4 DEF Start, StartsWanted
  <2>5. QED BY <2>2, <2>3, <2>4
<1>5. ASSUME NEW cmd, RunScript(cmd) PROVE IInv'
  <2>1. alive' \subseteq Pid /\ mask' \subseteq Signals /\ lapsed' \subseteq {"script", "runaway"}
    BY <1>5, ExecActionType DEF RunScript, TypeOK
  <2>2. TypeOK'
    BY <1>5, <2>1 DEF RunScript, TypeOK, buddy, limits
  <2>3. StartProtected' /\ Service' /\ StartsWanted'
    BY <1>5 DEF RunScript, StartProtected, Service, StartsWanted, buddy
  <2>4. QED BY <2>2, <2>3
<1>6. ASSUME NEW sig \in {"TERM", "KILL"}, Signal(sig) PROVE IInv'
  <2>1. doomed' \subseteq Pid /\ term' \in BOOLEAN /\ pc' \in {"dead", "flush"}
    BY <1>6, KillType DEF Signal
  <2>2. TypeOK'
    BY <1>6, <2>1 DEF Signal, TypeOK, buddy, limits, history
  <2>3. StartProtected' /\ Service' /\ StartsWanted'
    BY <1>6, <2>1 DEF Signal, StartProtected, Service, StartsWanted, buddy, history
  <2>4. QED BY <2>2, <2>3
<1>7. CASE HandleFlags
  <2>1. pc' \in {"exit", "select", "start"} /\ ret' \in {ret, "clear"}
    BY <1>7 DEF HandleFlags
  <2>2. force_ratelimit' \in BOOLEAN
    BY <1>7, Zenon DEF HandleFlags, TypeOK
  <2>3. TypeOK'
    BY <1>7, <2>1, <2>2 DEF HandleFlags, TypeOK, buddy, signal, kernel, history
  <2>4. StartProtected' /\ Service'
    BY <1>7, <2>1 DEF HandleFlags, StartProtected, Service, buddy, kernel
  <2>5. StartsWanted'
    BY <1>7 DEF HandleFlags, StartsWanted, buddy, history
  <2>6. QED BY <2>3, <2>4, <2>5
<1>8. CASE ClearFlag
  <2>1. chld_terminated' \in BOOLEAN
    BY <1>8, Zenon DEF ClearFlag
  <2>2. TypeOK'
    BY <1>8, <2>1 DEF ClearFlag, TypeOK, limits, signal, kernel, history
  <2>3. StartProtected' /\ Service' /\ StartsWanted'
    BY <1>8 DEF ClearFlag, StartProtected, Service, StartsWanted, kernel, history
  <2>4. QED BY <2>2, <2>3
<1>9. CASE Command
  BY <1>2, <1>3, <1>4, <1>5, <1>6, <1>9 DEF Command
<1>10. QED BY <1>1, <1>7, <1>8, <1>9

-----------------------------------------------------------------------------
(* buddy_start_proc keeps the invariant: from the fork to the assignment   *)
(* of proc_pid the pid is in forked, and SIGCHLD is blocked.               *)
LEMMA StartInv ==
  ASSUME IInv, StartEnter \/ StartExec \/ StartRecord
  PROVE  IInv'
<1> USE DEF IInv
<1>1. CASE StartEnter
  <2>1. CASE proc_pid # 0
    <3>1. pc' = ret /\ UNCHANGED <<mask, oldset, rapid_respawns, force_ratelimit, lapsed>>
      BY <1>1, <2>1 DEF StartEnter
    <3>2. TypeOK'
      BY <1>1, <3>1 DEF StartEnter, TypeOK, buddy, kernel
    <3>3. StartProtected' /\ Service' /\ StartsWanted'
      BY <1>1, <3>1 DEF StartEnter, TypeOK, StartProtected, Service, StartsWanted, buddy, kernel
    <3>4. QED BY <3>2, <3>3
  <2>2. CASE proc_pid = 0
    <3>1. pc' \in {"exec", "select", ret} /\ "CHLD" \in mask' /\ mask' \subseteq Signals
      BY <1>1, <2>2 DEF StartEnter, TypeOK, Signals
    <3>2. /\ force_ratelimit' \in BOOLEAN
          /\ lapsed' \subseteq {"script", "runaway"}
      <4>1. force_ratelimit' \in BOOLEAN
        BY <1>1, Zenon DEF StartEnter, TypeOK
      <4>2. lapsed' \subseteq {"script", "runaway"}
        BY <1>1, <2>2 DEF StartEnter, TypeOK
      <4>3. QED BY <4>1, <4>2
    <3>3. rapid_respawns' \in 0 .. MaxRestarts + 1
      BY <1>1, <2>2, RapidType DEF StartEnter
    <3>4. TypeOK'
      BY <1>1, <2>2, <3>1, <3>2, <3>3 DEF StartEnter, TypeOK, buddy, kernel
    <3>5. StartProtected' /\ Service' /\ StartsWanted'
      BY <1>1, <2>2, <3>1 DEF StartEnter, TypeOK, StartProtected, Service, StartsWanted, buddy, kernel
    <3>6. QED BY <3>4, <3>5
  <2>3. QED BY <2>1, <2>2
<1>2. CASE StartExec
  <2>1. services = {}
    BY <1>2, NoPid DEF StartExec, Service
  <2>2. /\ alive' \subseteq Pid /\ mask' \subseteq Signals
        /\ forked' \in Pid \cup {0, -1}
        /\ services' = {forked'} \cap Pid
        /\ "CHLD" \in mask'
    <3>0. alive \subseteq Pid /\ mask \subseteq Signals /\ "CHLD" \in mask
      BY <1>2 DEF StartExec, TypeOK, StartProtected
    <3>1. CASE /\ forked' \in Pid /\ UNCHANGED mask
               /\ alive' = alive \cup {forked'} /\ services' = services \cup {forked'}
      BY <2>1, <3>0, <3>1
    <3>2. CASE forked' = -1 /\ UNCHANGED <<alive, services, mask>>
      BY <2>1, <3>0, <3>2, NoPid
    <3>3. CASE forked' = 0 /\ mask' = Signals /\ UNCHANGED <<alive, services>>
      BY <2>1, <3>0, <3>3, NoPid DEF Signals
    <3>4. QED BY <1>2, <3>1, <3>2, <3>3 DEF StartExec
  <2>0. failed' \in BOOLEAN
    BY <1>2, Zenon DEF StartExec
  <2>3. TypeOK'
    BY <1>2, <2>0, <2>2, SMTT(30) DEF StartExec, TypeOK, buddy, limits
  <2>4. StartProtected' /\ Service' /\ StartsWanted'
    BY <1>2, <2>2 DEF StartExec, StartProtected, Service, StartsWanted, buddy
  <2>5. QED BY <2>3, <2>4
<1>3. CASE StartRecord
  <2>1. TypeOK'
    BY <1>3, LimitsAssumption DEF StartRecord, TypeOK, kernel, history
  <2>2. StartProtected' /\ Service' /\ StartsWanted'
    BY <1>3 DEF StartRecord, TypeOK, StartProtected, Service, StartsWanted, kernel, history
  <2>3. QED BY <2>1, <2>2
<1>4. QED BY <1>1, <1>2, <1>3

-----------------------------------------------------------------------------
(* buddy_stop_proc keeps the invariant, whatever its counter says. *)
LEMMA StopInv ==
  ASSUME IInv, StopProc
  PROVE  IInv'
<1> USE DEF IInv
<1> DEFINE Inside == {"grace", "term", "termkill", "grace2", "kill", "killkill", "dead", ret}
<1>0. Inside \subseteq {"select", "clear", "runonce", "flush", "stop", "grace", "term", "termkill",
                        "grace2", "kill", "killkill", "exit", "cleanup", "free", "dead", "crash"}
  BY DEF TypeOK
<1>1. CASE StopExec
  <2>1. pc' \in Inside
    BY <1>1 DEF StopExec
  <2>2. alive' \subseteq Pid /\ mask' \subseteq Signals /\ lapsed' \subseteq {"script", "runaway"}
    BY <1>1, ExecActionType DEF StopExec, TypeOK
  <2>3. notice' \in {"none", "term", "time"} /\ spent' \in BOOLEAN
    <3>1. notice' \in {"none", "term", "time"}
      BY <1>1 DEF StopExec, TypeOK
    <3>2. spent' \in BOOLEAN
      BY <1>1, Zenon DEF StopExec, TypeOK
    <3>3. QED BY <3>1, <3>2
  <2>4. TypeOK'
    BY <1>1, <1>0, <2>1, <2>2, <2>3 DEF StopExec, TypeOK, buddy, limits
  <2>5. StartProtected' /\ Service' /\ StartsWanted'
    BY <1>1, <1>0, <2>1 DEF StopExec, StartProtected, Service, StartsWanted, buddy
  <2>6. QED BY <2>4, <2>5
<1>2. ASSUME NEW here \in {"grace", "grace2"}, NEW tries, NEW next \in Inside, Wait(here, tries, next)
      PROVE  IInv'
  <2>1. pc' \in Inside
    BY <1>2 DEF Wait
  <2>2. notice' \in {"none", "term", "time"}
    BY <1>2 DEF Wait, Sleep, TypeOK
  <2>3. n' \in 0 .. CounterMod - 1
    BY <1>2, CountType DEF Wait, TypeOK
  <2>4. TypeOK'
    BY <1>2, <1>0, <2>1, <2>2, <2>3 DEF Wait, TypeOK, buddy, limits, signal, kernel
  <2>5. StartProtected' /\ Service' /\ StartsWanted'
    BY <1>2, <1>0, <2>1 DEF Wait, StartProtected, Service, StartsWanted, buddy, kernel
  <2>6. QED BY <2>4, <2>5
<1>3. ASSUME NEW here \in {"term", "kill"}, NEW yes \in Inside, NEW no \in Inside, Check(here, yes, no)
      PROVE  IInv'
  <2>1. pc' \in Inside
    BY <1>3 DEF Check
  <2>2. notice' \in {"none", "term", "time"} /\ spent' \in BOOLEAN
    BY <1>3, Zenon DEF Check, Forget, TypeOK
  <2>3. TypeOK'
    BY <1>3, <1>0, <2>1, <2>2 DEF Check, TypeOK, buddy, limits, signal, kernel
  <2>4. StartProtected' /\ Service' /\ StartsWanted'
    BY <1>3, <1>0, <2>1 DEF Check, StartProtected, Service, StartsWanted, buddy, kernel
  <2>5. QED BY <2>3, <2>4
<1>4. ASSUME NEW here \in {"termkill", "killkill"}, NEW sig \in {"TERM", "KILL"}, NEW next \in Inside,
             StopKill(here, sig, next)
      PROVE  IInv'
  <2>1. doomed' \subseteq Pid /\ term' \in BOOLEAN /\ pc' \in Inside
    BY <1>4, KillType DEF StopKill
  <2>2. notice' \in {"none", "term", "time"} /\ spent' \in BOOLEAN
    BY <1>4, Zenon DEF StopKill, Forget, TypeOK
  <2>3. TypeOK'
    BY <1>4, <1>0, <2>1, <2>2 DEF StopKill, TypeOK, buddy, limits
  <2>4. StartProtected' /\ Service' /\ StartsWanted'
    BY <1>4, <1>0, <2>1 DEF StopKill, StartProtected, Service, StartsWanted, buddy
  <2>5. QED BY <2>3, <2>4
<1>5. QED BY <1>1, <1>2, <1>3, <1>4 DEF StopProc

-----------------------------------------------------------------------------
(* The two ways out keep the invariant. *)
LEMMA EndInv ==
  ASSUME IInv, Exit \/ Cleanup \/ Free
  PROVE  IInv'
<1> USE DEF IInv
<1>1. CASE Exit
  <2>1. mask' \subseteq Signals /\ default' \in BOOLEAN
    BY <1>1 DEF Exit, TypeOK
  <2>2. TypeOK'
    BY <1>1, <2>1 DEF Exit, TypeOK, buddy, limits, kernel, history
  <2>3. StartProtected' /\ Service' /\ StartsWanted'
    BY <1>1 DEF Exit, StartProtected, Service, StartsWanted, buddy, kernel, history
  <2>4. QED BY <2>2, <2>3
<1>2. CASE Cleanup \/ Free
  <2>1. freed' \in BOOLEAN
    BY <1>2 DEF Cleanup, Free, TypeOK
  <2>2. TypeOK'
    <3>1. CASE Cleanup
      BY <3>1, <2>1 DEF Cleanup, TypeOK, buddy, limits, signal, kernel, history
    <3>2. CASE Free
      BY <3>2, <2>1 DEF Free, TypeOK, buddy, limits, signal, kernel, history
    <3>3. QED BY <1>2, <3>1, <3>2
  <2>3. StartProtected' /\ Service' /\ StartsWanted'
    BY <1>2 DEF Cleanup, Free, StartProtected, Service, StartsWanted, buddy, kernel, history
  <2>4. QED BY <2>2, <2>3
<1>3. QED BY <1>1, <1>2

(* A step that changes nothing keeps the invariant. *)
LEMMA StutterInv == ASSUME IInv, UNCHANGED vars PROVE IInv'
<1>1. TypeOK'
  BY DEF IInv, TypeOK, vars, buddy, limits, signal, kernel, control, history
<1>2. StartProtected' /\ Service' /\ StartsWanted'
  BY DEF IInv, StartProtected, Service, StartsWanted, vars, buddy, signal, kernel, control, history
<1>3. QED BY <1>1, <1>2 DEF IInv

-----------------------------------------------------------------------------
(* The invariant is inductive: it holds initially, and every step of       *)
(* buddy, of its signal handler, of the kernel and of the clock keeps it.  *)
THEOREM Inductive == Spec => []IInv
<1>1. Init => IInv
  BY InitInv
<1>2. ASSUME IInv, [Next]_vars PROVE IInv'
  <2>1. CASE Main
    BY <1>2, <2>1, LoopInv, StartInv, StopInv, EndInv DEF Main
  <2>2. CASE HandleChld \/ HandleTerm \/ SendTerm \/ Tick \/ \E p \in Pid : ChildExit(p)
    BY <1>2, <2>2, WorldInv
  <2>3. CASE Terminated \/ UNCHANGED vars
    BY <1>2, <2>3, StutterInv DEF Terminated
  <2>4. QED BY <1>2, <2>1, <2>2, <2>3 DEF Next
<1>3. QED BY <1>1, <1>2, PTL DEF Spec

(* Every variable of buddy keeps its type, the uint8_t counter and the     *)
(* capped restart count included.                                          *)
THEOREM TypeCorrect == Spec => []TypeOK
<1>1. IInv => TypeOK
  BY DEF IInv
<1>2. QED BY <1>1, Inductive, PTL

(* The handler cannot run between the fork of the service and the          *)
(* assignment of proc_pid, on whatever path buddy_start_proc is entered.   *)
THEOREM StartProtectedAlways == Spec => []StartProtected
<1>1. IInv => StartProtected
  BY DEF IInv
<1>2. QED BY <1>1, Inductive, PTL

(* The invariant says of proc_pid what PidTruth asks. *)
LEMMA ServicePid == IInv => PidTruth
<1> SUFFICES ASSUME IInv PROVE PidTruth
  OBVIOUS
<1> USE DEF IInv
<1>1. PICK q : services = {q} \cap Pid
  BY DEF Service
<1>2. services = {} \/ services = {q}
  BY <1>1
<1>3. Cardinality(services) <= 1
  <2>1. CASE services = {}
    BY <2>1, FS_EmptySet
  <2>2. CASE services = {q}
    <3>1. Cardinality({q}) = 1
      BY FS_Singleton
    <3>2. QED BY <2>2, <3>1
  <2>3. QED BY <1>2, <2>1, <2>2
<1>4. proc_pid > 0 => proc_pid \in services
  BY NoPid DEF Service, TypeOK
<1>5. QED BY <1>3, <1>4 DEF PidTruth, Service

(* buddy has at most one process of the start action, and proc_pid names   *)
(* it wherever buddy_start_proc is not between the fork and the            *)
(* assignment: no reused pid, failed fork, missing script or late SIGCHLD  *)
(* makes it lose its process.                                              *)
THEOREM PidTruthAlways == Spec => []PidTruth
<1>1. QED BY ServicePid, Inductive, PTL

(* No process is started between a stop command and the next start         *)
(* command, on any path: the restart of a process that died included.      *)
THEOREM StopHoldsAlways == Spec => StopHolds
<1>1. ASSUME IInv, [Next]_vars
      PROVE  [services' \subseteq services \/ ~stopped]_vars
  <2>1. CASE StartExec
    BY <1>1, <2>1 DEF IInv, StartsWanted, StartExec
  <2>2. CASE Main /\ ~StartExec
    <3>1. CASE SelectTimeout \/ Command \/ RunOnce \/ Flush \/ HandleFlags \/ ClearFlag
      BY <3>1 DEF SelectTimeout, Command, Shutdown, Status, Start, Stop, RunScript, Signal,
                  RunOnce, Flush, HandleFlags, ClearFlag, kernel
    <3>2. CASE StartEnter \/ StartRecord
      BY <3>2 DEF StartEnter, StartRecord, kernel
    <3>3. CASE StopProc
      BY <3>3 DEF StopProc, StopExec, Wait, Check, StopKill, kernel
    <3>4. CASE Exit \/ Cleanup \/ Free
      BY <3>4 DEF Exit, Cleanup, Free, kernel
    <3>5. QED BY <2>2, <3>1, <3>2, <3>3, <3>4 DEF Main
  <2>3. CASE HandleChld \/ HandleTerm \/ SendTerm \/ Tick \/ \E p \in Pid : ChildExit(p)
    BY <2>3 DEF HandleChld, HandleTerm, SendTerm, Tick, ChildExit, kernel
  <2>4. CASE Terminated \/ UNCHANGED vars
    BY <2>4 DEF Terminated
  <2>5. QED BY <1>1, <2>1, <2>2, <2>3, <2>4 DEF Next
<1>2. QED BY <1>1, Inductive, PTL DEF Spec, StopHolds

-----------------------------------------------------------------------------
(* WaitsUnmasked is not inductive either: buddy_start_proc blocks SIGCHLD  *)
(* and puts back what it saved, and commit_buddycide blocks everything and *)
(* never goes back to the event loop.  Masks says what each of them leaves *)
(* blocked, and that the way out is one.                                   *)
Stopping == {"stop", "grace", "term", "termkill", "grace2", "kill", "killkill"}
Leaving == Stopping \cup {"cleanup", "free", "dead", "crash"}

Restored == IF pc \in {"exec", "record"} THEN oldset ELSE mask

Masks ==
  /\ ret = "free" => pc \in Leaving
  /\ default => ret = "free" \/ pc = "cleanup"
  /\ ~default => /\ lapsed = {} => Restored = {}
                 /\ "script" \notin lapsed => "TERM" \notin Restored

(* What a process that is still there has been given, and how far the      *)
(* counter of buddy_stop_proc has come, if it had tries left: SIGTERM      *)
(* leaves it below KillTries, so the second loop sleeps.                   *)
Warned == pc \in {"grace2", "kill", "killkill"} => notice # "none"

Paced ==
  /\ pc = "grace" => n <= KillTries - 2
  /\ pc \in {"term", "termkill"} => n <= KillTries - 1
  /\ pc = "grace2" => n <= KillTries - 1 \/ notice = "time"
  /\ pc \in {"kill", "killkill"} => notice = "time"

Grace == proc_pid # 0 => Warned /\ (Convertible /\ ~spent => Paced)

(* Masks and Grace hold initially. *)
LEMMA InitMasks == Init => Masks /\ Grace
BY DEF Init, Masks, Restored, Grace, Warned, Paced

(* Grace says nothing outside buddy_stop_proc. *)
LEMMA GraceOutside == ASSUME pc' \notin Stopping PROVE Grace'
BY DEF Grace, Warned, Paced, Stopping

(* Within it, it only looks at the counter and at the histories of a stop. *)
LEMMA GraceKept ==
  ASSUME Grace, proc_pid' \in {proc_pid, 0}, UNCHANGED <<kill_timeout, n, notice, spent>>,
         pc' = pc \/ pc' \in {"stop", "crash"}
  PROVE  Grace'
<1>1. CASE pc' = pc
  <2>1. (Warned <=> Warned') /\ (Paced <=> Paced') /\ (Convertible <=> Convertible')
    BY <1>1 DEF Warned, Paced, Convertible
  <2>2. QED BY <2>1 DEF Grace
<1>2. CASE pc' \in {"stop", "crash"}
  BY <1>2 DEF Grace, Warned, Paced
<1>3. QED BY <1>1, <1>2

(* The handler runs only where it is not blocked and changes no mask. *)
LEMMA WorldMasks ==
  ASSUME IInv, Masks, Grace,
         \/ HandleChld \/ HandleTerm \/ SendTerm \/ Tick
         \/ \E p \in Pid : ChildExit(p)
  PROVE  Masks' /\ Grace'
<1>1. CASE HandleChld
  <2>1. Masks'
    <3>1. pc \notin {"exec", "record"} /\ ~default
      BY <1>1 DEF HandleChld, IInv, StartProtected
    <3>2. pc' \in {"crash", pc}
      BY <1>1 DEF HandleChld
    <3>3. UNCHANGED <<ret, mask, oldset, default, lapsed>>
      BY <1>1 DEF HandleChld, history
    <3>4. QED BY <3>1, <3>2, <3>3 DEF Masks, Restored, Leaving
  <2>2. Grace'
    BY <1>1, GraceKept DEF HandleChld, limits, history
  <2>3. QED BY <2>1, <2>2
<1>2. CASE HandleTerm \/ SendTerm
  <2>1. Masks'
    BY <1>2 DEF HandleTerm, SendTerm, Masks, Restored, control, history
  <2>2. Grace'
    BY <1>2, GraceKept DEF HandleTerm, SendTerm, buddy, limits, control, history
  <2>3. QED BY <2>1, <2>2
<1>3. CASE Tick
  <2>1. Masks'
    BY <1>3 DEF Tick, Masks, Restored, signal, control, history
  <2>2. Grace'
    BY <1>3, GraceKept DEF Tick, buddy, control, history
  <2>3. QED BY <2>1, <2>2
<1>4. ASSUME NEW p \in Pid, ChildExit(p) PROVE Masks' /\ Grace'
  <2>1. Masks'
    BY <1>4 DEF ChildExit, Masks, Restored, control, history
  <2>2. Grace'
    BY <1>4, GraceKept DEF ChildExit, buddy, limits, control, history
  <2>3. QED BY <2>1, <2>2
<1>5. QED BY <1>1, <1>2, <1>3, <1>4

(* The event loop leaves the mask alone but for a script that is missing.  *)
LEMMA LoopMasks ==
  ASSUME IInv, Masks, Grace, SelectTimeout \/ Command \/ RunOnce \/ Flush \/ HandleFlags \/ ClearFlag
  PROVE  Masks' /\ Grace'
<1>0. pc \notin Leaving /\ ret # "free" /\ ~default
  BY DEF SelectTimeout, Command, Shutdown, Status, Start, Stop, RunScript, Signal, RunOnce, Flush,
         HandleFlags, ClearFlag, Masks, Leaving, Stopping
<1>1. CASE SelectTimeout \/ RunOnce \/ Flush \/ ClearFlag
  <2>1. pc' \notin Stopping
    BY <1>1 DEF SelectTimeout, RunOnce, Flush, ClearFlag, Stopping
  <2>2. Masks'
    BY <1>0, <1>1 DEF SelectTimeout, RunOnce, Flush, ClearFlag, Masks, Restored, signal, history
  <2>3. QED BY <2>1, <2>2, GraceOutside
<1>2. CASE Shutdown \/ Status \/ Stop
  <2>1. Masks'
    BY <1>0, <1>2 DEF Shutdown, Status, Stop, Masks, Restored, Leaving, Stopping, signal, history
  <2>2. CASE Stop
    BY <2>1, <2>2, GraceKept DEF Stop, limits
  <2>3. CASE Shutdown \/ Status
    <3>1. pc' \notin Stopping
      BY <2>3 DEF Shutdown, Status, Stopping
    <3>2. QED BY <2>1, <3>1, GraceOutside
  <2>4. QED BY <1>2, <2>2, <2>3
<1>3. ASSUME NEW cmd, NEW state \in {"RUNNING", "RANONCE"}, NEW after \in {"flush", "runonce"},
             Start(cmd, state, after)
      PROVE  Masks' /\ Grace'
  <2>1. pc' \notin Stopping
    BY <1>3 DEF Start, Stopping
  <2>2. Masks'
    BY <1>0, <1>3 DEF Start, Masks, Restored, signal
  <2>3. QED BY <2>1, <2>2, GraceOutside
<1>4. ASSUME NEW cmd, RunScript(cmd) PROVE Masks' /\ Grace'
  <2>1. pc' \notin Stopping
    BY <1>4 DEF RunScript, Stopping
  <2>2. \/ UNCHANGED <<mask, lapsed>>
        \/ lapsed' = lapsed \cup {"script"}
    BY <1>4 DEF RunScript, ExecAction
  <2>3. Masks'
    BY <1>0, <1>4, <2>2 DEF RunScript, Masks, Restored
  <2>4. QED BY <2>1, <2>3, GraceOutside
<1>5. ASSUME NEW sig \in {"TERM", "KILL"}, Signal(sig) PROVE Masks' /\ Grace'
  <2>1. pc' \in {"dead", "flush"}
    BY <1>5, KillType DEF Signal, IInv
  <2>2. pc' \notin Stopping
    BY <2>1 DEF Stopping
  <2>3. Masks'
    BY <1>0, <1>5, <2>1 DEF Signal, Masks, Restored, history
  <2>4. QED BY <2>2, <2>3, GraceOutside
<1>6. CASE HandleFlags
  <2>1. pc' \in {"exit", "select", "start"} /\ ret' \in {ret, "clear"}
    BY <1>6 DEF HandleFlags
  <2>2. pc' \notin Stopping
    BY <2>1 DEF Stopping
  <2>3. Masks'
    BY <1>0, <1>6, <2>1 DEF HandleFlags, Masks, Restored, signal, history
  <2>4. QED BY <2>2, <2>3, GraceOutside
<1>7. CASE Command
  BY <1>2, <1>3, <1>4, <1>5, <1>7 DEF Command
<1>8. QED BY <1>1, <1>6, <1>7

(* buddy_start_proc puts back what it found, but for a runaway, for which  *)
(* SIGCHLD stays blocked.                                                  *)
LEMMA StartMasks ==
  ASSUME IInv, Masks, StartEnter \/ StartExec \/ StartRecord
  PROVE  Masks' /\ Grace'
<1>0. pc \notin Leaving /\ ret # "free" /\ ~default
  BY DEF StartEnter, StartExec, StartRecord, Masks, Leaving, Stopping
<1>1. CASE StartEnter
  <2>1. pc' \in {"exec", "select", ret}
    BY <1>1 DEF StartEnter
  <2>2. pc' \notin Stopping
    BY <1>0, <2>1 DEF IInv, TypeOK, Stopping
  <2>3. CASE proc_pid # 0
    BY <1>0, <1>1, <2>2, <2>3, GraceOutside DEF StartEnter, Masks, Restored, IInv, TypeOK
  <2>4. CASE proc_pid = 0
    <3>1. /\ mask' = mask \cup {"CHLD"} /\ oldset' = mask
          /\ UNCHANGED <<ret, default>>
          /\ Restored = mask
      BY <1>1, <2>4 DEF StartEnter, Restored
    <3>2. CASE pc' = "exec"
      <4>1. lapsed' = lapsed /\ Restored' = mask
        BY <1>1, <2>4, <3>1, <3>2, <1>0 DEF StartEnter, Restored, IInv, TypeOK
      <4>2. QED BY <1>0, <2>2, <3>1, <4>1, GraceOutside DEF Masks
    <3>3. CASE pc' # "exec"
      <4>1. lapsed' = lapsed \cup {"runaway"}
        BY <1>1, <2>4, <3>3 DEF StartEnter
      <4>2. Restored' = mask'
        BY <1>0, <2>1, <3>3 DEF Restored, IInv, TypeOK
      <4>3. QED BY <1>0, <2>2, <3>1, <4>1, <4>2, GraceOutside DEF Masks
    <3>4. QED BY <3>2, <3>3
  <2>5. QED BY <2>3, <2>4
<1>2. CASE StartExec
  <2>1. pc' \notin Stopping
    BY <1>2 DEF StartExec, Stopping
  <2>2. Masks'
    BY <1>0, <1>2 DEF StartExec, Masks, Restored
  <2>3. QED BY <2>1, <2>2, GraceOutside
<1>3. CASE StartRecord
  <2>1. pc' \notin Stopping
    BY <1>0, <1>3 DEF StartRecord, IInv, TypeOK, Stopping
  <2>2. Masks'
    BY <1>0, <1>3 DEF StartRecord, Masks, Restored, IInv, TypeOK, history
  <2>3. QED BY <2>1, <2>2, GraceOutside
<1>4. QED BY <1>1, <1>2, <1>3

(* buddy_stop_proc only blocks signals for a script that is missing. *)
LEMMA StopMasks ==
  ASSUME IInv, Masks, StopProc
  PROVE  Masks'
<1>0. pc \in Stopping /\ pc' \in Stopping \cup {"dead", ret}
  BY DEF StopProc, StopExec, Wait, Check, StopKill, Kill, Stopping
<1>1. ret' = ret /\ oldset' = oldset /\ default' = default
  BY DEF StopProc, StopExec, Wait, Check, StopKill, signal
<1>2. "script" \in lapsed' \/ (mask' = mask /\ lapsed' = lapsed)
  BY DEF StopProc, StopExec, ExecAction, Wait, Check, StopKill, signal
<1>3. Restored = mask /\ Restored' = mask'
  BY <1>0 DEF Restored, Stopping, IInv, TypeOK
<1>4. QED BY <1>0, <1>1, <1>2, <1>3 DEF Masks, Leaving, Stopping, IInv, TypeOK

(* SIGKILL is reached with a counter at KillTries, which SIGTERM leaves    *)
(* too low: the difference is slept.                                       *)
LEMMA StopGrace ==
  ASSUME IInv, Grace, StopProc
  PROVE  Grace'
<1> USE LimitsAssumption DEF IInv
<1>0. /\ ret \notin Stopping
      /\ kill_timeout' = kill_timeout /\ proc_pid' = proc_pid
      /\ (Convertible <=> Convertible')
  <2>1. kill_timeout' = kill_timeout /\ proc_pid' = proc_pid
    BY DEF StopProc, StopExec, Wait, Check, StopKill, limits, buddy
  <2>2. QED BY <2>1 DEF TypeOK, Stopping, Convertible
<1>1. CASE StopExec
  <2>1. CASE proc_pid = 0
    BY <1>0, <2>1 DEF Grace
  <2>2. CASE proc_pid # 0
    <3>1. pc' = "grace" /\ n' = n
      BY <1>1, <2>2 DEF StopExec
    <3>2. ~spent' => n \in 0 .. KillTries - 2
      BY <1>1, <2>2, Zenon DEF StopExec
    <3>3. QED BY <3>1, <3>2 DEF Grace, Warned, Paced, TypeOK
  <2>3. QED BY <2>1, <2>2
<1>2. ASSUME NEW c \in 0 .. CounterMod - 1, c <= KillTries - 1 PROVE Count(c) = c + 1
  BY <1>2 DEF Count
<1>3. CASE Wait("grace", TermTries, IF kill_timeout # 0 THEN "term" ELSE ret)
  <2>0. pc = "grace" /\ spent' = spent
    BY <1>3 DEF Wait
  <2>1. CASE proc_pid = 0
    BY <1>0, <2>1 DEF Grace
  <2>2. CASE proc_pid # 0 /\ n < TermTries
    <3>1. Count(n) = n + 1
      BY <1>2, <2>2 DEF TypeOK
    <3>2. n' = n + 1 /\ pc' = "grace"
      BY <1>3, <2>2, <3>1 DEF Wait
    <3>3. QED BY <2>2, <3>2 DEF Grace, Warned, Paced, TypeOK
  <2>3. CASE proc_pid # 0 /\ ~(n < TermTries)
    <3>1. pc' \in {"term", ret} /\ n' = Count(n)
      BY <1>3, <2>3 DEF Wait
    <3>2. Convertible /\ ~spent => n' <= KillTries - 1
      BY <1>2, <2>0, <2>3, <3>1 DEF Grace, Paced, TypeOK
    <3>3. QED BY <1>0, <2>0, <3>1, <3>2 DEF Grace, Warned, Paced, Stopping
  <2>4. QED BY <2>1, <2>2, <2>3
<1>4. CASE Check("term", "termkill", "grace2")
  <2>1. CASE proc_pid = 0
    BY <1>0, <2>1 DEF Grace
  <2>2. CASE proc_pid # 0
    <3>1. pc = "term" /\ pc' = "termkill" /\ UNCHANGED <<n, notice, spent>>
      BY <1>4, <2>2 DEF Check
    <3>2. QED BY <1>0, <2>2, <3>1 DEF Grace, Warned, Paced
  <2>3. QED BY <2>1, <2>2
<1>5. CASE StopKill("termkill", "TERM", "grace2")
  <2>1. pc = "termkill" /\ pc' = "grace2" /\ n' = n /\ spent' = spent /\ notice' = "term"
    BY <1>5 DEF StopKill, Kill
  <2>2. QED BY <1>0, <2>1 DEF Grace, Warned, Paced
<1>6. CASE Wait("grace2", KillTries, "kill")
  <2>0. pc = "grace2" /\ spent' = spent
    BY <1>6 DEF Wait
  <2>1. CASE proc_pid = 0
    BY <1>0, <2>1 DEF Grace
  <2>2. CASE proc_pid # 0 /\ n < KillTries
    <3>1. pc' = "grace2" /\ Sleep
      BY <1>6, <2>2 DEF Wait
    <3>2. notice # "none"
      BY <2>0, <2>2 DEF Grace, Warned
    <3>3. notice' \in {"time", notice} /\ (Convertible => notice' = "time")
      BY <3>1, <3>2 DEF Sleep
    <3>4. QED BY <1>0, <3>1, <3>2, <3>3 DEF Grace, Warned, Paced
  <2>3. CASE proc_pid # 0 /\ ~(n < KillTries)
    <3>1. pc' = "kill" /\ notice' = notice
      BY <1>6, <2>3 DEF Wait
    <3>2. ~(n <= KillTries - 1)
      BY <2>3 DEF TypeOK
    <3>3. QED BY <1>0, <2>0, <3>1, <3>2 DEF Grace, Warned, Paced
  <2>4. QED BY <2>1, <2>2, <2>3
<1>7. CASE Check("kill", "killkill", ret)
  <2>1. CASE proc_pid = 0
    BY <1>0, <2>1 DEF Grace
  <2>2. CASE proc_pid # 0
    <3>1. pc = "kill" /\ pc' = "killkill" /\ UNCHANGED <<n, notice, spent>>
      BY <1>7, <2>2 DEF Check
    <3>2. QED BY <1>0, <2>2, <3>1 DEF Grace, Warned, Paced
  <2>3. QED BY <2>1, <2>2
<1>8. CASE StopKill("killkill", "KILL", ret)
  <2>1. pc' \in {"dead", ret}
    BY <1>8 DEF StopKill, Kill
  <2>2. pc' \notin Stopping
    BY <1>0, <2>1 DEF Stopping
  <2>3. QED BY <2>2, GraceOutside
<1>9. QED BY <1>1, <1>3, <1>4, <1>5, <1>6, <1>7, <1>8 DEF StopProc

(* commit_buddycide blocks everything, and there is no way back. *)
LEMMA EndMasks ==
  ASSUME IInv, Masks, Grace, Exit \/ Cleanup \/ Free
  PROVE  Masks' /\ Grace'
<1>1. CASE Exit
  <2>1. pc' \notin Stopping
    BY <1>1 DEF Exit, Stopping
  <2>2. Masks'
    BY <1>1 DEF Exit, Masks, Restored, Leaving, history
  <2>3. QED BY <2>1, <2>2, GraceOutside
<1>2. CASE Cleanup
  <2>1. pc' \in {"stop", "free"}
    BY <1>2 DEF Cleanup
  <2>2. Masks'
    BY <1>2, <2>1 DEF Cleanup, Masks, Restored, Leaving, Stopping, signal, history
  <2>3. Grace'
    BY <2>1 DEF Grace, Warned, Paced
  <2>4. QED BY <2>2, <2>3
<1>3. CASE Free
  <2>1. pc' \notin Stopping
    BY <1>3 DEF Free, Stopping
  <2>2. Masks'
    BY <1>3 DEF Free, Masks, Restored, Leaving, signal, history
  <2>3. QED BY <2>1, <2>2, GraceOutside
<1>4. QED BY <1>1, <1>2, <1>3

(* Masks and Grace are kept by every step. *)
LEMMA MasksAlways == Spec => [](Masks /\ Grace)
<1>1. ASSUME IInv, Masks /\ Grace, [Next]_vars PROVE (Masks /\ Grace)'
  <2>1. CASE Main
    BY <1>1, <2>1, LoopMasks, StartMasks, StopMasks, StopGrace, EndMasks DEF Main
  <2>2. CASE HandleChld \/ HandleTerm \/ SendTerm \/ Tick \/ \E p \in Pid : ChildExit(p)
    BY <1>1, <2>2, WorldMasks
  <2>3. CASE Terminated \/ UNCHANGED vars
    <3>1. UNCHANGED vars
      BY <2>3 DEF Terminated
    <3>2. Masks'
      BY <1>1, <3>1 DEF Masks, Restored, vars, signal, control, history
    <3>3. Grace'
      BY <1>1, <3>1, GraceKept DEF vars, buddy, limits, control, history
    <3>4. QED BY <3>2, <3>3
  <2>4. QED BY <1>1, <2>1, <2>2, <2>3 DEF Next
<1>2. QED BY <1>1, InitMasks, Inductive, PTL DEF Spec

(* Every path through a command or a restart puts the signal mask back     *)
(* before buddy waits again, whatever fails on it, unless a script is      *)
(* missing or a start is refused as a runaway; and a refused start never   *)
(* leaves SIGTERM blocked.                                                 *)
THEOREM WaitsUnmaskedAlways == Spec => []WaitsUnmasked
<1>1. Masks => WaitsUnmasked
  BY DEF Masks, Restored, WaitsUnmasked, Leaving, Stopping
<1>2. QED BY <1>1, MasksAlways, PTL

(* buddy_stop_proc never sends SIGKILL to a process it has not sent        *)
(* SIGTERM, whatever the timeout; and it sleeps between the two for every  *)
(* timeout that can be converted (the default of -1 cannot), any numbers   *)
(* of tries before the one and the other that leave room for it and any    *)
(* width of the counter that can hold them, as long as no earlier stop has *)
(* used the tries up.                                                      *)
THEOREM GraceBeforeKillAlways == Spec => []GraceBeforeKill
<1>1. IInv /\ Grace => GraceBeforeKill
  BY NoPid DEF IInv, TypeOK, Grace, Warned, Paced, GraceBeforeKill
<1>2. QED BY <1>1, MasksAlways, Inductive, PTL

=============================================================================
