------------------------------- MODULE Buddy --------------------------------
(***************************************************************************)
(* The supervisor process of one service (controller/buddy.c): the event   *)
(* loop, the commands of the controller, the start and stop of the managed *)
(* process, the signal handler that runs between any two statements whose  *)
(* signals are not blocked, and the two ways out (a shutdown command, and  *)
(* a SIGTERM that ends in commit_buddycide).                               *)
(*                                                                         *)
(* The kernel is part of the model: children that exit become zombies and  *)
(* make SIGCHLD pending (once, however many there are); a pending signal   *)
(* is delivered when it is not blocked; the handler runs to its end, since *)
(* its sa_mask is full.  The ring buffer is module AuditRing; here it only *)
(* matters when it may be touched and whether it is still allocated.       *)
(***************************************************************************)
EXTENDS Integers, FiniteSets

CONSTANTS Pid,             \* process identifiers, reused once reaped
          Inputs,          \* the commands (and SIGTERM) that may arrive
          Faults,          \* what may go wrong around buddy, see FaultKinds
          KillTimeouts,    \* values kill_timeout may have, in tenths of a second
          UserRatelimit,   \* user_ratelimit
          Randomize,       \* randomize_ratelimit
          RunawayRatelimit,\* runaway_ratelimit
          RestartWindow,   \* user_restart_window
          MaxRestarts,     \* user_max_restarts
          TermTries,       \* sleeps of buddy_stop_proc before it sends SIGTERM
          KillTries,       \* value of its counter at which it sends SIGKILL
          CounterMod,      \* the counter is a uint8_t: 256
          MaxElapsed       \* bound: the time since the last start saturates here

Commands == {"SHUTDOWN", "STATUS", "START", "STOP", "RELOAD", "RUNONCE", "CUSTOM", "SIGNAL"}
Signals == {"CHLD", "TERM"}

(* noscript: an action script is missing or not executable; nofork: fork() *)
(* fails when the service is started; race: SIGCHLD is taken between the   *)
(* return of buddy_start_proc and the assignment that follows it.          *)
FaultKinds == {"noscript", "nofork", "race"}

ASSUME PidAssumption == Pid \subseteq Nat \ {0} /\ IsFiniteSet(Pid) /\ Cardinality(Pid) >= 2
ASSUME InputsAssumption == Inputs \subseteq Commands \cup {"TERM"}
ASSUME FaultsAssumption == Faults \subseteq FaultKinds
ASSUME LimitsAssumption ==
  /\ KillTimeouts \subseteq Int
  /\ Randomize \in BOOLEAN
  /\ {UserRatelimit, RunawayRatelimit, RestartWindow, MaxRestarts, MaxElapsed} \subseteq Nat
  /\ {TermTries, KillTries, CounterMod} \subseteq Nat
  /\ TermTries + 1 < KillTries /\ KillTries < CounterMod
  /\ RestartWindow <= MaxElapsed /\ RunawayRatelimit <= MaxElapsed
  /\ 3 * UserRatelimit <= MaxElapsed

VARIABLES kill_timeout,     \* -1 (buddy.c), unless buddy was started with -k
          desired_state,
          proc_pid,         \* 0: none; -1: what a failed fork() returned
          chld_terminated,
          buddy_shutdown,   \* "0", "HUP" or "TERM"
          rapid_respawns,   \* rapid_respawn_count, up to MaxRestarts + 1
          force_ratelimit,
          elapsed,          \* time(NULL) - respawn_timestamp
          n,                \* static n of buddy_stop_proc
          freed,            \* info_ringbuffer = NULL
          mask,             \* blocked signals
          oldset,           \* the mask buddy_start_proc saved
          default,          \* SIG_DFL dispositions, set by commit_buddycide
          pc, ret,          \* where buddy is, and where a called function returns
          forked,           \* what buddy_exec_action returned to buddy_start_proc
          alive, zombie,    \* children of buddy
          chld, term,       \* pending SIGCHLD and SIGTERM
          doomed,           \* children that were sent SIGKILL
          services,         \* history: unreaped processes of the start action
          notice,           \* history: what a stop has given the service: nothing, SIGTERM, time after it
          spent,            \* history: the stop began with the tries used up by an earlier one
          lapsed,           \* history: the early returns that have left signals blocked
          failed,           \* history: the last attempt to fork the service gave no process
          stopped           \* history: no start command since the last stop or shutdown

buddy == <<desired_state, proc_pid, chld_terminated, buddy_shutdown>>
limits == <<kill_timeout, rapid_respawns, force_ratelimit, elapsed>>
signal == <<mask, oldset, default, chld, term>>
kernel == <<alive, zombie, doomed, services>>
control == <<pc, ret, forked>>
history == <<notice, spent, lapsed, failed, stopped>>
vars == <<buddy, limits, n, freed, signal, kernel, control, history>>

Init ==
  /\ kill_timeout \in KillTimeouts
  /\ desired_state = "STOPPED"
  /\ proc_pid = 0
  /\ chld_terminated = FALSE
  /\ buddy_shutdown = "0"
  /\ rapid_respawns = 0
  /\ force_ratelimit = FALSE
  /\ elapsed = MaxElapsed        \* respawn_timestamp = 0
  /\ n = 0
  /\ freed = FALSE
  /\ mask = {} /\ oldset = {} /\ default = FALSE
  /\ pc = "select" /\ ret = "select" /\ forked = 0
  /\ alive = {} /\ zombie = {} /\ doomed = {} /\ services = {}
  /\ chld = FALSE /\ term = FALSE
  /\ notice = "none" /\ spent = FALSE /\ lapsed = {} /\ failed = FALSE /\ stopped = TRUE
-----------------------------------------------------------------------------
(* The world around buddy. *)

Gone == pc \in {"dead", "crash"}

(* A child exits, of itself or because it was killed. *)
ChildExit(p) ==
  /\ p \in alive
  /\ alive' = alive \ {p}
  /\ zombie' = zombie \cup {p}
  /\ doomed' = doomed \ {p}
  /\ chld' = TRUE
  /\ UNCHANGED <<buddy, limits, n, freed, mask, oldset, default, term, services, control, history>>

(* Somebody sends buddy a SIGTERM (or SIGINT). *)
SendTerm ==
  /\ "TERM" \in Inputs
  /\ ~Gone /\ ~term
  /\ term' = TRUE
  /\ UNCHANGED <<buddy, limits, n, freed, mask, oldset, default, chld, kernel, control, history>>

Tick ==
  /\ elapsed < MaxElapsed
  /\ elapsed' = elapsed + 1
  /\ UNCHANGED <<buddy, kill_timeout, rapid_respawns, force_ratelimit, n, freed, signal, kernel, control, history>>

(* Mutant: the handler forgets to set chld_terminated. *)
MutantHandleChldFlag ==
  /\ chld /\ "CHLD" \notin mask /\ ~default /\ ~Gone
  /\ "race" \in Faults \/ pc # "clear"
  /\ chld' = FALSE
  /\ zombie' = {}
  /\ services' = services \ zombie
  /\ proc_pid' = IF proc_pid \in zombie THEN 0 ELSE proc_pid
  /\ UNCHANGED <<desired_state, chld_terminated, buddy_shutdown, limits, n, freed, mask, oldset, default,
                 term, alive, doomed, control, history>>

(* Mutant: the handler forgets to reset proc_pid. *)
MutantHandleChld ==
  /\ chld /\ "CHLD" \notin mask /\ ~default /\ ~Gone
  /\ "race" \in Faults \/ pc # "clear"
  /\ chld' = FALSE
  /\ zombie' = {}
  /\ services' = services \ zombie
  /\ chld_terminated' = (chld_terminated \/ proc_pid \in zombie)
  /\ UNCHANGED <<desired_state, proc_pid, buddy_shutdown, limits, n, freed, mask, oldset, default,
                 term, alive, doomed, control, history>>

(* sa_sigaction_func for SIGCHLD: reap every zombie, note the death of the *)
(* managed process, record each in the ring (which crashes buddy once the  *)
(* ring is freed).                                                         *)
HandleChld ==
  /\ chld /\ "CHLD" \notin mask /\ ~default /\ ~Gone
  /\ "race" \in Faults \/ pc # "clear"
  /\ chld' = FALSE
  /\ zombie' = {}
  /\ services' = services \ zombie
  /\ chld_terminated' = (chld_terminated \/ proc_pid \in zombie)
  /\ proc_pid' = IF proc_pid \in zombie THEN 0 ELSE proc_pid
  /\ pc' = IF freed /\ zombie # {} THEN "crash" ELSE pc
  /\ UNCHANGED <<desired_state, buddy_shutdown, limits, n, freed, mask, oldset, default, term,
                 alive, doomed, ret, forked, history>>

(* sa_sigaction_func for SIGTERM and SIGINT. *)
HandleTerm ==
  /\ term /\ "TERM" \notin mask /\ ~default /\ ~Gone
  /\ term' = FALSE
  /\ buddy_shutdown' = "TERM"
  /\ UNCHANGED <<desired_state, proc_pid, chld_terminated, limits, n, freed, mask, oldset, default,
                 chld, kernel, control, history>>
-----------------------------------------------------------------------------
(* buddy_exec_action and kill. *)

Used == alive \cup zombie

(* buddy_exec_action for every action but start: all signals are blocked   *)
(* around the fork, and stay blocked on the two early returns.  The fork   *)
(* may fail, which nobody looks at.  One pid is kept for the service: the  *)
(* number of running scripts is bounded.                                   *)
ExecAction ==
  \/ /\ \E p \in Pid \ Used :
          /\ Used \cup {p} # Pid
          /\ alive' = alive \cup {p}
     /\ UNCHANGED <<mask, lapsed>>
  \/ UNCHANGED <<alive, mask, lapsed>>
  \/ /\ "noscript" \in Faults
     /\ mask' = Signals
     /\ lapsed' = lapsed \cup {"script"}
     /\ UNCHANGED alive

(* kill(proc_pid, sig): 0 is buddy's own process group, and -1, which a    *)
(* failed fork() returned, is everybody but buddy.                         *)
Kill(sig, next) ==
  /\ doomed' = IF sig # "KILL" THEN doomed
               ELSE doomed \cup (IF proc_pid = -1 THEN alive ELSE {proc_pid} \cap alive)
  /\ term' = (term \/ (sig = "TERM" /\ proc_pid = 0))
  /\ pc' = IF sig = "KILL" /\ proc_pid = 0 THEN "dead" ELSE next
-----------------------------------------------------------------------------
(* buddy_event_loop. *)

(* select() times out or is interrupted. *)
SelectTimeout ==
  /\ pc = "select"
  /\ pc' = "flags"
  /\ UNCHANGED <<buddy, limits, n, freed, signal, kernel, ret, forked, history>>

(* buddy_handle_command. *)
Shutdown ==
  /\ pc = "select" /\ "SHUTDOWN" \in Inputs
  /\ desired_state' = "STOPPED"
  /\ buddy_shutdown' = "HUP"
  /\ pc' = "flush"
  /\ stopped' = TRUE
  /\ UNCHANGED <<proc_pid, chld_terminated, limits, n, freed, signal, kernel, ret, forked, notice, spent, lapsed, failed>>

Status ==
  /\ pc = "select" /\ "STATUS" \in Inputs
  /\ pc' = "flush"
  /\ UNCHANGED <<buddy, limits, n, freed, signal, kernel, ret, forked, history>>

Start(cmd, state, after) ==
  /\ pc = "select" /\ cmd \in Inputs
  /\ desired_state' = state
  /\ pc' = "start"
  /\ stopped' = FALSE
  /\ ret' = after
  /\ UNCHANGED <<proc_pid, chld_terminated, buddy_shutdown, limits, n, freed, signal, kernel, forked, notice, spent, lapsed, failed>>

(* Mutant: desired_state is not changed. *)
MutantStop ==
  /\ pc = "select" /\ "STOP" \in Inputs
  /\ pc' = "stop"
  /\ stopped' = TRUE
  /\ ret' = "flush"
  /\ UNCHANGED <<buddy, limits, n, freed, signal, kernel, forked, notice, spent, lapsed, failed>>

Stop ==
  /\ pc = "select" /\ "STOP" \in Inputs
  /\ desired_state' = "STOPPED"
  /\ pc' = "stop"
  /\ stopped' = TRUE
  /\ ret' = "flush"
  /\ UNCHANGED <<proc_pid, chld_terminated, buddy_shutdown, limits, n, freed, signal, kernel, forked, notice, spent, lapsed, failed>>

(* A reload script runs only for a managed process, a custom one always. *)
RunScript(cmd) ==
  /\ pc = "select" /\ cmd \in Inputs
  /\ IF cmd = "RELOAD" /\ proc_pid = 0 THEN UNCHANGED <<alive, mask, lapsed>> ELSE ExecAction
  /\ pc' = "flush"
  /\ UNCHANGED <<buddy, limits, n, freed, oldset, default, chld, term, zombie, doomed, services, ret, forked, notice, spent, failed, stopped>>

Signal(sig) ==
  /\ pc = "select" /\ "SIGNAL" \in Inputs
  /\ Kill(sig, "flush")
  /\ UNCHANGED <<buddy, limits, n, freed, mask, oldset, default, chld, alive, zombie, services, ret, forked, history>>

Command ==
  \/ Shutdown
  \/ Status
  \/ Start("START", "RUNNING", "flush")
  \/ Start("RUNONCE", "RANONCE", "runonce")
  \/ Stop
  \/ RunScript("RELOAD")
  \/ RunScript("CUSTOM")
  \/ \E sig \in {"TERM", "KILL"} : Signal(sig)

(* The rest of the runonce command. *)
RunOnce ==
  /\ pc = "runonce"
  /\ buddy_shutdown' = "HUP"
  /\ pc' = "flush"
  /\ UNCHANGED <<desired_state, proc_pid, chld_terminated, limits, n, freed, signal, kernel, ret, forked, history>>

(* buddy_flush_ringbuffer answers the command; see AuditRing. *)
Flush ==
  /\ pc = "flush"
  /\ pc' = "flags"
  /\ UNCHANGED <<buddy, limits, n, freed, signal, kernel, ret, forked, history>>
-----------------------------------------------------------------------------
(* buddy_handle_flags. *)

(* What randomize_ratelimit adds to the user's rate limit. *)
Jitter ==
  IF Randomize THEN UserRatelimit .. UserRatelimit + (IF UserRatelimit <= 3 THEN 0 ELSE UserRatelimit \div 2 - 1)
               ELSE {0}

Limited(j) == UserRatelimit > 0 /\ elapsed < UserRatelimit + j
Runaway == force_ratelimit /\ elapsed < RunawayRatelimit

HandleFlags ==
  /\ pc = "flags"
  /\ \/ /\ buddy_shutdown # "0"
        /\ pc' = "exit"
        /\ UNCHANGED <<ret, force_ratelimit>>
     \/ /\ buddy_shutdown = "0"
        /\ ~(chld_terminated /\ desired_state = "RUNNING")
        /\ pc' = "select"
        /\ UNCHANGED <<ret, force_ratelimit>>
     \/ /\ buddy_shutdown = "0"
        /\ chld_terminated /\ desired_state = "RUNNING"
        /\ \E j \in Jitter :
             IF Limited(j) \/ Runaway
               THEN pc' = "select" /\ UNCHANGED <<ret, force_ratelimit>>
               ELSE pc' = "start" /\ ret' = "clear" /\ force_ratelimit' = FALSE
  /\ UNCHANGED <<buddy, kill_timeout, rapid_respawns, elapsed, n, freed, signal, kernel, forked, history>>

(* chld_terminated = false, once buddy_start_proc has returned true. *)
ClearFlag ==
  /\ pc = "clear"
  /\ chld_terminated' = FALSE
  /\ pc' = "select"
  /\ UNCHANGED <<desired_state, proc_pid, buddy_shutdown, limits, n, freed, signal, kernel, ret, forked, history>>
-----------------------------------------------------------------------------
(* buddy_start_proc. *)

Rapid ==
  IF elapsed < RestartWindow
    THEN IF rapid_respawns > MaxRestarts THEN rapid_respawns ELSE rapid_respawns + 1
    ELSE 0

(* Mutant: SIGCHLD is not blocked while the service is forked. *)
MutantStartEnter ==
  /\ pc = "start"
  /\ \/ /\ proc_pid # 0
        /\ pc' = ret
        /\ UNCHANGED <<rapid_respawns, force_ratelimit>>
     \/ /\ proc_pid = 0
        /\ rapid_respawns' = Rapid
        /\ IF Rapid > MaxRestarts
             THEN /\ force_ratelimit' = TRUE
                  /\ pc' = IF ret = "clear" THEN "select" ELSE ret
             ELSE /\ pc' = "exec"
                  /\ UNCHANGED force_ratelimit
  /\ UNCHANGED <<buddy, kill_timeout, elapsed, n, freed, signal, kernel, ret, forked, history>>

(* A process that is already there counts as success; otherwise SIGCHLD is *)
(* blocked, and stays blocked when the start is refused as a runaway.      *)
StartEnter ==
  /\ pc = "start"
  /\ \/ /\ proc_pid # 0
        /\ pc' = ret
        /\ UNCHANGED <<mask, oldset, rapid_respawns, force_ratelimit, lapsed>>
     \/ /\ proc_pid = 0
        /\ oldset' = mask
        /\ mask' = mask \cup {"CHLD"}
        /\ rapid_respawns' = Rapid
        /\ IF Rapid > MaxRestarts
             THEN /\ force_ratelimit' = TRUE
                  /\ lapsed' = lapsed \cup {"runaway"}
                  /\ pc' = IF ret = "clear" THEN "select" ELSE ret
             ELSE /\ pc' = "exec"
                  /\ UNCHANGED <<force_ratelimit, lapsed>>
  /\ UNCHANGED <<buddy, kill_timeout, elapsed, n, freed, default, chld, term, kernel, ret, forked, notice, spent,
                 failed, stopped>>

(* buddy_exec_action for the start script. *)
StartExec ==
  /\ pc = "exec"
  /\ \/ \E p \in Pid \ Used :
          /\ alive' = alive \cup {p}
          /\ services' = services \cup {p}
          /\ forked' = p
          /\ UNCHANGED mask
     \/ /\ "nofork" \in Faults
        /\ forked' = -1
        /\ UNCHANGED <<alive, services, mask>>
     \/ /\ "noscript" \in Faults
        /\ forked' = 0
        /\ mask' = Signals
        /\ UNCHANGED <<alive, services>>
  /\ pc' = "record"
  /\ failed' = (forked' \notin Pid)
  /\ UNCHANGED <<buddy, limits, n, freed, oldset, default, chld, term, zombie, doomed, ret, notice, spent, lapsed, stopped>>

(* Mutant: the old mask is not restored. *)
MutantStartRecord ==
  /\ pc = "record"
  /\ proc_pid' = forked
  /\ elapsed' = 0
  /\ pc' = ret
  /\ UNCHANGED <<desired_state, chld_terminated, buddy_shutdown, kill_timeout, rapid_respawns, force_ratelimit, n, freed,
                 signal, kernel, ret, forked, history>>

(* proc_pid and respawn_timestamp are set, the state is recorded in the    *)
(* ring, the old mask is restored.                                         *)
StartRecord ==
  /\ pc = "record"
  /\ proc_pid' = forked
  /\ elapsed' = 0
  /\ mask' = oldset
  /\ forked' = 0
  /\ pc' = ret
  /\ UNCHANGED <<desired_state, chld_terminated, buddy_shutdown, kill_timeout, rapid_respawns, force_ratelimit, n, freed,
                 oldset, default, chld, term, kernel, ret, history>>
-----------------------------------------------------------------------------
(* buddy_stop_proc. *)

StopExec ==
  /\ pc = "stop"
  /\ IF proc_pid = 0
       THEN pc' = ret /\ UNCHANGED <<alive, mask, lapsed, notice, spent>>
       ELSE pc' = "grace" /\ ExecAction /\ notice' = "none" /\ spent' = (n \notin 0 .. KillTries - 2)
  /\ UNCHANGED <<buddy, limits, n, freed, oldset, default, chld, term, zombie, doomed, services, ret, forked, failed, stopped>>

(* Mutant: the counter is as wide as it needs to be. *)
MutantCount(c) == c + 1

(* Mutant: the counter is not incremented. *)
MutantCountStuck(c) == c

(* n++ for a uint8_t. *)
Count(c) == (c + 1) % CounterMod

(* The timeouts buddy.c:767 converts: it subtracts whole seconds from a    *)
(* float, which is exact up to 2^24, and assigns the fraction, as a number *)
(* of nanoseconds, to a uint32_t.  For a negative fraction, like that of   *)
(* the default -1, the result is undefined, and nanosleep may refuse it.   *)
Convertible == kill_timeout \in 0 .. 2^24 \/ (kill_timeout \in -(2^24) .. -1 /\ kill_timeout % 10 = 0)

(* One nanosleep: after SIGTERM it gives the service time. *)
Sleep ==
  LET slept == IF notice = "none" THEN "none" ELSE "time"
  IN  notice' \in {slept} \cup (IF Convertible THEN {} ELSE {notice})

(* while(proc_pid && n++ < tries) nanosleep(); then go on at next. *)
Wait(here, tries, next) ==
  /\ pc = here
  /\ \/ /\ proc_pid # 0 /\ n < tries
        /\ Sleep
        /\ UNCHANGED pc
     \/ /\ ~(proc_pid # 0 /\ n < tries)
        /\ pc' = next
        /\ UNCHANGED notice
  /\ n' = IF proc_pid # 0 THEN Count(n) ELSE n
  /\ UNCHANGED <<buddy, limits, freed, signal, kernel, ret, forked, spent, lapsed, failed, stopped>>

(* What the histories say of a stop is over with it. *)
Forget == notice' = "none" /\ spent' = FALSE

(* if(proc_pid): the process may be reaped before the kill that follows. *)
Check(here, yes, no) ==
  /\ pc = here
  /\ pc' = IF proc_pid # 0 THEN yes ELSE no
  /\ IF here = "kill" /\ proc_pid = 0 THEN Forget ELSE UNCHANGED <<notice, spent>>
  /\ UNCHANGED <<buddy, limits, n, freed, signal, kernel, ret, forked, lapsed, failed, stopped>>

StopKill(here, sig, next) ==
  /\ pc = here
  /\ Kill(sig, next)
  /\ IF sig = "KILL" THEN Forget ELSE notice' = "term" /\ UNCHANGED spent
  /\ UNCHANGED <<buddy, limits, n, freed, mask, oldset, default, chld, alive, zombie, services, ret, forked,
                 lapsed, failed, stopped>>

(* Mutant: SIGKILL follows SIGTERM at once. *)
MutantStopProc ==
  \/ StopExec
  \/ Wait("grace", TermTries, IF kill_timeout # 0 THEN "term" ELSE ret)
  \/ Check("term", "termkill", "kill")
  \/ StopKill("termkill", "TERM", "kill")
  \/ Check("kill", "killkill", ret)
  \/ StopKill("killkill", "KILL", ret)

StopProc ==
  \/ StopExec
  \/ Wait("grace", TermTries, IF kill_timeout # 0 THEN "term" ELSE ret)
  \/ Check("term", "termkill", "grace2")
  \/ StopKill("termkill", "TERM", "grace2")
  \/ Wait("grace2", KillTries, "kill")
  \/ Check("kill", "killkill", ret)
  \/ StopKill("killkill", "KILL", ret)
-----------------------------------------------------------------------------
(* The end: main returns, or commit_buddycide. *)

Exit ==
  /\ pc = "exit"
  /\ IF buddy_shutdown = "HUP"
       THEN UNCHANGED <<mask, default>>
       ELSE mask' = Signals /\ default' = TRUE
  /\ pc' = "cleanup"
  /\ UNCHANGED <<buddy, limits, n, freed, oldset, chld, term, kernel, ret, forked, history>>

(* Mutant: the managed process is left alone. *)
MutantCleanup ==
  /\ pc = "cleanup"
  /\ pc' = "free"
  /\ ret' = "free"
  /\ UNCHANGED <<buddy, limits, n, freed, signal, kernel, forked, history>>

(* buddy_cleanup: main calls it, and exit() calls it again (atexit). *)
Cleanup ==
  /\ pc = "cleanup"
  /\ pc' = IF proc_pid # 0 THEN "stop" ELSE "free"
  /\ ret' = "free"
  /\ UNCHANGED <<buddy, limits, n, freed, signal, kernel, forked, history>>

Free ==
  /\ pc = "free"
  /\ freed' = TRUE
  /\ pc' = IF default \/ freed THEN "dead" ELSE "cleanup"
  /\ UNCHANGED <<buddy, limits, n, signal, kernel, ret, forked, history>>

Terminated == Gone /\ UNCHANGED vars

Main ==
  \/ SelectTimeout \/ Command \/ RunOnce \/ Flush
  \/ HandleFlags \/ ClearFlag
  \/ StartEnter \/ StartExec \/ StartRecord
  \/ StopProc
  \/ Exit \/ Cleanup \/ Free

Next ==
  \/ Main
  \/ HandleChld \/ HandleTerm
  \/ \E p \in Pid : ChildExit(p)
  \/ SendTerm
  \/ Tick
  \/ Terminated

Spec == Init /\ [][Next]_vars

(* buddy is scheduled, its sleeps and selects end, time passes, the kernel *)
(* delivers signals, and SIGKILL kills.  A SIGTERM is also delivered if it *)
(* is blocked again soon (strong fairness): sigprocmask does not return    *)
(* before a pending signal it has unblocked was delivered.                 *)
Fairness ==
  /\ WF_vars(Main)
  /\ WF_vars(HandleChld)
  /\ SF_vars(HandleTerm)
  /\ WF_vars(Tick)
  /\ \A p \in Pid : WF_vars(p \in doomed /\ ChildExit(p))

FairSpec == Spec /\ Fairness
-----------------------------------------------------------------------------
(* Type invariant. *)
TypeOK ==
  /\ kill_timeout \in KillTimeouts
  /\ desired_state \in {"STOPPED", "RUNNING", "RANONCE"}
  /\ proc_pid \in Pid \cup {0, -1}
  /\ chld_terminated \in BOOLEAN
  /\ buddy_shutdown \in {"0", "HUP", "TERM"}
  /\ rapid_respawns \in 0 .. MaxRestarts + 1
  /\ force_ratelimit \in BOOLEAN
  /\ elapsed \in 0 .. MaxElapsed
  /\ n \in 0 .. CounterMod - 1
  /\ freed \in BOOLEAN
  /\ mask \subseteq Signals /\ oldset \subseteq Signals /\ default \in BOOLEAN
  /\ pc \in {"select", "flags", "clear", "start", "exec", "record", "runonce", "flush", "stop",
             "grace", "term", "termkill", "grace2", "kill", "killkill", "exit", "cleanup",
             "free", "dead", "crash"}
  /\ ret \in {"select", "clear", "runonce", "flush", "free"}
  /\ forked \in Pid \cup {0, -1}
  /\ alive \subseteq Pid /\ zombie \subseteq Pid /\ doomed \subseteq Pid /\ services \subseteq Pid
  /\ chld \in BOOLEAN /\ term \in BOOLEAN
  /\ notice \in {"none", "term", "time"} /\ spent \in BOOLEAN /\ lapsed \subseteq {"script", "runaway"}
  /\ failed \in BOOLEAN /\ stopped \in BOOLEAN

(* buddy never has two processes of the start action, and outside          *)
(* buddy_start_proc proc_pid names the one there is: a death reported      *)
(* before proc_pid is set, or a pid that was reaped and given to another   *)
(* process, cannot make buddy lose its process or signal a foreign one.    *)
PidTruth ==
  /\ Cardinality(services) <= 1
  /\ proc_pid > 0 => proc_pid \in services
  /\ pc # "record" => services = {proc_pid} \cap Pid

(* The ring is never changed by the handler while buddy_start_proc records *)
(* in it, and no wait status is taken between the fork and the assignment  *)
(* of proc_pid.                                                            *)
StartProtected == pc \in {"exec", "record"} => "CHLD" \in mask

(* Every path through a command or a restart puts the signal mask back, so *)
(* that a waiting buddy can be told of a death and can be terminated.  The *)
(* only exceptions are the early returns of buddy_start_proc for a runaway *)
(* (buddy.c:743), after which SIGCHLD is blocked but never SIGTERM, and of *)
(* buddy_exec_action for a script that is missing (buddy.c:650).           *)
WaitsUnmasked ==
  pc = "select" =>
    /\ mask # {} => lapsed # {}
    /\ "TERM" \in mask => "script" \in lapsed

(* Once a stop command is under way no process is started until the next   *)
(* start command, however late deaths are reported.                        *)
StopHolds ==
  [][services' \subseteq services \/ ~stopped]_vars

(* A signal that is pending is blocked while buddy waits: only the early   *)
(* returns named in WaitsUnmasked leave it so.                             *)
Deaf(sig) == pc = "select" /\ sig \in mask /\ IF sig = "CHLD" THEN chld ELSE term

(* A process that died is running again some time later, past both rate    *)
(* limits, unless it is no longer to run, buddy is told to go, or one of   *)
(* three things the code does not recover from has happened: the attempt   *)
(* to start it failed (no script, no fork: buddy.c:343 clears the flag all *)
(* the same), or an early return has left the report of the death blocked. *)
RestartsChild ==
  (desired_state = "RUNNING" /\ services \cap alive = {})
    ~> (\/ services \cap alive # {} \/ desired_state # "RUNNING" \/ buddy_shutdown # "0" \/ Gone
        \/ failed \/ Deaf("CHLD"))

(* A buddy that was told to go terminates and leaves no managed process,   *)
(* also when it cannot run the stop script (a kill_timeout of 0 leaves the *)
(* killing to the script).                                                 *)
ShutdownCompletes ==
  buddy_shutdown # "0" ~> (Gone /\ (services \cap alive = {} \/ kill_timeout = 0))

(* A buddy that is sent SIGTERM terminates, unless a script was missing:   *)
(* the early return of buddy_exec_action (buddy.c:650) has then blocked    *)
(* SIGTERM for good, and buddy waits for commands with it pending.         *)
TermHonoured == term ~> (Gone \/ ("script" \in lapsed /\ Deaf("TERM")))

(* buddy_stop_proc never sends SIGKILL to a process it has not sent        *)
(* SIGTERM, and gives it time after the SIGTERM, on two conditions.  The   *)
(* timeout can be converted: the default of -1, which every buddy started  *)
(* by the controller has, cannot, and for it the two signals may follow    *)
(* one another at once.  And the tries counted by the static n were not    *)
(* used up by an earlier stop, as they are after one that went as far as   *)
(* SIGKILL.                                                                *)
GraceBeforeKill ==
  pc = "killkill" /\ proc_pid \in alive \ doomed =>
    /\ notice # "none"
    /\ Convertible /\ ~spent => notice = "time"
=============================================================================
