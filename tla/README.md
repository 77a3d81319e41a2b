# upkeeper in TLA+

A verification project for upkeeper, a process supervisor: a *controller*
daemon, one small *buddy* daemon per service that starts, watches and restarts
it, a library (`libupkeeper`) with the client protocol, the network code, the
configuration parser and the list macros, and command line clients.

## Inventory

| component | source | state | operations | module |
|---|---|---|---|---|
| supervision of a service | `controller/buddy.c` | desired state, `proc_pid`, `chld_terminated`, `buddy_shutdown`, rate limits, signal mask | nine commands, SIGCHLD / SIGTERM handler, restart, stop with escalation, two ways out | `Buddy` |
| audit ring | `controller/buddy.c` | circular list, `info_ringbuffer`, `ringbuffer_pending`, static buffers of `read_ctrl` / `write_ctrl` | record, clear, flush | `AuditRing`, `AuditQueue` |
| controller-buddy protocol | `controller/buddy.c`, `ctrl_buddy.c` | socket, connection, records and acknowledgements under way | connect, command, record, acknowledge, accept, hang up, phone home | `BuddyLink` |
| list macros | `upkeeper/upk_types.h` | head, tail, thisp, nextp, prevp, count, next pointers | append, prepend, head, foreach, unlink, free | `UpkList`, `ListUse` |
| controller's signals | `controller/ctrl_eventloop.c` | `ctrl_signal_queue` | handler, `handle_signals` | `CtrlSigQueue` |
| controller start and exit | `controller/controller.c` | the lock file | open, flock, load, exit | `CtrlLock`, `CfgDB` |
| connections and packets | `upkeeper/upk_network.c` | list of connections, write queues, `pending_writeq`, read buffer, callback stacks | read, queue, write, dispatch, prune | `ClientSession`, `ListUse` (whole packets), `Wire` (byte stream) |
| messages and serialisers | `upk_protocol*.c`, `upk_v0_protocol*.c` | none (pure) | create, serialise, deserialise, dispatch | `WireFormat` |
| client requests | `controller/ctrl_eventloop.c`, `upk_client_net.c` | preamble flag, serial request with a timeout | request, reply, timeout, disconnect | `ClientSession` |
| state directories | `controller/ctrl_buddy.c` | directories, scripts, links, sockets, buddies | create, spawn, poll, remove | `ServiceDir` |
| configuration | `upk_config.c`, `upk_json.c` | stack of handler tables, three layers | walk, overlay, replace | `SvcDesc`, `ConfigFile`, `CfgStart` |
| configuration database | `controller/ctrl_data.c` | `services`, `svc_options`, `svc_list_options` | look up, insert, upsert, delete | `CfgDB` |
| options, formatting, clients | see `PROJECT.json` | none | | not modelled |

How the parts interact. The controller spawns a buddy per service and talks to
it over a socket in the service's state directory: one connection per command,
on which buddy answers with its whole audit ring, record by record, each
acknowledged. A buddy outlives its controller: it must keep its service
running and its audit trail intact while nobody is connected. Inside buddy the
signal handler shares the ring, `proc_pid` and the flags with the main
program. Inside the controller the handler shares the signal queue with
`handle_signals`; everything else is one event loop. Clients talk to the
controller over a second socket with the packets of `libupkeeper`. At its start
the controller takes the lock, reads its own file and the service files, enters
them in the database and makes a directory and a buddy for every service that
has none; the directories, the sockets in them and the database are what one
controller leaves to the next.

What is hard: a handler that runs between any two statements; signals that the
kernel merges; blocked signals on early returns; socket calls that time out and
leave the result of the previous call in a static variable; a peer that dies or
hangs up between any two messages; list macros whose effect depends on the
cursor an earlier macro left behind; a lock file that is removed while another
process waits on it; directories that two processes make, remove and bind
sockets in without a lock; packets that are read in pieces; several SQL
statements for one service without a transaction; static buffers that a call
without a result leaves as they were. The list, line by line, is under `hazards` in
`PROJECT.json`.

## Modules and how they correspond to the code

`map` in `PROJECT.json` gives the lines of every definition.

**AuditRing.** `slot` is the circular list, `info` is `info_ringbuffer`,
`pending` is `ringbuffer_pending`. An event is its number, an empty node is 0.
`RecordState` is `buddy_record_state` with the `buddy_zero_info` in it and the
advance every caller makes. The flush is one action per socket call, because
what matters is where a call fails: `FlushBegin`, `SkipEmpty`, `WriteCtrl`,
`ReadAck`, `FlushEnd`. A flush blocks all signals, so nothing is recorded while
`pc # "idle"`. `nread`, `nwrote` and `ack` are the *static* variables of
`read_ctrl`, `write_ctrl` and the flush: after a select that times out the
code uses what the previous call left in them. The history variable `late`
says that such a timeout has happened.

**AuditQueue** is what buddy promises: a bounded queue that forgets its oldest
event when it is full and hands the oldest one over when it is confirmed. Once
a controller was late (`Late`) the oldest event may leave unconfirmed: this is
the code's behaviour, and all it may do then. `AuditRing` implements it with
`Contents` for `queue`.

**BuddyLink** puts `AuditRing` between the two ends of a connection and derives
the outcome of each socket call from the other end: an acknowledgement is there
or not, the controller has hung up or not. The controller's session is one
action per call on the socket: `BuddyConnect`, `SendCmd`, `ReadState`,
`WriteAck`, `Close`. Between the read of a record and the write of its
acknowledgement (`ctl` is `acking`, or `lastack` when nothing remains) it may be
killed, and the select for the write may time out, which leaves the record
unacknowledged and ends the session. Sessions are numbered; `cur` is
`buddy_ctrlfd`. The controller waits 10 ms for a record, buddy one second for
an acknowledgement, and either may time out on the other at any point.

**Buddy** is the main program at the granularity of the statements between
which a signal matters, with the kernel next to it: children, zombies, pending
and blocked signals, pids that are reused. `pc` and `ret` are the place in the
code and the return address of `buddy_start_proc` / `buddy_stop_proc`.
`Faults` selects what may go wrong: `noscript` (a script is missing), `nofork`
(fork fails), `race` (a death is reported in the window of `ClearFlag`).
`kill_timeout` is one of `KillTimeouts` and never changes; -1 is what every buddy
started by the controller has. Three history variables name the situations in
which the code is known to break what it otherwise keeps: `lapsed` (which of the
two early returns has left signals blocked: `runaway`, `buddy.c:743`, or
`script`, `buddy.c:650`), `spent` (a stop began with the tries of the static
counter used up by an earlier one) and `failed` (the last attempt to start the
service gave no process). `notice` is what a stop has given the service so far:
nothing, SIGTERM, or time after it.

**ClientSession** has clients with their serial requests and the controller's
rounds: accept, select, one read and one write per connection, unlink what was
closed. Its list of connections and its write queues are values of `UpkList`,
so which packet is written, and which connections survive, is decided by the
same cursors as in the code. Packets are whole here.

**UpkList** has the list macros as functions on a record of the pointers, freed
nodes included (`stale`: a freed node was used). **ListUse** runs them in the
combinations the lists of the program use, next to the sequence the list should
hold; `lost` marks the one combination that loses nodes. **CtrlSigQueue** uses
the same macros for the controller's signal queue, with the handler between the
statements of `handle_signals`; `within` says that a signal came while
`handle_signals` had others to take off, from when on the queue may be corrupt.

**WireFormat** has the messages. Each family of functions of the code (create,
serial, deserial) is a table: for every type of message the fields the function
handles, in its order, so that a field forgotten, added or swapped in one of
them is a difference between tables. A buffer is a sequence of cells; a number
takes two, a bool or a character one, so widths matter as they do in the code.
The macros are functions of one field (`HelperLen`, `PutField`, `Fetch`), applied
to the fields of a table in turn. `IsCall` says what a create function may be
given: strings are shorter than `MaxString` (`UPK_MAX_STRING_LEN`), as the arrays
of the structs make them.
**Wire** sends such packets over a non-blocking stream socket: `WritePackets`
writes a packet whole or in two parts, `ReadPackets` is one call of
`upk_read_packets`, with its three parts (`ReadHeader`, `CheckHeader`,
`ReadPayload`), the counts kept in a `size_t`, the offset every read goes to and
the `errno` that is not reset. `cut` says that a read has found less than it
asked for.

**ServiceDir** is the directory tree by system calls. The controller's part goes
from the load of the service list (`LoadServices`) over `create_buddy` and
`create_buddy_statedir` (`CreateBuddy`, `MakeDirs`, `WriteScripts`,
`SpawnBuddy`) to the polling of `handle_buddies` and the removal of what does
not answer (`OpenDir`, `Poll`, `KillBuddy`, `RemoveScripts`, `RmRf`); it may end
anywhere and start again. A buddy unlinks, binds and listens, removes its socket
and stops its process when it is told to, or is killed and leaves the file. What
a poll says to a buddy that answers is module `BuddyLink`. `stray` are the buddies a controller has
lost sight of: started and not listening when it ended or polled, or closing.
Services are told apart by the name of their directory.

**CtrlLock** has controllers that open, lock, remove and re-create one file
(`orphaned`: an exit has removed the file another one waits on). **SvcDesc** is
the description of a service. **ConfigFile**
has the reading of the configuration as functions: `ParseNode` is the walk over
a JSON value with the stack of handler tables and the pop after every object and
array, `SvcValue` and `CtrlValue` are the handlers, `OverlaySvc`, `OverlayCtrl`,
`ReplaceString` and `FinalizeSvcDesc` make the description used at run time. A text is a sequence of
words. `Expected` is the reference: the option of the highest layer that sets it
(`upk_config.h:217`: a default is used where the service omits something),
without walk, stack or descriptions. `AddedUp` are the options for which the code
does something else (`Together`).

**CfgDB** is a start: a controller that has the lock loads (`Load`), looks each
service up (`InsertCfg`), enters a new one by two statements (`InsertRow`,
`SetPackage`) and works off the others one by one, in their order
(`Statement`; `mem.todo` are the places of those that are left); it is killed
between any two of them, or one fails and nobody notices. `known` and `mistaken`
are histories of which service was given which UUID. What the files say is the
constant `Readings` here, any set of lists of descriptions: nothing the database
does depends on how they were parsed. **CfgStart** gives that constant its
value, the outcomes of the walks of `ConfigFile` over sets of files, and states
what the walks promise (`LayersAgree`). The controller reads its own file before
it takes the lock, so a start that does not survive that file is not among the
readings of a controller that has the lock.

## Runs

Runs that pass show a property on every behaviour within the bounds; runs that
expect a violation show, each with a counterexample, where the code disagrees
with what its own comments promise.

| run | shows | bounds |
|---|---|---|
| `ring` | counter, order, place of the events, end of every flush, and the refinement of `AuditQueue`, for arbitrary results of the socket calls | 3 nodes and 7 events: the ring is overwritten more than twice round, flushed in part and overwritten again |
| `link` | no event is lost between the two ends, acknowledgements match and the answer is complete until an answer was late; commands are handled; sessions end | 2 nodes, 4 events, 3 sessions with hang-ups and timeouts, and a crash of the controller between any two of its calls on the socket, the read of a record and the write of its acknowledgement included: a session cut short, one that finds its remains, and one that waits meanwhile (198,000 states) |
| `stale_ack` | a timed-out acknowledgement is taken as given (violation) | 2 nodes, 2 sessions |
| `supervise` | buddy's idea of its process is right, masks are restored but for two early returns, SIGKILL is never the first signal and never comes at once after SIGTERM (if the timeout can be converted and tries are left), stop holds | `kill_timeout` -1 (the default) and 1; the service and a script, pids reused; all commands and faults; a restart limit of one (3 million states) |
| `live` | a dead service is restarted under rate limits unless a start failed or its death is blocked; SIGTERM is honoured unless a missing script has blocked it; buddy goes and takes its service with it | `kill_timeout` -1 (the default), `Faults = {"noscript", "nofork"}`; rate limits 1 (doubled by the jitter) and 3, time saturates at 3 (417,000 states) |
| `lost_restart` | a death in the window after a restart is forgotten (violation) | `Faults = {"race"}` |
| `lists` | lists hold what was put in | 5 nodes in a behaviour: a list of three, two removals, and appends after them |
| `session` | replies match, leave is taken, the counter is right, requests are answered | 3 clients (two may close behind one that stays), 4 requests in all (one client may make three: preamble, one that times out, the next) |
| `signals` | the controller's queue is faithful, SIGTERM ends it, buddies are reaped | two buddies that die and are replaced, 5 signals at any moment |
| `statedir` | one buddy per service, nothing removed under it, remains are cleared | two services, the first of which the second version of the configuration has lost; two buddies at a time; any number of controllers, crashes and kills (605,000 states) |
| `wire` | messages arrive as they were sent, are never altered, and arrive in the end | one message of each of the 20 types, then two more of four types (no fields, strings, numbers, a bool); a packet in two parts at every place (156,000 states) |
| `database` | one controller, the layers of the configuration, identity and contents of the rows | two controllers, two starts that read the files after any number of crashes, one failed statement before the last start; seven configurations in which a service changes, is joined by another of the same name, goes, comes twice, has a UUID in its file, in which a service file cannot be parsed or has an unknown array, and in which the controller's own file has one (913,000 states) |

Two runs expect a violation; their situations are left out of no passing run
but `live`, whose `Faults` have no `race`. All other exceptions are in the
properties themselves, in terms of the history variables `late`, `lapsed`,
`spent`, `failed`, `lost`, `slow`, `within`, `stray`, `cut`, `orphaned` and
`mistaken` or of the inputs (`Convertible`, `WellFormed`, `OneShort`, `AddedUp`,
`s < taken`), so the runs visit the situations and check everything else in
them. Such an exception is a case in which the code does not keep the property:
the property does not cover it, the notes under `hazards` say so, and each is
listed below under "Where the code deviates". `CfgDB` does not follow the
database any further once the lock file is orphaned.

Bounds in the code that are scaled down: the counter of `buddy_stop_proc` wraps
at `CounterMod` instead of 256, with the thresholds in the same order;
timestamps are the time since the last start, saturated at `MaxElapsed`, which
is at or above every limit they are compared with. `UPK_MAX_PACKET_SIZE` is 64
cells and `UPK_MAX_STRING_LEN` 4, with room for the largest message as in the code
(`WireAssumption`). In `database` the controllers are
interchangeable (symmetry); it checks invariants only. Process identifiers are kept
to the service and one script. `CHECK_DEADLOCK FALSE` stands where all
processes may have ended or the bounded supply of nodes, events or requests is
used up.

### Fairness

`AuditRing!FairSpec`: the flush is straight-line code whose calls all have
timeouts. `BuddyLink!LinkFairSpec`: both processes are scheduled and every wait
of one on the other is a select with a timeout. `Buddy!Fairness`: buddy is
scheduled, its selects and sleeps end, the kernel delivers an unblocked
pending signal, time passes, and a process that was sent SIGKILL dies. For
SIGTERM the fairness is strong, as buddy may block it again and again:
`sigprocmask` does not return before a pending signal it has unblocked was
delivered. Nothing is assumed about when a service dies or a command arrives.
`CtrlSigQueue!SigFairSpec`: every round of the controller's event loop ends.

`ClientSession!SessFairSpec`: the controller goes round its loop. Nothing is
assumed of clients.

`ServiceDir!Fairness`: the controller and every buddy are scheduled; nobody has
to start, crash or edit a file, and `LeftoversGo` speaks of behaviours in which
the last controller stays. `Wire!WireFairness`: both event loops go on; the
fairness of the reader is written out with the one state in which a read changes
nothing. `CfgDB` has no liveness property.

### Where the code deviates from what it says

Shown by a run, and quoted under `findings` in `PROJECT.json`: `stale_ack` and
`lost_restart`. The others below were met while modelling. The models contain
the behaviour; the properties name it as an exception or do not claim the
contrary.

* A command on a connection is dropped unread when another connection waits
  (`buddy.c:400`; the exception `s < taken` of `CommandsHandled`).
* buddy phones home only from inside a flush, so a disconnected buddy lets its
  ring overflow (`buddy.c:1029`, against `buddy.h:28`).
* The early return for a runaway (`buddy.c:743`) leaves SIGCHLD blocked, the one
  for a missing script (`buddy.c:650`) every signal: such a buddy waits for
  commands and ignores SIGTERM (`lapsed`; the exceptions of `WaitsUnmasked`,
  `RestartsChild` and `TermHonoured`).
* A start that failed, because the script is missing or `fork` fails, is not
  tried again: the flag is cleared whatever came of it (`buddy.c:343`; `failed`).
* A `kill_timeout` of -1, the default, does not keep buddy from killing
  (`buddy.c:785`, against `buddy.c:56`, `upk_config.c:126` and
  `docs/html/index.html:120`). Its fraction is a negative float converted to a
  `uint32_t` (`buddy.c:767`), which is undefined: `nanosleep` may refuse the
  result, and SIGKILL follows SIGTERM at once (`Convertible`; for such a timeout
  `GraceBeforeKill` promises only that SIGTERM was sent before).
* The counter of `buddy_stop_proc` is never reset: a stop after one that went as
  far as SIGKILL sends SIGTERM and SIGKILL back to back (`buddy.c:780`; `spent`).
* A signal command without a managed process is `kill(0, ...)` (`buddy.c:876`).
* The ring is freed while the SIGCHLD handler is installed (`buddy.c:436`; the
  state `crash` of `Buddy`).
* Unlinking two neighbours behind a node that stays loses that node
  (`upk_types.h:190`; `lost` in `ListUse` and `ClientSession`).
* `upk_callback_stack_push` overwrites the `next` of the node it has prepended;
  the one caller pushes on an empty stack, where this does no harm
  (`upk_network.c:569`; `PushInitial`).
* `upk_write_packets` sends the packet queued last and loses the ones before
  it; with one request at a time this takes a client that gave up on an earlier
  request (`upk_network.c:425`; `slow`).
* The reply to a request that timed out is taken for the reply to the next
  (`upk_client_net.c:28`; `slow`).
* A client that goes with a reply queued leaves `pending_writeq` above zero for
  good, and the dispatcher spins (`upk_network.c:243`; `PendingCounts` excepts
  it).
* An action that is none of start, stop and reload hands NULL to
  `upk_queue_packet` (`ctrl_eventloop.c:89`; the state `crash` of
  `ClientSession`).
* A signal that arrives while `handle_signals` has others to take off is linked
  in front of the node it follows: a cycle, and lost signals
  (`ctrl_eventloop.c:182`, against the comment at 347; `within`).
* A controller that exits while another waits on its lock file removes the file,
  and a third one locks a new one (`controller.c:135`, against 55; `orphaned`).
* The controller's handler allocates: a signal that interrupts the allocator, or
  arrives while `exit` frees the queue (`ctrl_eventloop.c:193`), meets the
  allocator's lock or freed memory. The models take an allocation as one step.

State directories (`ServiceDir`):

* `create_buddy` keeps its `struct stat` in a static variable that a failing
  `stat` does not write: every service after one that has a socket is skipped
  (`ctrl_buddy.c:48`).
* The socket of a killed buddy stays. The next controller takes it for a running
  buddy, then finds that nobody answers and removes the directory; only the
  controller after that starts the service again.
* A buddy removes its socket before it stops its process (`buddy.c:427`), and
  binds before it listens: a controller that looks meanwhile removes the
  directory or starts a second buddy (`stray`).
* `symlink` does not replace the links of custom actions that have changed, the
  loop over `log/` removes nothing, and `upk_rm_rf` reads the type of a dangling
  link from an uninitialised buffer.
* A directory has the `Name` of its service without the package, so that two
  services of different packages with one name share it. The model has distinct
  names.
* `spawn_buddy` does not look at the result of `fork`.

Packets (`Wire`):

* The counts of `read` and `write` are `size_t`, so that -1 is never below 0; a
  payload that is not there yet makes `n_remaining_read` one too large, and every
  piece is read to the same place (`upk_network.c:473`, `cut`).
* `errno` is reset before the header only: at the end of a file with `EAGAIN`
  left from before, the reader spins.
* `upk_deserialize_packet` returns the packet it has freed when it finds an
  error; the comment in its caller says NULL (`upk_network.c:516`). The model
  ends the process there.

Configuration and database (`ConfigFile`, `CfgStart`, `CfgDB`):

* `upk_db_svc_uuid_lookup` returns the UUID of an earlier call when it finds
  nothing (`ctrl_data.c:174`, against "NULL if not found", 168; `mistaken`).
* With a UUID in the service file, a lookup without a result ends the process in
  `strncmp`, and an equal one is reported as a conflict and nothing is updated;
  such a service never gets a row in `services`.
* A crash between the insertion of a row and the update of its package leaves a
  row without package for good; the service gets another one. The options that
  a file no longer has stay in the database; `Prerequisites` are not stored; all
  `CustomActions` have number 0; options of one byte are stored with the bytes
  behind them.
* The lists of a service, `Provides` and `Prerequisites`, are not replaced by a
  higher layer but appended to those of the lower ones, also where the service
  does not omit them (`upk_config.c:1178` and 1204, against "used whenever an
  individual service omits something", `upk_config.h:217`; the exception
  `AddedUp` of `LayersAgree`, which says what they are instead).
* A replacement one character shorter than its placeholder leaves a `)` behind
  (`upk_util.c:86`; the exception `OneShort` of `LayersAgree`).
* `PipeStderrScript` in a higher layer frees `PipeStdoutScript`
  (`upk_config.c:1312`), `BuddyVerbosity` is never carried over, and the sockets
  stay under the default `StateDir`.
* An unknown array or object in a service pops the table of the service, and the
  rest of the file goes to the wrong handlers (`upk_json.c:401`); the controller
  does not survive it (`WellFormed`).

## Proofs

A theorem holds for every value of the constants the assumptions of its module
allow; every inductive invariant was checked with TLC on the instance of its run
before it was proved (the one of `Recorded` with one controller and three of the
configurations, the one of `Intact` with its existential quantifiers replaced
by their witnesses). What is proved of a specification with fairness is proved
of its safety part.

### The ring and the conversation (`BuddyLink_proofs`)

About `AuditRing`, for every `RingSize > 0` and every `MaxRecords`, whatever the
socket calls return:

* `TypeCorrect`, `WindowAlways`, `OldestFirstAlways`, `OverwrittenAlways`,
  `PendingExactAlways`: the five invariants of run `ring`;
* `Refinement`: `Spec => QueueSpec`.

The argument. `Window` describes the whole ring: seen backwards from the node
written next (`Base`), the first `pending` nodes hold the `pending` most recent
events and the rest are empty. It is not inductive: during a flush the node
that is cleared has to be the oldest. So the invariant `IInv` adds `FlushPos`:
in the walk the flush is `k >= pending` nodes before the node it started from,
it waits for an acknowledgement only at `k = pending`, and it ends at its
start. It also needs `pending <= recorded` (an event in the window has a
positive number) and the type invariant. `RecordState` advances the base by one
node and overwrites the node a whole round back, which is populated exactly
when `pending = RingSize` (`ClearedAtBase`); `ReadAck` clears the far end of the
window (`AtAck`). The six lemmas on `Back` and `Succ` carry the modular
arithmetic. `PendingExact` follows because `k |-> Back(Base, k)` is a bijection
from `1 .. pending` to the populated nodes. For the refinement `Contents` is
brought to the closed form `Recent(pending, recorded)`, the run of consecutive
numbers that ends at `recorded`; `RecordState` is then `Record`, an
acknowledgement that was read is `Confirm`, a socket call that timed out is
`Late`, and all other steps stutter. The assumptions are `RingSizeAssumption`
and `MaxRecordsAssumption`; run `stale_ack` shows that `Late` must be allowed
to take an event.

About `BuddyLink`, for any number of connections as well:

* `LinkImplementsRing`: `LinkSpec => Spec`. Every step of the conversation is a
  step of the ring or leaves it alone, because what a controller makes of a
  socket call is among the outcomes `AuditRing` allows. So all of the above
  carries over, and `LinkImplementsQueue` (`LinkSpec => QueueSpec`) with it;
* `DeliveredAlways`, `AckMatchesAlways`, `CommandsHandledAlways`, and the action
  property `AnswerCompleteAlways`.

`Delivered` is not inductive: that an event may be cleared depends on the
acknowledgement under way being one for it. `LinkInv` adds which connection the
bytes under way belong to (`Sessions`, `Connection`), why a connection was closed
(`Explained`), and `Exchange`: as long as no select of a flush timed
out, what is under way is the one record buddy waits for, or its acknowledgement,
or nothing; and while the controller has a record it has not acknowledged yet,
that record is the one buddy waits for.

### The supervisor (`Buddy_proofs`)

For any set of process identifiers, any limits, any commands and any combination
of faults:

* `PidTruthAlways`: at most one process of the start action, named by
  `proc_pid` outside `buddy_start_proc`;
* `StartProtectedAlways`: `SIGCHLD` is blocked from the fork to the assignment;
* `StopHoldsAlways`: no start between a stop and the next start command (an
  action property);
* `WaitsUnmaskedAlways`, `GraceBeforeKillAlways`;
* `TypeCorrect`.

The argument. `PidTruth` is not inductive: between the fork and the assignment
of `proc_pid` the process is there and `proc_pid` is 0. `Service` says that its
pid is in `forked` meanwhile, and that `proc_pid` is 0 when the fork happens, so
that the process is the only one. The handler is the only other code that
touches `proc_pid`; `StartProtected` keeps it out of that window. `StopHolds`
rests on `StartsWanted`: `buddy_start_proc` runs only when `desired_state` is
not `STOPPED`, which is so from a start command to the next stop. `IInv` is the
conjunction of the three with the type invariant, and is kept by each group of
actions: `WorldInv` (handler, kernel, clock), `LoopInv` (event loop and
commands), `StartInv`, `StopInv`, `EndInv`. `WaitsUnmasked` looks only at the
moment of the wait; `Masks` follows the mask and the saved one through every
function that blocks signals, tells the two early returns apart (only the one
for a missing script leaves SIGTERM blocked), and says that `commit_buddycide`,
which blocks everything, never goes back. `GraceBeforeKillAlways` is about every
`kill_timeout`, and says two things. That SIGTERM comes before SIGKILL holds for
all of them, the default included (`Warned`). That there is a sleep in between
holds for those that can be converted (`Convertible`), unless an earlier stop
used up the tries: with tries left at its start, the first loop of
`buddy_stop_proc` leaves the counter below `KillTries`, so that the second one
sleeps at least once (`Paced`). The assumptions are
`PidAssumption` (0 and -1 are not pids) and `LimitsAssumption`.

### The state directories (`ServiceDir_proofs`)

`ReachableAlways`, `ScriptsMatchAlways` and `OneBuddyAlways`, for any lists of
services, any number of buddies and any crashes of either side. None of the
three is inductive. `DirInv` says why no second buddy comes to be: one that has
bound its socket is seen through it (`Bound`, `Owners`), one that has not was
started by the present controller for an earlier entry of its list (`Watched`),
the directory of a buddy is complete and of its version (`Furnished`), and a
controller works only on directories whose buddies are given up (`AtWork`,
`Alone`). The assumptions are `MaxBuddiesAssumption`, `SvcListsAssumption`
(a version is a sequence of services) and `NamesAssumption` (no two services of a
configuration share a directory; the code does not check it, see "Not modelled").

### The lists and the signal queue (`UpkList_proofs`, `ListUse_proofs`)

`UpkList_proofs` has a lemma for each macro: what it does to a list that
`Carries` a sequence of nodes, in a heap of any size, and what it needs of the
pointers the macro before it left behind. No induction over the list is needed:
`Meets` says of a sequence that a walk from the head meets its nodes and then the
end, instead of computing what the walk meets. `ListUse_proofs` shows that the
four programs over lists provide what the lemmas need (`Cursor` inside a loop,
`Ready` between two), hence `FaithfulAlways`; the assumption is
`ProgramsAssumption`, that a list is used by one of the four programs of the code.
Its second part does the same for the signal queue and its handler (`Resting`):
`QueueFaithfulAlways`, and `HeadFound`, that `handle_signals` does not follow a
NULL pointer, as long as no signal has come within a loop that unlinks.

### Clients and the dispatcher (`ClientSession_proofs`)

`ReplyMatchesAlways`, `LeaveTakenAlways` and `PendingCountsAlways`, for any
number of clients, requests and connections. `SessInv` says that the packet of a
client that never gave up is in one place (`Exchange`): on its way to the
controller, alone in its write queue with the cursor on it, on its way back, or
consumed. That the controller hangs up only on a client that hung up or was told
so (`Closed`) depends on what select() saw being still true when the walk gets
to the connection. `Seen` says this of the connections that are ahead, and it is
inductive because the walk never goes back: the pointers of the list lead from
older connections to newer ones (`Ordered`), also after the unlinking of closed
ones has lost some. `Counted` is `PendingCounts`, and follows `Exchange` step by
step. The assumptions are `ClientsAssumption` (a node for every connection) and
`RequestsAssumption`.

### The lock and the database (`CfgDB_proofs`)

`OneControllerAlways`, for any set of controllers and any number of files:
`OneController` of `LockSpec`. Two facts make it inductive
(`LockInv`): `Exclusive`, no two controllers hold the lock of one inode; and
`Current`, as long as no file was orphaned, whoever is between opening the file
and its exit has the inode the path names open. The first is kept by `flock`;
the second by `CtrlExit`, which removes the name only of a file nobody else
waits on, or sets `orphaned`. `KeepsLock` (`Spec => LockSpec`) carries it over
to the starts of `CfgDB`, whose statements leave the lock alone:
`OneWriterAlways`.

About the database, for any readings of the files, any number of starts, crashes
between any two statements and statements that fail:

* `OwnIdentityAlways`: a service keeps its UUID and shares it with nobody;
* `EnteredAlways`: after a start without a failed statement a lookup finds one
  row for every service, under its UUID;
* `RecordedAlways`: and its options and lists are there, exactly the ones the
  files gave -- of the last description, if a service has several, and if no
  service was given what the static buffer held.

`OwnIdentity` compares what services were called at different starts, so it
rests on the table in between (`DBInv`). A row with a package is the only one
with its package and name (`Unique`), and every service that was known has its
row (`Kept`). That `Unique` survives the entry of a service needs two facts that
span two statements: between them its row is there without a package and no
lookup finds one for it (`Entering`), and the UUID is the last one generated,
above those of all rows (`TableType`). `Filed` and `Unnamed` say how far the
process has come.

`Recorded` speaks of the end of a start only. `StoredInv` describes the way
there: the statements of the service looked up last are executed in their order
(`InTurn`), and the tables hold what those behind did (`Partly`): each option
for itself, and as many list rows, in order, as were appended since the
deletion, whatever was in the table before. With no statement left this is
`Stored`, and a stored service stays so until a later description with its UUID
comes (`Over`). Positions in a list are counted as cardinalities of sets of
statements, since a recursive count could not be unfolded by the provers. What
is used of the helpers is in lemmas: which statements there are and which are
executed (`Places`, `TodoPlaces`), what one does to the tables of a service and
of the others (`EffectLists`, `EffectElsewhere`, `StoredKept`).

The assumptions are `BoundsAssumption` and `ReadingsAssumption`: descriptions
are functions on the fields with lists in the list fields, and a service without
a UUID at run time has none in its file. TLC evaluates both for the readings of
run `database`.

### Packets (`Wire_proofs`)

`PacketBack`: for every message that can be created (`IsCall`), of any of the 20
types and with any values, `upk_deserialize_packet` gives back from what
`upk_serialize_packet` made the type, the members and their lengths. The steps:

* The format is defined by recursive functions and `FlattenSeq`, for which the
  prover has no induction. `NatSet` states it for a set, from the fact that a set
  of numbers has a least one (`WFMin`), and `Unique` and `Recursion` draw from it
  that a recursive function exists and is the only one with its equations. The
  lemmas about sums, concatenations and the fetching of fields rest on these.
* `FetchBack`, for any table: if the fields put are the ones the struct has, each
  string after its length (`Spelled`), then fetching them from the buffer gives
  the struct back, and the buffer is exactly as long as the create function
  computed.
* `TypeFacts`: the tables of the code meet this. For each type of message the
  create, serial and deserial tables agree, the index of its code leads to its own
  row of `upk_get_msgsize`, and the largest struct has room in a packet (`Room`;
  this is where `UPK_MAX_STRING_LEN` and `UPK_MAX_PACKET_SIZE` meet). A field that
  is forgotten or swapped in one of the tables makes one of these lemmas fail.
* `SvcinfoBack` and `StructValued`: the svcinfo, which is a buffer in a buffer.

`IntactAlways` follows with the invariant `WireInv`: as long as no read found less
than it asked for, the receiver is between two packets (`nHdr`, `nRem` and
`readbuf` are reset), and what is in the socket, followed by what is left of the
packet in the write queue, is the concatenation of the packets of the messages
sent and not handed over (`Flowing`). `Intact` is not inductive, for it says
nothing of the bytes under way. A write moves a piece of the queue's packet to the
end of the socket, wherever it is cut (`FlowsWritten`); the header that is read
is the header of the next packet, since a packet is no shorter than its header
(`Prefixed`), and the payload it announces is that packet's (`FrameCut`).

The assumption is `WireAssumption`: the messages are calls of the create
functions, a packet has room for two strings and the numbers of an svcinfo, and
its size is a number of 32 bits.

### Only model-checked

* Liveness (`FlushEnds`, `SessionEnds`, `RestartsChild`, `ShutdownCompletes`,
  `TermHonoured`, `TermExits`, `Reaped`, `Answered`, `LeftoversGo`, `Settles`):
  fairness is out of the prover's reach.
* `NeverAltered` of `Wire`: where packets are read in pieces it rests on the
  checksum, which collides for some messages. It holds for the messages of the
  run, not for all.
* `LayersAgree` of `CfgStart`: what the walk over a JSON value computes for
  every value needs induction over the data, and the walk is recursive.

## Plan

1. Done: `AuditRing` with `AuditQueue`, `Buddy`, `CtrlLock`, `BuddyLink`,
   `UpkList` / `ListUse`, `CtrlSigQueue`, `ClientSession`, `ServiceDir`,
   `WireFormat` / `Wire`, `ConfigFile` / `CfgStart`, `CfgDB`.
2. Done: proofs of all safety properties the runs check, except the two of
   `Wire` and `CfgStart` named above.

## Not modelled

Option parsing of buddy and of the clients, the formatting of JSON, UUIDs and
messages (for debugging output), the command line clients and the sqlite repair
tool keep no state that interacts. The audit database is created and never
written by the code. What the process does after it
has written to freed memory is a state of its own (`crash`, `alive = FALSE`) and
is not followed. Services of different packages with one name, which share a state
directory, are left out of `ServiceDir` (`NamesAssumption`). Vendored and
generated code is not this program.
`PROJECT.json` lists every part with its reason.
