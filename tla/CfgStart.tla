------------------------------ MODULE CfgStart ------------------------------
(***************************************************************************)
(* What a start of a controller reads: the constant Readings of CfgDB is   *)
(* given the outcomes of the walks of ConfigFile over the controller's     *)
(* file and the service files, which readdir() returns in any order.       *)
(***************************************************************************)
EXTENDS CfgDB, ConfigFile, TLC

CONSTANT Configs    \* numbered: what a start finds in the controller's file
                    \* (ctrl), before it has the lock, and then in the files
                    \* of SvcConfigPath (files)

(* upk_load_runtime_services, after upk_ctrl_load_config.                  *)
ReadFiles(ctrl, n, order) ==
  LET read == LoadFiles([i \in DOMAIN order |-> Configs[n].files[order[i]]])
  IN  [config |-> n, alive |-> read.alive, svcs |-> read.cfg.svclist,
       runtime |-> RuntimeServices(ctrl.cfg.ServiceDefaults, read.cfg.svclist)]

(* The controller's file is read before the lock is taken: a controller    *)
(* that does not survive it never gets to the lock.                        *)
AllReadings ==
  UNION {LET ctrl == LoadConfig(Configs[n].ctrl)
         IN  {ReadFiles(ctrl, n, order) :
                order \in IF ctrl.alive THEN Permutations(DOMAIN Configs[n].files) ELSE {}} :
           n \in DOMAIN Configs}
-----------------------------------------------------------------------------
Sane(file) == WellFormed(file) \/ file.t = "error"

(* Whatever the layers and the order of the files, the walk with its stack *)
(* of handlers and the three overlays give every service what its file     *)
(* says, and what it omits from the controller's file, then the built-in   *)
(* default (upk_config.h:217).  A service that comes twice has a           *)
(* description for each time.                                              *)
(* In three cases the code does something else.  A list of services that   *)
(* more than one layer sets has the entries of all of them, also those the *)
(* service did not omit to replace (upk_config.c:1178 and 1204): for these *)
(* the property says that.  A command one character shorter than its       *)
(* placeholder, and PipeStderrScript, which costs PipeStdoutScript, are    *)
(* kept out.                                                               *)
LayersAgree ==
  mem.loaded # 0 /\ mem.next = 1 =>
    LET files == Configs[mem.loaded].files
        ctrl == Configs[mem.loaded].ctrl
        entries == UNION {{<<i, j>> : j \in DOMAIN files[i].v} : i \in DOMAIN files}
        Key(e) == files[e[1]].v[e[2]].key
    IN  (\A i \in DOMAIN files : Sane(files[i])) =>
          \A i \in DOMAIN files : \A j \in DOMAIN files[i].v :
            LET service == files[i].v[j].val
                want == Expected(ctrl, Key(<<i, j>>), service)
                added == AddedUp(ctrl, service)
                has == {k \in DOMAIN mem.runtime : Id(mem.runtime[k]) = Id(want)}
            IN  \/ want.PipeStderrScript # <<>>
                \/ {want.ExecStart, want.ExecStop, want.ExecReload} \cap OneShort # {}
                \/ /\ Cardinality(has) = Cardinality({e \in entries : Key(e) = Key(<<i, j>>)})
                   /\ \E k \in has : \A o \in Options :
                        mem.runtime[k][o] = IF o \in added THEN Together(ctrl, service, o) ELSE want[o]
=============================================================================
