----------------------------- MODULE ConfigFile -----------------------------
(***************************************************************************)
(* Reading the configuration (libupkeeper/upkeeper/upk_config.c and        *)
(* upk_json.c): the walk over the values of a JSON file with its stack of  *)
(* handler tables, the service descriptions the handlers fill in, and the  *)
(* overlay of built-in defaults, controller file and service files.        *)
(*                                                                         *)
(* A JSON value is [t, v] with the type of json-c in t; an object is a     *)
(* sequence of members [key, val], as json-c keeps them; a key is a text.  *)
(* The walk is over when alive is FALSE: a handler was given a key or a    *)
(* stack that is not there, or upk_fatal ended the process.                *)
(***************************************************************************)
EXTENDS SvcDesc, SequencesExt

CONSTANTS Passwd,     \* getpwnam_r: a function from user names to [uid, gid]
          OneShort    \* the commands one character shorter than the
                      \* placeholder %(EXEC_...) they stand for

Text(w) == <<w>>
NoKey == <<>>

(* A configuration as upk_ctrl_load_config finds it; paths and sockets are *)
(* texts, the polling interval is unset (DBL_MIN in the one of the file).  *)
CtrlTexts == {"StateDir", "SvcConfigPath", "SvcRunPath", "UpkBuddyPath"}
Sockets == {"controller_socket", "controller_buddy_sock"}
EmptyConfig ==
  [f \in CtrlTexts \cup Sockets \cup {"svclist"} |-> <<>>]
    @@ [BuddyVerbosity |-> 0, BuddyPollingInterval |-> Int32Min,
        ServiceDefaults |-> SvcDescClear]

(* upk_parse_svc_id: "package::name" or "name".                            *)
ParseSvcId(key, svc) ==
  LET p == SelectInSeq(key, LAMBDA w : w = "::")
  IN  IF p = 0 THEN [svc EXCEPT !.Name = key]
      ELSE [svc EXCEPT !.Package = SubSeq(key, 1, p - 1),
                       !.Name = SubSeq(key, p + 1, Len(key))]
-----------------------------------------------------------------------------
(* Where a handler writes: a description (0 is ServiceDefaults, n the n-th *)
(* of svclist) and the list in it the handler fills, if any.               *)
At(n, list) == [svc |-> n, list |-> list]

Get(w, n) == IF n = 0 THEN w.cfg.ServiceDefaults ELSE w.cfg.svclist[n]
Put(w, n, svc) ==
  IF n = 0 THEN [w EXCEPT !.cfg.ServiceDefaults = svc]
           ELSE [w EXCEPT !.cfg.svclist[n] = svc]
Set(w, at, o, x) == Put(w, at.svc, [Get(w, at.svc) EXCEPT ![o] = x])
Add(w, at, x) == Set(w, at, at.list, Append(Get(w, at.svc)[at.list], x))

Push(w, table, at) ==
  [w EXCEPT !.stack = <<[table |-> table, at |-> at]>> \o @]
Die(w) == [w EXCEPT !.alive = FALSE]

(* upk_svcconf_svcid_array_appender: "package:name", "uuid#..." (which     *)
(* goes to the package) or "name".                                         *)
SvcIdOf(text) ==
  LET p == SelectInSeq(text, LAMBDA w : w = ":")
  IN  CASE p # 0 -> [pkg |-> SubSeq(text, 1, p - 1),
                     name |-> SubSeq(text, p + 1, Len(text))]
        [] Head(text) = "uuid#" -> [pkg |-> Tail(text), name |-> <<>>]
        [] OTHER -> [pkg |-> <<>>, name |-> text]

InitialStateOf(text) ==
  IF text[1] \in {"running", "up", "start", "run"} THEN Running ELSE Shutdown

(* upk_svcconf_string_handler for the options that are not kept as text.   *)
SvcConversion(w, at, o, text) ==
  LET known == text[1] \in DOMAIN Passwd
  IN  CASE o = "UUID" -> Set(w, at, o, text[1])
        [] o = "InitialState" -> Set(w, at, o, InitialStateOf(text))
        [] o = "SetUID" /\ known -> Set(w, at, o, Passwd[text[1]].uid)
        [] o = "SetGID" /\ known -> Set(w, at, o, Passwd[text[1]].gid)
        [] OTHER -> w

(* The table of a service: the bool, int, string, array and object         *)
(* handlers.  A member they do not know is reported and left out; only the *)
(* ones they know push a table for their elements.                         *)
SvcValue(w, at, key, x) ==
  CASE x.t \in {"null", "double"} -> w
    [] x.t \notin {"null", "double"} /\ key = NoKey -> Die(w)
    [] x.t = "boolean" /\ key[1] \in ByteOptions ->
         Set(w, at, key[1], IF x.v THEN 1 ELSE 0)
    [] x.t = "int" /\ key[1] \in IntOptions -> Set(w, at, key[1], x.v)
    [] x.t = "string" /\ key[1] \in TextOptions -> Set(w, at, key[1], x.v)
    [] x.t = "string" /\ key[1] \in {"UUID", "InitialState", "SetUID", "SetGID"} ->
         SvcConversion(w, at, key[1], x.v)
    [] x.t = "array" /\ key[1] \in ArrayOptions ->
         Push(w, "ids", At(at.svc, key[1]))
    [] x.t = "object" /\ key[1] = "CustomActions" ->
         Push(w, "actions", At(at.svc, key[1]))
    [] OTHER -> w

(* The table of the controller file; upk_fatal at an unknown member.       *)
CtrlValue(w, key, x) ==
  CASE x.t \in {"null", "boolean", "array"} -> w
    [] x.t \notin {"null", "boolean", "array"} /\ key = NoKey -> Die(w)
    [] x.t = "string" /\ key[1] \in CtrlTexts ->
         [w EXCEPT !.cfg[key[1]] = x.v]
    [] x.t = "int" /\ key[1] = "BuddyVerbosity" ->
         [w EXCEPT !.cfg.BuddyVerbosity = x.v]
    [] x.t \in {"int", "double"} /\ key[1] = "BuddyPollingInterval" ->
         [w EXCEPT !.cfg.BuddyPollingInterval = x.v]
    [] x.t = "object" /\ key[1] = "ServiceDefaults" ->
         Push(Put(w, 0, ParseSvcId(key, Get(w, 0))), "svc", At(0, ""))
    [] x.t = "object" /\ key[1] # "ServiceDefaults" -> w
    [] OTHER -> Die(w)

(* upk_svcconf_object_handler: a service of a service file.                *)
AddService(w, key) ==
  LET n == Len(w.cfg.svclist) + 1
  IN  Push([w EXCEPT !.cfg.svclist = Append(@, ParseSvcId(key, SvcDescClear))],
           "svc", At(n, ""))

(* upk_json_value: the handler for the type of x in the table on top.      *)
(* Everywhere else it is upk_conf_error_handler, which only reports, or    *)
(* there is none.                                                          *)
Value(w, key, x) ==
  LET at == Head(w.stack).at
      table == Head(w.stack).table
  IN  CASE table = "ctrl_init" /\ x.t = "object" -> Push(w, "ctrl", At(0, ""))
        [] table = "svc_init" /\ x.t = "object" -> Push(w, "svcs", At(0, ""))
        [] table = "ctrl" -> CtrlValue(w, key, x)
        [] table = "svcs" /\ x.t = "object" -> AddService(w, key)
        [] table = "svc" -> SvcValue(w, at, key, x)
        [] table = "ids" /\ x.t = "string" -> Add(w, at, SvcIdOf(x.v))
        [] table = "actions" /\ x.t = "string" ->
             IF key = NoKey THEN Die(w) ELSE Add(w, at, [name |-> key, script |-> x.v])
        [] OTHER -> w

(* upk_json_stack_pop, and the look at the table below, which must exist.  *)
Pop(w) ==
  IF Len(w.stack) < 2 THEN Die(w) ELSE [w EXCEPT !.stack = Tail(@)]

(* _upk_json_parse_node: the handler, then the members or elements, then   *)
(* one pop for every object and array, whether or not its handler pushed.  *)
RECURSIVE ParseNode(_, _, _)
RECURSIVE ParseMembers(_, _)
ParseNode(w, key, x) ==
  LET w1 == Value(w, key, x)
      w2 == CASE x.t = "object" -> ParseMembers(w1, x.v)
              [] x.t = "array" ->
                   ParseMembers(w1, [i \in 1 .. Len(x.v) |->
                                       [key |-> NoKey, val |-> x.v[i]]])
              [] OTHER -> w1
  IN  CASE ~w.alive -> w
        [] w.alive /\ x.t \in {"object", "array"} /\ w2.alive -> Pop(w2)
        [] OTHER -> w2
ParseMembers(w, members) ==
  IF members = <<>> \/ ~w.alive THEN w
  ELSE ParseMembers(ParseNode(w, members[1].key, members[1].val), Tail(members))

(* upk_ctrlconf_pack and upk_svcconf_pack; a text that is no JSON has type *)
(* "error" and leaves the configuration alone.                             *)
Pack(cfg, table, x) ==
  LET w == [cfg |-> cfg, alive |-> TRUE,
            stack |-> <<[table |-> table, at |-> At(0, "")]>>]
  IN  IF x.t = "error" THEN w ELSE ParseNode(w, NoKey, x)
-----------------------------------------------------------------------------
(* The elements of freed memory.                                           *)
Freed == Text("freed")

(* upk_overlay_svcconf_values: what high has set replaces what dest has;   *)
(* its lists of services are added to those of dest.  To set               *)
(* PipeStderrScript the old PipeStdoutScript is freed.                     *)
OverlaySvc(dest, high) ==
  [o \in Options |->
     CASE o \in IntOptions -> IF high[o] # Int32Min THEN high[o] ELSE dest[o]
       [] o \in ByteOptions -> IF high[o] # Int8Min THEN high[o] ELSE dest[o]
       [] o = "PipeStdoutScript" /\ high.PipeStderrScript # <<>> ->
            IF high[o] # <<>> \/ dest[o] # <<>> THEN Freed ELSE <<>>
       [] o \in ArrayOptions -> dest[o] \o high[o]
       [] o \in TextOptions \cup {"CustomActions"} ->
            IF high[o] # <<>> THEN high[o] ELSE dest[o]
       [] o = "UUID" -> IF high[o] # NilUUID THEN high[o] ELSE dest[o]
       [] o = "InitialState" -> IF high[o] # Undefined THEN high[o] ELSE dest[o]
       [] OTHER -> dest[o]]

(* upk_overlay_ctrlconf_values: BuddyVerbosity is not carried over.        *)
OverlayCtrl(dest, high) ==
  [f \in DOMAIN dest |->
     CASE f \in CtrlTexts \cup Sockets \cup {"svclist"} ->
            IF high[f] # <<>> THEN high[f] ELSE dest[f]
       [] f = "BuddyPollingInterval" ->
            IF high[f] # Int32Min THEN high[f] ELSE dest[f]
       [] f = "ServiceDefaults" /\ high[f].Name # <<>> ->
            OverlaySvc(dest[f], high[f])
       [] OTHER -> dest[f]]

(* upk_replace_string: the first occurrence.  A replacement that is one    *)
(* character shorter than the placeholder takes neither branch, nothing is *)
(* moved, and the last character of the placeholder stays.                 *)
ReplaceString(text, needle, repl) ==
  LET p == SelectInSeq(text, LAMBDA w : w = needle)
  IN  IF p = 0 THEN text
      ELSE SubSeq(text, 1, p - 1) \o repl
             \o (IF repl \in OneShort THEN Text(")") ELSE <<>>)
             \o SubSeq(text, p + 1, Len(text))

(* upk_finalize_svc_desc, into a description that was cleared.             *)
FinalizeSvcDesc(defaults, orig) ==
  LET d == OverlaySvc(OverlaySvc(SvcDescClear, defaults), orig)
  IN  [d EXCEPT
         !.StartScript = ReplaceString(@, "%(EXEC_START)", d.ExecStart),
         !.StopScript = ReplaceString(@, "%(EXEC_STOP)", d.ExecStop),
         !.ReloadScript = ReplaceString(@, "%(EXEC_RELOAD)", d.ExecReload)]
-----------------------------------------------------------------------------
Member(name, t, v) == [key |-> Text(name), val |-> [t |-> t, v |-> v]]
Object(members) == [t |-> "object", v |-> members]
Nulls(names) == [i \in 1 .. Len(names) |-> Member(names[i], "null", <<>>)]

(* upk_default_configuration_str: the services' defaults ...               *)
DefaultService ==
  << Member("Provides", "array", <<>>), Member("Prerequisites", "array", <<>>),
     Member("StartPriority", "int", 0), Member("KillTimeout", "int", 60),
     Member("MaxConsecutiveFailures", "int", -1),
     Member("RandomizeRateLimit", "boolean", FALSE),
     Member("SetUID", "int", 0), Member("SetGID", "int", 0),
     Member("RingbufferSize", "int", 256), Member("ReconnectRetries", "int", 10),
     Member("StartScript", "string", <<"#!/bin/sh exec", "%(EXEC_START)">>),
     Member("ExecStop", "string", Text("kill")),
     Member("StopScript", "string", <<"#!/bin/sh exec", "%(EXEC_STOP)", "$1">>),
     Member("ExecReload", "string", Text("kill -HUP")),
     Member("ReloadScript", "string", <<"#!/bin/sh exec", "%(EXEC_RELOAD)", "$1">>),
     Member("CustomActions", "object", <<>>),
     Member("InitialState", "string", Text("stopped")),
     Member("UnconfigureOnFileRemoval", "boolean", FALSE),
     Member("PreferBuddyStateForStopped", "boolean", FALSE),
     Member("PreferBuddyStateForRunning", "boolean", TRUE) >>
  \o Nulls(<<"UUID", "ShortDescription", "LongDescription", "UserMaxRestarts",
             "UserRestartWindow", "UserRateLimit", "ExecStart",
             "PipeStdoutScript", "PipeStderrScript", "RedirectStdout",
             "RedirectStderr">>)

(* ... and the controller's own.                                           *)
DefaultConfiguration ==
  Object(<< Member("StateDir", "string", Text("/var/upkeeper")),
            Member("SvcConfigPath", "string", Text("/etc/upkeeper.d")),
            Member("SvcRunPath", "string", Text("/var/upkeeper/buddies")),
            Member("UpkBuddyPath", "string", Text("/libexec/upk_buddy")),
            Member("BuddyVerbosity", "int", 1),
            Member("BuddyPollingInterval", "double", 500),
            [key |-> Text("ServiceDefaults"), val |-> Object(DefaultService)] >>)

(* upk_ctrl_load_config: the walk of the controller file, with the runtime *)
(* configuration in place of its own.  The sockets are those below the     *)
(* default StateDir.                                                       *)
LoadConfig(file) ==
  LET builtin == Pack(EmptyConfig, "ctrl_init", DefaultConfiguration).cfg
      default == [builtin EXCEPT
                    !.controller_socket = @ \o builtin.StateDir \o Text("/.controler.sock"),
                    !.controller_buddy_sock = @ \o builtin.StateDir \o Text("/.buddy.sock")]
      high == Pack(EmptyConfig, "ctrl_init", file)
  IN  [high EXCEPT !.cfg = OverlayCtrl(OverlayCtrl(EmptyConfig, default), @)]

(* upk_load_runtime_services: the service files one after the other, each  *)
(* with a stack of its own, then a description at run time for every       *)
(* service.  The result of the walk has the ones of the files.             *)
LoadFiles(files) ==
  LET load[n \in 0 .. Len(files)] ==
        IF n = 0 THEN [cfg |-> EmptyConfig, alive |-> TRUE, stack |-> <<>>]
        ELSE IF load[n - 1].alive THEN Pack(load[n - 1].cfg, "svc_init", files[n])
        ELSE load[n - 1]
  IN  load[Len(files)]

RuntimeServices(defaults, svclist) ==
  [i \in 1 .. Len(svclist) |-> FinalizeSvcDesc(defaults, svclist[i])]
-----------------------------------------------------------------------------
(* The reference: what a service with the given members should be, by      *)
(* upk_config.h ("used whenever an individual service omits something"),   *)
(* without walk, stack and descriptions.                                   *)
Layer(x, name) ==
  LET i == SelectInSeq(x.v, LAMBDA m : m.key = Text(name))
  IN  IF i = 0 THEN Object(<<>>) ELSE x.v[i].val

SetIn(layer, o, types) ==
  \E i \in DOMAIN layer.v : /\ layer.v[i].key = Text(o)
                            /\ layer.v[i].val.t \in types
                            /\ \/ layer.v[i].val.t \in {"int", "boolean"}
                               \/ layer.v[i].val.v # <<>>

TypesOf(o) ==
  CASE o \in {"SetUID", "SetGID"} -> {"int", "string"}
    [] o \in IntOptions -> {"int"}
    [] o \in ByteOptions -> {"boolean"}
    [] o \in ArrayOptions -> {"array"}
    [] o = "CustomActions" -> {"object"}
    [] o \in TextOptions \cup {"UUID", "InitialState"} -> {"string"}
    [] OTHER -> {}

Meaning(o, x) ==
  CASE x.t = "boolean" -> IF x.v THEN 1 ELSE 0
    [] o \in ArrayOptions -> [i \in 1 .. Len(x.v) |-> SvcIdOf(x.v[i].v)]
    [] o = "CustomActions" ->
         [i \in 1 .. Len(x.v) |-> [name |-> x.v[i].key, script |-> x.v[i].val.v]]
    [] o = "UUID" -> x.v[1]
    [] o = "InitialState" -> InitialStateOf(x.v)
    [] o = "SetUID" /\ x.t = "string" -> Passwd[x.v[1]].uid
    [] o = "SetGID" /\ x.t = "string" -> Passwd[x.v[1]].gid
    [] OTHER -> x.v

(* The option in the highest of the layers that sets it. *)
SetBy(layers, o) == {i \in 1 .. 3 : SetIn(layers[i], o, TypesOf(o))}
Layered(layers, o) ==
  LET set == SetBy(layers, o)
      top == CHOOSE i \in set : \A j \in set : j <= i
  IN  IF set = {} THEN SvcDescClear[o] ELSE Meaning(o, Layer(layers[top], o))

LayersOf(ctrlFile, service) ==
  <<Object(DefaultService), Layer(ctrlFile, "ServiceDefaults"), service>>

Expected(ctrlFile, key, service) ==
  LET value == ParseSvcId(key, [o \in Options |-> Layered(LayersOf(ctrlFile, service), o)])
      script(text, needle, command) ==
        FlattenSeq([i \in DOMAIN text |->
                      IF text[i] = needle THEN command ELSE <<text[i]>>])
  IN  [value EXCEPT
         !.StartScript = script(@, "%(EXEC_START)", value.ExecStart),
         !.StopScript = script(@, "%(EXEC_STOP)", value.ExecStop),
         !.ReloadScript = script(@, "%(EXEC_RELOAD)", value.ExecReload)]

(* Where the code departs from it: upk_overlay_svcconf_values adds the     *)
(* lists of services of a higher layer to those of a lower one, so that a  *)
(* service cannot replace what ServiceDefaults provides or requires.       *)
AddedUp(ctrlFile, service) ==
  {o \in ArrayOptions : Cardinality(SetBy(LayersOf(ctrlFile, service), o)) > 1}
Together(ctrlFile, service, o) ==
  LET layers == LayersOf(ctrlFile, service)
      part(i) == IF i \in SetBy(layers, o) THEN Meaning(o, Layer(layers[i], o)) ELSE <<>>
  IN  part(1) \o part(2) \o part(3)

(* A file the parser can take: it is an object of objects in which every   *)
(* array and object has a table of its own, with strings in it.            *)
Strings(vals) == \A x \in vals : x.t = "string"
WellFormed(x) ==
  /\ x.t = "object"
  /\ \A i \in DOMAIN x.v :
       /\ x.v[i].val.t = "object"
       /\ \A j \in DOMAIN x.v[i].val.v :
            LET m == x.v[i].val.v[j]
            IN  /\ m.val.t = "array" =>
                     /\ m.key[1] \in ArrayOptions
                     /\ Strings({m.val.v[k] : k \in DOMAIN m.val.v})
                /\ m.val.t = "object" =>
                     /\ m.key[1] = "CustomActions"
                     /\ Strings({m.val.v[k].val : k \in DOMAIN m.val.v})
=============================================================================
