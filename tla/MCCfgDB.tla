------------------------------ MODULE MCCfgDB ------------------------------
(***************************************************************************)
(* TLC instance of CfgStart: two services with the same name in different  *)
(* packages and one without a package, which come, change, lose options    *)
(* and go between starts, and come twice; a UUID in a file; files the      *)
(* parser cannot take, one of the controller among them.                   *)
(***************************************************************************)
EXTENDS CfgStart

MCPasswd == [www |-> [uid |-> 33, gid |-> 34]]
MCOneShort == {Text("/bin/sleep 9")}

Words(w) == [t |-> "string", v |-> w]
Service(key, members) == [key |-> key, val |-> Object(members)]
NotJson == [t |-> "error", v |-> <<>>]

Plain == NotJson   \* no file
Tuned ==
  Object(<<Member("StateDir", "string", Text("/srv")),
           Member("BuddyPollingInterval", "int", 2),
           Service(Text("ServiceDefaults"),
             <<Member("KillTimeout", "int", 10),
               Member("PreferBuddyStateForRunning", "boolean", FALSE),
               Member("Provides", "array", <<Words(Text("all"))>>),
               Member("CustomActions", "object", <<Member("dump", "string", Text("dump"))>>)>>)>>)
A(members) == Object(<<Service(<<"p", "::", "a">>, members)>>)
Full ==
  A(<<Member("ExecStart", "string", Text("run a")),
      Member("SetUID", "string", Text("www")),
      Member("PreferBuddyStateForRunning", "boolean", FALSE),
      Member("Provides", "array", <<Words(Text("x")), Words(<<"p", ":", "y">>)>>),
      Member("CustomActions", "object", <<Member("probe", "string", Text("probe a"))>>),
      Member("NoSuchOption", "int", 1),
      Member("InitialState", "string", Text("up"))>>)
Changed ==
  A(<<Member("ExecStart", "string", Text("run a2")),
      Member("Provides", "array", <<Words(Text("z"))>>)>>)
Other ==
  Object(<<Service(<<"q", "::", "a">>, <<Member("ExecStart", "string", Text("/bin/sleep 9"))>>)>>)
Bare ==
  Object(<<Service(Text("b"), <<Member("Prerequisites", "array", <<Words(Text("x"))>>),
                                Member("StopScript", "string", <<"stop", "%(EXEC_STOP)">>)>>)>>)
Named ==
  A(<<Member("UUID", "string", <<1>>),
      Member("ExecStart", "string", Text("run a"))>>)
Stray == A(<<Member("StartAfter", "array", <<>>), Member("KillTimeout", "int", 5)>>)

Broken ==
  Object(<<Service(Text("ServiceDefaults"),
             <<Member("StartAfter", "array", <<>>), Member("KillTimeout", "int", 5)>>)>>)

Config(ctrl, files) == [ctrl |-> ctrl, files |-> files]
MCConfigs ==
  <<Config(Tuned, <<Full, Other>>), Config(Plain, <<Changed>>), Config(Tuned, <<NotJson, Bare>>),
    Config(Plain, <<Named>>), Config(Plain, <<Changed, Stray>>),
    Config(Plain, <<Full, Changed>>), Config(Broken, <<Full>>)>>

Symmetry == Permutations(Controllers)
=============================================================================
