------------------------------ MODULE SvcDesc ------------------------------
(***************************************************************************)
(* The description of a service (upk_svc_desc of upkeeper/upk_config.h): a *)
(* function from its fields to their values.  A text is a sequence of      *)
(* words; <<>> is the empty one.                                           *)
(***************************************************************************)
EXTENDS Integers, Sequences

Int32Min == -2147483647 - 1
Int8Min == -128
NilUUID == 0

IntOptions == {"StartPriority", "KillTimeout", "MaxConsecutiveFailures",
               "UserMaxRestarts", "UserRestartWindow", "UserRateLimit",
               "SetUID", "SetGID", "RingbufferSize", "ReconnectRetries"}
ByteOptions == {"RandomizeRateLimit", "UnconfigureOnFileRemoval",
                "PreferBuddyStateForStopped", "PreferBuddyStateForRunning"}
TextOptions == {"Package", "Name", "ShortDescription", "LongDescription",
                "ExecStart", "StartScript", "ExecStop", "StopScript",
                "ExecReload", "ReloadScript", "PipeStdoutScript",
                "PipeStderrScript", "RedirectStdout", "RedirectStderr"}
ArrayOptions == {"Provides", "Prerequisites"}
(* The fields no handler sets and no overlay copies.                       *)
UnreadLists == {"StartAfter", "RestartOnNamedPrereqRestart"}
UnreadNumbers == {"RestartAllDependencies", "RestartOnPrerequisiteRestart",
                  "StartupDelay"}
Options == IntOptions \cup ByteOptions \cup TextOptions \cup ArrayOptions
             \cup UnreadLists \cup UnreadNumbers
             \cup {"UUID", "CustomActions", "InitialState"}

Undefined == 0
Running == 1
Shutdown == 3

(* Mutant: the initialiser of KillTimeout is forgotten.                    *)
MutantSvcDescClear ==
  [o \in Options |->
     CASE o \in IntOptions \ {"KillTimeout"} -> Int32Min
       [] o \in ByteOptions -> Int8Min
       [] o \in UnreadNumbers \cup {"UUID", "InitialState", "KillTimeout"} -> 0
       [] OTHER -> <<>>]

(* upk_svc_desc_clear: what is not named in its initialiser is zero.       *)
SvcDescClear ==
  [o \in Options |->
     CASE o \in IntOptions -> Int32Min
       [] o \in ByteOptions -> Int8Min
       [] o \in UnreadNumbers \cup {"UUID", "InitialState"} -> 0
       [] OTHER -> <<>>]

(* What names a service: two services may have the same Name.              *)
Id(svc) == <<svc.Package, svc.Name>>
=============================================================================
