------------------------------- MODULE ListUse ------------------------------
(***************************************************************************)
(* Programs over the list macros of module UpkList, compared with the      *)
(* sequence each one is meant to hold.  A program is the set of macros one *)
(* list of the code is used with:                                          *)
(*   services                append, walk, clear                           *)
(*   initial callbacks       prepend, pop, clear                           *)
(*   callbacks of a client   push, pop, clear                              *)
(*   connections             append, walk, prune                           *)
(* The signal queue is module CtrlSigQueue.                                *)
(***************************************************************************)
EXTENDS UpkList

CONSTANT Programs

ASSUME ProgramsAssumption ==
  Programs \subseteq {{"append", "walk", "clear"}, {"prepend", "pop", "clear"},
                     {"push", "pop", "clear"}, {"append", "walk", "prune"}}

VARIABLES l,      \* the list
          seq,    \* the nodes it is meant to hold, in order
          mode,   \* what the present FOREACH does, or "none"
          newest, \* the last node allocated
          uses,   \* the program
          lost    \* history: neighbours behind a kept node were unlinked in one FOREACH

listVars == <<l, seq, mode, newest, uses, lost>>

Init ==
  /\ l = EmptyList /\ seq = << >> /\ mode = "none" /\ newest = 0
  /\ uses \in Programs
  /\ lost = FALSE

New == newest + 1

Insert(use, list, result) ==
  /\ use \in uses /\ mode = "none" /\ newest < MaxNodes
  /\ newest' = New
  /\ l' = list
  /\ seq' = result
  /\ UNCHANGED <<mode, uses, lost>>

(* upk_callback_stack_push: the new node is then overwritten, next pointer *)
(* included, by a copy of the only node of the initial callbacks.          *)
Push(m, new) == [PrependNode(m, new) EXCEPT !.next[new] = NULL]

(* upk_net_add_socket_handle pushes on a stack it has just allocated. *)
PushInitial == seq = << >> /\ Insert("push", Push(l, New), <<New>>)

(* s, in which nothing occurs twice, without p. *)
Without(s, p) ==
  IF \A k \in DOMAIN s : s[k] # p THEN s
  ELSE LET at == CHOOSE k \in DOMAIN s : s[k] = p
       IN  [k \in 1 .. (Len(s) - 1) |-> IF k < at THEN s[k] ELSE s[k + 1]]

(* upk_callback_stack_pop: UPKLIST_HEAD and UPKLIST_UNLINK. *)
Pop ==
  /\ "pop" \in uses /\ mode = "none"
  /\ l' = Unlink(ForeachInit(l))
  /\ seq' = IF seq = << >> THEN seq ELSE Tail(seq)
  /\ UNCHANGED <<mode, newest, uses, lost>>

(* UPKLIST_FOREACH is entered: to look at every node, to unlink all        *)
(* (UPKLIST_FREE) or some of them (upk_net_flush_closed_sockets).          *)
Foreach(m) ==
  /\ m \in uses /\ mode = "none"
  /\ l' = ForeachInit(l)
  /\ mode' = IF l.head = NULL THEN "none" ELSE m
  /\ UNCHANGED <<seq, newest, uses, lost>>

(* The loop body ends without unlinking ... *)
Keep ==
  /\ mode \in {"walk", "prune"}
  /\ l' = ForeachContinue(l)
  /\ mode' = IF l.nextp = NULL THEN "none" ELSE mode
  /\ UNCHANGED <<seq, newest, uses, lost>>

(* ... or after UPKLIST_UNLINK. *)
Drop ==
  /\ mode \in {"clear", "prune"}
  /\ l' = ForeachContinue(Unlink(l))
  /\ seq' = Without(seq, l.thisp)
  /\ mode' = IF l.nextp = NULL THEN "none" ELSE mode
  /\ lost' = (lost \/ (l.prevp = NULL /\ l.thisp # l.head))
  /\ UNCHANGED <<newest, uses>>

Next ==
  \/ Insert("append", AppendNode(l, New), Append(seq, New))
  \/ Insert("prepend", PrependNode(l, New), <<New>> \o seq)
  \/ PushInitial
  \/ Pop
  \/ \E m \in {"walk", "clear", "prune"} : Foreach(m)
  \/ Keep
  \/ Drop

Spec == Init /\ [][Next]_listVars

(* Whatever was done before, a walk from the head meets exactly the nodes  *)
(* that were inserted and not removed, in order, the count is right, no    *)
(* freed node was touched, and a list that is appended to ends at its      *)
(* tail, so that the next append keeps the others.                         *)
(* upk_net_flush_closed_sockets is excepted when two neighbours behind an  *)
(* open connection are closed at once: the second UPKLIST_UNLINK has no    *)
(* prevp and moves the head.                                               *)
Faithful ==
  lost \/ /\ Meets(l, seq)
          /\ l.count = Len(seq)
          /\ ~l.stale
          /\ "append" \in uses => l.tail = IF seq = << >> THEN NULL ELSE seq[Len(seq)]
=============================================================================
