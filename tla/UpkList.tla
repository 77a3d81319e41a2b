------------------------------- MODULE UpkList ------------------------------
(***************************************************************************)
(* The singly linked list macros of libupkeeper (upk_types.h), on which    *)
(* the controller's signal queue, the list of connections, the callback    *)
(* stacks and the list of services are built.  A list is a metanode with   *)
(* six pointers that the macros leave as they are between two uses, so the *)
(* effect of a macro depends on the one used before it.                    *)
(*                                                                         *)
(* A list value is the metanode together with its heap: next[p] is p->next *)
(* and live is the set of allocated nodes.  stale records that a macro has *)
(* followed or written a pointer to a node that was freed.                 *)
(***************************************************************************)
EXTENDS Naturals, Sequences

CONSTANT MaxNodes    \* bound: nodes allocated in a behaviour

ASSUME MaxNodesAssumption == MaxNodes \in Nat \ {0}

Ptr == 1 .. MaxNodes
NULL == 0

List == [head : Ptr \cup {NULL}, tail : Ptr \cup {NULL}, prevp : Ptr \cup {NULL},
         nextp : Ptr \cup {NULL}, thisp : Ptr \cup {NULL}, count : Nat,
         next : [Ptr -> Ptr \cup {NULL}], live : SUBSET Ptr, stale : BOOLEAN]

(* UPKLIST_INIT: calloc. *)
EmptyList ==
  [head |-> NULL, tail |-> NULL, prevp |-> NULL, nextp |-> NULL, thisp |-> NULL, count |-> 0,
   next |-> [p \in Ptr |-> NULL], live |-> {}, stale |-> FALSE]

Dangling(l, p) == p # NULL /\ p \notin l.live

(* UPKLIST_APPEND_THIS with new, the node it allocates. *)
AppendThis(l, new) ==
  [l EXCEPT
     !.next = IF l.thisp # NULL THEN [@ EXCEPT ![new] = l.nextp, ![l.thisp] = new]
                                ELSE [@ EXCEPT ![new] = l.nextp],
     !.tail = IF l.nextp = NULL THEN new ELSE @,
     !.head = IF l.prevp = NULL /\ l.count = 0 THEN new ELSE @,
     !.count = @ + 1,
     !.thisp = new,
     !.live = @ \cup {new},
     !.stale = @ \/ Dangling(l, l.thisp)]

(* UPKLIST_APPEND *)
AppendNode(l, new) ==
  LET atTail == [l EXCEPT !.thisp = l.tail, !.prevp = IF @ # NULL THEN @ ELSE l.head]
  IN  [AppendThis(atTail, new) EXCEPT !.prevp = NULL]

(* UPKLIST_PREPEND_THIS *)
PrependThis(l, new) ==
  [l EXCEPT
     !.next = IF l.prevp # NULL THEN [@ EXCEPT ![new] = l.thisp, ![l.prevp] = new]
                                ELSE [@ EXCEPT ![new] = l.thisp],
     !.tail = IF l.nextp = NULL THEN new ELSE @,
     !.head = IF l.prevp = NULL THEN new ELSE @,
     !.count = @ + 1,
     !.thisp = new,
     !.live = @ \cup {new},
     !.stale = @ \/ Dangling(l, l.prevp)]

(* Mutant: UPKLIST_PREPEND forgets to go to the head. *)
MutantPrependNode(l, new) == PrependThis([l EXCEPT !.prevp = NULL], new)

(* UPKLIST_PREPEND *)
PrependNode(l, new) == PrependThis([l EXCEPT !.prevp = NULL, !.thisp = l.head], new)

(* _UPKLIST_NEXTNODE *)
NextNode(l, p) == IF p = NULL THEN NULL ELSE l.next[p]

(* _UPKLIST_FOREACH_INIT; UPKLIST_HEAD is this and a break. *)
ForeachInit(l) ==
  [l EXCEPT !.prevp = NULL, !.thisp = l.head, !.nextp = NextNode(l, l.head),
            !.stale = @ \/ Dangling(l, l.head)]

(* _UPKLIST_FOREACH_CONTINUE *)
ForeachContinue(l) ==
  [l EXCEPT !.prevp = l.thisp, !.thisp = l.nextp, !.nextp = NextNode(l, l.nextp),
            !.stale = @ \/ Dangling(l, l.nextp)]

(* UPKLIST_UNLINK: the current node is taken out and freed. *)
Unlink(l) ==
  IF l.thisp = NULL THEN l ELSE
  [l EXCEPT
     !.next = IF l.prevp # NULL THEN [@ EXCEPT ![l.prevp] = l.nextp] ELSE @,
     !.head = IF l.prevp = NULL THEN l.nextp ELSE @,
     !.tail = IF l.nextp = NULL THEN l.prevp ELSE @,
     !.thisp = NULL,
     !.count = @ - 1,
     !.live = @ \ {l.thisp},
     !.stale = @ \/ Dangling(l, l.thisp) \/ Dangling(l, l.prevp)]

(* A walk from the head along next meets the nodes of s, in order, and     *)
(* then the end.                                                           *)
Successor(s, k) == IF k < Len(s) THEN s[k + 1] ELSE NULL

Meets(l, s) ==
  /\ l.head = Successor(s, 0)
  /\ \A k \in DOMAIN s : s[k] # NULL /\ l.next[s[k]] = Successor(s, k)
=============================================================================
