--------------------------- MODULE HeartBeatDeque ---------------------------
(***************************************************************************)
(* What heart_beat_list_t promises to its only user, the element manager:  *)
(* a double ended queue of nodes, each of them in the queue at most once,  *)
(* from which any node can be taken out in place.  `list' is the content   *)
(* from the header to the tail, `call' the method and the argument of the  *)
(* last operation and `ret' its result: 0 or -1 for a status, 1 or 0 for   *)
(* the truth value of empty(), and a node or NULL for the operations that  *)
(* hand out a node.  The result of a call is a function of the list, the   *)
(* method and the argument.                                                *)
(***************************************************************************)
EXTENDS ListSeqs

CONSTANTS
  Node,    \* the nodes the caller may link; the list owns no memory
  NULL     \* the null pointer

VARIABLES list, call, ret

dvars == <<list, call, ret>>

DInit == list = <<>> /\ call = <<"heart_beat_list_t", NULL>> /\ ret = NULL

\* The call method(n) answers r.
DAnswer(method, n, r) == call' = <<method, n>> /\ ret' = r

DPushFront(n) ==
  /\ n \notin ToSet(list)
  /\ DAnswer("push_front", n, 0)
  /\ list' = Cons(n, list)

DPushBack(n) ==
  /\ n \notin ToSet(list)
  /\ DAnswer("push_back", n, 0)
  /\ list' = Append(list, n)

DPopFront ==
  \/ list = <<>> /\ DAnswer("pop_front", NULL, NULL) /\ UNCHANGED list
  \/ list # <<>> /\ DAnswer("pop_front", NULL, list[1]) /\ list' = Tail(list)

DPopBack ==
  \/ list = <<>> /\ DAnswer("pop_back", NULL, NULL) /\ UNCHANGED list
  \/ list # <<>> /\ DAnswer("pop_back", NULL, list[Len(list)]) /\ list' = Front(list)

\* erase() finds a node wherever it is, keeps the order of the others, and
\* tells a linked node from one that is not linked.
DErase(n) ==
  \/ n \notin ToSet(list) /\ DAnswer("erase", n, -1) /\ UNCHANGED list
  \/ n \in ToSet(list) /\ DAnswer("erase", n, 0) /\ list' = Without(list, n)

\* Only NULL is refused.
DRefuse(method) == DAnswer(method, NULL, -1) /\ UNCHANGED list

DFront ==
  DAnswer("front", NULL, IF list = <<>> THEN NULL ELSE list[1]) /\ UNCHANGED list

DBack ==
  DAnswer("back", NULL, IF list = <<>> THEN NULL ELSE list[Len(list)]) /\ UNCHANGED list

DEmpty ==
  DAnswer("empty", NULL, IF list = <<>> THEN 1 ELSE 0) /\ UNCHANGED list

DNext ==
  \/ \E n \in Node : DPushFront(n) \/ DPushBack(n) \/ DErase(n)
  \/ \E method \in {"push_front", "push_back", "erase"} : DRefuse(method)
  \/ DPopFront \/ DPopBack \/ DFront \/ DBack \/ DEmpty

DSpec == DInit /\ [][DNext]_dvars
=============================================================================
