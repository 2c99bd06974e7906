---------------------------- MODULE HeartBeatList ----------------------------
(***************************************************************************)
(* heart_beat_list_t: an intrusive doubly linked list.  The list keeps two *)
(* pointers, m_header and m_tail; the links are fields of the nodes, whose *)
(* memory belongs to the caller.  Every operation is one action on the     *)
(* pointers, written as the code writes them.                              *)
(*                                                                         *)
(* `order' is a history variable: the nodes that should be linked, from    *)
(* the header to the tail.  No operation reads it, except for the caller's *)
(* obligation that a node is pushed only while it is not linked, which the *)
(* element manager keeps (it pushes a node it has just constructed or just *)
(* erased).  `call' is a history variable too: the method and the argument *)
(* of the last operation, NULL where it takes none.                        *)
(***************************************************************************)
EXTENDS ListSeqs

CONSTANTS
  Node,    \* the nodes that can be linked
  NULL     \* the null pointer

ASSUME NullAssumption == NULL \notin Node

VARIABLES
  m_header, m_tail,   \* the list object
  front, next,        \* the link fields of every node
  ret,                \* the result of the last operation
  call,               \* history: its method and argument
  order               \* history: what the list should contain

links == <<m_header, m_tail, front, next>>
vars  == <<m_header, m_tail, front, next, ret, call, order>>

Init ==
  /\ m_header = NULL /\ m_tail = NULL
  /\ front = [n \in Node |-> NULL]
  /\ next  = [n \in Node |-> NULL]
  /\ ret = NULL /\ call = <<"heart_beat_list_t", NULL>> /\ order = <<>>

-----------------------------------------------------------------------------
(* The operations.                                                         *)

Return(r) == ret' = r

Calls(method, n) == call' = <<method, n>>

Linked == ToSet(order)

push_front(n) ==
  /\ Calls("push_front", n) /\ Return(0)
  /\ order' = Cons(n, order)
  /\ m_header' = n
  /\ \/ /\ m_header = NULL
        /\ m_tail' = n
        /\ front' = [front EXCEPT ![n] = NULL]
        /\ next'  = [next EXCEPT ![n] = NULL]
     \/ /\ m_header # NULL
        /\ front' = [front EXCEPT ![n] = NULL, ![m_header] = n]
        /\ next'  = [next EXCEPT ![n] = m_header]
        /\ UNCHANGED m_tail

push_back(n) ==
  /\ Calls("push_back", n) /\ Return(0)
  /\ order' = Append(order, n)
  /\ m_tail' = n
  /\ \/ /\ m_tail = NULL
        /\ m_header' = n
        /\ front' = [front EXCEPT ![n] = NULL]
        /\ next'  = [next EXCEPT ![n] = NULL]
     \/ /\ m_tail # NULL
        /\ front' = [front EXCEPT ![n] = m_tail]
        /\ next'  = [next EXCEPT ![n] = NULL, ![m_tail] = n]
        /\ UNCHANGED m_header

\* pop of an empty list: both ends test their own pointer.
PopNone(end) ==
  /\ end = NULL
  /\ Return(NULL)
  /\ UNCHANGED <<links, order>>

\* pop of the only node leaves the node's links as they are.
PopOnly(end) ==
  /\ end # NULL /\ m_header = m_tail
  /\ Return(end)
  /\ m_header' = NULL /\ m_tail' = NULL
  /\ UNCHANGED <<front, next>>

pop_front ==
  /\ Calls("pop_front", NULL)
  /\ \/ PopNone(m_header)
     \/ PopOnly(m_header) /\ order' = Tail(order)
     \/ /\ m_header # NULL /\ m_header # m_tail
        /\ Return(m_header)
        /\ m_header' = next[m_header]
        /\ next'  = [next EXCEPT ![m_header] = NULL]
        /\ front' = [front EXCEPT ![next[m_header]] = NULL]
        /\ order' = Tail(order)
        /\ UNCHANGED m_tail

pop_back ==
  /\ Calls("pop_back", NULL)
  /\ \/ PopNone(m_tail)
     \/ PopOnly(m_tail) /\ order' = Front(order)
     \/ /\ m_tail # NULL /\ m_header # m_tail
        /\ Return(m_tail)
        /\ m_tail' = front[m_tail]
        /\ front' = [front EXCEPT ![m_tail] = NULL]
        /\ next'  = [next EXCEPT ![front[m_tail]] = NULL]
        /\ order' = Front(order)
        /\ UNCHANGED m_header

-----------------------------------------------------------------------------
(* erase(node) decides from the node's own links, not by searching.        *)

\* The four cases of the links; each of them but the last also compares the
\* node with the end it must be at.
EraseAlone(n) ==
  /\ front[n] = NULL /\ next[n] = NULL
  /\ m_header = m_tail /\ m_header = n
  /\ m_header' = NULL /\ m_tail' = NULL
  /\ UNCHANGED <<front, next>>

EraseHeader(n) ==
  /\ front[n] = NULL /\ next[n] # NULL
  /\ m_header = n
  /\ m_header' = next[n]
  /\ front' = [front EXCEPT ![next[n]] = NULL]
  /\ next'  = [next EXCEPT ![n] = NULL]
  /\ UNCHANGED m_tail

EraseTail(n) ==
  /\ front[n] # NULL /\ next[n] = NULL
  /\ m_tail = n
  /\ m_tail' = front[n]
  /\ next'  = [next EXCEPT ![front[n]] = NULL]
  /\ front' = [front EXCEPT ![n] = NULL]
  /\ UNCHANGED m_header

\* Mutant: the interior node keeps its own links.
EraseInside_keeps_links(n) ==
  /\ front[n] # NULL /\ next[n] # NULL
  /\ next'  = [next EXCEPT ![front[n]] = next[n]]
  /\ front' = [front EXCEPT ![next[n]] = front[n]]
  /\ UNCHANGED <<m_header, m_tail>>

EraseInside(n) ==
  /\ front[n] # NULL /\ next[n] # NULL
  /\ next'  = [next EXCEPT ![n] = NULL, ![front[n]] = next[n]]
  /\ front' = [front EXCEPT ![n] = NULL, ![next[n]] = front[n]]
  /\ UNCHANGED <<m_header, m_tail>>

EraseLinked(n) ==
  m_header # NULL /\ (EraseAlone(n) \/ EraseHeader(n) \/ EraseTail(n) \/ EraseInside(n))

\* No case applies: -1, nothing changes.
EraseMiss(n) ==
  \/ m_header = NULL
  \/ front[n] = NULL /\ next[n] = NULL /\ ~(m_header = m_tail /\ m_header = n)
  \/ front[n] = NULL /\ next[n] # NULL /\ m_header # n
  \/ front[n] # NULL /\ next[n] = NULL /\ m_tail # n

\* Mutant: the case of the tail is forgotten.
erase_misses_tail(n) ==
  /\ Calls("erase", n)
  /\ \/ /\ EraseLinked(n) /\ next[n] # NULL
        /\ Return(0)
        /\ order' = Without(order, n)
     \/ /\ EraseMiss(n) \/ next[n] = NULL
        /\ Return(-1)
        /\ UNCHANGED <<links, order>>

erase(n) ==
  /\ Calls("erase", n)
  /\ \/ /\ EraseLinked(n)
        /\ Return(0)
        /\ order' = Without(order, n)
     \/ /\ EraseMiss(n)
        /\ Return(-1)
        /\ UNCHANGED <<links, order>>

\* A NULL argument: push_front, push_back and erase answer -1 at once.
refuse_null(method) ==
  Calls(method, NULL) /\ Return(-1) /\ UNCHANGED <<links, order>>

\* front(), back() and empty(), which only read.
peek_front == Calls("front", NULL) /\ Return(m_header) /\ UNCHANGED <<links, order>>

peek_back == Calls("back", NULL) /\ Return(m_tail) /\ UNCHANGED <<links, order>>

empty ==
  /\ Calls("empty", NULL)
  /\ Return(IF m_header = NULL THEN 1 ELSE 0)
  /\ UNCHANGED <<links, order>>

Next ==
  \/ \E n \in Node \ Linked : push_front(n) \/ push_back(n)
  \/ \E n \in Node : erase(n)
  \/ \E method \in {"push_front", "push_back", "erase"} : refuse_null(method)
  \/ pop_front \/ pop_back \/ peek_front \/ peek_back \/ empty

Spec == Init /\ [][Next]_vars

-----------------------------------------------------------------------------
(* Properties.                                                             *)

Methods ==
  {"heart_beat_list_t", "push_front", "push_back", "pop_front", "pop_back", "front", "back",
   "erase", "empty"}

TypeOK ==
  /\ m_header \in Node \cup {NULL} /\ m_tail \in Node \cup {NULL}
  /\ front \in [Node -> Node \cup {NULL}]
  /\ next  \in [Node -> Node \cup {NULL}]
  /\ ret \in Node \cup {NULL, -1, 0, 1}
  /\ call \in Methods \X (Node \cup {NULL})
  /\ order \in Seq(Node)

\* No node is linked twice.
OrderInjective == IsInjectiveSeq(order)

\* The two list pointers designate the ends.
EndsMatch ==
  /\ order = <<>> => m_header = NULL /\ m_tail = NULL
  /\ order # <<>> => m_header = order[1] /\ m_tail = order[Len(order)]

\* Walking next from the header, or front from the tail, meets exactly the
\* nodes of order, and both walks end with NULL.
ChainMatches ==
  \A i \in 1..Len(order) :
    /\ front[order[i]] = IF i = 1 THEN NULL ELSE order[i - 1]
    /\ next[order[i]]  = IF i = Len(order) THEN NULL ELSE order[i + 1]

\* A node outside the list has no links.  erase() has nothing else to tell a
\* linked interior node from a node that was popped or erased before.
DetachedIsClean ==
  \A n \in Node \ Linked : front[n] = NULL /\ next[n] = NULL

\* The pointers represent the sequence the operations should have built, in
\* both directions, whatever mixture of pushes, pops and erasures came before.
PointersRepresentOrder ==
  OrderInjective /\ EndsMatch /\ ChainMatches /\ DetachedIsClean

\* The pointer list implements the deque, call by call: each method, on the argument
\* it was given, does to the sequence and answers what the deque's method does.  In
\* particular erase answers 0 for a linked node, which it takes out wherever it is,
\* and -1 for any other, and front() and back() hand out the node of their own end.
Deque == INSTANCE HeartBeatDeque WITH list <- order

ImplementsDeque == Deque!DSpec
=============================================================================
