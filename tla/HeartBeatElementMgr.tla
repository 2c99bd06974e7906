------------------------ MODULE HeartBeatElementMgr ------------------------
(***************************************************************************)
(* heart_beat_element_mgr_t: the elements (connections) that are expected  *)
(* to show a sign of life.  A hash map leads from an element to its list   *)
(* node; the list is ordered by the last refresh, newest at the header, so *)
(* that the periodic sweep looks at the tail only; the nodes come from an  *)
(* object pool; a counter of its own enforces the element limit.           *)
(*                                                                         *)
(* The list is the sequence that HeartBeatList shows it to be: pop_front   *)
(* and push_front work on its first position, pop_back and back on its     *)
(* last, erase takes a node out in place.  The manager runs in one thread  *)
(* at a time, so each of its operations is one action.  Its status codes   *)
(* are only logged by the service and are left out.                        *)
(***************************************************************************)
EXTENDS ListSeqs, FiniteSets

CONSTANTS
  Element,        \* the elements a client can register
  Node,           \* the nodes the pool can construct
  NULL,           \* the null pointer, also "no element"
  Timeouts,       \* the time-out values set_timeout is called with
  Limits,         \* the limits set_max_limit is called with
  MonotoneClock,  \* FALSE: time(NULL) may be stepped back
  MaxTime,        \* bound: the clock stays in 0..MaxTime
  MaxCount        \* bound: no add once m_element_count has reached it

ASSUME ElementMgrAssumption ==
  /\ NULL \notin Node /\ NULL \notin Element
  /\ Timeouts \subseteq Nat /\ Limits \subseteq Nat
  /\ MonotoneClock \in BOOLEAN
  /\ MaxTime \in Nat /\ MaxCount \in Nat

VARIABLES
  m_elements,           \* Element -> its node, NULL when the key is absent
  m_busy_list,          \* the list, from the header to the tail
  m_node_pool,          \* Node -> its data, Unused while not constructed
  m_element_count,
  m_callback_function,  \* TRUE once a callback is set
  m_timeout_flag, m_timeout, m_max_limit_flag, m_max_limit,
  now,                  \* what time(NULL) returns
  crashed,              \* a NULL node was dereferenced: the process is dead
  handed,               \* history: the elements the last operation handed
                        \* out (to the callback, or in the caller's vector)
  drained               \* history: some clearing operation met a non-empty list

store    == <<m_elements, m_busy_list, m_node_pool, m_element_count>>
settings == <<m_callback_function, m_timeout_flag, m_timeout,
              m_max_limit_flag, m_max_limit>>
mgrVars  == <<store, settings, now, crashed, handed, drained>>

Time == 0..MaxTime

Unused == [element |-> NULL, time |-> 0]

MgrInit ==
  /\ m_elements = [e \in Element |-> NULL]
  /\ m_busy_list = <<>>
  /\ m_node_pool = [n \in Node |-> Unused]
  /\ m_element_count = 0
  /\ m_callback_function = FALSE
  /\ m_timeout_flag = FALSE /\ m_timeout = 0
  /\ m_max_limit_flag = FALSE /\ m_max_limit = 0
  /\ now = 0 /\ crashed = FALSE
  /\ handed = <<>> /\ drained = FALSE

-----------------------------------------------------------------------------
(* Settings.  The service passes them on only while it is not started, and *)
(* then the list is empty (StoppedIsEmpty in HeartBeatService).            *)

set_callback_function ==
  /\ m_callback_function' = TRUE
  /\ handed' = <<>>
  /\ UNCHANGED <<store, m_timeout_flag, m_timeout, m_max_limit_flag, m_max_limit,
                 now, crashed, drained>>

set_timeout(flag, t) ==
  /\ m_timeout_flag' = flag /\ m_timeout' = t
  /\ handed' = <<>>
  /\ UNCHANGED <<store, m_callback_function, m_max_limit_flag, m_max_limit,
                 now, crashed, drained>>

set_max_limit(flag, l) ==
  /\ m_max_limit_flag' = flag /\ m_max_limit' = l
  /\ handed' = <<>>
  /\ UNCHANGED <<store, m_callback_function, m_timeout_flag, m_timeout,
                 now, crashed, drained>>

-----------------------------------------------------------------------------
(* What the operations share.                                              *)

ElementsOf(s) == [i \in 1..Len(s) |-> m_node_pool[s[i]].element]

\* The callback runs once per node of s, in this order, if one is set.
CallBack(s) == IF m_callback_function THEN ElementsOf(s) ELSE <<>>

\* Mutant: the map entries of the nodes are forgotten.
Unmapped_nothing(s) == m_elements

\* m_elements.erase(node->data.element) for every node of s.
Unmapped(s) ==
  [e \in Element |-> IF e \in ToSet(ElementsOf(s)) THEN NULL ELSE m_elements[e]]

\* m_node_pool.destroy(node) for every node of s.
Destroyed(s) ==
  [n \in Node |-> IF n \in ToSet(s) THEN Unused ELSE m_node_pool[n]]

\* m_node_pool.construct(element): the copy of the element and the time.
Constructed(pool, n, e) == [pool EXCEPT ![n] = [element |-> e, time |-> now]]

-----------------------------------------------------------------------------
(* The operations.                                                         *)

\* Mutant: an element expires one second late.
Expired_late(n) == now > m_node_pool[n].time + m_timeout

Expired(n) == now >= m_node_pool[n].time + m_timeout

\* The sweep: from the tail, as long as the node there has expired.
handle_timeout ==
  /\ \/ ~m_timeout_flag /\ handed' = <<>> /\ UNCHANGED store
     \/ /\ m_timeout_flag
        /\ \E keep \in 0..Len(m_busy_list) :
             LET swept == SubSeq(m_busy_list, keep + 1, Len(m_busy_list))
             IN /\ \A n \in ToSet(swept) : Expired(n)
                /\ keep # 0 => ~Expired(m_busy_list[keep])
                /\ handed' = CallBack(Reverse(swept))
                /\ m_busy_list' = SubSeq(m_busy_list, 1, keep)
                /\ m_elements' = Unmapped(swept)
                /\ m_node_pool' = Destroyed(swept)
                /\ m_element_count' = m_element_count - Len(swept)
  /\ UNCHANGED <<settings, now, crashed, drained>>

\* Mutant: the limit test is off by one.
AtLimit_late == m_max_limit_flag /\ m_element_count > m_max_limit

AtLimit == m_max_limit_flag /\ m_element_count + 1 > m_max_limit

\* What add_element pops to make room: the last node, when at the limit.
Victims == IF AtLimit THEN <<m_busy_list[Len(m_busy_list)]>> ELSE <<>>

\* The list after that pop.
Roomy == IF AtLimit THEN Front(m_busy_list) ELSE m_busy_list

\* The key exists: -1.
add_existing(e) ==
  /\ m_elements[e] # NULL
  /\ handed' = <<>>
  /\ UNCHANGED <<store, settings, now, crashed, drained>>

\* The counter says "full" but the list is empty: pop_back returns NULL and
\* node->data.element dereferences it.
add_null_victim(e) ==
  /\ m_elements[e] = NULL
  /\ AtLimit /\ m_busy_list = <<>>
  /\ crashed' = TRUE /\ handed' = <<>>
  /\ UNCHANGED <<store, settings, now, drained>>

\* The pool is out of memory: -1, but the victim is gone all the same.
add_no_memory(e) ==
  /\ m_elements[e] = NULL
  /\ ~(AtLimit /\ m_busy_list = <<>>)
  /\ handed' = CallBack(Victims)
  /\ m_busy_list' = Roomy
  /\ m_elements' = Unmapped(Victims)
  /\ m_node_pool' = Destroyed(Victims)
  /\ m_element_count' = m_element_count - Len(Victims)
  /\ UNCHANGED <<settings, now, crashed, drained>>

add_new(e) ==
  /\ m_elements[e] = NULL
  /\ ~(AtLimit /\ m_busy_list = <<>>)
  /\ \E n \in Node :
       /\ Destroyed(Victims)[n] = Unused
       /\ m_node_pool' = Constructed(Destroyed(Victims), n, e)
       /\ m_elements' = [Unmapped(Victims) EXCEPT ![e] = n]
       /\ m_busy_list' = Cons(n, Roomy)
  /\ handed' = CallBack(Victims)
  /\ m_element_count' = m_element_count - Len(Victims) + 1
  /\ UNCHANGED <<settings, now, crashed, drained>>

add_element(e) ==
  /\ m_element_count < MaxCount
  /\ add_existing(e) \/ add_null_victim(e) \/ add_no_memory(e) \/ add_new(e)

\* The key is absent, or (never, by StoreAgrees) its node is not linked: -1.
Untouched(e) ==
  /\ m_elements[e] = NULL \/ m_elements[e] \notin ToSet(m_busy_list)
  /\ UNCHANGED store

\* Mutant: the node gets its new time but stays where it is in the list.
Refreshed_in_place(e) ==
  LET node == m_elements[e]
  IN /\ node # NULL /\ node \in ToSet(m_busy_list)
     /\ m_node_pool' = [m_node_pool EXCEPT ![node].time = now]
     /\ UNCHANGED <<m_busy_list, m_elements, m_element_count>>

Refreshed(e) ==
  LET node == m_elements[e]
  IN /\ node # NULL /\ node \in ToSet(m_busy_list)
     /\ m_busy_list' = Cons(node, Without(m_busy_list, node))
     /\ m_node_pool' = [m_node_pool EXCEPT ![node].time = now]
     /\ UNCHANGED <<m_elements, m_element_count>>

update_element(e) ==
  /\ Untouched(e) \/ Refreshed(e)
  /\ handed' = <<>>
  /\ UNCHANGED <<settings, now, crashed, drained>>

\* Mutant: the counter is not decremented.
Deleted_uncounted(e) ==
  LET node == m_elements[e]
  IN /\ node # NULL /\ node \in ToSet(m_busy_list)
     /\ m_busy_list' = Without(m_busy_list, node)
     /\ m_elements' = [m_elements EXCEPT ![e] = NULL]
     /\ m_node_pool' = Destroyed(<<node>>)
     /\ UNCHANGED m_element_count

Deleted(e) ==
  LET node == m_elements[e]
  IN /\ node # NULL /\ node \in ToSet(m_busy_list)
     /\ m_busy_list' = Without(m_busy_list, node)
     /\ m_elements' = [m_elements EXCEPT ![e] = NULL]
     /\ m_node_pool' = Destroyed(<<node>>)
     /\ m_element_count' = m_element_count - 1

\* Mutant: the counter is decremented for an absent element too.
del_element_counts_misses(e) ==
  /\ \/ /\ m_elements[e] = NULL
        /\ m_element_count' = m_element_count - 1
        /\ UNCHANGED <<m_elements, m_busy_list, m_node_pool>>
     \/ Deleted(e)
  /\ handed' = <<>>
  /\ UNCHANGED <<settings, now, crashed, drained>>

del_element(e) ==
  /\ Untouched(e) \/ Deleted(e)
  /\ handed' = <<>>
  /\ UNCHANGED <<settings, now, crashed, drained>>

\* Popping from the header until the list is empty.  None of the three
\* operations that do it touches m_element_count.
Drain ==
  /\ m_busy_list' = <<>>
  /\ m_node_pool' = Destroyed(m_busy_list)
  /\ m_elements' = [e \in Element |-> NULL]
  /\ drained' = (drained \/ m_busy_list # <<>>)
  /\ UNCHANGED <<m_element_count, settings, now, crashed>>

clear_element == Drain /\ handed' = <<>>

get_all_element_and_clear == Drain /\ handed' = ElementsOf(m_busy_list)

trigger_all_timeout == Drain /\ handed' = CallBack(m_busy_list)

\* The wall clock.
Tick ==
  /\ now' \in IF MonotoneClock THEN {now + 1} \cap Time ELSE Time \ {now}
  /\ handed' = <<>>
  /\ UNCHANGED <<store, settings, crashed, drained>>

Configure ==
  /\ m_busy_list = <<>>
  /\ \/ set_callback_function
     \/ \E flag \in BOOLEAN, t \in Timeouts : set_timeout(flag, t)
     \/ \E flag \in BOOLEAN, l \in Limits : set_max_limit(flag, l)

MgrNext ==
  /\ ~crashed
  /\ \/ Configure
     \/ \E e \in Element : add_element(e) \/ update_element(e) \/ del_element(e)
     \/ handle_timeout
     \/ clear_element \/ get_all_element_and_clear \/ trigger_all_timeout
     \/ Tick

MgrSpec == MgrInit /\ [][MgrNext]_mgrVars

-----------------------------------------------------------------------------
(* Properties.                                                             *)

NodeData == [element : Element \cup {NULL}, time : Time]

MgrTypeOK ==
  /\ m_elements \in [Element -> Node \cup {NULL}]
  /\ m_busy_list \in Seq(Node)
  /\ m_node_pool \in [Node -> NodeData]
  /\ m_element_count \in Nat
  /\ m_callback_function \in BOOLEAN
  /\ m_timeout_flag \in BOOLEAN /\ m_timeout \in Nat
  /\ m_max_limit_flag \in BOOLEAN /\ m_max_limit \in Nat
  /\ now \in Time /\ crashed \in BOOLEAN
  /\ handed \in Seq(Element \cup {NULL}) /\ drained \in BOOLEAN

\* Every node of the list is constructed and is the node its element is
\* mapped to, and no node is in the list twice.
ListIsMapped ==
  /\ IsInjectiveSeq(m_busy_list)
  /\ \A n \in ToSet(m_busy_list) :
       m_node_pool[n].element # NULL /\ m_elements[m_node_pool[n].element] = n

\* Every key of the map leads to a linked node that holds this very key.
MapIsListed ==
  \A e \in Element : m_elements[e] # NULL =>
    m_elements[e] \in ToSet(m_busy_list) /\ m_node_pool[m_elements[e]].element = e

\* Every constructed node is linked: the pool leaks nothing.
PoolIsListed ==
  \A n \in Node : m_node_pool[n] # Unused => n \in ToSet(m_busy_list)

\* The map, the list and the pool describe the same elements after any mixture
\* of the operations, evictions and failed allocations included: no map entry
\* dangles into a destroyed node, no node is lost, and the two "failed to delete
\* node from element busy list" branches are dead.
StoreAgrees == ListIsMapped /\ MapIsListed /\ PoolIsListed

\* The counter never falls below the length of the list, so that the unsigned
\* decrements of the sweep, of del_element and of the eviction never wrap, and it
\* is exact as long as no clearing operation has thrown elements away.
CountCoversList ==
  /\ m_element_count >= Len(m_busy_list)
  /\ ~drained => m_element_count = Len(m_busy_list)

\* The eviction finds a victim: it can meet an empty list only after a clearing
\* operation left the counter behind, or when the limit is zero.
EvictionHasVictim == crashed => drained \/ m_max_limit = 0

\* The separate counter is safe to decrement and to evict by (heart_beat_element_mgr.h:
\* 257-276): it covers the list, and an eviction finds a victim.
CountIsSafe == CountCoversList /\ EvictionHasVictim

\* However add_element, updates, evictions and drains are mixed, no more elements
\* than the limit are ever watched.
LimitRespected == m_max_limit_flag => Len(m_busy_list) <= m_max_limit

\* From the header to the tail the nodes get older, which is what allows the sweep
\* to stop at the first node that has not expired.  It needs a clock that is never
\* stepped back.
SortedByAge ==
  MonotoneClock =>
    /\ \A i, j \in 1..Len(m_busy_list) : i < j =>
         m_node_pool[m_busy_list[i]].time >= m_node_pool[m_busy_list[j]].time
    /\ \A n \in ToSet(m_busy_list) : m_node_pool[n].time <= now

\* "the current element count of list" (heart_beat_element_mgr.h:130).
CountIsListSize == m_element_count = Len(m_busy_list)

-----------------------------------------------------------------------------
(* The refinement.                                                         *)

\* The elements as a client sees them: when each was last refreshed.
LastRefresh ==
  [e \in Element |-> IF m_elements[e] = NULL THEN -1
                     ELSE m_node_pool[m_elements[e]].time]

Registry == INSTANCE HeartBeatRegistry WITH refreshed <- LastRefresh

\* With a clock that never runs backwards the manager implements the registry: a
\* sweep expels exactly the expired elements, oldest first, and an eviction takes
\* an element that was refreshed least recently.
ImplementsRegistry == Registry!RSpec
=============================================================================
