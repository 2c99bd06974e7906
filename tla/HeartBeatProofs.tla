--------------------------- MODULE HeartBeatProofs ---------------------------
(***************************************************************************)
(* The element manager, the heart-beat service that runs it and the        *)
(* monitor over the service, for any number of elements, nodes, time-outs, *)
(* requests, starts and stops.                                             *)
(*                                                                         *)
(* 1. The manager.  Its safety properties are proved together: the counter *)
(*    covers the list because nodes leave one by one, the limit holds      *)
(*    because the counter covers the list, and an eviction finds a victim  *)
(*    because the counter is exact until something is drained.             *)
(* 2. The registry that the manager implements.                            *)
(* 3. The service.  Its properties rest on which thread may be where:      *)
(*    handlers run only while m_started is set, a stopped io_service has   *)
(*    an empty manager, and the owner posts one request for the elements   *)
(*    at a time.                                                           *)
(* 4. The monitor, whose invariant follows one connection at a time.       *)
(***************************************************************************)
EXTENDS RpcConnMonitor, ListSeqsProofs

-----------------------------------------------------------------------------
(* 1. The inductive invariant of the manager.                              *)

MgrInv ==
  /\ MgrTypeOK /\ StoreAgrees /\ CountCoversList
  /\ EvictionHasVictim /\ LimitRespected /\ SortedByAge

-----------------------------------------------------------------------------
(* The store as three values: the map, the set of linked nodes, the pool.  *)

Consistent(map, linked, pool) ==
  /\ \A n \in linked : pool[n].element # NULL /\ map[pool[n].element] = n
  /\ \A e \in Element : map[e] # NULL => map[e] \in linked /\ pool[map[e]].element = e
  /\ \A n \in Node : pool[n] # Unused => n \in linked

StoreType(map, linked, pool) ==
  /\ map \in [Element -> Node \cup {NULL}]
  /\ linked \subseteq Node
  /\ pool \in [Node -> NodeData]

LEMMA AgreesIsConsistent ==
  StoreAgrees <=> /\ IsInjectiveSeq(m_busy_list)
                  /\ Consistent(m_elements, ToSet(m_busy_list), m_node_pool)
BY DEF StoreAgrees, ListIsMapped, MapIsListed, PoolIsListed, Consistent

\* Taking linked nodes out of the list, the map and the pool.
LEMMA RemoveConsistent ==
  ASSUME NEW map, NEW linked, NEW pool, NEW gone, NEW map2, NEW pool2,
         StoreType(map, linked, pool), Consistent(map, linked, pool),
         gone \subseteq linked,
         map2 = [e \in Element |-> IF e \in {pool[n].element : n \in gone}
                                   THEN NULL ELSE map[e]],
         pool2 = [n \in Node |-> IF n \in gone THEN Unused ELSE pool[n]]
  PROVE  StoreType(map2, linked \ gone, pool2) /\ Consistent(map2, linked \ gone, pool2)
<1>0. Unused \in NodeData
  BY ElementMgrAssumption DEF Unused, NodeData, Time
<1>1. StoreType(map2, linked \ gone, pool2)
  BY <1>0 DEF StoreType
<1>2. ASSUME NEW n \in linked \ gone
      PROVE  pool2[n].element # NULL /\ map2[pool2[n].element] = n
  <2>1. /\ pool2[n] = pool[n] /\ pool[n].element # NULL /\ map[pool[n].element] = n
        /\ pool[n].element \in Element
    BY DEF StoreType, Consistent, NodeData
  <2>2. pool[n].element \notin {pool[k].element : k \in gone}
    <3>1. \A k \in gone : map[pool[k].element] = k /\ k # n
      BY DEF Consistent
    <3> QED BY <3>1, <2>1
  <2> QED BY <2>1, <2>2
<1>3. ASSUME NEW e \in Element, map2[e] # NULL
      PROVE  map2[e] \in linked \ gone /\ pool2[map2[e]].element = e
  <2>1. map2[e] = map[e] /\ e \notin {pool[k].element : k \in gone}
    BY <1>3
  <2>2. map[e] \in linked /\ pool[map[e]].element = e /\ map[e] \in Node
    BY <2>1, <1>3 DEF Consistent, StoreType
  <2>3. map[e] \notin gone
    BY <2>1, <2>2
  <2> QED BY <2>1, <2>2, <2>3
<1>4. ASSUME NEW n \in Node, pool2[n] # Unused
      PROVE  n \in linked \ gone
  BY <1>4 DEF Consistent
<1> QED BY <1>1, <1>2, <1>3, <1>4 DEF Consistent

\* Adding a fresh node for a new key.
LEMMA InsertConsistent ==
  ASSUME NEW map, NEW linked, NEW pool, NEW e \in Element, NEW n \in Node, NEW data \in NodeData,
         StoreType(map, linked, pool), Consistent(map, linked, pool),
         map[e] = NULL, pool[n] = Unused, data.element = e
  PROVE  /\ n \notin linked
         /\ StoreType([map EXCEPT ![e] = n], linked \cup {n}, [pool EXCEPT ![n] = data])
         /\ Consistent([map EXCEPT ![e] = n], linked \cup {n}, [pool EXCEPT ![n] = data])
<1> DEFINE map2  == [map EXCEPT ![e] = n]
           pool2 == [pool EXCEPT ![n] = data]
<1>1. n \notin linked
  BY DEF Consistent, Unused
<1>2. StoreType(map2, linked \cup {n}, pool2)
  BY DEF StoreType
<1>3. /\ \A k \in Node : pool2[k] = IF k = n THEN data ELSE pool[k]
      /\ \A x \in Element : map2[x] = IF x = e THEN n ELSE map[x]
  BY DEF StoreType
<1>4. e # NULL /\ n # NULL
  BY ElementMgrAssumption
<1>5. \A k \in linked : k \in Node /\ pool[k].element \in Element /\ pool[k].element # e
  BY ElementMgrAssumption DEF Consistent, StoreType, NodeData
<1> HIDE DEF map2, pool2
<1>6. \A k \in linked \cup {n} : pool2[k].element # NULL /\ map2[pool2[k].element] = k
  BY <1>1, <1>3, <1>4, <1>5 DEF Consistent
<1>7. \A x \in Element : map2[x] # NULL =>
         map2[x] \in linked \cup {n} /\ pool2[map2[x]].element = x
  BY <1>1, <1>3, <1>4, <1>5 DEF Consistent, StoreType
<1>8. \A k \in Node : pool2[k] # Unused => k \in linked \cup {n}
  BY <1>3 DEF Consistent
<1> QED BY <1>1, <1>2, <1>6, <1>7, <1>8 DEF Consistent, map2, pool2

-----------------------------------------------------------------------------
(* The facts of the current state that every operation uses.               *)

LEMMA StoreFacts ==
  ASSUME MgrInv
  PROVE  /\ m_busy_list \in Seq(Node) /\ Len(m_busy_list) \in Nat
         /\ IsInjectiveSeq(m_busy_list)
         /\ StoreType(m_elements, ToSet(m_busy_list), m_node_pool)
         /\ Consistent(m_elements, ToSet(m_busy_list), m_node_pool)
         /\ \A i \in 1..Len(m_busy_list) :
              m_busy_list[i] \in Node /\ m_busy_list[i] \in ToSet(m_busy_list)
         /\ \A n \in Node : /\ m_node_pool[n] \in NodeData
                            /\ m_node_pool[n].element \in Element \cup {NULL}
                            /\ m_node_pool[n].time \in Time
         /\ m_element_count \in Nat /\ now \in Nat
<1>1. m_busy_list \in Seq(Node) /\ m_node_pool \in [Node -> NodeData]
  BY DEF MgrInv, MgrTypeOK
<1>2. ToSet(m_busy_list) \subseteq Node
  BY <1>1, ToSetByIndex
<1>3. \A i \in 1..Len(m_busy_list) :
        m_busy_list[i] \in Node /\ m_busy_list[i] \in ToSet(m_busy_list)
  BY <1>1, ToSetByIndex
<1>4. IsInjectiveSeq(m_busy_list) /\ Consistent(m_elements, ToSet(m_busy_list), m_node_pool)
  BY AgreesIsConsistent DEF MgrInv
<1>5. StoreType(m_elements, ToSet(m_busy_list), m_node_pool)
  BY <1>2 DEF MgrInv, MgrTypeOK, StoreType
<1>6. now \in Nat /\ m_element_count \in Nat
  BY ElementMgrAssumption DEF MgrInv, MgrTypeOK, Time
<1>7. \A n \in Node : /\ m_node_pool[n] \in NodeData
                      /\ m_node_pool[n].element \in Element \cup {NULL}
                      /\ m_node_pool[n].time \in Time
  BY <1>1 DEF NodeData
<1> QED BY <1>1, <1>3, <1>4, <1>5, <1>6, <1>7

\* What is handed out is a sequence of elements.
LEMMA HandedType ==
  ASSUME MgrInv, NEW s \in Seq(Node)
  PROVE  /\ ElementsOf(s) \in Seq(Element \cup {NULL})
         /\ CallBack(s) \in Seq(Element \cup {NULL})
         /\ Reverse(s) \in Seq(Node)
         /\ ToSet(ElementsOf(s)) = {m_node_pool[n].element : n \in ToSet(s)}
<1>1. \A i \in 1..Len(s) : s[i] \in Node
  OBVIOUS
<1>2. \A n \in Node : m_node_pool[n].element \in Element \cup {NULL}
  BY StoreFacts
<1>3. ElementsOf(s) \in Seq(Element \cup {NULL}) /\ Len(ElementsOf(s)) = Len(s)
  BY <1>1, <1>2 DEF ElementsOf
<1>4. <<>> \in Seq(Element \cup {NULL})
  OBVIOUS
<1>5. Reverse(s) \in Seq(Node)
  BY <1>1 DEF Reverse
<1>6. ToSet(ElementsOf(s)) = {m_node_pool[n].element : n \in ToSet(s)}
  BY <1>3 DEF ToSet, ElementsOf
<1> QED BY <1>3, <1>4, <1>5, <1>6 DEF CallBack

\* The list s over the given pool is ordered by age.
Aged(s, pool) ==
  MonotoneClock =>
    /\ \A i, j \in 1..Len(s) : i < j => pool[s[i]].time >= pool[s[j]].time
    /\ \A i \in 1..Len(s) : pool[s[i]].time <= now

LEMMA SortedIsAged ==
  ASSUME MgrInv
  PROVE  Aged(m_busy_list, m_node_pool)
BY StoreFacts DEF MgrInv, SortedByAge, Aged

\* Destroying nodes that are not in list2 leaves the data of list2 alone.
LEMMA ShrinkStore ==
  ASSUME MgrInv, NEW list2 \in Seq(Node), NEW gone \in Seq(Node),
         ToSet(gone) \subseteq ToSet(m_busy_list),
         ToSet(list2) = ToSet(m_busy_list) \ ToSet(gone)
  PROVE  /\ StoreType(Unmapped(gone), ToSet(list2), Destroyed(gone))
         /\ Consistent(Unmapped(gone), ToSet(list2), Destroyed(gone))
         /\ \A i \in 1..Len(list2) : Destroyed(gone)[list2[i]] = m_node_pool[list2[i]]
<1>1. /\ Unmapped(gone) = [e \in Element |->
           IF e \in {m_node_pool[n].element : n \in ToSet(gone)} THEN NULL ELSE m_elements[e]]
      /\ Destroyed(gone) = [n \in Node |-> IF n \in ToSet(gone) THEN Unused ELSE m_node_pool[n]]
  BY HandedType DEF Unmapped, Destroyed
<1>2. /\ StoreType(m_elements, ToSet(m_busy_list), m_node_pool)
      /\ Consistent(m_elements, ToSet(m_busy_list), m_node_pool)
  BY StoreFacts
<1>3. /\ StoreType(Unmapped(gone), ToSet(m_busy_list) \ ToSet(gone), Destroyed(gone))
      /\ Consistent(Unmapped(gone), ToSet(m_busy_list) \ ToSet(gone), Destroyed(gone))
  BY <1>1, <1>2, RemoveConsistent
<1>4. \A i \in 1..Len(list2) : list2[i] \in Node /\ list2[i] \notin ToSet(gone)
  BY ToSetByIndex
<1> QED BY <1>1, <1>3, <1>4

\* The sweep and the eviction cut the list in two: keep nodes stay, the rest goes.
LEMMA CutStore ==
  ASSUME MgrInv, NEW keep \in 0..Len(m_busy_list)
  PROVE  LET list2 == SubSeq(m_busy_list, 1, keep)
             gone  == SubSeq(m_busy_list, keep + 1, Len(m_busy_list))
         IN /\ list2 \in Seq(Node) /\ Len(list2) = keep /\ IsInjectiveSeq(list2)
            /\ gone \in Seq(Node) /\ Len(gone) = Len(m_busy_list) - keep
            /\ StoreType(Unmapped(gone), ToSet(list2), Destroyed(gone))
            /\ Consistent(Unmapped(gone), ToSet(list2), Destroyed(gone))
            /\ Aged(list2, Destroyed(gone))
<1> DEFINE L == Len(m_busy_list)
           list2 == SubSeq(m_busy_list, 1, keep)
           gone  == SubSeq(m_busy_list, keep + 1, L)
<1>1. m_busy_list \in Seq(Node) /\ L \in Nat /\ IsInjectiveSeq(m_busy_list)
  BY StoreFacts
<1>2. /\ list2 \in Seq(Node) /\ Len(list2) = keep
      /\ \A i \in 1..keep : list2[i] = m_busy_list[i]
      /\ \A x : x \in ToSet(list2) <=> \E i \in 1..keep : m_busy_list[i] = x
      /\ IsInjectiveSeq(list2)
  <2>1. keep \in Nat /\ 1 \in Nat /\ 1 <= 1 /\ keep <= L /\ 1 <= keep + 1 /\ keep - 1 + 1 = keep
    BY <1>1
  <2>2. \A i \in 1..keep : 1 + i - 1 = i
    BY <2>1
  <2>3. /\ list2 \in Seq(Node) /\ Len(list2) = keep - 1 + 1
        /\ \A i \in 1..keep - 1 + 1 : list2[i] = m_busy_list[1 + i - 1]
    BY ONLY <1>1, <2>1, SubSeqFacts
  <2>4. /\ \A x : x \in ToSet(list2) <=> \E i \in 1..keep : m_busy_list[i] = x
        /\ IsInjectiveSeq(list2)
    BY ONLY <1>1, <2>1, SubSeqFacts
  <2> HIDE DEF list2
  <2>5. \A i \in 1..keep : list2[i] = m_busy_list[i]
    BY <2>1, <2>2, <2>3
  <2> QED BY <2>1, <2>3, <2>4, <2>5
<1>3. /\ gone \in Seq(Node) /\ Len(gone) = L - keep
      /\ \A x : x \in ToSet(gone) <=> \E i \in keep + 1..L : m_busy_list[i] = x
  <2>1. keep + 1 \in Nat /\ 1 <= keep + 1 /\ L <= L /\ keep + 1 <= L + 1
        /\ L - (keep + 1) + 1 = L - keep
    BY <1>1
  <2>2. gone \in Seq(Node) /\ Len(gone) = L - (keep + 1) + 1
    <3>1. \A a, b \in Nat : 1 <= a /\ b <= L /\ a <= b + 1 =>
            SubSeq(m_busy_list, a, b) \in Seq(Node) /\ Len(SubSeq(m_busy_list, a, b)) = b - a + 1
      BY <1>1, SubSeqFacts
    <3> QED BY <1>1, <2>1, <3>1
  <2>3. \A x : x \in ToSet(gone) <=> \E i \in keep + 1..L : m_busy_list[i] = x
    BY ONLY <1>1, <2>1, SubSeqFacts
  <2> QED BY <2>1, <2>2, <2>3
<1> HIDE DEF list2, gone
<1>4. \A x : x \in ToSet(m_busy_list) <=> \E i \in 1..L : m_busy_list[i] = x
  BY <1>1, ToSetByIndex
<1>5. ToSet(gone) \subseteq ToSet(m_busy_list)
  <2>1. keep + 1..L \subseteq 1..L
    BY <1>1
  <2> QED BY <2>1, <1>3, <1>4
<1>6. ToSet(list2) = ToSet(m_busy_list) \ ToSet(gone)
  <2>1. ASSUME NEW x \in ToSet(list2) PROVE x \in ToSet(m_busy_list) /\ x \notin ToSet(gone)
    <3>1. PICK i \in 1..keep : m_busy_list[i] = x
      BY <1>2
    <3>2. i \in 1..L /\ \A j \in keep + 1..L : j \in 1..L /\ j # i
      BY <1>1
    <3> QED BY <3>1, <3>2, <1>1, <1>3, <1>4 DEF IsInjectiveSeq
  <2>2. ASSUME NEW x \in ToSet(m_busy_list), x \notin ToSet(gone) PROVE x \in ToSet(list2)
    <3>1. PICK i \in 1..L : m_busy_list[i] = x
      BY <1>4
    <3>2. i \in 1..keep \/ i \in keep + 1..L
      BY <1>1
    <3> QED BY <3>1, <3>2, <2>2, <1>2, <1>3
  <2> QED BY <2>1, <2>2
<1>7. /\ StoreType(Unmapped(gone), ToSet(list2), Destroyed(gone))
      /\ Consistent(Unmapped(gone), ToSet(list2), Destroyed(gone))
      /\ \A i \in 1..Len(list2) : Destroyed(gone)[list2[i]] = m_node_pool[list2[i]]
  <2>1. list2 \in Seq(Node) /\ gone \in Seq(Node)
    BY <1>2, <1>3
  <2> QED BY ONLY MgrInv, <2>1, <1>5, <1>6, ShrinkStore, ZenonT(30)
<1>8. Aged(list2, Destroyed(gone))
  <2>1. \A i \in 1..keep : i \in 1..L /\ Destroyed(gone)[list2[i]] = m_node_pool[m_busy_list[i]]
    BY <1>1, <1>2, <1>7
  <2> QED BY <2>1, <1>2, SortedIsAged DEF Aged
<1> QED BY <1>2, <1>3, <1>7, <1>8 DEF list2, gone

\* What an operation on the store has to establish.
LEMMA StoreInv ==
  ASSUME MgrInv,
         UNCHANGED <<settings, now, crashed, drained>>,
         m_busy_list' \in Seq(Node), IsInjectiveSeq(m_busy_list'),
         StoreType(m_elements', ToSet(m_busy_list'), m_node_pool'),
         Consistent(m_elements', ToSet(m_busy_list'), m_node_pool'),
         Aged(m_busy_list', m_node_pool'),
         m_element_count' \in Nat,
         m_element_count' - Len(m_busy_list') = m_element_count - Len(m_busy_list),
         LimitRespected',
         handed' \in Seq(Element \cup {NULL})
  PROVE  MgrInv'
<1>1. MgrTypeOK'
  BY DEF MgrInv, MgrTypeOK, StoreType, settings
<1>2. StoreAgrees'
  BY DEF StoreAgrees, ListIsMapped, MapIsListed, PoolIsListed, Consistent
<1>3. CountCoversList'
  <2>1. Len(m_busy_list') \in Nat
    OBVIOUS
  <2> QED BY <2>1, StoreFacts DEF MgrInv, CountCoversList
<1>4. EvictionHasVictim'
  BY DEF MgrInv, EvictionHasVictim, settings
<1>5. SortedByAge'
  <2>1. \A n \in ToSet(m_busy_list') : \E i \in 1..Len(m_busy_list') : m_busy_list'[i] = n
    BY ToSetByIndex
  <2> QED BY <2>1 DEF Aged, SortedByAge
<1> QED BY <1>1, <1>2, <1>3, <1>4, <1>5 DEF MgrInv

-----------------------------------------------------------------------------
(* One lemma per operation.                                                *)

LEMMA SweepInv ==
  ASSUME MgrInv, handle_timeout
  PROVE  MgrInv'
<1> DEFINE L == Len(m_busy_list)
<1>0. /\ L \in Nat /\ m_element_count \in Nat /\ m_element_count >= L
      /\ UNCHANGED <<settings, now, crashed, drained>>
  BY StoreFacts DEF MgrInv, CountCoversList, handle_timeout
<1>1. CASE ~m_timeout_flag /\ handed' = <<>> /\ UNCHANGED store
  <2>1. UNCHANGED <<m_elements, m_busy_list, m_node_pool, m_element_count>>
    BY <1>1 DEF store
  <2>2. LimitRespected'
    BY <2>1, <1>0 DEF MgrInv, LimitRespected, settings
  <2>3. Aged(m_busy_list', m_node_pool')
    BY <2>1, SortedIsAged
  <2>4. m_element_count' - Len(m_busy_list') = m_element_count - L
    BY <2>1
  <2>5. handed' \in Seq(Element \cup {NULL}) /\ m_element_count' \in Nat
    BY <2>1, <1>0, <1>1
  <2> QED BY <2>1, <2>2, <2>3, <2>4, <2>5, <1>0, StoreFacts, StoreInv
<1>2. ASSUME NEW keep \in 0..L,
             handed' = CallBack(Reverse(SubSeq(m_busy_list, keep + 1, L))),
             m_busy_list' = SubSeq(m_busy_list, 1, keep),
             m_elements' = Unmapped(SubSeq(m_busy_list, keep + 1, L)),
             m_node_pool' = Destroyed(SubSeq(m_busy_list, keep + 1, L)),
             m_element_count' = m_element_count - Len(SubSeq(m_busy_list, keep + 1, L))
      PROVE  MgrInv'
  <2> DEFINE swept == SubSeq(m_busy_list, keep + 1, L)
  <2>1. /\ m_busy_list' \in Seq(Node) /\ Len(m_busy_list') = keep
        /\ IsInjectiveSeq(m_busy_list')
        /\ swept \in Seq(Node) /\ Len(swept) = L - keep
    BY <1>2, CutStore
  <2>2. /\ StoreType(m_elements', ToSet(m_busy_list'), m_node_pool')
        /\ Consistent(m_elements', ToSet(m_busy_list'), m_node_pool')
        /\ Aged(m_busy_list', m_node_pool')
    BY <1>2, CutStore
  <2> HIDE DEF swept
  <2>3. /\ m_element_count' \in Nat
        /\ m_element_count' - Len(m_busy_list') = m_element_count - L
    <3>1. m_element_count' = m_element_count - Len(swept)
      BY <1>2 DEF swept
    <3> QED BY <3>1, <2>1, <1>0
  <2>4. LimitRespected'
    BY <2>1, <1>0 DEF MgrInv, MgrTypeOK, LimitRespected, settings
  <2>5. handed' \in Seq(Element \cup {NULL})
    <3>1. Reverse(swept) \in Seq(Node)
      BY <2>1, HandedType
    <3>2. CallBack(Reverse(swept)) \in Seq(Element \cup {NULL})
      BY <3>1, HandedType
    <3> QED BY <3>2, <1>2 DEF swept
  <2> QED BY <2>1, <2>2, <2>3, <2>4, <2>5, <1>0, StoreInv
<1> QED BY <1>1, <1>2 DEF handle_timeout

\* add_element makes room by cutting off the last node, or nothing.
LEMMA VictimsAreCut ==
  ASSUME MgrInv, ~(AtLimit /\ m_busy_list = <<>>)
  PROVE  \E keep \in 0..Len(m_busy_list) :
           /\ Roomy = SubSeq(m_busy_list, 1, keep)
           /\ Victims = SubSeq(m_busy_list, keep + 1, Len(m_busy_list))
           /\ AtLimit => keep = Len(m_busy_list) - 1
           /\ ~AtLimit => keep = Len(m_busy_list)
<1> DEFINE L == Len(m_busy_list)
<1>1. m_busy_list \in Seq(Node) /\ L \in Nat
  BY StoreFacts
<1>2. CASE AtLimit
  <2>1. L - 1 \in 0..L /\ L >= 1 /\ (L - 1) + 1 = L
    BY <1>1, <1>2
  <2>2. Roomy = SubSeq(m_busy_list, 1, L - 1)
    BY <1>2 DEF Roomy, Front
  <2>3. Victims = SubSeq(m_busy_list, L, L)
    BY <1>1, <1>2, <2>1 DEF Victims
  <2> QED BY <2>1, <2>2, <2>3, <1>2
<1>3. CASE ~AtLimit
  <2>1. L \in 0..L
    BY <1>1
  <2>2. Roomy = SubSeq(m_busy_list, 1, L)
    BY <1>1, <1>3, SubSeqFull DEF Roomy
  <2>3. Victims = SubSeq(m_busy_list, L + 1, L)
    <3>1. L + 1 > L
      BY <1>1
    <3> QED BY <3>1, <1>1, <1>3, SubSeqEmpty DEF Victims
  <2> QED BY <2>1, <2>2, <2>3, <1>3
<1> QED BY <1>2, <1>3

LEMMA RoomFacts ==
  ASSUME MgrInv, ~(AtLimit /\ m_busy_list = <<>>)
  PROVE  /\ Roomy \in Seq(Node) /\ IsInjectiveSeq(Roomy) /\ Victims \in Seq(Node)
         /\ Len(Roomy) \in Nat /\ Len(Victims) \in Nat
         /\ Len(Roomy) = Len(m_busy_list) - Len(Victims)
         /\ m_element_count - Len(Victims) \in Nat
         /\ m_max_limit_flag => Len(Roomy) + 1 <= m_max_limit
         /\ StoreType(Unmapped(Victims), ToSet(Roomy), Destroyed(Victims))
         /\ Consistent(Unmapped(Victims), ToSet(Roomy), Destroyed(Victims))
         /\ Aged(Roomy, Destroyed(Victims))
         /\ CallBack(Victims) \in Seq(Element \cup {NULL})
<1> DEFINE L == Len(m_busy_list)
<1>1. PICK keep \in 0..L :
           /\ Roomy = SubSeq(m_busy_list, 1, keep)
           /\ Victims = SubSeq(m_busy_list, keep + 1, L)
           /\ AtLimit => keep = L - 1
           /\ ~AtLimit => keep = L
  BY VictimsAreCut
<1>2. /\ Roomy \in Seq(Node) /\ Len(Roomy) = keep /\ IsInjectiveSeq(Roomy)
      /\ Victims \in Seq(Node) /\ Len(Victims) = L - keep
      /\ StoreType(Unmapped(Victims), ToSet(Roomy), Destroyed(Victims))
      /\ Consistent(Unmapped(Victims), ToSet(Roomy), Destroyed(Victims))
      /\ Aged(Roomy, Destroyed(Victims))
  BY <1>1, CutStore
<1>3. /\ L \in Nat /\ m_element_count \in Nat /\ m_element_count >= L
      /\ m_max_limit \in Nat /\ (m_max_limit_flag => L <= m_max_limit)
  BY StoreFacts DEF MgrInv, MgrTypeOK, CountCoversList, LimitRespected
<1>4. m_max_limit_flag => keep + 1 <= m_max_limit
  BY <1>1, <1>3 DEF AtLimit
<1>5. CallBack(Victims) \in Seq(Element \cup {NULL})
  BY <1>2, HandedType
<1>6. m_element_count - (L - keep) \in Nat /\ keep = L - (L - keep) /\ keep \in Nat
      /\ L - keep \in Nat
  BY <1>3
<1> QED BY <1>2, <1>4, <1>5, <1>6

LEMMA AddNoMemoryInv ==
  ASSUME MgrInv, NEW e \in Element, add_no_memory(e)
  PROVE  MgrInv'
<1>1. /\ m_busy_list' = Roomy /\ m_elements' = Unmapped(Victims)
      /\ m_node_pool' = Destroyed(Victims) /\ handed' = CallBack(Victims)
      /\ m_element_count' = m_element_count - Len(Victims)
      /\ UNCHANGED <<settings, now, crashed, drained>>
      /\ ~(AtLimit /\ m_busy_list = <<>>)
  BY DEF add_no_memory
<1>2. /\ Roomy \in Seq(Node) /\ IsInjectiveSeq(Roomy)
      /\ Len(Roomy) \in Nat /\ Len(Victims) \in Nat
      /\ Len(Roomy) = Len(m_busy_list) - Len(Victims)
      /\ m_element_count - Len(Victims) \in Nat
      /\ m_max_limit_flag => Len(Roomy) + 1 <= m_max_limit
      /\ StoreType(Unmapped(Victims), ToSet(Roomy), Destroyed(Victims))
      /\ Consistent(Unmapped(Victims), ToSet(Roomy), Destroyed(Victims))
      /\ Aged(Roomy, Destroyed(Victims))
      /\ CallBack(Victims) \in Seq(Element \cup {NULL})
  BY <1>1, RoomFacts
<1>3. LimitRespected'
  BY <1>1, <1>2 DEF LimitRespected, settings, MgrInv, MgrTypeOK
<1>4. m_element_count' - Len(m_busy_list') = m_element_count - Len(m_busy_list)
  BY <1>1, <1>2, StoreFacts
<1> QED BY <1>1, <1>2, <1>3, <1>4, StoreInv

LEMMA AddNewInv ==
  ASSUME MgrInv, NEW e \in Element, add_new(e)
  PROVE  MgrInv'
<1>1. /\ m_elements[e] = NULL
      /\ handed' = CallBack(Victims)
      /\ m_element_count' = m_element_count - Len(Victims) + 1
      /\ UNCHANGED <<settings, now, crashed, drained>>
      /\ ~(AtLimit /\ m_busy_list = <<>>)
  BY DEF add_new
<1>2. /\ Roomy \in Seq(Node) /\ IsInjectiveSeq(Roomy) /\ Victims \in Seq(Node)
      /\ Len(Roomy) \in Nat /\ Len(Victims) \in Nat
      /\ Len(Roomy) = Len(m_busy_list) - Len(Victims)
      /\ m_element_count - Len(Victims) \in Nat
      /\ m_max_limit_flag => Len(Roomy) + 1 <= m_max_limit
      /\ StoreType(Unmapped(Victims), ToSet(Roomy), Destroyed(Victims))
      /\ Consistent(Unmapped(Victims), ToSet(Roomy), Destroyed(Victims))
      /\ Aged(Roomy, Destroyed(Victims))
      /\ CallBack(Victims) \in Seq(Element \cup {NULL})
  BY <1>1, RoomFacts
<1> DEFINE map   == Unmapped(Victims)
           pool  == Destroyed(Victims)
           data  == [element |-> e, time |-> now]
<1>3. PICK n \in Node : /\ pool[n] = Unused
                        /\ m_node_pool' = [pool EXCEPT ![n] = data]
                        /\ m_elements' = [map EXCEPT ![e] = n]
                        /\ m_busy_list' = Cons(n, Roomy)
  BY DEF add_new, Constructed
<1>4. map[e] = NULL
  BY <1>1 DEF Unmapped
<1>5. data \in NodeData /\ data.element = e /\ data.time = now
  BY DEF NodeData, MgrInv, MgrTypeOK
<1> HIDE DEF map, pool, data
<1>6. /\ n \notin ToSet(Roomy)
      /\ StoreType(m_elements', ToSet(Roomy) \cup {n}, m_node_pool')
      /\ Consistent(m_elements', ToSet(Roomy) \cup {n}, m_node_pool')
  <2>1. StoreType(map, ToSet(Roomy), pool) /\ Consistent(map, ToSet(Roomy), pool)
    BY <1>2 DEF map, pool
  <2>2. /\ n \notin ToSet(Roomy)
        /\ StoreType([map EXCEPT ![e] = n], ToSet(Roomy) \cup {n}, [pool EXCEPT ![n] = data])
        /\ Consistent([map EXCEPT ![e] = n], ToSet(Roomy) \cup {n}, [pool EXCEPT ![n] = data])
    BY <2>1, <1>3, <1>4, <1>5, InsertConsistent
  <2> QED BY <2>2, <1>3
<1>7. /\ m_busy_list' \in Seq(Node) /\ Len(m_busy_list') = Len(Roomy) + 1
      /\ \A i \in 1..Len(Roomy) + 1 : m_busy_list'[i] = IF i = 1 THEN n ELSE Roomy[i - 1]
      /\ ToSet(m_busy_list') = ToSet(Roomy) \cup {n}
      /\ IsInjectiveSeq(m_busy_list')
  <2>0. Roomy \in Seq(Node) /\ n \in Node
    BY <1>2
  <2>1. /\ Cons(n, Roomy) \in Seq(Node) /\ Len(Cons(n, Roomy)) = Len(Roomy) + 1
        /\ \A i \in 1..Len(Roomy) + 1 : Cons(n, Roomy)[i] = IF i = 1 THEN n ELSE Roomy[i - 1]
    BY ONLY <2>0, ConsFacts
  <2>2. ToSet(Cons(n, Roomy)) = ToSet(Roomy) \cup {n} /\ IsInjectiveSeq(Cons(n, Roomy))
    BY ONLY <1>2, <1>6, n \in Node, ConsFacts
  <2> QED BY <2>1, <2>2, <1>3
<1>8. Aged(m_busy_list', m_node_pool')
  <2>1. \A i \in 1..Len(Roomy) : Roomy[i] \in Node /\ Roomy[i] # n
    BY <1>2, <1>6, ToSetByIndex
  <2>2. \A i \in 1..Len(Roomy) : m_node_pool'[Roomy[i]] = pool[Roomy[i]]
    BY <2>1, <1>2, <1>3 DEF StoreType, pool
  <2>3. m_node_pool'[n].time = now
    BY <1>2, <1>3, <1>5 DEF StoreType, pool
  <2>4. Aged(Roomy, pool) /\ now \in Nat
    BY <1>2, StoreFacts DEF pool
  <2>5. \A i \in 1..Len(Roomy) + 1 : i # 1 =>
          i - 1 \in 1..Len(Roomy) /\ m_node_pool'[m_busy_list'[i]] = pool[Roomy[i - 1]]
    <3> TAKE i \in 1..Len(Roomy) + 1
    <3> HAVE i # 1
    <3>1. i - 1 \in 1..Len(Roomy)
      BY <1>2
    <3>2. m_busy_list'[i] = Roomy[i - 1]
      BY <1>7
    <3> QED BY <3>1, <3>2, <2>2
  <2>6. m_node_pool'[m_busy_list'[1]].time = now
    BY <2>3, <1>2, <1>7
  <2> SUFFICES ASSUME MonotoneClock
               PROVE  /\ \A i, j \in 1..Len(Roomy) + 1 : i < j =>
                           m_node_pool'[m_busy_list'[i]].time >= m_node_pool'[m_busy_list'[j]].time
                      /\ \A i \in 1..Len(Roomy) + 1 : m_node_pool'[m_busy_list'[i]].time <= now
    BY <1>7 DEF Aged
  <2>7. /\ \A i, j \in 1..Len(Roomy) : i < j => pool[Roomy[i]].time >= pool[Roomy[j]].time
        /\ \A i \in 1..Len(Roomy) : pool[Roomy[i]].time <= now
    BY <2>4 DEF Aged
  <2>8. \A i \in 1..Len(Roomy) + 1 : m_node_pool'[m_busy_list'[i]].time <= now
    BY <2>4, <2>5, <2>6, <2>7
  <2>9. ASSUME NEW i \in 1..Len(Roomy) + 1, NEW j \in 1..Len(Roomy) + 1, i < j
        PROVE  m_node_pool'[m_busy_list'[i]].time >= m_node_pool'[m_busy_list'[j]].time
    <3>1. CASE i = 1
      BY <3>1, <2>6, <2>8
    <3>2. CASE i # 1
      <4>1. j # 1 /\ i - 1 < j - 1
        BY <2>9, <3>2, <1>2
      <4> QED BY <4>1, <3>2, <2>5, <2>7
    <3> QED BY <3>1, <3>2
  <2> QED BY <2>8, <2>9
<1>9. LimitRespected'
  BY <1>1, <1>2, <1>7 DEF LimitRespected, settings
<1>10. /\ m_element_count' \in Nat
       /\ m_element_count' - Len(m_busy_list') = m_element_count - Len(m_busy_list)
  <2>1. /\ m_element_count \in Nat /\ Len(m_busy_list) \in Nat
        /\ Len(Victims) \in Nat /\ Len(Roomy) \in Nat
        /\ m_element_count - Len(Victims) \in Nat
        /\ Len(Roomy) = Len(m_busy_list) - Len(Victims)
    BY <1>2, StoreFacts
  <2>2. /\ m_element_count' = m_element_count - Len(Victims) + 1
        /\ Len(m_busy_list') = Len(Roomy) + 1
    BY <1>1, <1>7
  <2> QED BY ONLY <2>1, <2>2
<1>11. /\ StoreType(m_elements', ToSet(m_busy_list'), m_node_pool')
       /\ Consistent(m_elements', ToSet(m_busy_list'), m_node_pool')
  BY <1>6, <1>7
<1>12. handed' \in Seq(Element \cup {NULL})
  BY <1>1, <1>2
<1>13. m_busy_list' \in Seq(Node) /\ IsInjectiveSeq(m_busy_list')
  BY <1>7
<1> QED BY <1>1, <1>8, <1>9, <1>10, <1>11, <1>12, <1>13, StoreInv

\* An operation that leaves the store and the settings alone.
LEMMA IdleInv ==
  ASSUME MgrInv, UNCHANGED <<store, settings, now, crashed, drained>>,
         handed' \in Seq(Element \cup {NULL})
  PROVE  MgrInv'
<1>1. /\ UNCHANGED <<m_elements, m_busy_list, m_node_pool, m_element_count>>
      /\ UNCHANGED <<settings, now, crashed, drained>>
  BY DEF store
<1>2. LimitRespected'
  BY <1>1 DEF MgrInv, LimitRespected, settings
<1>3. Aged(m_busy_list', m_node_pool')
  BY <1>1, SortedIsAged
<1>4. /\ m_element_count' - Len(m_busy_list') = m_element_count - Len(m_busy_list)
      /\ m_element_count' \in Nat
  BY <1>1, StoreFacts
<1> QED BY <1>1, <1>2, <1>3, <1>4, StoreFacts, StoreInv

LEMMA NullVictimInv ==
  ASSUME MgrInv, NEW e \in Element, add_null_victim(e)
  PROVE  MgrInv'
<1>1. /\ UNCHANGED <<m_elements, m_busy_list, m_node_pool, m_element_count, now, drained>>
      /\ UNCHANGED <<m_callback_function, m_timeout_flag, m_timeout, m_max_limit_flag, m_max_limit>>
      /\ handed' = <<>> /\ crashed' = TRUE /\ AtLimit /\ m_busy_list = <<>>
  BY DEF add_null_victim, store, settings
<1>2. EvictionHasVictim'
  <2>1. CASE drained
    BY <2>1, <1>1 DEF EvictionHasVictim
  <2>2. CASE ~drained
    <3>1. m_element_count = 0 /\ m_max_limit \in Nat /\ m_element_count + 1 > m_max_limit
      BY <2>2, <1>1 DEF MgrInv, CountCoversList, MgrTypeOK, AtLimit
    <3> QED BY <3>1, <1>1 DEF EvictionHasVictim
  <2> QED BY <2>1, <2>2
<1>3. MgrTypeOK'
  BY <1>1 DEF MgrInv, MgrTypeOK
<1>4. StoreAgrees' /\ CountCoversList'
  BY <1>1 DEF MgrInv, StoreAgrees, ListIsMapped, MapIsListed, PoolIsListed, CountCoversList
<1>5. LimitRespected' /\ SortedByAge'
  BY <1>1 DEF MgrInv, LimitRespected, SortedByAge
<1> QED BY <1>2, <1>3, <1>4, <1>5 DEF MgrInv

\* A mapped element's node is at some position of the list.
LEMMA NodePosition ==
  ASSUME MgrInv, NEW e \in Element, m_elements[e] # NULL
  PROVE  \E k \in 1..Len(m_busy_list) :
           m_busy_list[k] = m_elements[e] /\ m_node_pool[m_busy_list[k]].element = e
<1>1. /\ m_elements[e] \in ToSet(m_busy_list) /\ m_node_pool[m_elements[e]].element = e
      /\ m_busy_list \in Seq(Node)
  BY StoreFacts DEF Consistent
<1> QED BY <1>1, ToSetByIndex

\* The list without its k-th node, as values.
LEMMA WithoutStore ==
  ASSUME MgrInv, NEW k \in 1..Len(m_busy_list)
  PROVE  LET rest == Without(m_busy_list, m_busy_list[k])
         IN /\ rest \in Seq(Node) /\ Len(rest) = Len(m_busy_list) - 1
            /\ IsInjectiveSeq(rest)
            /\ ToSet(rest) = ToSet(m_busy_list) \ {m_busy_list[k]}
            /\ \A i \in 1..Len(rest) : rest[i] # m_busy_list[k] /\ rest[i] \in Node
            /\ Aged(rest, m_node_pool)
<1> DEFINE L == Len(m_busy_list)
           rest == Without(m_busy_list, m_busy_list[k])
<1>1. m_busy_list \in Seq(Node) /\ L \in Nat /\ IsInjectiveSeq(m_busy_list)
  BY StoreFacts
<1>2. /\ rest \in Seq(Node) /\ Len(rest) = L - 1
      /\ \A i \in 1..L - 1 : rest[i] = IF i < k THEN m_busy_list[i] ELSE m_busy_list[i + 1]
  BY ONLY <1>1, k \in 1..Len(m_busy_list), WithoutFacts
<1>3. IsInjectiveSeq(rest) /\ ToSet(rest) = ToSet(m_busy_list) \ {m_busy_list[k]}
  BY ONLY <1>1, k \in 1..Len(m_busy_list), WithoutFacts
<1> HIDE DEF rest
<1>4. \A i \in 1..Len(rest) : rest[i] # m_busy_list[k] /\ rest[i] \in Node
  BY <1>2, <1>3, ToSetByIndex
<1>5. Aged(rest, m_node_pool)
  <2> DEFINE old(i) == IF i < k THEN i ELSE i + 1
  <2>1. \A i \in 1..Len(rest) : old(i) \in 1..L /\ rest[i] = m_busy_list[old(i)]
    BY <1>1, <1>2
  <2>2. \A i, j \in 1..Len(rest) : i < j => old(i) < old(j)
    BY <1>1, <1>2
  <2> HIDE DEF old
  <2> QED BY <2>1, <2>2, SortedIsAged DEF Aged
<1> QED BY <1>2, <1>3, <1>4, <1>5 DEF rest

LEMMA DelInv ==
  ASSUME MgrInv, NEW e \in Element, del_element(e)
  PROVE  MgrInv'
<1>0. handed' = <<>> /\ UNCHANGED <<settings, now, crashed, drained>>
  BY DEF del_element
<1>1. CASE Untouched(e)
  BY <1>0, <1>1, IdleInv DEF Untouched
<1>2. CASE Deleted(e)
  <2>1. m_elements[e] # NULL
    BY <1>2 DEF Deleted
  <2>2. PICK k \in 1..Len(m_busy_list) :
           m_busy_list[k] = m_elements[e] /\ m_node_pool[m_busy_list[k]].element = e
    BY <2>1, NodePosition
  <2> DEFINE node == m_busy_list[k]
             rest == Without(m_busy_list, node)
  <2>3. /\ m_busy_list' = rest
        /\ m_elements' = [m_elements EXCEPT ![e] = NULL]
        /\ m_node_pool' = Destroyed(<<node>>)
        /\ m_element_count' = m_element_count - 1
    BY <1>2, <2>2 DEF Deleted
  <2>4. /\ rest \in Seq(Node) /\ Len(rest) = Len(m_busy_list) - 1
        /\ IsInjectiveSeq(rest)
        /\ ToSet(rest) = ToSet(m_busy_list) \ {node}
        /\ \A i \in 1..Len(rest) : rest[i] # node /\ rest[i] \in Node
        /\ Aged(rest, m_node_pool)
    BY WithoutStore
  <2>5. node \in Node /\ node \in ToSet(m_busy_list) /\ m_node_pool[node].element = e
    BY <2>2, StoreFacts
  <2>6. <<node>> \in Seq(Node) /\ ToSet(<<node>>) = {node}
    BY <2>5 DEF ToSet
  <2> HIDE DEF node, rest
  <2>7. m_elements' = Unmapped(<<node>>)
    <3>1. ToSet(ElementsOf(<<node>>)) = {m_node_pool[x].element : x \in {node}}
      BY <2>6, HandedType
    <3>2. ToSet(ElementsOf(<<node>>)) = {e}
      BY <3>1, <2>5
    <3> QED BY <3>2, <2>3 DEF Unmapped, MgrInv, MgrTypeOK
  <2>8. /\ StoreType(Unmapped(<<node>>), ToSet(rest), Destroyed(<<node>>))
        /\ Consistent(Unmapped(<<node>>), ToSet(rest), Destroyed(<<node>>))
        /\ \A i \in 1..Len(rest) : Destroyed(<<node>>)[rest[i]] = m_node_pool[rest[i]]
    <3>1. /\ rest \in Seq(Node) /\ <<node>> \in Seq(Node)
          /\ ToSet(<<node>>) \subseteq ToSet(m_busy_list)
          /\ ToSet(rest) = ToSet(m_busy_list) \ ToSet(<<node>>)
      BY <2>4, <2>5, <2>6
    <3> QED BY ONLY MgrInv, <3>1, ShrinkStore, ZenonT(30)
  <2>9. Aged(m_busy_list', m_node_pool')
    BY <2>3, <2>4, <2>8 DEF Aged
  <2>10. /\ Len(m_busy_list) \in Nat /\ m_element_count \in Nat
         /\ m_element_count >= Len(m_busy_list) /\ Len(m_busy_list) >= 1
    BY StoreFacts DEF MgrInv, CountCoversList
  <2>11. /\ m_element_count' \in Nat
         /\ m_element_count' - Len(m_busy_list') = m_element_count - Len(m_busy_list)
    BY <2>3, <2>4, <2>10
  <2>12. LimitRespected'
    BY <2>3, <2>4, <2>10, <1>0 DEF LimitRespected, settings, MgrInv, MgrTypeOK
  <2>13. handed' \in Seq(Element \cup {NULL})
    BY <1>0
  <2> QED BY <2>3, <2>4, <2>7, <2>8, <2>9, <2>11, <2>12, <2>13, <1>0, StoreInv
<1> QED BY <1>1, <1>2 DEF del_element

\* A node stamped with the current time at the head of an aged list.
LEMMA AgedCons ==
  ASSUME MgrInv, NEW rest \in Seq(Node), NEW n \in Node, NEW pool,
         Aged(rest, m_node_pool),
         \A i \in 1..Len(rest) : pool[rest[i]].time = m_node_pool[rest[i]].time,
         pool[n].time = now
  PROVE  Aged(Cons(n, rest), pool)
<1> DEFINE t == Cons(n, rest)
           R == Len(rest)
<1>1. /\ Len(t) = R + 1 /\ R \in Nat
      /\ \A i \in 1..R + 1 : t[i] = IF i = 1 THEN n ELSE rest[i - 1]
  <2>1. rest \in Seq(Node) /\ n \in Node
    OBVIOUS
  <2>2. /\ Len(Cons(n, rest)) = Len(rest) + 1
        /\ \A i \in 1..Len(rest) + 1 : Cons(n, rest)[i] = IF i = 1 THEN n ELSE rest[i - 1]
    BY ONLY <2>1, ConsFacts
  <2>3. Len(rest) \in Nat
    BY ONLY <2>1, LenProperties
  <2> QED BY ONLY <2>2, <2>3
<1> HIDE DEF t
<1>2. \A i \in 1..R + 1 : i # 1 =>
        i - 1 \in 1..R /\ pool[t[i]].time = m_node_pool[rest[i - 1]].time
  <2> TAKE i \in 1..R + 1
  <2> HAVE i # 1
  <2>1. i - 1 \in 1..R /\ t[i] = rest[i - 1]
    BY <1>1
  <2> QED BY <2>1
<1>3. pool[t[1]].time = now /\ now \in Nat
  BY <1>1, StoreFacts
<1> SUFFICES ASSUME MonotoneClock
             PROVE  /\ \A i, j \in 1..R + 1 : i < j => pool[t[i]].time >= pool[t[j]].time
                    /\ \A i \in 1..R + 1 : pool[t[i]].time <= now
  BY <1>1 DEF Aged, t
<1>4. /\ \A i, j \in 1..R : i < j => m_node_pool[rest[i]].time >= m_node_pool[rest[j]].time
      /\ \A i \in 1..R : m_node_pool[rest[i]].time <= now
  BY DEF Aged
<1>5. \A i \in 1..R + 1 : pool[t[i]].time <= now
  BY <1>2, <1>3, <1>4
<1>6. ASSUME NEW i \in 1..R + 1, NEW j \in 1..R + 1, i < j
      PROVE  pool[t[i]].time >= pool[t[j]].time
  <2>1. CASE i = 1
    BY <2>1, <1>3, <1>5
  <2>2. CASE i # 1
    <3>1. j # 1 /\ i - 1 < j - 1
      BY <1>6, <2>2, <1>1
    <3> QED BY <3>1, <2>2, <1>2, <1>4
  <2> QED BY <2>1, <2>2
<1> QED BY <1>5, <1>6

LEMMA UpdateInv ==
  ASSUME MgrInv, NEW e \in Element, update_element(e)
  PROVE  MgrInv'
<1>0. handed' = <<>> /\ UNCHANGED <<settings, now, crashed, drained>>
  BY DEF update_element
<1>1. CASE Untouched(e)
  BY <1>0, <1>1, IdleInv DEF Untouched
<1>2. CASE Refreshed(e)
  <2>1. m_elements[e] # NULL
    BY <1>2 DEF Refreshed
  <2>2. PICK k \in 1..Len(m_busy_list) :
           m_busy_list[k] = m_elements[e] /\ m_node_pool[m_busy_list[k]].element = e
    BY <2>1, NodePosition
  <2> DEFINE node == m_busy_list[k]
             rest == Without(m_busy_list, node)
  <2>3. /\ m_busy_list' = Cons(node, rest)
        /\ m_node_pool' = [m_node_pool EXCEPT ![node].time = now]
        /\ m_elements' = m_elements /\ m_element_count' = m_element_count
    BY <1>2, <2>2 DEF Refreshed
  <2>4. /\ rest \in Seq(Node) /\ Len(rest) = Len(m_busy_list) - 1
        /\ IsInjectiveSeq(rest)
        /\ ToSet(rest) = ToSet(m_busy_list) \ {node}
        /\ \A i \in 1..Len(rest) : rest[i] # node /\ rest[i] \in Node
        /\ Aged(rest, m_node_pool)
    BY WithoutStore
  <2>5. /\ node \in Node /\ node \in ToSet(m_busy_list)
        /\ m_node_pool[node].element = e /\ m_node_pool[node] \in NodeData
    BY <2>2, StoreFacts
  <2> HIDE DEF node, rest
  <2>6. /\ m_busy_list' \in Seq(Node) /\ Len(m_busy_list') = Len(m_busy_list)
        /\ ToSet(m_busy_list') = ToSet(m_busy_list)
        /\ IsInjectiveSeq(m_busy_list')
    <3>1. rest \in Seq(Node) /\ node \in Node /\ IsInjectiveSeq(rest) /\ node \notin ToSet(rest)
      BY <2>4, <2>5
    <3>2. /\ Cons(node, rest) \in Seq(Node) /\ Len(Cons(node, rest)) = Len(rest) + 1
          /\ ToSet(Cons(node, rest)) = ToSet(rest) \cup {node}
          /\ IsInjectiveSeq(Cons(node, rest))
      BY ONLY <3>1, ConsFacts
    <3>3. Len(m_busy_list) \in Nat /\ Len(rest) + 1 = Len(m_busy_list)
      BY <2>4, StoreFacts
    <3>4. ToSet(rest) \cup {node} = ToSet(m_busy_list)
      <4>1. ToSet(rest) = ToSet(m_busy_list) \ {node} /\ node \in ToSet(m_busy_list)
        BY <2>4, <2>5
      <4> QED BY ONLY <4>1
    <3> QED BY ONLY <3>2, <3>3, <3>4, <2>3
  <2>7. /\ m_node_pool' \in [Node -> NodeData]
        /\ \A n \in Node : /\ m_node_pool'[n].element = m_node_pool[n].element
                           /\ n # node => m_node_pool'[n] = m_node_pool[n]
        /\ m_node_pool'[node].time = now
    BY <2>3, <2>5 DEF MgrInv, MgrTypeOK, NodeData
  <2>8. StoreType(m_elements', ToSet(m_busy_list'), m_node_pool')
    BY <2>3, <2>6, <2>7, StoreFacts DEF StoreType
  <2>9. Consistent(m_elements', ToSet(m_busy_list'), m_node_pool')
    <3>1. /\ ToSet(m_busy_list) \subseteq Node
          /\ m_elements \in [Element -> Node \cup {NULL}]
          /\ Consistent(m_elements, ToSet(m_busy_list), m_node_pool)
      BY StoreFacts DEF StoreType
    <3> QED BY <3>1, <2>3, <2>5, <2>6, <2>7 DEF Consistent
  <2>10. Aged(m_busy_list', m_node_pool')
    <3>1. \A i \in 1..Len(rest) : m_node_pool'[rest[i]].time = m_node_pool[rest[i]].time
      BY <2>4, <2>7
    <3>2. Aged(Cons(node, rest), m_node_pool')
      BY <3>1, <2>4, <2>5, <2>7, AgedCons
    <3> QED BY <3>2, <2>3
  <2>11. LimitRespected'
    BY <2>6, <1>0 DEF LimitRespected, settings, MgrInv
  <2>12. /\ m_element_count' \in Nat
         /\ m_element_count' - Len(m_busy_list') = m_element_count - Len(m_busy_list)
    BY <2>3, <2>6, StoreFacts
  <2>13. handed' \in Seq(Element \cup {NULL})
    BY <1>0
  <2> QED BY <2>6, <2>8, <2>9, <2>10, <2>11, <2>12, <2>13, <1>0, StoreInv
<1> QED BY <1>1, <1>2 DEF update_element

\* The three draining operations: the counter is left behind, so that only
\* CountCoversList's first half survives.
LEMMA DrainInv ==
  ASSUME MgrInv, Drain, handed' \in Seq(Element \cup {NULL})
  PROVE  MgrInv'
<1>1. /\ m_busy_list' = <<>> /\ m_node_pool' = Destroyed(m_busy_list)
      /\ m_elements' = [e \in Element |-> NULL]
      /\ drained' = (drained \/ m_busy_list # <<>>)
      /\ UNCHANGED <<m_element_count, now, crashed>>
      /\ UNCHANGED <<m_callback_function, m_timeout_flag, m_timeout, m_max_limit_flag, m_max_limit>>
  BY DEF Drain, settings
<1>2. Unused \in NodeData
  BY ElementMgrAssumption DEF Unused, NodeData, Time
<1>3. \A n \in Node : m_node_pool'[n] = Unused
  BY <1>1, StoreFacts DEF Destroyed, Consistent
<1>4. MgrTypeOK'
  <2>1. m_node_pool' \in [Node -> NodeData]
    BY <1>1, <1>2 DEF Destroyed, MgrInv, MgrTypeOK
  <2> QED BY <2>1, <1>1 DEF MgrInv, MgrTypeOK
<1>5. ToSet(m_busy_list') = {} /\ Len(m_busy_list') = 0
  BY <1>1 DEF ToSet
<1>6. StoreAgrees'
  BY <1>1, <1>3, <1>5 DEF StoreAgrees, ListIsMapped, MapIsListed, PoolIsListed, IsInjectiveSeq
<1>7. CountCoversList'
  <2>1. m_busy_list = <<>> => Len(m_busy_list) = 0
    OBVIOUS
  <2>2. /\ m_element_count \in Nat
        /\ ~drained => m_element_count = Len(m_busy_list)
    BY DEF MgrInv, MgrTypeOK, CountCoversList
  <2>3. m_element_count' >= Len(m_busy_list')
    BY ONLY <2>2, <1>1, <1>5
  <2>4. ASSUME ~drained' PROVE m_element_count' = Len(m_busy_list')
    <3>1. ~drained /\ m_busy_list = <<>>
      BY ONLY <2>4, <1>1, Zenon
    <3> QED BY ONLY <3>1, <2>1, <2>2, <1>1, <1>5
  <2> QED BY ONLY <2>3, <2>4 DEF CountCoversList
<1>8. EvictionHasVictim'
  BY <1>1 DEF MgrInv, EvictionHasVictim
<1>9. LimitRespected'
  BY <1>1, <1>5 DEF MgrInv, MgrTypeOK, LimitRespected
<1>10. SortedByAge'
  BY <1>1, <1>5 DEF SortedByAge
<1> QED BY <1>4, <1>6, <1>7, <1>8, <1>9, <1>10 DEF MgrInv

\* Settings change only while the list is empty.
LEMMA SettingsInv ==
  ASSUME MgrInv, ~crashed,
         UNCHANGED <<m_elements, m_busy_list, m_node_pool, m_element_count, now, crashed, drained>>,
         m_busy_list = <<>>, handed' = <<>>,
         m_callback_function' \in BOOLEAN, m_timeout_flag' \in BOOLEAN,
         m_timeout' \in Nat, m_max_limit_flag' \in BOOLEAN, m_max_limit' \in Nat
  PROVE  MgrInv'
<1>1. MgrTypeOK'
  BY DEF MgrInv, MgrTypeOK
<1>2. StoreAgrees' /\ CountCoversList' /\ SortedByAge'
  BY DEF MgrInv, StoreAgrees, ListIsMapped, MapIsListed, PoolIsListed, CountCoversList, SortedByAge
<1>3. LimitRespected'
  <2>1. Len(m_busy_list') = 0
    OBVIOUS
  <2> QED BY <2>1 DEF LimitRespected
<1>4. EvictionHasVictim'
  BY DEF EvictionHasVictim
<1> QED BY <1>1, <1>2, <1>3, <1>4 DEF MgrInv

LEMMA ConfigureInv ==
  ASSUME MgrInv, ~crashed, Configure
  PROVE  MgrInv'
<1>1. /\ UNCHANGED <<m_elements, m_busy_list, m_node_pool, m_element_count, now, crashed, drained>>
      /\ m_busy_list = <<>> /\ handed' = <<>>
      /\ m_callback_function' \in BOOLEAN /\ m_timeout_flag' \in BOOLEAN
      /\ m_timeout' \in Nat /\ m_max_limit_flag' \in BOOLEAN /\ m_max_limit' \in Nat
  BY ElementMgrAssumption
  DEF Configure, set_callback_function, set_timeout, set_max_limit, store, MgrInv, MgrTypeOK
<1> QED BY <1>1, SettingsInv

LEMMA TickInv ==
  ASSUME MgrInv, Tick
  PROVE  MgrInv'
<1>1. /\ UNCHANGED <<m_elements, m_busy_list, m_node_pool, m_element_count, crashed, drained>>
      /\ UNCHANGED <<m_callback_function, m_timeout_flag, m_timeout, m_max_limit_flag, m_max_limit>>
      /\ handed' = <<>> /\ now' \in Time /\ (MonotoneClock => now' = now + 1)
  BY DEF Tick, store, settings
<1>2. MgrTypeOK'
  BY <1>1 DEF MgrInv, MgrTypeOK
<1>3. StoreAgrees' /\ CountCoversList' /\ EvictionHasVictim' /\ LimitRespected'
  BY <1>1 DEF MgrInv, StoreAgrees, ListIsMapped, MapIsListed, PoolIsListed, CountCoversList,
              EvictionHasVictim, LimitRespected
<1>4. SortedByAge'
  <2>1. \A n \in ToSet(m_busy_list) : m_node_pool[n].time \in Nat
    BY StoreFacts, ElementMgrAssumption DEF StoreType, Time
  <2> QED BY <2>1, <1>1, StoreFacts DEF MgrInv, SortedByAge
<1> QED BY <1>2, <1>3, <1>4 DEF MgrInv

-----------------------------------------------------------------------------

LEMMA MgrInitInv == MgrInit => MgrInv
<1> SUFFICES ASSUME MgrInit PROVE MgrInv
  OBVIOUS
<1>1. /\ m_busy_list = <<>> /\ Len(m_busy_list) = 0 /\ ToSet(m_busy_list) = {}
      /\ Unused \in NodeData /\ 0 \in Time
  BY ElementMgrAssumption DEF MgrInit, ToSet, Unused, NodeData, Time
<1>2. MgrTypeOK
  <2>1. m_elements \in [Element -> Node \cup {NULL}]
    BY DEF MgrInit
  <2>2. m_node_pool \in [Node -> NodeData]
    BY <1>1 DEF MgrInit
  <2>3. m_busy_list \in Seq(Node) /\ handed \in Seq(Element \cup {NULL})
    BY DEF MgrInit
  <2>4. now \in Time
    BY <1>1 DEF MgrInit
  <2>5. /\ m_callback_function = FALSE /\ m_timeout_flag = FALSE
        /\ m_max_limit_flag = FALSE /\ crashed = FALSE /\ drained = FALSE
        /\ m_element_count = 0 /\ m_timeout = 0 /\ m_max_limit = 0
    BY DEF MgrInit
  <2> QED BY <2>1, <2>2, <2>3, <2>4, <2>5 DEF MgrTypeOK
<1>3. StoreAgrees
  BY <1>1 DEF MgrInit, StoreAgrees, ListIsMapped, MapIsListed, PoolIsListed, IsInjectiveSeq
<1>4. CountCoversList /\ EvictionHasVictim /\ LimitRespected /\ SortedByAge
  BY <1>1 DEF MgrInit, CountCoversList, EvictionHasVictim, LimitRespected, SortedByAge
<1> QED BY <1>2, <1>3, <1>4 DEF MgrInv

LEMMA MgrNextInv == MgrInv /\ [MgrNext]_mgrVars => MgrInv'
<1> SUFFICES ASSUME MgrInv, [MgrNext]_mgrVars PROVE MgrInv'
  OBVIOUS
<1>0. /\ <<>> \in Seq(Element \cup {NULL}) /\ m_busy_list \in Seq(Node)
      /\ handed \in Seq(Element \cup {NULL})
  BY DEF MgrInv, MgrTypeOK
<1>1. CASE ~crashed /\ Configure
  BY <1>1, ConfigureInv
<1>2. ASSUME NEW e \in Element, add_element(e) PROVE MgrInv'
  <2>1. CASE add_existing(e)
    BY <2>1, <1>0, IdleInv DEF add_existing
  <2> QED BY <2>1, <1>2, NullVictimInv, AddNoMemoryInv, AddNewInv DEF add_element
<1>3. ASSUME NEW e \in Element, update_element(e) PROVE MgrInv'
  BY <1>3, UpdateInv
<1>4. ASSUME NEW e \in Element, del_element(e) PROVE MgrInv'
  BY <1>4, DelInv
<1>5. CASE handle_timeout
  BY <1>5, SweepInv
<1>6. CASE clear_element
  BY <1>0, <1>6, DrainInv DEF clear_element
<1>7. CASE get_all_element_and_clear
  BY <1>0, <1>7, HandedType, DrainInv DEF get_all_element_and_clear
<1>8. CASE trigger_all_timeout
  BY <1>0, <1>8, HandedType, DrainInv DEF trigger_all_timeout
<1>9. CASE Tick
  BY <1>9, TickInv
<1>10. CASE UNCHANGED mgrVars
  <2>1. UNCHANGED <<store, settings, now, crashed, drained>> /\ handed' = handed
    BY <1>10 DEF mgrVars
  <2> QED BY <2>1, <1>0, IdleInv
<1> QED BY <1>1, <1>2, <1>3, <1>4, <1>5, <1>6, <1>7, <1>8, <1>9, <1>10 DEF MgrNext

\* The invariant of the element manager, for every number of elements and nodes.
THEOREM MgrInvariant == MgrSpec => []MgrInv
BY MgrInitInv, MgrNextInv, PTL DEF MgrSpec

\* The types hold: in particular the unsigned counter never wraps below zero.
THEOREM MgrTypeCorrect == MgrSpec => []MgrTypeOK
<1>1. MgrInv => MgrTypeOK
  BY DEF MgrInv
<1> QED BY <1>1, MgrInvariant, PTL

\* Map, list and pool always describe the same elements: no dangling map entry, no
\* leaked node, whatever operations, evictions and failed allocations came before.
THEOREM MgrStoreCorrect == MgrSpec => []StoreAgrees
<1>1. MgrInv => StoreAgrees
  BY DEF MgrInv
<1> QED BY <1>1, MgrInvariant, PTL

\* The counter covers the list and is exact until a drain, so that the eviction of
\* add_element dereferences no NULL node before the first drain.
THEOREM MgrCountCorrect == MgrSpec => []CountIsSafe
<1>1. MgrInv => CountIsSafe
  BY DEF MgrInv, CountIsSafe
<1> QED BY <1>1, MgrInvariant, PTL

\* add_element keeps the number of watched elements within the limit.
THEOREM MgrLimitCorrect == MgrSpec => []LimitRespected
<1>1. MgrInv => LimitRespected
  BY DEF MgrInv
<1> QED BY <1>1, MgrInvariant, PTL

\* With a monotone clock the list is ordered by age, so that handle_timeout may stop
\* at the first node that has not expired.
THEOREM MgrOrderCorrect == MgrSpec => []SortedByAge
<1>1. MgrInv => SortedByAge
  BY DEF MgrInv
<1> QED BY <1>1, MgrInvariant, PTL

-----------------------------------------------------------------------------
(* 2. The refinement of the registry.                                      *)

\* The elements of a list without repetition are as many as its positions.
LEMMA InjectiveCardinality ==
  ASSUME NEW T, NEW s \in Seq(T), \A i, j \in 1..Len(s) : s[i] = s[j] => i = j
  PROVE  Cardinality(ToSet(s)) = Len(s)
<1> DEFINE S == ToSet(s)
<1>1. Len(s) \in Nat /\ DOMAIN s = 1..Len(s) /\ \A x : x \in S <=> \E i \in 1..Len(s) : s[i] = x
  BY ToSetByIndex
<1> HIDE DEF S
<1>2. s \in [1..Len(s) -> S]
  BY <1>1
<1>3. s \in Injection(1..Len(s), S)
  BY <1>2 DEF Injection, IsInjective
<1>4. s \in Surjection(1..Len(s), S)
  BY <1>1, <1>2 DEF Surjection
<1>5. ExistsBijection(1..Len(s), S)
  BY <1>3, <1>4 DEF ExistsBijection, Bijection
<1>6. Cardinality(S) = Len(s)
  BY <1>1, <1>5, FS_CountingElements
<1> QED BY <1>6 DEF S

\* The registry's view of the store: who is watched, and since when.
LEMMA WatchedFacts ==
  ASSUME MgrInv
  PROVE  /\ \A e \in Element : LastRefresh[e] = IF m_elements[e] = NULL THEN -1
                                                ELSE m_node_pool[m_elements[e]].time
         /\ \A n \in ToSet(m_busy_list) :
              /\ n \in Node /\ m_node_pool[n].element \in Element
              /\ m_elements[m_node_pool[n].element] = n /\ n # NULL
              /\ LastRefresh[m_node_pool[n].element] = m_node_pool[n].time
              /\ m_node_pool[n].time \in Nat
         /\ \A e \in Element : m_elements[e] # NULL =>
              m_elements[e] \in ToSet(m_busy_list) /\ m_node_pool[m_elements[e]].element = e
         /\ Registry!Watched = {e \in Element : m_elements[e] # NULL}
         /\ Registry!Watched = {m_node_pool[n].element : n \in ToSet(m_busy_list)}
<1>1. \A e \in Element : LastRefresh[e] = IF m_elements[e] = NULL THEN -1
                                          ELSE m_node_pool[m_elements[e]].time
  BY DEF LastRefresh
<1>2. ASSUME NEW n \in ToSet(m_busy_list)
      PROVE  /\ n \in Node /\ m_node_pool[n].element \in Element
             /\ m_elements[m_node_pool[n].element] = n /\ n # NULL
             /\ LastRefresh[m_node_pool[n].element] = m_node_pool[n].time
             /\ m_node_pool[n].time \in Nat
  <2>1. n \in Node /\ n # NULL
    BY StoreFacts, ElementMgrAssumption DEF StoreType
  <2>2. m_node_pool[n].element \in Element /\ m_elements[m_node_pool[n].element] = n
    BY <2>1, StoreFacts DEF Consistent
  <2>3. m_node_pool[n].time \in Nat
    BY <2>1, StoreFacts, ElementMgrAssumption DEF Time
  <2> QED BY <1>1, <2>1, <2>2, <2>3
<1>3. \A e \in Element : m_elements[e] # NULL =>
        m_elements[e] \in ToSet(m_busy_list) /\ m_node_pool[m_elements[e]].element = e
  BY StoreFacts DEF Consistent
<1>4. Registry!Watched = {e \in Element : m_elements[e] # NULL}
  <2>1. \A e \in Element : LastRefresh[e] # -1 <=> m_elements[e] # NULL
    BY <1>1, <1>2, <1>3
  <2> QED BY <2>1 DEF Registry!Watched, Registry!Absent
<1>5. Registry!Watched = {m_node_pool[n].element : n \in ToSet(m_busy_list)}
  BY <1>2, <1>3, <1>4
<1> QED BY <1>1, <1>2, <1>3, <1>4, <1>5

\* The elements of some linked nodes, as the registry hands them out.
LEMMA ElementsEnumerate ==
  ASSUME MgrInv, NEW s \in Seq(Node), IsInjectiveSeq(s), ToSet(s) \subseteq ToSet(m_busy_list)
  PROVE  /\ ToSet(ElementsOf(s)) = {m_node_pool[n].element : n \in ToSet(s)}
         /\ Len(ElementsOf(s)) = Len(s) /\ Len(s) \in Nat
         /\ Len(ElementsOf(s)) = Cardinality({m_node_pool[n].element : n \in ToSet(s)})
         /\ \A i \in 1..Len(s) : /\ ElementsOf(s)[i] = m_node_pool[s[i]].element
                                 /\ LastRefresh[ElementsOf(s)[i]] = m_node_pool[s[i]].time
<1> DEFINE es == ElementsOf(s)
<1>1. es \in Seq(Element \cup {NULL}) /\ ToSet(es) = {m_node_pool[n].element : n \in ToSet(s)}
  BY HandedType
<1>2. Len(es) = Len(s) /\ Len(s) \in Nat /\ \A i \in 1..Len(s) : es[i] = m_node_pool[s[i]].element
  BY DEF ElementsOf
<1> HIDE DEF es
<1>3. \A i \in 1..Len(s) : s[i] \in ToSet(m_busy_list)
  BY ToSetByIndex
<1>4. \A i \in 1..Len(s) : m_elements[es[i]] = s[i] /\ LastRefresh[es[i]] = m_node_pool[s[i]].time
  BY <1>2, <1>3, WatchedFacts
<1>5. \A i, j \in 1..Len(es) : es[i] = es[j] => i = j
  <2>1. \A i, j \in 1..Len(s) : s[i] = s[j] => i = j
    BY DEF IsInjectiveSeq
  <2> QED BY <1>2, <1>4, <2>1
<1>6. Cardinality(ToSet(es)) = Len(es)
  BY <1>1, <1>5, InjectiveCardinality
<1> QED BY <1>1, <1>2, <1>4, <1>6 DEF es

\* Nodes leave the store: their elements are not watched any more, the others keep
\* their time.
LEMMA RemovedFromRegistry ==
  ASSUME MgrInv, NEW gone \in Seq(Node), ToSet(gone) \subseteq ToSet(m_busy_list), NEW e \in Element
  PROVE  (IF Unmapped(gone)[e] = NULL THEN -1 ELSE Destroyed(gone)[Unmapped(gone)[e]].time)
           = IF e \in {m_node_pool[n].element : n \in ToSet(gone)} THEN -1 ELSE LastRefresh[e]
<1> DEFINE G == {m_node_pool[n].element : n \in ToSet(gone)}
<1>1. Unmapped(gone)[e] = IF e \in G THEN NULL ELSE m_elements[e]
  BY HandedType DEF Unmapped
<1>2. CASE e \in G
  BY <1>1, <1>2
<1>3. CASE e \notin G /\ m_elements[e] = NULL
  BY <1>1, <1>3, WatchedFacts
<1>4. CASE e \notin G /\ m_elements[e] # NULL
  <2>1. m_elements[e] \in ToSet(m_busy_list) /\ m_node_pool[m_elements[e]].element = e
    BY <1>4, WatchedFacts
  <2>2. m_elements[e] \in Node /\ m_elements[e] \notin ToSet(gone)
    BY <1>4, <2>1, WatchedFacts
  <2>3. Destroyed(gone)[m_elements[e]] = m_node_pool[m_elements[e]]
    BY <2>2 DEF Destroyed
  <2>4. LastRefresh[e] = m_node_pool[m_elements[e]].time
    BY <1>4, WatchedFacts
  <2> QED BY <1>1, <1>4, <2>3, <2>4
<1> QED BY <1>2, <1>3, <1>4

LEMMA RegistryOperators ==
  /\ \A s : Registry!ToSet(s) = ToSet(s)
  /\ \A S : Registry!Cardinality(S) = Cardinality(S)
BY DEF Registry!ToSet, ToSet, Registry!Cardinality, Cardinality

\* The registry's settings and clock.
LEMMA SettingsMapped ==
  ASSUME UNCHANGED <<settings, now>>
  PROVE  UNCHANGED <<now, Registry!rconf>>
BY DEF settings, Registry!rconf

LEMMA StoreMapped ==
  ASSUME UNCHANGED store
  PROVE  LastRefresh' = LastRefresh
BY DEF store, LastRefresh

LEMMA NothingMapped ==
  ASSUME UNCHANGED <<store, settings, now>>, handed' = <<>>
  PROVE  Registry!RNothing
BY SettingsMapped, StoreMapped DEF Registry!RNothing

\* The three ways to clear.
LEMMA DrainMapped ==
  ASSUME MgrInv, MonotoneClock, clear_element \/ get_all_element_and_clear \/ trigger_all_timeout
  PROVE  Registry!RDrain
<1>1. Drain /\ (handed' = <<>> \/ handed' = ElementsOf(m_busy_list))
  BY DEF clear_element, get_all_element_and_clear, trigger_all_timeout, CallBack
<1>2. UNCHANGED <<now, Registry!rconf>>
  BY <1>1, SettingsMapped DEF Drain
<1>3. LastRefresh' = [e \in Element |-> -1]
  <2>1. m_elements' = [e \in Element |-> NULL]
    BY <1>1 DEF Drain
  <2> QED BY <2>1 DEF LastRefresh
<1>4. CASE handed' = <<>>
  BY <1>2, <1>3, <1>4 DEF Registry!RDrain, Registry!Absent
<1>5. CASE handed' = ElementsOf(m_busy_list)
  <2> DEFINE es == ElementsOf(m_busy_list)
  <2>1. m_busy_list \in Seq(Node) /\ IsInjectiveSeq(m_busy_list)
    BY StoreFacts
  <2>2. /\ ToSet(es) = {m_node_pool[n].element : n \in ToSet(m_busy_list)}
        /\ Len(es) = Len(m_busy_list) /\ Len(m_busy_list) \in Nat
        /\ Len(es) = Cardinality({m_node_pool[n].element : n \in ToSet(m_busy_list)})
        /\ \A i \in 1..Len(m_busy_list) : LastRefresh[es[i]] = m_node_pool[m_busy_list[i]].time
    BY <2>1, ElementsEnumerate
  <2> HIDE DEF es
  <2>3. \A i, j \in 1..Len(es) : i < j => LastRefresh[es[i]] >= LastRefresh[es[j]]
    BY <2>2, SortedIsAged DEF Aged
  <2>4. Registry!Enumerates(es, Registry!Watched, Registry!NewestFirst)
    BY <2>2, <2>3, WatchedFacts, RegistryOperators DEF Registry!Enumerates, Registry!NewestFirst
  <2> QED BY <1>2, <1>3, <1>5, <2>4 DEF es, Registry!RDrain, Registry!Absent
<1> QED BY <1>1, <1>4, <1>5

\* The sweep takes just the expired elements, since the list is ordered by age.
LEMMA SweepMapped ==
  ASSUME MgrInv, MonotoneClock, handle_timeout
  PROVE  Registry!RSweep \/ Registry!RNothing
<1> DEFINE L == Len(m_busy_list)
<1>1. UNCHANGED <<settings, now>>
  BY DEF handle_timeout
<1>2. CASE ~m_timeout_flag /\ handed' = <<>> /\ UNCHANGED store
  BY <1>1, <1>2, NothingMapped
<1>3. ASSUME m_timeout_flag, NEW keep \in 0..L, NEW gone, gone = SubSeq(m_busy_list, keep + 1, L),
             \A n \in ToSet(gone) : Expired(n),
             keep # 0 => ~Expired(m_busy_list[keep]),
             handed' = CallBack(Reverse(gone)),
             m_elements' = Unmapped(gone), m_node_pool' = Destroyed(gone)
      PROVE  Registry!RSweep
  <2>1. m_busy_list \in Seq(Node) /\ L \in Nat /\ IsInjectiveSeq(m_busy_list)
    BY StoreFacts
  <2>2. /\ gone \in Seq(Node) /\ Len(gone) = L - keep /\ ToSet(gone) \subseteq ToSet(m_busy_list)
        /\ \A i \in 1..L - keep : gone[i] = m_busy_list[keep + i]
        /\ \A x : x \in ToSet(gone) <=> \E i \in keep + 1..L : m_busy_list[i] = x
    <3>1. keep + 1 \in Nat /\ 1 <= keep + 1 /\ L <= Len(m_busy_list) /\ keep + 1 <= L + 1 /\ L - (keep + 1) + 1 = L - keep
      BY <2>1
    <3>2. /\ gone \in Seq(Node) /\ Len(gone) = L - (keep + 1) + 1
          /\ \A i \in 1..L - (keep + 1) + 1 : gone[i] = m_busy_list[(keep + 1) + i - 1]
          /\ \A x : x \in ToSet(gone) <=> \E i \in keep + 1..L : m_busy_list[i] = x
      BY <1>3, <2>1, <3>1, SubSeqFacts
    <3>3. \A x : x \in ToSet(m_busy_list) <=> \E i \in 1..L : m_busy_list[i] = x
      BY <2>1, ToSetByIndex
    <3>4. keep + 1..L \subseteq 1..L
      BY <2>1
    <3>5. \A i \in 1..L - keep : gone[i] = m_busy_list[keep + i]
      <4>1. ASSUME NEW i \in 1..L - keep PROVE (keep + 1) + i - 1 = keep + i
        BY <2>1
      <4> QED BY <3>1, <3>2, <4>1
    <3>6. ToSet(gone) \subseteq ToSet(m_busy_list)
      BY <3>2, <3>3, <3>4
    <3> QED BY <3>1, <3>2, <3>5, <3>6
  <2> DEFINE G == {m_node_pool[n].element : n \in ToSet(gone)}
  <2>3. Registry!RExpired = G
    <3>1. m_timeout \in Nat /\ now \in Nat
      BY StoreFacts DEF MgrInv, MgrTypeOK
    <3>2. ASSUME NEW n \in ToSet(gone) PROVE m_node_pool[n].element \in Registry!RExpired
      <4>1. n \in ToSet(m_busy_list) /\ now >= m_node_pool[n].time + m_timeout
        BY <1>3, <2>2 DEF Expired
      <4> QED BY <4>1, WatchedFacts DEF Registry!RExpired
    <3>3. ASSUME NEW e \in Registry!RExpired PROVE e \in G
      <4>1. e \in Registry!Watched /\ now >= LastRefresh[e] + m_timeout
        BY DEF Registry!RExpired
      <4>2. PICK n \in ToSet(m_busy_list) : m_node_pool[n].element = e
        BY <4>1, WatchedFacts
      <4>3. PICK i \in 1..L : m_busy_list[i] = n
        BY <2>1, ToSetByIndex
      <4>4. LastRefresh[e] = m_node_pool[n].time /\ m_node_pool[n].time \in Nat
        BY <4>2, WatchedFacts
      <4>5. ASSUME i <= keep PROVE FALSE
        <5>1. keep \in 1..L /\ keep # 0 /\ m_busy_list[keep] \in ToSet(m_busy_list)
          BY <2>1, <4>3, <4>5, ToSetByIndex
        <5>2. m_node_pool[m_busy_list[keep]].time \in Nat
          BY <5>1, WatchedFacts
        <5>3. now < m_node_pool[m_busy_list[keep]].time + m_timeout
          BY <1>3, <3>1, <5>1, <5>2 DEF Expired
        <5>4. m_node_pool[m_busy_list[i]].time >= m_node_pool[m_busy_list[keep]].time
          <6>1. CASE i = keep
            BY <4>3, <4>4, <6>1
          <6>2. CASE i # keep
            <7>1. i < keep
              BY <4>5, <6>2
            <7> QED BY <5>1, <7>1, SortedIsAged DEF Aged
          <6> QED BY <6>1, <6>2
        <5> QED BY <3>1, <4>1, <4>3, <4>4, <5>2, <5>3, <5>4
      <4>6. i \in keep + 1..L
        BY <2>1, <4>5
      <4> QED BY <2>2, <4>2, <4>3, <4>6
    <3> QED BY <3>2, <3>3
  <2>4. LastRefresh' = [e \in Element |-> IF e \in G THEN -1 ELSE LastRefresh[e]]
    <3>1. \A e \in Element :
            (IF Unmapped(gone)[e] = NULL THEN -1 ELSE Destroyed(gone)[Unmapped(gone)[e]].time)
              = IF e \in G THEN -1 ELSE LastRefresh[e]
      BY <2>2, RemovedFromRegistry
    <3> QED BY <1>3, <3>1 DEF LastRefresh
  <2>5. m_callback_function => Registry!Enumerates(handed', G, Registry!OldestFirst)
    <3> SUFFICES ASSUME m_callback_function PROVE Registry!Enumerates(handed', G, Registry!OldestFirst)
      OBVIOUS
    <3> DEFINE r  == Reverse(gone)
               es == ElementsOf(r)
    <3>1. r \in Seq(Node) /\ ToSet(r) = ToSet(gone)
      BY <2>2, ReverseSet
    <3>2. Len(r) = Len(gone) /\ \A i \in 1..Len(gone) : r[i] = gone[Len(gone) - i + 1]
      BY <2>2 DEF Reverse
    <3> HIDE DEF r
    <3>3. ASSUME NEW i \in 1..Len(r)
          PROVE  L - i + 1 \in 1..L /\ r[i] = m_busy_list[L - i + 1]
      <4>1. L - keep - i + 1 \in 1..L - keep /\ keep + (L - keep - i + 1) = L - i + 1
        BY <2>1, <2>2, <3>2
      <4>2. Len(gone) - i + 1 = L - keep - i + 1
        BY <2>1, <2>2
      <4>3. r[i] = gone[L - keep - i + 1]
        BY <3>2, <4>2
      <4>4. r[i] = m_busy_list[L - i + 1]
        BY <2>2, <4>1, <4>3
      <4>5. L - i + 1 \in 1..L
        BY <2>1, <2>2, <3>2
      <4> QED BY <4>4, <4>5
    <3>4. Len(r) \in Nat /\ Len(r) <= L
      BY <2>1, <2>2, <3>2
    <3>5. IsInjectiveSeq(r)
      <4> SUFFICES ASSUME NEW i \in 1..Len(r), NEW j \in 1..Len(r), r[i] = r[j] PROVE i = j
        BY <3>1 DEF IsInjectiveSeq
      <4>1. m_busy_list[L - i + 1] = m_busy_list[L - j + 1]
        BY <3>3
      <4>2. L - i + 1 = L - j + 1
        BY <2>1, <3>3, <4>1 DEF IsInjectiveSeq
      <4> QED BY <2>1, <3>4, <4>2
    <3>6. /\ ToSet(es) = {m_node_pool[n].element : n \in ToSet(r)}
          /\ Len(es) = Len(r) /\ Len(r) \in Nat
          /\ Len(es) = Cardinality({m_node_pool[n].element : n \in ToSet(r)})
          /\ \A i \in 1..Len(r) : LastRefresh[es[i]] = m_node_pool[r[i]].time
      BY <2>2, <3>1, <3>5, ElementsEnumerate
    <3>7. handed' = es
      BY <1>3 DEF CallBack, r
    <3> HIDE DEF es
    <3>8. ASSUME NEW i \in 1..Len(es), NEW j \in 1..Len(es), i < j
          PROVE  LastRefresh[es[i]] <= LastRefresh[es[j]]
      <4>1. L - j + 1 < L - i + 1
        BY <2>1, <3>4, <3>6, <3>8
      <4>2. L - i + 1 \in 1..L /\ L - j + 1 \in 1..L
        BY <3>3, <3>6
      <4>3. m_node_pool[m_busy_list[L - j + 1]].time >= m_node_pool[m_busy_list[L - i + 1]].time
        BY <4>1, <4>2, SortedIsAged DEF Aged
      <4>4. /\ LastRefresh[es[i]] = m_node_pool[m_busy_list[L - i + 1]].time
            /\ LastRefresh[es[j]] = m_node_pool[m_busy_list[L - j + 1]].time
        BY <3>3, <3>6
      <4>5. m_busy_list[L - i + 1] \in ToSet(m_busy_list) /\ m_busy_list[L - j + 1] \in ToSet(m_busy_list)
        BY <4>2, StoreFacts
      <4>6. m_node_pool[m_busy_list[L - i + 1]].time \in Nat /\ m_node_pool[m_busy_list[L - j + 1]].time \in Nat
        BY <4>5, WatchedFacts
      <4> QED BY <4>3, <4>4, <4>6
    <3> QED BY <3>1, <3>6, <3>7, <3>8, RegistryOperators DEF Registry!Enumerates, Registry!OldestFirst
  <2>6. ~m_callback_function => handed' = <<>>
    BY <1>3 DEF CallBack
  <2>7. Registry!HandOut(handed', G, Registry!OldestFirst)
    BY <2>5, <2>6 DEF Registry!HandOut
  <2>8. UNCHANGED <<now, Registry!rconf>>
    BY <1>1, SettingsMapped
  <2> QED BY <1>3, <2>3, <2>4, <2>7, <2>8 DEF Registry!RSweep, Registry!Absent
<1> QED BY <1>2, <1>3 DEF handle_timeout

\* The victim of an eviction is the last of the list, which nobody is older than.
LEMMA VictimsMapped ==
  ASSUME MgrInv, MonotoneClock, ~(AtLimit /\ m_busy_list = <<>>)
  PROVE  /\ Victims \in Seq(Node) /\ ToSet(Victims) \subseteq ToSet(m_busy_list)
         /\ \E V \in {{}} \cup {{v} : v \in Registry!Watched} :
              /\ V = {m_node_pool[n].element : n \in ToSet(Victims)}
              /\ V # {} => m_max_limit_flag
              /\ \A v \in V, w \in Registry!Watched : LastRefresh[v] <= LastRefresh[w]
              /\ Registry!HandOut(CallBack(Victims), V, Registry!OldestFirst)
<1> DEFINE L == Len(m_busy_list)
<1>1. m_busy_list \in Seq(Node) /\ L \in Nat
  BY StoreFacts
<1>2. CASE ~AtLimit
  <2>1. Victims = <<>> /\ ToSet(Victims) = {} /\ Victims \in Seq(Node)
    BY <1>2 DEF Victims, ToSet
  <2>2. CallBack(Victims) = <<>>
    BY <2>1 DEF CallBack, ElementsOf
  <2>3. {m_node_pool[n].element : n \in ToSet(Victims)} = {}
    BY <2>1
  <2>4. Registry!Enumerates(<<>>, {}, Registry!OldestFirst)
    <3>1. ToSet(<<>>) = {} /\ Len(<<>>) = 0 /\ Cardinality({}) = 0
      BY FS_EmptySet DEF ToSet
    <3> QED BY <3>1, RegistryOperators DEF Registry!Enumerates
  <2>5. Registry!HandOut(CallBack(Victims), {}, Registry!OldestFirst)
    BY <2>2, <2>4 DEF Registry!HandOut
  <2> QED BY <2>1, <2>3, <2>5
<1>3. CASE AtLimit
  <2> DEFINE last == m_busy_list[L]
             v    == m_node_pool[last].element
  <2>1. L \in 1..L
    BY <1>1, <1>3
  <2>2. last \in ToSet(m_busy_list) /\ last \in Node
    BY <2>1, StoreFacts
  <2>3. Victims = <<last>>
    BY <1>3 DEF Victims
  <2>4. v \in Registry!Watched /\ LastRefresh[v] = m_node_pool[last].time /\ m_node_pool[last].time \in Nat
    BY <2>2, WatchedFacts
  <2>5. ASSUME NEW w \in Registry!Watched PROVE LastRefresh[v] <= LastRefresh[w]
    <3>1. PICK n \in ToSet(m_busy_list) : m_node_pool[n].element = w
      BY WatchedFacts
    <3>2. PICK i \in 1..L : m_busy_list[i] = n
      BY <1>1, ToSetByIndex
    <3>3. LastRefresh[w] = m_node_pool[n].time /\ m_node_pool[n].time \in Nat
      BY <3>1, WatchedFacts
    <3>4. CASE i = L
      BY <2>4, <3>2, <3>3, <3>4
    <3>5. CASE i # L
      <4>1. i < L
        BY <1>1, <3>5
      <4>2. m_node_pool[m_busy_list[i]].time >= m_node_pool[m_busy_list[L]].time
        BY <2>1, <4>1, SortedIsAged DEF Aged
      <4> QED BY <2>4, <3>2, <3>3, <4>2
    <3> QED BY <3>4, <3>5
  <2> HIDE DEF last
  <2>6. Victims \in Seq(Node) /\ ToSet(Victims) = {last} /\ Len(Victims) = 1 /\ Victims[1] = last
    BY <2>2, <2>3 DEF ToSet
  <2>7. {m_node_pool[n].element : n \in ToSet(Victims)} = {v}
    BY <2>6
  <2>8. ElementsOf(Victims) = <<v>>
    BY <2>3 DEF ElementsOf
  <2> HIDE DEF v
  <2>9. Registry!Enumerates(<<v>>, {v}, Registry!OldestFirst)
    <3>1. ToSet(<<v>>) = {v} /\ Len(<<v>>) = 1
      BY DEF ToSet
    <3>2. Cardinality({v}) = 1
      BY FS_Singleton
    <3>3. \A i, j \in 1..Len(<<v>>) : ~(i < j)
      OBVIOUS
    <3> QED BY <3>1, <3>2, <3>3, RegistryOperators DEF Registry!Enumerates
  <2>10. Registry!HandOut(CallBack(Victims), {v}, Registry!OldestFirst)
    BY <2>8, <2>9 DEF Registry!HandOut, CallBack
  <2>11. m_max_limit_flag
    BY <1>3 DEF AtLimit
  <2>12. {v} \in {{}} \cup {{x} : x \in Registry!Watched}
    BY <2>4
  <2> QED BY <2>2, <2>4, <2>5, <2>6, <2>7, <2>10, <2>11, <2>12
<1> QED BY <1>2, <1>3

LEMMA AddMapped ==
  ASSUME MgrInv, MonotoneClock, NEW e \in Element, add_element(e)
  PROVE  Registry!RAdd(e) \/ Registry!RNothing
<1>1. CASE add_existing(e)
  BY <1>1, NothingMapped DEF add_existing
<1>2. CASE add_null_victim(e)
  BY <1>2, NothingMapped DEF add_null_victim
<1>3. CASE add_no_memory(e) \/ add_new(e)
  <2>1. /\ m_elements[e] = NULL /\ ~(AtLimit /\ m_busy_list = <<>>) /\ handed' = CallBack(Victims)
        /\ UNCHANGED <<settings, now>>
    BY <1>3 DEF add_no_memory, add_new
  <2>2. e \notin Registry!Watched
    BY <2>1, WatchedFacts
  <2>3. Victims \in Seq(Node) /\ ToSet(Victims) \subseteq ToSet(m_busy_list)
    BY <2>1, VictimsMapped
  <2>4. PICK V \in {{}} \cup {{v} : v \in Registry!Watched} :
          /\ V = {m_node_pool[n].element : n \in ToSet(Victims)}
          /\ V # {} => m_max_limit_flag
          /\ \A v \in V, w \in Registry!Watched : LastRefresh[v] <= LastRefresh[w]
          /\ Registry!HandOut(CallBack(Victims), V, Registry!OldestFirst)
    BY <2>1, VictimsMapped
  <2>5. UNCHANGED <<now, Registry!rconf>>
    BY <2>1, SettingsMapped
  <2>6. \A x \in Element :
          (IF Unmapped(Victims)[x] = NULL THEN -1 ELSE Destroyed(Victims)[Unmapped(Victims)[x]].time)
            = IF x \in V THEN -1 ELSE LastRefresh[x]
    BY <2>3, <2>4, RemovedFromRegistry
  <2>7. CASE add_no_memory(e)
    <3>1. m_elements' = Unmapped(Victims) /\ m_node_pool' = Destroyed(Victims)
      BY <2>7 DEF add_no_memory
    <3>2. LastRefresh' = [x \in Element |-> IF x \in V THEN -1 ELSE LastRefresh[x]]
      BY <2>6, <3>1 DEF LastRefresh
    <3> QED BY <2>1, <2>2, <2>4, <2>5, <3>2 DEF Registry!RAdd, Registry!Absent
  <2>8. CASE add_new(e)
    <3>1. PICK n \in Node :
            /\ Destroyed(Victims)[n] = Unused
            /\ m_node_pool' = Constructed(Destroyed(Victims), n, e)
            /\ m_elements' = [Unmapped(Victims) EXCEPT ![e] = n]
      BY <2>8 DEF add_new
    <3>2. n # NULL
      BY ElementMgrAssumption
    <3>3. /\ StoreType(Unmapped(Victims), ToSet(Roomy), Destroyed(Victims))
          /\ Consistent(Unmapped(Victims), ToSet(Roomy), Destroyed(Victims))
      BY <2>1, RoomFacts
    <3>4. Unmapped(Victims) \in [Element -> Node \cup {NULL}] /\ Destroyed(Victims) \in [Node -> NodeData]
      BY <3>3 DEF StoreType
    <3>5. m_elements'[e] = n /\ m_node_pool'[n] = [element |-> e, time |-> now]
      BY <3>1, <3>4 DEF Constructed
    <3>6. ASSUME NEW x \in Element, x # e
          PROVE  /\ m_elements'[x] = Unmapped(Victims)[x]
                 /\ m_elements'[x] # NULL =>
                      m_node_pool'[m_elements'[x]] = Destroyed(Victims)[Unmapped(Victims)[x]]
      <4>1. m_elements'[x] = Unmapped(Victims)[x]
        BY <3>1, <3>4, <3>6
      <4>2. ASSUME m_elements'[x] # NULL PROVE Unmapped(Victims)[x] # n /\ Unmapped(Victims)[x] \in Node
        <5>1. Destroyed(Victims)[Unmapped(Victims)[x]].element = x /\ Unmapped(Victims)[x] \in Node
          BY <3>3, <3>4, <4>1, <4>2 DEF Consistent
        <5>2. Destroyed(Victims)[n].element = NULL
          BY <3>1 DEF Unused
        <5> QED BY <5>1, <5>2, ElementMgrAssumption
      <4>3. ASSUME m_elements'[x] # NULL
            PROVE  m_node_pool'[m_elements'[x]] = Destroyed(Victims)[Unmapped(Victims)[x]]
        BY <3>1, <3>4, <4>1, <4>2, <4>3 DEF Constructed
      <4> QED BY <4>1, <4>3
    <3>7. ASSUME NEW x \in Element
          PROVE  (IF m_elements'[x] = NULL THEN -1 ELSE m_node_pool'[m_elements'[x]].time)
                   = IF x = e THEN now ELSE IF x \in V THEN -1 ELSE LastRefresh[x]
      <4>1. CASE x = e
        BY <3>2, <3>5, <4>1
      <4>2. CASE x # e
        BY <2>6, <3>6, <4>2
      <4> QED BY <4>1, <4>2
    <3>8. LastRefresh' = [x \in Element |-> IF x = e THEN now ELSE IF x \in V THEN -1 ELSE LastRefresh[x]]
      BY <3>7 DEF LastRefresh
    <3> QED BY <2>1, <2>2, <2>4, <2>5, <3>8 DEF Registry!RAdd, Registry!Absent
  <2> QED BY <1>3, <2>7, <2>8
<1> QED BY <1>1, <1>2, <1>3 DEF add_element

LEMMA UpdateMapped ==
  ASSUME MgrInv, NEW e \in Element, update_element(e)
  PROVE  Registry!RUpdate(e) \/ Registry!RNothing
<1>1. handed' = <<>> /\ UNCHANGED <<settings, now>>
  BY DEF update_element
<1>2. CASE Untouched(e)
  BY <1>1, <1>2, NothingMapped DEF Untouched
<1>3. CASE Refreshed(e)
  <2>1. /\ m_elements[e] # NULL /\ UNCHANGED m_elements
        /\ m_node_pool' = [m_node_pool EXCEPT ![m_elements[e]].time = now]
    BY <1>3 DEF Refreshed
  <2>2. m_node_pool \in [Node -> NodeData] /\ m_elements[e] \in Node
    BY <2>1, StoreFacts DEF StoreType
  <2>3. m_node_pool'[m_elements[e]].time = now
    BY <2>1, <2>2 DEF NodeData
  <2>4. ASSUME NEW x \in Element, x # e, m_elements[x] # NULL
        PROVE  m_node_pool'[m_elements[x]] = m_node_pool[m_elements[x]]
    <3>1. m_elements[x] # m_elements[e]
      BY <2>1, <2>4, WatchedFacts
    <3> QED BY <2>1, <2>2, <3>1
  <2>5. LastRefresh' = [x \in Element |-> IF x = e THEN now ELSE LastRefresh[x]]
    <3>1. ASSUME NEW x \in Element
          PROVE  (IF m_elements[x] = NULL THEN -1 ELSE m_node_pool'[m_elements[x]].time)
                   = IF x = e THEN now ELSE LastRefresh[x]
      <4>1. CASE x = e
        BY <2>1, <2>3, <4>1
      <4>2. CASE x # e
        BY <2>4, <4>2, WatchedFacts
      <4> QED BY <4>1, <4>2
    <3>2. UNCHANGED m_elements
      BY <2>1
    <3> QED BY <3>1, <3>2 DEF LastRefresh
  <2>6. LastRefresh' = [LastRefresh EXCEPT ![e] = now]
    BY <2>5 DEF LastRefresh
  <2> QED BY <1>1, <2>1, <2>6, WatchedFacts, SettingsMapped DEF Registry!RUpdate
<1> QED BY <1>2, <1>3 DEF update_element

LEMMA DeleteMapped ==
  ASSUME MgrInv, NEW e \in Element, del_element(e)
  PROVE  Registry!RDelete(e) \/ Registry!RNothing
<1>1. handed' = <<>> /\ UNCHANGED <<settings, now>>
  BY DEF del_element
<1>2. CASE Untouched(e)
  BY <1>1, <1>2, NothingMapped DEF Untouched
<1>3. CASE Deleted(e)
  <2>1. /\ m_elements[e] # NULL /\ m_elements' = [m_elements EXCEPT ![e] = NULL]
        /\ m_node_pool' = Destroyed(<<m_elements[e]>>)
    BY <1>3 DEF Deleted
  <2>2. /\ m_elements \in [Element -> Node \cup {NULL}] /\ m_elements[e] \in Node
    BY <2>1, StoreFacts DEF StoreType
  <2>3. ASSUME NEW x \in Element, x # e, m_elements[x] # NULL
        PROVE  m_node_pool'[m_elements[x]] = m_node_pool[m_elements[x]]
    <3>1. m_elements[x] # m_elements[e] /\ m_elements[x] \in Node
      BY <2>1, <2>2, <2>3, WatchedFacts
    <3>2. ToSet(<<m_elements[e]>>) = {m_elements[e]}
      BY DEF ToSet
    <3> QED BY <2>1, <3>1, <3>2 DEF Destroyed
  <2>4. LastRefresh' = [x \in Element |-> IF x = e THEN -1 ELSE LastRefresh[x]]
    BY <2>1, <2>2, <2>3 DEF LastRefresh
  <2>5. LastRefresh' = [LastRefresh EXCEPT ![e] = -1]
    BY <2>4 DEF LastRefresh
  <2> QED BY <1>1, <2>1, <2>5, WatchedFacts, SettingsMapped DEF Registry!RDelete, Registry!Absent
<1> QED BY <1>2, <1>3 DEF del_element

\* set_timeout is the only one to set m_timeout.
TimeoutIsSet == m_timeout \in Timeouts \cup {0}

LEMMA TimeoutStaysSet ==
  ASSUME TimeoutIsSet, [MgrNext]_mgrVars
  PROVE  TimeoutIsSet'
<1>1. CASE Configure
  BY <1>1 DEF Configure, set_callback_function, set_timeout, set_max_limit, TimeoutIsSet
<1>2. CASE UNCHANGED settings
  BY <1>2 DEF settings, TimeoutIsSet
<1>3. \A e \in Element : add_element(e) \/ update_element(e) \/ del_element(e) => UNCHANGED settings
  BY DEF add_element, add_existing, add_null_victim, add_no_memory, add_new, update_element, del_element
<1>4. handle_timeout \/ clear_element \/ get_all_element_and_clear \/ trigger_all_timeout \/ Tick
        => UNCHANGED settings
  BY DEF handle_timeout, clear_element, get_all_element_and_clear, trigger_all_timeout, Drain, Tick
<1>5. UNCHANGED mgrVars => UNCHANGED settings
  BY DEF mgrVars
<1> QED BY <1>1, <1>2, <1>3, <1>4, <1>5 DEF MgrNext

LEMMA ConfigureMapped ==
  ASSUME MgrInv, TimeoutIsSet, Configure
  PROVE  Registry!RConfigure
<1>1. UNCHANGED <<store, now>> /\ handed' = <<>> /\ m_busy_list = <<>>
  BY DEF Configure, set_callback_function, set_timeout, set_max_limit
<1>2. /\ m_callback_function' \in BOOLEAN /\ m_timeout_flag' \in BOOLEAN
      /\ m_timeout' \in Timeouts \cup {0} /\ m_max_limit_flag' \in BOOLEAN
  BY DEF Configure, set_callback_function, set_timeout, set_max_limit, MgrInv, MgrTypeOK, TimeoutIsSet
<1>3. Registry!Watched = {}
  <2>1. ToSet(m_busy_list) = {}
    BY <1>1 DEF ToSet
  <2> QED BY <2>1, WatchedFacts
<1> QED BY <1>1, <1>2, <1>3, StoreMapped DEF Registry!RConfigure

LEMMA TickMapped ==
  ASSUME MgrInv, MonotoneClock, Tick
  PROVE  Registry!RTick
<1>1. UNCHANGED <<store, settings>> /\ handed' = <<>> /\ now' = now + 1
  BY DEF Tick
<1>2. now \in Nat
  BY StoreFacts
<1>3. UNCHANGED Registry!rconf
  BY <1>1 DEF settings, Registry!rconf
<1>4. LastRefresh' = LastRefresh
  BY <1>1, StoreMapped
<1> QED BY <1>1, <1>2, <1>3, <1>4 DEF Registry!RTick

LEMMA StepIsRegistryStep ==
  ASSUME MgrInv, TimeoutIsSet, MonotoneClock, [MgrNext]_mgrVars
  PROVE  [Registry!RNext]_(Registry!rvars)
<1> USE DEF Registry!RNext
<1>1. CASE Configure
  BY <1>1, ConfigureMapped
<1>2. ASSUME NEW e \in Element, add_element(e) \/ update_element(e) \/ del_element(e)
      PROVE  Registry!RNext
  BY <1>2, AddMapped, UpdateMapped, DeleteMapped
<1>3. CASE handle_timeout
  BY <1>3, SweepMapped
<1>4. CASE clear_element \/ get_all_element_and_clear \/ trigger_all_timeout
  BY <1>4, DrainMapped
<1>5. CASE Tick
  BY <1>5, TickMapped
<1>6. CASE UNCHANGED mgrVars
  <2>1. UNCHANGED <<store, settings, now>> /\ handed' = handed
    BY <1>6 DEF mgrVars
  <2> QED BY <2>1, StoreMapped, SettingsMapped DEF Registry!rvars
<1> QED BY <1>1, <1>2, <1>3, <1>4, <1>5, <1>6 DEF MgrNext

\* The manager implements the registry under a clock that is never stepped back, for
\* any number of elements: handle_timeout expels exactly the expired ones, oldest
\* first, add_element evicts one that nobody is older than, and only at a limit.
THEOREM MgrImplementsRegistry == MonotoneClock /\ MgrSpec => ImplementsRegistry
<1> SUFFICES ASSUME MonotoneClock PROVE MgrSpec => ImplementsRegistry
  OBVIOUS
<1>1. MgrInit => Registry!RInit
  <2> SUFFICES ASSUME MgrInit PROVE Registry!RInit
    OBVIOUS
  <2>1. LastRefresh = [e \in Element |-> -1]
    BY DEF MgrInit, LastRefresh
  <2> QED BY <2>1 DEF MgrInit, Registry!RInit, Registry!rconf, Registry!Absent
<1>2. MgrInit => TimeoutIsSet
  BY DEF MgrInit, TimeoutIsSet
<1>3. TimeoutIsSet /\ [MgrNext]_mgrVars => TimeoutIsSet'
  BY TimeoutStaysSet
<1>4. MgrInv /\ TimeoutIsSet /\ [MgrNext]_mgrVars => [Registry!RNext]_(Registry!rvars)
  BY StepIsRegistryStep
<1> QED BY <1>1, <1>2, <1>3, <1>4, MgrInvariant, PTL DEF MgrSpec, ImplementsRegistry, Registry!RSpec

-----------------------------------------------------------------------------
(* 3. The inductive invariant of the service.                              *)

\* What the queue of the io_service may hold.
Handler == Request \cup Command
OfKind(op) == {h \in Handler : h.op = op}

\* Where the threads are, and what they have left behind.
ThreadInv ==
  /\ thread = "none" => waits = 0 /\ Queued("timer") = 0 /\ ~stopped /\ m_busy_list = <<>>
  /\ thread = "exited" => stopped
  /\ stopped => m_busy_list = <<>>
  /\ thread = "running" => m_started
  /\ TimerChain

\* At most one request for the elements, and none once the flag is up.
VectorInv ==
  /\ Queued("get_all") <= 1
  /\ owner # "spinning" \/ m_get_element_flag => Queued("get_all") = 0

SvcInv == TypeOK /\ MgrInv /\ ThreadInv /\ VectorInv

-----------------------------------------------------------------------------
(* The queue of handlers.                                                  *)

LEMMA HandlerFacts ==
  /\ \A r \in Request : r \in Handler /\ r.op \in {"add", "update", "del"} /\ r.element \in Element
  /\ \A op \in {"get_all", "trigger", "stop", "timer"} : [op |-> op] \in Handler
  /\ \A op \in {"add", "update", "del"}, e \in Element : [op |-> op, element |-> e] \in Request
  /\ \A h \in Handler :
       /\ h.op \in {"add", "update", "del"} => h \in Request /\ h.element \in Element
       /\ h.op \in {"get_all", "trigger", "stop", "timer"} => h = [op |-> h.op]
BY DEF Handler, Request, Command

LEMMA QueuedCount ==
  ASSUME TypeOK, NEW op
  PROVE  /\ queue \in Seq(Handler)
         /\ Queued(op) = CountIn(queue, OfKind(op))
         /\ Queued(op) \in Nat
<1>1. queue \in Seq(Handler) /\ \A i \in 1..Len(queue) : queue[i] \in Handler
  BY DEF TypeOK, Handler
<1>2. {i \in 1..Len(queue) : queue[i].op = op}
        = {i \in 1..Len(queue) : queue[i] \in OfKind(op)}
  BY <1>1 DEF OfKind
<1>3. Queued(op) = CountIn(queue, OfKind(op))
  BY <1>2 DEF Queued, CountIn
<1> QED BY <1>1, <1>3, CountType

\* The same for the queue after a step.
LEMMA QueuedNext ==
  ASSUME queue' \in Seq(Handler), NEW op
  PROVE  Queued(op)' = CountIn(queue', OfKind(op))
<1>1. \A i \in 1..Len(queue') : queue'[i] \in Handler
  OBVIOUS
<1>2. {i \in 1..Len(queue') : queue'[i].op = op}
        = {i \in 1..Len(queue') : queue'[i] \in OfKind(op)}
  BY <1>1 DEF OfKind
<1> QED BY <1>2 DEF Queued, CountIn

\* A handler is queued.
LEMMA QueuedPost ==
  ASSUME TypeOK, NEW h \in Handler, queue' = Append(queue, h)
  PROVE  /\ queue' \in Seq(Handler)
         /\ \A op : Queued(op)' = Queued(op) + IF h.op = op THEN 1 ELSE 0
<1>1. queue \in Seq(Handler)
  BY QueuedCount
<1>2. queue' \in Seq(Handler)
  BY <1>1, AppendFacts
<1>3. ASSUME NEW op
      PROVE  Queued(op)' = Queued(op) + IF h.op = op THEN 1 ELSE 0
  <2>1. Queued(op) = CountIn(queue, OfKind(op)) /\ Queued(op)' = CountIn(queue', OfKind(op))
    BY <1>2, QueuedCount, QueuedNext
  <2>2. CountIn(queue', OfKind(op)) = CountIn(queue, OfKind(op)) + IF h \in OfKind(op) THEN 1 ELSE 0
    BY <1>1, CountAppend
  <2>3. h \in OfKind(op) <=> h.op = op
    BY DEF OfKind
  <2> QED BY <2>1, <2>2, <2>3
<1> QED BY <1>2, <1>3

\* The handler at the front is taken.
LEMMA QueuedRun ==
  ASSUME TypeOK, queue # <<>>
  PROVE  /\ Head(queue) \in Handler /\ Tail(queue) \in Seq(Handler)
         /\ \A op : Queued(op) = (IF Head(queue).op = op THEN 1 ELSE 0)
                                   + CountIn(Tail(queue), OfKind(op))
         /\ \A op : CountIn(Tail(queue), OfKind(op)) \in Nat
<1>1. queue \in Seq(Handler)
  BY QueuedCount
<1>2. Head(queue) \in Handler /\ Tail(queue) \in Seq(Handler)
  BY <1>1, TailFacts
<1>3. ASSUME NEW op
      PROVE  /\ Queued(op) = (IF Head(queue).op = op THEN 1 ELSE 0)
                               + CountIn(Tail(queue), OfKind(op))
             /\ CountIn(Tail(queue), OfKind(op)) \in Nat
  <2>1. Queued(op) = CountIn(queue, OfKind(op))
    BY QueuedCount
  <2>2. CountIn(queue, OfKind(op)) = (IF Head(queue) \in OfKind(op) THEN 1 ELSE 0) + CountIn(Tail(queue), OfKind(op))
    BY <1>1, CountTail
  <2>3. Head(queue) \in OfKind(op) <=> Head(queue).op = op
    BY <1>2 DEF OfKind
  <2>4. CountIn(Tail(queue), OfKind(op)) \in Nat
    BY <1>2, CountType
  <2> QED BY <2>1, <2>2, <2>3, <2>4
<1> QED BY <1>2, <1>3

\* n timer handlers behind the queue q.
LEMMA TimersBehind ==
  ASSUME NEW q \in Seq(Handler), NEW n \in Nat, queue' = q \o [i \in 1..n |-> TimerHandler]
  PROVE  /\ queue' \in Seq(Handler)
         /\ \A op : op # "timer" => Queued(op)' = CountIn(q, OfKind(op))
         /\ n = 0 => Queued("timer")' = CountIn(q, OfKind("timer"))
         /\ n = 1 => Queued("timer")' = CountIn(q, OfKind("timer")) + 1
<1> DEFINE t == [i \in 1..n |-> TimerHandler]
<1>0. TimerHandler \in Handler /\ TimerHandler.op = "timer"
  BY HandlerFacts DEF TimerHandler
<1>1. t \in Seq(Handler) /\ Len(t) = n /\ \A i \in 1..n : t[i] = TimerHandler
  BY <1>0
<1>2. queue' = q \o t
  OBVIOUS
<1> HIDE DEF t
<1>3. queue' \in Seq(Handler)
  BY <1>1, <1>2, ConcatFacts
<1>4. ASSUME NEW op
      PROVE  Queued(op)' = CountIn(q, OfKind(op)) + CountIn(t, OfKind(op))
  <2>1. CountIn(q \o t, OfKind(op)) = CountIn(q, OfKind(op)) + CountIn(t, OfKind(op))
    BY <1>1, CountConcat
  <2> QED BY <1>2, <1>3, <2>1, QueuedNext
<1>5. \A op : CountIn(q, OfKind(op)) \in Nat
  BY CountType
<1>6. ASSUME NEW op, op # "timer" PROVE CountIn(t, OfKind(op)) = 0
  <2>1. \A i \in 1..Len(t) : t[i] \notin OfKind(op)
    BY <1>0, <1>1, <1>6 DEF OfKind
  <2> QED BY <1>1, <2>1, CountType
<1>7. ASSUME n = 0 PROVE CountIn(t, OfKind("timer")) = 0
  <2>1. \A i \in 1..Len(t) : t[i] \notin OfKind("timer")
    BY <1>1, <1>7
  <2> QED BY <1>1, <2>1, CountType
<1>8. ASSUME n = 1 PROVE CountIn(t, OfKind("timer")) = 1
  <2>1. t = <<TimerHandler>>
    BY <1>1, <1>8
  <2> QED BY <1>0, <2>1, CountSingle DEF OfKind
<1> QED BY <1>3, <1>4, <1>5, <1>6, <1>7, <1>8

-----------------------------------------------------------------------------
(* The steps of the service.                                               *)

\* Steps that leave the io_service alone: settings, the clock, stuttering.
LEMMA SvcFrame ==
  ASSUME SvcInv, MgrInv', UNCHANGED svcVars, m_busy_list' = m_busy_list
  PROVE  SvcInv'
<1>1. /\ UNCHANGED <<m_started, queue, stopped, waits, expires, thread, owner,
                     m_get_element_flag, starts>>
  BY DEF svcVars, ioVars
<1>2. \A op : Queued(op)' = Queued(op)
  BY <1>1 DEF Queued
<1>3. TypeOK'
  BY <1>1 DEF SvcInv, TypeOK, MgrInv
<1>4. ThreadInv' /\ VectorInv'
  BY <1>1, <1>2 DEF SvcInv, ThreadInv, TimerChain, VectorInv
<1> QED BY <1>3, <1>4 DEF SvcInv

\* What holds of the manager as long as its variables do not change.
LEMMA MgrFrame ==
  ASSUME MgrInv, UNCHANGED mgrVars
  PROVE  MgrInv' /\ m_busy_list' = m_busy_list
BY MgrNextInv DEF mgrVars, store

\* A request of a client, or one to expel everything.
LEMMA PostInv ==
  ASSUME SvcInv, NEW h \in Handler, h.op \in {"add", "update", "del", "trigger"}, post(h),
         UNCHANGED <<mgrVars, m_started, stopped, waits, expires, thread, owner,
                     m_get_element_flag, starts>>
  PROVE  SvcInv'
<1>0. TypeOK /\ MgrInv
  BY DEF SvcInv
<1>1. queue' \in Seq(Handler)
  BY <1>0, QueuedPost DEF post
<1>2. Queued("timer")' = Queued("timer") /\ Queued("get_all")' = Queued("get_all")
  <2>1. \A op : Queued(op)' = Queued(op) + IF h.op = op THEN 1 ELSE 0
    BY <1>0, QueuedPost DEF post
  <2>2. Queued("timer") \in Nat /\ Queued("get_all") \in Nat
    BY <1>0, QueuedCount
  <2>3. h.op # "timer" /\ h.op # "get_all"
    OBVIOUS
  <2> QED BY <2>1, <2>2, <2>3
<1>3. MgrInv' /\ m_busy_list' = m_busy_list
  BY <1>0, MgrFrame
<1>4. TypeOK'
  BY <1>0, <1>1, <1>3 DEF TypeOK, MgrInv, Handler
<1>5. ThreadInv' /\ VectorInv'
  BY <1>2, <1>3 DEF SvcInv, ThreadInv, TimerChain, VectorInv
<1> QED BY <1>3, <1>4, <1>5 DEF SvcInv

\* A service that is not started has no elements: nothing survives a stop.
LEMMA EmptyWhenStopped ==
  ASSUME SvcInv, ~m_started
  PROVE  m_busy_list = <<>>
BY DEF SvcInv, TypeOK, ThreadInv

LEMMA StartInv ==
  ASSUME SvcInv, start
  PROVE  SvcInv'
<1>0. TypeOK /\ MgrInv /\ ThreadInv /\ waits \in Nat /\ queue \in Seq(Handler)
  BY QueuedCount DEF SvcInv, TypeOK
<1>1. /\ ~m_started /\ m_started' = TRUE /\ thread' = "running" /\ waits' = 1
      /\ queue' = queue \o [i \in 1..waits |-> TimerHandler]
      /\ expires' = now + Ticks /\ starts' = starts + 1
      /\ UNCHANGED <<mgrVars, stopped, owner, m_get_element_flag>>
  BY DEF start, Rearm
<1>2. MgrInv' /\ m_busy_list' = m_busy_list
  BY <1>0, <1>1, MgrFrame
<1>3. queue' \in Seq(Handler)
  BY <1>0, <1>1, TimersBehind
<1>4. Queued("get_all")' = Queued("get_all")
  BY <1>0, <1>1, TimersBehind, QueuedCount
<1>5. TypeOK'
  <2>1. now + Ticks \in Nat
    BY <1>0, ServiceAssumption, ElementMgrAssumption DEF MgrInv, MgrTypeOK, Time
  <2> QED BY <1>0, <1>1, <1>2, <1>3, <2>1 DEF TypeOK, MgrInv, Handler
<1>6. VectorInv'
  BY <1>1, <1>4 DEF SvcInv, VectorInv
<1>7. TimerChain'
  <2> SUFFICES ASSUME ~stopped' PROVE 1 + Queued("timer")' = 1
    BY <1>1 DEF TimerChain
  <2>1. thread = "none"
    BY <1>0, <1>1 DEF ThreadInv, TypeOK
  <2>2. waits = 0 /\ Queued("timer") = 0
    BY <1>0, <2>1 DEF ThreadInv
  <2>3. Queued("timer")' = 0
    BY <1>0, <1>1, <2>2, TimersBehind, QueuedCount
  <2> QED BY <2>3
<1>8. stopped => m_busy_list = <<>>
  BY <1>0 DEF ThreadInv
<1> QED BY <1>1, <1>2, <1>5, <1>6, <1>7, <1>8 DEF SvcInv, ThreadInv

LEMMA TimerFiresInv ==
  ASSUME SvcInv, TimerFires
  PROVE  SvcInv'
<1>0. /\ TypeOK /\ MgrInv /\ ThreadInv /\ waits \in Nat /\ queue \in Seq(Handler)
      /\ Queued("timer") \in Nat
  BY QueuedCount DEF SvcInv, TypeOK
<1>1. /\ thread = "running" /\ ~stopped /\ waits > 0 /\ waits' = 0
      /\ queue' = queue \o [i \in 1..waits |-> TimerHandler]
      /\ UNCHANGED <<mgrVars, m_started, stopped, expires, thread, owner, m_get_element_flag, starts>>
  BY DEF TimerFires
<1>2. MgrInv' /\ m_busy_list' = m_busy_list
  BY <1>0, <1>1, MgrFrame
<1>3. queue' \in Seq(Handler) /\ Queued("get_all")' = Queued("get_all")
  BY <1>0, <1>1, TimersBehind, QueuedCount
<1>4. waits = 1 /\ Queued("timer") = 0
  BY <1>0, <1>1 DEF ThreadInv, TimerChain
<1>5. Queued("timer")' = 1
  <2>1. waits = 1 => Queued("timer")' = CountIn(queue, OfKind("timer")) + 1
    BY <1>0, <1>1, TimersBehind
  <2>2. Queued("timer") = CountIn(queue, OfKind("timer"))
    BY <1>0, QueuedCount
  <2> QED BY <1>4, <2>1, <2>2
<1>6. TypeOK'
  BY <1>0, <1>1, <1>2, <1>3 DEF TypeOK, MgrInv, Handler
<1> QED BY <1>0, <1>1, <1>2, <1>3, <1>5, <1>6 DEF SvcInv, ThreadInv, TimerChain, VectorInv

\* The handlers are steps of the manager.
LEMMA HandlerIsMgrStep ==
  ASSUME TypeOK, ~crashed, RunHandler
  PROVE  MgrNext
<1>1. Head(queue) \in Handler
  BY QueuedRun DEF RunHandler
<1>2. CASE Serve
  BY <1>1, <1>2, HandlerFacts DEF Serve, MgrNext
<1>3. CASE get_all_i \/ stop_service \/ timer_i
  BY <1>3 DEF get_all_i, stop_service, timer_i, MgrNext
<1> QED BY <1>2, <1>3 DEF RunHandler

LEMMA RunHandlerInv ==
  ASSUME SvcInv, ~crashed, RunHandler
  PROVE  SvcInv'
<1>0. /\ TypeOK /\ MgrInv /\ ThreadInv /\ VectorInv /\ waits \in Nat
      /\ thread = "running" /\ ~stopped /\ queue # <<>>
  BY DEF SvcInv, RunHandler, TypeOK
<1>1. MgrInv'
  BY <1>0, HandlerIsMgrStep, MgrNextInv
<1>2. Head(queue) \in Handler /\ Tail(queue) \in Seq(Handler)
  BY <1>0, QueuedRun
<1>3. /\ Queued("timer") = (IF Head(queue).op = "timer" THEN 1 ELSE 0)
                             + CountIn(Tail(queue), OfKind("timer"))
      /\ Queued("get_all") = (IF Head(queue).op = "get_all" THEN 1 ELSE 0)
                               + CountIn(Tail(queue), OfKind("get_all"))
      /\ CountIn(Tail(queue), OfKind("timer")) \in Nat
      /\ CountIn(Tail(queue), OfKind("get_all")) \in Nat
  BY <1>0, QueuedRun
<1>4. waits + Queued("timer") = 1 /\ m_started
  BY <1>0 DEF ThreadInv, TimerChain
<1>5. CASE Serve \/ get_all_i \/ stop_service
  <2>1. /\ queue' = Tail(queue) /\ Head(queue).op # "timer"
        /\ UNCHANGED <<m_started, waits, expires, thread, owner, starts>>
    BY <1>5 DEF Serve, get_all_i, stop_service
  <2>2. /\ Queued("timer")' = CountIn(Tail(queue), OfKind("timer"))
        /\ Queued("get_all")' = CountIn(Tail(queue), OfKind("get_all"))
    BY <1>2, <2>1, QueuedNext
  <2>3. waits' + Queued("timer")' = 1
    BY <1>3, <1>4, <2>1, <2>2
  <2>4. /\ m_get_element_flag' \in BOOLEAN /\ stopped' \in BOOLEAN
        /\ stopped' => m_busy_list' = <<>>
    <3>1. CASE Serve
      BY <1>0, <3>1 DEF Serve, TypeOK
    <3>2. CASE get_all_i
      BY <1>0, <3>2 DEF get_all_i, TypeOK
    <3>3. CASE stop_service
      BY <1>0, <3>3 DEF stop_service, clear_element, Drain, TypeOK
    <3> QED BY <1>5, <3>1, <3>2, <3>3
  <2>5. TypeOK'
    BY <1>0, <1>1, <1>2, <2>1, <2>4 DEF TypeOK, MgrInv, Handler
  <2>6. VectorInv'
    <3>1. CASE get_all_i
      <4>1. Queued("get_all")' = 0
        BY <1>0, <1>3, <2>2, <3>1 DEF get_all_i, VectorInv
      <4> QED BY <4>1 DEF VectorInv
    <3>2. CASE Serve \/ stop_service
      <4>1. Queued("get_all")' = Queued("get_all") /\ UNCHANGED m_get_element_flag
        BY <1>3, <2>2, <3>2 DEF Serve, stop_service
      <4> QED BY <1>0, <2>1, <4>1 DEF VectorInv
    <3> QED BY <1>5, <3>1, <3>2
  <2>7. ThreadInv'
    BY <1>0, <1>4, <2>1, <2>3, <2>4 DEF ThreadInv, TimerChain
  <2> QED BY <1>1, <2>5, <2>6, <2>7 DEF SvcInv
<1>6. CASE timer_i
  <2>1. /\ queue' = Tail(queue) \o [i \in 1..waits |-> TimerHandler]
        /\ waits' = 1 /\ expires' = expires + Ticks /\ Head(queue).op = "timer"
        /\ UNCHANGED <<m_started, stopped, thread, owner, m_get_element_flag, starts>>
    BY <1>6 DEF timer_i, Rearm
  <2>2. waits = 0 /\ CountIn(Tail(queue), OfKind("timer")) = 0
    BY <1>0, <1>3, <1>4, <2>1
  <2>3. queue' \in Seq(Handler) /\ Queued("timer")' = 0
    <3>1. /\ queue' \in Seq(Handler)
          /\ waits = 0 => Queued("timer")' = CountIn(Tail(queue), OfKind("timer"))
      BY <1>0, <1>2, <2>1, TimersBehind
    <3> QED BY <2>2, <3>1
  <2>4. Queued("get_all")' = Queued("get_all")
    <3>1. Queued("get_all")' = CountIn(Tail(queue), OfKind("get_all"))
      BY <1>0, <1>2, <2>1, TimersBehind
    <3>2. Queued("get_all") = CountIn(Tail(queue), OfKind("get_all"))
      BY <1>3, <2>1
    <3> QED BY <3>1, <3>2
  <2>5. TypeOK'
    <3>1. expires' \in Nat
      BY <1>0, <2>1, ServiceAssumption DEF TypeOK
    <3> QED BY <1>0, <1>1, <2>1, <2>3, <3>1 DEF TypeOK, MgrInv, Handler
  <2>6. VectorInv'
    BY <1>0, <2>1, <2>4 DEF VectorInv
  <2>7. ThreadInv'
    BY <1>0, <1>4, <2>1, <2>3 DEF ThreadInv, TimerChain
  <2> QED BY <1>1, <2>5, <2>6, <2>7 DEF SvcInv
<1> QED BY <1>5, <1>6 DEF RunHandler

LEMMA OwnerInv ==
  ASSUME SvcInv, ~crashed, Owner
  PROVE  SvcInv'
<1>0. TypeOK /\ MgrInv /\ ThreadInv /\ VectorInv
  BY DEF SvcInv
<1>1. CASE set_settings
  <2>1. Configure /\ UNCHANGED svcVars
    BY <1>1, EmptyWhenStopped DEF set_settings, Configure
  <2>2. MgrInv'
    BY <1>0, <2>1, ConfigureInv
  <2>3. m_busy_list' = m_busy_list
    BY <2>1 DEF Configure, set_callback_function, set_timeout, set_max_limit, store
  <2> QED BY <2>1, <2>2, <2>3, SvcFrame
<1>2. CASE stop
  <2>1. /\ queue' = Append(queue, [op |-> "stop"]) /\ [op |-> "stop"] \in Handler
        /\ owner = "idle" /\ owner' = "joining"
        /\ UNCHANGED <<mgrVars, m_started, stopped, waits, expires, thread, m_get_element_flag, starts>>
    BY <1>2, HandlerFacts DEF stop, post
  <2>2. MgrInv' /\ m_busy_list' = m_busy_list
    BY <1>0, <2>1, MgrFrame
  <2>3. /\ queue' \in Seq(Handler)
        /\ Queued("timer")' = Queued("timer") + 0 /\ Queued("get_all")' = Queued("get_all") + 0
    BY <1>0, <2>1, QueuedPost
  <2>4. Queued("timer")' = Queued("timer") /\ Queued("get_all")' = Queued("get_all")
    BY <1>0, <2>3, QueuedCount
  <2>5. TypeOK'
    BY <1>0, <2>1, <2>2, <2>3 DEF TypeOK, MgrInv, Handler
  <2> QED BY <1>0, <2>1, <2>2, <2>4, <2>5 DEF SvcInv, ThreadInv, TimerChain, VectorInv
<1>3. CASE get_all
  <2>1. /\ queue' = Append(queue, [op |-> "get_all"]) /\ [op |-> "get_all"] \in Handler
        /\ owner = "idle" /\ owner' = "spinning" /\ m_get_element_flag' = FALSE
        /\ UNCHANGED <<mgrVars, m_started, stopped, waits, expires, thread, starts>>
    BY <1>3, HandlerFacts DEF get_all, post
  <2>2. MgrInv' /\ m_busy_list' = m_busy_list
    BY <1>0, <2>1, MgrFrame
  <2>3. /\ queue' \in Seq(Handler)
        /\ Queued("timer")' = Queued("timer") + 0 /\ Queued("get_all")' = Queued("get_all") + 1
    BY <1>0, <2>1, QueuedPost
  <2>4. Queued("timer")' = Queued("timer") /\ Queued("get_all") = 0
    BY <1>0, <2>1, <2>3, QueuedCount DEF VectorInv
  <2>5. TypeOK'
    BY <1>0, <2>1, <2>2, <2>3 DEF TypeOK, MgrInv, Handler
  <2>6. VectorInv'
    BY <2>1, <2>3, <2>4 DEF VectorInv
  <2> QED BY <1>0, <2>1, <2>2, <2>4, <2>5, <2>6 DEF SvcInv, ThreadInv, TimerChain
<1>4. CASE stop_joined \/ get_all_done
  <2>1. /\ UNCHANGED <<mgrVars, queue, stopped, waits, expires, thread, m_get_element_flag, starts>>
        /\ owner' = "idle" /\ (m_started' = m_started \/ (m_started' = FALSE /\ thread = "exited"))
        /\ owner = "spinning" => m_get_element_flag
    BY <1>4 DEF stop_joined, get_all_done, ioVars
  <2>2. MgrInv' /\ m_busy_list' = m_busy_list
    BY <1>0, <2>1, MgrFrame
  <2>3. \A op : Queued(op)' = Queued(op)
    BY <2>1 DEF Queued
  <2>4. TypeOK'
    BY <1>0, <2>1, <2>2 DEF TypeOK, MgrInv
  <2> QED BY <1>0, <2>1, <2>2, <2>3, <2>4 DEF SvcInv, ThreadInv, TimerChain, VectorInv
<1>5. CASE trigger_all
  BY <1>5, HandlerFacts, PostInv DEF trigger_all
<1> QED BY <1>1, <1>2, <1>3, <1>4, <1>5, StartInv DEF Owner

LEMMA ThreadExitsInv ==
  ASSUME SvcInv, ThreadExits
  PROVE  SvcInv'
<1>0. TypeOK /\ MgrInv /\ ThreadInv /\ VectorInv
  BY DEF SvcInv
<1>1. /\ stopped /\ thread' = "exited"
      /\ UNCHANGED <<mgrVars, m_started, queue, stopped, waits, expires, owner, m_get_element_flag,
                     starts>>
  BY DEF ThreadExits, ioVars
<1>2. MgrInv' /\ m_busy_list' = m_busy_list
  BY <1>0, <1>1, MgrFrame
<1>3. \A op : Queued(op)' = Queued(op)
  BY <1>1 DEF Queued
<1>4. TypeOK'
  BY <1>0, <1>1, <1>2 DEF TypeOK, MgrInv
<1> QED BY <1>0, <1>1, <1>2, <1>3, <1>4 DEF SvcInv, ThreadInv, TimerChain, VectorInv

LEMMA ClockInv ==
  ASSUME SvcInv, ClockTicks
  PROVE  SvcInv'
<1>1. Tick /\ UNCHANGED svcVars /\ MgrInv
  BY DEF ClockTicks, SvcInv
<1>2. MgrInv'
  BY <1>1, TickInv
<1> QED BY <1>1, <1>2, SvcFrame DEF Tick, store

LEMMA SvcInitInv == Init => SvcInv
<1> SUFFICES ASSUME Init PROVE SvcInv
  OBVIOUS
<1>1. MgrInv /\ queue = <<>> /\ queue \in Seq(Handler)
  BY MgrInitInv DEF Init
<1>2. TypeOK
  BY <1>1 DEF Init, TypeOK, MgrInv, Handler
<1>3. Queued("timer") = 0 /\ Queued("get_all") = 0
  BY <1>1, <1>2, QueuedCount, CountEmpty
<1> QED BY <1>1, <1>2, <1>3 DEF Init, MgrInit, SvcInv, ThreadInv, TimerChain, VectorInv

LEMMA SvcNextInv == SvcInv /\ [Next]_vars => SvcInv'
<1> SUFFICES ASSUME SvcInv, [Next]_vars PROVE SvcInv'
  OBVIOUS
<1>1. CASE Next /\ Client
  <2>1. PICK r \in Request : async_request(r)
    BY <1>1 DEF Client
  <2> QED BY <2>1, HandlerFacts, PostInv DEF async_request
<1>2. CASE UNCHANGED vars
  <2>1. UNCHANGED mgrVars /\ UNCHANGED svcVars /\ MgrInv
    BY <1>2 DEF vars, SvcInv
  <2> QED BY <2>1, MgrFrame, SvcFrame
<1> QED BY <1>1, <1>2, OwnerInv, RunHandlerInv, ThreadExitsInv, TimerFiresInv, ClockInv DEF Next

\* A step of the service is one of the manager, or does not touch it.
LEMMA SvcStepsManager ==
  ASSUME SvcInv, [Next]_vars
  PROVE  [MgrNext]_mgrVars
<1>0. TypeOK
  BY DEF SvcInv
<1>1. CASE Next /\ set_settings
  <2>1. ~crashed /\ Configure
    BY <1>1, EmptyWhenStopped DEF Next, set_settings, Configure
  <2> QED BY <2>1 DEF MgrNext
<1>2. CASE Next /\ RunHandler
  BY <1>0, <1>2, HandlerIsMgrStep DEF Next
<1>3. CASE Next /\ ClockTicks
  BY <1>3 DEF Next, ClockTicks, MgrNext
<1>4. CASE UNCHANGED mgrVars
  BY <1>4
<1> QED BY <1>1, <1>2, <1>3, <1>4
  DEF Next, Owner, start, stop, stop_joined, get_all, get_all_done, trigger_all, Client,
      async_request, ThreadExits, TimerFires, vars

-----------------------------------------------------------------------------
(* Those who wait: the owner in stop() and in get_all_element_and_clear(). *)

WaitInv == WaitersAreAnswered /\ (m_started => thread # "none")

\* The requests the owner waits for, and everything else its waiting depends on.
LEMMA WaitFrame ==
  ASSUME WaitInv, UNCHANGED <<m_started, thread, owner, m_get_element_flag>>,
         stopped' = stopped \/ stopped',
         Queued("stop")' = Queued("stop") \/ stopped', Queued("get_all")' = Queued("get_all")
  PROVE  WaitInv'
BY DEF WaitInv, WaitersAreAnswered

LEMMA WaitRunStep ==
  ASSUME SvcInv, WaitInv, RunHandler
  PROVE  WaitInv'
<1>0. /\ TypeOK /\ VectorInv /\ waits \in Nat /\ queue # <<>>
      /\ UNCHANGED <<m_started, thread, owner>>
  BY DEF SvcInv, RunHandler, TypeOK, Serve, get_all_i, stop_service, timer_i
<1>1. /\ Tail(queue) \in Seq(Handler)
      /\ \A op : /\ Queued(op) = (IF Head(queue).op = op THEN 1 ELSE 0)
                                   + CountIn(Tail(queue), OfKind(op))
                 /\ CountIn(Tail(queue), OfKind(op)) \in Nat
  BY <1>0, QueuedRun
<1>2. ASSUME NEW op, op # "timer" PROVE Queued(op)' = CountIn(Tail(queue), OfKind(op))
  <2>1. CASE queue' = Tail(queue)
    BY <1>1, <2>1, QueuedNext
  <2>2. CASE queue' = Tail(queue) \o [i \in 1..waits |-> TimerHandler]
    BY <1>0, <1>1, <1>2, <2>2, TimersBehind
  <2> QED BY <2>1, <2>2 DEF RunHandler, Serve, get_all_i, stop_service, timer_i, Rearm
<1>3. ASSUME NEW op, op # "timer", Head(queue).op # op PROVE Queued(op)' = Queued(op)
  BY <1>1, <1>2, <1>3
<1>4. CASE Serve \/ timer_i
  <2>1. /\ Head(queue).op # "stop" /\ Head(queue).op # "get_all"
        /\ UNCHANGED <<stopped, m_get_element_flag>>
    BY <1>4 DEF Serve, timer_i
  <2>2. Queued("stop")' = Queued("stop") /\ Queued("get_all")' = Queued("get_all")
    BY <1>3, <2>1
  <2> QED BY <1>0, <2>1, <2>2, WaitFrame
<1>5. CASE get_all_i
  <2>1. Head(queue).op = "get_all" /\ m_get_element_flag' = TRUE /\ stopped' = stopped
    BY <1>5 DEF get_all_i
  <2>2. Queued("stop")' = Queued("stop")
    BY <1>3, <2>1
  <2>3. Queued("get_all")' = 0
    <3>1. /\ Queued("get_all") = 1 + CountIn(Tail(queue), OfKind("get_all"))
          /\ CountIn(Tail(queue), OfKind("get_all")) \in Nat
      BY <1>1, <2>1
    <3>2. Queued("get_all") <= 1
      BY <1>0 DEF VectorInv
    <3>3. Queued("get_all")' = CountIn(Tail(queue), OfKind("get_all"))
      BY <1>2
    <3> QED BY <3>1, <3>2, <3>3
  <2> QED BY <1>0, <2>1, <2>2, <2>3 DEF WaitInv, WaitersAreAnswered
<1>6. CASE stop_service
  <2>1. Head(queue).op # "get_all" /\ m_get_element_flag' = m_get_element_flag /\ stopped' = TRUE
    BY <1>6 DEF stop_service
  <2>2. Queued("get_all")' = Queued("get_all")
    BY <1>3, <2>1
  <2> QED BY <1>0, <2>1, <2>2, WaitFrame
<1> QED BY <1>4, <1>5, <1>6 DEF RunHandler

\* A request behind which nobody waits.
LEMMA WaitPostStep ==
  ASSUME SvcInv, WaitInv, NEW h \in Handler, h.op \in {"add", "update", "del", "trigger"},
         post(h), UNCHANGED <<m_started, stopped, thread, owner, m_get_element_flag>>
  PROVE  WaitInv'
<1>0. TypeOK
  BY DEF SvcInv
<1>1. \A op : Queued(op)' = Queued(op) + IF h.op = op THEN 1 ELSE 0
  BY <1>0, QueuedPost DEF post
<1>2. Queued("stop") \in Nat /\ Queued("get_all") \in Nat
  BY <1>0, QueuedCount
<1>3. h.op # "stop" /\ h.op # "get_all"
  OBVIOUS
<1>4. Queued("stop")' = Queued("stop") /\ Queued("get_all")' = Queued("get_all")
  BY <1>1, <1>2, <1>3
<1> QED BY <1>4, WaitFrame

LEMMA WaitStep ==
  ASSUME SvcInv, WaitInv, [Next]_vars
  PROVE  WaitInv'
<1>0. TypeOK /\ VectorInv /\ waits \in Nat /\ queue \in Seq(Handler)
  BY QueuedCount DEF SvcInv, TypeOK
<1>1. CASE set_settings \/ ClockTicks \/ UNCHANGED vars
  <2>1. UNCHANGED <<m_started, thread, owner, m_get_element_flag, stopped, queue>>
    BY <1>1 DEF set_settings, ClockTicks, vars, svcVars, ioVars
  <2>2. \A op : Queued(op)' = Queued(op)
    BY <2>1 DEF Queued
  <2> QED BY <2>1, <2>2, WaitFrame
<1>2. CASE start
  BY <1>2 DEF start, WaitInv, WaitersAreAnswered
<1>3. CASE stop
  <2>1. /\ queue' = Append(queue, [op |-> "stop"]) /\ [op |-> "stop"] \in Handler
        /\ m_started /\ owner' = "joining" /\ UNCHANGED thread
    BY <1>3, HandlerFacts DEF stop, post
  <2>2. Queued("stop")' = Queued("stop") + 1 /\ Queued("stop") \in Nat
    BY <1>0, <2>1, QueuedPost, QueuedCount
  <2>3. Queued("stop")' > 0
    BY <2>2
  <2> QED BY <2>1, <2>3 DEF WaitInv, WaitersAreAnswered
<1>4. CASE stop_joined \/ get_all_done
  <2>1. owner' = "idle" /\ thread' = thread /\ (m_started' = m_started \/ ~m_started')
    BY <1>4 DEF stop_joined, get_all_done
  <2> QED BY <2>1 DEF WaitInv, WaitersAreAnswered
<1>5. CASE get_all
  <2>1. /\ queue' = Append(queue, [op |-> "get_all"]) /\ [op |-> "get_all"] \in Handler
        /\ owner = "idle" /\ owner' = "spinning" /\ m_get_element_flag' = FALSE
        /\ UNCHANGED <<m_started, thread>>
    BY <1>5, HandlerFacts DEF get_all, post
  <2>2. Queued("get_all")' = Queued("get_all") + 1
    BY <1>0, <2>1, QueuedPost
  <2>3. Queued("get_all") = 0
    BY <1>0, <2>1 DEF VectorInv
  <2> QED BY <2>1, <2>2, <2>3 DEF WaitInv, WaitersAreAnswered
<1>6. CASE trigger_all
  BY <1>6, HandlerFacts, WaitPostStep DEF trigger_all
<1>7. CASE Client
  <2>1. PICK r \in Request : async_request(r)
    BY <1>7 DEF Client
  <2> QED BY <2>1, HandlerFacts, WaitPostStep DEF async_request
<1>8. CASE ThreadExits
  <2>1. /\ thread' = "exited" /\ stopped
        /\ UNCHANGED <<m_started, owner, m_get_element_flag, stopped, queue>>
    BY <1>8 DEF ThreadExits, ioVars
  <2>2. \A op : Queued(op)' = Queued(op)
    BY <2>1 DEF Queued
  <2> QED BY <2>1, <2>2 DEF WaitInv, WaitersAreAnswered
<1>9. CASE TimerFires
  <2>1. /\ queue' = queue \o [i \in 1..waits |-> TimerHandler]
        /\ UNCHANGED <<m_started, stopped, thread, owner, m_get_element_flag>>
    BY <1>9 DEF TimerFires
  <2>2. Queued("stop")' = Queued("stop") /\ Queued("get_all")' = Queued("get_all")
    BY <1>0, <2>1, TimersBehind, QueuedCount
  <2> QED BY <2>1, <2>2, WaitFrame
<1> QED BY <1>1, <1>2, <1>3, <1>4, <1>5, <1>6, <1>7, <1>8, <1>9, WaitRunStep DEF Next, Owner

-----------------------------------------------------------------------------
(* The theorems about the service.                                         *)

\* SvcInv is an invariant of the service.
THEOREM SvcInvariant == Spec => []SvcInv
BY SvcInitInv, SvcNextInv, PTL DEF Spec

\* Every variable of the service and of its manager keeps its type.
THEOREM SvcTypeCorrect == Spec => []TypeOK
<1>1. SvcInv => TypeOK
  BY DEF SvcInv
<1> QED BY <1>1, SvcInvariant, PTL

\* However handlers, re-arming and restarts interleave, a serving io_service has
\* exactly one timer wait or one queued timer handler.
THEOREM TimerChainCorrect == Spec => []TimerChain
<1>1. SvcInv => TimerChain
  BY DEF SvcInv, ThreadInv
<1> QED BY <1>1, SvcInvariant, PTL

\* The settings change only over an empty list, also after a stop with requests
\* queued behind it.
THEOREM StoppedIsEmptyCorrect == Spec => []StoppedIsEmpty
<1>1. SvcInv => StoppedIsEmpty
  BY EmptyWhenStopped DEF StoppedIsEmpty
<1> QED BY <1>1, SvcInvariant, PTL

\* No handler that writes into the caller's vector outlives
\* get_all_element_and_clear().
THEOREM NoDanglingVectorCorrect == Spec => []NoDanglingVector
<1>1. SvcInv => NoDanglingVector
  BY DEF SvcInv, VectorInv, NoDanglingVector
<1> QED BY <1>1, SvcInvariant, PTL

\* The owner never waits in vain for a request: in stop() the thread has ended or a
\* stop request is queued, in get_all_element_and_clear() the handler is queued exactly
\* as long as the flag is down, so that the wake-up is neither lost nor early.
THEOREM WaitersAreAnsweredCorrect == Spec => []WaitersAreAnswered
<1>1. Init => WaitInv
  BY DEF Init, WaitInv, WaitersAreAnswered
<1>2. SvcInv /\ WaitInv /\ [Next]_vars => WaitInv'
  BY WaitStep
<1>3. WaitInv => WaitersAreAnswered
  BY DEF WaitInv
<1> QED BY <1>1, <1>2, <1>3, SvcInvariant, PTL DEF Spec

\* The service uses the manager as the manager's own specification allows, so that
\* the theorems about MgrSpec are theorems about the manager inside the service.
THEOREM UsesManagerCorrect == Spec => UsesManager
<1>1. Init => MgrInit
  BY DEF Init
<1>2. SvcInv /\ [Next]_vars => [MgrNext]_mgrVars
  BY SvcStepsManager
<1> QED BY <1>1, <1>2, SvcInvariant, PTL DEF Spec, MgrSpec, UsesManager

\* The service, with all its threads, implements the registry too: elements are expelled
\* just when they have expired, through whatever queue their requests came.
THEOREM SvcImplementsRegistry == MonotoneClock /\ Spec => ImplementsRegistry
BY UsesManagerCorrect, MgrImplementsRegistry DEF UsesManager

-----------------------------------------------------------------------------
(* 4. The inductive invariant of the monitor.                              *)

Add(c) == [op |-> "add", element |-> c]
Del(c) == [op |-> "del", element |-> c]

DelRequested(c) == Del(c) \in ToSet(queue)

\* The service runs from the monitor's first start on, with its settings and its
\* callback, and is never asked to stop or to hand out its elements.
ControlInv ==
  /\ owner = "idle" /\ ~stopped
  /\ thread = IF applied = 4 THEN "running" ELSE "none"
  /\ m_started <=> applied = 4
  /\ applied >= 1 => m_callback_function
  /\ applied >= 3 => /\ m_max_limit_flag = setting.max_limit_flag
                     /\ m_max_limit = setting.max_limit
  /\ Started => applied = 4
  /\ stops = 0 => monitor # "closing" /\ (applied = 4 => monitor = "on")
  /\ \A h \in ToSet(queue) : h.op \notin {"stop", "get_all"}

\* One connection: a del is on the way only for a closed one, and behind its add.
WatchInv(c) ==
  /\ c \notin announced => ~Watched(c) /\ ~AddRequested(c)
  /\ status[c] \in {"new", "adding"} => c \notin announced
  /\ DelRequested(c) => status[c] = "closed"
  /\ stops = 0 =>
       /\ status[c] = "adding" \/ c \in announced => monitor = "on"
       /\ status[c] = "open" /\ c \in announced
            => Watched(c) \/ AddRequested(c) \/ c \in closing \/ c \in unwatched
       /\ status[c] = "closed"
            => (Watched(c) => DelRequested(c)) /\ Answered(queue, Add(c), Del(c))

LiveInv == MonTypeOK /\ SvcInv /\ ControlInv /\ \A c \in Element : WatchInv(c)

-----------------------------------------------------------------------------
(* What a handler does to the map: elements come by an add, and go by a    *)
(* del or through the callback.                                            *)

\* Elements whose nodes are taken out together are handed to the callback.
LEMMA LeaveThroughCallback ==
  ASSUME MgrInv, m_callback_function, NEW s \in Seq(Node),
         handed' = CallBack(s) \/ handed' = CallBack(Reverse(s)), NEW c \in ToSet(ElementsOf(s))
  PROVE  c \in ToSet(handed')
<1>1. Reverse(s) \in Seq(Node) /\ ToSet(Reverse(s)) = ToSet(s)
  BY ReverseSet
<1>2. /\ ToSet(ElementsOf(s)) = {m_node_pool[n].element : n \in ToSet(s)}
      /\ ToSet(ElementsOf(Reverse(s))) = {m_node_pool[n].element : n \in ToSet(Reverse(s))}
  BY <1>1, HandedType
<1>3. handed' = ElementsOf(s) \/ handed' = ElementsOf(Reverse(s))
  BY DEF CallBack
<1> QED BY <1>1, <1>2, <1>3

\* A step that only takes out elements it hands to the callback.
LEMMA UnmappedEffect ==
  ASSUME MgrInv, m_callback_function, NEW s \in Seq(Node), NEW c \in Element,
         handed' = CallBack(s) \/ handed' = CallBack(Reverse(s)),
         m_elements'[c] = Unmapped(s)[c]
  PROVE  /\ m_elements'[c] # NULL => m_elements[c] # NULL
         /\ m_elements[c] # NULL /\ m_elements'[c] = NULL => c \in ToSet(handed')
BY LeaveThroughCallback DEF Unmapped

LEMMA AddEffect ==
  ASSUME MgrInv, m_callback_function, NEW e \in Element, add_element(e), NEW c \in Element
  PROVE  /\ m_elements[c] = NULL /\ m_elements'[c] # NULL => c = e
         /\ m_elements[c] # NULL /\ m_elements'[c] = NULL => c \in ToSet(handed')
<1>1. CASE add_existing(e) \/ add_null_victim(e)
  BY <1>1 DEF add_existing, add_null_victim, store
<1>2. CASE add_no_memory(e)
  <2>1. Victims \in Seq(Node)
    BY <1>2, RoomFacts DEF add_no_memory
  <2> QED BY <1>2, <2>1, UnmappedEffect DEF add_no_memory
<1>3. CASE add_new(e)
  <2>1. Victims \in Seq(Node) /\ handed' = CallBack(Victims) /\ m_elements[e] = NULL
    BY <1>3, RoomFacts DEF add_new
  <2>2. PICK n \in Node : m_elements' = [Unmapped(Victims) EXCEPT ![e] = n]
    BY <1>3 DEF add_new
  <2>3. c # e => m_elements'[c] = Unmapped(Victims)[c]
    BY <2>2 DEF Unmapped
  <2> QED BY <2>1, <2>3, UnmappedEffect
<1> QED BY <1>1, <1>2, <1>3 DEF add_element

LEMMA SweepEffect ==
  ASSUME MgrInv, m_callback_function, handle_timeout, NEW c \in Element
  PROVE  /\ m_elements'[c] # NULL => m_elements[c] # NULL
         /\ m_elements[c] # NULL /\ m_elements'[c] = NULL => c \in ToSet(handed')
<1>1. CASE UNCHANGED store
  BY <1>1 DEF store
<1>2. CASE ~UNCHANGED store
  <2>1. PICK keep \in 0..Len(m_busy_list) :
          LET swept == SubSeq(m_busy_list, keep + 1, Len(m_busy_list))
          IN  handed' = CallBack(Reverse(swept)) /\ m_elements' = Unmapped(swept)
    BY <1>2 DEF handle_timeout
  <2> DEFINE swept == SubSeq(m_busy_list, keep + 1, Len(m_busy_list))
  <2>2. swept \in Seq(Node)
    BY CutStore
  <2>3. handed' = CallBack(Reverse(swept)) /\ m_elements' = Unmapped(swept)
    BY <2>1
  <2> HIDE DEF swept
  <2> QED BY <2>2, <2>3, UnmappedEffect
<1> QED BY <1>1, <1>2

LEMMA TriggerEffect ==
  ASSUME MgrInv, m_callback_function, trigger_all_timeout, NEW c \in Element
  PROVE  m_elements'[c] = NULL /\ (m_elements[c] # NULL => c \in ToSet(handed'))
<1>1. m_elements'[c] = NULL /\ handed' = CallBack(m_busy_list) /\ m_busy_list \in Seq(Node)
  BY StoreFacts DEF trigger_all_timeout, Drain
<1>2. ASSUME m_elements[c] # NULL PROVE c \in ToSet(handed')
  <2>1. PICK k \in 1..Len(m_busy_list) : m_node_pool[m_busy_list[k]].element = c
    BY <1>2, NodePosition
  <2>2. m_busy_list[k] \in ToSet(m_busy_list)
    BY StoreFacts
  <2>3. c \in ToSet(ElementsOf(m_busy_list))
    BY <1>1, <2>1, <2>2, HandedType
  <2> QED BY <1>1, <2>3, LeaveThroughCallback
<1> QED BY <1>1, <1>2

LEMMA DelEffect ==
  ASSUME MgrInv, NEW e \in Element, del_element(e), NEW c \in Element
  PROVE  m_elements'[c] = IF c = e THEN NULL ELSE m_elements[c]
<1>1. CASE Untouched(e)
  <2>1. m_elements[e] = NULL
    BY <1>1, NodePosition, StoreFacts DEF Untouched
  <2> QED BY <1>1, <2>1 DEF Untouched, store
<1>2. CASE Deleted(e)
  <2>1. m_elements' = [m_elements EXCEPT ![e] = NULL] /\ m_elements \in [Element -> Node \cup {NULL}]
    BY <1>2 DEF Deleted, MgrInv, MgrTypeOK
  <2> QED BY <2>1
<1> QED BY <1>1, <1>2 DEF del_element

\* What is handed out are elements, never the NULL of an unused node.
LEMMA HandedFromList ==
  ASSUME MgrInv, NEW s \in Seq(Node), ToSet(s) \subseteq ToSet(m_busy_list)
  PROVE  /\ ToSet(ElementsOf(s)) \subseteq Element /\ ToSet(CallBack(s)) \subseteq Element
         /\ ToSet(CallBack(Reverse(s))) \subseteq Element
<1>1. Reverse(s) \in Seq(Node) /\ ToSet(Reverse(s)) = ToSet(s)
  BY ReverseSet
<1>2. /\ ToSet(ElementsOf(s)) = {m_node_pool[n].element : n \in ToSet(s)}
      /\ ToSet(ElementsOf(Reverse(s))) = {m_node_pool[n].element : n \in ToSet(Reverse(s))}
  BY <1>1, HandedType
<1>3. \A n \in ToSet(s) : m_node_pool[n].element \in Element
  BY StoreFacts DEF Consistent, StoreType
<1>4. ToSet(<<>>) \subseteq Element
  BY DEF ToSet
<1> QED BY <1>1, <1>2, <1>3, <1>4 DEF CallBack

LEMMA HandedIsElements ==
  ASSUME MgrInv, TypeOK, RunHandler
  PROVE  ToSet(handed') \subseteq Element
<1>0. m_busy_list \in Seq(Node) /\ ToSet(<<>>) \subseteq Element
  BY StoreFacts DEF ToSet
<1>1. CASE handed' \in {<<>>, ElementsOf(m_busy_list), CallBack(m_busy_list)}
  BY <1>0, <1>1, HandedFromList
<1>2. CASE \E keep \in 0..Len(m_busy_list) :
             LET swept == SubSeq(m_busy_list, keep + 1, Len(m_busy_list))
             IN  handed' = CallBack(swept) \/ handed' = CallBack(Reverse(swept))
  <2>1. PICK keep \in 0..Len(m_busy_list) :
             LET swept == SubSeq(m_busy_list, keep + 1, Len(m_busy_list))
             IN  handed' = CallBack(swept) \/ handed' = CallBack(Reverse(swept))
    BY <1>2
  <2> DEFINE swept == SubSeq(m_busy_list, keep + 1, Len(m_busy_list))
  <2>2. swept \in Seq(Node)
    BY CutStore
  <2>3. ToSet(swept) \subseteq ToSet(m_busy_list)
    <3>1. \A i \in 1..Len(swept) : swept[i] = m_busy_list[keep + i] /\ keep + i \in 1..Len(m_busy_list)
      BY <1>0
    <3> HIDE DEF swept
    <3>2. \A x \in ToSet(swept) : \E i \in 1..Len(swept) : swept[i] = x
      BY <2>2, ToSetByIndex
    <3>3. \A k \in 1..Len(m_busy_list) : m_busy_list[k] \in ToSet(m_busy_list)
      BY StoreFacts
    <3> QED BY <3>1, <3>2, <3>3
  <2>4. handed' = CallBack(swept) \/ handed' = CallBack(Reverse(swept))
    BY <2>1
  <2> HIDE DEF swept
  <2> QED BY <2>2, <2>3, <2>4, HandedFromList
<1>3. CASE handle_timeout
  BY <1>1, <1>2, <1>3 DEF handle_timeout
<1>4. ASSUME NEW e \in Element, add_element(e) PROVE ToSet(handed') \subseteq Element
  <2>1. CASE add_no_memory(e) \/ add_new(e)
    <3>1. /\ ~(AtLimit /\ m_busy_list = <<>>) /\ handed' = CallBack(Victims)
      BY <2>1 DEF add_no_memory, add_new
    <3> QED BY <1>2, <3>1, VictimsAreCut
  <2> QED BY <1>1, <1>4, <2>1 DEF add_element, add_existing, add_null_victim
<1>5. ASSUME NEW e \in Element, update_element(e) \/ del_element(e)
      PROVE  ToSet(handed') \subseteq Element
  BY <1>1, <1>5 DEF update_element, del_element
<1>6. Head(queue) \in Handler
  BY QueuedRun DEF RunHandler
<1>7. CASE Serve
  <2>1. CASE trigger_all_timeout
    BY <1>1, <2>1 DEF trigger_all_timeout
  <2> QED BY <1>4, <1>5, <1>6, <1>7, <2>1, HandlerFacts DEF Serve
<1>8. CASE get_all_i \/ stop_service
  BY <1>1, <1>8 DEF get_all_i, stop_service, get_all_element_and_clear, clear_element
<1> QED BY <1>3, <1>7, <1>8 DEF RunHandler, timer_i

LEMMA HandlerEffect ==
  ASSUME SvcInv, RunHandler, m_callback_function, NEW c \in Element,
         Head(queue).op \notin {"stop", "get_all"}
  PROVE  /\ Head(queue) \in Handler
         /\ m_elements[c] = NULL /\ m_elements'[c] # NULL => Head(queue) = Add(c)
         /\ m_elements[c] # NULL /\ m_elements'[c] = NULL
              => c \in ToSet(handed') \/ Head(queue) = Del(c)
         /\ Head(queue) = Del(c) => m_elements'[c] = NULL
<1>0. TypeOK /\ MgrInv /\ queue # <<>>
  BY DEF SvcInv, RunHandler
<1>1. Head(queue) \in Handler
  BY <1>0, QueuedRun
<1>2. \A e \in Element : /\ Head(queue) = Del(e) => Head(queue).op = "del"
                         /\ Head(queue).op = "add" /\ Head(queue).element = e => Head(queue) = Add(e)
                         /\ Head(queue).op = "del" /\ Head(queue).element = e => Head(queue) = Del(e)
  BY <1>1 DEF Handler, Request, Command, Add, Del
<1>3. CASE Head(queue).op = "add"
  <2>1. add_element(Head(queue).element) /\ Head(queue).element \in Element
    BY <1>1, <1>3, HandlerFacts DEF RunHandler, Serve, get_all_i, stop_service, timer_i
  <2> QED BY <1>0, <1>1, <1>2, <1>3, <2>1, AddEffect
<1>4. CASE Head(queue).op = "del"
  <2>1. del_element(Head(queue).element) /\ Head(queue).element \in Element
    BY <1>1, <1>4, HandlerFacts DEF RunHandler, Serve, get_all_i, stop_service, timer_i
  <2>2. Head(queue) = Del(c) => Head(queue).element = c
    BY DEF Del
  <2> QED BY <1>0, <1>1, <1>2, <1>4, <2>1, <2>2, DelEffect
<1>5. CASE Head(queue).op = "update"
  <2>1. update_element(Head(queue).element)
    BY <1>5 DEF RunHandler, Serve, get_all_i, stop_service, timer_i
  <2>2. m_elements' = m_elements
    BY <2>1 DEF update_element, Untouched, Refreshed, store
  <2> QED BY <1>1, <1>2, <1>5, <2>2
<1>6. CASE Head(queue).op = "trigger"
  <2>1. trigger_all_timeout
    BY <1>6 DEF RunHandler, Serve, get_all_i, stop_service, timer_i
  <2> QED BY <1>0, <1>1, <1>2, <1>6, <2>1, TriggerEffect
<1>7. CASE Head(queue).op = "timer"
  <2>1. handle_timeout
    BY <1>7 DEF RunHandler, Serve, get_all_i, stop_service, timer_i
  <2> QED BY <1>0, <1>1, <1>2, <1>7, <2>1, SweepEffect
<1> QED BY <1>3, <1>4, <1>5, <1>6, <1>7 DEF RunHandler, Serve, get_all_i, stop_service, timer_i

-----------------------------------------------------------------------------
(* The queue, as far as the monitor's requests go.                         *)

LEMMA RequestsDiffer ==
  /\ \A c, d : /\ Add(c) # Del(d) /\ (Add(c) = Add(d) => c = d) /\ (Del(c) = Del(d) => c = d)
               /\ Add(c) # TimerHandler /\ Del(c) # TimerHandler
               /\ Add(c) # [op |-> "trigger"] /\ Del(c) # [op |-> "trigger"]
               /\ Add(c) # [op |-> "update", element |-> d]
               /\ Del(c) # [op |-> "update", element |-> d]
  /\ \A c \in Element : Add(c) \in Request /\ Del(c) \in Request
BY DEF Add, Del, TimerHandler, Request

LEMMA QueuePost ==
  ASSUME TypeOK, NEW h \in Handler, queue' = Append(queue, h)
  PROVE  /\ \A x : x \in ToSet(queue') <=> x \in ToSet(queue) \/ x = h
         /\ \A a, b : (Answered(queue, a, b) \/ h = b) /\ h # a => Answered(queue', a, b)
<1>0. queue \in Seq(Handler)
  BY QueuedCount
<1>1. <<h>> \in Seq(Handler) /\ queue' = queue \o <<h>>
  BY <1>0
<1>2. ToSet(queue') = ToSet(queue) \cup {h}
  BY <1>0, AppendFacts
<1>3. ToSet(<<h>>) = {h}
  BY DEF ToSet
<1>4. \A a, b : (Answered(queue, a, b) \/ h = b) /\ h # a => Answered(queue \o <<h>>, a, b)
  BY <1>0, <1>1, <1>3, AnsweredConcat
<1> QED BY <1>1, <1>2, <1>4

LEMMA QueueTimers ==
  ASSUME NEW q \in Seq(Handler), NEW n \in Nat, queue' = q \o [i \in 1..n |-> TimerHandler]
  PROVE  /\ \A x : x \in ToSet(q) => x \in ToSet(queue')
         /\ \A x : x \in ToSet(queue') => x \in ToSet(q) \/ x = TimerHandler
         /\ \A c : Answered(q, Add(c), Del(c)) => Answered(queue', Add(c), Del(c))
<1> DEFINE t == [i \in 1..n |-> TimerHandler]
<1>0. TimerHandler \in Handler
  BY HandlerFacts DEF TimerHandler
<1>1. t \in Seq(Handler) /\ Len(t) = n /\ \A i \in 1..n : t[i] = TimerHandler
  BY <1>0
<1>2. queue' = q \o t
  OBVIOUS
<1> HIDE DEF t
<1>3. \A x : x \in ToSet(t) => x = TimerHandler
  BY <1>1, ToSetByIndex
<1>4. ToSet(queue') = ToSet(q) \cup ToSet(t)
  <2>1. \A a, b \in Seq(Handler) : ToSet(a \o b) = ToSet(a) \cup ToSet(b)
    BY ConcatSet
  <2> QED BY <1>1, <1>2, <2>1, Zenon
<1>5. \A c : Answered(q, Add(c), Del(c)) => Answered(q \o t, Add(c), Del(c))
  <2>1. \A c : Add(c) \notin ToSet(t)
    BY <1>3, RequestsDiffer
  <2> QED BY <1>1, <2>1, AnsweredConcat
<1> QED BY <1>2, <1>3, <1>4, <1>5

-----------------------------------------------------------------------------
(* The steps of the monitor.                                               *)

\* A connection that the step is not about.
LEMMA WatchFrame ==
  ASSUME NEW c \in Element, WatchInv(c),
         status'[c] = status[c], c \in announced' <=> c \in announced,
         c \in closing => c \in closing', c \in unwatched => c \in unwatched',
         m_elements'[c] = m_elements[c],
         stops' = 0 => stops = 0 /\ (monitor = "on" => monitor' = "on"),
         Add(c) \in ToSet(queue') <=> Add(c) \in ToSet(queue),
         Del(c) \in ToSet(queue') <=> Del(c) \in ToSet(queue),
         Answered(queue, Add(c), Del(c)) => Answered(queue', Add(c), Del(c))
  PROVE  WatchInv(c)'
BY DEF WatchInv, Watched, AddRequested, DelRequested, Add, Del

\* The same when nothing of the service changes.
LEMMA SvcUnchanged ==
  ASSUME LiveInv, UNCHANGED vars
  PROVE  /\ SvcInv' /\ UNCHANGED <<m_elements, queue, owner, stopped, thread, m_started>>
         /\ UNCHANGED <<m_callback_function, m_max_limit_flag, m_max_limit>>
<1>1. UNCHANGED mgrVars /\ UNCHANGED svcVars /\ SvcInv /\ MgrInv
  BY DEF vars, LiveInv, SvcInv
<1> QED BY <1>1, MgrFrame, SvcFrame DEF mgrVars, svcVars, ioVars, store, settings

\* A request is posted: what the monitor's invariant needs of it.
LEMMA PostEffect ==
  ASSUME LiveInv, NEW h \in Handler, h.op \in {"add", "update", "del", "trigger"}, post(h),
         UNCHANGED <<mgrVars, m_started, stopped, waits, expires, thread, owner,
                     m_get_element_flag, starts>>
  PROVE  /\ SvcInv' /\ UNCHANGED <<m_elements, owner, stopped, thread, m_started>>
         /\ UNCHANGED <<m_callback_function, m_max_limit_flag, m_max_limit>>
         /\ \A x : x \in ToSet(queue') <=> x \in ToSet(queue) \/ x = h
         /\ \A a, b : (Answered(queue, a, b) \/ h = b) /\ h # a => Answered(queue', a, b)
<1>0. SvcInv /\ TypeOK
  BY DEF LiveInv, SvcInv
<1>1. SvcInv'
  BY <1>0, PostInv
<1>2. UNCHANGED <<m_elements, owner, stopped, thread, m_started>>
      /\ UNCHANGED <<m_callback_function, m_max_limit_flag, m_max_limit>>
  BY DEF mgrVars, store, settings
<1>3. /\ \A x : x \in ToSet(queue') <=> x \in ToSet(queue) \/ x = h
      /\ \A a, b : (Answered(queue, a, b) \/ h = b) /\ h # a => Answered(queue', a, b)
  BY <1>0, QueuePost DEF post
<1> QED BY <1>1, <1>2, <1>3

LEMMA StartStepInv ==
  ASSUME LiveInv, ~crashed, start_step
  PROVE  LiveInv'
<1>0. /\ SvcInv /\ TypeOK /\ MgrInv /\ ControlInv /\ MonTypeOK /\ ~m_started
      /\ \A c \in Element : WatchInv(c)
  BY DEF LiveInv, SvcInv, start_step, ControlInv
<1>1. /\ monitor \in {"off", "starting"} /\ applied \in 0..3 /\ Configured /\ applied' = applied + 1
      /\ monitor' = IF applied = 3 THEN "on" ELSE "starting"
      /\ UNCHANGED <<setting, closings, stops, status, closing, announced, unwatched>>
  BY <1>0 DEF start_step, connVars, MonTypeOK
<1>2. setting \in [timeout_flag : BOOLEAN, timeout : Nat, max_limit_flag : BOOLEAN, max_limit : Nat]
  BY <1>0, MonitorAssumption DEF MonTypeOK
<1>3. CASE applied \in 0..2
  <2>1. /\ UNCHANGED svcVars
        /\ \/ applied = 0 /\ set_callback_function
           \/ applied = 1 /\ set_timeout(setting.timeout_flag, setting.timeout)
           \/ applied = 2 /\ set_max_limit(setting.max_limit_flag, setting.max_limit)
    BY <1>1, <1>3 DEF Configured
  <2>2. /\ UNCHANGED <<m_elements, m_busy_list, m_node_pool, m_element_count, now, crashed, drained>>
        /\ m_busy_list = <<>> /\ handed' = <<>>
        /\ m_callback_function' \in BOOLEAN /\ m_timeout_flag' \in BOOLEAN
        /\ m_timeout' \in Nat /\ m_max_limit_flag' \in BOOLEAN /\ m_max_limit' \in Nat
    BY <1>0, <1>2, <2>1, EmptyWhenStopped
       DEF set_callback_function, set_timeout, set_max_limit, store, MgrInv, MgrTypeOK
  <2>3. SvcInv'
    <3>1. MgrInv'
      BY <1>0, <2>2, SettingsInv
    <3> QED BY <1>0, <2>1, <2>2, <3>1, SvcFrame
  <2>4. UNCHANGED <<queue, owner, stopped, thread, m_started>>
    BY <2>1 DEF svcVars, ioVars
  <2>5. /\ applied = 0 => m_callback_function' = TRUE
        /\ applied # 0 => m_callback_function' = m_callback_function
        /\ applied = 2 => m_max_limit_flag' = setting.max_limit_flag /\ m_max_limit' = setting.max_limit
    BY <1>1, <2>1 DEF set_callback_function, set_timeout, set_max_limit
  <2>6. ControlInv'
    BY <1>0, <1>1, <1>3, <2>4, <2>5 DEF ControlInv, Started
  <2>7. MonTypeOK'
    BY <1>0, <1>1, <1>3, <2>3 DEF MonTypeOK, SvcInv
  <2>8. \A c \in Element : WatchInv(c)'
    BY <1>0, <1>1, <1>3, <2>2, <2>4, WatchFrame
  <2> QED BY <2>3, <2>6, <2>7, <2>8 DEF LiveInv
<1>4. CASE applied = 3
  <2>1. start
    BY <1>4 DEF start_step, Configured
  <2>2. /\ UNCHANGED <<mgrVars, stopped, owner>> /\ thread' = "running" /\ m_started' = TRUE
        /\ queue' = queue \o [i \in 1..waits |-> TimerHandler]
    BY <2>1 DEF start, Rearm
  <2>3. SvcInv' /\ waits \in Nat /\ queue \in Seq(Handler)
    BY <1>0, <2>1, StartInv, QueuedCount DEF TypeOK
  <2>4. UNCHANGED <<m_elements, m_callback_function, m_max_limit_flag, m_max_limit>>
    BY <2>2 DEF mgrVars, store, settings
  <2>5. /\ \A x : x \in ToSet(queue) => x \in ToSet(queue')
        /\ \A x : x \in ToSet(queue') => x \in ToSet(queue) \/ x = TimerHandler
        /\ \A c : Answered(queue, Add(c), Del(c)) => Answered(queue', Add(c), Del(c))
    BY <2>2, <2>3, QueueTimers
  <2>6. ControlInv'
    <3>1. \A h \in ToSet(queue') : h.op \notin {"stop", "get_all"}
      BY <1>0, <2>5 DEF ControlInv, TimerHandler
    <3>2. applied' = 4 /\ monitor' = "on"
      BY <1>1, <1>4
    <3>3. m_callback_function /\ m_max_limit_flag = setting.max_limit_flag
          /\ m_max_limit = setting.max_limit /\ owner = "idle" /\ ~stopped
      BY <1>0, <1>4 DEF ControlInv
    <3> QED BY <1>1, <2>2, <2>4, <3>1, <3>2, <3>3 DEF ControlInv, Started
  <2>7. MonTypeOK'
    BY <1>0, <1>1, <1>4, <2>3 DEF MonTypeOK, SvcInv
  <2>8. \A c \in Element : WatchInv(c)'
    BY <1>0, <1>1, <1>4, <2>4, <2>5, WatchFrame, RequestsDiffer
  <2> QED BY <2>3, <2>6, <2>7, <2>8 DEF LiveInv
<1> QED BY <1>1, <1>3, <1>4

LEMMA ControlsInv ==
  ASSUME LiveInv, ~crashed, Controls
  PROVE  LiveInv'
<1>0. /\ SvcInv /\ ControlInv /\ MonTypeOK /\ stops \in Nat /\ closings \in Nat
      /\ \A c \in Element : WatchInv(c)
  BY DEF LiveInv, MonTypeOK
<1>1. CASE start_again \/ stop_monitor
  <2>1. UNCHANGED <<setting, applied, closings, stops, status, closing, announced, unwatched>>
        /\ UNCHANGED vars
    BY <1>1 DEF start_again, stop_monitor, connVars
  <2>2. monitor' \in {"on", "off"} /\ (stops = 0 => monitor' = "on")
        /\ (monitor' = "on" => applied = 4)
    BY <1>0, <1>1 DEF start_again, stop_monitor, ControlInv
  <2>3. /\ SvcInv' /\ UNCHANGED <<m_elements, queue, owner, stopped, thread, m_started>>
        /\ UNCHANGED <<m_callback_function, m_max_limit_flag, m_max_limit>>
    BY <2>1, SvcUnchanged
  <2>4. ControlInv'
    BY <1>0, <2>1, <2>2, <2>3 DEF ControlInv, Started
  <2>5. MonTypeOK'
    BY <1>0, <2>1, <2>2, <2>3 DEF MonTypeOK, SvcInv
  <2>6. \A c \in Element : WatchInv(c)'
    BY <1>0, <2>1, <2>2, <2>3, WatchFrame
  <2> QED BY <2>3, <2>4, <2>5, <2>6 DEF LiveInv
<1>2. ASSUME NEW next \in {"on", "closing"}, close_all(next)
      PROVE  LiveInv'
  <2> DEFINE h == [op |-> "trigger"]
  <2>1. /\ monitor = "on" /\ monitor' = next /\ closings' = closings + 1
        /\ stops' = IF next = "closing" THEN stops + 1 ELSE stops
        /\ UNCHANGED <<setting, applied, status, closing, announced, unwatched>>
    BY <1>2 DEF close_all, connVars
  <2>2. /\ h \in Handler /\ h.op = "trigger" /\ post(h)
        /\ UNCHANGED <<mgrVars, m_started, stopped, waits, expires, thread, owner,
                       m_get_element_flag, starts>>
    BY <1>2, HandlerFacts DEF close_all, trigger_all
  <2>3. /\ SvcInv' /\ UNCHANGED <<m_elements, owner, stopped, thread, m_started>>
        /\ UNCHANGED <<m_callback_function, m_max_limit_flag, m_max_limit>>
        /\ \A x : x \in ToSet(queue') <=> x \in ToSet(queue) \/ x = h
        /\ \A a, b : (Answered(queue, a, b) \/ h = b) /\ h # a => Answered(queue', a, b)
    BY <2>2, PostEffect
  <2>4. stops' \in Nat /\ (stops' = 0 => stops = 0 /\ monitor' = "on")
    BY <1>0, <2>1
  <2>5. ControlInv'
    <3>1. \A x \in ToSet(queue') : x.op \notin {"stop", "get_all"}
      BY <1>0, <2>2, <2>3 DEF ControlInv
    <3>2. Started' => applied = 4
      BY <1>0, <2>1 DEF ControlInv, Started
    <3> QED BY <1>0, <2>1, <2>3, <2>4, <3>1, <3>2 DEF ControlInv
  <2>6. MonTypeOK'
    BY <1>0, <2>1, <2>3, <2>4 DEF MonTypeOK, SvcInv
  <2>7. \A c \in Element : WatchInv(c)'
    BY <1>0, <2>1, <2>3, <2>4, WatchFrame, RequestsDiffer
  <2> QED BY <2>3, <2>5, <2>6, <2>7 DEF LiveInv
<1> QED BY <1>1, <1>2, StartStepInv DEF Controls

LEMMA TimerInv ==
  ASSUME LiveInv, ~crashed, Timer
  PROVE  LiveInv'
<1>0. /\ SvcInv /\ TypeOK /\ ControlInv /\ MonTypeOK /\ waits \in Nat /\ queue \in Seq(Handler)
      /\ \A c \in Element : WatchInv(c)
  BY QueuedCount DEF LiveInv, SvcInv, TypeOK
<1>1. UNCHANGED <<monitor, setting, applied, closings, stops, status, closing, announced, unwatched>>
  BY DEF Timer, monVars, connVars
<1>2. /\ SvcInv' /\ UNCHANGED <<m_elements, owner, stopped, thread, m_started>>
      /\ UNCHANGED <<m_callback_function, m_max_limit_flag, m_max_limit>>
  BY <1>0, TimerFiresInv, ClockInv
     DEF Timer, TimerFires, ClockTicks, Tick, svcVars, ioVars, mgrVars, store, settings
<1>3. /\ \A x : x \in ToSet(queue) => x \in ToSet(queue')
      /\ \A x : x \in ToSet(queue') => x \in ToSet(queue) \/ x = TimerHandler
      /\ \A c : Answered(queue, Add(c), Del(c)) => Answered(queue', Add(c), Del(c))
  <2>1. CASE TimerFires
    BY <1>0, <2>1, QueueTimers DEF TimerFires
  <2>2. CASE ClockTicks
    BY <2>2 DEF ClockTicks, svcVars, ioVars
  <2> QED BY <2>1, <2>2 DEF Timer
<1>4. ControlInv'
  <2>1. \A h \in ToSet(queue') : h.op \notin {"stop", "get_all"}
    BY <1>0, <1>3 DEF ControlInv, TimerHandler
  <2> QED BY <1>0, <1>1, <1>2, <2>1 DEF ControlInv, Started
<1>5. MonTypeOK'
  BY <1>0, <1>1, <1>2 DEF MonTypeOK, SvcInv
<1>6. \A c \in Element : WatchInv(c)'
  BY <1>0, <1>1, <1>2, <1>3, WatchFrame, RequestsDiffer
<1> QED BY <1>2, <1>4, <1>5, <1>6 DEF LiveInv

\* One connection's thread takes a step.
LEMMA OpenInv ==
  ASSUME LiveInv, NEW c \in Element, open(c)
  PROVE  LiveInv'
<1>0. SvcInv /\ ControlInv /\ MonTypeOK /\ \A d \in Element : WatchInv(d)
  BY DEF LiveInv
<1>1. /\ status[c] = "new" /\ status' = [status EXCEPT ![c] = IF Started THEN "adding" ELSE "open"]
      /\ UNCHANGED <<monitor, setting, applied, closings, stops, closing, announced, unwatched>>
      /\ UNCHANGED vars /\ status \in [Element -> {"new", "adding", "open", "closed"}]
  BY <1>0 DEF open, monVars, MonTypeOK
<1>2. /\ SvcInv' /\ UNCHANGED <<m_elements, queue, owner, stopped, thread, m_started>>
      /\ UNCHANGED <<m_callback_function, m_max_limit_flag, m_max_limit>>
  BY <1>1, SvcUnchanged
<1>3. ControlInv'
  BY <1>0, <1>1, <1>2 DEF ControlInv, Started
<1>4. MonTypeOK'
  BY <1>0, <1>1, <1>2 DEF MonTypeOK, SvcInv
<1>5. WatchInv(c)'
  <2>1. c \notin announced /\ ~Watched(c) /\ ~AddRequested(c) /\ ~DelRequested(c)
    BY <1>0, <1>1 DEF WatchInv
  <2>2. status'[c] = IF Started THEN "adding" ELSE "open"
    BY <1>1
  <2>3. stops = 0 /\ Started => monitor = "on"
    BY <1>0 DEF ControlInv, Started
  <2> QED BY <1>1, <1>2, <2>1, <2>2, <2>3 DEF WatchInv, Watched, AddRequested, DelRequested
<1>6. \A d \in Element : d # c => WatchInv(d)'
  BY <1>0, <1>1, <1>2, WatchFrame
<1> QED BY <1>2, <1>3, <1>4, <1>5, <1>6 DEF LiveInv

LEMMA AddInv ==
  ASSUME LiveInv, NEW c \in Element, add(c)
  PROVE  LiveInv'
<1>0. SvcInv /\ ControlInv /\ MonTypeOK /\ \A d \in Element : WatchInv(d)
  BY DEF LiveInv
<1>1. /\ status[c] = "adding" /\ status' = [status EXCEPT ![c] = "open"]
      /\ announced' = announced \cup {c}
      /\ UNCHANGED <<monitor, setting, applied, closings, stops, closing, unwatched>>
      /\ status \in [Element -> {"new", "adding", "open", "closed"}]
  BY <1>0 DEF add, monVars, MonTypeOK
<1>2. /\ Add(c) \in Handler /\ Add(c).op = "add" /\ post(Add(c))
      /\ UNCHANGED <<mgrVars, m_started, stopped, waits, expires, thread, owner,
                     m_get_element_flag, starts>>
  BY HandlerFacts DEF add, async_request, Add
<1>3. /\ SvcInv' /\ UNCHANGED <<m_elements, owner, stopped, thread, m_started>>
      /\ UNCHANGED <<m_callback_function, m_max_limit_flag, m_max_limit>>
      /\ \A x : x \in ToSet(queue') <=> x \in ToSet(queue) \/ x = Add(c)
      /\ \A a, b : (Answered(queue, a, b) \/ Add(c) = b) /\ Add(c) # a => Answered(queue', a, b)
  BY <1>2, PostEffect
<1>4. ControlInv'
  <2>1. \A h \in ToSet(queue') : h.op \notin {"stop", "get_all"}
    BY <1>0, <1>2, <1>3 DEF ControlInv
  <2> QED BY <1>0, <1>1, <1>3, <2>1 DEF ControlInv, Started
<1>5. MonTypeOK'
  BY <1>0, <1>1, <1>3 DEF MonTypeOK, SvcInv
<1>6. WatchInv(c)'
  <2>1. ~DelRequested(c) /\ (stops = 0 => monitor = "on")
    BY <1>0, <1>1 DEF WatchInv
  <2>2. ~DelRequested(c)' /\ AddRequested(c)'
    BY <1>3, <2>1, RequestsDiffer DEF DelRequested, AddRequested, Add, Del
  <2>3. status'[c] = "open" /\ c \in announced'
    BY <1>1
  <2> QED BY <1>1, <2>1, <2>2, <2>3 DEF WatchInv
<1>7. \A d \in Element : d # c => WatchInv(d)'
  BY <1>0, <1>1, <1>3, WatchFrame, RequestsDiffer
<1> QED BY <1>3, <1>4, <1>5, <1>6, <1>7 DEF LiveInv

LEMMA UpdateStepInv ==
  ASSUME LiveInv, NEW c \in Element, update(c)
  PROVE  LiveInv'
<1> DEFINE h == [op |-> "update", element |-> c]
<1>0. SvcInv /\ ControlInv /\ MonTypeOK /\ \A d \in Element : WatchInv(d)
  BY DEF LiveInv
<1>1. UNCHANGED <<monitor, setting, applied, closings, stops, status, closing, announced, unwatched>>
  BY DEF update, monVars, connVars
<1>2. /\ h \in Handler /\ h.op = "update" /\ post(h)
      /\ UNCHANGED <<mgrVars, m_started, stopped, waits, expires, thread, owner,
                     m_get_element_flag, starts>>
  BY HandlerFacts DEF update, async_request
<1>3. /\ SvcInv' /\ UNCHANGED <<m_elements, owner, stopped, thread, m_started>>
      /\ UNCHANGED <<m_callback_function, m_max_limit_flag, m_max_limit>>
      /\ \A x : x \in ToSet(queue') <=> x \in ToSet(queue) \/ x = h
      /\ \A a, b : (Answered(queue, a, b) \/ h = b) /\ h # a => Answered(queue', a, b)
  BY <1>2, PostEffect
<1>4. ControlInv'
  <2>1. \A x \in ToSet(queue') : x.op \notin {"stop", "get_all"}
    BY <1>0, <1>2, <1>3 DEF ControlInv
  <2> QED BY <1>0, <1>1, <1>3, <2>1 DEF ControlInv, Started
<1>5. MonTypeOK'
  BY <1>0, <1>1, <1>3 DEF MonTypeOK, SvcInv
<1>6. \A d \in Element : WatchInv(d)'
  BY <1>0, <1>1, <1>3, WatchFrame, RequestsDiffer
<1> QED BY <1>3, <1>4, <1>5, <1>6 DEF LiveInv

LEMMA CloseInv ==
  ASSUME LiveInv, NEW c \in Element, Close(c)
  PROVE  LiveInv'
<1>0. SvcInv /\ ControlInv /\ MonTypeOK /\ \A d \in Element : WatchInv(d)
  BY DEF LiveInv
<1>1. /\ status[c] = "open" /\ status' = [status EXCEPT ![c] = "closed"]
      /\ closing' = closing \ {c}
      /\ UNCHANGED <<monitor, setting, applied, closings, stops, announced, unwatched>>
      /\ status \in [Element -> {"new", "adding", "open", "closed"}]
  BY <1>0 DEF Close, monVars, MonTypeOK
<1>2. status'[c] = "closed" /\ \A d \in Element : d # c => status'[d] = status[d]
  BY <1>1
<1>3. CASE ~Started /\ UNCHANGED vars
  <2>1. /\ SvcInv' /\ UNCHANGED <<m_elements, queue, owner, stopped, thread, m_started>>
        /\ UNCHANGED <<m_callback_function, m_max_limit_flag, m_max_limit>>
    BY <1>3, SvcUnchanged
  <2>2. ControlInv'
    BY <1>0, <1>1, <2>1 DEF ControlInv, Started
  <2>3. MonTypeOK'
    BY <1>0, <1>1, <2>1 DEF MonTypeOK, SvcInv
  <2>4. WatchInv(c)'
    <3>1. stops = 0 => c \notin announced
      BY <1>0, <1>3 DEF WatchInv, Started
    <3>2. stops = 0 => ~Watched(c) /\ ~AddRequested(c)
      BY <1>0, <3>1 DEF WatchInv
    <3>3. stops = 0 => Answered(queue, Add(c), Del(c))
      <4>1. queue \in Seq(Handler)
        BY <1>0, QueuedCount DEF SvcInv
      <4>2. \A i \in 1..Len(queue) : queue[i] \in ToSet(queue)
        BY <4>1, ToSetByIndex
      <4> QED BY <3>2, <4>2 DEF AddRequested, Answered, Add
    <3>4. (c \notin announced => ~Watched(c) /\ ~AddRequested(c))
      BY <1>0 DEF WatchInv
    <3> QED BY <1>1, <1>2, <2>1, <3>1, <3>2, <3>3, <3>4
            DEF WatchInv, Watched, AddRequested, DelRequested
  <2>5. \A d \in Element : d # c => WatchInv(d)'
    BY <1>0, <1>1, <1>2, <2>1, WatchFrame
  <2> QED BY <2>1, <2>2, <2>3, <2>4, <2>5 DEF LiveInv
<1>4. CASE /\ Started /\ post([op |-> "del", element |-> c])
           /\ UNCHANGED <<mgrVars, m_started, stopped, waits, expires, thread, owner,
                          m_get_element_flag, starts>>
  <2>1. Del(c) \in Handler /\ Del(c).op = "del" /\ post(Del(c))
    BY <1>4, HandlerFacts DEF Del
  <2>2. /\ SvcInv' /\ UNCHANGED <<m_elements, owner, stopped, thread, m_started>>
        /\ UNCHANGED <<m_callback_function, m_max_limit_flag, m_max_limit>>
        /\ \A x : x \in ToSet(queue') <=> x \in ToSet(queue) \/ x = Del(c)
        /\ \A a, b : (Answered(queue, a, b) \/ Del(c) = b) /\ Del(c) # a => Answered(queue', a, b)
    BY <1>4, <2>1, PostEffect
  <2>3. ControlInv'
    <3>1. \A h \in ToSet(queue') : h.op \notin {"stop", "get_all"}
      BY <1>0, <2>1, <2>2 DEF ControlInv
    <3> QED BY <1>0, <1>1, <2>2, <3>1 DEF ControlInv, Started
  <2>4. MonTypeOK'
    BY <1>0, <1>1, <2>2 DEF MonTypeOK, SvcInv
  <2>5. WatchInv(c)'
    <3>1. DelRequested(c)' /\ Answered(queue', Add(c), Del(c))
      BY <2>2, RequestsDiffer DEF DelRequested, Del
    <3>2. c \notin announced => ~Watched(c) /\ ~AddRequested(c)
      BY <1>0 DEF WatchInv
    <3>3. AddRequested(c)' <=> AddRequested(c)
      BY <2>2, RequestsDiffer DEF AddRequested, Add
    <3>4. Watched(c)' <=> Watched(c)
      BY <2>2 DEF Watched
    <3>5. stops = 0 => (c \in announced => monitor = "on")
      BY <1>0 DEF WatchInv
    <3> QED BY <1>1, <1>2, <3>1, <3>2, <3>3, <3>4, <3>5 DEF WatchInv, Add, Del
  <2>6. \A d \in Element : d # c => WatchInv(d)'
    BY <1>0, <1>1, <1>2, <2>2, WatchFrame, RequestsDiffer
  <2> QED BY <2>2, <2>3, <2>4, <2>5, <2>6 DEF LiveInv
<1> QED BY <1>3, <1>4 DEF Close, del

\* A handler runs.
LEMMA BeatInv ==
  ASSUME LiveInv, ~crashed, Beat
  PROVE  LiveInv'
<1>0. /\ SvcInv /\ TypeOK /\ ControlInv /\ MonTypeOK /\ waits \in Nat /\ queue \in Seq(Handler)
      /\ \A d \in Element : WatchInv(d)
  BY QueuedCount DEF LiveInv, SvcInv, TypeOK
<1>1. /\ RunHandler /\ queue # <<>> /\ thread = "running"
      /\ closing' = closing \cup {c \in ToSet(handed') : Started /\ status[c] = "open"}
      /\ UNCHANGED <<monitor, setting, applied, closings, stops, status, announced>>
      /\ unwatched' = unwatched \cup
           {c \in Element : Head(queue) = [op |-> "add", element |-> c] /\ m_elements'[c] = NULL}
  BY DEF Beat, monitor_timeout, monVars, RunHandler
<1>2. /\ Head(queue) \in Handler /\ Tail(queue) \in Seq(Handler)
      /\ ToSet(queue) = ToSet(Tail(queue)) \cup {Head(queue)}
  BY <1>0, <1>1, QueuedRun, TailSet
<1>3. Head(queue).op \notin {"stop", "get_all"}
  BY <1>0, <1>2 DEF ControlInv
<1>4. applied = 4 /\ m_callback_function
  BY <1>0, <1>1 DEF ControlInv, MonTypeOK
<1>5. /\ SvcInv' /\ UNCHANGED <<owner, stopped, thread, m_started>>
      /\ UNCHANGED <<m_callback_function, m_max_limit_flag, m_max_limit>>
  <2>1. SvcInv'
    BY <1>0, <1>1, RunHandlerInv
  <2>2. UNCHANGED <<owner, stopped, thread, m_started>>
    BY <1>1, <1>3 DEF RunHandler, Serve, get_all_i, stop_service, timer_i
  <2>3. UNCHANGED settings
    BY <1>1 DEF RunHandler, Serve, get_all_i, stop_service, timer_i, add_element, add_existing,
         add_null_victim, add_no_memory, add_new, update_element, del_element, trigger_all_timeout,
         get_all_element_and_clear, clear_element, Drain, handle_timeout
  <2> QED BY <2>1, <2>2, <2>3 DEF settings
<1>6. /\ \A x : x \in ToSet(Tail(queue)) => x \in ToSet(queue')
      /\ \A x : x \in ToSet(queue') => x \in ToSet(Tail(queue)) \/ x = TimerHandler
      /\ \A c : Answered(Tail(queue), Add(c), Del(c)) => Answered(queue', Add(c), Del(c))
  <2>1. CASE timer_i
    <3>1. queue' = Tail(queue) \o [i \in 1..waits |-> TimerHandler]
      BY <2>1 DEF timer_i, Rearm
    <3> QED BY <1>0, <1>2, <3>1, QueueTimers
  <2>2. CASE queue' = Tail(queue)
    BY <2>2
  <2> QED BY <1>1, <2>1, <2>2 DEF RunHandler, Serve, get_all_i, stop_service
<1>7. ControlInv'
  <2>1. \A h \in ToSet(queue') : h.op \notin {"stop", "get_all"}
    BY <1>0, <1>2, <1>6 DEF ControlInv, TimerHandler
  <2> QED BY <1>0, <1>1, <1>5, <2>1 DEF ControlInv, Started
<1>8. MonTypeOK'
  <2>1. closing' \subseteq Element
    <3>1. closing \subseteq Element
      BY <1>0 DEF MonTypeOK
    <3>2. ToSet(handed') \subseteq Element
      BY <1>0, <1>1, HandedIsElements DEF SvcInv
    <3> QED BY <1>1, <3>1, <3>2
  <2>2. unwatched' \subseteq Element
    BY <1>0, <1>1 DEF MonTypeOK
  <2> QED BY <1>0, <1>1, <1>5, <2>1, <2>2 DEF MonTypeOK, SvcInv
<1>9. ASSUME NEW c \in Element PROVE WatchInv(c)'
  <2>1. /\ m_elements[c] = NULL /\ m_elements'[c] # NULL => Head(queue) = Add(c)
        /\ m_elements[c] # NULL /\ m_elements'[c] = NULL
             => c \in ToSet(handed') \/ Head(queue) = Del(c)
        /\ Head(queue) = Del(c) => m_elements'[c] = NULL
    BY <1>0, <1>1, <1>3, <1>4, HandlerEffect
  <2>2. /\ Add(c) \in ToSet(queue) <=> Add(c) \in ToSet(queue') \/ Head(queue) = Add(c)
        /\ Del(c) \in ToSet(queue) <=> Del(c) \in ToSet(queue') \/ Head(queue) = Del(c)
    BY <1>2, <1>6, RequestsDiffer
  <2>3. Answered(queue, Add(c), Del(c)) =>
          Answered(queue', Add(c), Del(c)) /\ (Head(queue) = Add(c) => Del(c) \in ToSet(queue'))
    BY <1>0, <1>1, <1>6, AnsweredTail
  <2>4. Head(queue) = Add(c) => m_elements'[c] # NULL \/ c \in unwatched'
    BY <1>1 DEF Add
  <2>5. Add(c) # Del(c) /\ (c \in closing => c \in closing') /\ (c \in unwatched => c \in unwatched')
    BY <1>1, RequestsDiffer
  <2>6. c \in ToSet(handed') /\ Started /\ status[c] = "open" => c \in closing'
    BY <1>1
  <2>7. WatchInv(c)
    BY <1>0
  <2> HIDE DEF Add, Del
  <2>8. /\ AddRequested(c) <=> Add(c) \in ToSet(queue)
        /\ AddRequested(c)' <=> Add(c) \in ToSet(queue')
        /\ DelRequested(c) <=> Del(c) \in ToSet(queue)
        /\ DelRequested(c)' <=> Del(c) \in ToSet(queue')
        /\ Watched(c) <=> m_elements[c] # NULL
        /\ Watched(c)' <=> m_elements'[c] # NULL
    BY DEF AddRequested, DelRequested, Watched, Add, Del
  <2>9. c \notin announced => ~Watched(c)' /\ ~AddRequested(c)'
    BY <2>1, <2>2, <2>7, <2>8 DEF WatchInv
  <2>10. DelRequested(c)' => status[c] = "closed"
    BY <2>2, <2>7, <2>8 DEF WatchInv
  <2>11. stops = 0 /\ status[c] = "open" /\ c \in announced
            => Watched(c)' \/ AddRequested(c)' \/ c \in closing' \/ c \in unwatched'
    BY <2>1, <2>2, <2>4, <2>5, <2>6, <2>7, <2>8 DEF WatchInv, Started
  <2>12. stops = 0 /\ status[c] = "closed"
            => (Watched(c)' => DelRequested(c)') /\ Answered(queue', Add(c), Del(c))
    BY <2>1, <2>2, <2>3, <2>5, <2>7, <2>8 DEF WatchInv
  <2> QED BY <1>1, <2>7, <2>9, <2>10, <2>11, <2>12 DEF WatchInv, Add, Del
<1> QED BY <1>5, <1>7, <1>8, <1>9 DEF LiveInv

-----------------------------------------------------------------------------
(* The theorems about the monitor.                                         *)

LEMMA MonInitInv == MonInit => LiveInv
<1> SUFFICES ASSUME MonInit PROVE LiveInv
  OBVIOUS
<1>1. SvcInv /\ queue = <<>> /\ ToSet(queue) = {}
  BY SvcInitInv DEF MonInit, Init, ToSet
<1>2. MonTypeOK
  BY <1>1 DEF MonInit, MonTypeOK, SvcInv
<1>3. ControlInv
  BY <1>1 DEF MonInit, Init, ControlInv, Started
<1>4. \A c \in Element : WatchInv(c)
  BY <1>1 DEF MonInit, Init, MgrInit, WatchInv, Watched, AddRequested, DelRequested
<1> QED BY <1>1, <1>2, <1>3, <1>4 DEF LiveInv

LEMMA MonStutterInv ==
  ASSUME LiveInv, UNCHANGED cvars
  PROVE  LiveInv'
<1>1. UNCHANGED vars /\ UNCHANGED <<monitor, setting, applied, closings, stops>>
      /\ UNCHANGED <<status, closing, announced, unwatched>>
  BY DEF cvars, monVars, connVars
<1>2. /\ SvcInv' /\ UNCHANGED <<m_elements, queue, owner, stopped, thread, m_started>>
      /\ UNCHANGED <<m_callback_function, m_max_limit_flag, m_max_limit>>
  BY <1>1, SvcUnchanged
<1>3. MonTypeOK' /\ ControlInv'
  BY <1>1, <1>2 DEF LiveInv, SvcInv, MonTypeOK, ControlInv, Started
<1>4. \A c \in Element : WatchInv(c)'
  BY <1>1, <1>2, WatchFrame DEF LiveInv
<1> QED BY <1>2, <1>3, <1>4 DEF LiveInv

LEMMA MonNextInv == LiveInv /\ [MonNext]_cvars => LiveInv'
<1> SUFFICES ASSUME LiveInv, [MonNext]_cvars PROVE LiveInv'
  OBVIOUS
<1>1. CASE UNCHANGED cvars
  BY <1>1, MonStutterInv
<1>2. CASE MonNext
  <2>1. CASE Controls
    BY <1>2, <2>1, StartStepInv, ControlsInv DEF MonNext, Controls
  <2>2. CASE Connections
    BY <1>2, <2>2, OpenInv, AddInv, UpdateStepInv, CloseInv DEF MonNext, Connections
  <2>3. CASE Beat \/ Timer
    BY <1>2, <2>3, BeatInv, TimerInv DEF MonNext
  <2> QED BY <1>2, <2>1, <2>2, <2>3 DEF MonNext
<1> QED BY <1>1, <1>2

\* Everything the monitor relies on is kept by every interleaving of the monitor's owner,
\* the connections' threads, the heart-beat thread and the clock.
THEOREM MonInvariant == MonSpec => []LiveInv
BY MonInitInv, MonNextInv, PTL DEF MonSpec

\* Every variable of the monitor and of the service under it keeps its type.
THEOREM MonTypeCorrect == MonSpec => []MonTypeOK
<1>1. LiveInv => MonTypeOK
  BY DEF LiveInv
<1> QED BY <1>1, MonInvariant, PTL

\* The monitor watches exactly the connections that live (rpc_conn_monitor.cpp's add, del
\* and handle_timeout), for any number of connections and any length of the queue: no
\* announced connection is lost, and a closed one is forgotten once its requests are served.
THEOREM WatchesTheLivingCorrect == MonSpec => []WatchesTheLiving
<1>1. ASSUME LiveInv PROVE WatchesTheLiving
  <2>0. queue \in Seq(Handler) /\ \A c \in Element : WatchInv(c)
    BY <1>1, QueuedCount DEF LiveInv, SvcInv
  <2>1. ASSUME NEW c \in Element, DelRequested(c) PROVE Requested(c)
    <3>1. PICK i \in 1..Len(queue) : queue[i] = Del(c)
      BY <2>0, <2>1, ToSetByIndex DEF DelRequested
    <3> QED BY <2>1, <3>1, RequestsDiffer DEF Requested, Del
  <2> QED BY <2>0, <2>1 DEF WatchInv, WatchesTheLiving
<1> QED BY <1>1, MonInvariant, PTL

\* The limit that start() hands to the service holds for the connections themselves: of
\* the announced and registered ones no more than max_limit stay open without a close().
THEOREM LimitIsEnforcedCorrect == MonSpec => []LimitIsEnforced
<1>1. ASSUME LiveInv, stops = 0, setting.max_limit_flag
      PROVE  Cardinality({c \in announced \ (closing \cup unwatched) :
                            status[c] = "open" /\ ~AddRequested(c)}) <= setting.max_limit
  <2> DEFINE S == {c \in announced \ (closing \cup unwatched) :
                     status[c] = "open" /\ ~AddRequested(c)}
  <2>0. /\ MgrInv /\ ControlInv /\ MonTypeOK /\ announced \subseteq Element
        /\ \A c \in Element : WatchInv(c)
    BY <1>1 DEF LiveInv, SvcInv, MonTypeOK
  <2>1. \A c \in S : c \in Element /\ c \in announced /\ Watched(c)
    BY <1>1, <2>0 DEF WatchInv
  <2>2. setting.max_limit \in Nat
    BY <2>0, MonitorAssumption DEF MonTypeOK
  <2>3. CASE S = {}
    <3>1. Cardinality(S) = 0
      BY <2>3, FS_EmptySet
    <3> QED BY <2>2, <3>1
  <2>4. ASSUME S # {} PROVE Cardinality(S) <= setting.max_limit
    <3>1. applied = 4 /\ m_max_limit_flag /\ m_max_limit = setting.max_limit
      <4>1. PICK c \in S : TRUE
        BY <2>4
      <4>2. monitor = "on"
        BY <1>1, <2>0, <2>1, <4>1 DEF WatchInv
      <4> QED BY <1>1, <2>0, <4>2 DEF ControlInv, Started
    <3>2. Len(m_busy_list) \in Nat /\ Len(m_busy_list) <= m_max_limit
      BY <2>0, <3>1, StoreFacts DEF MgrInv, LimitRespected
    <3> DEFINE K == 1..Len(m_busy_list)
               place == [c \in S |-> CHOOSE k \in K : m_node_pool[m_busy_list[k]].element = c]
    <3> HIDE DEF S
    <3>3. \A c \in S : place[c] \in K /\ m_node_pool[m_busy_list[place[c]]].element = c
      BY <2>0, <2>1, NodePosition DEF Watched
    <3>4. place \in Injection(S, K)
      <4> HIDE DEF K
      <4>1. place \in [S -> K]
        BY <3>3
      <4>2. \A c, d \in S : place[c] = place[d] => c = d
        BY <3>3
      <4> HIDE DEF place
      <4> QED BY <4>1, <4>2 DEF Injection, IsInjective
    <3>5. IsFiniteSet(K) /\ Cardinality(K) = Len(m_busy_list)
      <4>1. \A n \in Nat : IsFiniteSet(1..n) /\ Cardinality(1..n) = n
        <5> TAKE n \in Nat
        <5>1. IsFiniteSet(1..n) /\ Cardinality(1..n) = IF 1 > n THEN 0 ELSE n - 1 + 1
          BY FS_Interval
        <5> QED BY <5>1
      <4> QED BY <3>2, <4>1, Zenon
    <3>6. Cardinality(S) <= Cardinality(K) /\ Cardinality(S) \in Nat
      <4> HIDE DEF K, place
      <4>1. IsFiniteSet(S) /\ Cardinality(S) <= Cardinality(K)
        BY <3>4, <3>5, FS_Injection
      <4> QED BY <4>1, FS_CardinalityType
    <3> QED BY <2>2, <3>1, <3>2, <3>5, <3>6
  <2> QED BY <2>3, <2>4
<1>2. LiveInv => LimitIsEnforced
  BY <1>1 DEF LimitIsEnforced
<1> QED BY <1>2, MonInvariant, PTL
=============================================================================
