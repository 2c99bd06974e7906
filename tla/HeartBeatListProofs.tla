------------------------ MODULE HeartBeatListProofs ------------------------
(***************************************************************************)
(* The pointer list represents the sequence it should, for any number of   *)
(* nodes.  TypeOK and PointersRepresentOrder are inductive together: the   *)
(* pointers of a step are typed only because the links of the old state    *)
(* describe `order', and DetachedIsClean is what erase relies on.          *)
(***************************************************************************)
EXTENDS HeartBeatList, ListSeqsProofs

ListInv == TypeOK /\ PointersRepresentOrder

\* What the invariant says about a linked node, by its position.
LEMMA LinkedFacts ==
  ASSUME ListInv
  PROVE  /\ Len(order) \in Nat
         /\ \A n \in Linked : \E i \in 1..Len(order) : order[i] = n
         /\ \A i \in 1..Len(order) : order[i] \in Node /\ order[i] \in Linked /\ order[i] # NULL
         /\ m_header = NULL <=> order = <<>>
         /\ m_tail = NULL <=> order = <<>>
         /\ order # <<>> => /\ m_header = order[1] /\ m_tail = order[Len(order)]
                            /\ Len(order) >= 1
         /\ m_header = m_tail /\ m_header # NULL => Len(order) = 1
<1>1. order \in Seq(Node)
  BY DEF ListInv, TypeOK
<1>2. order = <<>> \/ Len(order) >= 1
  BY <1>1
<1>3. \A i \in 1..Len(order) : order[i] \in Node
  BY <1>1
<1>4. \A n : n \in Linked <=> \E i \in 1..Len(order) : order[i] = n
  BY <1>1, ToSetByIndex DEF Linked
<1>5. order # <<>> => 1 \in 1..Len(order) /\ Len(order) \in 1..Len(order)
  BY <1>1, <1>2
<1>6. order # <<>> => /\ m_header = order[1] /\ m_tail = order[Len(order)]
                       /\ m_header # NULL /\ m_tail # NULL
  BY <1>3, <1>5, NullAssumption DEF ListInv, PointersRepresentOrder, EndsMatch
<1>7. order = <<>> => m_header = NULL /\ m_tail = NULL
  BY DEF ListInv, PointersRepresentOrder, EndsMatch
<1>8. m_header = m_tail /\ m_header # NULL => Len(order) = 1
  BY <1>5, <1>6, <1>7 DEF ListInv, PointersRepresentOrder, OrderInjective, IsInjectiveSeq
<1>9. \A i \in 1..Len(order) : order[i] \in Node /\ order[i] \in Linked /\ order[i] # NULL
  BY <1>3, <1>4, NullAssumption
<1> QED BY <1>1, <1>2, <1>4, <1>6, <1>7, <1>8, <1>9

LEMMA InitInv == Init => ListInv
<1> SUFFICES ASSUME Init PROVE ListInv
  OBVIOUS
<1>1. order = <<>> /\ Len(order) = 0 /\ order \in Seq(Node)
  BY DEF Init
<1>2. TypeOK
  BY <1>1 DEF Init, TypeOK, Methods
<1>3. PointersRepresentOrder
  BY <1>1 DEF Init, PointersRepresentOrder, OrderInjective, IsInjectiveSeq, EndsMatch,
              ChainMatches, DetachedIsClean
<1> QED BY <1>2, <1>3 DEF ListInv

LEMMA PushFrontInv ==
  ASSUME ListInv, NEW n \in Node \ Linked, push_front(n)
  PROVE  ListInv'
<1> USE DEF ListInv, Return
<1>0. /\ order \in Seq(Node) /\ IsInjectiveSeq(order) /\ n \notin ToSet(order)
      /\ n \in Node
  BY DEF TypeOK, PointersRepresentOrder, OrderInjective, Linked
<1>1. order' = Cons(n, order)
  BY DEF push_front
<1>2. /\ order' \in Seq(Node) /\ Len(order') = Len(order) + 1
      /\ \A i \in 1..Len(order) + 1 : order'[i] = IF i = 1 THEN n ELSE order[i - 1]
      /\ ToSet(order') = ToSet(order) \cup {n}
      /\ IsInjectiveSeq(order')
  <2>1. /\ Cons(n, order) \in Seq(Node) /\ Len(Cons(n, order)) = Len(order) + 1
        /\ \A i \in 1..Len(order) + 1 :
             Cons(n, order)[i] = IF i = 1 THEN n ELSE order[i - 1]
    BY ONLY <1>0, ConsFacts
  <2>2. ToSet(Cons(n, order)) = ToSet(order) \cup {n} /\ IsInjectiveSeq(Cons(n, order))
    BY ONLY <1>0, ConsFacts
  <2> QED BY <2>1, <2>2, <1>1
<1>3. TypeOK'
  BY <1>2 DEF TypeOK, push_front, Calls, Methods
<1>4. Len(order) \in Nat /\ order' # <<>> /\ order'[1] = n
  BY <1>1, <1>2
<1>5. EndsMatch'
  <2>1. CASE order = <<>>
    BY <2>1, <1>1, <1>2, <1>4, LinkedFacts DEF push_front, EndsMatch
  <2>2. CASE order # <<>>
    <3>1. order'[Len(order')] = order[Len(order)]
      BY <2>2, <1>1, <1>2
    <3> QED BY <3>1, <2>2, <1>4, LinkedFacts DEF push_front, EndsMatch
  <2> QED BY <2>1, <2>2
<1>6. ChainMatches'
  <2>1. CASE order = <<>>
    BY <2>1, <1>1, <1>2, LinkedFacts DEF push_front, ChainMatches, TypeOK
  <2>2. CASE order # <<>>
    <3>1. /\ m_header = order[1] /\ m_header \in Node /\ m_header # n /\ Len(order) >= 1
          /\ front' = [front EXCEPT ![n] = NULL, ![m_header] = n]
          /\ next'  = [next EXCEPT ![n] = m_header]
      BY <2>2, LinkedFacts DEF push_front
    <3>2. \A i \in 1..Len(order) : order[i] # n /\ order[i] \in Node
      BY LinkedFacts
    <3>3. \A i \in 1..Len(order) : order[i] = m_header => i = 1
      BY <3>1, <1>0 DEF IsInjectiveSeq
    <3> SUFFICES ASSUME NEW i \in 1..Len(order')
                 PROVE  /\ front'[order'[i]] = IF i = 1 THEN NULL ELSE order'[i - 1]
                        /\ next'[order'[i]]  = IF i = Len(order') THEN NULL ELSE order'[i + 1]
      BY DEF ChainMatches
    <3>4. CASE i = 1
      BY <3>1, <3>4, <1>2, <1>4 DEF TypeOK
    <3>5. CASE i # 1
      <4>1. i - 1 \in 1..Len(order) /\ order'[i] = order[i - 1]
        BY <3>5, <1>2
      <4>2. /\ front[order[i - 1]] = IF i - 1 = 1 THEN NULL ELSE order[i - 2]
            /\ next[order[i - 1]]  = IF i - 1 = Len(order) THEN NULL ELSE order[i]
        BY <4>1 DEF PointersRepresentOrder, ChainMatches
      <4>3. next'[order'[i]] = IF i = Len(order') THEN NULL ELSE order'[i + 1]
        <5>1. next'[order[i - 1]] = next[order[i - 1]]
          BY <4>1, <3>1, <3>2 DEF TypeOK
        <5>2. i # Len(order') => order'[i + 1] = order[i]
          BY <4>1, <1>2, <1>4
        <5> QED BY <5>1, <5>2, <4>1, <4>2, <1>2, <1>4
      <4>4. front'[order'[i]] = order'[i - 1]
        <5>1. CASE i = 2
          BY <5>1, <4>1, <3>1, <1>4 DEF TypeOK
        <5>2. CASE i # 2
          <6>1. order[i - 1] # m_header
            BY <4>1, <5>2, <3>3
          <6>2. front'[order[i - 1]] = front[order[i - 1]]
            BY <6>1, <4>1, <3>1, <3>2 DEF TypeOK
          <6>3. i - 1 \in 1..Len(order) + 1 /\ i - 1 # 1 /\ order'[i - 1] = order[i - 2]
            BY <5>2, <4>1, <3>5, <1>2, <1>4
          <6> QED BY <6>2, <6>3, <4>1, <4>2
        <5> QED BY <5>1, <5>2
      <4> QED BY <4>3, <4>4, <3>5
    <3> QED BY <3>4, <3>5
  <2> QED BY <2>1, <2>2
<1>7. DetachedIsClean'
  <2> SUFFICES ASSUME NEW k \in Node, k \notin ToSet(order')
               PROVE  front'[k] = NULL /\ next'[k] = NULL
    BY DEF DetachedIsClean, Linked
  <2>1. k # n /\ k \in Node \ Linked
    BY <1>2 DEF Linked
  <2>2. front[k] = NULL /\ next[k] = NULL
    BY <2>1 DEF PointersRepresentOrder, DetachedIsClean
  <2>3. m_header # NULL => m_header # k
    BY <2>1, LinkedFacts
  <2> QED BY <2>1, <2>2, <2>3 DEF push_front, TypeOK
<1> QED BY <1>2, <1>3, <1>5, <1>6, <1>7 DEF PointersRepresentOrder, OrderInjective

\* Taking the node at position k out: what the pops and the cases of erase have in
\* common, stated on the whole link functions.
Unlink(k) ==
  /\ order' = Without(order, order[k])
  /\ m_header' = IF k = 1 THEN next[order[k]] ELSE m_header
  /\ m_tail' = IF k = Len(order) THEN front[order[k]] ELSE m_tail
  /\ front' \in [Node -> Node \cup {NULL}] /\ next' \in [Node -> Node \cup {NULL}]
  /\ \A x \in Node :
       /\ front'[x] = IF x = order[k] THEN NULL
                      ELSE IF k < Len(order) /\ x = order[k + 1] THEN front[order[k]]
                      ELSE front[x]
       /\ next'[x] = IF x = order[k] THEN NULL
                     ELSE IF k > 1 /\ x = order[k - 1] THEN next[order[k]]
                     ELSE next[x]

LEMMA UnlinkInv ==
  ASSUME ListInv, NEW k \in 1..Len(order), Unlink(k),
         ret' \in Node \cup {NULL, -1, 0, 1}, call' \in Methods \X (Node \cup {NULL})
  PROVE  ListInv'
<1> DEFINE L == Len(order)
<1>1. /\ order \in Seq(Node) /\ L \in Nat /\ L >= 1 /\ order # <<>>
      /\ IsInjectiveSeq(order)
  BY DEF ListInv, TypeOK, PointersRepresentOrder, OrderInjective
<1>2. /\ order' \in Seq(Node) /\ Len(order') = L - 1
      /\ \A i \in 1..L - 1 : order'[i] = IF i < k THEN order[i] ELSE order[i + 1]
      /\ IsInjectiveSeq(order') /\ ToSet(order') = ToSet(order) \ {order[k]}
  <2>1. order' = Without(order, order[k])
    BY DEF Unlink
  <2>2. /\ Without(order, order[k]) \in Seq(Node) /\ Len(Without(order, order[k])) = L - 1
        /\ \A i \in 1..L - 1 : Without(order, order[k])[i] =
             IF i < k THEN order[i] ELSE order[i + 1]
    BY ONLY <1>1, k \in 1..Len(order), WithoutFacts
  <2>3. /\ IsInjectiveSeq(Without(order, order[k]))
        /\ ToSet(Without(order, order[k])) = ToSet(order) \ {order[k]}
    BY ONLY <1>1, k \in 1..Len(order), WithoutFacts
  <2> QED BY <2>1, <2>2, <2>3
<1>3. /\ m_header = order[1] /\ m_tail = order[L]
      /\ \A i \in 1..L : order[i] \in Node /\ order[i] \in Linked
  BY <1>1, LinkedFacts
<1>4. \A i \in 1..L : /\ front[order[i]] = IF i = 1 THEN NULL ELSE order[i - 1]
                      /\ next[order[i]]  = IF i = L THEN NULL ELSE order[i + 1]
  BY DEF ListInv, PointersRepresentOrder, ChainMatches
<1>5. \A i, j \in 1..L : order[i] = order[j] => i = j
  BY <1>1 DEF IsInjectiveSeq
<1>6. TypeOK'
  BY <1>2, <1>3 DEF ListInv, TypeOK, Unlink
<1>7. EndsMatch'
  <2>1. CASE L = 1
    <3>1. order' = <<>> /\ k = 1
      BY <2>1, <1>2
    <3> QED BY <3>1, <2>1, <1>4 DEF Unlink, EndsMatch
  <2>2. CASE L > 1
    <3>1. order' # <<>>
      BY <2>2, <1>2
    <3>2. m_header' = order'[1]
      BY <2>2, <1>1, <1>2, <1>3, <1>4 DEF Unlink
    <3>3. m_tail' = order'[L - 1]
      BY <2>2, <1>1, <1>2, <1>3, <1>4 DEF Unlink
    <3> QED BY <3>1, <3>2, <3>3, <1>2 DEF EndsMatch
  <2>3. L \in Nat /\ L >= 1
    BY <1>1
  <2>4. L = 1 \/ L > 1
    BY ONLY <2>3
  <2> QED BY <2>1, <2>2, <2>4
<1>8. ChainMatches'
  <2> SUFFICES ASSUME NEW i \in 1..L - 1
               PROVE  /\ front'[order'[i]] = IF i = 1 THEN NULL ELSE order'[i - 1]
                      /\ next'[order'[i]]  = IF i = L - 1 THEN NULL ELSE order'[i + 1]
    BY <1>2 DEF ChainMatches
  <2> DEFINE old == IF i < k THEN i ELSE i + 1
             x   == order[old]
  <2>1. old \in 1..L /\ old # k /\ order'[i] = x /\ x \in Node /\ x # order[k]
    BY <1>2, <1>3, <1>5
  <2>2. front'[x] = IF old = k + 1 THEN front[order[k]] ELSE front[x]
    <3>1. k < L /\ x = order[k + 1] <=> old = k + 1
      BY <2>1, <1>5
    <3> QED BY <3>1, <2>1 DEF Unlink
  <2>3. next'[x] = IF old = k - 1 THEN next[order[k]] ELSE next[x]
    <3>1. k > 1 /\ x = order[k - 1] <=> old = k - 1
      BY <2>1, <1>5
    <3> QED BY <3>1, <2>1 DEF Unlink
  <2>4. front'[x] = IF i = 1 THEN NULL ELSE order'[i - 1]
    <3>1. CASE i < k
      <4>1. old = i /\ old # k + 1
        BY <3>1
      <4>2. front'[x] = IF i = 1 THEN NULL ELSE order[i - 1]
        BY <4>1, <2>1, <2>2, <1>4
      <4>3. i # 1 => order'[i - 1] = order[i - 1]
        BY <3>1, <1>1, <1>2
      <4> QED BY <4>2, <4>3
    <3>2. CASE i = k
      <4>1. old = k + 1
        BY <3>2
      <4>2. front'[x] = IF k = 1 THEN NULL ELSE order[k - 1]
        BY <4>1, <2>1, <2>2, <1>4
      <4>3. i # 1 => order'[i - 1] = order[k - 1]
        BY <3>2, <1>1, <1>2
      <4> QED BY <3>2, <4>2, <4>3
    <3>3. CASE i > k
      <4>1. old = i + 1 /\ old # k + 1 /\ i # 1
        BY <3>3
      <4>2. front'[x] = order[i]
        BY <4>1, <2>1, <2>2, <1>4
      <4>3. order'[i - 1] = order[i]
        BY <3>3, <1>1, <1>2
      <4> QED BY <4>1, <4>2, <4>3
    <3> QED BY <3>1, <3>2, <3>3
  <2>5. next'[x] = IF i = L - 1 THEN NULL ELSE order'[i + 1]
    <3>1. CASE i < k - 1
      <4>1. old = i /\ old # k - 1 /\ i # L - 1 /\ i # L
        BY <3>1, <1>1
      <4>2. next'[x] = order[i + 1]
        BY <4>1, <2>1, <2>3, <1>4
      <4>3. order'[i + 1] = order[i + 1]
        BY <3>1, <1>1, <1>2
      <4> QED BY <4>1, <4>2, <4>3
    <3>2. CASE i = k - 1
      <4>1. old = k - 1
        BY <3>2
      <4>2. next'[x] = IF k = L THEN NULL ELSE order[k + 1]
        BY <4>1, <2>1, <2>3, <1>4
      <4>3. i # L - 1 => order'[i + 1] = order[k + 1]
        BY <3>2, <1>1, <1>2
      <4> QED BY <3>2, <4>2, <4>3, <1>1
    <3>3. CASE i >= k
      <4>1. old = i + 1 /\ old # k - 1
        BY <3>3
      <4>2. next'[x] = IF i + 1 = L THEN NULL ELSE order[i + 2]
        BY <4>1, <2>1, <2>3, <1>4
      <4>3. i # L - 1 => order'[i + 1] = order[i + 2]
        BY <3>3, <1>2
      <4> QED BY <4>2, <4>3, <1>1
    <3> QED BY <3>1, <3>2, <3>3
  <2> QED BY <2>1, <2>4, <2>5
<1>9. DetachedIsClean'
  <2> SUFFICES ASSUME NEW y \in Node, y \notin ToSet(order')
               PROVE  front'[y] = NULL /\ next'[y] = NULL
    BY DEF DetachedIsClean, Linked
  <2>1. CASE y = order[k]
    BY <2>1 DEF Unlink
  <2>2. CASE y # order[k]
    <3>1. y \in Node \ Linked
      BY <2>2, <1>2 DEF Linked
    <3>2. front[y] = NULL /\ next[y] = NULL /\ \A i \in 1..L : y # order[i]
      BY <3>1, <1>3 DEF ListInv, PointersRepresentOrder, DetachedIsClean
    <3>3. ~(k < L /\ y = order[k + 1]) /\ ~(k > 1 /\ y = order[k - 1])
      BY <3>2
    <3> QED BY <2>2, <3>2, <3>3 DEF Unlink
  <2> QED BY <2>1, <2>2
<1> QED BY <1>2, <1>6, <1>7, <1>8, <1>9 DEF ListInv, PointersRepresentOrder, OrderInjective

LEMMA PushBackInv ==
  ASSUME ListInv, NEW n \in Node \ Linked, push_back(n)
  PROVE  ListInv'
<1> USE DEF ListInv, Return
<1> DEFINE L == Len(order)
<1>0. /\ order \in Seq(Node) /\ IsInjectiveSeq(order) /\ n \notin ToSet(order)
      /\ n \in Node /\ L \in Nat
  BY DEF TypeOK, PointersRepresentOrder, OrderInjective, Linked
<1>1. order' = Append(order, n)
  BY DEF push_back
<1>2. /\ order' \in Seq(Node) /\ Len(order') = L + 1
      /\ \A i \in 1..L : order'[i] = order[i]
      /\ order'[L + 1] = n
      /\ ToSet(order') = ToSet(order) \cup {n}
      /\ IsInjectiveSeq(order')
  <2>1. /\ Append(order, n) \in Seq(Node) /\ Len(Append(order, n)) = L + 1
        /\ \A i \in 1..L : Append(order, n)[i] = order[i]
        /\ Append(order, n)[L + 1] = n
    BY ONLY <1>0, AppendFacts
  <2>2. /\ ToSet(Append(order, n)) = ToSet(order) \cup {n}
        /\ IsInjectiveSeq(Append(order, n))
    BY ONLY <1>0, AppendFacts
  <2> QED BY <2>1, <2>2, <1>1
<1>3. TypeOK'
  BY <1>2 DEF TypeOK, push_back, Calls, Methods
<1>4. order' # <<>>
  BY <1>0, <1>2
<1>5. EndsMatch'
  <2>1. CASE order = <<>>
    BY <2>1, <1>2, <1>4, LinkedFacts DEF push_back, EndsMatch
  <2>2. CASE order # <<>>
    <3>1. order'[1] = order[1]
      BY <2>2, <1>0, <1>2
    <3> QED BY <3>1, <2>2, <1>2, <1>4, LinkedFacts DEF push_back, EndsMatch
  <2> QED BY <2>1, <2>2
<1>6. ChainMatches'
  <2>1. CASE order = <<>>
    <3>1. L = 0
      BY <2>1
    <3> QED BY <3>1, <2>1, <1>2, LinkedFacts DEF push_back, ChainMatches, TypeOK
  <2>2. CASE order # <<>>
    <3>1. /\ m_tail = order[L] /\ m_tail \in Node /\ m_tail # n /\ L >= 1
          /\ front' = [front EXCEPT ![n] = m_tail]
          /\ next'  = [next EXCEPT ![n] = NULL, ![m_tail] = n]
      BY <2>2, LinkedFacts DEF push_back
    <3>2. \A i \in 1..L : order[i] # n /\ order[i] \in Node
      BY LinkedFacts
    <3>3. \A i \in 1..L : order[i] = m_tail => i = L
      BY <3>1, <1>0 DEF IsInjectiveSeq
    <3> SUFFICES ASSUME NEW i \in 1..L + 1
                 PROVE  /\ front'[order'[i]] = IF i = 1 THEN NULL ELSE order'[i - 1]
                        /\ next'[order'[i]]  = IF i = L + 1 THEN NULL ELSE order'[i + 1]
      BY <1>2 DEF ChainMatches
    <3>4. CASE i = L + 1
      BY <3>1, <3>4, <1>0, <1>2 DEF TypeOK
    <3>5. CASE i # L + 1
      <4>1. i \in 1..L /\ order'[i] = order[i]
        BY <3>5, <1>0, <1>2
      <4>2. /\ front[order[i]] = IF i = 1 THEN NULL ELSE order[i - 1]
            /\ next[order[i]]  = IF i = L THEN NULL ELSE order[i + 1]
        BY <4>1 DEF PointersRepresentOrder, ChainMatches
      <4>3. front'[order'[i]] = IF i = 1 THEN NULL ELSE order'[i - 1]
        <5>1. front'[order[i]] = front[order[i]]
          BY <4>1, <3>1, <3>2 DEF TypeOK
        <5>2. i # 1 => order'[i - 1] = order[i - 1]
          BY <4>1, <1>0, <1>2
        <5> QED BY <5>1, <5>2, <4>1, <4>2
      <4>4. next'[order'[i]] = order'[i + 1]
        <5>1. CASE i = L
          BY <5>1, <4>1, <3>1, <1>2 DEF TypeOK
        <5>2. CASE i # L
          <6>1. order[i] # m_tail
            BY <4>1, <5>2, <3>3
          <6>2. i + 1 \in 1..L /\ order'[i + 1] = order[i + 1]
            BY <4>1, <5>2, <1>0, <1>2
          <6> QED BY <6>1, <6>2, <5>2, <4>1, <4>2, <3>1, <3>2 DEF TypeOK
        <5> QED BY <5>1, <5>2
      <4> QED BY <4>3, <4>4, <3>5
    <3> QED BY <3>4, <3>5
  <2> QED BY <2>1, <2>2
<1>7. DetachedIsClean'
  <2> SUFFICES ASSUME NEW k \in Node, k \notin ToSet(order')
               PROVE  front'[k] = NULL /\ next'[k] = NULL
    BY DEF DetachedIsClean, Linked
  <2>1. k # n /\ k \in Node \ Linked
    BY <1>2 DEF Linked
  <2>2. front[k] = NULL /\ next[k] = NULL
    BY <2>1 DEF PointersRepresentOrder, DetachedIsClean
  <2>3. m_tail # NULL => m_tail # k
    BY <2>1, LinkedFacts
  <2> QED BY <2>1, <2>2, <2>3 DEF push_back, TypeOK
<1> QED BY <1>2, <1>3, <1>5, <1>6, <1>7 DEF PointersRepresentOrder, OrderInjective

\* A pop either finds the list empty or takes out the node at its end, which is
\* the node it returns.
LEMMA PopUnlinks ==
  ASSUME ListInv
  PROVE  /\ pop_front => \/ order = <<>> /\ ret' = NULL /\ UNCHANGED <<links, order>>
                         \/ order # <<>> /\ ret' = order[1] /\ Unlink(1)
         /\ pop_back  => \/ order = <<>> /\ ret' = NULL /\ UNCHANGED <<links, order>>
                         \/ order # <<>> /\ ret' = order[Len(order)] /\ Unlink(Len(order))
<1> DEFINE L == Len(order)
<1>1. order \in Seq(Node) /\ IsInjectiveSeq(order) /\ L \in Nat
  BY DEF ListInv, TypeOK, PointersRepresentOrder, OrderInjective
<1>2. /\ m_header = NULL <=> order = <<>>
      /\ m_tail = NULL <=> order = <<>>
      /\ order # <<>> => m_header = order[1] /\ m_tail = order[L] /\ L >= 1
      /\ m_header = m_tail /\ m_header # NULL => L = 1
      /\ \A i \in 1..L : order[i] \in Node
  BY LinkedFacts
<1>3. \A i \in 1..L : /\ front[order[i]] = IF i = 1 THEN NULL ELSE order[i - 1]
                      /\ next[order[i]]  = IF i = L THEN NULL ELSE order[i + 1]
  BY DEF ListInv, PointersRepresentOrder, ChainMatches
<1>4. order # <<>> => /\ Tail(order) = Without(order, order[1])
                      /\ Front(order) = Without(order, order[L])
  BY <1>1, EndsAreWithout
<1>5. front \in [Node -> Node \cup {NULL}] /\ next \in [Node -> Node \cup {NULL}]
  BY DEF ListInv, TypeOK
<1>6. ASSUME pop_front
      PROVE  \/ order = <<>> /\ ret' = NULL /\ UNCHANGED <<links, order>>
             \/ order # <<>> /\ ret' = order[1] /\ Unlink(1)
  <2>1. CASE PopNone(m_header)
    BY <2>1, <1>2 DEF PopNone, Return
  <2>2. CASE PopOnly(m_header) /\ order' = Tail(order)
    <3>1. /\ L = 1 /\ order # <<>> /\ m_header = order[1]
          /\ front[order[1]] = NULL /\ next[order[1]] = NULL
      BY <2>2, <1>2, <1>3 DEF PopOnly
    <3>2. /\ ret' = order[1] /\ m_header' = NULL /\ m_tail' = NULL
          /\ front' = front /\ next' = next /\ order' = Without(order, order[1])
      BY <3>1, <2>2, <1>4 DEF PopOnly, Return
    <3> QED BY <3>1, <3>2, <1>5 DEF Unlink
  <2>3. CASE m_header # NULL /\ m_header # m_tail
    <3>1. L > 1 /\ next[m_header] = order[2] /\ m_header = order[1] /\ front[m_header] = NULL
      BY <2>3, <1>1, <1>2, <1>3
    <3>2. /\ ret' = m_header /\ m_header' = next[m_header] /\ m_tail' = m_tail
          /\ next'  = [next EXCEPT ![m_header] = NULL]
          /\ front' = [front EXCEPT ![order[2]] = NULL]
          /\ order' = Tail(order)
      BY <1>6, <2>3, <3>1 DEF pop_front, PopNone, PopOnly, Return
    <3> QED BY <3>1, <3>2, <2>3, <1>2, <1>4, <1>5 DEF Unlink
  <2> QED BY <2>1, <2>2, <2>3, <1>6 DEF pop_front
<1>7. ASSUME pop_back
      PROVE  \/ order = <<>> /\ ret' = NULL /\ UNCHANGED <<links, order>>
             \/ order # <<>> /\ ret' = order[L] /\ Unlink(L)
  <2>1. CASE PopNone(m_tail)
    BY <2>1, <1>2 DEF PopNone, Return
  <2>2. CASE PopOnly(m_tail) /\ order' = Front(order)
    <3>1. /\ L = 1 /\ order # <<>> /\ m_tail = order[1]
          /\ front[order[1]] = NULL /\ next[order[1]] = NULL
      BY <2>2, <1>2, <1>3 DEF PopOnly
    <3>2. /\ ret' = order[1] /\ m_header' = NULL /\ m_tail' = NULL
          /\ front' = front /\ next' = next /\ order' = Without(order, order[1])
      BY <3>1, <2>2, <1>4 DEF PopOnly, Return
    <3> QED BY <3>1, <3>2, <1>5 DEF Unlink
  <2>3. CASE m_tail # NULL /\ m_header # m_tail
    <3>1. L > 1 /\ front[m_tail] = order[L - 1] /\ m_tail = order[L] /\ next[m_tail] = NULL
      BY <2>3, <1>1, <1>2, <1>3
    <3>2. /\ ret' = m_tail /\ m_tail' = front[m_tail] /\ m_header' = m_header
          /\ front' = [front EXCEPT ![m_tail] = NULL]
          /\ next'  = [next EXCEPT ![order[L - 1]] = NULL]
          /\ order' = Front(order)
      BY <1>7, <2>3, <3>1 DEF pop_back, PopNone, PopOnly, Return
    <3> QED BY <3>1, <3>2, <2>3, <1>2, <1>4, <1>5 DEF Unlink
  <2> QED BY <2>1, <2>2, <2>3, <1>7 DEF pop_back
<1> QED BY <1>6, <1>7

\* erase answers 0 exactly for a linked node, and then takes it out.  The links of
\* the node alone decide: DetachedIsClean and ChainMatches make them tell the truth.
LEMMA EraseUnlinks ==
  ASSUME ListInv, NEW n \in Node, erase(n)
  PROVE  \/ n \notin Linked /\ ret' = -1 /\ UNCHANGED <<links, order>>
         \/ \E k \in 1..Len(order) : order[k] = n /\ ret' = 0 /\ Unlink(k)
<1> DEFINE L == Len(order)
<1>1. order \in Seq(Node) /\ IsInjectiveSeq(order) /\ L \in Nat
  BY DEF ListInv, TypeOK, PointersRepresentOrder, OrderInjective
<1>2. /\ m_header = NULL <=> order = <<>>
      /\ m_tail = NULL <=> order = <<>>
      /\ order # <<>> => m_header = order[1] /\ m_tail = order[L] /\ L >= 1
      /\ m_header = m_tail /\ m_header # NULL => L = 1
      /\ \A i \in 1..L : order[i] \in Node /\ order[i] \in Linked /\ order[i] # NULL
      /\ \A x \in Linked : \E i \in 1..L : order[i] = x
  BY LinkedFacts
<1>3. \A i \in 1..L : /\ front[order[i]] = IF i = 1 THEN NULL ELSE order[i - 1]
                      /\ next[order[i]]  = IF i = L THEN NULL ELSE order[i + 1]
  BY DEF ListInv, PointersRepresentOrder, ChainMatches
<1>4. n \notin Linked => front[n] = NULL /\ next[n] = NULL
  BY DEF ListInv, PointersRepresentOrder, DetachedIsClean
<1>5. front \in [Node -> Node \cup {NULL}] /\ next \in [Node -> Node \cup {NULL}]
  BY DEF ListInv, TypeOK
<1>6. CASE n \in Linked
  <2>1. PICK k \in 1..L : order[k] = n
    BY <1>6, <1>2
  <2>2. m_header # NULL /\ order # <<>> /\ m_header = order[1] /\ m_tail = order[L]
    BY <2>1, <1>1, <1>2
  <2>3. /\ front[n] = IF k = 1 THEN NULL ELSE order[k - 1]
        /\ next[n]  = IF k = L THEN NULL ELSE order[k + 1]
    BY <2>1, <1>3
  <2>4. /\ k # 1 => order[k - 1] \in Node /\ order[k - 1] # NULL /\ order[k - 1] # n
        /\ k # L => order[k + 1] \in Node /\ order[k + 1] # NULL /\ order[k + 1] # n
    BY <2>1, <1>1, <1>2 DEF IsInjectiveSeq
  <2>5. ~EraseMiss(n)
    <3>1. /\ front[n] = NULL <=> k = 1
          /\ next[n] = NULL <=> k = L
      BY <2>3, <2>4
    <3> QED BY <3>1, <2>1, <2>2 DEF EraseMiss
  <2>6. EraseLinked(n) /\ ret' = 0 /\ order' = Without(order, order[k])
    BY <2>1, <2>5 DEF erase, Return
  <2>7. Unlink(k)
    <3>1. CASE EraseAlone(n)
      <4>1. k = 1 /\ L = 1
        BY <3>1, <2>3, <2>4 DEF EraseAlone
      <4>2. front' = front /\ next' = next /\ m_header' = NULL /\ m_tail' = NULL
        BY <3>1 DEF EraseAlone
      <4> QED BY <4>1, <4>2, <2>1, <2>3, <2>6, <1>5 DEF Unlink
    <3>2. CASE EraseHeader(n)
      <4>1. k = 1 /\ k < L
        BY <3>2, <2>1, <2>3, <2>4, <1>1 DEF EraseHeader
      <4>2. /\ m_header' = next[n] /\ m_tail' = m_tail
            /\ front' = [front EXCEPT ![order[k + 1]] = NULL]
            /\ next'  = [next EXCEPT ![n] = NULL]
        BY <4>1, <3>2, <2>3 DEF EraseHeader
      <4> QED BY <4>1, <4>2, <2>1, <2>3, <2>4, <2>6, <1>5 DEF Unlink
    <3>3. CASE EraseTail(n)
      <4>1. k = L /\ k > 1
        BY <3>3, <2>1, <2>3, <2>4, <1>1 DEF EraseTail
      <4>2. /\ m_tail' = front[n] /\ m_header' = m_header
            /\ next'  = [next EXCEPT ![order[k - 1]] = NULL]
            /\ front' = [front EXCEPT ![n] = NULL]
        BY <4>1, <3>3, <2>3 DEF EraseTail
      <4> QED BY <4>1, <4>2, <2>1, <2>3, <2>4, <2>6, <1>5 DEF Unlink
    <3>4. CASE EraseInside(n)
      <4>1. k > 1 /\ k < L
        BY <3>4, <2>1, <2>3, <2>4, <1>1 DEF EraseInside
      <4>2. /\ m_tail' = m_tail /\ m_header' = m_header
            /\ next'  = [next EXCEPT ![n] = NULL, ![order[k - 1]] = order[k + 1]]
            /\ front' = [front EXCEPT ![n] = NULL, ![order[k + 1]] = order[k - 1]]
        BY <4>1, <3>4, <2>3 DEF EraseInside
      <4> QED BY <4>1, <4>2, <2>1, <2>3, <2>4, <2>6, <1>5 DEF Unlink
    <3> QED BY <3>1, <3>2, <3>3, <3>4, <2>6 DEF EraseLinked
  <2> QED BY <2>1, <2>6, <2>7
<1>7. CASE n \notin Linked
  <2>1. ~EraseLinked(n)
    <3>1. order # <<>> => m_header \in Linked
      BY <1>1, <1>2
    <3>2. m_header # NULL => m_header # n
      BY <3>1, <1>2, <1>7
    <3> QED BY <3>2, <1>4, <1>7 DEF EraseLinked, EraseAlone, EraseHeader, EraseTail, EraseInside
  <2> QED BY <2>1, <1>7 DEF erase, Return
<1> QED BY <1>6, <1>7

-----------------------------------------------------------------------------

LEMMA UnchangedInv ==
  ASSUME ListInv, UNCHANGED <<links, order>>,
         ret' \in Node \cup {NULL, -1, 0, 1}, call' \in Methods \X (Node \cup {NULL})
  PROVE  ListInv'
BY DEF ListInv, TypeOK, PointersRepresentOrder, OrderInjective, EndsMatch, ChainMatches,
       DetachedIsClean, Linked, links

LEMMA CallTyped ==
  ASSUME NEW method \in Methods, NEW n \in Node \cup {NULL}, Calls(method, n)
  PROVE  call' \in Methods \X (Node \cup {NULL})
BY DEF Calls

LEMMA NextInv == ListInv /\ [Next]_vars => ListInv'
<1> SUFFICES ASSUME ListInv, [Next]_vars PROVE ListInv'
  OBVIOUS
<1>0. /\ Len(order) \in Nat /\ \A i \in 1..Len(order) : order[i] \in Node
      /\ order # <<>> => 1 \in 1..Len(order) /\ Len(order) \in 1..Len(order)
  BY LinkedFacts
<1>1. ASSUME NEW n \in Node \ Linked, push_front(n) PROVE ListInv'
  BY <1>1, PushFrontInv
<1>2. ASSUME NEW n \in Node \ Linked, push_back(n) PROVE ListInv'
  BY <1>2, PushBackInv
<1>3. ASSUME NEW n \in Node, erase(n) PROVE ListInv'
  <2>1. call' \in Methods \X (Node \cup {NULL})
    BY <1>3, CallTyped DEF erase, Methods
  <2> QED BY <1>3, <2>1, EraseUnlinks, UnlinkInv, UnchangedInv
<1>4. CASE pop_front
  <2>1. call' \in Methods \X (Node \cup {NULL})
    BY <1>4, CallTyped DEF pop_front, Methods
  <2> QED BY <1>0, <1>4, <2>1, PopUnlinks, UnlinkInv, UnchangedInv
<1>5. CASE pop_back
  <2>1. call' \in Methods \X (Node \cup {NULL})
    BY <1>5, CallTyped DEF pop_back, Methods
  <2> QED BY <1>0, <1>5, <2>1, PopUnlinks, UnlinkInv, UnchangedInv
<1>6. ASSUME NEW method \in {"push_front", "push_back", "erase"}, refuse_null(method)
      PROVE  ListInv'
  <2>1. call' \in Methods \X (Node \cup {NULL})
    BY <1>6, CallTyped DEF refuse_null, Methods
  <2> QED BY <1>6, <2>1, UnchangedInv DEF refuse_null, Return
<1>7. CASE peek_front \/ peek_back \/ empty
  <2>1. ret' \in Node \cup {NULL, -1, 0, 1} /\ UNCHANGED <<links, order>>
    BY <1>7 DEF peek_front, peek_back, empty, Return, ListInv, TypeOK
  <2>2. call' \in Methods \X (Node \cup {NULL})
    BY <1>7, CallTyped DEF peek_front, peek_back, empty, Methods
  <2> QED BY <2>1, <2>2, UnchangedInv
<1>8. CASE UNCHANGED vars
  <2>1. ret' \in Node \cup {NULL, -1, 0, 1} /\ UNCHANGED <<links, order>>
    BY <1>8 DEF vars, links, ListInv, TypeOK
  <2>2. call' \in Methods \X (Node \cup {NULL})
    BY <1>8 DEF vars, ListInv, TypeOK
  <2> QED BY <2>1, <2>2, UnchangedInv
<1> QED BY <1>1, <1>2, <1>3, <1>4, <1>5, <1>6, <1>7, <1>8 DEF Next

\* heart_beat_list_t keeps header, tail and both link directions in step with the
\* sequence of nodes the calls should have built, for any number of nodes.
THEOREM ListCorrect == Spec => [](TypeOK /\ PointersRepresentOrder)
<1>1. ListInv => TypeOK /\ PointersRepresentOrder
  BY DEF ListInv
<1> QED BY <1>1, InitInv, NextInv, PTL DEF Spec

\* The sequence operators the deque brings along are the list's own.
LEMMA DequeOperators ==
  /\ \A s : Deque!ToSet(s) = ToSet(s) /\ Deque!Front(s) = Front(s)
  /\ \A s, x : Deque!Cons(x, s) = Cons(x, s) /\ Deque!Without(s, x) = Without(s, x)
BY DEF Deque!ToSet, ToSet, Deque!Front, Front, Deque!Cons, Cons, Deque!Without, Without,
       Deque!RemoveAt, RemoveAt

\* The steps of the pointer list are steps of the deque or leave it unchanged.
LEMMA StepIsDequeStep ==
  ASSUME ListInv, [Next]_vars
  PROVE  [Deque!DNext]_(Deque!dvars)
<1> USE DEF Deque!DNext, Deque!DAnswer, Calls
<1>0. /\ order \in Seq(Node) /\ IsInjectiveSeq(order) /\ Linked = ToSet(order)
      /\ Len(order) \in Nat
  BY DEF ListInv, TypeOK, PointersRepresentOrder, OrderInjective, Linked
<1>a. /\ m_header = NULL <=> order = <<>>
      /\ m_tail = NULL <=> order = <<>>
      /\ order # <<>> => m_header = order[1] /\ m_tail = order[Len(order)]
      /\ \A i \in 1..Len(order) : order[i] \in Linked
  BY LinkedFacts
<1>b. order # <<>> => /\ Tail(order) = Without(order, order[1])
                      /\ Front(order) = Without(order, order[Len(order)])
  BY <1>0, EndsAreWithout
<1>1. ASSUME NEW n \in Node \ Linked, push_front(n) PROVE Deque!DNext
  BY <1>0, <1>1, DequeOperators DEF push_front, Return, Deque!DPushFront
<1>2. ASSUME NEW n \in Node \ Linked, push_back(n) PROVE Deque!DNext
  BY <1>0, <1>2, DequeOperators DEF push_back, Return, Deque!DPushBack
<1>3. ASSUME NEW n \in Node, erase(n) PROVE Deque!DNext
  <2>0. call' = <<"erase", n>>
    BY <1>3 DEF erase
  <2>1. CASE n \notin Linked /\ ret' = -1 /\ UNCHANGED <<links, order>>
    BY <2>0, <2>1, <1>0, DequeOperators DEF Deque!DErase
  <2>2. CASE \E k \in 1..Len(order) : order[k] = n /\ ret' = 0 /\ Unlink(k)
    <3>1. n \in ToSet(order) /\ ret' = 0 /\ order' = Without(order, n)
      BY <2>2, <1>0, <1>a DEF Unlink
    <3> QED BY <3>1, <2>0, DequeOperators DEF Deque!DErase
  <2> QED BY <1>3, <2>1, <2>2, EraseUnlinks
<1>4. CASE pop_front
  <2>1. \/ order = <<>> /\ ret' = NULL /\ order' = order
        \/ order # <<>> /\ ret' = order[1] /\ order' = Tail(order)
    BY <1>4, <1>b, PopUnlinks DEF Unlink
  <2>2. call' = <<"pop_front", NULL>>
    BY <1>4 DEF pop_front
  <2> QED BY <2>1, <2>2 DEF Deque!DPopFront
<1>5. CASE pop_back
  <2>1. \/ order = <<>> /\ ret' = NULL /\ order' = order
        \/ order # <<>> /\ ret' = order[Len(order)] /\ order' = Front(order)
    BY <1>5, <1>b, PopUnlinks DEF Unlink
  <2>2. call' = <<"pop_back", NULL>>
    BY <1>5 DEF pop_back
  <2> QED BY <2>1, <2>2, DequeOperators DEF Deque!DPopBack
<1>6. ASSUME NEW method \in {"push_front", "push_back", "erase"}, refuse_null(method)
      PROVE  Deque!DNext
  BY <1>6 DEF refuse_null, Return, Deque!DRefuse
<1>7. CASE peek_front
  BY <1>7, <1>a DEF peek_front, Return, Deque!DFront
<1>8. CASE peek_back
  BY <1>8, <1>a DEF peek_back, Return, Deque!DBack
<1>9. CASE empty
  BY <1>9, <1>a DEF empty, Return, Deque!DEmpty
<1>10. CASE UNCHANGED vars
  BY <1>10 DEF vars, Deque!dvars
<1> QED BY <1>1, <1>2, <1>3, <1>4, <1>5, <1>6, <1>7, <1>8, <1>9, <1>10 DEF Next

\* The pointer list implements the double ended queue the element manager counts
\* on, method by method: pops and front()/back() return the node of their end, erase
\* works in place, answers 0 for every linked node and -1 for every other.
THEOREM ListImplementsDeque == Spec => ImplementsDeque
<1>1. Init => Deque!DInit
  BY DEF Init, Deque!DInit
<1> QED BY <1>1, InitInv, NextInv, StepIsDequeStep, PTL DEF Spec, ImplementsDeque, Deque!DSpec
=============================================================================
