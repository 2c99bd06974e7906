--------------------------- MODULE ListSeqsProofs ---------------------------
(***************************************************************************)
(* What the operations on injective sequences do to the length, the        *)
(* positions and the set of elements.  The proofs about the list and the   *)
(* element manager cite these facts and never expand the operators.        *)
(***************************************************************************)
EXTENDS ListSeqs, SequenceTheorems, FiniteSetTheorems, WellFoundedInduction, TLAPS

\* Membership in a sequence, by position.
LEMMA ToSetByIndex ==
  ASSUME NEW S, NEW s \in Seq(S)
  PROVE  /\ \A x : x \in ToSet(s) <=> \E i \in 1..Len(s) : s[i] = x
         /\ ToSet(s) \subseteq S
BY DEF ToSet

\* push_front.
LEMMA ConsFacts ==
  ASSUME NEW S, NEW s \in Seq(S), NEW x \in S
  PROVE  /\ Cons(x, s) \in Seq(S)
         /\ Len(Cons(x, s)) = Len(s) + 1
         /\ \A i \in 1..Len(s) + 1 : Cons(x, s)[i] = IF i = 1 THEN x ELSE s[i - 1]
         /\ ToSet(Cons(x, s)) = ToSet(s) \cup {x}
         /\ IsInjectiveSeq(s) /\ x \notin ToSet(s) => IsInjectiveSeq(Cons(x, s))
<1> DEFINE t == Cons(x, s)
<1>1. t \in Seq(S) /\ Len(t) = Len(s) + 1
  BY DEF Cons
<1>2. \A i \in 1..Len(s) + 1 : t[i] = IF i = 1 THEN x ELSE s[i - 1]
  BY DEF Cons
<1>3. \A i \in 1..Len(s) : t[i + 1] = s[i]
  BY <1>2
<1>4. t[1] = x
  BY <1>2
<1> HIDE DEF t
<1>5. ToSet(t) = ToSet(s) \cup {x}
  <2>1. \A y : y \in ToSet(t) => y \in ToSet(s) \cup {x}
    <3> TAKE y
    <3> HAVE y \in ToSet(t)
    <3>1. PICK i \in 1..Len(t) : t[i] = y
      BY <1>1, ToSetByIndex
    <3>2. CASE i = 1
      BY <3>1, <3>2, <1>4
    <3>3. CASE i # 1
      <4>1. i - 1 \in 1..Len(s) /\ s[i - 1] = y
        BY <3>1, <3>3, <1>1, <1>2
      <4> QED BY <4>1, ToSetByIndex
    <3> QED BY <3>2, <3>3
  <2>2. \A y : y \in ToSet(s) => y \in ToSet(t)
    <3> TAKE y
    <3> HAVE y \in ToSet(s)
    <3>1. PICK i \in 1..Len(s) : s[i] = y
      BY ToSetByIndex
    <3>2. i + 1 \in 1..Len(t) /\ t[i + 1] = y
      BY <3>1, <1>1, <1>3
    <3> QED BY <3>2, <1>1, ToSetByIndex
  <2>3. x \in ToSet(t)
    <3>1. 1 \in 1..Len(t)
      BY <1>1
    <3> QED BY <3>1, <1>1, <1>4, ToSetByIndex
  <2> HIDE DEF t
  <2> QED BY <2>1, <2>2, <2>3
<1> HIDE DEF t
<1>6. ASSUME IsInjectiveSeq(s), x \notin ToSet(s)
      PROVE  IsInjectiveSeq(t)
  <2>1. \A i \in 1..Len(s) : s[i] # x
    BY <1>6, ToSetByIndex
  <2> SUFFICES ASSUME NEW i \in 1..Len(t), NEW j \in 1..Len(t), t[i] = t[j]
               PROVE  i = j
    BY DEF IsInjectiveSeq
  <2>2. CASE i = 1 \/ j = 1
    <3>1. \A k \in 1..Len(t) : k # 1 => k - 1 \in 1..Len(s) /\ t[k] = s[k - 1]
      BY <1>1, <1>2
    <3>2. \A k \in 1..Len(t) : k # 1 => t[k] # x
      BY <3>1, <2>1
    <3> QED BY <3>2, <2>2, <1>4
  <2>3. CASE i # 1 /\ j # 1
    <3>1. i - 1 \in 1..Len(s) /\ j - 1 \in 1..Len(s) /\ s[i - 1] = s[j - 1]
      BY <2>3, <1>1, <1>2
    <3>2. i - 1 = j - 1
      BY <3>1, <1>6 DEF IsInjectiveSeq
    <3> QED BY <3>2
  <2> QED BY <2>2, <2>3
<1> QED BY <1>1, <1>2, <1>5, <1>6 DEF t

\* A contiguous part of a sequence: what a sweep keeps and what it removes.
LEMMA SubSeqFacts ==
  ASSUME NEW S, NEW s \in Seq(S), NEW a \in Nat, NEW b \in Nat,
         1 <= a, b <= Len(s), a <= b + 1
  PROVE  /\ SubSeq(s, a, b) \in Seq(S)
         /\ Len(SubSeq(s, a, b)) = b - a + 1
         /\ \A i \in 1..b - a + 1 : SubSeq(s, a, b)[i] = s[a + i - 1]
         /\ \A x : x \in ToSet(SubSeq(s, a, b)) <=> \E i \in a..b : s[i] = x
         /\ IsInjectiveSeq(s) => IsInjectiveSeq(SubSeq(s, a, b))
<1> DEFINE t == SubSeq(s, a, b)
<1>1. t \in Seq(S) /\ Len(t) = b - a + 1
  BY SMTT(30)
<1>2. \A i \in 1..b - a + 1 : t[i] = s[a + i - 1]
  BY SMTT(30)
<1> HIDE DEF t
<1>3. ASSUME NEW x
      PROVE  x \in ToSet(t) <=> \E i \in a..b : s[i] = x
  <2>1. ASSUME x \in ToSet(t) PROVE \E i \in a..b : s[i] = x
    <3>1. PICK i \in 1..Len(t) : t[i] = x
      BY <2>1, <1>1, ToSetByIndex
    <3>2. a + i - 1 \in a..b /\ s[a + i - 1] = x
      BY <3>1, <1>1, <1>2
    <3> QED BY <3>2
  <2>2. ASSUME NEW i \in a..b, s[i] = x PROVE x \in ToSet(t)
    <3>1. i - a + 1 \in 1..Len(t)
      BY <1>1
    <3>2. t[i - a + 1] = s[a + (i - a + 1) - 1] /\ a + (i - a + 1) - 1 = i
      BY <3>1, <1>1, <1>2
    <3> QED BY <3>1, <3>2, <2>2, <1>1, ToSetByIndex
  <2> QED BY <2>1, <2>2
<1>4. IsInjectiveSeq(s) => IsInjectiveSeq(t)
  <2> SUFFICES ASSUME IsInjectiveSeq(s), NEW i \in 1..Len(t), NEW j \in 1..Len(t),
                      t[i] = t[j]
               PROVE  i = j
    BY DEF IsInjectiveSeq
  <2>1. /\ a + i - 1 \in 1..Len(s) /\ a + j - 1 \in 1..Len(s)
        /\ s[a + i - 1] = s[a + j - 1]
    BY <1>1, <1>2
  <2>2. a + i - 1 = a + j - 1
    BY <2>1 DEF IsInjectiveSeq
  <2> QED BY <2>2
<1> QED BY <1>1, <1>2, <1>3, <1>4 DEF t

\* push_back.
LEMMA AppendFacts ==
  ASSUME NEW S, NEW s \in Seq(S), NEW x \in S
  PROVE  /\ Append(s, x) \in Seq(S)
         /\ Len(Append(s, x)) = Len(s) + 1
         /\ \A i \in 1..Len(s) : Append(s, x)[i] = s[i]
         /\ Append(s, x)[Len(s) + 1] = x
         /\ ToSet(Append(s, x)) = ToSet(s) \cup {x}
         /\ IsInjectiveSeq(s) /\ x \notin ToSet(s) => IsInjectiveSeq(Append(s, x))
<1> DEFINE t == Append(s, x)
<1>1. t \in Seq(S) /\ Len(t) = Len(s) + 1
  OBVIOUS
<1>2. t[Len(s) + 1] = x /\ \A i \in 1..Len(s) : t[i] = s[i]
  OBVIOUS
<1> HIDE DEF t
<1>3. ToSet(t) = ToSet(s) \cup {x}
  <2>1. \A y : y \in ToSet(t) => y \in ToSet(s) \cup {x}
    <3> TAKE y
    <3> HAVE y \in ToSet(t)
    <3>1. PICK i \in 1..Len(t) : t[i] = y
      BY <1>1, ToSetByIndex
    <3>2. i \in 1..Len(s) \/ i = Len(s) + 1
      BY <1>1
    <3> QED BY <3>1, <3>2, <1>2, ToSetByIndex
  <2>2. \A i \in 1..Len(s) : i \in 1..Len(t)
    BY <1>1
  <2>3. Len(s) + 1 \in 1..Len(t)
    BY <1>1
  <2> QED BY <2>1, <2>2, <2>3, <1>1, <1>2, ToSetByIndex
<1>4. ASSUME IsInjectiveSeq(s), x \notin ToSet(s)
      PROVE  IsInjectiveSeq(t)
  <2>1. \A i \in 1..Len(s) : t[i] = s[i] /\ t[i] # x
    BY <1>4, <1>2, ToSetByIndex
  <2> SUFFICES ASSUME NEW i \in 1..Len(t), NEW j \in 1..Len(t), t[i] = t[j]
               PROVE  i = j
    BY DEF IsInjectiveSeq
  <2>2. i \in 1..Len(s) \/ i = Len(s) + 1
    BY <1>1
  <2>3. j \in 1..Len(s) \/ j = Len(s) + 1
    BY <1>1
  <2> QED BY <2>1, <2>2, <2>3, <1>2, <1>4 DEF IsInjectiveSeq
<1> QED BY <1>1, <1>2, <1>3, <1>4 DEF t

\* erase of a node that is in the list, at its position k.
LEMMA WithoutFacts ==
  ASSUME NEW S, NEW s \in Seq(S), IsInjectiveSeq(s), NEW k \in 1..Len(s)
  PROVE  /\ Without(s, s[k]) \in Seq(S)
         /\ Len(Without(s, s[k])) = Len(s) - 1
         /\ \A i \in 1..Len(s) - 1 :
              Without(s, s[k])[i] = IF i < k THEN s[i] ELSE s[i + 1]
         /\ IsInjectiveSeq(Without(s, s[k]))
         /\ ToSet(Without(s, s[k])) = ToSet(s) \ {s[k]}
<1> DEFINE t == Without(s, s[k])
<1>1. t = RemoveAt(s, k)
  <2>1. \A i \in 1..Len(s) : s[i] = s[k] => i = k
    BY DEF IsInjectiveSeq
  <2>2. (CHOOSE i \in 1..Len(s) : s[i] = s[k]) = k
    BY <2>1
  <2> QED BY <2>2 DEF Without
<1>2. t = SubSeq(s, 1, k - 1) \o SubSeq(s, k + 1, Len(s))
  BY <1>1 DEF RemoveAt
<1>3. /\ SubSeq(s, 1, k - 1) \in Seq(S) /\ Len(SubSeq(s, 1, k - 1)) = k - 1
      /\ \A i \in 1..k - 1 : SubSeq(s, 1, k - 1)[i] = s[i]
  BY SMTT(30)
<1>4. /\ SubSeq(s, k + 1, Len(s)) \in Seq(S)
      /\ Len(SubSeq(s, k + 1, Len(s))) = Len(s) - k
      /\ \A i \in 1..Len(s) - k : SubSeq(s, k + 1, Len(s))[i] = s[k + i]
  BY SMTT(30)
<1>5. t \in Seq(S) /\ Len(t) = Len(s) - 1
  <2> DEFINE u == SubSeq(s, 1, k - 1)
             v == SubSeq(s, k + 1, Len(s))
  <2>1. t = u \o v /\ u \in Seq(S) /\ v \in Seq(S)
        /\ Len(u) = k - 1 /\ Len(v) = Len(s) - k
    BY <1>2, <1>3, <1>4
  <2> HIDE DEF u, v
  <2>2. u \o v \in Seq(S) /\ Len(u \o v) = Len(u) + Len(v)
    BY <2>1, ConcatProperties
  <2>3. k - 1 + (Len(s) - k) = Len(s) - 1
    OBVIOUS
  <2> HIDE DEF t
  <2> QED BY <2>1, <2>2, <2>3
<1> HIDE DEF t
<1>6. \A i \in 1..Len(s) - 1 : t[i] = IF i < k THEN s[i] ELSE s[i + 1]
  <2> DEFINE u == SubSeq(s, 1, k - 1)
             v == SubSeq(s, k + 1, Len(s))
  <2>1. t = u \o v /\ u \in Seq(S) /\ v \in Seq(S)
        /\ Len(u) = k - 1 /\ Len(v) = Len(s) - k
    BY <1>2, <1>3, <1>4
  <2>2. /\ \A i \in 1..k - 1 : u[i] = s[i]
        /\ \A i \in 1..Len(s) - k : v[i] = s[k + i]
    BY <1>3, <1>4
  <2> HIDE DEF u, v
  <2> TAKE i \in 1..Len(s) - 1
  <2>3. CASE i < k
    BY <2>1, <2>2, <2>3
  <2>4. CASE i >= k
    <3>1. i - (k - 1) \in 1..Len(v) /\ t[i] = v[i - (k - 1)]
      BY <2>1, <2>4
    <3>2. v[i - (k - 1)] = s[k + (i - (k - 1))] /\ k + (i - (k - 1)) = i + 1
      BY <3>1, <2>1, <2>2
    <3> QED BY <3>1, <3>2, <2>4
  <2> QED BY <2>3, <2>4
<1>7. IsInjectiveSeq(t)
  <2> DEFINE at(i) == IF i < k THEN i ELSE i + 1
  <2>1. \A i \in 1..Len(t) : at(i) \in 1..Len(s) /\ t[i] = s[at(i)]
    BY <1>5, <1>6
  <2>2. \A i, j \in 1..Len(t) : at(i) = at(j) => i = j
    BY <1>5
  <2> QED BY <2>1, <2>2 DEF IsInjectiveSeq
<1>8. ToSet(t) = ToSet(s) \ {s[k]}
  <2>1. ASSUME NEW y \in ToSet(t) PROVE y \in ToSet(s) /\ y # s[k]
    <3>1. PICK i \in 1..Len(t) : t[i] = y
      BY <1>5, ToSetByIndex
    <3>2. PICK j \in 1..Len(s) : s[j] = y /\ j # k
      BY <3>1, <1>5, <1>6
    <3> QED BY <3>2, ToSetByIndex DEF IsInjectiveSeq
  <2>2. ASSUME NEW y \in ToSet(s), y # s[k] PROVE y \in ToSet(t)
    <3>1. PICK j \in 1..Len(s) : s[j] = y /\ j # k
      BY <2>2, ToSetByIndex
    <3>2. CASE j < k
      <4>1. j \in 1..Len(t) /\ t[j] = y
        BY <3>1, <3>2, <1>5, <1>6
      <4> QED BY <4>1, <1>5, ToSetByIndex
    <3>3. CASE j > k
      <4>1. j - 1 \in 1..Len(t) /\ t[j - 1] = s[(j - 1) + 1] /\ (j - 1) + 1 = j
        BY <3>1, <3>3, <1>5, <1>6
      <4> QED BY <4>1, <3>1, <1>5, ToSetByIndex
    <3> QED BY <3>1, <3>2, <3>3
  <2> QED BY <2>1, <2>2
<1> QED BY <1>5, <1>6, <1>7, <1>8 DEF t

\* erase of a node that is not in the list.
LEMMA WithoutAbsent ==
  ASSUME NEW S, NEW s \in Seq(S), NEW x, x \notin ToSet(s)
  PROVE  Without(s, x) = s
BY ToSetByIndex DEF Without

\* pop_front and pop_back take out the first and the last element.
LEMMA EndsAreWithout ==
  ASSUME NEW S, NEW s \in Seq(S), IsInjectiveSeq(s), s # <<>>
  PROVE  /\ Tail(s) = Without(s, s[1])
         /\ Front(s) = Without(s, s[Len(s)])
<1>1. 1 \in 1..Len(s) /\ Len(s) \in 1..Len(s)
  OBVIOUS
<1>2. /\ Without(s, s[1]) \in Seq(S) /\ Len(Without(s, s[1])) = Len(s) - 1
      /\ \A i \in 1..Len(s) - 1 :
           Without(s, s[1])[i] = IF i < 1 THEN s[i] ELSE s[i + 1]
  BY <1>1, WithoutFacts
<1>3. /\ Without(s, s[Len(s)]) \in Seq(S) /\ Len(Without(s, s[Len(s)])) = Len(s) - 1
      /\ \A i \in 1..Len(s) - 1 :
           Without(s, s[Len(s)])[i] = IF i < Len(s) THEN s[i] ELSE s[i + 1]
  BY <1>1, WithoutFacts
<1>4. /\ Tail(s) \in Seq(S) /\ Len(Tail(s)) = Len(s) - 1
      /\ \A i \in 1..Len(s) - 1 : Tail(s)[i] = s[i + 1]
  OBVIOUS
<1>5. /\ Front(s) \in Seq(S) /\ Len(Front(s)) = Len(s) - 1
      /\ \A i \in 1..Len(s) - 1 : Front(s)[i] = s[i]
  <2>1. Len(s) - 1 \in Nat /\ Len(s) - 1 - 1 + 1 = Len(s) - 1
    BY <1>1
  <2>2. /\ SubSeq(s, 1, Len(s) - 1) \in Seq(S)
        /\ Len(SubSeq(s, 1, Len(s) - 1)) = Len(s) - 1
        /\ \A i \in 1..Len(s) - 1 : SubSeq(s, 1, Len(s) - 1)[i] = s[i]
    BY <2>1, SMTT(30)
  <2> QED BY <2>2 DEF Front
<1>6. Tail(s) = Without(s, s[1])
  <2>0. \A i \in 1..Len(s) - 1 : ~(i < 1)
    OBVIOUS
  <2>1. \A i \in 1..Len(Tail(s)) : Tail(s)[i] = Without(s, s[1])[i]
    BY <2>0, <1>2, <1>4
  <2> QED BY <2>1, <1>2, <1>4, SeqEqual
<1>7. Front(s) = Without(s, s[Len(s)])
  <2>1. \A i \in 1..Len(Front(s)) : Front(s)[i] = Without(s, s[Len(s)])[i]
    BY <1>3, <1>5
  <2> QED BY <2>1, <1>3, <1>5, SeqEqual
<1> QED BY <1>6, <1>7
-----------------------------------------------------------------------------
(* Queues: what Append, Tail and \o do to the positions of a sequence and  *)
(* to the number of its elements in a set S.                               *)

CountIn(s, S) == Cardinality({i \in 1..Len(s) : s[i] \in S})

LEMMA TailFacts ==
  ASSUME NEW T, NEW s \in Seq(T), s # <<>>
  PROVE  /\ Tail(s) \in Seq(T) /\ Head(s) \in T /\ Head(s) = s[1]
         /\ Len(s) \in Nat \ {0} /\ Len(Tail(s)) = Len(s) - 1
         /\ \A i \in 1..Len(s) - 1 : Tail(s)[i] = s[i + 1]
OBVIOUS

LEMMA TailSet ==
  ASSUME NEW T, NEW s \in Seq(T), s # <<>>
  PROVE  ToSet(s) = ToSet(Tail(s)) \cup {Head(s)}
<1> DEFINE t == Tail(s)
<1>1. /\ t \in Seq(T) /\ Head(s) = s[1] /\ Len(s) \in Nat \ {0} /\ Len(t) = Len(s) - 1
      /\ \A i \in 1..Len(s) - 1 : t[i] = s[i + 1]
  BY TailFacts
<1> HIDE DEF t
<1>2. ASSUME NEW x \in ToSet(s), x # Head(s) PROVE x \in ToSet(t)
  <2>1. PICK i \in 1..Len(s) : s[i] = x
    BY ToSetByIndex
  <2>2. i - 1 \in 1..Len(s) - 1 /\ i - 1 + 1 = i /\ i - 1 \in 1..Len(t)
    BY <1>1, <1>2, <2>1
  <2>3. t[i - 1] = x
    BY <2>1, <2>2, <1>1
  <2> QED BY <2>2, <2>3, <1>1, ToSetByIndex
<1>3. ASSUME NEW x \in ToSet(t) PROVE x \in ToSet(s)
  <2>1. PICK i \in 1..Len(t) : t[i] = x
    BY <1>1, ToSetByIndex
  <2>2. i + 1 \in 1..Len(s) /\ s[i + 1] = x
    BY <2>1, <1>1
  <2> QED BY <2>2, ToSetByIndex
<1>4. Head(s) \in ToSet(s)
  <2>1. 1 \in 1..Len(s)
    BY <1>1
  <2> QED BY <2>1, <1>1, ToSetByIndex
<1> QED BY <1>2, <1>3, <1>4 DEF t

LEMMA ConcatFacts ==
  ASSUME NEW T, NEW s \in Seq(T), NEW t \in Seq(T)
  PROVE  /\ s \o t \in Seq(T) /\ Len(s \o t) = Len(s) + Len(t)
         /\ \A i \in 1..Len(s) : (s \o t)[i] = s[i]
         /\ \A i \in 1..Len(t) : (s \o t)[Len(s) + i] = t[i]
OBVIOUS

LEMMA ConcatSet ==
  ASSUME NEW T, NEW s \in Seq(T), NEW t \in Seq(T)
  PROVE  ToSet(s \o t) = ToSet(s) \cup ToSet(t)
<1> DEFINE u == s \o t
<1>1. /\ u \in Seq(T) /\ Len(u) = Len(s) + Len(t) /\ Len(s) \in Nat /\ Len(t) \in Nat
      /\ \A i \in 1..Len(s) : u[i] = s[i]
      /\ \A i \in 1..Len(t) : u[Len(s) + i] = t[i]
  BY ConcatFacts
<1> HIDE DEF u
<1>2. ASSUME NEW x \in ToSet(u) PROVE x \in ToSet(s) \cup ToSet(t)
  <2>1. PICK i \in 1..Len(u) : u[i] = x
    BY <1>1, ToSetByIndex
  <2>2. CASE i \in 1..Len(s)
    BY <2>1, <2>2, <1>1, ToSetByIndex
  <2>3. CASE i \notin 1..Len(s)
    <3>1. i - Len(s) \in 1..Len(t) /\ Len(s) + (i - Len(s)) = i
      BY <2>3, <1>1
    <3>2. t[i - Len(s)] = x
      BY <3>1, <2>1, <1>1
    <3> QED BY <3>1, <3>2, ToSetByIndex
  <2> QED BY <2>2, <2>3
<1>3. ASSUME NEW x \in ToSet(s) PROVE x \in ToSet(u)
  <2>1. PICK i \in 1..Len(s) : s[i] = x
    BY ToSetByIndex
  <2>2. i \in 1..Len(u) /\ u[i] = x
    BY <2>1, <1>1
  <2> QED BY <2>2, <1>1, ToSetByIndex
<1>4. ASSUME NEW x \in ToSet(t) PROVE x \in ToSet(u)
  <2>1. PICK i \in 1..Len(t) : t[i] = x
    BY ToSetByIndex
  <2>2. Len(s) + i \in 1..Len(u) /\ u[Len(s) + i] = x
    BY <2>1, <1>1
  <2> QED BY <2>2, <1>1, ToSetByIndex
<1> QED BY <1>2, <1>3, <1>4 DEF u

LEMMA CountType ==
  ASSUME NEW T, NEW s \in Seq(T), NEW S
  PROVE  /\ IsFiniteSet({i \in 1..Len(s) : s[i] \in S})
         /\ CountIn(s, S) \in Nat /\ CountIn(s, S) <= Len(s)
         /\ CountIn(s, S) = 0 <=> \A i \in 1..Len(s) : s[i] \notin S
         /\ CountIn(s, S) <= 1 <=> \A i, j \in 1..Len(s) : s[i] \in S /\ s[j] \in S => i = j
<1> DEFINE C == {i \in 1..Len(s) : s[i] \in S}
<1>1. Len(s) \in Nat /\ IsFiniteSet(1..Len(s)) /\ Cardinality(1..Len(s)) = Len(s)
  <2>1. Len(s) \in Nat /\ Len(s) \in Int /\ 1 \in Int
    OBVIOUS
  <2> QED BY <2>1, FS_Interval
<1>2. IsFiniteSet(C) /\ Cardinality(C) <= Len(s) /\ Cardinality(C) \in Nat
  <2>1. C \in SUBSET (1..Len(s))
    OBVIOUS
  <2>2. IsFiniteSet(C) /\ Cardinality(C) <= Len(s)
    BY <1>1, <2>1, FS_Subset
  <2> QED BY <2>2, FS_CardinalityType
<1>3. Cardinality(C) = 0 <=> \A i \in 1..Len(s) : s[i] \notin S
  <2>1. Cardinality(C) = 0 <=> C = {}
    BY <1>2, FS_EmptySet
  <2> QED BY <2>1
<1>4. Cardinality(C) <= 1 <=> \A i, j \in 1..Len(s) : s[i] \in S /\ s[j] \in S => i = j
  <2>1. Cardinality(C) = 0 <=> C = {}
    BY <1>2, FS_EmptySet
  <2>2. Cardinality(C) = 1 <=> \E x : C = {x}
    BY <1>2, FS_Singleton
  <2>3. (C = {} \/ \E x : C = {x}) <=> \A i, j \in C : i = j
    OBVIOUS
  <2>4. Cardinality(C) <= 1 <=> Cardinality(C) = 0 \/ Cardinality(C) = 1
    BY <1>2
  <2> QED BY <2>1, <2>2, <2>3, <2>4
<1> QED BY <1>2, <1>3, <1>4 DEF CountIn

LEMMA CountZero ==
  ASSUME NEW T, NEW s \in Seq(T), NEW S
  PROVE  CountIn(s, S) = 0 <=> \A x \in ToSet(s) : x \notin S
<1>1. CountIn(s, S) = 0 <=> \A i \in 1..Len(s) : s[i] \notin S
  BY CountType
<1>2. \A x : x \in ToSet(s) <=> \E i \in 1..Len(s) : s[i] = x
  BY ToSetByIndex
<1> QED BY <1>1, <1>2

LEMMA CountEmpty == \A S : CountIn(<<>>, S) = 0
BY FS_EmptySet DEF CountIn

LEMMA CountConcat ==
  ASSUME NEW T, NEW s \in Seq(T), NEW t \in Seq(T), NEW S
  PROVE  CountIn(s \o t, S) = CountIn(s, S) + CountIn(t, S)
<1> DEFINE A == {i \in 1..Len(s) : s[i] \in S}
           B == {i \in 1..Len(t) : t[i] \in S}
           D == {i \in Len(s) + 1..Len(s) + Len(t) : (s \o t)[i] \in S}
           C == {i \in 1..Len(s \o t) : (s \o t)[i] \in S}
           f == [i \in B |-> Len(s) + i]
<1>1. Len(s) \in Nat /\ Len(t) \in Nat /\ Len(s \o t) = Len(s) + Len(t)
  OBVIOUS
<1>2. IsFiniteSet(A) /\ IsFiniteSet(B)
  BY CountType
<1>3. C = A \cup D /\ A \cap D = {}
  <2>1. \A i \in 1..Len(s) : (s \o t)[i] = s[i]
    BY ConcatFacts
  <2>2. 1..Len(s) + Len(t) = (1..Len(s)) \cup (Len(s) + 1..Len(s) + Len(t))
    BY <1>1
  <2>3. \A i \in Len(s) + 1..Len(s) + Len(t) : i \notin 1..Len(s)
    BY <1>1
  <2> QED BY <1>1, <2>1, <2>2, <2>3
<1>4. f \in Bijection(B, D)
  <2>1. \A i \in 1..Len(t) : /\ Len(s) + i \in Len(s) + 1..Len(s) + Len(t)
                             /\ (s \o t)[Len(s) + i] = t[i]
    BY <1>1, ConcatFacts
  <2>2. f \in [B -> D]
    BY <2>1
  <2>3. \A i, j \in B : f[i] = f[j] => i = j
    BY <1>1
  <2>4. \A k \in D : \E i \in B : f[i] = k
    <3> SUFFICES ASSUME NEW k \in D PROVE \E i \in B : f[i] = k
      OBVIOUS
    <3>1. k - Len(s) \in 1..Len(t) /\ Len(s) + (k - Len(s)) = k
      BY <1>1
    <3>2. k - Len(s) \in B
      BY <3>1, <2>1
    <3> QED BY <3>1, <3>2
  <2> HIDE DEF f, B, D
  <2> QED BY <2>2, <2>3, <2>4 DEF Bijection, Injection, Surjection, IsInjective
<1>5. IsFiniteSet(D) /\ Cardinality(D) = Cardinality(B)
  BY <1>2, <1>4, FS_Bijection DEF ExistsBijection
<1>6. Cardinality(C) = Cardinality(A) + Cardinality(D)
  <2> HIDE DEF A, D, C
  <2>1. Cardinality(A \cup D) = Cardinality(A) + Cardinality(D) - Cardinality(A \cap D)
    BY <1>2, <1>5, FS_Union
  <2>2. Cardinality(A \cap D) = 0
    BY <1>3, FS_EmptySet
  <2>3. Cardinality(A) \in Nat /\ Cardinality(D) \in Nat
    BY <1>2, <1>5, FS_CardinalityType
  <2> QED BY <1>3, <2>1, <2>2, <2>3
<1>7. CountIn(s, S) = Cardinality(A) /\ CountIn(t, S) = Cardinality(B)
      /\ CountIn(s \o t, S) = Cardinality(C)
  BY DEF CountIn
<1> HIDE DEF A, B, C, D
<1> QED BY <1>5, <1>6, <1>7

LEMMA CountSingle ==
  ASSUME NEW x, NEW S
  PROVE  CountIn(<<x>>, S) = IF x \in S THEN 1 ELSE 0
<1>1. Len(<<x>>) = 1 /\ <<x>>[1] = x /\ 1..1 = {1}
  OBVIOUS
<1>2. CASE x \in S
  <2>1. {i \in 1..Len(<<x>>) : <<x>>[i] \in S} = {1}
    BY <1>1, <1>2
  <2> QED BY <2>1, <1>2, FS_Singleton DEF CountIn
<1>3. CASE x \notin S
  <2>1. {i \in 1..Len(<<x>>) : <<x>>[i] \in S} = {}
    BY <1>1, <1>3
  <2> QED BY <2>1, <1>3, FS_EmptySet DEF CountIn
<1> QED BY <1>2, <1>3

LEMMA CountAppend ==
  ASSUME NEW T, NEW s \in Seq(T), NEW x \in T, NEW S
  PROVE  CountIn(Append(s, x), S) = CountIn(s, S) + IF x \in S THEN 1 ELSE 0
<1>1. Append(s, x) = s \o <<x>> /\ <<x>> \in Seq(T)
  OBVIOUS
<1>2. CountIn(s \o <<x>>, S) = CountIn(s, S) + CountIn(<<x>>, S)
  BY <1>1, CountConcat
<1>3. CountIn(<<x>>, S) = IF x \in S THEN 1 ELSE 0
  BY CountSingle
<1> QED BY <1>1, <1>2, <1>3

LEMMA CountTail ==
  ASSUME NEW T, NEW s \in Seq(T), s # <<>>, NEW S
  PROVE  CountIn(s, S) = (IF Head(s) \in S THEN 1 ELSE 0) + CountIn(Tail(s), S)
<1>1. s = <<Head(s)>> \o Tail(s) /\ <<Head(s)>> \in Seq(T) /\ Tail(s) \in Seq(T)
  OBVIOUS
<1>2. CountIn(<<Head(s)>> \o Tail(s), S) = CountIn(<<Head(s)>>, S) + CountIn(Tail(s), S)
  BY <1>1, CountConcat
<1> QED BY <1>1, <1>2, CountSingle

-----------------------------------------------------------------------------
(* Every set of naturals that is not empty has a least element: the form   *)
(* in which proofs by induction are written here.                          *)
LEMMA LeastNatural ==
  ASSUME NEW T, T \subseteq Nat, T # {}
  PROVE  \E x \in T : \A y \in T : x <= y
<1> DEFINE R == {ss \in Nat \X Nat : ss[1] < ss[2]}
<1>1. IsWellFoundedOn(R, Nat)
  BY NatLessThanWellFounded DEF OpToRel
<1>2. PICK x \in T : \A y \in T : <<y, x>> \notin R
  <2> HIDE DEF R
  <2> QED BY <1>1, WFMin
<1>3. ASSUME NEW y \in T PROVE x <= y
  <2>1. x \in Nat /\ y \in Nat /\ <<y, x>> \notin R
    BY <1>2
  <2>2. <<y, x>>[1] = y /\ <<y, x>>[2] = x
    OBVIOUS
  <2>3. ~(y < x)
    BY <2>1, <2>2
  <2> QED BY <2>1, <2>3
<1> QED BY <1>3

-----------------------------------------------------------------------------
(* SumSeq: f is the function of its definition, the sums of the prefixes.  *)

Sums(s, f) == f = [i \in 0..Len(s) |-> IF i = 0 THEN 0 ELSE f[i - 1] + s[i]]

LEMMA SumsType ==
  ASSUME NEW s \in Seq(Nat), NEW f, Sums(s, f)
  PROVE  /\ DOMAIN f = 0..Len(s) /\ f[0] = 0
         /\ \A i \in 1..Len(s) : f[i] = f[i - 1] + s[i]
         /\ \A i \in 0..Len(s) : f[i] \in Nat
<1>1. Len(s) \in Nat /\ DOMAIN f = 0..Len(s) /\ f[0] = 0
  BY DEF Sums
<1>2. \A i \in 1..Len(s) : f[i] = f[i - 1] + s[i]
  BY DEF Sums
<1>3. ASSUME NEW k \in 0..Len(s), f[k] \notin Nat PROVE FALSE
  <2> DEFINE T == {i \in 0..Len(s) : f[i] \notin Nat}
  <2>1. T \subseteq Nat /\ T # {}
    BY <1>1, <1>3
  <2>2. PICK x \in T : \A y \in T : x <= y
    BY <2>1, LeastNatural
  <2>3. x \in 1..Len(s) /\ x - 1 \in 0..Len(s) /\ x - 1 \notin T
    BY <2>2, <1>1
  <2>4. f[x - 1] \in Nat /\ s[x] \in Nat /\ f[x] = f[x - 1] + s[x]
    BY <2>3, <1>2
  <2> QED BY <2>2, <2>4
<1> QED BY <1>1, <1>2, <1>3

LEMMA SumsUnique ==
  ASSUME NEW s \in Seq(Nat), NEW f, NEW g, Sums(s, f), Sums(s, g)
  PROVE  f[Len(s)] = g[Len(s)]
<1>1. /\ Len(s) \in Nat /\ f[0] = 0 /\ g[0] = 0
      /\ \A i \in 1..Len(s) : f[i] = f[i - 1] + s[i] /\ g[i] = g[i - 1] + s[i]
  BY SumsType
<1> SUFFICES ASSUME f[Len(s)] # g[Len(s)] PROVE FALSE
  OBVIOUS
<1> DEFINE T == {i \in 0..Len(s) : f[i] # g[i]}
<1>2. T \subseteq Nat /\ T # {}
  BY <1>1
<1>3. PICK x \in T : \A y \in T : x <= y
  BY <1>2, LeastNatural
<1>4. x \in 1..Len(s) /\ x - 1 \in 0..Len(s) /\ x - 1 \notin T
  BY <1>3, <1>1
<1> QED BY <1>1, <1>3, <1>4

LEMMA SumsExist ==
  ASSUME NEW s \in Seq(Nat)
  PROVE  \E f : Sums(s, f)
<1> DEFINE Upto(n, f) == f = [i \in 0..n |-> IF i = 0 THEN 0 ELSE f[i - 1] + s[i]]
           T == {n \in 0..Len(s) : ~\E f : Upto(n, f)}
<1>1. Len(s) \in Nat
  OBVIOUS
<1>2. ASSUME T # {} PROVE FALSE
  <2>1. PICK n \in T : \A y \in T : n <= y
    <3>1. T \subseteq Nat
      BY <1>1
    <3> HIDE DEF T
    <3> QED BY <3>1, <1>2, LeastNatural
  <2>2. CASE n = 0
    <3>1. Upto(0, [i \in 0..0 |-> 0])
      OBVIOUS
    <3> QED BY <3>1, <2>2
  <2>3. CASE n # 0
    <3>1. n \in 1..Len(s) /\ n - 1 \in 0..Len(s) /\ n - 1 \notin T
      <4>1. n \in 0..Len(s)
        OBVIOUS
      <4> HIDE DEF T
      <4> QED BY <4>1, <1>1, <2>1, <2>3
    <3>2. PICK f : Upto(n - 1, f)
      BY <3>1
    <3> DEFINE g == [i \in 0..n |-> IF i = n THEN f[n - 1] + s[n] ELSE f[i]]
    <3>3. \A i \in 0..n - 1 : f[i] = IF i = 0 THEN 0 ELSE f[i - 1] + s[i]
      BY <3>2
    <3>4. ASSUME NEW i \in 0..n
          PROVE  g[i] = IF i = 0 THEN 0 ELSE g[i - 1] + s[i]
      <4>1. CASE i = n
        <5>1. n - 1 \in 0..n /\ n - 1 # n /\ n # 0
          BY <3>1
        <5> QED BY <4>1, <5>1
      <4>2. CASE i # n
        <5>1. i \in 0..n - 1 /\ (i # 0 => i - 1 \in 0..n /\ i - 1 # n)
          BY <4>2, <3>1
        <5>2. g[i] = f[i] /\ (i # 0 => g[i - 1] = f[i - 1])
          BY <4>2, <5>1
        <5> QED BY <5>1, <5>2, <3>3
      <4> QED BY <4>1, <4>2
    <3>5. Upto(n, g)
      BY <3>4
    <3> QED BY <3>5
  <2> QED BY <2>2, <2>3
<1>3. Len(s) \in 0..Len(s) /\ Len(s) \notin T
  BY <1>1, <1>2
<1> QED BY <1>3 DEF Sums

LEMMA SumIsLast ==
  ASSUME NEW s \in Seq(Nat), NEW f, Sums(s, f)
  PROVE  SumSeq(s) = f[Len(s)] /\ SumSeq(s) \in Nat
<1>1. PICK g : Sums(s, g) /\ SumSeq(s) = g[Len(s)]
  BY DEF SumSeq, Sums
<1>2. Len(s) \in 0..Len(s)
  OBVIOUS
<1> QED BY <1>1, <1>2, SumsUnique, SumsType

\* The three facts about sums that are used.
LEMMA SumEmpty == SumSeq(<<>>) = 0
<1>1. <<>> \in Seq(Nat) /\ Len(<<>>) = 0
  OBVIOUS
<1>2. PICK f : Sums(<<>>, f)
  BY <1>1, SumsExist
<1> QED BY <1>1, <1>2, SumIsLast, SumsType

LEMMA SumAppend ==
  ASSUME NEW s \in Seq(Nat), NEW x \in Nat
  PROVE  SumSeq(Append(s, x)) = SumSeq(s) + x /\ SumSeq(s) \in Nat
<1> DEFINE t == Append(s, x)
<1>1. /\ Len(s) \in Nat /\ t \in Seq(Nat) /\ Len(t) = Len(s) + 1
      /\ t[Len(s) + 1] = x /\ \A i \in 1..Len(s) : t[i] = s[i]
  OBVIOUS
<1> HIDE DEF t
<1>2. PICK f : Sums(t, f)
  BY <1>1, SumsExist
<1>3. /\ f[0] = 0 /\ \A i \in 1..Len(s) + 1 : f[i] = f[i - 1] + t[i]
  BY <1>1, <1>2, SumsType
<1> DEFINE g == [i \in 0..Len(s) |-> f[i]]
<1>4. ASSUME NEW i \in 0..Len(s) PROVE g[i] = IF i = 0 THEN 0 ELSE g[i - 1] + s[i]
  <2>1. i # 0 => i \in 1..Len(s) + 1 /\ i \in 1..Len(s) /\ i - 1 \in 0..Len(s)
    BY <1>1
  <2> QED BY <1>1, <1>3, <2>1
<1>5. Sums(s, g)
  BY <1>4 DEF Sums
<1>6. SumSeq(s) = g[Len(s)] /\ SumSeq(s) \in Nat
  BY <1>5, SumIsLast
<1>7. SumSeq(t) = f[Len(s) + 1] /\ f[Len(s) + 1] = f[Len(s) + 1 - 1] + x
  <2>1. SumSeq(t) = f[Len(t)]
    BY <1>1, <1>2, SumIsLast
  <2>2. Len(s) + 1 \in 1..Len(s) + 1
    BY <1>1
  <2> QED BY <1>1, <1>3, <2>1, <2>2
<1>8. Len(s) + 1 - 1 = Len(s) /\ Len(s) \in 0..Len(s)
  BY <1>1
<1> QED BY <1>6, <1>7, <1>8 DEF t

LEMMA SumTail ==
  ASSUME NEW s \in Seq(Nat), s # <<>>
  PROVE  SumSeq(s) = Head(s) + SumSeq(Tail(s)) /\ SumSeq(Tail(s)) \in Nat
<1> DEFINE t == Tail(s)
<1>1. /\ Len(s) \in Nat /\ Len(s) > 0 /\ t \in Seq(Nat) /\ Len(t) = Len(s) - 1
      /\ Head(s) = s[1] /\ s[1] \in Nat /\ \A i \in 1..Len(s) - 1 : t[i] = s[i + 1]
  OBVIOUS
<1> HIDE DEF t
<1>2. PICK f : Sums(s, f)
  BY SumsExist
<1>3. /\ f[0] = 0 /\ \A i \in 1..Len(s) : f[i] = f[i - 1] + s[i]
      /\ \A i \in 0..Len(s) : f[i] \in Nat
  BY <1>2, SumsType
<1>4. f[1] = s[1]
  <2>1. 1 \in 1..Len(s) /\ 1 - 1 = 0
    BY <1>1
  <2> QED BY <2>1, <1>1, <1>3
<1> DEFINE g == [i \in 0..Len(t) |-> f[i + 1] - s[1]]
<1>5. ASSUME NEW i \in 0..Len(t) PROVE g[i] = IF i = 0 THEN 0 ELSE g[i - 1] + t[i]
  <2>1. CASE i = 0
    BY <2>1, <1>1, <1>4
  <2>2. CASE i # 0
    <3>1. /\ i \in 1..Len(s) - 1 /\ i + 1 \in 1..Len(s) /\ i + 1 - 1 = i
          /\ i \in 0..Len(s) /\ i + 1 \in 0..Len(s)
          /\ i - 1 \in 0..Len(t) /\ i - 1 + 1 = i
      BY <2>2, <1>1
    <3>2. f[i + 1] = f[i + 1 - 1] + s[i + 1] /\ t[i] = s[i + 1] /\ s[i + 1] \in Nat
      <4> HIDE DEF g
      <4>1. f[i + 1] = f[i + 1 - 1] + s[i + 1]
        BY ONLY <3>1, <1>3
      <4>2. t[i] = s[i + 1]
        BY ONLY <3>1, <1>1
      <4>3. s[i + 1] \in Nat
        BY ONLY <3>1, s \in Seq(Nat)
      <4> QED BY <4>1, <4>2, <4>3
    <3>3. g[i] = f[i + 1] - s[1] /\ g[i - 1] = f[i] - s[1]
      BY <3>1
    <3>4. f[i] \in Nat
      BY <3>1, <1>3
    <3> HIDE DEF g
    <3>5. f[i + 1] = f[i] + s[i + 1]
      BY <3>1, <3>2
    <3> QED BY <3>2, <3>3, <3>4, <3>5, <2>2, <1>1
  <2> QED BY <2>1, <2>2
<1>6. Sums(t, g)
  BY <1>5 DEF Sums
<1>7. SumSeq(t) = g[Len(t)] /\ SumSeq(t) \in Nat
  BY <1>1, <1>6, SumIsLast
<1>8. g[Len(t)] = f[Len(s)] - s[1] /\ f[Len(s)] \in Nat
  <2>1. Len(t) \in 0..Len(t) /\ Len(t) + 1 = Len(s) /\ Len(s) \in 0..Len(s)
    BY <1>1
  <2> QED BY <2>1, <1>3
<1>9. SumSeq(s) = f[Len(s)]
  BY <1>2, SumIsLast
<1> HIDE DEF g
<1> QED BY <1>1, <1>7, <1>8, <1>9 DEF t

-----------------------------------------------------------------------------
(* Requests and what undoes them.                                          *)

\* Every a in s is followed by a b.
Answered(s, a, b) == \A i \in 1..Len(s) : s[i] = a => \E j \in i + 1..Len(s) : s[j] = b

LEMMA AnsweredConcat ==
  ASSUME NEW T, NEW a, NEW b, NEW s \in Seq(T), NEW t \in Seq(T), a \notin ToSet(t),
         Answered(s, a, b) \/ b \in ToSet(t)
  PROVE  Answered(s \o t, a, b)
<1> DEFINE u == s \o t
<1>1. /\ Len(s) \in Nat /\ Len(t) \in Nat /\ Len(u) = Len(s) + Len(t)
      /\ \A i \in 1..Len(s) : u[i] = s[i]
      /\ \A i \in 1..Len(t) : u[Len(s) + i] = t[i]
  BY ConcatFacts
<1> HIDE DEF u
<1>2. \A i \in 1..Len(t) : t[i] # a
  BY ToSetByIndex
<1> SUFFICES ASSUME NEW i \in 1..Len(u), u[i] = a
             PROVE  \E j \in i + 1..Len(u) : u[j] = b
  BY DEF Answered, u
<1>3. i \in 1..Len(s)
  <2>1. CASE i > Len(s)
    <3>1. i - Len(s) \in 1..Len(t) /\ u[Len(s) + (i - Len(s))] = t[i - Len(s)]
      BY <1>1, <2>1
    <3>2. Len(s) + (i - Len(s)) = i
      BY <1>1
    <3> QED BY <1>2, <3>1, <3>2
  <2> QED BY <1>1, <2>1
<1>4. CASE Answered(s, a, b)
  <2>1. PICK j \in i + 1..Len(s) : s[j] = b
    BY <1>1, <1>3, <1>4 DEF Answered
  <2>2. j \in i + 1..Len(u) /\ u[j] = b
    BY <1>1, <1>3, <2>1
  <2> QED BY <2>2
<1>5. CASE b \in ToSet(t)
  <2>1. PICK k \in 1..Len(t) : t[k] = b
    BY <1>5, ToSetByIndex
  <2>2. Len(s) + k \in i + 1..Len(u) /\ u[Len(s) + k] = b
    BY <1>1, <1>3, <2>1
  <2> QED BY <2>2
<1> QED BY <1>4, <1>5

LEMMA AnsweredTail ==
  ASSUME NEW T, NEW a, NEW b, NEW s \in Seq(T), s # <<>>, Answered(s, a, b)
  PROVE  Answered(Tail(s), a, b) /\ (Head(s) = a => b \in ToSet(Tail(s)))
<1> DEFINE t == Tail(s)
<1>1. /\ t \in Seq(T) /\ Head(s) = s[1] /\ Len(s) \in Nat \ {0} /\ Len(t) = Len(s) - 1
      /\ \A i \in 1..Len(s) - 1 : t[i] = s[i + 1]
  BY TailFacts
<1> HIDE DEF t
<1>2. ASSUME NEW i \in 1..Len(s), s[i] = a
      PROVE  \E j \in i..Len(t) : t[j] = b
  <2>1. PICK j \in i + 1..Len(s) : s[j] = b
    BY <1>2 DEF Answered
  <2>2. j - 1 \in i..Len(t) /\ j - 1 \in 1..Len(s) - 1 /\ (j - 1) + 1 = j
    BY <1>1, <2>1
  <2>3. t[j - 1] = b
    BY <1>1, <2>1, <2>2
  <2> QED BY <2>2, <2>3
<1>3. Answered(t, a, b)
  <2> SUFFICES ASSUME NEW i \in 1..Len(t), t[i] = a
               PROVE  \E j \in i + 1..Len(t) : t[j] = b
    BY DEF Answered
  <2>1. i + 1 \in 1..Len(s) /\ s[i + 1] = a
    BY <1>1
  <2> QED BY <1>2, <2>1
<1>4. ASSUME Head(s) = a PROVE b \in ToSet(t)
  <2>1. 1 \in 1..Len(s) /\ s[1] = a
    BY <1>1, <1>4
  <2>2. PICK j \in 1..Len(t) : t[j] = b
    BY <1>2, <2>1
  <2> QED BY <1>1, <2>2, ToSetByIndex
<1> QED BY <1>3, <1>4 DEF t

LEMMA ReverseSet ==
  ASSUME NEW T, NEW s \in Seq(T)
  PROVE  Reverse(s) \in Seq(T) /\ ToSet(Reverse(s)) = ToSet(s)
<1> DEFINE r == Reverse(s)
<1>1. /\ r \in Seq(T) /\ Len(r) = Len(s) /\ Len(s) \in Nat
      /\ \A i \in 1..Len(s) : r[i] = s[Len(s) - i + 1]
  BY DEF Reverse
<1> HIDE DEF r
<1>2. \A x : x \in ToSet(r) <=> \E i \in 1..Len(r) : r[i] = x
  BY <1>1, ToSetByIndex
<1>3. \A x : x \in ToSet(s) <=> \E i \in 1..Len(s) : s[i] = x
  BY ToSetByIndex
<1>4. ASSUME NEW i \in 1..Len(s) PROVE \E k \in 1..Len(r) : r[k] = s[i]
  <2>1. Len(s) - i + 1 \in 1..Len(r) /\ Len(s) - (Len(s) - i + 1) + 1 = i
    BY <1>1
  <2> QED BY <1>1, <2>1
<1>5. ASSUME NEW i \in 1..Len(r) PROVE \E k \in 1..Len(s) : s[k] = r[i]
  <2>1. Len(s) - i + 1 \in 1..Len(s)
    BY <1>1
  <2> QED BY <1>1, <2>1
<1>6. ToSet(r) = ToSet(s)
  BY <1>2, <1>3, <1>4, <1>5
<1> QED BY <1>1, <1>6 DEF r
=============================================================================
