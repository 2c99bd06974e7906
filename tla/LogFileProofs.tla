--------------------------- MODULE LogFileProofs ---------------------------
(***************************************************************************)
(* The log for any number of callers, lines, days, restarts and any limits *)
(* of the rotation: the files are bounded, the lines are written once and  *)
(* in order as long as no file fails to be created, and close() leaves     *)
(* nothing behind that was posted before it.                               *)
(***************************************************************************)
EXTENDS LogFile, ListSeqsProofs

-----------------------------------------------------------------------------
(* Sequences of lines.                                                     *)

LEMMA LongestFacts ==
  Longest \in Nat \ {0} /\ MaxLines \in Nat /\ \A l \in Lengths : l \in Nat \ {0} /\ l <= Longest
<1>1. Longest \in Lengths /\ \A l \in Lengths : l <= Longest
  BY LogAssumption DEF Longest
<1> QED BY <1>1, LogAssumption

LEMMA LineFacts ==
  ASSUME NEW x \in Line
  PROVE  /\ x[1] \in 1..MaxLines /\ x[1] \in Nat
         /\ x[2] \in Lengths /\ x[2] \in Nat \ {0} /\ x[2] <= Longest
<1>1. x[1] \in 1..MaxLines /\ x[2] \in Lengths
  BY DEF Line
<1> QED BY <1>1, LongestFacts

LEMMA IdsEmpty == Ids(<<>>) = {} /\ InPostOrder(<<>>) /\ Bytes(<<>>) = 0
<1>1. [i \in 1..Len(<<>>) |-> <<>>[i][2]] = <<>>
  OBVIOUS
<1>2. Bytes(<<>>) = 0
  BY <1>1, SumEmpty DEF Bytes
<1> QED BY <1>2 DEF Ids, InPostOrder

LEMMA IdsByIndex ==
  ASSUME NEW s \in Seq(Line)
  PROVE  /\ \A x : x \in Ids(s) <=> \E i \in 1..Len(s) : s[i][1] = x
         /\ \A i \in 1..Len(s) : s[i] \in Line /\ s[i][1] \in Ids(s)
         /\ Ids(s) \subseteq 1..MaxLines /\ Len(s) \in Nat
<1>1. \A i \in 1..Len(s) : s[i] \in Line /\ s[i][1] \in 1..MaxLines
  BY LineFacts
<1> QED BY <1>1 DEF Ids

LEMMA IdsAppend ==
  ASSUME NEW s \in Seq(Line), NEW x \in Line
  PROVE  /\ Append(s, x) \in Seq(Line) /\ Len(Append(s, x)) = Len(s) + 1
         /\ Ids(Append(s, x)) = Ids(s) \cup {x[1]}
         /\ InPostOrder(s) /\ (\A i \in Ids(s) : i < x[1]) => InPostOrder(Append(s, x))
<1> DEFINE t == Append(s, x)
<1>1. /\ t \in Seq(Line) /\ Len(t) = Len(s) + 1 /\ Len(s) \in Nat
      /\ t[Len(s) + 1] = x /\ \A i \in 1..Len(s) : t[i] = s[i]
  BY AppendFacts
<1> HIDE DEF t
<1>2. Ids(t) = Ids(s) \cup {x[1]}
  <2>1. ASSUME NEW y \in Ids(t) PROVE y \in Ids(s) \cup {x[1]}
    <3>1. PICK i \in 1..Len(t) : t[i][1] = y
      BY <1>1, <2>1, IdsByIndex
    <3>2. i \in 1..Len(s) \/ i = Len(s) + 1
      BY <1>1
    <3> QED BY <1>1, <3>1, <3>2, IdsByIndex
  <2>2. ASSUME NEW y \in Ids(s) PROVE y \in Ids(t)
    <3>1. PICK i \in 1..Len(s) : s[i][1] = y
      BY <2>2, IdsByIndex
    <3>2. i \in 1..Len(t) /\ t[i][1] = y
      BY <1>1, <3>1
    <3> QED BY <1>1, <3>2, IdsByIndex
  <2>3. x[1] \in Ids(t)
    <3>1. Len(s) + 1 \in 1..Len(t)
      BY <1>1
    <3> QED BY <1>1, <3>1, IdsByIndex
  <2> QED BY <2>1, <2>2, <2>3
<1>3. ASSUME InPostOrder(s), \A i \in Ids(s) : i < x[1] PROVE InPostOrder(t)
  <2> SUFFICES ASSUME NEW i \in 1..Len(t), NEW j \in 1..Len(t), i < j PROVE t[i][1] < t[j][1]
    BY DEF InPostOrder
  <2>1. i \in 1..Len(s) /\ t[i] = s[i] /\ (j \in 1..Len(s) \/ j = Len(s) + 1)
    BY <1>1
  <2>2. s[i][1] < x[1]
    BY <1>3, <2>1, IdsByIndex
  <2>3. j \in 1..Len(s) => s[i][1] < s[j][1]
    BY <1>3, <2>1 DEF InPostOrder
  <2> QED BY <1>1, <2>1, <2>2, <2>3
<1> QED BY <1>1, <1>2, <1>3 DEF t

LEMMA IdsTail ==
  ASSUME NEW s \in Seq(Line), s # <<>>
  PROVE  /\ Tail(s) \in Seq(Line) /\ Head(s) \in Line /\ Len(Tail(s)) = Len(s) - 1
         /\ Ids(s) = Ids(Tail(s)) \cup {Head(s)[1]}
         /\ InPostOrder(s) => /\ InPostOrder(Tail(s))
                              /\ \A i \in Ids(Tail(s)) : Head(s)[1] < i
<1> DEFINE t == Tail(s)
<1>1. /\ t \in Seq(Line) /\ Head(s) \in Line /\ Head(s) = s[1]
      /\ Len(s) \in Nat \ {0} /\ Len(t) = Len(s) - 1
      /\ \A i \in 1..Len(s) - 1 : t[i] = s[i + 1]
  BY TailFacts
<1> HIDE DEF t
<1>2. Ids(s) = Ids(t) \cup {Head(s)[1]}
  <2>1. ASSUME NEW y \in Ids(s) PROVE y \in Ids(t) \cup {Head(s)[1]}
    <3>1. PICK i \in 1..Len(s) : s[i][1] = y
      BY <2>1, IdsByIndex
    <3>2. i = 1 \/ (i - 1 \in 1..Len(t) /\ t[i - 1] = s[i])
      BY <1>1
    <3> QED BY <1>1, <3>1, <3>2, IdsByIndex
  <2>2. ASSUME NEW y \in Ids(t) PROVE y \in Ids(s)
    <3>1. PICK i \in 1..Len(t) : t[i][1] = y
      BY <1>1, <2>2, IdsByIndex
    <3>2. i + 1 \in 1..Len(s) /\ s[i + 1][1] = y
      BY <1>1, <3>1
    <3> QED BY <3>2, IdsByIndex
  <2>3. Head(s)[1] \in Ids(s)
    <3>1. 1 \in 1..Len(s)
      BY <1>1
    <3> QED BY <1>1, <3>1, IdsByIndex
  <2> QED BY <2>1, <2>2, <2>3
<1>3. ASSUME InPostOrder(s)
      PROVE  InPostOrder(t) /\ \A i \in Ids(t) : Head(s)[1] < i
  <2>1. ASSUME NEW i \in 1..Len(t), NEW j \in 1..Len(t), i < j PROVE t[i][1] < t[j][1]
    <3>1. i + 1 \in 1..Len(s) /\ j + 1 \in 1..Len(s) /\ i + 1 < j + 1
      BY <1>1, <2>1
    <3>2. s[i + 1][1] < s[j + 1][1]
      BY <1>3, <3>1 DEF InPostOrder
    <3> QED BY <1>1, <3>2
  <2>2. ASSUME NEW y \in Ids(t) PROVE Head(s)[1] < y
    <3>1. PICK i \in 1..Len(t) : t[i][1] = y
      BY <1>1, <2>2, IdsByIndex
    <3>2. 1 \in 1..Len(s) /\ i + 1 \in 1..Len(s) /\ 1 < i + 1 /\ t[i] = s[i + 1]
      BY <1>1
    <3>3. s[1][1] < s[i + 1][1]
      BY <1>3, <3>2 DEF InPostOrder
    <3> QED BY <1>1, <3>1, <3>2, <3>3
  <2> QED BY <2>1, <2>2 DEF InPostOrder
<1> QED BY <1>1, <1>2, <1>3 DEF t

LEMMA BytesAppend ==
  ASSUME NEW s \in Seq(Line), NEW x \in Line
  PROVE  Bytes(Append(s, x)) = Bytes(s) + x[2] /\ Bytes(s) \in Nat
<1> DEFINE len(r) == [i \in 1..Len(r) |-> r[i][2]]
           t == Append(s, x)
<1>1. /\ t \in Seq(Line) /\ Len(t) = Len(s) + 1 /\ Len(s) \in Nat
      /\ t[Len(s) + 1] = x /\ \A i \in 1..Len(s) : t[i] = s[i]
  BY AppendFacts
<1> HIDE DEF t
<1>2. \A i \in 1..Len(s) : s[i][2] \in Nat
  BY LineFacts
<1>3. len(s) \in Seq(Nat) /\ Len(len(s)) = Len(s) /\ x[2] \in Nat
  BY <1>2, LineFacts
<1>4. len(t) = Append(len(s), x[2])
  <2> DEFINE a == Append(len(s), x[2])
  <2>1. /\ a \in Seq(Nat) /\ Len(a) = Len(s) + 1 /\ a[Len(s) + 1] = x[2]
        /\ \A i \in 1..Len(s) : a[i] = len(s)[i]
    BY <1>3, AppendFacts
  <2>2. \A i \in 1..Len(t) : len(t)[i] = a[i]
    <3> HIDE DEF a
    <3>1. ASSUME NEW i \in 1..Len(t) PROVE len(t)[i] = a[i]
      <4>1. i \in 1..Len(s) \/ i = Len(s) + 1
        BY <1>1
      <4> QED BY <1>1, <2>1, <4>1
    <3> QED BY <3>1
  <2>3. DOMAIN len(t) = 1..Len(t) /\ DOMAIN a = 1..Len(t)
    BY <1>1, <2>1
  <2>4. len(t) = [i \in 1..Len(t) |-> len(t)[i]] /\ a = [i \in 1..Len(t) |-> a[i]]
    <3> HIDE DEF a
    <3> QED BY <1>1, <2>1, <2>3
  <2> HIDE DEF a, len
  <2> QED BY <2>2, <2>4 DEF a
<1>5. Bytes(t) = SumSeq(len(t)) /\ Bytes(s) = SumSeq(len(s))
  BY DEF Bytes
<1> HIDE DEF len
<1>6. SumSeq(Append(len(s), x[2])) = SumSeq(len(s)) + x[2] /\ SumSeq(len(s)) \in Nat
  BY <1>3, SumAppend
<1> QED BY <1>4, <1>5, <1>6 DEF t

-----------------------------------------------------------------------------
(* The inductive invariant.                                                *)

Contents(d) == UNION {Ids(d[f]) : f \in DOMAIN d}

TypedDisk(d) ==
  /\ DOMAIN d \subseteq (1..MaxDay) \X Nat /\ IsFiniteSet(DOMAIN d)
  /\ d \in [DOMAIN d -> Seq(Line)]

\* What FilesBounded says of one file, and of all.
Fits(s)   == Len(s) <= m_maxline + 1 /\ Bytes(s) < m_maxsize + 2 * Longest
Within(d) == \A f \in DOMAIN d : Fits(d[f])

\* File f, with m_cur_line and m_cur_size as given, can take one more line.
Room(d, f, line, size) ==
  /\ f \in DOMAIN d
  /\ Len(d[f]) <= line /\ Len(d[f]) <= m_maxline
  /\ Bytes(d[f]) <= size /\ Bytes(d[f]) < m_maxsize + Longest

\* The files of a day are numbered without a gap, and hold the lines in order.
NoGap(d) == \A f \in DOMAIN d : \A s \in 0..f[2] : <<f[1], s>> \in DOMAIN d
Ordered(d) ==
  /\ \A f \in DOMAIN d : InPostOrder(d[f])
  /\ \A f, g \in DOMAIN d : Before(f, g) => \A i \in Ids(d[f]), j \in Ids(d[g]) : i < j
LastFile(d, f) == f \in DOMAIN d /\ \A g \in DOMAIN d : g = f \/ Before(g, f)

\* The file thread can run handlers; the file it then writes to.
Writing == thread = "running" /\ ~stopped
Current == <<m_cur_day, m_cur_sn>>

RunInv ==
  /\ owner = "joining" => ~m_opened /\ thread # "none"
  /\ thread = "running" => m_opened \/ owner = "joining"
  /\ thread = "running" /\ m_opened => work
  /\ modules_ => m_opened
  /\ thread = "none" => ofstream_.file = NoFile /\ ~stopped
  /\ thread = "exited" => stopped
  /\ stopped /\ opens = 1 => thread = "exited"
  /\ opens = 0 => thread = "none"

StreamInv == Writing =>
  /\ m_cur_day \in 1..today
  /\ ofstream_.ok => ofstream_.file = Current /\ Room(disk, Current, m_cur_line, m_cur_size)
  /\ ~ofstream_.ok => failed

FilesInv ==
  /\ TypedDisk(disk) /\ Within(disk)
  /\ \A f \in DOMAIN disk : f[1] <= today
  /\ ~failed => NoGap(disk) /\ (Writing => LastFile(disk, Current))

Accepted == {c \in Caller : pc[c] = "accepted"}

FlushInv ==
  /\ early <= accepted
  /\ opens = 1 /\ thread = "exited" =>
       /\ ~m_opened
       /\ \A i \in Ids(queue) : i > early
       /\ Len(queue) + Cardinality(Accepted) <= Cardinality(Caller)

LogInv == TypeOK /\ RunInv /\ StreamInv /\ FilesInv /\ FlushInv /\ WrittenOnceInOrder

-----------------------------------------------------------------------------
(* What creating a file and writing a line do to the disk.                 *)

Created(d, f) == [g \in DOMAIN d \cup {f} |-> IF g = f THEN <<>> ELSE d[g]]

LEMMA EmptyFits == Fits(<<>>)
<1>1. Len(<<>>) = 0 /\ Bytes(<<>>) = 0
  BY IdsEmpty
<1> QED BY <1>1, LongestFacts, LogAssumption DEF Fits

LEMMA CreateFile ==
  ASSUME NEW d, TypedDisk(d), Within(d), NEW f \in (1..MaxDay) \X Nat,
         NEW line \in Nat, NEW size \in Nat
  PROVE  LET d2 == Created(d, f)
         IN  /\ DOMAIN d2 = DOMAIN d \cup {f} /\ d2[f] = <<>> /\ \A g \in DOMAIN d : g # f => d2[g] = d[g]
             /\ TypedDisk(d2) /\ Within(d2) /\ Room(d2, f, line, size)
<1> DEFINE d2 == Created(d, f)
<1>1. /\ DOMAIN d2 = DOMAIN d \cup {f} /\ d2[f] = <<>>
      /\ \A g \in DOMAIN d : g # f => d2[g] = d[g]
      /\ d2 = [g \in DOMAIN d \cup {f} |-> d2[g]]
  BY DEF Created
<1> HIDE DEF d2
<1>2. IsFiniteSet(DOMAIN d2)
  BY <1>1, FS_AddElement DEF TypedDisk
<1>3. \A g \in DOMAIN d2 : d2[g] \in Seq(Line)
  <2>1. <<>> \in Seq(Line) /\ \A g \in DOMAIN d : d[g] \in Seq(Line)
    BY DEF TypedDisk
  <2> QED BY <1>1, <2>1
<1>4. TypedDisk(d2)
  BY <1>1, <1>2, <1>3 DEF TypedDisk
<1>5. Within(d2)
  BY <1>1, EmptyFits DEF Within
<1>6. Room(d2, f, line, size)
  <2>1. Len(d2[f]) = 0 /\ Bytes(d2[f]) = 0
    BY <1>1, IdsEmpty
  <2> QED BY <1>1, <2>1, LongestFacts, LogAssumption DEF Room
<1> QED BY <1>1, <1>4, <1>5, <1>6 DEF d2

\* A file behind all others keeps the order, and the numbering if it follows on.
LEMMA CreateLast ==
  ASSUME NEW d, TypedDisk(d), NEW f \in (1..MaxDay) \X Nat, \A g \in DOMAIN d : Before(g, f)
  PROVE  LET d2 == Created(d, f)
         IN  /\ LastFile(d2, f) /\ Contents(d2) = Contents(d)
             /\ NoGap(d) /\ (f[2] = 0 \/ <<f[1], f[2] - 1>> \in DOMAIN d) => NoGap(d2)
             /\ Ordered(d) => Ordered(d2)
<1> DEFINE d2 == Created(d, f)
<1>0. f[1] \in Nat /\ f[2] \in Nat /\ f = <<f[1], f[2]>>
  BY LogAssumption
<1>1. /\ DOMAIN d2 = DOMAIN d \cup {f} /\ d2[f] = <<>> /\ f \notin DOMAIN d
      /\ \A g \in DOMAIN d : d2[g] = d[g]
  BY <1>0 DEF Created, Before
<1> HIDE DEF d2
<1>2. LastFile(d2, f)
  BY <1>1 DEF LastFile
<1>3. Ids(d2[f]) = {} /\ InPostOrder(d2[f]) /\ \A g \in DOMAIN d : Ids(d2[g]) = Ids(d[g])
  BY <1>1, IdsEmpty
<1>4. Contents(d2) = Contents(d)
  BY <1>1, <1>3 DEF Contents
<1>5. ASSUME NoGap(d), f[2] = 0 \/ <<f[1], f[2] - 1>> \in DOMAIN d
      PROVE  NoGap(d2)
  <2>1. ASSUME NEW s \in 0..f[2] PROVE <<f[1], s>> \in DOMAIN d2
    <3>1. CASE s = f[2]
      BY <1>0, <1>1, <3>1
    <3>2. CASE s # f[2]
      <4>1. <<f[1], f[2] - 1>> \in DOMAIN d /\ s \in 0..f[2] - 1
        BY <1>0, <1>5, <3>2
      <4>2. <<f[1], s>> \in DOMAIN d
        BY <1>5, <4>1 DEF NoGap
      <4> QED BY <1>1, <4>2
    <3> QED BY <3>1, <3>2
  <2> QED BY <1>1, <1>5, <2>1 DEF NoGap
<1>6. ASSUME Ordered(d) PROVE Ordered(d2)
  <2>1. ASSUME NEW g \in DOMAIN d2 PROVE InPostOrder(d2[g])
    BY <1>1, <1>3, <1>6 DEF Ordered
  <2>2. ASSUME NEW g \in DOMAIN d2, NEW h \in DOMAIN d2, Before(g, h),
               NEW i \in Ids(d2[g]), NEW j \in Ids(d2[h])
        PROVE  i < j
    <3>1. g # f /\ h # f
      BY <1>3, <2>2
    <3>2. g \in DOMAIN d /\ h \in DOMAIN d
      BY <1>1, <3>1
    <3> QED BY <1>3, <1>6, <2>2, <3>2 DEF Ordered
  <2> QED BY <2>1, <2>2 DEF Ordered
<1> QED BY <1>2, <1>4, <1>5, <1>6 DEF d2

LEMMA WriteLine ==
  ASSUME NEW d, TypedDisk(d), Within(d), NEW x \in Line, NEW f, NEW line \in Nat, NEW size \in Nat,
         Room(d, f, line, size)
  PROVE  LET d2 == [d EXCEPT ![f] = Append(@, x)]
         IN  /\ DOMAIN d2 = DOMAIN d /\ TypedDisk(d2) /\ Within(d2)
             /\ ~Full(line, size) => Room(d2, f, line + 1, size + x[2])
<1> DEFINE d2 == [d EXCEPT ![f] = Append(@, x)]
<1>1. /\ f \in DOMAIN d /\ d[f] \in Seq(Line) /\ DOMAIN d2 = DOMAIN d /\ d2[f] = Append(d[f], x)
      /\ \A g \in DOMAIN d : g # f => d2[g] = d[g]
      /\ d2 = [g \in DOMAIN d |-> d2[g]]
  BY DEF Room, TypedDisk
<1> HIDE DEF d2
<1>2. /\ d2[f] \in Seq(Line) /\ Len(d2[f]) = Len(d[f]) + 1 /\ Len(d[f]) \in Nat
      /\ Bytes(d2[f]) = Bytes(d[f]) + x[2] /\ Bytes(d[f]) \in Nat
  BY <1>1, BytesAppend, IdsAppend, IdsByIndex
<1>3. x[2] \in Nat /\ x[2] <= Longest /\ Longest \in Nat /\ m_maxline \in Nat /\ m_maxsize \in Nat
  BY LineFacts, LongestFacts, LogAssumption
<1>4. TypedDisk(d2)
  <2>1. \A g \in DOMAIN d2 : d2[g] \in Seq(Line)
    BY <1>1, <1>2 DEF TypedDisk
  <2> QED BY <1>1, <2>1 DEF TypedDisk
<1>5. Within(d2)
  <2>1. Fits(d2[f])
    BY <1>1, <1>2, <1>3 DEF Fits, Room
  <2> QED BY <1>1, <2>1 DEF Within
<1>6. ASSUME ~Full(line, size) PROVE Room(d2, f, line + 1, size + x[2])
  BY <1>1, <1>2, <1>3, <1>6 DEF Full, Room
<1> QED BY <1>1, <1>4, <1>5, <1>6 DEF d2

LEMMA WriteLast ==
  ASSUME NEW d, TypedDisk(d), NEW x \in Line, NEW f, LastFile(d, f)
  PROVE  LET d2 == [d EXCEPT ![f] = Append(@, x)]
         IN  /\ LastFile(d2, f) /\ Contents(d2) = Contents(d) \cup {x[1]}
             /\ NoGap(d) => NoGap(d2)
             /\ Ordered(d) /\ (\A i \in Contents(d) : i < x[1]) => Ordered(d2)
<1> DEFINE d2 == [d EXCEPT ![f] = Append(@, x)]
<1>1. /\ f \in DOMAIN d /\ d[f] \in Seq(Line) /\ DOMAIN d2 = DOMAIN d /\ d2[f] = Append(d[f], x)
      /\ \A g \in DOMAIN d : g # f => d2[g] = d[g]
  BY DEF LastFile, TypedDisk
<1> HIDE DEF d2
<1>2. Ids(d2[f]) = Ids(d[f]) \cup {x[1]} /\ \A g \in DOMAIN d : g # f => Ids(d2[g]) = Ids(d[g])
  BY <1>1, IdsAppend
<1>3. LastFile(d2, f)
  BY <1>1 DEF LastFile
<1>4. Contents(d2) = Contents(d) \cup {x[1]}
  <2>1. \A i : i \in Contents(d2) <=> \E g \in DOMAIN d : i \in Ids(d2[g])
    BY <1>1 DEF Contents
  <2>2. \A i : i \in Contents(d) <=> \E g \in DOMAIN d : i \in Ids(d[g])
    BY DEF Contents
  <2>3. ASSUME NEW i PROVE i \in Contents(d2) <=> i \in Contents(d) \/ i = x[1]
    BY <1>1, <1>2, <2>1, <2>2
  <2> QED BY <2>3
<1>5. NoGap(d) => NoGap(d2)
  BY <1>1 DEF NoGap
<1>6. ASSUME Ordered(d), \A i \in Contents(d) : i < x[1] PROVE Ordered(d2)
  <2>0. \A g \in DOMAIN d : \A i \in Ids(d[g]) : i < x[1]
    BY <1>6 DEF Contents
  <2>1. ASSUME NEW g \in DOMAIN d2 PROVE InPostOrder(d2[g])
    <3>1. InPostOrder(Append(d[f], x))
      BY <1>1, <1>6, <2>0, IdsAppend DEF Ordered
    <3> QED BY <1>1, <1>6, <3>1 DEF Ordered
  <2>2. ASSUME NEW g \in DOMAIN d2, NEW h \in DOMAIN d2, Before(g, h),
               NEW i \in Ids(d2[g]), NEW j \in Ids(d2[h])
        PROVE  i < j
    <3>1. g # f
      <4>1. h = f \/ Before(h, f)
        BY <1>1 DEF LastFile
      <4>2. g \in (1..MaxDay) \X Nat /\ h \in (1..MaxDay) \X Nat /\ MaxDay \in Nat
        BY <1>1, LogAssumption DEF TypedDisk
      <4> QED BY <2>2, <4>1, <4>2 DEF Before
    <3>2. i \in Ids(d[g]) /\ g \in DOMAIN d /\ h \in DOMAIN d
      BY <1>1, <1>2, <3>1
    <3>3. j \in Ids(d[h]) => i < j
      BY <1>6, <2>2, <3>2 DEF Ordered
    <3>4. j \in Ids(d[h]) \/ j = x[1]
      BY <1>1, <1>2
    <3> QED BY <2>0, <3>2, <3>3, <3>4
  <2> QED BY <2>1, <2>2 DEF Ordered
<1> QED BY <1>3, <1>4, <1>5, <1>6 DEF d2

-----------------------------------------------------------------------------
(* The file thread writes a line.                                          *)

LEMMA OpenedCases ==
  ASSUME NEW d, NEW f, NEW fs \in Opened(d, f)
  PROVE  /\ fs = Files(fs.stream, fs.disk)
         /\ \/ fs.stream = [file |-> f, ok |-> TRUE] /\ fs.disk = Created(d, f)
            \/ fs.stream = [file |-> NoFile, ok |-> FALSE] /\ fs.disk = d
<1> DEFINE st1 == [file |-> f, ok |-> TRUE]
           st2 == [file |-> NoFile, ok |-> FALSE]
<1>1. fs = Files(st1, Created(d, f)) \/ fs = Files(st2, d)
  BY DEF Opened, Created
<1> HIDE DEF st1, st2
<1>2. \A st, d2 : fs = Files(st, d2) => /\ fs.stream = st /\ fs.disk = d2
                                       /\ fs = Files(fs.stream, fs.disk)
  BY DEF Files
<1>3. \/ fs.stream = st1 /\ fs.disk = Created(d, f) /\ fs = Files(fs.stream, fs.disk)
      \/ fs.stream = st2 /\ fs.disk = d /\ fs = Files(fs.stream, fs.disk)
  BY <1>1, <1>2
<1> QED BY <1>3 DEF st1, st2

LEMMA WrittenCases ==
  ASSUME NEW st, NEW d, NEW x
  PROVE  LET w == Written(Files(st, d), x)
         IN  /\ w.stream = st
             /\ st.ok => w.disk = [d EXCEPT ![st.file] = Append(@, x)]
             /\ ~st.ok => w.disk = d
BY DEF Written, Files

Stream(d) == [file : DOMAIN d \cup {NoFile}, ok : BOOLEAN]

\* The state of the file thread between two steps of the handler: stream st, disk d,
\* in file f with the given counters; and what holds as long as no file has failed.
Ready(st, d, f, line, size) ==
  /\ TypedDisk(d) /\ Within(d) /\ st \in Stream(d)
  /\ \A g \in DOMAIN d : g[1] <= today
  /\ st.ok => st.file = f /\ Room(d, f, line, size)
InLine(d, f, ids) == NoGap(d) /\ LastFile(d, f) /\ Ordered(d) /\ Contents(d) = ids

LEMMA CreateReady ==
  ASSUME NEW d, NEW f \in (1..MaxDay) \X Nat, NEW line \in Nat, NEW size \in Nat,
         NEW n \in Opened(d, f), TypedDisk(d), Within(d), f[1] <= today,
         \A g \in DOMAIN d : g[1] <= today
  PROVE  Ready(n.stream, n.disk, f, line, size)
<1>1. CASE n.stream = [file |-> f, ok |-> TRUE] /\ n.disk = Created(d, f)
  <2> DEFINE d2 == Created(d, f)
  <2>1. /\ DOMAIN d2 = DOMAIN d \cup {f} /\ TypedDisk(d2) /\ Within(d2)
        /\ Room(d2, f, line, size)
    BY CreateFile
  <2> HIDE DEF d2
  <2>3. n.stream.ok /\ n.stream.file = f /\ n.disk = d2 /\ n.stream \in Stream(d2)
    BY <1>1, <2>1 DEF Stream, d2
  <2>4. \A g \in DOMAIN d2 : g[1] <= today
    BY <2>1
  <2> QED BY <2>1, <2>3, <2>4 DEF Ready
<1>2. CASE n.stream = [file |-> NoFile, ok |-> FALSE] /\ n.disk = d
  <2>1. ~n.stream.ok /\ n.stream \in Stream(d)
    BY <1>2 DEF Stream
  <2> QED BY <1>2, <2>1 DEF Ready
<1>3. \/ n.stream = [file |-> f, ok |-> TRUE] /\ n.disk = Created(d, f)
      \/ n.stream = [file |-> NoFile, ok |-> FALSE] /\ n.disk = d
  BY OpenedCases
<1> QED BY <1>1, <1>2, <1>3

LEMMA CreateInLine ==
  ASSUME NEW d, NEW f \in (1..MaxDay) \X Nat, NEW ids, NEW n \in Opened(d, f), n.stream.ok,
         TypedDisk(d), NoGap(d), Ordered(d), Contents(d) = ids,
         \A g \in DOMAIN d : Before(g, f), f[2] = 0 \/ <<f[1], f[2] - 1>> \in DOMAIN d
  PROVE  InLine(n.disk, f, ids)
<1>1. n.disk = Created(d, f)
  <2>1. \/ n.stream = [file |-> f, ok |-> TRUE] /\ n.disk = Created(d, f)
        \/ n.stream = [file |-> NoFile, ok |-> FALSE] /\ n.disk = d
    BY OpenedCases
  <2>2. n.stream = [file |-> NoFile, ok |-> FALSE] => ~n.stream.ok
    OBVIOUS
  <2> QED BY <2>1, <2>2
<1> DEFINE d2 == Created(d, f)
<1>2. NoGap(d2) /\ LastFile(d2, f) /\ Ordered(d2) /\ Contents(d2) = ids
  BY CreateLast
<1> QED BY <1>1, <1>2 DEF InLine

LEMMA WriteReady ==
  ASSUME NEW st, NEW d, NEW f \in (1..MaxDay) \X Nat, NEW line \in Nat, NEW size \in Nat,
         NEW x \in Line, Ready(st, d, f, line, size), NEW w, w = Written(Files(st, d), x)
  PROVE  /\ w.stream = st /\ TypedDisk(w.disk) /\ Within(w.disk)
         /\ \A g \in DOMAIN w.disk : g[1] <= today
         /\ ~Full(line, size) => Ready(st, w.disk, f, line + 1, size + x[2])
<1>0. st \in Stream(d) /\ TypedDisk(d) /\ Within(d)
  BY DEF Ready
<1>1. CASE st.ok
  <2> DEFINE d2 == [d EXCEPT ![f] = Append(@, x)]
  <2>1. Room(d, f, line, size) /\ st.file = f
    BY <1>1 DEF Ready
  <2>2. w.stream = st /\ w.disk = d2
    BY <1>1, <2>1 DEF Written, Files
  <2>3. /\ DOMAIN d2 = DOMAIN d /\ TypedDisk(d2) /\ Within(d2)
        /\ ~Full(line, size) => Room(d2, f, line + 1, size + x[2])
    BY <1>0, <2>1, WriteLine
  <2> HIDE DEF d2
  <2>4. st \in Stream(d2) /\ \A g \in DOMAIN d2 : g[1] <= today
    BY <1>0, <2>3 DEF Stream, Ready
  <2> QED BY <1>1, <2>1, <2>2, <2>3, <2>4 DEF Ready
<1>2. CASE ~st.ok
  <2>1. w.stream = st /\ w.disk = d
    BY <1>2 DEF Written, Files
  <2> QED BY <1>0, <1>2, <2>1 DEF Ready
<1> QED BY <1>1, <1>2

LEMMA WriteInLine ==
  ASSUME NEW st, NEW d, NEW f, NEW ids, NEW x \in Line, st.ok, st.file = f, TypedDisk(d),
         InLine(d, f, ids), \A i \in ids : i < x[1], NEW w, w = Written(Files(st, d), x)
  PROVE  InLine(w.disk, f, ids \cup {x[1]})
<1> DEFINE d2 == [d EXCEPT ![f] = Append(@, x)]
<1>1. w.disk = d2
  BY DEF Written, Files
<1>2. NoGap(d2) /\ LastFile(d2, f) /\ Ordered(d2) /\ Contents(d2) = ids \cup {x[1]}
  BY WriteLast DEF InLine
<1> QED BY <1>1, <1>2 DEF InLine

LEMMA HandlerReady ==
  ASSUME LogInv, RunHandler
  PROVE  /\ Head(queue) \in Line /\ Tail(queue) \in Seq(Line)
         /\ Ids(queue) = Ids(Tail(queue)) \cup {Head(queue)[1]}
         /\ m_cur_day' = today /\ m_cur_sn' \in Nat /\ m_cur_line' \in Nat /\ m_cur_size' \in Nat
         /\ Ready(ofstream_', disk', <<m_cur_day', m_cur_sn'>>, m_cur_line', m_cur_size')
         /\ ~failed' => InLine(disk', <<m_cur_day', m_cur_sn'>>, OnDisk \cup {Head(queue)[1]})
         /\ failed' \in BOOLEAN /\ (failed => failed') /\ (~ofstream_'.ok => failed')
         /\ dropped' \subseteq dropped \cup {Head(queue)[1]} /\ dropped \subseteq dropped'
         /\ ~failed' => dropped' = dropped
<1>0. /\ TypeOK /\ Writing /\ queue # <<>> /\ queue \in Seq(Line) /\ StreamInv /\ FilesInv
      /\ WrittenOnceInOrder /\ handle_write_file
  BY DEF LogInv, RunHandler, TypeOK, Writing
<1> DEFINE txt  == Head(queue)
           new  == today # m_cur_day
           sn   == IF new THEN 0 ELSE m_cur_sn
           line == IF new THEN 0 ELSE m_cur_line
           size == IF new THEN 0 ELSE m_cur_size
           full == Full(line, size)
           cur  == <<today, sn>>
           nxt  == <<today, sn + 1>>
           bad1(n) == failed \/ ~n.stream.ok
<1>1. /\ txt \in Line /\ Tail(queue) \in Seq(Line) /\ Ids(queue) = Ids(Tail(queue)) \cup {txt[1]}
      /\ ~failed => \A i \in OnDisk : i < txt[1]
  <2>1. txt \in Line /\ Tail(queue) \in Seq(Line) /\ Ids(queue) = Ids(Tail(queue)) \cup {txt[1]}
    BY <1>0, IdsTail
  <2> QED BY <1>0, <2>1 DEF WrittenOnceInOrder
<1>2. /\ today \in 1..MaxDay /\ m_cur_day \in 1..today /\ sn \in Nat /\ line \in Nat /\ size \in Nat
      /\ cur \in (1..MaxDay) \X Nat /\ nxt \in (1..MaxDay) \X Nat /\ today \in Nat
      /\ MaxDay \in Nat /\ failed \in BOOLEAN
  <2>1. MaxDay \in Nat
    BY LogAssumption
  <2>2. /\ today \in 1..MaxDay /\ m_cur_day \in 1..today /\ failed \in BOOLEAN
        /\ m_cur_sn \in Nat /\ m_cur_line \in Nat /\ m_cur_size \in Nat
    BY <1>0 DEF TypeOK, StreamInv
  <2>3. sn \in Nat /\ line \in Nat /\ size \in Nat
    BY <2>2
  <2> HIDE DEF sn, line, size
  <2>4. today \in Nat /\ sn + 1 \in Nat
    BY <2>1, <2>2, <2>3
  <2> QED BY <2>1, <2>2, <2>3, <2>4
<1>3. OnDisk = Contents(disk)
  BY DEF OnDisk, Contents
<1>4. PICK now \in IF new THEN Opened(disk, <<today, 0>>) ELSE {Files(ofstream_, disk)} :
      \E after \in IF full THEN Opened(Written(now, txt).disk, <<today, sn + 1>>)
                             ELSE {Written(now, txt)} :
          /\ ofstream_' = after.stream /\ disk' = after.disk
          /\ dropped' = dropped \cup (IF now.stream.ok THEN {} ELSE {txt[1]})
          /\ failed' = (failed \/ ~now.stream.ok \/ ~after.stream.ok)
  BY <1>0 DEF handle_write_file
<1>5. PICK after \in IF full THEN Opened(Written(now, txt).disk, <<today, sn + 1>>)
                             ELSE {Written(now, txt)} :
          /\ ofstream_' = after.stream /\ disk' = after.disk
          /\ dropped' = dropped \cup (IF now.stream.ok THEN {} ELSE {txt[1]})
          /\ failed' = (failed \/ ~now.stream.ok \/ ~after.stream.ok)
  BY <1>4
<1>6. /\ m_cur_day' = today /\ m_cur_sn' = IF full THEN sn + 1 ELSE sn
      /\ m_cur_line' = (IF full THEN 0 ELSE line) + 1
      /\ m_cur_size' = (IF full THEN 0 ELSE size) + txt[2]
  BY <1>0 DEF handle_write_file
<1>7. txt[2] \in Nat
  BY <1>1, LineFacts
<1>8. /\ now = Files(now.stream, now.disk)
      /\ Ready(now.stream, now.disk, cur, line, size)
      /\ ~failed /\ now.stream.ok => InLine(now.disk, cur, OnDisk)
  <2>1. CASE new
    <3>1. cur = <<today, 0>> /\ now \in Opened(disk, cur)
      BY <1>4, <2>1
    <3>2. ~failed => /\ NoGap(disk) /\ Ordered(disk) /\ Contents(disk) = OnDisk
                     /\ \A g \in DOMAIN disk : Before(g, cur)
      <4>1. ASSUME ~failed, NEW g \in DOMAIN disk PROVE Before(g, cur)
        <5>1. g = Current \/ Before(g, Current)
          BY <1>0, <4>1 DEF FilesInv, LastFile
        <5>2. g \in (1..MaxDay) \X Nat /\ Current[1] = m_cur_day /\ m_cur_day < today
          BY <1>0, <1>2, <2>1 DEF FilesInv, TypedDisk, Current
        <5> QED BY <1>2, <2>1, <5>1, <5>2 DEF Before
      <4>2. ~failed => NoGap(disk) /\ Ordered(disk)
        BY <1>0 DEF FilesInv, WrittenOnceInOrder, Ordered
      <4> QED BY <1>3, <4>1, <4>2
    <3>3. /\ TypedDisk(disk) /\ Within(disk) /\ cur[1] <= today /\ cur[2] = 0
          /\ \A g \in DOMAIN disk : g[1] <= today
      BY <1>0, <1>2, <2>1 DEF FilesInv
    <3> HIDE DEF cur, line, size, new
    <3>4. Ready(now.stream, now.disk, cur, line, size)
      BY <1>2, <3>1, <3>3, CreateReady
    <3>5. ~failed /\ now.stream.ok => InLine(now.disk, cur, OnDisk)
      BY <1>2, <3>1, <3>2, <3>3, CreateInLine
    <3>6. now = Files(now.stream, now.disk)
      BY <3>1, OpenedCases
    <3> QED BY <3>4, <3>5, <3>6
  <2>2. CASE ~new
    <3>1. now = Files(ofstream_, disk) /\ now.stream = ofstream_ /\ now.disk = disk
      BY <1>4, <2>2 DEF Files
    <3>2. cur = Current /\ line = m_cur_line /\ size = m_cur_size
      BY <2>2 DEF Current
    <3>3. ofstream_ \in Stream(disk)
      BY <1>0 DEF TypeOK, Stream
    <3> HIDE DEF cur, line, size, new
    <3>4. Ready(ofstream_, disk, cur, line, size)
      BY <1>0, <3>2, <3>3 DEF Ready, FilesInv, StreamInv
    <3>5. ~failed => InLine(disk, cur, OnDisk)
      BY <1>0, <1>3, <3>2 DEF FilesInv, WrittenOnceInOrder, Ordered, InLine
    <3> QED BY <3>1, <3>4, <3>5
  <2> QED BY <2>1, <2>2
<1> DEFINE w   == Written(now, txt)
           ids == OnDisk \cup {txt[1]}
<1>9. /\ w.stream = now.stream /\ TypedDisk(w.disk) /\ Within(w.disk)
      /\ \A g \in DOMAIN w.disk : g[1] <= today
      /\ ~full => Ready(now.stream, w.disk, cur, line + 1, size + txt[2])
      /\ ~failed /\ now.stream.ok => InLine(w.disk, cur, ids)
  <2> DEFINE st == now.stream
             d  == now.disk
  <2>1. /\ w = Written(Files(st, d), txt) /\ Ready(st, d, cur, line, size)
        /\ ~failed /\ st.ok => InLine(d, cur, OnDisk)
    BY <1>8
  <2>2. /\ txt \in Line /\ line \in Nat /\ size \in Nat /\ cur \in (1..MaxDay) \X Nat
        /\ ~failed => \A i \in OnDisk : i < txt[1]
    BY <1>1, <1>2
  <2> HIDE DEF cur, line, size, txt, st, d, w
  <2>3. /\ w.stream = st /\ TypedDisk(w.disk) /\ Within(w.disk)
        /\ \A g \in DOMAIN w.disk : g[1] <= today
        /\ ~Full(line, size) => Ready(st, w.disk, cur, line + 1, size + txt[2])
    BY <2>1, <2>2, WriteReady
  <2>4. ~failed /\ st.ok => InLine(w.disk, cur, ids)
    <3>1. st.ok => st.file = cur /\ TypedDisk(d)
      BY <2>1 DEF Ready
    <3> QED BY <2>1, <2>2, <3>1, WriteInLine
  <2> QED BY <2>3, <2>4 DEF st
<1>10. /\ Ready(ofstream_', disk', <<m_cur_day', m_cur_sn'>>, m_cur_line', m_cur_size')
       /\ ~failed' => InLine(disk', <<m_cur_day', m_cur_sn'>>, ids)
  <2>1. CASE full
    <3>1. after \in Opened(w.disk, nxt) /\ m_cur_line' = 1 /\ m_cur_size' = txt[2]
          /\ <<m_cur_day', m_cur_sn'>> = nxt
      BY <1>5, <1>6, <1>7, <2>1
    <3>2. ~failed /\ now.stream.ok =>
            /\ NoGap(w.disk) /\ Ordered(w.disk) /\ Contents(w.disk) = ids
            /\ \A g \in DOMAIN w.disk : Before(g, nxt)
            /\ <<nxt[1], nxt[2] - 1>> \in DOMAIN w.disk
      <4>1. ASSUME ~failed, now.stream.ok, NEW g \in DOMAIN w.disk PROVE Before(g, nxt)
        <5>1. g = cur \/ Before(g, cur)
          BY <1>9, <4>1 DEF LastFile, InLine
        <5>2. g \in (1..MaxDay) \X Nat
          BY <1>9 DEF TypedDisk
        <5> QED BY <1>2, <5>1, <5>2 DEF Before
      <4>2. ~failed /\ now.stream.ok => cur \in DOMAIN w.disk
        BY <1>9 DEF LastFile, InLine
      <4>3. <<nxt[1], nxt[2] - 1>> = cur
        BY <1>2
      <4> QED BY <1>9, <4>1, <4>2, <4>3 DEF InLine
    <3>3. nxt[1] <= today /\ 1 \in Nat
      BY <1>2
    <3> DEFINE d == w.disk
    <3>4. /\ TypedDisk(d) /\ Within(d) /\ \A g \in DOMAIN d : g[1] <= today
          /\ after \in Opened(d, nxt)
          /\ ~failed /\ now.stream.ok =>
               /\ NoGap(d) /\ Ordered(d) /\ Contents(d) = ids
               /\ \A g \in DOMAIN d : Before(g, nxt)
               /\ <<nxt[1], nxt[2] - 1>> \in DOMAIN d
      BY <1>9, <3>1, <3>2
    <3> HIDE DEF d, nxt, ids, txt
    <3>5. Ready(after.stream, after.disk, nxt, 1, txt[2])
      BY <1>2, <1>7, <3>3, <3>4, CreateReady
    <3>6. ~failed /\ now.stream.ok /\ after.stream.ok => InLine(after.disk, nxt, ids)
      BY <1>2, <3>4, CreateInLine
    <3> QED BY <1>5, <3>1, <3>5, <3>6
  <2>2. CASE ~full
    <3>1. after.stream = now.stream /\ after.disk = w.disk /\ m_cur_line' = line + 1
          /\ m_cur_size' = size + txt[2] /\ <<m_cur_day', m_cur_sn'>> = cur
      BY <1>5, <1>6, <1>9, <2>2
    <3>2. Ready(now.stream, w.disk, cur, line + 1, size + txt[2])
      BY <1>9, <2>2
    <3>3. ~failed /\ now.stream.ok => InLine(w.disk, cur, ids)
      BY <1>9
    <3> HIDE DEF cur, ids, txt, line, size, w
    <3> QED BY <1>5, <3>1, <3>2, <3>3
  <2> QED BY <2>1, <2>2
<1>11. /\ m_cur_sn' \in Nat /\ m_cur_line' \in Nat /\ m_cur_size' \in Nat
  BY <1>2, <1>6, <1>7
<1>12. failed' \in BOOLEAN /\ (failed => failed') /\ (~ofstream_'.ok => failed')
  BY <1>2, <1>5
<1>13. /\ dropped' \subseteq dropped \cup {txt[1]} /\ dropped \subseteq dropped'
       /\ ~failed' => dropped' = dropped
  BY <1>5
<1> QED BY <1>1, <1>6, <1>10, <1>11, <1>12, <1>13

LEMMA RunHandlerInv ==
  ASSUME LogInv, RunHandler
  PROVE  LogInv'
<1> DEFINE txt == Head(queue)
<1>1. /\ txt \in Line /\ Tail(queue) \in Seq(Line)
      /\ Ids(queue) = Ids(Tail(queue)) \cup {txt[1]}
      /\ m_cur_day' = today /\ m_cur_sn' \in Nat /\ m_cur_line' \in Nat /\ m_cur_size' \in Nat
      /\ Ready(ofstream_', disk', <<m_cur_day', m_cur_sn'>>, m_cur_line', m_cur_size')
      /\ ~failed' => InLine(disk', <<m_cur_day', m_cur_sn'>>, OnDisk \cup {txt[1]})
      /\ failed' \in BOOLEAN /\ (failed => failed') /\ (~ofstream_'.ok => failed')
      /\ dropped' \subseteq dropped \cup {txt[1]} /\ dropped \subseteq dropped'
      /\ ~failed' => dropped' = dropped
  BY HandlerReady
<1>2. /\ TypeOK /\ RunInv /\ FlushInv /\ WrittenOnceInOrder /\ queue # <<>> /\ queue \in Seq(Line)
      /\ thread = "running" /\ ~stopped /\ queue' = Tail(queue)
      /\ UNCHANGED <<m_opened, modules_, m_log_level, owner, pc, work, thread, stopped, today,
                     opens, restarts, accepted, early>>
  BY DEF LogInv, RunHandler, config, asio, bounds, TypeOK
<1> HIDE DEF txt
<1>3. TypeOK'
  <2>1. /\ ofstream_' \in [file : DOMAIN disk' \cup {NoFile}, ok : BOOLEAN]
        /\ DOMAIN disk' \subseteq (1..MaxDay) \X Nat /\ disk' \in [DOMAIN disk' -> Seq(Line)]
    BY <1>1 DEF Ready, Stream, TypedDisk
  <2>2. dropped' \subseteq 1..MaxLines
    <3>1. txt[1] \in 1..MaxLines /\ dropped \subseteq 1..MaxLines
      BY <1>1, <1>2, LineFacts DEF TypeOK
    <3> QED BY <1>1, <3>1
  <2>3. m_cur_day' \in 0..MaxDay
    <3>1. today \in 1..MaxDay /\ MaxDay \in Nat
      BY <1>2, LogAssumption DEF TypeOK
    <3> QED BY <1>1, <3>1
  <2> QED BY <1>1, <1>2, <2>1, <2>2, <2>3 DEF TypeOK
<1>4. RunInv'
  BY <1>2 DEF RunInv
<1>5. StreamInv'
  <2>1. m_cur_day' \in 1..today'
    BY <1>1, <1>2 DEF TypeOK
  <2> QED BY <1>1, <2>1 DEF Ready, StreamInv, Current
<1>6. FilesInv'
  BY <1>1, <1>2 DEF Ready, InLine, FilesInv, Current
<1>7. FlushInv'
  BY <1>2 DEF FlushInv
<1>8. WrittenOnceInOrder'
  <2> SUFFICES ASSUME ~failed' PROVE WrittenOnceInOrder'
    BY DEF WrittenOnceInOrder
  <2> DEFINE q == Tail(queue)
  <2>1. /\ OnDisk \cup Ids(queue) \cup dropped = 1..accepted
        /\ dropped \cap (OnDisk \cup Ids(queue)) = {}
        /\ \A i \in OnDisk, j \in Ids(queue) : i < j
        /\ InPostOrder(queue)
    BY <1>1, <1>2 DEF WrittenOnceInOrder
  <2>2. InPostOrder(q) /\ \A i \in Ids(q) : txt[1] < i
    BY <1>2, <2>1, IdsTail DEF txt
  <2>3. OnDisk' = OnDisk \cup {txt[1]} /\ Ordered(disk')
    <3>1. OnDisk' = Contents(disk')
      BY DEF OnDisk, Contents
    <3> QED BY <1>1, <3>1 DEF InLine
  <2>4. queue' = q /\ Ids(queue) = Ids(q) \cup {txt[1]} /\ dropped' = dropped /\ accepted' = accepted
    BY <1>1, <1>2
  <2> HIDE DEF q
  <2>5. /\ OnDisk' \cup Ids(q) \cup dropped = 1..accepted
        /\ dropped \cap (OnDisk' \cup Ids(q)) = {}
    BY <2>1, <2>3, <2>4
  <2>6. \A i \in OnDisk', j \in Ids(q) : i < j
    BY <2>1, <2>2, <2>3, <2>4
  <2> QED BY <2>2, <2>3, <2>4, <2>5, <2>6 DEF WrittenOnceInOrder, Ordered
<1> QED BY <1>3, <1>4, <1>5, <1>6, <1>7, <1>8 DEF LogInv

-----------------------------------------------------------------------------
(* The owner opens the log.                                                *)

LEMMA FreeNumber ==
  ASSUME TypedDisk(disk), NEW day
  PROVE  /\ FirstFree(day) \in Nat /\ <<day, FirstFree(day)>> \notin DOMAIN disk
         /\ \A s \in 0..FirstFree(day) - 1 : <<day, s>> \in DOMAIN disk
<1> DEFINE C == Cardinality(DOMAIN disk)
           T == {n \in Nat : <<day, n>> \notin DOMAIN disk}
<1>0. IsFiniteSet(DOMAIN disk) /\ C \in Nat
  BY FS_CardinalityType DEF TypedDisk
<1>1. ASSUME NEW n \in Nat, \A s \in 1..n : <<day, s - 1>> \in DOMAIN disk PROVE n <= C
  <2> DEFINE g == [s \in 1..n |-> <<day, s - 1>>]
  <2>1. g \in Injection(1..n, DOMAIN disk)
    <3>1. g \in [1..n -> DOMAIN disk]
      BY <1>1
    <3>2. \A a, b \in 1..n : g[a] = g[b] => a = b
      OBVIOUS
    <3> QED BY <3>1, <3>2 DEF Injection, IsInjective
  <2>2. Cardinality(1..n) = n
    BY FS_Interval
  <2> HIDE DEF g
  <2> QED BY <1>0, <2>1, <2>2, FS_Injection
<1>2. T # {}
  <2>1. CASE T = {}
    <3>1. \A s \in 1..C + 1 : <<day, s - 1>> \in DOMAIN disk
      BY <1>0, <2>1
    <3>2. C + 1 \in Nat /\ ~(C + 1 <= C)
      BY <1>0
    <3> HIDE DEF C
    <3> QED BY <1>1, <3>1, <3>2
  <2> QED BY <2>1
<1>3. PICK x \in T : \A y \in T : x <= y
  BY <1>2, LeastNatural
<1>4. \A s \in 0..x - 1 : <<day, s>> \in DOMAIN disk
  BY <1>3
<1>5. x \in 0..C
  <2>1. \A s \in 1..x : <<day, s - 1>> \in DOMAIN disk
    BY <1>4
  <2> HIDE DEF C
  <2> QED BY <1>0, <1>1, <2>1
<1>6. <<day, x>> \notin DOMAIN disk
  OBVIOUS
<1> HIDE DEF T, C
<1> QED BY <1>0, <1>4, <1>5, <1>6 DEF FirstFree, C

LEMMA InitLogInv ==
  ASSUME LogInv, NEW level \in Levels, init_log(level)
  PROVE  LogInv'
<1>0. /\ TypeOK /\ RunInv /\ StreamInv /\ FilesInv /\ FlushInv /\ WrittenOnceInOrder
      /\ TypedDisk(disk) /\ Within(disk)
  BY DEF LogInv, FilesInv
<1>1. /\ owner = "idle" /\ ~m_opened /\ opens' = opens + 1 /\ m_log_level' = m_log_level \cup 0..level
      /\ modules_' = TRUE /\ m_opened' = TRUE
      /\ m_cur_day' = today /\ m_cur_line' = 0 /\ m_cur_size' = 0
      /\ UNCHANGED <<owner, pc, stopped, queue, today, restarts, accepted, early, dropped>>
      /\ open_file_thread \/ OpenFails
  BY DEF init_log
<1>2. /\ thread # "running" /\ opens \in Nat /\ (thread # "none" => stopped)
      /\ today \in 1..MaxDay /\ MaxDay \in Nat /\ 0..level \subseteq Nat /\ failed \in BOOLEAN
      /\ (opens' = 1 => thread = "none" /\ ~stopped)
  <2>1. thread # "running" /\ (thread # "none" => stopped) /\ (thread = "none" => ~stopped)
    BY <1>0, <1>1 DEF TypeOK, RunInv
  <2>2. opens \in Nat /\ today \in 1..MaxDay /\ failed \in BOOLEAN
    BY <1>0 DEF TypeOK
  <2>3. MaxDay \in Nat /\ level \in Nat
    BY LogAssumption
  <2>4. opens' = 1 => opens = 0
    BY <1>1, <2>2
  <2>5. opens = 0 => thread = "none"
    BY <1>0 DEF RunInv
  <2> QED BY <2>1, <2>2, <2>3, <2>4, <2>5
<1>3. ASSUME /\ thread' \in {"none", "running", "exited"} /\ work' \in BOOLEAN /\ m_cur_sn' \in Nat
             /\ ofstream_' \in Stream(disk') /\ TypedDisk(disk') /\ failed' \in BOOLEAN
      PROVE  TypeOK'
  <2>1. m_log_level' \subseteq Nat /\ m_cur_day' \in 0..MaxDay /\ opens' \in Nat
    BY <1>0, <1>1, <1>2 DEF TypeOK
  <2> QED BY <1>0, <1>1, <1>3, <2>1 DEF TypeOK, Stream, TypedDisk
<1>4. CASE open_file_thread /\ ofstream_.file = NoFile
  <2> DEFINE f == <<today, FirstFree(today)>>
  <2>1. PICK fs \in Opened(disk, f) : /\ ofstream_' = fs.stream /\ disk' = fs.disk
                                       /\ failed' = (failed \/ ~fs.stream.ok)
    BY <1>4 DEF open_file_thread
  <2>2. m_cur_sn' = FirstFree(today) /\ work' = TRUE /\ thread' = "running"
    BY <1>4 DEF open_file_thread
  <2>3. /\ FirstFree(today) \in Nat /\ f \notin DOMAIN disk
        /\ \A s \in 0..FirstFree(today) - 1 : <<today, s>> \in DOMAIN disk
    BY <1>0, FreeNumber
  <2>4. f \in (1..MaxDay) \X Nat /\ f[1] <= today /\ f[1] = today /\ f[2] = FirstFree(today)
    BY <1>2, <2>3
  <2>5. /\ \A g \in DOMAIN disk : g[1] <= today
        /\ ~failed => NoGap(disk) /\ Ordered(disk)
    BY <1>0 DEF FilesInv, WrittenOnceInOrder, Ordered
  <2>6. ~failed => /\ \A g \in DOMAIN disk : Before(g, f)
                   /\ f[2] = 0 \/ <<f[1], f[2] - 1>> \in DOMAIN disk
    <3>1. ASSUME ~failed, NEW g \in DOMAIN disk PROVE Before(g, f)
      <4>1. g \in (1..MaxDay) \X Nat /\ g[1] <= today
        BY <1>0, <2>5 DEF TypedDisk
      <4>2. CASE g[1] = today
        <5>1. CASE g[2] >= FirstFree(today)
          <6>1. FirstFree(today) \in 0..g[2]
            BY <2>3, <4>1, <5>1
          <6>2. <<g[1], FirstFree(today)>> \in DOMAIN disk
            BY <2>5, <3>1, <6>1 DEF NoGap
          <6> QED BY <2>3, <4>2, <6>2
        <5> QED BY <2>3, <2>4, <4>1, <4>2, <5>1 DEF Before
      <4> QED BY <1>2, <2>4, <4>1, <4>2 DEF Before
    <3>2. f[2] = 0 \/ <<f[1], f[2] - 1>> \in DOMAIN disk
      BY <2>3, <2>4
    <3> QED BY <3>1, <3>2
  <2>7. Current' = f
    BY <1>1, <2>2 DEF Current
  <2> HIDE DEF f
  <2>8. Ready(fs.stream, fs.disk, f, 0, 0)
    BY <1>0, <2>1, <2>4, <2>5, CreateReady
  <2>9. ~failed /\ fs.stream.ok => InLine(fs.disk, f, OnDisk)
    <3>1. OnDisk = Contents(disk)
      BY DEF OnDisk, Contents
    <3> QED BY <1>0, <2>1, <2>4, <2>5, <2>6, <3>1, CreateInLine
  <2>10. TypeOK'
    BY <1>2, <1>3, <2>1, <2>2, <2>3, <2>8 DEF Ready
  <2>11. RunInv'
    BY <1>0, <1>1, <1>2, <2>2 DEF RunInv
  <2>12. StreamInv'
    <3>1. m_cur_day' \in 1..today'
      BY <1>1, <1>2
    <3>2. ~ofstream_'.ok => failed'
      BY <2>1
    <3>3. ofstream_'.ok => ofstream_'.file = f /\ Room(disk', f, 0, 0)
      BY <2>1, <2>8 DEF Ready
    <3> QED BY <1>1, <2>7, <3>1, <3>2, <3>3 DEF StreamInv
  <2>13. FilesInv'
    BY <1>1, <2>1, <2>7, <2>8, <2>9 DEF FilesInv, Ready, InLine
  <2>14. FlushInv'
    BY <1>0, <1>1, <2>2 DEF FlushInv
  <2>15. WrittenOnceInOrder'
    <3> SUFFICES ASSUME ~failed' PROVE WrittenOnceInOrder'
      BY DEF WrittenOnceInOrder
    <3>1. OnDisk' = OnDisk /\ Ordered(disk') /\ ~failed
      <4>1. OnDisk' = Contents(disk')
        BY DEF OnDisk, Contents
      <4> QED BY <2>1, <2>9, <4>1 DEF InLine
    <3> QED BY <1>0, <1>1, <3>1 DEF WrittenOnceInOrder, Ordered
  <2> QED BY <2>10, <2>11, <2>12, <2>13, <2>14, <2>15 DEF LogInv
<1>5. CASE (open_file_thread /\ ofstream_.file # NoFile) \/ OpenFails
  <2>1. /\ m_cur_sn' \in Nat /\ disk' = disk /\ failed' = failed /\ ofstream_' \in Stream(disk)
        /\ ofstream_'.file = ofstream_.file /\ thread' \in {thread, "running"} /\ work' \in BOOLEAN
    <3>1. ofstream_ \in Stream(disk) /\ work \in BOOLEAN
      BY <1>0 DEF TypeOK, Stream
    <3>2. CASE OpenFails
      BY <3>1, <3>2 DEF OpenFails, files
    <3>3. CASE open_file_thread /\ ofstream_.file # NoFile
      <4>1. /\ m_cur_sn' = FirstFree(today) /\ work' = TRUE /\ thread' = "running"
            /\ ofstream_' = [ofstream_ EXCEPT !.ok = FALSE] /\ disk' = disk /\ failed' = failed
        BY <3>3 DEF open_file_thread
      <4> QED BY <1>0, <3>1, <4>1, FreeNumber DEF Stream
    <3> QED BY <1>5, <3>2, <3>3
  <2>2. (thread' = "running" => stopped /\ work') /\ (thread' = "none" => thread = "none")
    BY <1>0, <1>2, <1>5 DEF RunInv, open_file_thread, OpenFails
  <2>3. TypeOK'
    BY <1>0, <1>2, <1>3, <2>1 DEF TypeOK
  <2>4. RunInv'
    BY <1>0, <1>1, <1>2, <2>1, <2>2 DEF RunInv
  <2>5. StreamInv' /\ FilesInv'
    BY <1>0, <1>1, <2>1, <2>2 DEF StreamInv, FilesInv, Writing
  <2>6. FlushInv'
    BY <1>0, <1>1, <1>2, <2>1 DEF FlushInv
  <2>7. WrittenOnceInOrder'
    BY <1>0, <1>1, <2>1 DEF WrittenOnceInOrder, OnDisk
  <2> QED BY <2>3, <2>4, <2>5, <2>6, <2>7 DEF LogInv
<1> QED BY <1>1, <1>4, <1>5

-----------------------------------------------------------------------------
(* The other steps.                                                        *)

\* The disk, the stream and the thread stay as they are.
LEMMA FilesFrame ==
  ASSUME LogInv, UNCHANGED <<ofstream_, disk, thread, stopped, m_cur_day, m_cur_sn, m_cur_line,
                             m_cur_size, failed>>,
         today' \in Nat, today' >= today
  PROVE  StreamInv' /\ FilesInv'
<1>0. StreamInv /\ FilesInv /\ today \in Nat /\ MaxDay \in Nat
  BY LogAssumption DEF LogInv, TypeOK
<1>1. Current' = Current /\ Writing' = Writing
  BY DEF Current, Writing
<1>2. m_cur_day \in 1..today => m_cur_day \in 1..today'
  BY <1>0
<1>3. \A f \in DOMAIN disk : f[1] <= today'
  <2>1. \A f \in DOMAIN disk : f[1] \in Nat /\ f[1] <= today
    BY <1>0 DEF FilesInv, TypedDisk
  <2> QED BY <1>0, <2>1
<1>4. StreamInv'
  BY <1>0, <1>1, <1>2 DEF StreamInv
<1>5. FilesInv'
  BY <1>0, <1>1, <1>3 DEF FilesInv
<1> QED BY <1>4, <1>5

LEMMA WrittenFrame ==
  ASSUME LogInv, UNCHANGED <<disk, queue, dropped, accepted, failed>>
  PROVE  WrittenOnceInOrder'
BY DEF LogInv, WrittenOnceInOrder, OnDisk

LEMMA AcceptedFacts ==
  /\ IsFiniteSet(Accepted) /\ Cardinality(Accepted) \in Nat /\ Cardinality(Caller) \in Nat
  /\ Cardinality(Accepted) <= Cardinality(Caller)
<1>1. Accepted \in SUBSET Caller /\ IsFiniteSet(Caller)
  BY LogAssumption DEF Accepted
<1>2. IsFiniteSet(Accepted) /\ Cardinality(Accepted) <= Cardinality(Caller)
  BY <1>1, FS_Subset
<1> QED BY <1>1, <1>2, FS_CardinalityType

LEMMA CloseInv ==
  ASSUME LogInv, close \/ close_joined
  PROVE  LogInv'
<1>0. TypeOK /\ RunInv /\ FlushInv
  BY DEF LogInv
<1>1. /\ UNCHANGED <<ofstream_, disk, thread, stopped, m_cur_day, m_cur_sn, m_cur_line, m_cur_size>>
      /\ UNCHANGED <<queue, dropped, accepted, failed, today, opens, restarts, pc, m_log_level>>
  BY DEF close, close_joined, config, asio, current, files, bounds, history
<1>2. today' \in Nat /\ today' >= today
  BY <1>0, <1>1, LogAssumption DEF TypeOK
<1>3. StreamInv' /\ FilesInv' /\ WrittenOnceInOrder'
  BY <1>1, <1>2, FilesFrame, WrittenFrame
<1>4. /\ owner' \in {"idle", "joining"} /\ m_opened' \in BOOLEAN /\ modules_' \in BOOLEAN
      /\ work' \in BOOLEAN /\ early' \in {early, accepted} /\ (m_opened' => m_opened)
      /\ (close_joined => UNCHANGED <<m_opened, early>>)
  <2>1. CASE close
    BY <1>0, <2>1 DEF TypeOK, close, close_joined
  <2>2. CASE close_joined
    BY <1>0, <2>2 DEF TypeOK, close_joined, config, asio, history
  <2> QED BY <2>1, <2>2
<1>5. TypeOK'
  BY <1>0, <1>1, <1>4 DEF TypeOK
<1>6. RunInv'
  BY <1>0, <1>1 DEF RunInv, close, close_joined, config, asio
<1>7. FlushInv'
  <2>1. early' <= accepted
    BY <1>0, <1>4 DEF TypeOK, FlushInv
  <2>2. Accepted' = Accepted
    BY <1>1 DEF Accepted
  <2>3. CASE close
    BY <1>0, <1>1, <2>1, <2>3 DEF FlushInv, close
  <2>4. CASE close_joined
    BY <1>0, <1>1, <1>4, <2>1, <2>2, <2>4 DEF FlushInv
  <2> QED BY <2>3, <2>4
<1> QED BY <1>3, <1>5, <1>6, <1>7 DEF LogInv

LEMMA CallerTestsInv ==
  ASSUME LogInv, NEW c \in Caller, _log(c) \/ check(c)
  PROVE  LogInv'
<1>0. TypeOK /\ RunInv /\ FlushInv
  BY DEF LogInv
<1>1. /\ UNCHANGED <<ofstream_, disk, thread, stopped, m_cur_day, m_cur_sn, m_cur_line, m_cur_size>>
      /\ UNCHANGED <<queue, dropped, accepted, failed, today, opens, restarts, m_log_level>>
      /\ UNCHANGED <<m_opened, modules_, owner, work, early>>
  BY DEF _log, check, config, asio, current, files, bounds, history
<1>2. today' \in Nat /\ today' >= today
  BY <1>0, <1>1, LogAssumption DEF TypeOK
<1>3. StreamInv' /\ FilesInv' /\ WrittenOnceInOrder'
  BY <1>1, <1>2, FilesFrame, WrittenFrame
<1>4. /\ pc' \in [Caller -> {"idle", "inside", "accepted"}]
      /\ ~m_opened => \A d \in Caller : pc'[d] = "accepted" => pc[d] = "accepted"
  BY <1>0 DEF TypeOK, RunInv, _log, check, Goes
<1>5. TypeOK'
  BY <1>0, <1>1, <1>4 DEF TypeOK
<1>6. RunInv'
  BY <1>0, <1>1 DEF RunInv
<1>7. FlushInv'
  <2>1. ASSUME ~m_opened PROVE Cardinality(Accepted') <= Cardinality(Accepted) /\ Cardinality(Accepted') \in Nat
    <3>1. Accepted' \in SUBSET Accepted
      BY <1>4, <2>1 DEF Accepted
    <3>2. IsFiniteSet(Accepted)
      BY AcceptedFacts
    <3> HIDE DEF Accepted
    <3> QED BY <3>1, <3>2, FS_Subset, FS_CardinalityType
  <2>2. Len(queue) \in Nat
    BY <1>0 DEF TypeOK
  <2>3. opens = 1 /\ thread = "exited" => Len(queue) + Cardinality(Accepted') <= Cardinality(Caller)
    <3> HIDE DEF Accepted
    <3> QED BY <1>0, <2>1, <2>2, AcceptedFacts DEF FlushInv
  <2> QED BY <1>0, <1>1, <2>3 DEF FlushInv
<1> QED BY <1>3, <1>5, <1>6, <1>7 DEF LogInv

LEMMA PostInv ==
  ASSUME LogInv, NEW c \in Caller, NEW len \in Lengths, post(c, len)
  PROVE  LogInv'
<1>0. TypeOK /\ RunInv /\ FlushInv /\ WrittenOnceInOrder /\ queue \in Seq(Line)
  BY DEF LogInv, TypeOK
<1> DEFINE x == <<accepted + 1, len>>
<1>1. /\ UNCHANGED <<ofstream_, disk, thread, stopped, m_cur_day, m_cur_sn, m_cur_line, m_cur_size>>
      /\ UNCHANGED <<dropped, failed, today, opens, restarts, m_log_level>>
      /\ UNCHANGED <<m_opened, modules_, owner, work, early>>
      /\ pc[c] = "accepted" /\ pc' = [pc EXCEPT ![c] = "idle"]
      /\ accepted < MaxLines /\ accepted' = accepted + 1 /\ queue' = Append(queue, x)
  BY DEF post, Goes, config, asio, current, files, bounds
<1>2. today' \in Nat /\ today' >= today
  <2>1. today' = today /\ today \in 1..MaxDay /\ MaxDay \in Nat
    BY <1>0, <1>1, LogAssumption DEF TypeOK
  <2> QED BY <2>1
<1>3. StreamInv' /\ FilesInv'
  BY <1>1, <1>2, FilesFrame
<1>4. x \in Line /\ accepted \in Nat /\ accepted' \in 0..MaxLines /\ x[1] = accepted + 1
      /\ MaxLines \in Nat /\ early \in Nat /\ early <= accepted
  <2>1. MaxLines \in Nat /\ accepted \in 0..MaxLines /\ early \in 0..MaxLines /\ early <= accepted
    BY <1>0, LongestFacts DEF TypeOK, FlushInv
  <2>2. accepted + 1 \in 1..MaxLines /\ accepted' \in 0..MaxLines
    BY <1>1, <2>1
  <2> QED BY <2>1, <2>2 DEF Line
<1> HIDE DEF x
<1>5. /\ queue' \in Seq(Line) /\ Len(queue') = Len(queue) + 1 /\ Len(queue) \in Nat
      /\ Ids(queue') = Ids(queue) \cup {x[1]}
      /\ InPostOrder(queue) /\ (\A i \in Ids(queue) : i < x[1]) => InPostOrder(queue')
  BY <1>0, <1>1, <1>4, IdsAppend
<1>6. TypeOK'
  <2>1. pc' \in [Caller -> {"idle", "inside", "accepted"}]
    BY <1>0, <1>1 DEF TypeOK
  <2> QED BY <1>0, <1>1, <1>4, <1>5, <2>1 DEF TypeOK
<1>7. RunInv'
  BY <1>0, <1>1 DEF RunInv
<1>8. FlushInv'
  <2>1. Accepted' = Accepted \ {c} /\ c \in Accepted
    BY <1>0, <1>1 DEF Accepted, TypeOK
  <2>2. Cardinality(Accepted') = Cardinality(Accepted) - 1
    <3> HIDE DEF Accepted
    <3> QED BY <2>1, AcceptedFacts, FS_RemoveElement
  <2>3. Cardinality(Accepted) \in Nat /\ Cardinality(Caller) \in Nat
    BY AcceptedFacts
  <2>4. early <= accepted' /\ x[1] > early
    BY <1>1, <1>4
  <2>5. Len(queue) + Cardinality(Accepted) = Len(queue') + Cardinality(Accepted')
    BY <1>5, <2>2, <2>3
  <2> HIDE DEF Accepted
  <2> QED BY <1>0, <1>1, <1>5, <2>4, <2>5 DEF FlushInv
<1>9. WrittenOnceInOrder'
  <2> SUFFICES ASSUME ~failed PROVE WrittenOnceInOrder'
    BY <1>1 DEF WrittenOnceInOrder
  <2>1. /\ OnDisk \cup Ids(queue) \cup dropped = 1..accepted
        /\ dropped \cap (OnDisk \cup Ids(queue)) = {}
        /\ \A i \in OnDisk, j \in Ids(queue) : i < j
        /\ InPostOrder(queue)
    BY <1>0 DEF WrittenOnceInOrder
  <2>2. OnDisk' = OnDisk
    BY <1>1 DEF OnDisk
  <2>3. \A i \in OnDisk \cup Ids(queue) \cup dropped : i < x[1]
    BY <1>4, <2>1
  <2>4. 1..accepted' = 1..accepted \cup {x[1]}
    BY <1>1, <1>4
  <2>5. x[1] \notin OnDisk \cup Ids(queue) \cup dropped
    BY <1>4, <2>3
  <2>6. /\ OnDisk \cup Ids(queue') \cup dropped = 1..accepted'
        /\ dropped \cap (OnDisk \cup Ids(queue')) = {}
    BY <1>5, <2>1, <2>4, <2>5
  <2>7. \A i \in OnDisk, j \in Ids(queue') : i < j
    BY <1>5, <2>1, <2>3
  <2> QED BY <1>0, <1>1, <1>5, <2>1, <2>2, <2>3, <2>6, <2>7 DEF WrittenOnceInOrder
<1> QED BY <1>3, <1>6, <1>7, <1>8, <1>9 DEF LogInv

LEMMA ThreadExitsInv ==
  ASSUME LogInv, ThreadExits
  PROVE  LogInv'
<1>0. TypeOK /\ RunInv /\ FlushInv /\ StreamInv /\ FilesInv
  BY DEF LogInv
<1>1. /\ UNCHANGED <<ofstream_, disk, m_cur_day, m_cur_sn, m_cur_line, m_cur_size, pc>>
      /\ UNCHANGED <<queue, dropped, accepted, failed, today, opens, restarts, m_log_level>>
      /\ UNCHANGED <<m_opened, modules_, owner, work, early>>
      /\ thread = "running" /\ (stopped \/ (~work /\ queue = <<>>))
      /\ thread' = "exited" /\ stopped' = TRUE
  BY DEF ThreadExits, config, current, files, bounds, history
<1>2. WrittenOnceInOrder'
  BY <1>1, WrittenFrame
<1>3. TypeOK'
  BY <1>0, <1>1 DEF TypeOK
<1>4. RunInv'
  BY <1>0, <1>1 DEF RunInv
<1>5. StreamInv' /\ FilesInv'
  BY <1>0, <1>1 DEF StreamInv, FilesInv, Writing
<1>6. FlushInv'
  <2>1. opens = 1 => ~m_opened /\ queue = <<>>
    BY <1>0, <1>1 DEF RunInv
  <2>2. Accepted' = Accepted
    BY <1>1 DEF Accepted
  <2>3. queue = <<>> => Ids(queue) = {} /\ Len(queue) = 0
    BY IdsEmpty
  <2> HIDE DEF Accepted
  <2> QED BY <1>0, <1>1, <2>1, <2>2, <2>3, AcceptedFacts DEF FlushInv
<1> QED BY <1>2, <1>3, <1>4, <1>5, <1>6 DEF LogInv

LEMMA MidnightInv ==
  ASSUME LogInv, Midnight
  PROVE  LogInv'
<1>0. TypeOK /\ RunInv /\ FlushInv
  BY DEF LogInv
<1>1. /\ UNCHANGED <<ofstream_, disk, thread, stopped, m_cur_day, m_cur_sn, m_cur_line, m_cur_size>>
      /\ UNCHANGED <<queue, dropped, accepted, failed, opens, restarts, m_log_level, pc>>
      /\ UNCHANGED <<m_opened, modules_, owner, work, early>>
      /\ today < MaxDay /\ today' = today + 1
  BY DEF Midnight, config, asio, current, files, bounds, history
<1>2. today' \in Nat /\ today' >= today /\ today' \in 1..MaxDay
  <2>1. today \in 1..MaxDay /\ MaxDay \in Nat
    BY <1>0, LogAssumption DEF TypeOK
  <2> QED BY <1>1, <2>1
<1>3. StreamInv' /\ FilesInv' /\ WrittenOnceInOrder'
  BY <1>1, <1>2, FilesFrame, WrittenFrame
<1>4. TypeOK' /\ RunInv'
  BY <1>0, <1>1, <1>2 DEF TypeOK, RunInv
<1>5. FlushInv'
  BY <1>0, <1>1 DEF FlushInv, Accepted
<1> QED BY <1>3, <1>4, <1>5 DEF LogInv

LEMMA RestartInv ==
  ASSUME LogInv, Restart
  PROVE  LogInv'
<1>0. TypeOK /\ RunInv /\ FlushInv /\ StreamInv /\ FilesInv /\ WrittenOnceInOrder
  BY DEF LogInv
<1>1. /\ restarts' = restarts + 1 /\ m_opened' = FALSE /\ modules_' = FALSE /\ m_log_level' = {}
      /\ owner' = "idle" /\ pc' = [c \in Caller |-> "idle"]
      /\ work' = FALSE /\ thread' = "none" /\ stopped' = FALSE /\ queue' = <<>>
      /\ m_cur_day' = 0 /\ m_cur_sn' = 0 /\ m_cur_line' = 0 /\ m_cur_size' = 0
      /\ ofstream_' = [file |-> NoFile, ok |-> TRUE] /\ opens' = 0
      /\ dropped' = dropped \cup Ids(queue) /\ early' = accepted
      /\ UNCHANGED <<disk, today, accepted, failed>>
  BY DEF Restart
<1>2. Ids(queue) \subseteq 1..MaxLines /\ queue' \in Seq(Line) /\ Ids(queue') = {} /\ InPostOrder(queue')
  BY <1>0, <1>1, IdsByIndex, IdsEmpty DEF TypeOK
<1>3. TypeOK'
  <2>1. /\ dropped' \subseteq 1..MaxLines /\ restarts' \in Nat /\ 0 \in 0..MaxDay
        /\ pc' \in [Caller -> {"idle", "inside", "accepted"}] /\ early' \in 0..MaxLines
    <3>1. dropped \subseteq 1..MaxLines /\ restarts \in Nat /\ accepted \in 0..MaxLines /\ MaxDay \in Nat
      BY <1>0, LogAssumption DEF TypeOK
    <3>2. pc' \in [Caller -> {"idle", "inside", "accepted"}]
      BY <1>1
    <3>3. restarts' \in Nat /\ 0 \in 0..MaxDay
      BY <1>1, <3>1
    <3>4. early' \in 0..MaxLines /\ dropped' \subseteq 1..MaxLines
      BY <1>1, <1>2, <3>1, Zenon
    <3> QED BY <3>2, <3>3, <3>4
  <2> QED BY <1>0, <1>1, <1>2, <2>1 DEF TypeOK
<1>4. RunInv'
  BY <1>1 DEF RunInv
<1>5. StreamInv' /\ FilesInv'
  BY <1>0, <1>1 DEF StreamInv, FilesInv, Writing
<1>6. FlushInv'
  BY <1>0, <1>1 DEF FlushInv, TypeOK
<1>7. WrittenOnceInOrder'
  <2>1. OnDisk' = OnDisk
    BY <1>1 DEF OnDisk
  <2>2. ~failed => dropped' \cap OnDisk = {}
    <3>1. ASSUME ~failed, NEW i \in OnDisk, i \in Ids(queue) PROVE FALSE
      <4>1. i < i /\ i \in Nat
        BY <1>0, <1>2, <3>1, LongestFacts DEF WrittenOnceInOrder
      <4> QED BY <4>1
    <3> QED BY <1>0, <1>1, <3>1 DEF WrittenOnceInOrder
  <2> QED BY <1>0, <1>1, <1>2, <2>1, <2>2 DEF WrittenOnceInOrder
<1> QED BY <1>3, <1>4, <1>5, <1>6, <1>7 DEF LogInv

LEMMA LogInitInv == Init => LogInv
<1> SUFFICES ASSUME Init PROVE LogInv
  OBVIOUS
<1>1. DOMAIN disk = {} /\ disk = [f \in {} |-> <<>>] /\ queue = <<>> /\ Ids(queue) = {} /\ InPostOrder(queue)
  BY IdsEmpty DEF Init
<1>2. OnDisk = {} /\ IsFiniteSet(DOMAIN disk)
  BY <1>1, FS_EmptySet DEF OnDisk
<1>3. TypeOK
  <2>1. 1 \in 1..MaxDay /\ 0 \in 0..MaxDay /\ 0 \in 0..MaxLines
    BY LogAssumption
  <2>2. disk \in [DOMAIN disk -> Seq(Line)] /\ DOMAIN disk \subseteq (1..MaxDay) \X Nat
    BY <1>1
  <2>3. queue \in Seq(Line) /\ pc \in [Caller -> {"idle", "inside", "accepted"}]
        /\ ofstream_ \in [file : DOMAIN disk \cup {NoFile}, ok : BOOLEAN]
    BY DEF Init
  <2> QED BY <2>1, <2>2, <2>3 DEF Init, TypeOK
<1>4. RunInv
  BY DEF Init, RunInv
<1>5. StreamInv /\ FilesInv
  BY <1>1, <1>2 DEF Init, StreamInv, FilesInv, Writing, TypedDisk, Within, NoGap
<1>6. FlushInv
  BY DEF Init, FlushInv
<1>7. WrittenOnceInOrder
  BY <1>1, <1>2 DEF Init, WrittenOnceInOrder
<1> QED BY <1>3, <1>4, <1>5, <1>6, <1>7 DEF LogInv

LEMMA LogStutterInv ==
  ASSUME LogInv, UNCHANGED vars
  PROVE  LogInv'
<1>0. TypeOK /\ RunInv /\ FlushInv
  BY DEF LogInv
<1>1. /\ UNCHANGED <<ofstream_, disk, thread, stopped, m_cur_day, m_cur_sn, m_cur_line, m_cur_size>>
      /\ UNCHANGED <<queue, dropped, accepted, failed, opens, restarts, m_log_level, pc>>
      /\ UNCHANGED <<m_opened, modules_, owner, work, early, today>>
  BY DEF vars, config, asio, current, files, bounds, history
<1>2. today' \in Nat /\ today' >= today
  BY <1>0, <1>1, LogAssumption DEF TypeOK
<1>3. StreamInv' /\ FilesInv' /\ WrittenOnceInOrder'
  BY <1>1, <1>2, FilesFrame, WrittenFrame
<1>4. TypeOK' /\ RunInv'
  BY <1>0, <1>1 DEF TypeOK, RunInv
<1>5. FlushInv'
  BY <1>0, <1>1 DEF FlushInv, Accepted
<1> QED BY <1>3, <1>4, <1>5 DEF LogInv

LEMMA LogNextInv == LogInv /\ [Next]_vars => LogInv'
BY InitLogInv, CloseInv, CallerTestsInv, PostInv, RunHandlerInv, ThreadExitsInv, MidnightInv,
   RestartInv, LogStutterInv DEF Next, Callers

-----------------------------------------------------------------------------
(* The theorems.                                                           *)

\* LogInv is an invariant of the log.
THEOREM LogInvariant == Spec => []LogInv
BY LogInitInv, LogNextInv, PTL DEF Spec

\* Every variable of the log keeps its type: the stream is closed or refers to a file
\* that exists.
THEOREM LogTypeCorrect == Spec => []TypeOK
<1>1. LogInv => TypeOK
  BY DEF LogInv
<1> QED BY <1>1, LogInvariant, PTL

\* handle_write_file, open_file_thread and restarts together write every line once and
\* in the order of the posts, for any limits of the rotation, as long as every file
\* could be created.
THEOREM WrittenOnceInOrderCorrect == Spec => []WrittenOnceInOrder
<1>1. LogInv => WrittenOnceInOrder
  BY DEF LogInv
<1> QED BY <1>1, LogInvariant, PTL

\* The rotation of handle_write_file bounds every file by m_maxline + 1 lines and by less
\* than m_maxsize plus two lines, although the line that fills a file is counted for the
\* next one.
THEOREM FilesBoundedCorrect == Spec => []FilesBounded
<1>1. LogInv => FilesBounded
  BY DEF LogInv, FilesInv, Within, Fits, FilesBounded
<1> QED BY <1>1, LogInvariant, PTL

\* When the first close() has returned, what is left in the queue was posted after
\* close() began, at most one line per caller, for any number of callers.
THEOREM ClosedIsFlushedCorrect == Spec => []ClosedIsFlushed
<1>1. LogInv => ClosedIsFlushed
  <2> SUFFICES ASSUME LogInv, ~m_opened, owner = "idle", opens = 1, thread # "none"
               PROVE  (\A i \in Ids(queue) : i > early) /\ Len(queue) <= Cardinality(Caller)
    BY DEF ClosedIsFlushed
  <2>1. thread = "exited" /\ Len(queue) \in Nat
    BY DEF LogInv, TypeOK, RunInv
  <2>2. /\ \A i \in Ids(queue) : i > early
        /\ Len(queue) + Cardinality(Accepted) <= Cardinality(Caller)
    BY <2>1 DEF LogInv, FlushInv
  <2> QED BY <2>1, <2>2, AcceptedFacts
<1> QED BY <1>1, LogInvariant, PTL

-----------------------------------------------------------------------------
(* The log implements the journal.                                         *)

LEMMA EntriesByIndex ==
  ASSUME NEW d, NEW e
  PROVE  e \in Entries(d) <=> \E f \in DOMAIN d : \E k \in 1..Len(d[f]) : e = <<f, k, d[f][k]>>
BY DEF Entries

\* A new file has no entries; one that existed has lost its own.
LEMMA EntriesCreated ==
  ASSUME NEW d, NEW f
  PROVE  /\ Entries(Created(d, f)) \subseteq Entries(d)
         /\ f \notin DOMAIN d => Entries(Created(d, f)) = Entries(d)
<1> DEFINE c == Created(d, f)
<1>1. /\ DOMAIN c = DOMAIN d \cup {f} /\ c[f] = <<>>
      /\ \A g \in DOMAIN d : g # f => c[g] = d[g]
  BY DEF Created
<1> HIDE DEF c
<1>2. ASSUME NEW e \in Entries(c) PROVE e \in Entries(d)
  <2>1. PICK g \in DOMAIN c : \E k \in 1..Len(c[g]) : e = <<g, k, c[g][k]>>
    BY EntriesByIndex
  <2>2. g # f
    BY <1>1, <2>1
  <2> QED BY <1>1, <2>1, <2>2, EntriesByIndex
<1>3. ASSUME f \notin DOMAIN d, NEW e \in Entries(d) PROVE e \in Entries(c)
  <2>1. PICK g \in DOMAIN d : \E k \in 1..Len(d[g]) : e = <<g, k, d[g][k]>>
    BY EntriesByIndex
  <2> QED BY <1>1, <1>3, <2>1, EntriesByIndex
<1> QED BY <1>2, <1>3 DEF c

\* Writing a line adds one entry.
LEMMA EntriesWritten ==
  ASSUME NEW d, NEW f \in DOMAIN d, d[f] \in Seq(Line), NEW x \in Line
  PROVE  Entries([d EXCEPT ![f] = Append(@, x)]) = Entries(d) \cup {<<f, Len(d[f]) + 1, x>>}
<1> DEFINE c == [d EXCEPT ![f] = Append(@, x)]
           n == Len(d[f])
<1>1. DOMAIN c = DOMAIN d /\ c[f] = Append(d[f], x) /\ \A g \in DOMAIN d : g # f => c[g] = d[g]
  OBVIOUS
<1>2. n \in Nat /\ Len(c[f]) = n + 1 /\ c[f][n + 1] = x /\ \A k \in 1..n : c[f][k] = d[f][k]
  BY <1>1, AppendFacts
<1> HIDE DEF c, n
<1>3. ASSUME NEW e \in Entries(c) PROVE e \in Entries(d) \/ e = <<f, n + 1, x>>
  <2>1. PICK g \in DOMAIN d : \E k \in 1..Len(c[g]) : e = <<g, k, c[g][k]>>
    BY <1>1, EntriesByIndex
  <2>2. CASE g # f
    BY <1>1, <2>1, <2>2, EntriesByIndex
  <2>3. CASE g = f
    <3>1. PICK k \in 1..n + 1 : e = <<f, k, c[f][k]>>
      BY <1>2, <2>1, <2>3
    <3>2. k = n + 1 \/ k \in 1..n
      BY <1>2
    <3>3. ASSUME k \in 1..n PROVE e \in Entries(d)
      <4>1. e = <<f, k, d[f][k]>> /\ k \in 1..Len(d[f])
        BY <1>2, <3>1, <3>3 DEF n
      <4> QED BY <4>1, EntriesByIndex
    <3> QED BY <1>2, <3>1, <3>2, <3>3
  <2> QED BY <2>2, <2>3
<1>4. <<f, n + 1, x>> \in Entries(c)
  <2>1. n + 1 \in 1..Len(c[f]) /\ f \in DOMAIN c
    BY <1>1, <1>2
  <2> QED BY <1>2, <2>1, EntriesByIndex
<1>5. ASSUME NEW e \in Entries(d) PROVE e \in Entries(c)
  <2>1. PICK g \in DOMAIN d : \E k \in 1..Len(d[g]) : e = <<g, k, d[g][k]>>
    BY EntriesByIndex
  <2>2. CASE g # f
    BY <1>1, <2>1, <2>2, EntriesByIndex
  <2>3. CASE g = f
    <3>1. PICK k \in 1..n : e = <<f, k, d[f][k]>>
      BY <2>1, <2>3 DEF n
    <3>2. k \in 1..Len(c[f]) /\ c[f][k] = d[f][k] /\ f \in DOMAIN c
      BY <1>1, <1>2
    <3> QED BY <3>1, <3>2, EntriesByIndex
  <2> QED BY <2>2, <2>3
<1>6. Entries(c) = Entries(d) \cup {<<f, n + 1, x>>}
  BY <1>3, <1>4, <1>5
<1> QED BY <1>6 DEF c, n

\* All files come before f or are f.
UpTo(d, f) == \A g \in DOMAIN d : g = f \/ Before(g, f)

\* What ofstream_.open(f) does to the entries.
LEMMA OpenedEntries ==
  ASSUME NEW d, NEW f, NEW n \in Opened(d, f)
  PROVE  /\ n = Files(n.stream, n.disk)
         /\ n.stream.ok => n.stream.file = f /\ n.disk = Created(d, f)
         /\ Entries(n.disk) \subseteq Entries(d)
         /\ f \notin DOMAIN d => Entries(n.disk) = Entries(d)
         /\ n.disk = d \/ DOMAIN n.disk = DOMAIN d \cup {f}
<1>0. n = Files(n.stream, n.disk)
  BY OpenedCases
<1>1. CASE n.stream = [file |-> f, ok |-> TRUE] /\ n.disk = Created(d, f)
  <2>1. n.stream.ok /\ n.stream.file = f /\ n.disk = Created(d, f)
    BY <1>1
  <2>2. DOMAIN Created(d, f) = DOMAIN d \cup {f}
    BY DEF Created
  <2>3. /\ Entries(Created(d, f)) \subseteq Entries(d)
        /\ f \notin DOMAIN d => Entries(Created(d, f)) = Entries(d)
    BY EntriesCreated
  <2> QED BY <1>0, <2>1, <2>2, <2>3
<1>2. CASE n.stream = [file |-> NoFile, ok |-> FALSE] /\ n.disk = d
  <2>1. ~n.stream.ok /\ n.disk = d
    BY <1>2
  <2> QED BY <1>0, <2>1
<1> QED BY <1>1, <1>2, OpenedCases

\* A line at the end of the last file is behind all others.
LEMMA LastPlace ==
  ASSUME NEW d, TypedDisk(d), NEW f \in DOMAIN d, UpTo(d, f), NEW x, NEW e \in Entries(d)
  PROVE  Journal!Precedes(e, <<f, Len(d[f]) + 1, x>>)
<1>1. PICK g \in DOMAIN d : \E k \in 1..Len(d[g]) : e = <<g, k, d[g][k]>>
  BY EntriesByIndex
<1>2. PICK k \in 1..Len(d[g]) : e = <<g, k, d[g][k]>>
  BY <1>1
<1>3. e[1] = g /\ e[2] = k
  BY <1>2
<1>4. Len(d[f]) \in Nat
  BY DEF TypedDisk
<1>5. CASE g = f
  BY <1>2, <1>3, <1>4, <1>5 DEF Journal!Precedes
<1>6. CASE Before(g, f)
  BY <1>3, <1>6 DEF Journal!Precedes, Before
<1> QED BY <1>5, <1>6 DEF UpTo

\* handle_write_file, by what it does to the entries.
LEMMA HandlerEntries ==
  ASSUME LogInv, RunHandler
  PROVE  /\ \A e \in Entries(disk') : e \in Entries(disk) \/ e[3] = Head(queue)
         /\ failed' \in BOOLEAN /\ (failed => failed')
         /\ ~failed => \/ failed' /\ Entries(disk') = Entries(disk)
                       \/ \E e \in Entries(disk') :
                            /\ e[3] = Head(queue) /\ Entries(disk') = Entries(disk) \cup {e}
                            /\ \A d \in Entries(disk) : Journal!Precedes(d, e)
<1>0. /\ TypeOK /\ Writing /\ queue # <<>> /\ queue \in Seq(Line) /\ StreamInv /\ FilesInv
      /\ handle_write_file
  BY DEF LogInv, RunHandler, TypeOK, Writing
<1> DEFINE x    == Head(queue)
           new  == today # m_cur_day
           sn   == IF new THEN 0 ELSE m_cur_sn
           line == IF new THEN 0 ELSE m_cur_line
           size == IF new THEN 0 ELSE m_cur_size
           full == Full(line, size)
           cur  == <<today, sn>>
           nxt  == <<today, sn + 1>>
<1>1. x \in Line
  BY <1>0, IdsTail
<1>2. /\ today \in Nat /\ m_cur_day \in 1..today /\ sn \in Nat /\ failed \in BOOLEAN /\ MaxDay \in Nat
      /\ cur[1] = today /\ cur[2] = sn /\ nxt[1] = today /\ nxt[2] = sn + 1 /\ cur \in (1..MaxDay) \X Nat
  <2>1. MaxDay \in Nat
    BY LogAssumption
  <2>2. today \in 1..MaxDay /\ m_cur_day \in 1..today /\ failed \in BOOLEAN /\ m_cur_sn \in Nat
    BY <1>0 DEF TypeOK, StreamInv
  <2>3. sn \in Nat
    BY <2>2
  <2> HIDE DEF sn
  <2> QED BY <2>1, <2>2, <2>3
<1>3. PICK now \in IF new THEN Opened(disk, <<today, 0>>) ELSE {Files(ofstream_, disk)} :
      \E after \in IF full THEN Opened(Written(now, x).disk, <<today, sn + 1>>)
                           ELSE {Written(now, x)} :
          /\ ofstream_' = after.stream /\ disk' = after.disk
          /\ failed' = (failed \/ ~now.stream.ok \/ ~after.stream.ok)
  BY <1>0 DEF handle_write_file
<1>4. PICK after \in IF full THEN Opened(Written(now, x).disk, nxt) ELSE {Written(now, x)} :
          /\ disk' = after.disk
          /\ failed' = (failed \/ ~now.stream.ok \/ ~after.stream.ok)
  BY <1>3
<1>5. TypedDisk(disk) /\ (~failed => UpTo(disk, Current))
  BY <1>0 DEF FilesInv, LastFile, UpTo
\* The file of the day is open.
<1>6. /\ now = Files(now.stream, now.disk) /\ TypedDisk(now.disk)
      /\ Entries(now.disk) \subseteq Entries(disk)
      /\ ~failed => Entries(now.disk) = Entries(disk) /\ UpTo(now.disk, cur)
      /\ now.stream.ok => now.stream.file = cur /\ cur \in DOMAIN now.disk
  <2>1. CASE new
    <3>1. cur = <<today, 0>> /\ now \in Opened(disk, cur)
      BY <1>3, <2>1
    <3>2. ~failed => \A g \in DOMAIN disk : Before(g, cur) /\ g # cur
      <4>1. ASSUME ~failed, NEW g \in DOMAIN disk PROVE Before(g, cur) /\ g # cur
        <5>1. g = Current \/ Before(g, Current)
          BY <1>5, <4>1 DEF UpTo
        <5>2. g[1] \in Nat /\ Current[1] = m_cur_day /\ m_cur_day < today
          BY <1>2, <1>5, <2>1 DEF TypedDisk, Current
        <5>3. g[1] < today
          BY <1>2, <5>1, <5>2 DEF Before
        <5> QED BY <1>2, <5>2, <5>3 DEF Before
      <4> QED BY <4>1
    <3> HIDE DEF cur, new
    <3>3. /\ now = Files(now.stream, now.disk)
          /\ now.stream.ok => now.stream.file = cur /\ now.disk = Created(disk, cur)
          /\ Entries(now.disk) \subseteq Entries(disk)
          /\ cur \notin DOMAIN disk => Entries(now.disk) = Entries(disk)
          /\ now.disk = disk \/ DOMAIN now.disk = DOMAIN disk \cup {cur}
      BY <3>1, OpenedEntries
    <3>4. ~failed => UpTo(now.disk, cur) /\ cur \notin DOMAIN disk
      BY <3>2, <3>3 DEF UpTo
    <3>5. now.stream.ok => cur \in DOMAIN now.disk
      <4>1. cur \in DOMAIN Created(disk, cur)
        BY DEF Created
      <4> QED BY <3>3, <4>1
    <3>6. TypedDisk(now.disk)
      <4>1. Within(disk) /\ cur[1] <= today /\ \A g \in DOMAIN disk : g[1] <= today
        BY <1>0, <1>2 DEF FilesInv
      <4>2. Ready(now.stream, now.disk, cur, 0, 0)
        BY <1>2, <1>5, <3>1, <4>1, CreateReady
      <4> QED BY <4>2 DEF Ready
    <3> QED BY <3>3, <3>4, <3>5, <3>6
  <2>2. CASE ~new
    <3>1. now = Files(ofstream_, disk) /\ now.stream = ofstream_ /\ now.disk = disk
      BY <1>3, <2>2 DEF Files
    <3>2. cur = Current
      BY <2>2 DEF Current
    <3>3. ofstream_.ok => ofstream_.file = cur /\ cur \in DOMAIN disk
      BY <1>0, <3>2 DEF StreamInv, Room
    <3> HIDE DEF cur, new
    <3> QED BY <1>5, <3>1, <3>2, <3>3
  <2> QED BY <2>1, <2>2
<1> DEFINE w == Written(now, x)
           E == <<cur, Len(now.disk[cur]) + 1, x>>
\* The line is written.
<1>7. /\ w.stream = now.stream /\ DOMAIN w.disk = DOMAIN now.disk
      /\ now.stream.ok => Entries(w.disk) = Entries(now.disk) \cup {E}
      /\ ~now.stream.ok => w.disk = now.disk
  <2> DEFINE st == now.stream
             d  == now.disk
  <2>1. /\ w.stream = st /\ (st.ok => w.disk = [d EXCEPT ![st.file] = Append(@, x)])
        /\ ~st.ok => w.disk = d
    <3>1. w = Written(Files(st, d), x)
      BY <1>6
    <3> HIDE DEF st, d, x, w
    <3> QED BY <3>1 DEF Written, Files
  <2>2. ASSUME st.ok PROVE Entries(w.disk) = Entries(d) \cup {E} /\ DOMAIN w.disk = DOMAIN d
    <3>1. w.disk = [d EXCEPT ![cur] = Append(@, x)] /\ cur \in DOMAIN d /\ d[cur] \in Seq(Line)
      BY <1>6, <2>1, <2>2 DEF TypedDisk
    <3> HIDE DEF w, d, cur, x
    <3>2. Entries([d EXCEPT ![cur] = Append(@, x)]) = Entries(d) \cup {<<cur, Len(d[cur]) + 1, x>>}
      BY <1>1, <3>1, EntriesWritten
    <3> QED BY <3>1, <3>2 DEF d
  <2> QED BY <2>1, <2>2
\* The file is left as it is, or the next one is opened.
<1>8. Entries(disk') \subseteq Entries(w.disk) /\ (~failed => Entries(disk') = Entries(w.disk))
  <2>1. CASE full
    <3>1. after \in Opened(w.disk, nxt)
      BY <1>4, <2>1
    <3>2. ~failed => nxt \notin DOMAIN w.disk
      <4>1. ~failed => UpTo(w.disk, cur)
        BY <1>6, <1>7 DEF UpTo
      <4>2. nxt # cur /\ ~Before(nxt, cur)
        BY <1>2 DEF Before
      <4> QED BY <4>1, <4>2 DEF UpTo
    <3> HIDE DEF w, nxt
    <3> QED BY <1>4, <3>1, <3>2, OpenedEntries
  <2>2. CASE ~full
    BY <1>4, <2>2
  <2> QED BY <2>1, <2>2
<1>9. now.stream.ok /\ ~failed => \A d \in Entries(disk) : Journal!Precedes(d, E)
  <2> DEFINE d == now.disk
  <2>1. now.stream.ok /\ ~failed => /\ TypedDisk(d) /\ cur \in DOMAIN d /\ UpTo(d, cur)
                                    /\ Entries(d) = Entries(disk)
    BY <1>6
  <2> HIDE DEF cur, x, d
  <2>2. now.stream.ok /\ ~failed => \A e \in Entries(d) : Journal!Precedes(e, <<cur, Len(d[cur]) + 1, x>>)
    BY <2>1, LastPlace
  <2> QED BY <2>1, <2>2 DEF d
<1>10. E[3] = x
  OBVIOUS
<1>11. failed' \in BOOLEAN /\ (failed => failed')
  BY <1>2, <1>4
<1> HIDE DEF E, w, x, cur, nxt, full
<1>12. CASE now.stream.ok
  <2>1. \A e \in Entries(disk') : e \in Entries(disk) \/ e[3] = x
    BY <1>6, <1>7, <1>8, <1>10, <1>12
  <2>2. ~failed => E \in Entries(disk') /\ Entries(disk') = Entries(disk) \cup {E}
    BY <1>6, <1>7, <1>8, <1>12
  <2> QED BY <1>9, <1>10, <1>11, <1>12, <2>1, <2>2 DEF x
<1>13. CASE ~now.stream.ok
  <2>1. failed' /\ Entries(disk') \subseteq Entries(disk) /\ (~failed => Entries(disk') = Entries(disk))
    BY <1>4, <1>6, <1>7, <1>8, <1>13
  <2> QED BY <1>11, <2>1
<1> QED BY <1>12, <1>13

\* init_log creates a file that is not there yet, or none.
LEMMA InitLogEntries ==
  ASSUME LogInv, NEW level \in Levels, init_log(level)
  PROVE  /\ UNCHANGED <<queue, accepted>> /\ Entries(disk') = Entries(disk)
         /\ failed' = failed \/ failed' = TRUE
<1>0. TypedDisk(disk) /\ failed \in BOOLEAN
  BY DEF LogInv, FilesInv, TypeOK
<1>1. UNCHANGED <<queue, accepted>> /\ (open_file_thread \/ OpenFails)
  BY DEF init_log
<1>2. CASE open_file_thread /\ ofstream_.file = NoFile
  <2> DEFINE f == <<today, FirstFree(today)>>
  <2>1. PICK fs \in Opened(disk, f) : disk' = fs.disk /\ failed' = (failed \/ ~fs.stream.ok)
    BY <1>2 DEF open_file_thread
  <2>2. f \notin DOMAIN disk
    BY <1>0, FreeNumber
  <2> HIDE DEF f
  <2>3. Entries(fs.disk) = Entries(disk)
    BY <2>1, <2>2, OpenedEntries
  <2> QED BY <1>0, <1>1, <2>1, <2>3
<1>3. CASE (open_file_thread /\ ofstream_.file # NoFile) \/ OpenFails
  <2>1. UNCHANGED <<disk, failed>>
    BY <1>3 DEF open_file_thread, OpenFails, files
  <2> QED BY <1>1, <2>1
<1> QED BY <1>1, <1>2, <1>3

LEMMA StepIsJournalStep ==
  ASSUME LogInv, [Next]_vars
  PROVE  [Journal!JNext]_(Journal!jvars)
<1>0. failed \in BOOLEAN
  BY DEF LogInv, TypeOK
<1>1. ASSUME UNCHANGED <<queue, disk, accepted, failed>> PROVE UNCHANGED Journal!jvars
  BY <1>1 DEF Journal!jvars
<1>2. ASSUME NEW level \in Levels, init_log(level) PROVE Journal!JSpoil \/ UNCHANGED Journal!jvars
  BY <1>2, InitLogEntries DEF Journal!JSpoil, Journal!jvars
<1>3. CASE close \/ close_joined
  BY <1>1, <1>3 DEF close, close_joined, files, history
<1>4. CASE Callers
  <2>1. ASSUME NEW c \in Caller, _log(c) \/ check(c) PROVE UNCHANGED Journal!jvars
    BY <1>1, <2>1 DEF _log, check, files, history
  <2>2. ASSUME NEW c \in Caller, NEW len \in Lengths, post(c, len) PROVE Journal!JPost
    BY <2>2 DEF post, files, Journal!JPost
  <2> QED BY <1>4, <2>1, <2>2 DEF Callers, Journal!JNext
<1>5. CASE RunHandler
  <2>1. Journal!Handles
    BY <1>5 DEF RunHandler, Journal!Handles
  <2>2. CASE failed
    BY <1>5, <2>1, <2>2, HandlerEntries DEF Journal!JScramble, Journal!JNext
  <2>3. CASE ~failed /\ failed' /\ Entries(disk') = Entries(disk)
    BY <2>1, <2>3 DEF Journal!JDrop, Journal!JNext
  <2>4. CASE ~failed /\ \E e \in Entries(disk') :
                            /\ e[3] = Head(queue) /\ Entries(disk') = Entries(disk) \cup {e}
                            /\ \A d \in Entries(disk) : Journal!Precedes(d, e)
    <3>0. failed' \in BOOLEAN
      BY <1>5, HandlerEntries
    <3>1. failed' \in {failed, TRUE}
      BY <1>0, <2>4, <3>0, Zenon
    <3> QED BY <2>1, <2>4, <3>1 DEF Journal!JStore, Journal!JNext
  <2> QED BY <1>5, <2>2, <2>3, <2>4, HandlerEntries
<1>6. CASE ThreadExits \/ Midnight
  BY <1>1, <1>6 DEF ThreadExits, Midnight, files, history
<1>7. CASE Restart
  BY <1>7 DEF Restart, Journal!JCrash, Journal!JNext
<1>8. CASE UNCHANGED vars
  BY <1>1, <1>8 DEF vars, files, history
<1> QED BY <1>2, <1>3, <1>4, <1>5, <1>6, <1>7, <1>8 DEF Next, Journal!JNext

\* log_t is a journal for any number of callers, lines, days and restarts: what
\* handle_write_file writes goes behind all lines on disk, and no rotation, open() or
\* restart moves or loses a line of it, unless a file could not be created before.
THEOREM LogImplementsJournal == Spec => ImplementsJournal
<1>1. Init => Journal!JInit
  <2> SUFFICES ASSUME Init PROVE Journal!JInit
    OBVIOUS
  <2>1. Entries(disk) = {}
    BY EntriesByIndex DEF Init
  <2> QED BY <2>1 DEF Init, Journal!JInit
<1> QED BY <1>1, StepIsJournalStep, LogInvariant, PTL DEF Spec, ImplementsJournal, Journal!JSpec
=============================================================================
