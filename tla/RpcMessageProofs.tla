-------------------------- MODULE RpcMessageProofs --------------------------
(***************************************************************************)
(* Framing and messages for any head size, any data, any number of frames  *)
(* and any way TCP cuts the stream: the messages posted are the frames     *)
(* sent, none is withheld but an empty one at the end of a chunk, heads    *)
(* describe their bodies and plain messages reach their handlers.          *)
(***************************************************************************)
EXTENDS RpcMessage, ListSeqsProofs

-----------------------------------------------------------------------------
(* The inductive invariant of the framing.                                 *)

\* The frames lie one behind the other on the wire, and their heads tell the truth.
Laid(l, z, s, w) ==
  /\ Len(z) = Len(l) /\ Len(s) = Len(l)
  /\ \A f \in 1..Len(l) :
       /\ l[f] = z[f]
       /\ s[f] + (HeadSize + z[f]) = IF f = Len(l) THEN Len(w) ELSE s[f + 1]
       /\ s[f] + (HeadSize + z[f]) <= Len(w)
       /\ \A i \in 0..HeadSize + z[f] - 1 : w[s[f] + 1 + i] = <<f, i>>
  /\ \A f, g \in 1..Len(l) : f < g => s[f] + (HeadSize + z[f]) <= s[g]

Layout == Laid(lens, sizes, starts, wire)

\* The frame that is being read, and where it starts or will start.
Reading  == Len(posted) + 1
ReadFrom == IF Len(posted) = Len(lens) THEN Len(wire) ELSE starts[Reading]

\* The fields of the reader are what the bytes of this frame read so far make of them.
Cursor ==
  /\ Len(posted) <= Len(lens)
  /\ pos = ReadFrom + m_msg_size /\ pos + left <= Len(wire)
  /\ m_head = [i \in HeadPos |-> IF i < m_msg_size THEN <<Reading, i>> ELSE Zero]
  /\ m_body = [k \in 1..m_msg_size - HeadSize |-> <<Reading, HeadSize + k - 1>>]
  /\ Len(posted) = Len(lens) => m_msg_size = 0
  /\ Len(posted) < Len(lens) => \/ m_msg_size < FrameSize(Reading)
                                \/ m_msg_size = HeadSize /\ sizes[Reading] = 0
  /\ \A f \in 1..Len(posted) : posted[f] = Message(f)

FrameInv == TypeOK /\ Layout /\ Cursor

-----------------------------------------------------------------------------
(* The steps of the framing.                                               *)

\* One more frame, its bytes v behind the others.
LEMMA LaidAppend ==
  ASSUME NEW l \in Seq(Nat), NEW z \in Seq(Nat), NEW s \in Seq(Nat), NEW w \in Seq(Byte),
         NEW n \in Nat, NEW v \in Seq(Byte), Laid(l, z, s, w), Len(v) = HeadSize + n,
         \A k \in 1..HeadSize + n : v[k] = <<Len(l) + 1, k - 1>>
  PROVE  Laid(Append(l, n), Append(z, n), Append(s, Len(w)), w \o v)
<1>0. /\ Len(l) \in Nat /\ Len(w) \in Nat /\ HeadSize \in Nat /\ Len(z) = Len(l) /\ Len(s) = Len(l)
      /\ HeadSize + n \in Nat
  BY FramingAssumption DEF Laid
<1>1. PICK l2, z2, s2, w2, N, W, F : /\ l2 = Append(l, n) /\ z2 = Append(z, n) /\ s2 = Append(s, Len(w))
                                     /\ w2 = w \o v /\ N = Len(l) /\ W = Len(w) /\ F = HeadSize + n
  OBVIOUS
<1>2. Len(l2) = N + 1 /\ l2[N + 1] = n /\ \A f \in 1..N : l2[f] = l[f]
  BY <1>1, AppendFacts
<1>3. Len(z2) = N + 1 /\ z2[N + 1] = n /\ \A f \in 1..N : z2[f] = z[f]
  BY <1>0, <1>1, AppendFacts
<1>4. Len(s2) = N + 1 /\ s2[N + 1] = W /\ \A f \in 1..N : s2[f] = s[f]
  BY <1>0, <1>1, AppendFacts
<1>5. /\ Len(w2) = W + F /\ \A k \in 1..W : w2[k] = w[k]
      /\ \A k \in 1..F : w2[W + k] = <<N + 1, k - 1>>
  <2>1. /\ Len(w \o v) = Len(w) + Len(v) /\ \A k \in 1..Len(w) : (w \o v)[k] = w[k]
        /\ \A k \in 1..Len(v) : (w \o v)[Len(w) + k] = v[k]
    <3>1. Len(w \o v) = Len(w) + Len(v)
      <4>1. \A a, b \in Seq(Byte) : Len(a \o b) = Len(a) + Len(b)
        BY ConcatFacts
      <4> QED BY <4>1, Zenon
    <3>2. \A k \in 1..Len(w) : (w \o v)[k] = w[k]
      OBVIOUS
    <3>3. \A k \in 1..Len(v) : (w \o v)[Len(w) + k] = v[k]
      OBVIOUS
    <3> QED BY <3>1, <3>2, <3>3, Zenon
  <2>2. Len(v) = F /\ \A k \in 1..F : v[k] = <<N + 1, k - 1>>
    BY <1>1
  <2> QED BY <1>1, <2>1, <2>2
<1>6. \A f \in 1..N : /\ s[f] \in Nat /\ z[f] \in Nat /\ l[f] = z[f]
                      /\ s[f] + (HeadSize + z[f]) = IF f = N THEN W ELSE s[f + 1]
                      /\ s[f] + (HeadSize + z[f]) <= W
                      /\ \A i \in 0..HeadSize + z[f] - 1 : w[s[f] + 1 + i] = <<f, i>>
  <2>1. \A f \in 1..N : s[f] \in Nat /\ z[f] \in Nat
    <3>1. N = Len(s) /\ N = Len(z)
      BY <1>0, <1>1
    <3>2. \A f \in 1..Len(s) : s[f] \in Nat
      OBVIOUS
    <3>3. \A f \in 1..Len(z) : z[f] \in Nat
      OBVIOUS
    <3> QED BY <3>1, <3>2, <3>3
  <2> QED BY <1>1, <2>1 DEF Laid
<1>7. \A f, g \in 1..N : f < g => s[f] + (HeadSize + z[f]) <= s[g]
  BY <1>0, <1>1 DEF Laid
<1>8. N \in Nat /\ W \in Nat /\ HeadSize \in Nat /\ F \in Nat /\ F = HeadSize + n /\ n \in Nat
  BY <1>0, <1>1
<1>9. ASSUME NEW f \in 1..N + 1
      PROVE  /\ l2[f] = z2[f]
             /\ s2[f] + (HeadSize + z2[f]) = IF f = N + 1 THEN W + F ELSE s2[f + 1]
             /\ s2[f] + (HeadSize + z2[f]) <= W + F
             /\ \A i \in 0..HeadSize + z2[f] - 1 : w2[s2[f] + 1 + i] = <<f, i>>
  <2>1. CASE f = N + 1
    <3>1. l2[f] = n /\ z2[f] = n /\ s2[f] = W
      BY <1>2, <1>3, <1>4, <2>1
    <3>2. ASSUME NEW i \in 0..HeadSize + n - 1 PROVE w2[W + 1 + i] = <<f, i>>
      <4>1. i + 1 \in 1..F /\ (i + 1) - 1 = i /\ W + (i + 1) = W + 1 + i
        BY <1>8
      <4>2. w2[W + (i + 1)] = <<N + 1, (i + 1) - 1>>
        BY <1>5, <4>1
      <4> QED BY <2>1, <4>1, <4>2
    <3>3. s2[f] + (HeadSize + z2[f]) = W + F /\ W + F <= W + F
      BY <1>8, <3>1
    <3>4. \A i \in 0..HeadSize + z2[f] - 1 : w2[s2[f] + 1 + i] = <<f, i>>
      BY <3>1, <3>2
    <3> QED BY <2>1, <3>1, <3>3, <3>4
  <2>2. CASE f # N + 1
    <3>1. f \in 1..N /\ f + 1 \in 1..N + 1 /\ (f = N \/ f + 1 \in 1..N)
      BY <1>8, <2>2
    <3>2. l2[f] = z[f] /\ z2[f] = z[f] /\ s2[f] = s[f] /\ z[f] \in Nat /\ s[f] \in Nat
      BY <1>2, <1>3, <1>4, <1>6, <3>1
    <3>3. s[f] + (HeadSize + z[f]) = s2[f + 1]
      BY <1>4, <1>6, <3>1
    <3>4. s[f] + (HeadSize + z[f]) <= W
      BY <1>6, <3>1
    <3>5. ASSUME NEW i \in 0..HeadSize + z[f] - 1 PROVE w2[s[f] + 1 + i] = <<f, i>>
      <4>1. s[f] + 1 + i \in 1..W
        <5>1. PICK a \in Nat, b \in Nat : a = s[f] /\ b = z[f]
          BY <3>2
        <5>2. a + (HeadSize + b) <= W /\ i \in 0..HeadSize + b - 1
          BY <3>4, <5>1
        <5>3. a + 1 + i \in 1..W
          BY <1>8, <5>2
        <5> QED BY <5>1, <5>3
      <4>2. w[s[f] + 1 + i] = <<f, i>>
        BY <1>6, <3>1
      <4> QED BY <1>5, <4>1, <4>2
    <3>6. s[f] + (HeadSize + z[f]) <= W + F
      <4>1. \A a, b, h \in Nat : a + (h + b) <= W => a + (h + b) <= W + F
        BY <1>8
      <4>2. HeadSize \in Nat /\ z[f] \in Nat /\ s[f] \in Nat
        BY <1>8, <3>2, Zenon
      <4> QED BY <3>4, <4>1, <4>2, Zenon
    <3> QED BY <2>2, <3>2, <3>3, <3>5, <3>6
  <2> QED BY <2>1, <2>2
<1>10. ASSUME NEW f \in 1..N + 1, NEW g \in 1..N + 1, f < g
       PROVE  s2[f] + (HeadSize + z2[f]) <= s2[g]
  <2>1. f \in 1..N /\ (g = N + 1 \/ g \in 1..N)
    BY <1>8, <1>10
  <2>2. z2[f] = z[f] /\ s2[f] = s[f]
    BY <1>3, <1>4, <2>1
  <2> QED BY <1>4, <1>6, <1>7, <1>10, <2>1, <2>2
<1>11. Laid(l2, z2, s2, w2)
  BY <1>2, <1>3, <1>4, <1>5, <1>9, <1>10 DEF Laid
<1> QED BY <1>1, <1>11

\* What the invariant says of the types of what the steps reckon with.
LEMMA FrameFacts ==
  ASSUME FrameInv
  PROVE  /\ Len(lens) \in Nat /\ Len(sizes) = Len(lens) /\ Len(starts) = Len(lens)
         /\ Len(wire) \in Nat /\ Len(posted) \in Nat /\ Len(posted) <= Len(lens)
         /\ HeadSize \in Nat /\ HeadSize > 0 /\ pos \in Nat /\ left \in Nat /\ m_msg_size \in Nat
         /\ \A f \in 1..Len(lens) : sizes[f] \in Nat /\ starts[f] \in Nat
         /\ Reading = Len(posted) + 1 /\ Reading \in Nat
         /\ Len(posted) < Len(lens) => Reading \in 1..Len(lens)
<1>1. /\ lens \in Seq(Nat) /\ sizes \in Seq(Nat) /\ starts \in Seq(Nat) /\ wire \in Seq(Byte)
      /\ pos \in Nat /\ left \in Nat /\ m_msg_size \in Nat
      /\ posted \in Seq([head : [HeadPos -> Byte], body : Seq(Byte)])
  BY DEF FrameInv, TypeOK
<1>2. /\ Len(lens) \in Nat /\ Len(sizes) \in Nat /\ Len(starts) \in Nat /\ Len(wire) \in Nat
      /\ Len(posted) \in Nat
  BY <1>1
<1>3. Len(sizes) = Len(lens) /\ Len(starts) = Len(lens) /\ Len(posted) <= Len(lens)
  BY DEF FrameInv, Layout, Laid, Cursor
<1>4. \A f \in 1..Len(lens) : sizes[f] \in Nat /\ starts[f] \in Nat
  BY <1>1, <1>3
<1>5. HeadSize \in Nat /\ HeadSize > 0
  BY FramingAssumption
<1> QED BY <1>1, <1>2, <1>3, <1>4, <1>5 DEF Reading

LEMMA FrameInitInv == Init => FrameInv
<1> SUFFICES ASSUME Init PROVE FrameInv
  OBVIOUS
<1>1. /\ lens = <<>> /\ sizes = <<>> /\ starts = <<>> /\ wire = <<>> /\ pos = 0 /\ left = 0
      /\ m_msg_size = 0 /\ m_head = NoHead /\ m_body = <<>> /\ posted = <<>>
  BY DEF Init
<1>2. TypeOK
  <2>1. NoHead \in [HeadPos -> Byte]
    BY DEF NoHead, Zero, Byte
  <2> QED BY <1>1, <2>1 DEF TypeOK
<1>3. Layout
  BY <1>1 DEF Layout, Laid
<1>4. Cursor
  <2>1. \A i \in HeadPos : ~(i < 0)
    BY FramingAssumption DEF HeadPos
  <2>2. m_head = [i \in HeadPos |-> IF i < m_msg_size THEN <<Reading, i>> ELSE Zero]
    BY <1>1, <2>1 DEF NoHead
  <2>3. m_body = [k \in 1..m_msg_size - HeadSize |-> <<Reading, HeadSize + k - 1>>]
    <3>1. 1..m_msg_size - HeadSize = {}
      BY <1>1, FramingAssumption
    <3> QED BY <1>1, <3>1
  <2>4. pos = ReadFrom + m_msg_size
    BY <1>1 DEF ReadFrom
  <2> QED BY <1>1, <2>2, <2>3, <2>4 DEF Cursor
<1> QED BY <1>2, <1>3, <1>4 DEF FrameInv

\* The peer's frame is laid behind the others; the reader's own does not change.
LEMMA SendInv ==
  ASSUME FrameInv, NEW n \in Nat, Send(n, n)
  PROVE  FrameInv'
<1> DEFINE v == [k \in 1..HeadSize + n |-> <<Len(lens) + 1, k - 1>>]
<1>0. TypeOK /\ Layout /\ Cursor
  BY DEF FrameInv
<1>1. /\ lens' = Append(lens, n) /\ sizes' = Append(sizes, n)
      /\ starts' = Append(starts, Len(wire)) /\ wire' = wire \o v
      /\ UNCHANGED <<pos, left, m_msg_size, m_head, m_body, posted>>
  BY DEF Send, partial
<1>2. /\ lens \in Seq(Nat) /\ sizes \in Seq(Nat) /\ starts \in Seq(Nat) /\ wire \in Seq(Byte)
  BY <1>0 DEF TypeOK
<1>3. /\ Len(lens) \in Nat /\ Len(sizes) = Len(lens) /\ Len(starts) = Len(lens)
      /\ Len(wire) \in Nat /\ Len(posted) \in Nat /\ Len(posted) <= Len(lens)
      /\ HeadSize \in Nat /\ HeadSize > 0 /\ pos \in Nat /\ left \in Nat /\ m_msg_size \in Nat
      /\ \A f \in 1..Len(lens) : sizes[f] \in Nat /\ starts[f] \in Nat
      /\ Reading = Len(posted) + 1 /\ Reading \in Nat
      /\ Len(posted) < Len(lens) => Reading \in 1..Len(lens)
  BY FrameFacts
<1>4. /\ v \in Seq(Byte) /\ Len(v) = HeadSize + n
      /\ \A k \in 1..HeadSize + n : v[k] = <<Len(lens) + 1, k - 1>>
  <2>1. HeadSize + n \in Nat /\ \A k \in 1..HeadSize + n : <<Len(lens) + 1, k - 1>> \in Byte
    BY <1>3 DEF Byte
  <2> QED BY <2>1
<1> HIDE DEF v
<1>5. /\ lens' \in Seq(Nat) /\ Len(lens') = Len(lens) + 1
  BY <1>1, <1>2, AppendFacts
<1>6. /\ sizes' \in Seq(Nat) /\ sizes'[Len(lens) + 1] = n
      /\ \A f \in 1..Len(lens) : sizes'[f] = sizes[f]
  <2>1. /\ Append(sizes, n) \in Seq(Nat) /\ Append(sizes, n)[Len(sizes) + 1] = n
        /\ \A f \in 1..Len(sizes) : Append(sizes, n)[f] = sizes[f]
    BY <1>2, AppendFacts
  <2> QED BY <1>1, <1>3, <2>1
<1>7. /\ starts' \in Seq(Nat) /\ starts'[Len(lens) + 1] = Len(wire)
      /\ \A f \in 1..Len(lens) : starts'[f] = starts[f]
  <2>1. /\ Append(starts, Len(wire)) \in Seq(Nat) /\ Append(starts, Len(wire))[Len(starts) + 1] = Len(wire)
        /\ \A f \in 1..Len(starts) : Append(starts, Len(wire))[f] = starts[f]
    BY <1>2, AppendFacts
  <2> QED BY <1>1, <1>3, <2>1
<1>8. wire' \in Seq(Byte) /\ Len(wire') = Len(wire) + (HeadSize + n)
  BY <1>1, <1>2, <1>4, ConcatFacts
<1>9. TypeOK'
  BY <1>0, <1>1, <1>5, <1>6, <1>7, <1>8 DEF TypeOK
<1>10. Layout'
  <2>1. Laid(Append(lens, n), Append(sizes, n), Append(starts, Len(wire)), wire \o v)
    BY <1>0, <1>2, <1>4, LaidAppend DEF Layout
  <2> QED BY <1>1, <2>1 DEF Layout
<1>11. Cursor'
  <2>1. Reading' = Reading
    BY <1>1 DEF Reading
  <2>2. ReadFrom' = ReadFrom
    <3>1. CASE Len(posted) = Len(lens)
      <4>1. ReadFrom = Len(wire)
        BY <3>1 DEF ReadFrom
      <4>2. Len(posted) # Len(lens) + 1 /\ Reading = Len(lens) + 1
        BY <1>3, <3>1
      <4>3. ReadFrom' = starts'[Reading]
        BY <1>1, <1>5, <2>1, <4>2 DEF ReadFrom
      <4> QED BY <1>7, <4>1, <4>2, <4>3
    <3>2. CASE Len(posted) # Len(lens)
      <4>1. Len(posted) # Len(lens) + 1 /\ Reading \in 1..Len(lens)
        BY <1>3, <3>2
      <4>2. ReadFrom' = starts'[Reading]
        BY <1>1, <1>5, <2>1, <4>1 DEF ReadFrom
      <4> QED BY <1>7, <3>2, <4>1, <4>2 DEF ReadFrom
    <3> QED BY <3>1, <3>2
  <2>3. \A f \in 1..Len(posted) : Message(f)' = Message(f)
    <3>1. \A f \in 1..Len(posted) : sizes'[f] = sizes[f]
      BY <1>3, <1>6
    <3> QED BY <3>1 DEF Message
  <2>4. m_msg_size < FrameSize(Reading)' \/ (m_msg_size = HeadSize /\ sizes'[Reading] = 0)
    <3>1. CASE Len(posted) = Len(lens)
      <4>1. m_msg_size = 0 /\ Reading = Len(lens) + 1
        BY <1>0, <1>3, <3>1 DEF Cursor
      <4>2. FrameSize(Reading)' = HeadSize + n
        BY <1>6, <2>1, <4>1 DEF FrameSize
      <4> QED BY <1>3, <4>1, <4>2
    <3>2. CASE Len(posted) # Len(lens)
      <4>1. Len(posted) < Len(lens) /\ Reading \in 1..Len(lens)
        BY <1>3, <3>2
      <4>2. FrameSize(Reading)' = FrameSize(Reading) /\ sizes'[Reading] = sizes[Reading]
        BY <1>6, <2>1, <4>1 DEF FrameSize
      <4> QED BY <1>0, <4>1, <4>2 DEF Cursor
    <3> QED BY <3>1, <3>2
  <2>5. pos + left <= Len(wire')
    <3>1. pos + left <= Len(wire)
      BY <1>0 DEF Cursor
    <3> QED BY <1>3, <1>8, <3>1
  <2>6. Len(posted) <= Len(lens') /\ Len(posted) # Len(lens')
    BY <1>3, <1>5
  <2> QED BY <1>0, <1>1, <2>1, <2>2, <2>3, <2>4, <2>5, <2>6 DEF Cursor
<1> QED BY <1>9, <1>10, <1>11 DEF FrameInv
LEMMA ReadCompleteInv ==
  ASSUME FrameInv, NEW k \in 1..BUFFER_SIZE, ReadComplete(k)
  PROVE  FrameInv'
<1>1. /\ pos + k <= Len(wire) /\ left' = k
      /\ UNCHANGED <<lens, sizes, starts, wire, pos, m_msg_size, m_head, m_body, posted>>
  BY DEF ReadComplete, peer, partial
<1>2. k \in Nat
  BY FramingAssumption
<1>3. TypeOK'
  BY <1>1, <1>2 DEF FrameInv, TypeOK
<1>4. Layout'
  BY <1>1 DEF FrameInv, Layout
<1>5. Reading' = Reading /\ ReadFrom' = ReadFrom
  BY <1>1 DEF Reading, ReadFrom
<1>6. \A f : Message(f)' = Message(f) /\ FrameSize(f)' = FrameSize(f)
  BY <1>1 DEF Message, FrameSize
<1>7. Cursor'
  BY <1>1, <1>5, <1>6 DEF FrameInv, Cursor
<1> QED BY <1>3, <1>4, <1>7 DEF FrameInv

\* on_read has bytes to do: they are of the frame that is being read, the wire shows
\* them where its start says, and what is behind it is where the next one starts.
LEMMA ReadingFacts ==
  ASSUME FrameInv, left > 0
  PROVE  /\ Len(posted) < Len(lens) /\ Reading \in 1..Len(lens)
         /\ starts[Reading] \in Nat /\ sizes[Reading] \in Nat /\ lens[Reading] = sizes[Reading]
         /\ pos = starts[Reading] + m_msg_size
         /\ \A i \in 0..HeadSize + sizes[Reading] - 1 : wire[starts[Reading] + 1 + i] = <<Reading, i>>
         /\ starts[Reading] + (HeadSize + sizes[Reading])
              = IF Reading = Len(lens) THEN Len(wire) ELSE starts[Reading + 1]
         /\ m_msg_size < HeadSize + sizes[Reading] \/ (m_msg_size = HeadSize /\ sizes[Reading] = 0)
         /\ FrameSize(Reading) = HeadSize + sizes[Reading]
<1>0. Layout /\ Cursor
  BY DEF FrameInv
<1>1. /\ Len(lens) \in Nat /\ Len(wire) \in Nat /\ Len(posted) \in Nat /\ Len(posted) <= Len(lens)
      /\ pos \in Nat /\ left \in Nat /\ m_msg_size \in Nat
      /\ \A f \in 1..Len(lens) : sizes[f] \in Nat /\ starts[f] \in Nat
      /\ Len(posted) < Len(lens) => Reading \in 1..Len(lens)
  BY FrameFacts
<1>2. Len(posted) # Len(lens)
  <2> SUFFICES ASSUME Len(posted) = Len(lens) PROVE FALSE
    OBVIOUS
  <2>1. pos = Len(wire) + 0 /\ pos + left <= Len(wire)
    BY <1>0 DEF Cursor, ReadFrom
  <2> QED BY <1>1, <2>1
<1>3. Len(posted) < Len(lens) /\ Reading \in 1..Len(lens)
  BY <1>1, <1>2
<1>4. ReadFrom = starts[Reading]
  BY <1>2 DEF ReadFrom
<1>5. /\ pos = ReadFrom + m_msg_size
      /\ m_msg_size < FrameSize(Reading) \/ (m_msg_size = HeadSize /\ sizes[Reading] = 0)
  BY <1>0, <1>3 DEF Cursor
<1>6. /\ lens[Reading] = sizes[Reading]
      /\ \A i \in 0..HeadSize + sizes[Reading] - 1 : wire[starts[Reading] + 1 + i] = <<Reading, i>>
      /\ starts[Reading] + (HeadSize + sizes[Reading])
           = IF Reading = Len(lens) THEN Len(wire) ELSE starts[Reading + 1]
  BY <1>0, <1>3 DEF Layout, Laid
<1> QED BY <1>1, <1>3, <1>4, <1>5, <1>6 DEF FrameSize

LEMMA AtMostFacts ==
  ASSUME NEW a \in Nat, NEW b \in Nat
  PROVE  /\ AtMost(a, b) \in Nat /\ AtMost(a, b) <= a /\ AtMost(a, b) <= b
         /\ AtMost(a, b) = a \/ AtMost(a, b) = b
BY DEF AtMost

\* Part of a head: the bytes that arrived stand in their places, the others are zero.
LEMMA ReadHeadInv ==
  ASSUME FrameInv, left > 0, ~has_read_head_end_i, read_head_i, UNCHANGED peer
  PROVE  FrameInv'
<1>0. TypeOK /\ Layout /\ Cursor
  BY DEF FrameInv
<1>1. /\ Len(lens) \in Nat /\ Len(wire) \in Nat /\ Len(posted) \in Nat
      /\ HeadSize \in Nat /\ HeadSize > 0 /\ pos \in Nat /\ left \in Nat /\ m_msg_size \in Nat
      /\ Reading \in Nat
  BY FrameFacts
<1>2. m_msg_size < HeadSize /\ HeadSize - m_msg_size \in Nat
  BY <1>1 DEF has_read_head_end_i
<1>3. PICK R, st, z, t : /\ R = Reading /\ st = starts[Reading] /\ z = sizes[Reading]
                         /\ t = AtMost(HeadSize - m_msg_size, left)
  OBVIOUS
<1>4. /\ t \in Nat /\ t <= HeadSize - m_msg_size /\ t <= left
  BY <1>1, <1>2, <1>3, AtMostFacts
<1>5. /\ Len(posted) < Len(lens) /\ R \in 1..Len(lens) /\ st \in Nat /\ z \in Nat
      /\ pos = st + m_msg_size /\ FrameSize(Reading) = HeadSize + z
      /\ \A i \in 0..HeadSize + z - 1 : wire[st + 1 + i] = <<R, i>>
  BY <1>3, ReadingFacts
<1>6. /\ m_head' = [i \in HeadPos |-> IF i >= m_msg_size /\ i < m_msg_size + t
                                      THEN wire[pos + 1 + i - m_msg_size] ELSE m_head[i]]
      /\ m_msg_size' = m_msg_size + t /\ left' = left - t /\ pos' = pos + t
      /\ UNCHANGED <<lens, sizes, starts, wire, m_body, posted>>
  BY <1>3 DEF read_head_i, peer
<1>7. m_msg_size' \in Nat /\ left' \in Nat /\ pos' \in Nat /\ m_msg_size' <= HeadSize
  BY <1>1, <1>4, <1>6
<1>8. m_head' = [i \in HeadPos |-> IF i < m_msg_size + t THEN <<R, i>> ELSE Zero]
  <2>1. ASSUME NEW i \in HeadPos
        PROVE  (IF i >= m_msg_size /\ i < m_msg_size + t
                THEN wire[pos + 1 + i - m_msg_size] ELSE m_head[i])
                 = IF i < m_msg_size + t THEN <<R, i>> ELSE Zero
    <3>1. i \in Nat /\ i < HeadSize
      BY <1>1 DEF HeadPos
    <3>2. m_head[i] = IF i < m_msg_size THEN <<R, i>> ELSE Zero
      BY <1>0, <1>3 DEF Cursor
    <3>3. i \in 0..HeadSize + z - 1 /\ pos + 1 + i - m_msg_size = st + 1 + i
      BY <1>1, <1>5, <3>1
    <3>4. wire[pos + 1 + i - m_msg_size] = <<R, i>>
      BY <1>5, <3>3
    <3>5. i < m_msg_size => i < m_msg_size + t
      BY <1>1, <1>4, <3>1
    <3>6. i >= m_msg_size \/ i < m_msg_size
      BY <1>1, <3>1
    <3> QED BY <3>2, <3>4, <3>5, <3>6
  <2> QED BY <1>6, <2>1
<1>9. TypeOK'
  <2>1. \A i \in HeadPos : <<R, i>> \in Byte /\ Zero \in Byte
    BY <1>1, <1>3 DEF HeadPos, Byte, Zero
  <2>2. m_head' \in [HeadPos -> Byte]
    BY <1>8, <2>1
  <2> QED BY <1>0, <1>6, <1>7, <2>2 DEF TypeOK
<1>10. Layout'
  BY <1>0, <1>6 DEF Layout
<1>11. Reading' = Reading /\ ReadFrom' = ReadFrom
  BY <1>6 DEF Reading, ReadFrom
<1>12. \A f : Message(f)' = Message(f) /\ FrameSize(f)' = FrameSize(f)
  BY <1>6 DEF Message, FrameSize
<1>13. Cursor'
  <2>1. pos' = ReadFrom + m_msg_size' /\ pos' + left' <= Len(wire)
    <3>1. pos = ReadFrom + m_msg_size /\ pos + left <= Len(wire)
      BY <1>0 DEF Cursor
    <3>2. ReadFrom = st
      BY <1>1, <1>3, <1>5 DEF ReadFrom
    <3>3. pos' = pos + t /\ m_msg_size' = m_msg_size + t /\ left' = left - t
      BY <1>6
    <3>4. pos + t = st + (m_msg_size + t) /\ (pos + t) + (left - t) = pos + left
      BY <1>1, <1>4, <1>5
    <3> QED BY <3>1, <3>2, <3>3, <3>4
  <2>2. m_body' = [k \in 1..m_msg_size' - HeadSize |-> <<Reading, HeadSize + k - 1>>]
    <3>0. \A a \in Nat : a <= HeadSize => 1..a - HeadSize = {}
      BY <1>1
    <3>1. 1..m_msg_size - HeadSize = {} /\ 1..m_msg_size' - HeadSize = {}
      <4>1. m_msg_size <= HeadSize
        BY <1>1, <1>2
      <4> QED BY <1>1, <1>7, <3>0, <4>1, Zenon
    <3>2. m_body = [k \in 1..m_msg_size - HeadSize |-> <<Reading, HeadSize + k - 1>>]
      BY <1>0 DEF Cursor
    <3> QED BY <1>6, <3>1, <3>2
  <2>3. m_msg_size' < FrameSize(Reading) \/ (m_msg_size' = HeadSize /\ sizes[Reading] = 0)
    BY <1>1, <1>3, <1>5, <1>7
  <2>4. Len(posted) # Len(lens) /\ Len(posted) <= Len(lens)
    BY <1>1, <1>5
  <2>5. m_head' = [i \in HeadPos |-> IF i < m_msg_size' THEN <<Reading, i>> ELSE Zero]
    BY <1>3, <1>6, <1>8
  <2> QED BY <1>0, <1>6, <1>11, <1>12, <2>1, <2>2, <2>3, <2>4, <2>5 DEF Cursor
<1> QED BY <1>9, <1>10, <1>13 DEF FrameInv

\* The first n bytes of frame R stand on the wire w behind st others; the first n bytes
\* of its body.
OnWire(w, st, R, n) == \A i \in 0..n - 1 : w[st + 1 + i] = <<R, i>>
BodyOf(R, n)        == [k \in 1..n |-> <<R, HeadSize + k - 1>>]

LEMMA BodyFacts ==
  ASSUME NEW R \in Nat, NEW n \in Nat
  PROVE  /\ BodyOf(R, n) \in Seq(Byte) /\ Len(BodyOf(R, n)) = n
         /\ \A k \in 1..n : BodyOf(R, n)[k] = <<R, HeadSize + k - 1>>
<1>0. HeadSize \in Nat
  BY FramingAssumption
<1>1. \A k \in 1..n : <<R, HeadSize + k - 1>> \in Byte
  <2> TAKE k \in 1..n
  <2>1. HeadSize + k - 1 \in Nat
    BY <1>0
  <2> QED BY <2>1 DEF Byte
<1>2. BodyOf(R, n) \in [1..n -> Byte]
  BY <1>1, Zenon DEF BodyOf
<1>3. \A e \in [1..n -> Byte] : e \in Seq(Byte) /\ Len(e) = n
  OBVIOUS
<1>4. \A k \in 1..n : BodyOf(R, n)[k] = <<R, HeadSize + k - 1>>
  BY Zenon DEF BodyOf
<1> QED BY <1>2, <1>3, <1>4, Zenon

LEMMA IsBody ==
  ASSUME NEW R \in Nat, NEW n \in Nat, NEW u \in Seq(Byte), Len(u) = n,
         \A k \in 1..n : u[k] = <<R, HeadSize + k - 1>>
  PROVE  u = BodyOf(R, n)
<1>1. HeadSize \in Nat
  BY FramingAssumption
<1>2. PICK b : b = BodyOf(R, n)
  OBVIOUS
<1>3. b \in Seq(Byte) /\ Len(b) = n /\ \A k \in 1..n : b[k] = <<R, HeadSize + k - 1>>
  BY <1>2, BodyFacts
<1>4. \A k \in 1..n : b[k] = u[k]
  BY <1>3
<1>5. \A p, q \in Seq(Byte) : Len(p) = Len(q) /\ (\A k \in 1..Len(p) : p[k] = q[k]) => p = q
  OBVIOUS
<1>6. b = u
  BY <1>3, <1>4, <1>5, Zenon
<1> QED BY <1>2, <1>6

\* More of a body: it is the bytes of its frame behind the head.
Grows(R, st, m, t, z, w, b, c, d) ==
  /\ R \in Nat /\ st \in Nat /\ m \in Nat /\ t \in Nat /\ z \in Nat
  /\ w \in Seq(Byte) /\ b \in Seq(Byte) /\ m >= HeadSize /\ m + t <= HeadSize + z
  /\ st + m + t <= Len(w) /\ c = st + m + 1 /\ d = st + m + t
  /\ OnWire(w, st, R, HeadSize + z) /\ b = BodyOf(R, m - HeadSize)

LEMMA BodyGrows ==
  ASSUME NEW R, NEW st, NEW m, NEW t, NEW z, NEW w, NEW b, NEW c, NEW d,
         Grows(R, st, m, t, z, w, b, c, d)
  PROVE  /\ b \o SubSeq(w, c, d) \in Seq(Byte) /\ Len(b \o SubSeq(w, c, d)) = m + t - HeadSize
         /\ b \o SubSeq(w, c, d) = BodyOf(R, m + t - HeadSize)
<1>0. /\ R \in Nat /\ st \in Nat /\ m \in Nat /\ t \in Nat /\ z \in Nat
      /\ w \in Seq(Byte) /\ b \in Seq(Byte) /\ m >= HeadSize /\ m + t <= HeadSize + z
      /\ st + m + t <= Len(w) /\ c = st + m + 1 /\ d = st + m + t
  BY DEF Grows
<1>1. /\ HeadSize \in Nat /\ HeadSize > 0 /\ m - HeadSize \in Nat
      /\ st + m + 1 \in Nat /\ st + m + t \in Nat /\ st + m + 1 >= 1 /\ st + m + 1 <= st + m + t + 1
      /\ (st + m + t) - (st + m + 1) + 1 = t
  BY <1>0, FramingAssumption
<1>2. PICK x : x = SubSeq(w, c, d)
  OBVIOUS
<1>3. c \in Nat /\ d \in Nat /\ 1 <= c /\ d <= Len(w) /\ c <= d + 1 /\ d - c + 1 = t
  BY <1>0, <1>1, <1>2
<1>4. x \in Seq(Byte) /\ Len(x) = t /\ \A i \in 1..t : x[i] = w[c + i - 1]
  BY <1>0, <1>2, <1>3, SubSeqFacts
<1>5. ASSUME NEW i \in 1..t PROVE x[i] = <<R, m + i - 1>>
  <2>1. m + i - 1 \in 0..(HeadSize + z) - 1 /\ c + i - 1 = st + 1 + (m + i - 1)
    BY <1>0, <1>1, <1>2
  <2>2. w[st + 1 + (m + i - 1)] = <<R, m + i - 1>>
    <3>1. \A j \in 0..(HeadSize + z) - 1 : w[st + 1 + j] = <<R, j>>
      BY Zenon DEF Grows, OnWire
    <3> QED BY <2>1, <3>1, Zenon
  <2> QED BY <1>4, <2>1, <2>2
<1>6. Len(b) = m - HeadSize /\ \A k \in 1..m - HeadSize : b[k] = <<R, HeadSize + k - 1>>
  BY <1>0, <1>1, BodyFacts DEF Grows
<1>7. PICK u : u = b \o x
  OBVIOUS
<1>8. /\ u \in Seq(Byte) /\ Len(u) = Len(b) + Len(x)
      /\ \A i \in 1..Len(b) : u[i] = b[i]
      /\ \A i \in 1..Len(x) : u[Len(b) + i] = x[i]
  <2>1. \A p, q \in Seq(Byte) : /\ p \o q \in Seq(Byte) /\ Len(p \o q) = Len(p) + Len(q)
                                /\ \A i \in 1..Len(p) : (p \o q)[i] = p[i]
                                /\ \A i \in 1..Len(q) : (p \o q)[Len(p) + i] = q[i]
    BY ConcatFacts
  <2> QED BY <1>0, <1>4, <1>7, <2>1, Zenon
<1>9. Len(u) = m + t - HeadSize /\ m + t - HeadSize \in Nat
  BY <1>0, <1>1, <1>4, <1>6, <1>8
<1>10. ASSUME NEW k \in 1..m + t - HeadSize PROVE u[k] = <<R, HeadSize + k - 1>>
  <2>1. CASE k <= m - HeadSize
    <3>1. k \in 1..m - HeadSize
      BY <1>0, <1>1, <2>1
    <3> QED BY <1>6, <1>8, <3>1
  <2>2. CASE k > m - HeadSize
    <3>1. PICK i : i = k - (m - HeadSize)
      OBVIOUS
    <3>2. i \in 1..t /\ k = (m - HeadSize) + i /\ m + i - 1 = HeadSize + k - 1
      BY <1>0, <1>1, <2>2, <3>1
    <3>3. u[(m - HeadSize) + i] = x[i]
      BY <1>4, <1>6, <1>8, <3>2
    <3> QED BY <1>5, <3>2, <3>3
  <2> QED BY <1>0, <1>1, <2>1, <2>2
<1>11. u = BodyOf(R, m + t - HeadSize)
  BY <1>0, <1>8, <1>9, <1>10, IsBody
<1> QED BY <1>0, <1>2, <1>7, <1>8, <1>9, <1>11

\* A complete head shows the length its frame has.
LEMMA HeadShows ==
  ASSUME FrameInv, left > 0, m_msg_size >= HeadSize
  PROVE  m_head = [i \in HeadPos |-> <<Reading, i>>] /\ HeadLens = {lens[Reading]}
<1>0. Cursor
  BY DEF FrameInv
<1>1. HeadSize \in Nat /\ HeadSize > 0 /\ m_msg_size \in Nat
  BY FrameFacts
<1>2. m_head = [i \in HeadPos |-> <<Reading, i>>]
  <2>1. \A i \in HeadPos : i < m_msg_size
    BY <1>1 DEF HeadPos
  <2> QED BY <1>0, <2>1 DEF Cursor
<1>3. Reading \in 1..Len(lens)
  BY ReadingFacts
<1>4. 0 \in HeadPos
  BY <1>1 DEF HeadPos
<1>5. m_head[0] = <<Reading, 0>>
  BY <1>2, <1>4, Zenon
<1>6. m_head[0][1] = Reading
  BY <1>5
<1> QED BY <1>2, <1>3, <1>6, Zenon DEF HeadLens

\* More of a body; the body that is full goes out with its head, and the next frame
\* begins where this one ends.
LEMMA ReadBodyInv ==
  ASSUME FrameInv, left > 0, has_read_head_end_i, NEW len \in HeadLens, read_body_i(len),
         UNCHANGED peer
  PROVE  FrameInv'
<1>0. TypeOK /\ Layout /\ Cursor
  BY DEF FrameInv
<1>1. /\ Len(lens) \in Nat /\ Len(wire) \in Nat /\ Len(posted) \in Nat
      /\ HeadSize \in Nat /\ HeadSize > 0 /\ pos \in Nat /\ left \in Nat /\ m_msg_size \in Nat
      /\ Reading = Len(posted) + 1 /\ Reading \in Nat
  BY FrameFacts
<1>2. m_msg_size >= HeadSize
  BY DEF has_read_head_end_i
<1>3. m_head = [i \in HeadPos |-> <<Reading, i>>] /\ len = lens[Reading]
  BY <1>2, HeadShows
<1>4. PICK st, z, t, body : /\ st = starts[Reading] /\ z = sizes[Reading]
                            /\ t = AtMost(HeadSize + len - m_msg_size, left)
                            /\ body = m_body \o SubSeq(wire, pos + 1, pos + t)
  OBVIOUS
<1>5. /\ Len(posted) < Len(lens) /\ Reading \in 1..Len(lens) /\ st \in Nat /\ z \in Nat /\ len = z
      /\ pos = st + m_msg_size /\ FrameSize(Reading) = HeadSize + z
      /\ st + (HeadSize + z) = IF Reading = Len(lens) THEN Len(wire) ELSE starts[Reading + 1]
      /\ m_msg_size < HeadSize + z \/ (m_msg_size = HeadSize /\ z = 0)
  BY <1>3, <1>4, ReadingFacts
<1>6. OnWire(wire, st, Reading, HeadSize + z)
  <2>1. HeadSize + z - 1 = (HeadSize + z) - 1
    BY <1>1, <1>5
  <2>2. \A i \in 0..HeadSize + z - 1 : wire[st + 1 + i] = <<Reading, i>>
    BY <1>4, ReadingFacts
  <2> QED BY <2>1, <2>2, Zenon DEF OnWire
<1>7. /\ t \in Nat /\ t <= HeadSize + z - m_msg_size /\ t <= left
  <2>1. HeadSize + z - m_msg_size \in Nat
    BY <1>1, <1>5
  <2> QED BY <1>1, <1>4, <1>5, <2>1, AtMostFacts
<1>8. m_msg_size + t <= HeadSize + z /\ pos + t <= Len(wire) /\ pos + left <= Len(wire)
  <2>1. pos + left <= Len(wire)
    BY <1>0 DEF Cursor
  <2> QED BY <1>1, <1>5, <1>7, <2>1
<1>9. m_body = BodyOf(Reading, m_msg_size - HeadSize)
  BY <1>0 DEF Cursor, BodyOf
<1>10. /\ body \in Seq(Byte) /\ Len(body) = m_msg_size + t - HeadSize
       /\ body = BodyOf(Reading, m_msg_size + t - HeadSize)
  <2>1. wire \in Seq(Byte) /\ m_body \in Seq(Byte) /\ st + m_msg_size + t <= Len(wire)
    BY <1>0, <1>1, <1>5, <1>8 DEF TypeOK
  <2>2. /\ Reading \in Nat /\ st \in Nat /\ m_msg_size \in Nat /\ t \in Nat /\ z \in Nat
        /\ m_msg_size >= HeadSize /\ m_msg_size + t <= HeadSize + z
        /\ pos + 1 = st + m_msg_size + 1 /\ pos + t = st + m_msg_size + t
    BY <1>1, <1>2, <1>5, <1>7, <1>8
  <2>3. /\ m_body \o SubSeq(wire, pos + 1, pos + t) \in Seq(Byte)
        /\ Len(m_body \o SubSeq(wire, pos + 1, pos + t)) = m_msg_size + t - HeadSize
        /\ m_body \o SubSeq(wire, pos + 1, pos + t) = BodyOf(Reading, m_msg_size + t - HeadSize)
    <3>1. Grows(Reading, st, m_msg_size, t, z, wire, m_body, pos + 1, pos + t)
      BY <1>6, <1>9, <2>1, <2>2, Zenon DEF Grows
    <3> QED BY <3>1, BodyGrows
  <2> QED BY <1>4, <2>3, Zenon
<1>11. /\ left' = left - t /\ pos' = pos + t /\ UNCHANGED <<lens, sizes, starts, wire>>
       /\ \/ /\ Len(body) = len
             /\ posted' = Append(posted, [head |-> m_head, body |-> body])
             /\ m_msg_size' = 0 /\ m_head' = NoHead /\ m_body' = <<>>
          \/ /\ Len(body) # len
             /\ m_msg_size' = m_msg_size + t /\ m_body' = body
             /\ UNCHANGED <<m_head, posted>>
  BY <1>4 DEF read_body_i, peer
<1>12. left' \in Nat /\ pos' \in Nat /\ pos' + left' = pos + left
  BY <1>1, <1>7, <1>11
<1>13. Layout'
  BY <1>0, <1>11 DEF Layout
<1>14. \A f : Message(f)' = Message(f) /\ FrameSize(f)' = FrameSize(f)
  BY <1>11 DEF Message, FrameSize
<1>15. CASE Len(body) = len
  <2>1. /\ posted' = Append(posted, [head |-> m_head, body |-> body])
        /\ m_msg_size' = 0 /\ m_head' = NoHead /\ m_body' = <<>>
    BY <1>11, <1>15
  <2>2. m_msg_size + t = HeadSize + z /\ m_msg_size + t - HeadSize = z
    BY <1>1, <1>5, <1>7, <1>10, <1>15
  <2>3. [head |-> m_head, body |-> body] = Message(Reading)
    BY <1>3, <1>4, <1>10, <2>2 DEF Message, BodyOf
  <2>4. /\ posted' \in Seq([head : [HeadPos -> Byte], body : Seq(Byte)])
        /\ Len(posted') = Len(posted) + 1 /\ posted'[Len(posted) + 1] = Message(Reading)
        /\ \A f \in 1..Len(posted) : posted'[f] = posted[f]
    <3>1. posted \in Seq([head : [HeadPos -> Byte], body : Seq(Byte)])
      BY <1>0 DEF TypeOK
    <3>2. [head |-> m_head, body |-> body] \in [head : [HeadPos -> Byte], body : Seq(Byte)]
      BY <1>0, <1>10 DEF TypeOK
    <3> QED BY <2>1, <2>3, <3>1, <3>2, AppendFacts
  <2>5. TypeOK'
    <3>1. m_head' \in [HeadPos -> Byte] /\ m_body' \in Seq(Byte) /\ m_msg_size' \in Nat
      BY <2>1 DEF NoHead, Zero, Byte
    <3> QED BY <1>0, <1>11, <1>12, <2>4, <3>1 DEF TypeOK
  <2>6. Cursor'
    <3>1. Reading' = Reading + 1 /\ Len(posted') <= Len(lens) /\ Len(posted') = Reading
      BY <1>1, <1>5, <2>4 DEF Reading
    <3>2. ReadFrom' = st + (HeadSize + z)
      BY <1>5, <1>11, <3>1 DEF ReadFrom
    <3>3. pos' = ReadFrom' + 0 /\ pos' + left' <= Len(wire)
      <4>1. pos + t = st + (HeadSize + z)
        BY <1>1, <1>5, <1>7, <2>2
      <4> QED BY <1>1, <1>5, <1>8, <1>11, <1>12, <3>2, <4>1
    <3>4. m_head' = [i \in HeadPos |-> IF i < 0 THEN <<Reading', i>> ELSE Zero]
      <4>1. \A i \in HeadPos : ~(i < 0)
        BY <1>1 DEF HeadPos
      <4> QED BY <2>1, <4>1 DEF NoHead
    <3>5. m_body' = [k \in 1..0 - HeadSize |-> <<Reading', HeadSize + k - 1>>]
      <4>1. 1..0 - HeadSize = {}
        BY <1>1
      <4> QED BY <2>1, <4>1
    <3>6. \A f \in 1..Len(posted') : posted'[f] = Message(f)
      <4> TAKE f \in 1..Len(posted')
      <4>1. f \in 1..Len(posted) \/ f = Len(posted) + 1
        BY <1>1, <2>4
      <4>2. \A g \in 1..Len(posted) : posted[g] = Message(g)
        BY <1>0 DEF Cursor
      <4> QED BY <1>1, <2>4, <4>1, <4>2
    <3>7. Len(posted') < Len(lens) => 0 < FrameSize(Reading')
      <4> SUFFICES ASSUME Len(posted') < Len(lens) PROVE 0 < FrameSize(Reading')
        OBVIOUS
      <4>1. Reading + 1 \in 1..Len(lens)
        BY <1>1, <1>5, <3>1
      <4>2. sizes[Reading + 1] \in Nat
        BY <4>1, FrameFacts
      <4>3. FrameSize(Reading') = HeadSize + sizes[Reading + 1]
        BY <3>1 DEF FrameSize
      <4> QED BY <1>1, <4>2, <4>3
    <3>8. FrameSize(Reading)' = FrameSize(Reading')
      BY <1>11 DEF FrameSize
    <3>9. \A f : Message(f)' = Message(f)
      BY <1>14
    <3> QED BY <1>11, <2>1, <3>1, <3>3, <3>4, <3>5, <3>6, <3>7, <3>8, <3>9 DEF Cursor
  <2> QED BY <1>13, <2>5, <2>6 DEF FrameInv
<1>16. CASE Len(body) # len
  <2>1. m_msg_size' = m_msg_size + t /\ m_body' = body /\ UNCHANGED <<m_head, posted>>
    BY <1>11, <1>16
  <2>2. m_msg_size + t < HeadSize + z /\ m_msg_size + t \in Nat
    <3>1. m_msg_size + t # HeadSize + z
      BY <1>1, <1>5, <1>7, <1>10, <1>16
    <3> QED BY <1>1, <1>5, <1>7, <1>8, <3>1
  <2>3. TypeOK'
    <3>1. m_msg_size' \in Nat /\ m_body' \in Seq(Byte) /\ UNCHANGED <<m_head, posted>>
      BY <1>10, <2>1, <2>2
    <3> QED BY <1>0, <1>11, <1>12, <3>1 DEF TypeOK
  <2>4. Cursor'
    <3>1. Reading' = Reading /\ ReadFrom' = ReadFrom /\ ReadFrom = st
      <4>1. Reading' = Reading /\ ReadFrom' = ReadFrom
        BY <1>11, <2>1 DEF Reading, ReadFrom
      <4>2. Len(posted) # Len(lens)
        BY <1>1, <1>5
      <4> QED BY <1>4, <4>1, <4>2 DEF ReadFrom
    <3>2. pos' = ReadFrom + m_msg_size' /\ pos' + left' <= Len(wire)
      <4>1. pos + t = st + (m_msg_size + t)
        BY <1>1, <1>5, <1>7
      <4> QED BY <1>8, <1>11, <1>12, <2>1, <3>1, <4>1
    <3>3. m_head' = [i \in HeadPos |-> IF i < m_msg_size' THEN <<Reading, i>> ELSE Zero]
      <4>1. \A i \in HeadPos : i < m_msg_size + t
        BY <1>1, <1>2, <1>7 DEF HeadPos
      <4> QED BY <1>3, <2>1, <4>1
    <3>4. m_body' = [k \in 1..m_msg_size' - HeadSize |-> <<Reading, HeadSize + k - 1>>]
      <4>1. m_msg_size' - HeadSize = m_msg_size + t - HeadSize
        BY <1>1, <1>7, <2>1
      <4> QED BY <1>10, <2>1, <4>1, Zenon DEF BodyOf
    <3>5. Len(posted) # Len(lens) /\ Len(posted) <= Len(lens)
      BY <1>1, <1>5
    <3>6. m_msg_size' < FrameSize(Reading)
      BY <1>5, <2>1, <2>2
    <3> QED BY <1>0, <1>11, <1>14, <2>1, <3>1, <3>2, <3>3, <3>4, <3>5, <3>6 DEF Cursor
  <2> QED BY <1>13, <2>3, <2>4 DEF FrameInv
<1> QED BY <1>15, <1>16

\* The reader's steps.
LEMMA ReadInv == FrameInv /\ Read => FrameInv'
<1> SUFFICES ASSUME FrameInv, Read PROVE FrameInv'
  OBVIOUS
<1>1. CASE \E k \in 1..BUFFER_SIZE : ReadComplete(k)
  BY <1>1, ReadCompleteInv
<1>2. CASE on_read
  <2>1. left > 0 /\ UNCHANGED peer
    BY <1>2 DEF on_read
  <2>2. CASE ~has_read_head_end_i /\ read_head_i
    BY <2>1, <2>2, ReadHeadInv
  <2>3. CASE has_read_head_end_i /\ \E len \in HeadLens : read_body_i(len)
    BY <2>1, <2>3, ReadBodyInv
  <2> QED BY <1>2, <2>2, <2>3 DEF on_read
<1> QED BY <1>1, <1>2 DEF Read

LEMMA FrameStutterInv == FrameInv /\ UNCHANGED vars => FrameInv'
<1> SUFFICES ASSUME FrameInv, UNCHANGED vars PROVE FrameInv'
  OBVIOUS
<1>1. UNCHANGED <<lens, sizes, starts, wire, pos, left, m_msg_size, m_head, m_body, posted>>
  BY DEF vars, peer, partial
<1>2. TypeOK'
  BY <1>1 DEF FrameInv, TypeOK
<1>3. Layout'
  BY <1>1 DEF FrameInv, Layout
<1>4. Reading' = Reading /\ ReadFrom' = ReadFrom
  BY <1>1 DEF Reading, ReadFrom
<1>5. \A f : Message(f)' = Message(f) /\ FrameSize(f)' = FrameSize(f)
  BY <1>1 DEF Message, FrameSize
<1>6. Cursor'
  BY <1>1, <1>4, <1>5 DEF FrameInv, Cursor
<1> QED BY <1>2, <1>3, <1>6 DEF FrameInv

\* What the invariant is for.
LEMMA FrameInvShows == FrameInv => DeliveredIntact /\ NothingWithheld
<1> SUFFICES ASSUME FrameInv PROVE DeliveredIntact /\ NothingWithheld
  OBVIOUS
<1>0. Layout /\ Cursor
  BY DEF FrameInv
<1>1. DeliveredIntact
  BY <1>0 DEF Cursor, DeliveredIntact
<1>2. ASSUME left = 0, NEW f \in 1..Len(lens), starts[f] + FrameSize(f) <= pos, ~(f <= Len(posted))
      PROVE  f = Len(posted) + 1 /\ sizes[f] = 0 /\ starts[f] + FrameSize(f) = pos
  <2>1. /\ Len(lens) \in Nat /\ Len(posted) \in Nat /\ HeadSize \in Nat /\ HeadSize > 0
        /\ pos \in Nat /\ m_msg_size \in Nat /\ Reading = Len(posted) + 1
        /\ \A g \in 1..Len(lens) : sizes[g] \in Nat /\ starts[g] \in Nat
    BY FrameFacts
  <2>2. Len(posted) < Len(lens) /\ Reading \in 1..Len(lens) /\ Reading <= f
    BY <1>2, <2>1
  <2>3. ReadFrom = starts[Reading]
    BY <2>1, <2>2 DEF ReadFrom
  <2>4. PICK a, b, c, d : a = starts[Reading] /\ b = sizes[Reading] /\ c = starts[f] /\ d = sizes[f]
    OBVIOUS
  <2>5. a \in Nat /\ b \in Nat /\ c \in Nat /\ d \in Nat
    BY <2>1, <2>2, <2>4
  <2>6. pos = a + m_msg_size /\ (m_msg_size < HeadSize + b \/ (m_msg_size = HeadSize /\ b = 0))
    BY <1>0, <2>2, <2>3, <2>4 DEF Cursor, FrameSize
  <2>7. c + (HeadSize + d) <= pos
    BY <1>2, <2>4 DEF FrameSize
  <2>8. Reading < f => a + (HeadSize + b) <= c
    BY <1>0, <2>2, <2>4 DEF Layout, Laid
  <2>9. ~(Reading < f)
    BY <2>1, <2>5, <2>6, <2>7, <2>8
  <2>10. f = Reading
    BY <2>1, <2>2, <2>9
  <2>11. a = c /\ b = d
    BY <2>4, <2>10
  <2>12. d = 0 /\ c + (HeadSize + d) = pos
    BY <2>1, <2>5, <2>6, <2>7, <2>11
  <2> QED BY <2>1, <2>4, <2>10, <2>12 DEF FrameSize
<1> QED BY <1>1, <1>2 DEF NothingWithheld

-----------------------------------------------------------------------------
(* zlib_util_t: what the loops of the compress functions come to.  Each    *)
(* loop is a function that the code's loop body defines by recursion; that *)
(* there is such a function is shown first, then what it returns, by the   *)
(* least number for which it would return something else.                  *)

\* The inner loop of compress(string) appends all that zlib makes.
LEMMA DrainingAll == \A z \in Nat : Draining[z] = z
<1> DEFINE P(d) == d = [z \in Nat |-> IF z < CHUNK THEN z ELSE CHUNK + d[z - CHUNK]]
<1>0. CHUNK \in Nat /\ CHUNK > 0
  BY MessageAssumption
<1>1. \E d : P(d)
  <2>1. PICK d : d = [z \in Nat |-> z]
    OBVIOUS
  <2>2. \A z \in Nat : z >= CHUNK => z - CHUNK \in Nat /\ d[z - CHUNK] = z - CHUNK /\ CHUNK + (z - CHUNK) = z
    BY <1>0, <2>1
  <2>3. \A z \in Nat : d[z] = IF z < CHUNK THEN z ELSE CHUNK + d[z - CHUNK]
    BY <1>0, <2>1, <2>2
  <2>4. P(d)
    BY <2>1, <2>3
  <2> QED BY <2>4
<1>2. P(Draining)
  <2>1. Draining = CHOOSE d : P(d)
    BY DEF Draining
  <2> HIDE DEF P
  <2> QED BY <1>1, <2>1
<1>3. \A z \in Nat : Draining[z] = IF z < CHUNK THEN z ELSE CHUNK + Draining[z - CHUNK]
  BY <1>2
<1> HIDE DEF P
<1> DEFINE T == {z \in Nat : Draining[z] # z}
<1> SUFFICES ASSUME T # {} PROVE FALSE
  OBVIOUS
<1>4. PICK x \in T : \A y \in T : x <= y
  <2>1. T \subseteq Nat
    OBVIOUS
  <2> HIDE DEF T
  <2> QED BY <2>1, LeastNatural
<1>5. x \in Nat /\ Draining[x] # x
  OBVIOUS
<1>6. ~(x < CHUNK)
  BY <1>3, <1>5
<1>7. x - CHUNK \in Nat /\ ~(x <= x - CHUNK)
  BY <1>0, <1>5, <1>6
<1>8. Draining[x - CHUNK] = x - CHUNK
  BY <1>4, <1>7
<1>9. Draining[x] = CHUNK + (x - CHUNK)
  BY <1>3, <1>5, <1>6, <1>8
<1> QED BY <1>0, <1>5, <1>9

\* The outer loop of compress(string) feeds the whole input.
LEMMA FeedingAll == \A n \in Nat : Feeding[[length |-> n, copied |-> 0]] = n
<1> DEFINE Upto(s) == s.copied + AtMost(CHUNK, s.length - s.copied)
           More(s) == [length |-> s.length, copied |-> Upto(s)]
           P(d) == d = [s \in Feed |-> IF Upto(s) = s.length THEN s.length ELSE d[More(s)]]
<1>0. CHUNK \in Nat /\ CHUNK > 0
  BY MessageAssumption
<1>1. ASSUME NEW s \in Feed
      PROVE  /\ s.length \in Nat /\ s.copied \in Nat
             /\ Upto(s) # s.length => /\ More(s) \in Feed /\ More(s).length = s.length
                                      /\ More(s).copied = s.copied + CHUNK
                                      /\ s.copied + CHUNK < s.length
  <2>1. s.length \in Nat /\ s.copied \in Nat
    BY DEF Feed
  <2>2. PICK a, b : a = s.length /\ b = s.copied
    OBVIOUS
  <2>3. b + AtMost(CHUNK, a - b) # a => /\ AtMost(CHUNK, a - b) = CHUNK /\ b + CHUNK < a
    BY <1>0, <2>1, <2>2 DEF AtMost
  <2>4. ASSUME Upto(s) # s.length PROVE Upto(s) = s.copied + CHUNK /\ s.copied + CHUNK < s.length
    BY <2>2, <2>3, <2>4
  <2>5. s.copied + CHUNK \in Nat
    BY <1>0, <2>1
  <2>6. ASSUME Upto(s) # s.length PROVE More(s) = [length |-> s.length, copied |-> s.copied + CHUNK]
    BY <2>4, <2>6
  <2> HIDE DEF More, Upto
  <2>7. [length |-> s.length, copied |-> s.copied + CHUNK] \in Feed
    BY <2>1, <2>5 DEF Feed
  <2> QED BY <2>1, <2>4, <2>6, <2>7
<1>2. \E d : P(d)
  <2>1. PICK d : d = [s \in Feed |-> s.length]
    OBVIOUS
  <2>2. \A s \in Feed : d[s] = IF Upto(s) = s.length THEN s.length ELSE d[More(s)]
    <3> HIDE DEF Upto, More
    <3> QED BY <1>1, <2>1
  <2>3. P(d)
    <3> HIDE DEF Upto, More
    <3> QED BY <2>1, <2>2
  <2> QED BY <2>3
<1>3. P(Feeding)
  <2>1. Feeding = CHOOSE d : P(d)
    BY Zenon DEF Feeding
  <2> HIDE DEF P
  <2> QED BY <1>2, <2>1
<1>4. \A s \in Feed : Feeding[s] = IF Upto(s) = s.length THEN s.length ELSE Feeding[More(s)]
  <2> HIDE DEF Upto, More
  <2> QED BY <1>3
<1> HIDE DEF P, Upto, More
<1> DEFINE T == {x \in Nat : \E s \in Feed : x = s.length - s.copied /\ Feeding[s] # s.length}
<1>5. T = {}
  <2> SUFFICES ASSUME T # {} PROVE FALSE
    OBVIOUS
  <2>1. PICK x \in T : \A y \in T : x <= y
    <3>1. T \subseteq Nat
      OBVIOUS
    <3> HIDE DEF T
    <3> QED BY <3>1, LeastNatural
  <2>2. PICK s \in Feed : x = s.length - s.copied /\ Feeding[s] # s.length
    OBVIOUS
  <2>3. /\ s.length \in Nat /\ s.copied \in Nat /\ More(s) \in Feed /\ More(s).length = s.length
        /\ More(s).copied = s.copied + CHUNK /\ s.copied + CHUNK < s.length
        /\ Feeding[s] = Feeding[More(s)]
    BY <1>1, <1>4, <2>2
  <2>4. PICK y : y = s.length - (s.copied + CHUNK)
    OBVIOUS
  <2>5. y \in Nat /\ ~(x <= y)
    BY <1>0, <2>2, <2>3, <2>4
  <2>6. y \in T
    BY <2>2, <2>3, <2>4, <2>5
  <2> QED BY <2>1, <2>5, <2>6
<1>6. ASSUME NEW n \in Nat PROVE Feeding[[length |-> n, copied |-> 0]] = n
  <2>1. PICK s : s = [length |-> n, copied |-> 0]
    OBVIOUS
  <2>2. s \in Feed /\ s.length = n /\ s.copied = 0 /\ n - 0 \in Nat
    BY <2>1 DEF Feed
  <2>3. Feeding[s] = s.length
    BY <1>5, <2>2
  <2> QED BY <2>1, <2>2, <2>3
<1> QED BY <1>6

-----------------------------------------------------------------------------
(* The loop of the buffer variant of compress: no formula says what it     *)
(* returns, so that the function is built from the paths of its states.    *)

\* The turn leaves room in the buffer, which ends the loop; its result; the state after
\* a turn that did not.
Ends(s)    == AtMost(s.left, s.room) < s.room
Result(s)  == [len |-> s.used + AtMost(s.left, s.room), whole |-> s.used + s.room <= s.size]
Doubled(s) == [left |-> IF s.left - AtMost(s.left, s.room) = 0 THEN FlushMarker
                        ELSE s.left - AtMost(s.left, s.room),
               size |-> 2 * s.size, used |-> s.used + AtMost(s.left, s.room), room |-> s.size]

\* n turns lead from s to t, none of them the last.
Turns(s, t, n, p) ==
  /\ p \in [0..n -> Deflation] /\ p[0] = s /\ p[n] = t
  /\ \A i \in 0..n - 1 : ~Ends(p[i]) /\ p[i + 1] = Doubled(p[i])

\* The results s leads to, and one of them.
Results(s) ==
  {Result(t) : t \in {u \in Deflation : Ends(u) /\ \E n \in Nat : \E p : Turns(s, u, n, p)}}
OneOf(S)   == CHOOSE r : r \in S

LEMMA DoubledType == \A s \in Deflation : Doubled(s) \in Deflation
<1> SUFFICES ASSUME NEW s \in Deflation PROVE Doubled(s) \in Deflation
  OBVIOUS
<1>1. s.left \in Nat /\ s.size \in Nat /\ s.used \in Nat /\ s.room \in Nat
  BY DEF Deflation
<1>2. PICK k : k = AtMost(s.left, s.room)
  OBVIOUS
<1>3. k \in Nat /\ k <= s.left
  BY <1>1, <1>2, AtMostFacts
<1>4. PICK l : l = IF s.left - k = 0 THEN FlushMarker ELSE s.left - k
  OBVIOUS
<1>5. l \in Nat /\ 2 * s.size \in Nat /\ s.used + k \in Nat
  BY <1>1, <1>3, <1>4, MessageAssumption
<1>6. Doubled(s) = [left |-> l, size |-> 2 * s.size, used |-> s.used + k, room |-> s.size]
  BY <1>2, <1>4 DEF Doubled
<1> QED BY <1>1, <1>5, <1>6 DEF Deflation

\* The last turn leads to its own result only.
LEMMA ResultsOfLast ==
  ASSUME NEW s \in Deflation, Ends(s)
  PROVE  Results(s) = {Result(s)}
<1>1. ASSUME NEW t \in Deflation, NEW n \in Nat, NEW p, Turns(s, t, n, p)
      PROVE  t = s
  <2>1. n = 0
    <3> SUFFICES ASSUME n # 0 PROVE FALSE
      OBVIOUS
    <3>1. 0 \in 0..n - 1
      OBVIOUS
    <3> QED BY <1>1, <3>1 DEF Turns
  <2> QED BY <1>1, <2>1 DEF Turns
<1>2. Turns(s, s, 0, [i \in 0..0 |-> s])
  <2>1. 0..0 - 1 = {} /\ 0 \in 0..0
    OBVIOUS
  <2>2. [i \in 0..0 |-> s] \in [0..0 -> Deflation] /\ [i \in 0..0 |-> s][0] = s
    BY <2>1
  <2> QED BY <2>1, <2>2 DEF Turns
<1>3. Result(s) \in Results(s)
  BY <1>2 DEF Results
<1>4. \A r \in Results(s) : r = Result(s)
  BY <1>1 DEF Results
<1> QED BY <1>3, <1>4

\* Any other leads where the next one leads.
LEMMA ResultsOfOther ==
  ASSUME NEW s \in Deflation, ~Ends(s)
  PROVE  Results(s) = Results(Doubled(s))
<1>0. Doubled(s) \in Deflation
  BY DoubledType
<1>1. ASSUME NEW t \in Deflation, Ends(t), NEW n \in Nat, NEW p, Turns(s, t, n, p)
      PROVE  \E m \in Nat : \E q : Turns(Doubled(s), t, m, q)
  <2>0. /\ p \in [0..n -> Deflation] /\ p[0] = s /\ p[n] = t
        /\ \A i \in 0..n - 1 : ~Ends(p[i]) /\ p[i + 1] = Doubled(p[i])
    BY <1>1 DEF Turns
  <2>1. n # 0
    BY <1>1, <2>0
  <2>2. PICK m, q : m = n - 1 /\ q = [i \in 0..m |-> p[i + 1]]
    OBVIOUS
  <2>3. m \in Nat /\ m + 1 = n /\ 0 \in 0..n - 1 /\ 0 \in 0..m /\ m \in 0..m
    BY <2>1, <2>2
  <2>4. q[0] = Doubled(s) /\ q[m] = t
    <3>1. q[0] = p[0 + 1] /\ q[m] = p[m + 1]
      BY <2>2, <2>3, Zenon
    <3>2. p[0 + 1] = Doubled(p[0])
      BY <2>0, <2>3
    <3> QED BY <2>0, <2>3, <3>1, <3>2
  <2>5. ASSUME NEW i \in 0..m PROVE p[i + 1] \in Deflation
    <3>1. i + 1 \in 0..n
      BY <2>3
    <3> QED BY <2>0, <3>1
  <2>6. q \in [0..m -> Deflation]
    BY <2>2, <2>5
  <2>7. ASSUME NEW i \in 0..m - 1 PROVE ~Ends(q[i]) /\ q[i + 1] = Doubled(q[i])
    <3>1. i \in 0..m /\ i + 1 \in 0..m /\ i + 1 \in 0..n - 1
      BY <2>3
    <3>2. q[i] = p[i + 1] /\ q[i + 1] = p[(i + 1) + 1]
      BY <2>2, <3>1, Zenon
    <3>3. ~Ends(p[i + 1]) /\ p[(i + 1) + 1] = Doubled(p[i + 1])
      BY <2>0, <3>1, Zenon
    <3> QED BY <3>2, <3>3
  <2>8. Turns(Doubled(s), t, m, q)
    BY <2>4, <2>6, <2>7 DEF Turns
  <2> QED BY <2>3, <2>8
<1>2. ASSUME NEW t \in Deflation, NEW m \in Nat, NEW q, Turns(Doubled(s), t, m, q)
      PROVE  \E n \in Nat : \E p : Turns(s, t, n, p)
  <2>0. /\ q \in [0..m -> Deflation] /\ q[0] = Doubled(s) /\ q[m] = t
        /\ \A i \in 0..m - 1 : ~Ends(q[i]) /\ q[i + 1] = Doubled(q[i])
    BY <1>2 DEF Turns
  <2>1. PICK n, p : n = m + 1 /\ p = [i \in 0..n |-> IF i = 0 THEN s ELSE q[i - 1]]
    OBVIOUS
  <2>2. n \in Nat /\ n # 0 /\ n - 1 = m /\ 0 \in 0..n /\ n \in 0..n
    BY <2>1
  <2>3. p[0] = s /\ p[n] = t
    <3>1. p[n] = q[n - 1]
      BY <2>1, <2>2
    <3> QED BY <2>0, <2>1, <2>2, <3>1
  <2>4. p \in [0..n -> Deflation]
    <3>1. ASSUME NEW i \in 0..n PROVE (IF i = 0 THEN s ELSE q[i - 1]) \in Deflation
      <4>1. i # 0 => i - 1 \in 0..m
        BY <2>2
      <4> QED BY <2>0, <4>1
    <3> QED BY <2>1, <3>1
  <2>5. ASSUME NEW i \in 0..n - 1 PROVE ~Ends(p[i]) /\ p[i + 1] = Doubled(p[i])
    <3>1. i \in 0..n /\ i + 1 \in 0..n /\ i + 1 # 0 /\ (i + 1) - 1 = i
      BY <2>2
    <3>2. p[i + 1] = q[i]
      BY <2>1, <3>1
    <3>3. CASE i = 0
      BY <2>0, <2>3, <3>2, <3>3
    <3>4. CASE i # 0
      <4>1. i - 1 \in 0..m - 1 /\ (i - 1) + 1 = i
        BY <2>2, <3>4
      <4>2. p[i] = q[i - 1]
        BY <2>1, <3>1, <3>4
      <4>3. ~Ends(q[i - 1]) /\ q[(i - 1) + 1] = Doubled(q[i - 1])
        BY <2>0, <4>1
      <4> QED BY <3>2, <4>1, <4>2, <4>3
    <3> QED BY <3>3, <3>4
  <2>6. Turns(s, t, n, p)
    BY <2>3, <2>4, <2>5 DEF Turns
  <2> QED BY <2>2, <2>6
<1>3. \A r : r \in Results(s) => r \in Results(Doubled(s))
  BY <1>1 DEF Results
<1>4. \A r : r \in Results(Doubled(s)) => r \in Results(s)
  BY <1>2 DEF Results
<1> QED BY <1>3, <1>4

\* Deflating is what the loop makes of it.
LEMMA DeflatingTurn ==
  \A s \in Deflation : Deflating[s] = IF Ends(s) THEN Result(s) ELSE Deflating[Doubled(s)]
<1> DEFINE P(d) == d = [s \in Deflation |-> IF Ends(s) THEN Result(s) ELSE d[Doubled(s)]]
<1>1. \E d : P(d)
  <2>1. PICK d : d = [s \in Deflation |-> OneOf(Results(s))]
    OBVIOUS
  <2>2. \A s \in Deflation : Ends(s) => OneOf(Results(s)) = Result(s)
    <3> SUFFICES ASSUME NEW s \in Deflation, Ends(s) PROVE OneOf(Results(s)) = Result(s)
      OBVIOUS
    <3>1. OneOf({Result(s)}) = Result(s)
      BY DEF OneOf
    <3> QED BY <3>1, ResultsOfLast
  <2>3. \A s \in Deflation : ~Ends(s) => OneOf(Results(s)) = OneOf(Results(Doubled(s)))
    BY ResultsOfOther
  <2>4. \A s \in Deflation : d[s] = IF Ends(s) THEN Result(s) ELSE d[Doubled(s)]
    BY <2>1, <2>2, <2>3, DoubledType
  <2>5. P(d)
    BY <2>1, <2>4
  <2> QED BY <2>5
<1>2. Deflating = CHOOSE d : P(d)
  BY Zenon DEF Deflating, Ends, Result, Doubled
<1>3. P(Deflating)
  <2> HIDE DEF P
  <2> QED BY <1>1, <1>2
<1> QED BY <1>3

\* A state the loop gets into from a buffer that is not empty, with at most b bytes at
\* once to come from zlib; and what the loop must return.
Sane(s, b) ==
  /\ s \in Deflation /\ s.left <= b /\ FlushMarker <= b /\ s.size >= 1
  /\ s.used + s.room <= s.size
Whole(r)   == r.len \in Nat /\ r.whole = TRUE

LEMMA SaneTurn ==
  ASSUME NEW b \in Nat, NEW s, Sane(s, b)
  PROVE  /\ s \in Deflation /\ s.left \in Nat /\ s.size \in Nat /\ s.room \in Nat
         /\ s.left < s.room => Ends(s)
         /\ Ends(s) => Whole(Deflating[s])
         /\ ~Ends(s) => /\ Deflating[s] = Deflating[Doubled(s)] /\ Sane(Doubled(s), b)
                        /\ Doubled(s).size = 2 * s.size /\ Doubled(s).room = s.size
<1>0. s \in Deflation /\ Doubled(s) \in Deflation
  BY DoubledType DEF Sane
<1>1. PICK l, z, u, r, k : /\ l = s.left /\ z = s.size /\ u = s.used /\ r = s.room
                           /\ k = AtMost(s.left, s.room)
  OBVIOUS
<1>2. /\ l \in Nat /\ z \in Nat /\ u \in Nat /\ r \in Nat /\ l <= b /\ FlushMarker <= b /\ z >= 1
      /\ u + r <= z
  BY <1>1 DEF Sane, Deflation
<1>3. k \in Nat /\ k <= l /\ k <= r /\ (k = l \/ k = r) /\ k = AtMost(l, r)
  BY <1>1, <1>2, AtMostFacts
<1>4. Ends(s) <=> k < r
  BY <1>1 DEF Ends
<1>5. Deflating[s] = IF Ends(s) THEN Result(s) ELSE Deflating[Doubled(s)]
  BY <1>0, DeflatingTurn
<1>6. Result(s) = [len |-> u + k, whole |-> u + r <= z]
  BY <1>1 DEF Result
<1>7. Whole(Result(s))
  <2>1. u + k \in Nat /\ (u + r <= z) = TRUE
    BY <1>2, <1>3
  <2>2. PICK w : w = (u + r <= z)
    OBVIOUS
  <2>3. Result(s) = [len |-> u + k, whole |-> w]
    BY <1>6, <2>2, Zenon
  <2>4. w = TRUE
    BY <2>1, <2>2, Zenon
  <2> QED BY <2>1, <2>3, <2>4 DEF Whole
<1>8. ASSUME ~Ends(s) PROVE Sane(Doubled(s), b) /\ Doubled(s).size = 2 * z /\ Doubled(s).room = z
  <2>1. k = r
    BY <1>2, <1>3, <1>4, <1>8
  <2>2. PICK m : m = IF l - k = 0 THEN FlushMarker ELSE l - k
    OBVIOUS
  <2>3. m <= b
    BY <1>2, <1>3, <2>2, MessageAssumption
  <2>4. Doubled(s) = [left |-> m, size |-> 2 * z, used |-> u + k, room |-> z]
    BY <1>1, <2>2 DEF Doubled
  <2>5. 2 * z >= 1 /\ (u + k) + z <= 2 * z
    BY <1>2, <2>1
  <2>6. /\ Doubled(s).left = m /\ Doubled(s).size = 2 * z /\ Doubled(s).used = u + k
        /\ Doubled(s).room = z
    BY <2>4
  <2> QED BY <1>0, <1>2, <2>3, <2>5, <2>6 DEF Sane
<1>9. l < r => k < r
  BY <1>2, <1>3
<1> QED BY <1>0, <1>1, <1>2, <1>4, <1>5, <1>7, <1>8, <1>9

LEMMA DeflatingWhole ==
  ASSUME NEW b \in Nat, NEW s, Sane(s, b)
  PROVE  Whole(Deflating[s])
\* The buffer offers more room than is to come.
<1>1. ASSUME NEW t, Sane(t, b), t.room > b PROVE Whole(Deflating[t])
  <2>1. t.left <= b
    BY <1>1 DEF Sane
  <2>2. t.left \in Nat /\ t.room \in Nat
    BY <1>1, SaneTurn
  <2>3. t.left < t.room
    BY <1>1, <2>1, <2>2
  <2> QED BY <1>1, <2>3, SaneTurn
\* It will do so in the next turn.
<1>2. ASSUME NEW t, Sane(t, b), t.size > b PROVE Whole(Deflating[t])
  <2>1. CASE Ends(t)
    BY <1>2, <2>1, SaneTurn
  <2>2. CASE ~Ends(t)
    <3>1. Deflating[t] = Deflating[Doubled(t)] /\ Sane(Doubled(t), b) /\ Doubled(t).room > b
      BY <1>2, <2>2, SaneTurn
    <3> QED BY <1>1, <3>1
  <2> QED BY <2>1, <2>2
\* Otherwise every turn comes nearer to that.
<1> DEFINE T == {x \in Nat : \E t : Sane(t, b) /\ x = b - t.size /\ ~Whole(Deflating[t])}
<1>3. T = {}
  <2> SUFFICES ASSUME T # {} PROVE FALSE
    OBVIOUS
  <2>1. PICK x \in T : \A y \in T : x <= y
    <3>1. T \subseteq Nat
      OBVIOUS
    <3> HIDE DEF T
    <3> QED BY <3>1, LeastNatural
  <2>2. PICK t : Sane(t, b) /\ x = b - t.size /\ ~Whole(Deflating[t])
    OBVIOUS
  <2>3. /\ t.size \in Nat /\ Deflating[t] = Deflating[Doubled(t)] /\ Sane(Doubled(t), b)
        /\ Doubled(t).size = 2 * t.size
    BY <2>2, SaneTurn
  <2>4. t.size >= 1
    BY <2>2 DEF Sane
  <2>5. ~(2 * t.size > b)
    BY <1>2, <2>2, <2>3
  <2>6. PICK y : y = b - 2 * t.size
    OBVIOUS
  <2>7. y \in Nat /\ ~(x <= y)
    BY <2>2, <2>3, <2>4, <2>5, <2>6
  <2>8. y \in T
    BY <2>2, <2>3, <2>6, <2>7
  <2> QED BY <2>1, <2>7, <2>8
<1>4. s.size \in Nat
  BY SaneTurn
<1>5. CASE s.size > b
  BY <1>2, <1>5
<1>6. CASE ~(s.size > b)
  <2>1. b - s.size \in Nat
    BY <1>4, <1>6
  <2> QED BY <1>3, <2>1
<1> QED BY <1>5, <1>6

\* compress of n bytes that deflate to z, in the buffer variant: the whole output, inside the
\* buffer.
LEMMA CompressBuffer ==
  ASSUME NEW n \in Nat, NEW z \in Nat, NEW c \in compress_buffer(n, z)
  PROVE  Whole(c)
<1>1. n # 0 /\ c = Deflating[[left |-> z, size |-> n, used |-> 0, room |-> n]]
  BY DEF compress_buffer
<1>2. PICK s : s = [left |-> z, size |-> n, used |-> 0, room |-> n]
  OBVIOUS
<1>3. PICK b \in Nat : z <= b /\ FlushMarker <= b
  <2>1. FlushMarker \in Nat /\ z + FlushMarker \in Nat /\ z <= z + FlushMarker /\ FlushMarker <= z + FlushMarker
    BY MessageAssumption
  <2> QED BY <2>1
<1>4. s.left = z /\ s.size = n /\ s.used = 0 /\ s.room = n /\ s \in Deflation
  BY <1>2 DEF Deflation
<1>5. Sane(s, b)
  BY <1>1, <1>3, <1>4 DEF Sane
<1> QED BY <1>1, <1>2, <1>5, DeflatingWhole

-----------------------------------------------------------------------------
(* rpc_msg_util_t and the handlers.                                        *)

\* The messages; one whose head tells the truth about its body.
Built == [cmd : Cmds, data : Nat, res : {0, ZLIB_FLAG_MASK}, len : Nat, size : Nat,
          form : {"plain", "deflated"}, whole : BOOLEAN]
Truthful(m) ==
  /\ m.len = m.size
  /\ m.res # 0 <=> m.form = "deflated"
  /\ m.whole \/ (m.res # 0 /\ m.len = 0)

\* The messages are those whose frames were sent, each truthful, and handle_msg has
\* served the first of those that were posted.
MessagesInv ==
  /\ opened \in BOOLEAN /\ msgs \in Seq(Built) /\ outcomes \in Seq({"called", "garbled", "shut"})
  /\ Len(msgs) = Len(lens) /\ Len(outcomes) <= Len(posted)
  /\ \A f \in 1..Len(msgs) : msgs[f].len = lens[f] /\ Truthful(msgs[f])
  /\ PlainIsServed

MsgInv == FrameInv /\ MessagesInv

LEMMA MadeIsTruthful ==
  ASSUME NEW cmd \in Cmds, NEW n \in Nat
  PROVE  make_msg(cmd, n) \in Built /\ Truthful(make_msg(cmd, n))
<1>1. PICK m : m = [cmd |-> cmd, data |-> n, res |-> 0, len |-> n, size |-> n,
                    form |-> "plain", whole |-> TRUE]
  OBVIOUS
<1>2. m \in Built
  BY <1>1 DEF Built
<1>3. m.len = n /\ m.size = n /\ m.res = 0 /\ m.form = "plain" /\ m.whole = TRUE
  BY <1>1
<1>4. Truthful(m)
  BY <1>3 DEF Truthful
<1> QED BY <1>1, <1>2, <1>4 DEF make_msg

LEMMA CompressedIsTruthful ==
  ASSUME NEW m \in Built, NEW c, c.len \in Nat, c.whole \in BOOLEAN,
         c.whole = TRUE \/ c.len = 0
  PROVE  Compressed(m, c) \in Built /\ Truthful(Compressed(m, c))
<1>1. PICK k, l, w : k = Compressed(m, c) /\ l = c.len /\ w = c.whole
  OBVIOUS
<1>2. k = [m EXCEPT !.len = l, !.size = l, !.res = ZLIB_FLAG_MASK, !.form = "deflated", !.whole = w]
  BY <1>1 DEF Compressed
<1>3. l \in Nat /\ w \in BOOLEAN /\ (w = TRUE \/ l = 0)
  BY <1>1
<1>4. k \in Built
  BY <1>2, <1>3 DEF Built
<1>5. /\ k.len = l /\ k.size = l /\ k.res = ZLIB_FLAG_MASK /\ k.form = "deflated" /\ k.whole = w
  BY <1>2 DEF Built
<1>6. ZLIB_FLAG_MASK # 0
  BY DEF ZLIB_FLAG_MASK
<1>7. Truthful(k)
  BY <1>3, <1>5, <1>6 DEF Truthful
<1> QED BY <1>1, <1>4, <1>7

\* What compress(string) returns.
LEMMA CompressString ==
  ASSUME NEW n \in Nat, NEW z \in Nat, NEW c \in compress_string(n, z)
  PROVE  c.len \in Nat /\ c.whole \in BOOLEAN /\ (c.whole = TRUE \/ c.len = 0)
<1>1. Draining[z] = z /\ Feeding[[length |-> n, copied |-> 0]] = n
  BY DrainingAll, FeedingAll
<1>2. PICK w : w = (Feeding[[length |-> n, copied |-> 0]] = n)
  OBVIOUS
<1>3. w = TRUE
  BY <1>1, <1>2
<1>4. c = [len |-> z, whole |-> w] \/ c = [len |-> 0, whole |-> FALSE]
  BY <1>1, <1>2 DEF compress_string
<1>5. CASE c = [len |-> z, whole |-> w]
  <2>1. c.len = z /\ c.whole = w
    BY <1>5
  <2> QED BY <1>3, <2>1
<1>6. CASE c = [len |-> 0, whole |-> FALSE]
  <2>1. c.len = 0 /\ c.whole = FALSE
    BY <1>6
  <2>2. c.len \in Nat
    BY <2>1
  <2>3. c.whole \in BOOLEAN
    BY <2>1, Zenon
  <2> QED BY <2>1, <2>2, <2>3, Zenon
<1> QED BY <1>4, <1>5, <1>6

\* However the message is built, its head tells the truth.
LEMMA BuiltIsTruthful ==
  ASSUME NEW cmd \in Cmds, NEW n \in DataSizes,
         NEW m \in compress_msg(cmd, n) \cup {bin_msg(cmd, n)} \cup compress_made(make_msg(cmd, n))
  PROVE  m \in Built /\ Truthful(m)
<1>0. n \in Nat /\ \A z \in ZSizes : z \in Nat
  BY MessageAssumption
<1>1. make_msg(cmd, n) \in Built /\ Truthful(make_msg(cmd, n))
  BY <1>0, MadeIsTruthful
<1>2. CASE m = make_msg(cmd, n)
  BY <1>1, <1>2
<1>3. ASSUME NEW z \in ZSizes, NEW c \in compress_buffer(n, z), m = Compressed(make_msg(cmd, n), c)
      PROVE  m \in Built /\ Truthful(m)
  <2>1. c.len \in Nat /\ c.whole = TRUE
    BY <1>0, CompressBuffer DEF Whole
  <2> QED BY <1>1, <1>3, <2>1, CompressedIsTruthful
<1>4. make_msg(cmd, n).size = n
  BY DEF make_msg
<1>5. ASSUME NEW z \in ZSizes, NEW c \in compress_string(n, z), m = Compressed(make_msg(cmd, n), c)
      PROVE  m \in Built /\ Truthful(m)
  <2>1. c.len \in Nat /\ c.whole \in BOOLEAN /\ (c.whole = TRUE \/ c.len = 0)
    BY <1>0, CompressString
  <2> QED BY <1>1, <1>5, <2>1, CompressedIsTruthful
<1>6. CASE m \in compress_msg(cmd, n)
  <2>1. \/ m = make_msg(cmd, n)
        \/ \E c \in UNION {compress_buffer(n, z) : z \in ZSizes} : m = Compressed(make_msg(cmd, n), c)
    BY <1>6, Zenon DEF compress_msg
  <2> QED BY <1>2, <1>3, <2>1
<1>7. CASE m = bin_msg(cmd, n)
  BY <1>2, <1>7 DEF bin_msg
<1>8. CASE m \in compress_made(make_msg(cmd, n))
  <2>1. \/ m = make_msg(cmd, n)
        \/ \E c \in UNION {compress_string(make_msg(cmd, n).size, z) : z \in ZSizes} :
             m = Compressed(make_msg(cmd, n), c)
    BY <1>8, Zenon DEF compress_made
  <2>2. \/ m = make_msg(cmd, n)
        \/ \E c \in UNION {compress_string(n, z) : z \in ZSizes} : m = Compressed(make_msg(cmd, n), c)
    BY <1>4, <2>1
  <2> QED BY <1>2, <1>5, <2>2
<1> QED BY <1>6, <1>7, <1>8

LEMMA MsgInitInv == MInit => MsgInv
<1> SUFFICES ASSUME MInit PROVE MsgInv
  OBVIOUS
<1>1. Init /\ opened \in BOOLEAN /\ msgs = <<>> /\ outcomes = <<>> /\ lens = <<>> /\ posted = <<>>
  BY DEF MInit, Init
<1>2. MessagesInv
  BY <1>1 DEF MessagesInv, PlainIsServed
<1> QED BY <1>1, <1>2, FrameInitInv DEF MsgInv

\* Steps that build no message and post none.
LEMMA MessagesKept ==
  ASSUME MessagesInv, posted \in Seq([head : [HeadPos -> Byte], body : Seq(Byte)]),
         UNCHANGED <<lens, msgs, outcomes>>, opened' \in BOOLEAN,
         Len(posted') >= Len(posted), Len(posted') \in Nat
  PROVE  MessagesInv'
<1>1. PlainIsServed'
  BY DEF MessagesInv, PlainIsServed
<1>2. Len(outcomes) \in Nat /\ Len(posted) \in Nat /\ Len(outcomes) <= Len(posted)
  BY DEF MessagesInv
<1>3. Len(outcomes') <= Len(posted')
  BY <1>2
<1> QED BY <1>1, <1>3 DEF MessagesInv

LEMMA AsyncCallInv ==
  ASSUME MsgInv, NEW cmd \in Cmds, NEW n \in DataSizes, async_call(cmd, n)
  PROVE  MsgInv'
<1>0. FrameInv /\ MessagesInv
  BY DEF MsgInv
<1>1. PICK m \in compress_msg(cmd, n) \cup {bin_msg(cmd, n)} \cup compress_made(make_msg(cmd, n)) :
        msgs' = Append(msgs, m) /\ Send(m.len, m.size)
  BY DEF async_call
<1>2. m \in Built /\ Truthful(m)
  BY BuiltIsTruthful
<1>3. m.len \in Nat /\ m.size = m.len
  BY <1>2 DEF Built, Truthful
<1>4. FrameInv'
  BY <1>0, <1>1, <1>3, SendInv
<1>5. /\ msgs \in Seq(Built) /\ Len(msgs) = Len(lens) /\ Len(outcomes) \in Nat
      /\ Len(outcomes) <= Len(posted) /\ lens \in Seq(Nat)
  BY <1>0 DEF MessagesInv, FrameInv, TypeOK
<1>6. UNCHANGED <<opened, outcomes, posted>> /\ lens' = Append(lens, m.len)
  BY <1>1 DEF async_call, Send
<1>7. /\ msgs' \in Seq(Built) /\ Len(msgs') = Len(msgs) + 1 /\ msgs'[Len(msgs) + 1] = m
      /\ \A f \in 1..Len(msgs) : msgs'[f] = msgs[f]
  BY <1>1, <1>2, <1>5, AppendFacts
<1>8. /\ Len(lens') = Len(lens) + 1 /\ lens'[Len(lens) + 1] = m.len
      /\ \A f \in 1..Len(lens) : lens'[f] = lens[f]
  BY <1>3, <1>5, <1>6, AppendFacts
<1>9. ASSUME NEW f \in 1..Len(msgs') PROVE msgs'[f].len = lens'[f] /\ Truthful(msgs'[f])
  <2>1. f \in 1..Len(msgs) \/ f = Len(msgs) + 1
    BY <1>5, <1>7
  <2> QED BY <1>0, <1>2, <1>5, <1>7, <1>8, <2>1 DEF MessagesInv
<1>10. PlainIsServed'
  <2>1. Len(posted) \in Nat /\ Len(posted) <= Len(lens) /\ Len(lens) \in Nat
    BY <1>0, FrameFacts
  <2>2. \A f \in 1..Len(outcomes) : f \in 1..Len(msgs)
    BY <1>5, <2>1
  <2>3. \A f \in 1..Len(outcomes) : msgs'[f] = msgs[f]
    BY <1>7, <2>2
  <2>4. PlainIsServed
    BY <1>0 DEF MessagesInv
  <2> QED BY <1>6, <2>3, <2>4 DEF PlainIsServed
<1>11. \A f \in 1..Len(msgs') : msgs'[f].len = lens'[f] /\ Truthful(msgs'[f])
  BY <1>9
<1>12. opened' \in BOOLEAN /\ outcomes' \in Seq({"called", "garbled", "shut"}) /\ Len(outcomes') <= Len(posted')
  BY <1>0, <1>6 DEF MessagesInv
<1>13. \A f \in 1..Len(msgs') : Truthful(msgs[f])' <=> Truthful(msgs'[f])
  BY DEF Truthful
<1>14. MessagesInv'
  BY <1>5, <1>7, <1>8, <1>10, <1>11, <1>12, <1>13 DEF MessagesInv
<1> QED BY <1>4, <1>14 DEF MsgInv

LEMMA HandleMsgInv ==
  ASSUME MsgInv, handle_msg
  PROVE  MsgInv'
<1>0. FrameInv /\ MessagesInv /\ Cursor
  BY DEF MsgInv, FrameInv
<1>1. UNCHANGED <<vars, opened, msgs>> /\ Len(outcomes) < Len(posted)
  BY DEF handle_msg
<1>2. FrameInv'
  BY <1>0, <1>1, FrameStutterInv
<1>3. UNCHANGED <<lens, posted>>
  BY <1>1 DEF vars, peer
<1>4. PICK f : f = Len(outcomes) + 1
  OBVIOUS
<1>5. /\ outcomes \in Seq({"called", "garbled", "shut"}) /\ msgs \in Seq(Built)
      /\ Len(outcomes) \in Nat /\ Len(posted) \in Nat /\ Len(posted) <= Len(lens) /\ Len(lens) \in Nat
      /\ Len(msgs) = Len(lens) /\ HeadSize \in Nat /\ HeadSize > 0
  BY <1>0, FrameFacts DEF MessagesInv
<1>6. f \in 1..Len(posted) /\ f \in 1..Len(msgs)
  BY <1>1, <1>4, <1>5
<1>7. Handled = Message(f)
  BY <1>0, <1>4, <1>6 DEF Handled, Cursor
<1>8. Frame = f
  <2>1. 0 \in HeadPos
    BY <1>5 DEF HeadPos
  <2>2. Message(f).head[0] = <<f, 0>>
    BY <2>1 DEF Message
  <2> QED BY <1>7, <2>2 DEF Frame
<1>9. Intact
  BY <1>7, <1>8 DEF Intact
<1>10. PICK o \in IF msgs[f].cmd \in m_calls THEN happen(f) ELSE {"shut"} : outcomes' = Append(outcomes, o)
  BY <1>8 DEF handle_msg
<1>11. o \in {"called", "garbled", "shut"}
  BY <1>10 DEF happen
<1>12. ASSUME msgs[f].cmd \in m_calls, msgs[f].res = 0 PROVE o = "called"
  <2>1. Truthful(msgs[f]) /\ msgs[f] \in Built
    BY <1>0, <1>5, <1>6 DEF MessagesInv
  <2>2. msgs[f].form = "plain"
    BY <1>12, <2>1 DEF Truthful, Built
  <2> QED BY <1>9, <1>10, <1>12, <2>2 DEF happen
<1>13. /\ outcomes' \in Seq({"called", "garbled", "shut"}) /\ Len(outcomes') = Len(outcomes) + 1
       /\ outcomes'[Len(outcomes) + 1] = o /\ \A g \in 1..Len(outcomes) : outcomes'[g] = outcomes[g]
  BY <1>5, <1>10, <1>11, AppendFacts
<1>14. PlainIsServed'
  <2>1. ASSUME NEW g \in 1..Len(outcomes'), msgs[g].cmd \in m_calls, msgs[g].res = 0
        PROVE  outcomes'[g] = "called"
    <3>1. g \in 1..Len(outcomes) \/ g = f
      BY <1>4, <1>5, <1>13
    <3>2. CASE g = f
      BY <1>4, <1>12, <1>13, <2>1, <3>2
    <3>3. CASE g \in 1..Len(outcomes)
      BY <1>0, <1>13, <2>1, <3>3 DEF MessagesInv, PlainIsServed
    <3> QED BY <3>1, <3>2, <3>3
  <2> QED BY <1>1, <2>1 DEF PlainIsServed
<1>15. Len(outcomes') <= Len(posted)
  BY <1>1, <1>5, <1>13
<1>16. MessagesInv'
  BY <1>0, <1>1, <1>3, <1>13, <1>14, <1>15 DEF MessagesInv
<1> QED BY <1>2, <1>16 DEF MsgInv

LEMMA MsgReadInv ==
  ASSUME MsgInv, Read, UNCHANGED <<opened, msgs, outcomes>>
  PROVE  MsgInv'
<1>0. FrameInv /\ MessagesInv
  BY DEF MsgInv
<1>1. FrameInv'
  BY <1>0, ReadInv
<1>2. posted \in Seq([head : [HeadPos -> Byte], body : Seq(Byte)]) /\ Len(posted) \in Nat
  BY <1>0 DEF FrameInv, TypeOK
<1>3. UNCHANGED lens /\ (UNCHANGED posted \/ \E x : posted' = Append(posted, x))
  BY Zenon DEF Read, ReadComplete, on_read, read_head_i, read_body_i, peer
<1>4. Len(posted') \in Nat
  BY <1>1 DEF FrameInv, TypeOK
<1>5. Len(posted') >= Len(posted)
  BY <1>2, <1>3
<1>6. opened' \in BOOLEAN
  BY <1>0 DEF MessagesInv
<1> QED BY <1>0, <1>1, <1>2, <1>3, <1>4, <1>5, <1>6, MessagesKept DEF MsgInv

\* Every step of the program.
LEMMA MsgStep == MsgInv /\ [MNext]_mvars => MsgInv'
<1> SUFFICES ASSUME MsgInv, [MNext]_mvars PROVE MsgInv'
  OBVIOUS
<1>0. /\ FrameInv /\ MessagesInv /\ opened \in BOOLEAN /\ Len(posted) \in Nat
      /\ posted \in Seq([head : [HeadPos -> Byte], body : Seq(Byte)])
  BY DEF MsgInv, MessagesInv, FrameInv, TypeOK
<1>1. CASE \E cmd \in Cmds, n \in DataSizes : async_call(cmd, n)
  BY <1>1, AsyncCallInv
<1>2. CASE SetOpened
  <2>1. UNCHANGED vars /\ UNCHANGED <<msgs, outcomes>> /\ opened' = ~opened
    BY <1>2 DEF SetOpened
  <2>2. UNCHANGED <<lens, posted>> /\ opened' \in BOOLEAN
    BY <1>0, <2>1 DEF vars, peer
  <2>3. MessagesInv'
    BY <1>0, <2>1, <2>2, MessagesKept
  <2> QED BY <1>0, <2>1, <2>3, FrameStutterInv DEF MsgInv
<1>3. CASE handle_msg
  BY <1>3, HandleMsgInv
<1>4. CASE Read /\ UNCHANGED <<opened, msgs, outcomes>>
  BY <1>4, MsgReadInv
<1>5. CASE UNCHANGED mvars
  <2>1. UNCHANGED vars /\ UNCHANGED <<opened, msgs, outcomes>>
    BY <1>5 DEF mvars
  <2>2. UNCHANGED <<lens, posted>>
    BY <2>1 DEF vars, peer
  <2>3. MessagesInv'
    BY <1>0, <2>1, <2>2, MessagesKept
  <2> QED BY <1>0, <2>1, <2>3, FrameStutterInv DEF MsgInv
<1> QED BY <1>1, <1>2, <1>3, <1>4, <1>5 DEF MNext

-----------------------------------------------------------------------------
(* The theorems.                                                           *)

\* For every head size, every data, every outcome of zlib and every way TCP cuts the
\* stream: the frames are read as they were laid, and heads tell the truth.
THEOREM MsgInvariant == MSpec => []MsgInv
<1>1. MInit => MsgInv
  BY MsgInitInv
<1>2. MsgInv /\ [MNext]_mvars => MsgInv'
  BY MsgStep
<1> QED BY <1>1, <1>2, PTL DEF MSpec

\* The variables of the framing keep their types, whatever rpc_msg_util_t builds.
THEOREM FramingTypeCorrect == MSpec => []TypeOK
<1>1. MsgInv => TypeOK
  BY DEF MsgInv, FrameInv
<1> QED BY <1>1, MsgInvariant, PTL

\* on_read posts the frames that were sent, in order, none lost or twice, each with its
\* own head and body.
THEOREM DeliveredIntactCorrect == MSpec => []DeliveredIntact
<1>1. MsgInv => DeliveredIntact
  BY FrameInvShows DEF MsgInv
<1> QED BY <1>1, MsgInvariant, PTL

\* When on_read returns it keeps back no complete frame but an empty one whose head
\* ended the chunk.
THEOREM NothingWithheldCorrect == MSpec => []NothingWithheld
<1>1. MsgInv => NothingWithheld
  BY FrameInvShows DEF MsgInv
<1> QED BY <1>1, MsgInvariant, PTL

\* handle_msg calls the registered handler for every plain message that comes to it.
THEOREM PlainIsServedCorrect == MSpec => []PlainIsServed
<1>1. MsgInv => PlainIsServed
  BY DEF MsgInv, MessagesInv
<1> QED BY <1>1, MsgInvariant, PTL

\* The head of every message rpc_msg_util_t builds shows the length and the form of its
\* body, and the loops of zlib_util_t lose nothing.
THEOREM HeadDescribesBodyCorrect == MSpec => []HeadDescribesBody
<1>1. MsgInv => HeadDescribesBody
  <2> SUFFICES ASSUME MsgInv PROVE HeadDescribesBody
    OBVIOUS
  <2>1. ASSUME NEW f \in 1..Len(msgs)
        PROVE  /\ msgs[f].len = msgs[f].size
               /\ msgs[f].res # 0 <=> msgs[f].form = "deflated"
               /\ msgs[f].whole \/ (msgs[f].res # 0 /\ msgs[f].len = 0)
    BY DEF MsgInv, MessagesInv, Truthful
  <2>2. ASSUME NEW f \in 1..Len(msgs), opened PROVE uncompress_msg(msgs[f]) # "deflated"
    BY <2>1, <2>2 DEF uncompress_msg, uncompress
  <2> QED BY <2>1, <2>2 DEF HeadDescribesBody
<1> QED BY <1>1, MsgInvariant, PTL
=============================================================================
