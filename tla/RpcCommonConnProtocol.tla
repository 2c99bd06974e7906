----------------------- MODULE RpcCommonConnProtocol -----------------------
(***************************************************************************)
(* The read side of rpc_common_conn_protocal_t: cutting the byte stream of *)
(* one connection into messages.  TCP hands the bytes over in chunks that  *)
(* ignore the frame boundaries; on_read() walks through a chunk and keeps  *)
(* the unfinished head or body for the next one.                           *)
(*                                                                         *)
(* A byte is the pair <<f, i>>: byte number i of the f-th frame the peer   *)
(* sent.  A head that was assembled from the bytes of one frame, each in   *)
(* its place, decodes to that frame's length; a zeroed head decodes to 0;  *)
(* any other mixture decodes to an arbitrary length.                       *)
(***************************************************************************)
EXTENDS Integers, Sequences

CONSTANTS
  HeadSize,    \* sizeof(rpc_msg_head_t)
  BodySizes,   \* the body lengths a peer sends
  BUFFER_SIZE, \* the most one read returns
  MaxFrames    \* bound: how many frames the peer sends

ASSUME FramingAssumption ==
  /\ HeadSize \in Nat \ {0} /\ BUFFER_SIZE \in Nat \ {0}
  /\ BodySizes \subseteq Nat /\ MaxFrames \in Nat

VARIABLES
  lens,        \* the body length in the head of every frame sent
  sizes,       \* the length of the body that really follows
  starts,      \* where in wire every frame starts (bytes before it)
  wire,        \* all bytes sent
  pos,         \* how many of them on_read has consumed
  left,        \* bytes of the current chunk still to do; 0: on_read returned
  m_msg_size, m_head, m_body,
  posted       \* the messages posted to handle_msg

peer     == <<lens, sizes, starts, wire>>
partial  == <<m_msg_size, m_head, m_body>>
vars     == <<peer, pos, left, partial, posted>>

HeadPos == 0..HeadSize - 1
Zero    == <<0, 0>>
NoHead  == [i \in HeadPos |-> Zero]

FrameSize(f) == HeadSize + sizes[f]

\* on_remote_open() calls reset() before the first read.
Init ==
  /\ lens = <<>> /\ sizes = <<>> /\ starts = <<>> /\ wire = <<>>
  /\ pos = 0 /\ left = 0
  /\ m_msg_size = 0 /\ m_head = NoHead /\ m_body = <<>>
  /\ posted = <<>>

-----------------------------------------------------------------------------
(* The peer's async_write of one message: the head, which shows len, and   *)
(* size bytes of body.                                                     *)
Send(len, size) ==
  /\ Len(lens) < MaxFrames
  /\ lens' = Append(lens, len) /\ sizes' = Append(sizes, size)
  /\ starts' = Append(starts, Len(wire))
  /\ wire' = wire \o [k \in 1..HeadSize + size |-> <<Len(lens) + 1, k - 1>>]
  /\ UNCHANGED <<pos, left, partial, posted>>

\* read_complete_i calls on_read with k bytes; the next read starts only when
\* on_read has returned.
ReadComplete(k) ==
  /\ left = 0
  /\ k <= BUFFER_SIZE /\ pos + k <= Len(wire)
  /\ left' = k
  /\ UNCHANGED <<peer, pos, partial, posted>>

-----------------------------------------------------------------------------
(* on_read(): one action per turn of its loop.                             *)

\* Mutant: a complete head does not count as read.
has_read_head_end_i_strict == m_msg_size > HeadSize

has_read_head_end_i == m_msg_size >= HeadSize

\* The values m_head.len may show.
HeadLens ==
  IF \E f \in 1..Len(lens) : m_head = [i \in HeadPos |-> <<f, i>>]
  THEN {lens[m_head[0][1]]}
  ELSE IF m_head = NoHead THEN {0} ELSE BodySizes

AtMost(n, limit) == IF n > limit THEN limit ELSE n

read_head_i ==
  LET tmp == AtMost(HeadSize - m_msg_size, left)
  IN /\ m_head' = [i \in HeadPos |->
                     IF i >= m_msg_size /\ i < m_msg_size + tmp
                     THEN wire[pos + 1 + i - m_msg_size] ELSE m_head[i]]
     /\ m_msg_size' = m_msg_size + tmp
     /\ left' = left - tmp /\ pos' = pos + tmp
     /\ UNCHANGED <<m_body, posted>>

\* Mutant: the body is not reset after its message was posted.
read_body_i_keeps_body(len) ==
  LET tmp  == AtMost(HeadSize + len - m_msg_size, left)
      body == m_body \o SubSeq(wire, pos + 1, pos + tmp)
  IN /\ left' = left - tmp /\ pos' = pos + tmp
     /\ m_body' = body
     /\ \/ /\ Len(body) = len
           /\ posted' = Append(posted, [head |-> m_head, body |-> body])
           /\ m_msg_size' = 0 /\ m_head' = NoHead
        \/ /\ Len(body) # len
           /\ m_msg_size' = m_msg_size + tmp
           /\ UNCHANGED <<m_head, posted>>

\* Mutant: the end of the body is tested before the bytes are appended.
read_body_i_tests_first(len) ==
  LET tmp  == AtMost(HeadSize + len - m_msg_size, left)
      body == m_body \o SubSeq(wire, pos + 1, pos + tmp)
  IN /\ left' = left - tmp /\ pos' = pos + tmp
     /\ \/ /\ Len(m_body) = len
           /\ posted' = Append(posted, [head |-> m_head, body |-> body])
           /\ m_msg_size' = 0 /\ m_head' = NoHead /\ m_body' = <<>>
        \/ /\ Len(m_body) # len
           /\ m_msg_size' = m_msg_size + tmp /\ m_body' = body
           /\ UNCHANGED <<m_head, posted>>

\* read_body_i on a head that shows len; a full body is posted with its head
\* and the three fields are reset for the next frame.
read_body_i(len) ==
  LET tmp  == AtMost(HeadSize + len - m_msg_size, left)
      body == m_body \o SubSeq(wire, pos + 1, pos + tmp)
  IN /\ left' = left - tmp /\ pos' = pos + tmp
     /\ \/ /\ Len(body) = len
           /\ posted' = Append(posted, [head |-> m_head, body |-> body])
           /\ m_msg_size' = 0 /\ m_head' = NoHead /\ m_body' = <<>>
        \/ /\ Len(body) # len
           /\ m_msg_size' = m_msg_size + tmp /\ m_body' = body
           /\ UNCHANGED <<m_head, posted>>

on_read ==
  /\ left > 0
  /\ \/ ~has_read_head_end_i /\ read_head_i
     \/ has_read_head_end_i /\ \E len \in HeadLens : read_body_i(len)
  /\ UNCHANGED peer

\* The steps of the reading side.
Read == (\E k \in 1..BUFFER_SIZE : ReadComplete(k)) \/ on_read

\* A peer whose heads tell the truth; RpcMessage has the one that is there.
Next == (\E len \in BodySizes : Send(len, len)) \/ Read

\* on_read runs to its end in the connection's thread.
Spec == Init /\ [][Next]_vars
FairSpec == Spec /\ WF_vars(on_read)

-----------------------------------------------------------------------------
(* Properties.                                                             *)

Byte == Nat \X Nat

TypeOK ==
  /\ lens \in Seq(Nat) /\ sizes \in Seq(Nat) /\ starts \in Seq(Nat) /\ wire \in Seq(Byte)
  /\ pos \in Nat /\ left \in Nat /\ m_msg_size \in Nat
  /\ m_head \in [HeadPos -> Byte] /\ m_body \in Seq(Byte)
  /\ posted \in Seq([head : [HeadPos -> Byte], body : Seq(Byte)])

\* What message number f looks like: its head bytes and its body bytes.
Message(f) ==
  [head |-> [i \in HeadPos |-> <<f, i>>],
   body |-> [k \in 1..sizes[f] |-> <<f, HeadSize + k - 1>>]]

\* However TCP cuts the stream, the messages posted are the frames the peer sent:
\* in order, none lost, none twice, each with its own head and its own body.
DeliveredIntact ==
  /\ Len(posted) <= Len(lens)
  /\ \A f \in 1..Len(posted) : posted[f] = Message(f)

\* Whenever on_read has returned, every frame whose last byte has arrived was
\* posted, with one exception: a frame without a body whose head ended the chunk
\* stays back until the next byte of the stream arrives.
NothingWithheld ==
  left = 0 =>
    \A f \in 1..Len(lens) : starts[f] + FrameSize(f) <= pos =>
      \/ f <= Len(posted)
      \/ f = Len(posted) + 1 /\ sizes[f] = 0 /\ starts[f] + FrameSize(f) = pos

\* on_read's loop ends for every chunk: a turn that consumes no byte posts a
\* message, and what it posts never makes the next turn wait for bytes it has.
OnReadReturns == left > 0 ~> left = 0
=============================================================================
