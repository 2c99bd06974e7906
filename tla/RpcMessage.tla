------------------------------ MODULE RpcMessage ------------------------------
(***************************************************************************)
(* A message from one application to the other: rpc_msg_util_t builds it   *)
(* (zlib_util_t compresses large ones), TCP and the framing of             *)
(* RpcCommonConnProtocol carry it, and rpc_t::handle_msg finds the handler *)
(* that was registered for its command.                                    *)
(*                                                                         *)
(* Data is its size; a built message keeps, besides the head's fields, the *)
(* real size of its body, its form, and whether all of the data is in it.  *)
(* zlib is external: deflate puts out any of ZSizes bytes for its input.   *)
(***************************************************************************)
EXTENDS RpcCommonConnProtocol

CONSTANTS
  Cmds,             \* the commands that are sent
  m_calls,          \* those a handler is registered for
  cmd_filter,       \* those that are never compressed
  LastCmd,          \* 65535, one past the end of the array cmd_filter
  DataSizes,        \* the sizes of the data that is sent
  ZLIB_SIZE_LIMIT,
  CHUNK,            \* the string variant feeds and drains zlib in chunks
  ZSizes,           \* the bytes zlib makes of one input
  FlushMarker       \* the bytes one more flush of nothing adds

ASSUME MessageAssumption ==
  /\ m_calls \subseteq Cmds /\ cmd_filter \subseteq Cmds \ {LastCmd}
  /\ DataSizes \subseteq Nat /\ ZSizes \subseteq Nat \ {0}
  /\ ZLIB_SIZE_LIMIT \in Nat /\ CHUNK \in Nat \ {0} /\ FlushMarker \in Nat \ {0}

VARIABLES
  opened,     \* rpc_msg_util_t::opened, which anyone may set at any time
  msgs,       \* the messages built, in the order of their frames
  outcomes    \* what handle_msg made of each: "called", "garbled", "shut"

mvars == <<vars, opened, msgs, outcomes>>

MInit == Init /\ opened \in BOOLEAN /\ msgs = <<>> /\ outcomes = <<>>

-----------------------------------------------------------------------------
(* zlib_util_t.  A result is [len, whole]: the length of the output, and   *)
(* whether all of the input is in it, written inside the buffer.           *)

\* Where the two compress functions are: what zlib still has to put out, the size of
\* the buffer, what of it is used and what offered to zlib; what was fed.
Deflation == [left : Nat, size : Nat, used : Nat, room : Nat]
Feed      == [length : Nat, copied : Nat]

\* The loop of compress(char*): deflate fills the room that is left in the
\* buffer; a full buffer is doubled and deflate called again, which repeats the
\* flush when the output had just fitted.
Deflating[s \in Deflation] ==
  LET k    == AtMost(s.left, s.room)
      more == s.left - k
  IN IF k < s.room
     THEN [len |-> s.used + k, whole |-> s.used + s.room <= s.size]
     ELSE Deflating[[left |-> IF more = 0 THEN FlushMarker ELSE more,
                     size |-> 2 * s.size, used |-> s.used + k, room |-> s.size]]

\* compress(char*) of n bytes that deflate to z; the buffer is as large as the
\* input, and no input means no buffer: Z_BUF_ERROR.
compress_buffer(n, z) ==
  IF n = 0 THEN {} ELSE {Deflating[[left |-> z, size |-> n, used |-> 0, room |-> n]]}

\* The outer loop of compress(string): chunks go in until all is copied, and the
\* last one, only that one, finishes the stream.
Feeding[s \in Feed] ==
  LET k == AtMost(CHUNK, s.length - s.copied)
  IN IF s.copied + k = s.length THEN s.length
     ELSE Feeding[[length |-> s.length, copied |-> s.copied + k]]

\* The inner loop: zlib's output is appended by chunks until one is not full.
Draining[z \in Nat] == IF z < CHUNK THEN z ELSE CHUNK + Draining[z - CHUNK]

\* compress(string); without memory the output stays empty.
compress_string(n, z) ==
  {[len |-> Draining[z], whole |-> Feeding[[length |-> n, copied |-> 0]] = n],
   [len |-> 0, whole |-> FALSE]}

\* uncompress: inflateInit expects a stream with a zlib header, and the raw ones of
\* both compress functions have none, so that nothing comes out.
uncompress(form) == IF form = "zlib" THEN "plain" ELSE "empty"

-----------------------------------------------------------------------------
(* rpc_msg_util_t.                                                         *)

make_msg(cmd, n) ==
  [cmd |-> cmd, data |-> n, res |-> 0, len |-> n, size |-> n,
   form |-> "plain", whole |-> TRUE]

bin_msg(cmd, n) == make_msg(cmd, n)

ZLIB_FLAG_MASK == 32768

\* Mutants: the head keeps the length of the data; the flag is not set.
Compressed_old_len(m, z) ==
  [m EXCEPT !.size = z.len, !.res = ZLIB_FLAG_MASK, !.form = "deflated", !.whole = z.whole]
Compressed_no_flag(m, z) ==
  [m EXCEPT !.len = z.len, !.size = z.len, !.form = "deflated", !.whole = z.whole]

\* The body is replaced, then the head corrected.
Compressed(m, z) ==
  [m EXCEPT !.len = z.len, !.size = z.len, !.res = ZLIB_FLAG_MASK, !.form = "deflated",
            !.whole = z.whole]

\* cmd_filter[cmd]: what the code finds behind the array may be anything.
Filtered(cmd) == IF cmd = LastCmd THEN BOOLEAN ELSE {cmd \in cmd_filter}

\* compress_msg(cmd, data): compression that fails leaves the plain message.
compress_msg(cmd, n) ==
  {make_msg(cmd, n)} \cup
  (IF n >= ZLIB_SIZE_LIMIT /\ opened /\ FALSE \in Filtered(cmd)
   THEN {Compressed(make_msg(cmd, n), c) : c \in UNION {compress_buffer(n, z) : z \in ZSizes}}
   ELSE {})

\* compress_msg(msg), of a message that was built before.
compress_made(m) ==
  IF ~opened \/ m.size < ZLIB_SIZE_LIMIT THEN {m}
  ELSE {Compressed(m, c) : c \in UNION {compress_string(m.size, z) : z \in ZSizes}}

uncompress_msg(m) ==
  IF opened /\ m.res # 0 THEN uncompress(m.form) ELSE m.form

-----------------------------------------------------------------------------
(* The applications.                                                       *)

\* A message is built and written to the connection: by async_call of the
\* server, by async_send of rpc_t, or by the application itself.
async_call(cmd, n) ==
  /\ \E m \in compress_msg(cmd, n) \cup {bin_msg(cmd, n)} \cup compress_made(make_msg(cmd, n)) :
       msgs' = Append(msgs, m) /\ Send(m.len, m.size)
  /\ UNCHANGED <<opened, outcomes>>

SetOpened == opened' = ~opened /\ UNCHANGED <<vars, msgs, outcomes>>

\* The message that was posted next, and whether its body came through.
Handled == posted[Len(outcomes) + 1]
Frame   == Handled.head[0][1]
Intact  == Handled = Message(Frame)

\* happen(): the handler's message is unpacked from the body, whatever the flag
\* says.  A compressed body throws, or makes something else of the message.
happen(f) ==
  IF Intact /\ msgs[f].form = "plain" THEN {"called"} ELSE {"shut", "garbled"}

\* A failed unpacking and an unknown command shut the connection down.  The close()
\* this posts, and with it which later messages still come, is RpcConnecter's; here
\* the stream goes on.
handle_msg ==
  /\ Len(outcomes) < Len(posted)
  /\ \E o \in IF msgs[Frame].cmd \in m_calls THEN happen(Frame) ELSE {"shut"} :
       outcomes' = Append(outcomes, o)
  /\ UNCHANGED <<vars, opened, msgs>>

MNext ==
  \/ \E cmd \in Cmds, n \in DataSizes : async_call(cmd, n)
  \/ SetOpened
  \/ handle_msg
  \/ Read /\ UNCHANGED <<opened, msgs, outcomes>>

\* on_read runs to its end in the connection's thread.
MSpec == MInit /\ [][MNext]_mvars /\ WF_mvars(on_read /\ UNCHANGED <<opened, msgs, outcomes>>)

-----------------------------------------------------------------------------
(* Properties.                                                             *)

\* Of the messages that come to handle_msg, one with a registered command that was
\* sent plain reaches its handler with its data, whatever messages surround it: only an
\* unknown command or a compressed body makes handle_msg shut the connection down,
\* after which the messages that were not read yet do not come to it.
PlainIsServed ==
  \A f \in 1..Len(outcomes) :
    msgs[f].cmd \in m_calls /\ msgs[f].res = 0 => outcomes[f] = "called"

\* The head tells the truth about the body: its length, and by the flag its form; the
\* body has all of the data, unless zlib had no memory for compress_msg(msg), which
\* then sends an empty compressed body.  So uncompress_msg, while compression is
\* enabled, returns the data or nothing, never compressed bytes.
HeadDescribesBody ==
  \A f \in 1..Len(msgs) :
    LET m == msgs[f]
    IN /\ m.len = m.size
       /\ m.res # 0 <=> m.form = "deflated"
       /\ m.whole \/ (m.res # 0 /\ m.len = 0)
       /\ opened => uncompress_msg(m) # "deflated"
=============================================================================
