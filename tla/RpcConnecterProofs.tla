------------------------- MODULE RpcConnecterProofs -------------------------
(***************************************************************************)
(* The safety properties of one connection, for any number of reads,       *)
(* writes, messages and stops of the monitor.                              *)
(*                                                                         *)
(* Each property has an invariant of its own, which says more than the     *)
(* property does: what the handlers still queued know of the writer, where *)
(* the unsent strings are, which read may still be handled late, and which *)
(* requests on the way to the heart-beat service undo which.               *)
(***************************************************************************)
EXTENDS RpcConnecter, ListSeqsProofs

\* The queued handlers of one kind.
OpsIn(op) == {t \in ToSet(tasks) : t.op = op}

-----------------------------------------------------------------------------
(* The inductive invariant.                                                *)

\* Before the opening thread is through, nobody else knows the connection.
OpenInv ==
  /\ opener \in {"fresh", "adding"} =>
       /\ tasks = <<>> /\ inbox = <<>> /\ ~held /\ ~announced /\ m_connect_type = "passive"
       /\ m_write_queue = <<>> /\ m_is_writing = FALSE /\ m_total_wait_write = 0
       /\ sent = <<>> /\ requested = <<>>
  /\ opener = "fresh" =>
       m_status = "disconnected" /\ socket = "open" /\ m_is_broken = FALSE
  /\ opener # "fresh" => (m_status = "connected" <=> socket # "closed")

\* A handler of a write that ended well stands for the string at the front.
Done == \E t \in OpsIn("written") : ~t.err
D    == IF Done THEN 1 ELSE 0

\* What was requested and not sent is the queue q without its first d strings.
Unsent(q, rq, st, d) ==
  /\ Len(rq) = Len(st) + Len(q) - d
  /\ \A i \in 1..Len(q) - d : rq[Len(st) + i] = q[i + d]

WriteInv ==
  /\ WriteQueueSound
  /\ \A t \in OpsIn("written") :
       IF t.err THEN t.size < m_write_queue[1] ELSE t.size = m_write_queue[1]
  /\ Len(sent) <= Len(requested)
  /\ \A i \in 1..Len(sent) : sent[i] = requested[i]
  /\ m_status = "connected" => Unsent(m_write_queue, requested, sent, D)

ReadInv ==
  /\ ReadChain
  /\ opener # "opened" => reading + Tasks("read") = 0

BrokenInv ==
  /\ opener = "fresh" => brokens = 0
  /\ opener \in {"adding", "resetting"} =>
       IF m_is_broken THEN early /\ brokens = 1 ELSE brokens = 0
  /\ IF m_is_broken THEN brokens = 1 \/ (early /\ brokens = 2)
                    ELSE brokens = 0 \/ (early /\ brokens = 1)

LateInv ==
  m_is_broken =>
    /\ socket = "closed" /\ reads <= cut + 1
    /\ (\E t \in OpsIn("read") : ~t.err) => reads <= cut

\* Every add on the way is followed by a del.
AddsUndone(s) == Answered(s, "add", "del")

MonInv ==
  /\ ~announced => ~watched /\ "add" \notin ToSet(beats)
  /\ announced => OnlyMonitored /\ opener \notin {"fresh", "adding"}
  /\ opener = "adding" => m_use_monitor /\ m_status = "connected"
  /\ opener \in {"fresh", "adding"} => "del" \notin ToSet(beats)
  /\ stops = 0 =>
       /\ monitor # "closing" /\ "trigger" \notin ToSet(beats)
       /\ announced \/ opener = "adding" => monitor = "on"
       /\ announced /\ m_status = "connected" =>
            /\ "del" \notin ToSet(beats)
            /\ watched \/ "add" \in ToSet(beats) \/ CloseTask \in ToSet(tasks) \/ refused
       /\ opener # "fresh" /\ m_status = "disconnected" =>
            /\ watched => "del" \in ToSet(beats)
            /\ AddsUndone(beats)

ConnInv == TypeOK /\ OpenInv /\ WriteInv /\ ReadInv /\ BrokenInv /\ LateInv /\ MonInv
-----------------------------------------------------------------------------
(* The queue of handlers.                                                  *)

LEMMA TaskFacts ==
  /\ CloseTask \in TaskType
  /\ \A d \in Data : [op |-> "write", data |-> d] \in TaskType
  /\ \A e \in BOOLEAN : [op |-> "read", err |-> e] \in TaskType
  /\ \A e \in BOOLEAN, n \in Nat : [op |-> "written", err |-> e, size |-> n] \in TaskType
  /\ \A t \in TaskType :
       /\ t.op = "write" => t.data \in Data
       /\ t.op = "read" => t.err \in BOOLEAN
       /\ t.op = "written" => t.err \in BOOLEAN /\ t.size \in Nat
       /\ t.op = "close" => t = CloseTask
BY DEF TaskType, CloseTask

\* Tasks counts the handlers of one kind.
LEMMA TasksCount ==
  ASSUME TypeOK, NEW op
  PROVE  /\ Tasks(op) = CountIn(tasks, {t \in TaskType : t.op = op})
         /\ Tasks(op) \in Nat
         /\ Tasks(op) = 0 <=> OpsIn(op) = {}
<1>1. tasks \in Seq(TaskType) /\ \A i \in 1..Len(tasks) : tasks[i] \in TaskType
  BY DEF TypeOK
<1>2. {i \in 1..Len(tasks) : tasks[i].op = op}
        = {i \in 1..Len(tasks) : tasks[i] \in {t \in TaskType : t.op = op}}
  BY <1>1
<1>3. Tasks(op) = CountIn(tasks, {t \in TaskType : t.op = op})
  BY <1>2 DEF Tasks, CountIn
<1>4. /\ CountIn(tasks, {t \in TaskType : t.op = op}) \in Nat
      /\ CountIn(tasks, {t \in TaskType : t.op = op}) = 0
           <=> \A x \in ToSet(tasks) : x \notin {t \in TaskType : t.op = op}
  BY <1>1, CountType, CountZero
<1>5. \A x \in ToSet(tasks) : x \in TaskType
  BY <1>1, ToSetByIndex
<1> QED BY <1>3, <1>4, <1>5 DEF OpsIn

LEMMA TasksAppend ==
  ASSUME TypeOK, NEW t \in TaskType, tasks' = Append(tasks, t)
  PROVE  /\ tasks' \in Seq(TaskType)
         /\ ToSet(tasks') = ToSet(tasks) \cup {t}
         /\ \A op : /\ Tasks(op)' = Tasks(op) + IF t.op = op THEN 1 ELSE 0
                    /\ OpsIn(op)' = OpsIn(op) \cup IF t.op = op THEN {t} ELSE {}
<1>1. tasks \in Seq(TaskType)
  BY DEF TypeOK
<1>2. tasks' \in Seq(TaskType) /\ ToSet(tasks') = ToSet(tasks) \cup {t}
  BY <1>1, AppendFacts
<1>3. ASSUME NEW op
      PROVE  Tasks(op)' = Tasks(op) + IF t.op = op THEN 1 ELSE 0
  <2> DEFINE S == {u \in TaskType : u.op = op}
  <2>1. \A i \in 1..Len(tasks') : tasks'[i] \in TaskType
    BY <1>2
  <2>2. Tasks(op)' = CountIn(tasks', S)
    <3>1. {i \in 1..Len(tasks') : tasks'[i].op = op}
            = {i \in 1..Len(tasks') : tasks'[i] \in S}
      BY <2>1
    <3> QED BY <3>1 DEF Tasks, CountIn
  <2>3. Tasks(op) = CountIn(tasks, S)
    BY TasksCount
  <2>4. CountIn(tasks', S) = CountIn(tasks, S) + IF t \in S THEN 1 ELSE 0
    BY <1>1, CountAppend
  <2>5. t \in S <=> t.op = op
    OBVIOUS
  <2> HIDE DEF S
  <2> QED BY <2>2, <2>3, <2>4, <2>5
<1>4. \A op : OpsIn(op)' = OpsIn(op) \cup IF t.op = op THEN {t} ELSE {}
  BY <1>2 DEF OpsIn
<1> QED BY <1>2, <1>3, <1>4

LEMMA TasksTail ==
  ASSUME TypeOK, tasks # <<>>, tasks' = Tail(tasks)
  PROVE  /\ Task \in TaskType /\ tasks' \in Seq(TaskType)
         /\ ToSet(tasks) = ToSet(tasks') \cup {Task}
         /\ \A op : /\ Tasks(op) = (IF Task.op = op THEN 1 ELSE 0) + Tasks(op)'
                    /\ Tasks(op)' \in Nat
                    /\ OpsIn(op) = OpsIn(op)' \cup IF Task.op = op THEN {Task} ELSE {}
                    /\ Tasks(op)' = 0 => OpsIn(op)' = {}
<1>1. tasks \in Seq(TaskType)
  BY DEF TypeOK
<1>2. /\ tasks' \in Seq(TaskType) /\ Task \in TaskType /\ Task = tasks[1]
      /\ Len(tasks) \in Nat \ {0} /\ Len(tasks') = Len(tasks) - 1
      /\ \A i \in 1..Len(tasks) - 1 : tasks'[i] = tasks[i + 1]
  BY <1>1, TailFacts DEF Task
<1>3. ToSet(tasks) = ToSet(tasks') \cup {Task}
  BY <1>1, TailSet DEF Task
<1>4. ASSUME NEW op
      PROVE  /\ Tasks(op) = (IF Task.op = op THEN 1 ELSE 0) + Tasks(op)'
             /\ Tasks(op)' \in Nat
             /\ Tasks(op)' = 0 => OpsIn(op)' = {}
  <2> DEFINE S == {u \in TaskType : u.op = op}
  <2>1. \A i \in 1..Len(tasks') : tasks'[i] \in TaskType
    BY <1>2
  <2>2. Tasks(op)' = CountIn(tasks', S)
    <3>1. {i \in 1..Len(tasks') : tasks'[i].op = op}
            = {i \in 1..Len(tasks') : tasks'[i] \in S}
      BY <2>1
    <3> QED BY <3>1 DEF Tasks, CountIn
  <2>3. Tasks(op) = CountIn(tasks, S)
    BY TasksCount
  <2>4. CountIn(tasks, S) = (IF Task \in S THEN 1 ELSE 0) + CountIn(tasks', S)
    BY <1>1, CountTail DEF Task
  <2>5. Task \in S <=> Task.op = op
    BY <1>2
  <2>6. /\ CountIn(tasks', S) \in Nat
        /\ CountIn(tasks', S) = 0 <=> \A u \in ToSet(tasks') : u \notin S
    BY <1>2, CountType, CountZero
  <2>7. \A u \in ToSet(tasks') : u \in S <=> u.op = op
    BY <1>1, <1>3, ToSetByIndex
  <2>8. OpsIn(op)' = {u \in ToSet(tasks') : u.op = op}
    BY DEF OpsIn
  <2> HIDE DEF S
  <2> QED BY <2>2, <2>3, <2>4, <2>5, <2>6, <2>7, <2>8
<1>5. \A op : OpsIn(op) = OpsIn(op)' \cup IF Task.op = op THEN {Task} ELSE {}
  BY <1>3 DEF OpsIn
<1> QED BY <1>2, <1>3, <1>4, <1>5

-----------------------------------------------------------------------------
(* Types.                                                                  *)

BeatKind == {"add", "update", "del", "trigger"}

LEMMA BoundsAreNat ==
  /\ MaxReads \in Nat /\ MaxBatch \in Nat /\ MaxCalls \in Nat /\ MaxStops \in Nat
  /\ m_use_monitor \in BOOLEAN /\ Data \subseteq Nat
BY ConnecterAssumption DEF Data

\* The monitor is told n times, or not at all.
LEMMA BeatFacts ==
  ASSUME TypeOK, NEW kind \in BeatKind, NEW n \in Nat, Beat(kind, n)
  PROVE  /\ beats' \in Seq(BeatKind)
         /\ \/ beats' = beats
            \/ /\ OnlyMonitored /\ Started /\ beats' = beats \o [i \in 1..n |-> kind]
               /\ [i \in 1..n |-> kind] \in Seq(BeatKind)
<1>1. beats \in Seq(BeatKind) /\ [i \in 1..n |-> kind] \in Seq(BeatKind)
  BY DEF TypeOK, BeatKind
<1>2. beats \o [i \in 1..n |-> kind] \in Seq(BeatKind)
  BY <1>1
<1> QED BY <1>1, <1>2 DEF Beat

\* What a close does besides changing the status and the socket.
LEMMA ClosedType ==
  ASSUME TypeOK, on_closed
  PROVE  /\ beats' \in Seq(BeatKind) /\ inbox' \in Seq({"msg", "broken"})
         /\ m_is_broken' \in BOOLEAN /\ early' \in BOOLEAN /\ brokens' \in Nat /\ cut' \in Nat
<1>1. beats' \in Seq(BeatKind)
  BY BeatFacts DEF on_closed, BeatKind
<1>2. CASE UNCHANGED <<inbox, broken>>
  BY <1>1, <1>2 DEF TypeOK, broken
<1>3. CASE ~m_is_broken
  <2>1. /\ m_is_broken' = TRUE /\ inbox' = Append(inbox, "broken")
        /\ brokens' = brokens + 1 /\ cut' = reads
        /\ early' = (early \/ opener \in {"adding", "resetting"})
    BY <1>3 DEF on_closed, post_broken_msg_i
  <2>2. early' \in BOOLEAN /\ m_is_broken' \in BOOLEAN
    BY <2>1
  <2>3. inbox' \in Seq({"msg", "broken"}) /\ brokens' \in Nat /\ cut' \in Nat
    BY <2>1 DEF TypeOK
  <2> QED BY <1>1, <2>2, <2>3
<1> QED BY <1>2, <1>3 DEF on_closed, post_broken_msg_i

LEMMA CloseOnErrorType ==
  ASSUME TypeOK, CloseOnError
  PROVE  /\ beats' \in Seq(BeatKind) /\ inbox' \in Seq({"msg", "broken"})
         /\ m_is_broken' \in BOOLEAN /\ early' \in BOOLEAN /\ brokens' \in Nat /\ cut' \in Nat
         /\ m_status' = "disconnected" /\ socket' \in {"open", "gone", "closed"}
<1>1. CASE sync_close_i
  BY <1>1, ClosedType DEF sync_close_i
<1>2. CASE UNCHANGED <<m_status, socket, beats, inbox, broken>> /\ m_status = "disconnected"
  BY <1>2 DEF TypeOK, broken, BeatKind
<1> QED BY <1>1, <1>2 DEF CloseOnError

\* The strings of the writer are its data, and its counter covers the front.
LEMMA WriterFacts ==
  ASSUME TypeOK, WriteInv
  PROVE  /\ writing \in Seq(Data) /\ m_write_queue \in Seq(Data) /\ m_write_queue \in Seq(Nat)
         /\ requested \in Seq(Data) /\ sent \in Seq(Data)
         /\ m_total_wait_write \in Nat /\ SumSeq(m_write_queue) \in Nat
         /\ m_total_wait_write >= SumSeq(m_write_queue)
         /\ m_write_queue # <<>> =>
              /\ Head(m_write_queue) = m_write_queue[1] /\ m_write_queue[1] \in Data
              /\ m_write_queue[1] \in Nat /\ Tail(m_write_queue) \in Seq(Data)
              /\ SumSeq(Tail(m_write_queue)) \in Nat
              /\ SumSeq(m_write_queue) = m_write_queue[1] + SumSeq(Tail(m_write_queue))
<1>1. /\ writing \in Seq(Data) /\ m_write_queue \in Seq(Data)
      /\ requested \in Seq(Data) /\ sent \in Seq(Data) /\ m_total_wait_write \in Nat
  BY DEF TypeOK
<1>2. m_write_queue \in Seq(Nat)
  BY <1>1, BoundsAreNat, SeqMonotonic
<1>3. m_total_wait_write >= SumSeq(m_write_queue)
  BY DEF WriteInv, WriteQueueSound, TotalCoversQueue
<1>4. SumSeq(m_write_queue) \in Nat
  BY <1>2, SumAppend, 0 \in Nat
<1>5. ASSUME m_write_queue # <<>>
      PROVE  /\ Head(m_write_queue) = m_write_queue[1] /\ m_write_queue[1] \in Data
             /\ m_write_queue[1] \in Nat /\ Tail(m_write_queue) \in Seq(Data)
             /\ SumSeq(Tail(m_write_queue)) \in Nat
             /\ SumSeq(m_write_queue) = m_write_queue[1] + SumSeq(Tail(m_write_queue))
  <2>1. /\ Head(m_write_queue) = m_write_queue[1] /\ m_write_queue[1] \in Data
        /\ Tail(m_write_queue) \in Seq(Data)
    BY <1>1, <1>5, TailFacts
  <2>2. /\ SumSeq(m_write_queue) = Head(m_write_queue) + SumSeq(Tail(m_write_queue))
        /\ SumSeq(Tail(m_write_queue)) \in Nat
    BY <1>2, <1>5, SumTail
  <2> QED BY <2>1, <2>2, BoundsAreNat
<1> QED BY <1>1, <1>2, <1>3, <1>4, <1>5

\* The handler of a write at the front of the queue: it is the only one, no write is
\* outstanding, and it stands for the string at the front of m_write_queue.
LEMMA WrittenFacts ==
  ASSUME TypeOK, WriteInv, tasks # <<>>, Task.op = "written"
  PROVE  /\ Task.err \in BOOLEAN /\ Task.size \in Nat /\ Task \in OpsIn("written")
         /\ m_is_writing = TRUE /\ m_write_queue # <<>> /\ writing = <<>>
         /\ Tasks("written") = 1 /\ Task.size <= m_write_queue[1]
         /\ m_total_wait_write - Task.size \in Nat
<1>1. Task \in TaskType /\ Task \in ToSet(tasks)
  <2>1. tasks \in Seq(TaskType)
    BY DEF TypeOK
  <2> QED BY <2>1, TailFacts, TailSet DEF Task
<1>2. Task \in OpsIn("written") /\ Tasks("written") \in Nat \ {0}
  BY <1>1, TasksCount DEF OpsIn
<1>3. Task.err \in BOOLEAN /\ Task.size \in Nat
  BY <1>1, TaskFacts
<1>4. /\ Len(writing) + Tasks("written") = IF m_is_writing THEN 1 ELSE 0
      /\ m_is_writing => m_write_queue # <<>>
  BY DEF WriteInv, WriteQueueSound, OneWriteOutstanding
<1>5. writing \in Seq(Data) /\ Len(writing) \in Nat /\ m_is_writing \in BOOLEAN
  BY DEF TypeOK
<1>6. m_is_writing = TRUE /\ Tasks("written") = 1 /\ Len(writing) = 0
  BY <1>2, <1>4, <1>5
<1>7. writing = <<>> /\ m_write_queue # <<>>
  BY <1>4, <1>5, <1>6
<1>8. Task.size <= m_write_queue[1]
  <2>1. IF Task.err THEN Task.size < m_write_queue[1] ELSE Task.size = m_write_queue[1]
    BY <1>2 DEF WriteInv
  <2>2. m_write_queue[1] \in Nat
    BY <1>7, WriterFacts
  <2> QED BY <1>3, <2>1, <2>2
<1>9. m_total_wait_write - Task.size \in Nat
  BY <1>3, <1>7, <1>8, WriterFacts
<1> QED BY <1>2, <1>3, <1>6, <1>7, <1>8, <1>9

\* What is sent next is data.
LEMMA SendingType ==
  ASSUME NEW q \in Seq(Data), writing \in Seq(Data), start_sending_buffer_i(q)
  PROVE  m_is_writing' \in BOOLEAN /\ writing' \in Seq(Data)
<1>1. CASE q = <<>>
  BY <1>1 DEF start_sending_buffer_i
<1>2. CASE q # <<>>
  <2>1. m_is_writing' = TRUE /\ writing' = Append(writing, Head(q)) /\ Head(q) \in Data
    BY <1>2, TailFacts DEF start_sending_buffer_i
  <2>2. writing' \in Seq(Data)
    BY <2>1
  <2> QED BY <2>1, <2>2
<1> QED BY <1>1, <1>2

\* What a request does to the handlers, to the element and to the memory of a failure.
LEMMA RunBeatFacts ==
  ASSUME RunBeat
  PROVE  /\ UNCHANGED tasks \/ (watched /\ handle_timeout)
         /\ Head(beats) = "add" => watched' \/ refused'
         /\ Head(beats) = "update" => watched' = watched /\ refused' = refused
         /\ Head(beats) \in {"del", "trigger"} => ~watched' /\ refused' = refused
         /\ watched' \in {watched, TRUE, FALSE} /\ refused' \in {refused, TRUE}
BY DEF RunBeat, add_element, trigger_all_timeout

LEMMA TypeInv ==
  ASSUME ConnInv, [Next]_vars
  PROVE  TypeOK'
<1> USE DEF open, writer, logic, hb, broken
<1>0. TypeOK /\ WriteInv
  BY DEF ConnInv
<1>1. CASE Open
  <2>1. CASE remote_open
    BY <1>0, <2>1 DEF remote_open, Opening, TypeOK
  <2>2. CASE monitor_add
    BY <1>0, <2>2 DEF monitor_add, TypeOK
  <2>3. CASE reset
    BY <1>0, <2>3 DEF reset, Opening, TypeOK
  <2>4. CASE async_read
    BY <1>0, <2>4 DEF async_read, Opening, TypeOK
  <2>5. CASE sync_connect
    BY <1>0, <2>5 DEF sync_connect, Opening, TypeOK
  <2> QED BY <1>1, <2>1, <2>2, <2>3, <2>4, <2>5 DEF Open
<1>2. CASE tasks # <<>> /\ read_complete_i
  <2>0. tasks' \in Seq(TaskType)
    BY <1>0, <1>2, TasksTail DEF read_complete_i
  <2>1. CASE CloseOnError /\ UNCHANGED <<reading, reads>>
    BY <1>0, <1>2, <2>0, <2>1, CloseOnErrorType DEF read_complete_i, TypeOK, BeatKind
  <2>2. ASSUME NEW n \in 0..MaxBatch, reading' = reading + 1, reads' = reads + 1,
               Beat("update", n), inbox' = inbox \o [i \in 1..n |-> "msg"],
               UNCHANGED <<m_status, socket, broken>>
        PROVE  TypeOK'
    <3>1. n \in Nat /\ "update" \in BeatKind
      BY BoundsAreNat DEF BeatKind
    <3>2. beats' \in Seq(BeatKind)
      BY <1>0, <2>2, <3>1, BeatFacts
    <3>3. inbox' \in Seq({"msg", "broken"})
      <4>1. [i \in 1..n |-> "msg"] \in Seq({"msg", "broken"})
        BY <3>1
      <4>2. inbox \in Seq({"msg", "broken"})
        BY <1>0 DEF TypeOK
      <4> QED BY <2>2, <4>1, <4>2
    <3>4. reading' \in Nat /\ reads' \in Nat
      BY <1>0, <2>2 DEF TypeOK
    <3>5. UNCHANGED <<open, m_status, socket, writer, held, calls, watched, refused, monitor, stops, broken>>
      BY <1>2, <2>2 DEF read_complete_i
    <3> QED BY <1>0, <2>0, <3>2, <3>3, <3>4, <3>5 DEF TypeOK, BeatKind
  <2> QED BY <1>2, <2>1, <2>2 DEF read_complete_i
<1>3. CASE tasks # <<>> /\ close_i
  <2>1. tasks' \in Seq(TaskType) /\ on_closed
    BY <1>0, <1>3, TasksTail DEF close_i, sync_close_i
  <2> QED BY <1>0, <1>3, <2>1, ClosedType DEF close_i, sync_close_i, TypeOK, BeatKind
<1>4. CASE tasks # <<>> /\ sync_write_i
  <2>1. tasks' \in Seq(TaskType) /\ Task.data \in Data /\ Task.data \in Nat
    BY <1>0, <1>4, TasksTail, TaskFacts, BoundsAreNat DEF sync_write_i
  <2>2. m_total_wait_write' \in Nat
    BY <1>0, <1>4, <2>1, WriterFacts DEF sync_write_i
  <2>3. m_write_queue' \in Seq(Data) /\ requested' \in Seq(Data)
    BY <1>0, <1>4, <2>1, WriterFacts DEF sync_write_i
  <2>4. m_is_writing' \in BOOLEAN /\ writing' \in Seq(Data)
    <3>1. CASE UNCHANGED <<m_is_writing, writing>>
      BY <1>0, <3>1, WriterFacts DEF TypeOK
    <3>2. CASE start_sending_buffer_i(m_write_queue')
      BY <1>0, <2>3, <3>2, WriterFacts, SendingType
    <3> QED BY <1>4, <3>1, <3>2 DEF sync_write_i
  <2> QED BY <1>0, <1>4, <2>1, <2>2, <2>3, <2>4 DEF sync_write_i, TypeOK
<1>5. CASE tasks # <<>> /\ write_complete_i
  <2>1. tasks' \in Seq(TaskType) /\ Task.op = "written"
    BY <1>0, <1>5, TasksTail DEF write_complete_i
  <2>2. m_total_wait_write' \in Nat /\ m_write_queue' \in Seq(Data)
    BY <1>0, <1>5, <2>1, WrittenFacts, WriterFacts DEF write_complete_i
  <2>3. CASE CloseOnError /\ m_is_writing' = FALSE /\ UNCHANGED writing
    BY <1>0, <1>5, <2>1, <2>2, <2>3, CloseOnErrorType DEF write_complete_i, TypeOK, BeatKind
  <2>4. CASE /\ start_sending_buffer_i(m_write_queue')
             /\ UNCHANGED <<m_status, socket, beats, inbox, broken>>
    <3>1. m_is_writing' \in BOOLEAN /\ writing' \in Seq(Data)
      BY <1>0, <2>2, <2>4, WriterFacts, SendingType
    <3> QED BY <1>0, <1>5, <2>1, <2>2, <2>4, <3>1 DEF write_complete_i, TypeOK
  <2> QED BY <1>5, <2>3, <2>4 DEF write_complete_i
<1>6. CASE \E err \in BOOLEAN : ReadEnds(err)
  <2>1. PICK err \in BOOLEAN : ReadEnds(err)
    BY <1>6
  <2>2. tasks' \in Seq(TaskType)
    BY <1>0, <2>1, TasksAppend, TaskFacts DEF ReadEnds
  <2> QED BY <1>0, <2>1, <2>2 DEF ReadEnds, TypeOK
<1>7. CASE \E err \in BOOLEAN : \E size \in 0..(IF writing = <<>> THEN 0 ELSE Head(writing)) :
             WriteEnds(err, size)
  <2>1. PICK err \in BOOLEAN, size \in 0..(IF writing = <<>> THEN 0 ELSE Head(writing)) :
               WriteEnds(err, size)
    BY <1>7
  <2>2. writing # <<>> /\ Head(writing) \in Data /\ Head(writing) \in Nat
        /\ Tail(writing) \in Seq(Data)
    BY <1>0, <2>1, WriterFacts, TailFacts, BoundsAreNat DEF WriteEnds
  <2>3. size \in Nat
    BY <2>2
  <2>4. tasks' \in Seq(TaskType)
    BY <1>0, <2>1, <2>3, TasksAppend, TaskFacts DEF WriteEnds
  <2>5. sent' \in Seq(Data) /\ writing' \in Seq(Data)
    BY <1>0, <2>1, <2>2, WriterFacts DEF WriteEnds
  <2> QED BY <1>0, <2>1, <2>4, <2>5 DEF WriteEnds, TypeOK
<1>8. CASE PeerLeaves
  BY <1>0, <1>8 DEF PeerLeaves, TypeOK
<1>9. CASE handle_msg
  <2>1. tasks' \in Seq(TaskType)
    <3>1. CASE UNCHANGED tasks
      BY <1>0, <3>1 DEF TypeOK
    <3>2. CASE post(CloseTask)
      BY <1>0, <3>2, TasksAppend, TaskFacts DEF post
    <3> QED BY <1>9, <3>1, <3>2 DEF handle_msg
  <2> QED BY <1>0, <1>9, <2>1 DEF handle_msg, TypeOK
<1>10. CASE Call
  <2>1. tasks' \in Seq(TaskType)
    <3>1. calls + 1 \in Data
      BY <1>0, <1>10, BoundsAreNat DEF Call, Data, TypeOK
    <3>2. CASE post(CloseTask)
      BY <1>0, <3>2, TasksAppend, TaskFacts DEF post
    <3>3. CASE post([op |-> "write", data |-> calls + 1])
      BY <1>0, <3>1, <3>3, TasksAppend, TaskFacts DEF post
    <3> QED BY <1>10, <3>2, <3>3 DEF Call
  <2> QED BY <1>0, <1>10, <2>1 DEF Call, TypeOK
<1>11. CASE Monitor
  <2>1. ASSUME handle_timeout PROVE tasks' \in Seq(TaskType)
    <3>1. CASE UNCHANGED tasks
      BY <1>0, <3>1 DEF TypeOK
    <3>2. CASE post(CloseTask)
      BY <1>0, <3>2, TasksAppend, TaskFacts DEF post
    <3> QED BY <2>1, <3>1, <3>2 DEF handle_timeout
  <2>2. CASE RunBeat
    <3>1. tasks' \in Seq(TaskType)
      BY <1>0, <2>1, <2>2, RunBeatFacts DEF TypeOK
    <3>2. {watched', refused'} \subseteq BOOLEAN
      BY <1>0, <2>2, RunBeatFacts DEF TypeOK
    <3>3. /\ beats # <<>> /\ beats' = Tail(beats)
          /\ UNCHANGED <<open, m_status, socket, reading, reads, writer, logic, monitor, stops,
                          broken>>
      BY <2>2 DEF RunBeat
    <3> QED BY <1>0, <3>1, <3>2, <3>3 DEF TypeOK
  <2>3. CASE Expel
    <3>1. tasks' \in Seq(TaskType)
      BY <2>1, <2>3 DEF Expel
    <3>2. /\ UNCHANGED <<open, m_status, socket, reading, reads, writer, logic, beats, refused,
                          monitor, stops, broken>>
          /\ watched' \in BOOLEAN
      BY <2>3 DEF Expel
    <3> QED BY <1>0, <3>1, <3>2 DEF TypeOK, open, writer, logic, broken
  <2>4. CASE close_all
    BY <1>0, <2>4 DEF close_all, TypeOK
  <2>5. CASE stop_monitor \/ start_monitor
    BY <1>0, <2>5 DEF stop_monitor, start_monitor, TypeOK
  <2> QED BY <1>11, <2>2, <2>3, <2>4, <2>5 DEF Monitor
<1>12. CASE UNCHANGED vars
  BY <1>0, <1>12 DEF vars, TypeOK
<1> QED BY <1>1, <1>2, <1>3, <1>4, <1>5, <1>6, <1>7, <1>8, <1>9, <1>10, <1>11, <1>12
        DEF Next, RunTask, Asio

-----------------------------------------------------------------------------
(* The steps of others: they leave the writer and the reads alone, and     *)
(* queue at most a close or a write.                                       *)

Bystander == Open \/ PeerLeaves \/ handle_msg \/ Call \/ Monitor \/ UNCHANGED vars

LEMMA SameTasks ==
  ASSUME tasks' = tasks
  PROVE  /\ ToSet(tasks') = ToSet(tasks)
         /\ \A op : Tasks(op)' = Tasks(op) /\ OpsIn(op)' = OpsIn(op)
BY DEF Tasks, OpsIn, ToSet

LEMMA BystanderTasks ==
  ASSUME TypeOK, Bystander
  PROVE  \/ tasks' = tasks
         \/ tasks' = Append(tasks, CloseTask)
         \/ \E d \in Data : tasks' = Append(tasks, [op |-> "write", data |-> d])
<1>1. CASE Open \/ PeerLeaves \/ UNCHANGED vars
  BY <1>1 DEF Open, PeerLeaves, vars, remote_open, monitor_add, reset, async_read, sync_connect
<1>2. CASE handle_msg
  BY <1>2 DEF handle_msg, post
<1>3. CASE Call
  <2>1. calls + 1 \in Data
    BY <1>3, BoundsAreNat DEF Call, Data, TypeOK
  <2> QED BY <1>3, <2>1 DEF Call, post
<1>4. CASE Monitor
  BY <1>4, RunBeatFacts DEF Monitor, Expel, close_all, stop_monitor, start_monitor,
                            handle_timeout, post
<1> QED BY <1>1, <1>2, <1>3, <1>4 DEF Bystander

LEMMA BystanderFacts ==
  ASSUME TypeOK, Bystander
  PROVE  /\ UNCHANGED <<writing, m_write_queue, m_is_writing, m_total_wait_write, requested, sent>>
         /\ UNCHANGED <<reads, brokens, early, cut>>
         /\ Tasks("read")' = Tasks("read") /\ OpsIn("read")' = OpsIn("read")
         /\ Tasks("written")' = Tasks("written") /\ OpsIn("written")' = OpsIn("written")
         /\ \A t \in ToSet(tasks) : t \in ToSet(tasks')
<1>1. UNCHANGED <<writing, m_write_queue, m_is_writing, m_total_wait_write, requested, sent>>
  BY DEF Bystander, Open, PeerLeaves, vars, remote_open, monitor_add, reset, async_read,
         sync_connect, handle_msg, Call, Monitor, RunBeat, Expel, close_all, stop_monitor,
         start_monitor, writer
<1>2. UNCHANGED <<reads, brokens, early, cut>>
  BY DEF Bystander, Open, PeerLeaves, vars, remote_open, monitor_add, reset, async_read,
         sync_connect, handle_msg, Call, Monitor, RunBeat, Expel, close_all, stop_monitor,
         start_monitor, broken
<1>3. CASE tasks' = tasks
  BY <1>1, <1>2, <1>3, SameTasks
<1>4. ASSUME NEW t \in TaskType, tasks' = Append(tasks, t), t.op \in {"close", "write"}
      PROVE  /\ Tasks("read")' = Tasks("read") /\ OpsIn("read")' = OpsIn("read")
             /\ Tasks("written")' = Tasks("written") /\ OpsIn("written")' = OpsIn("written")
             /\ \A u \in ToSet(tasks) : u \in ToSet(tasks')
  <2>1. t.op # "read" /\ t.op # "written"
    BY <1>4
  <2>2. \A op : /\ Tasks(op)' = Tasks(op) + IF t.op = op THEN 1 ELSE 0
                /\ OpsIn(op)' = OpsIn(op) \cup IF t.op = op THEN {t} ELSE {}
    BY <1>4, TasksAppend
  <2>3. Tasks("read") \in Nat /\ Tasks("written") \in Nat
    BY TasksCount
  <2>4. Tasks("read")' = Tasks("read") /\ Tasks("written")' = Tasks("written")
    BY <2>1, <2>2, <2>3
  <2>5. OpsIn("read")' = OpsIn("read") /\ OpsIn("written")' = OpsIn("written")
    BY <2>1, <2>2
  <2> QED BY <1>4, <2>4, <2>5, TasksAppend
<1>5. CASE tasks' = Append(tasks, CloseTask)
  BY <1>1, <1>2, <1>4, <1>5, TaskFacts DEF CloseTask
<1>6. CASE \E d \in Data : tasks' = Append(tasks, [op |-> "write", data |-> d])
  BY <1>1, <1>2, <1>4, <1>6, TaskFacts
<1> QED BY <1>3, <1>5, <1>6, BystanderTasks

-----------------------------------------------------------------------------
(* Opening.                                                                *)

\* Nothing runs for a connection that is not open.
LEMMA NotYet ==
  ASSUME ConnInv, opener \in {"fresh", "adding"}
  PROVE  /\ tasks = <<>> /\ reading = 0 /\ writing = <<>> /\ inbox = <<>> /\ ~held /\ ~watched
         /\ Tasks("read") = 0 /\ Tasks("written") = 0
<1>0. TypeOK /\ OpenInv /\ WriteInv /\ ReadInv /\ MonInv
  BY DEF ConnInv
<1>1. tasks = <<>> /\ inbox = <<>> /\ ~held /\ ~watched /\ m_is_writing = FALSE
  BY <1>0 DEF OpenInv, MonInv
<1>2. Tasks("read") = 0 /\ Tasks("written") = 0
  <2>1. OpsIn("read") = {} /\ OpsIn("written") = {}
    BY <1>1 DEF OpsIn, ToSet
  <2> QED BY <1>0, <2>1, TasksCount
<1>3. Len(writing) = 0
  BY <1>0, <1>1, <1>2 DEF WriteInv, WriteQueueSound, OneWriteOutstanding, TypeOK
<1>4. writing = <<>>
  BY <1>0, <1>3 DEF TypeOK
<1>5. reading = 0
  BY <1>0, <1>2 DEF ReadInv, TypeOK
<1> QED BY <1>1, <1>2, <1>4, <1>5

\* A handler runs only after the opening thread has let go of the connection.
LEMMA RunTaskOpens ==
  ASSUME ConnInv, RunTask
  PROVE  opener \in {"resetting", "reading", "opened"}
BY NotYet DEF RunTask, ConnInv, TypeOK

\* What a close changes, and that it happens once.
LEMMA CloseOnErrorFacts ==
  ASSUME CloseOnError, TypeOK, OpenInv, opener # "fresh"
  PROVE  m_status' = "disconnected" /\ socket' = "closed"
BY DEF CloseOnError, sync_close_i, OpenInv, TypeOK

LEMMA OpenStep ==
  ASSUME ConnInv, [Next]_vars
  PROVE  OpenInv'
<1> USE DEF open, writer, logic, hb, broken
<1>0. TypeOK /\ OpenInv /\ MonInv
  BY DEF ConnInv
<1>1. CASE Open
  BY <1>0, <1>1 DEF Open, remote_open, monitor_add, reset, async_read, sync_connect, Opening,
                    OpenInv, TypeOK
<1>2. CASE RunTask
  <2>1. opener \in {"resetting", "reading", "opened"} /\ opener' = opener
    BY <1>2, RunTaskOpens DEF RunTask, read_complete_i, close_i, sync_write_i, write_complete_i
  <2>2. m_status' = "connected" <=> socket' # "closed"
    <3>1. CASE UNCHANGED <<m_status, socket>>
      BY <1>0, <2>1, <3>1 DEF OpenInv
    <3>2. CASE CloseOnError \/ sync_close_i
      BY <1>0, <2>1, <3>2, CloseOnErrorFacts DEF sync_close_i
    <3> QED BY <1>2, <3>1, <3>2 DEF RunTask, read_complete_i, close_i, sync_write_i,
                                    write_complete_i
  <2> QED BY <2>1, <2>2 DEF OpenInv
<1>3. CASE Asio
  <2>1. reading > 0 \/ writing # <<>>
    BY <1>3, Zenon DEF Asio, ReadEnds, WriteEnds
  <2>2. opener \notin {"fresh", "adding"}
    BY <2>1, NotYet
  <2> QED BY <1>0, <1>3, <2>2 DEF Asio, ReadEnds, WriteEnds, OpenInv
<1>4. CASE PeerLeaves
  BY <1>0, <1>4 DEF PeerLeaves, OpenInv
<1>5. CASE handle_msg \/ Call
  <2>1. opener \notin {"fresh", "adding"}
    BY <1>5, NotYet DEF handle_msg, Call
  <2> QED BY <1>0, <1>5, <2>1 DEF handle_msg, Call, OpenInv
<1>6. CASE Monitor
  <2>1. UNCHANGED <<open, m_status, socket, writer, logic, broken>>
    BY <1>6 DEF Monitor, RunBeat, Expel, close_all, stop_monitor, start_monitor
  <2>2. opener \in {"fresh", "adding"} => tasks' = tasks
    BY <1>6, NotYet, RunBeatFacts DEF Monitor, Expel, close_all, stop_monitor, start_monitor
  <2> QED BY <1>0, <2>1, <2>2 DEF OpenInv
<1>7. CASE UNCHANGED vars
  BY <1>0, <1>7 DEF vars, OpenInv
<1> QED BY <1>1, <1>2, <1>3, <1>4, <1>5, <1>6, <1>7 DEF Next

-----------------------------------------------------------------------------
(* The chain of reads.                                                     *)

LEMMA ReadStep ==
  ASSUME ConnInv, [Next]_vars
  PROVE  ReadInv'
<1> USE DEF open, writer, logic, hb, broken
<1>0. TypeOK /\ OpenInv /\ ReadInv /\ Tasks("read") \in Nat /\ reading \in Nat
  BY TasksCount DEF ConnInv, TypeOK
<1>1. CASE Open
  <2>1. Tasks("read")' = Tasks("read")
    BY <1>0, <1>1, BystanderFacts DEF Bystander
  <2> QED BY <1>0, <1>1, <2>1 DEF Open, remote_open, monitor_add, reset, async_read, sync_connect,
                                  Opening, ReadInv, ReadChain, OpenInv
<1>2. CASE PeerLeaves \/ handle_msg \/ Call \/ Monitor \/ UNCHANGED vars
  <2>1. Tasks("read")' = Tasks("read")
    BY <1>0, <1>2, BystanderFacts DEF Bystander
  <2>2. UNCHANGED <<opener, m_status, reading>>
    BY <1>2 DEF PeerLeaves, handle_msg, Call, Monitor, RunBeat, Expel, close_all, stop_monitor,
                start_monitor, vars
  <2> QED BY <1>0, <2>1, <2>2 DEF ReadInv, ReadChain
<1>3. CASE RunTask
  <2>0. tasks # <<>> /\ tasks' = Tail(tasks) /\ opener' = opener /\ opener # "fresh"
    BY <1>3, RunTaskOpens DEF RunTask, read_complete_i, close_i, sync_write_i, write_complete_i
  <2>1. /\ Tasks("read") = (IF Task.op = "read" THEN 1 ELSE 0) + Tasks("read")'
        /\ Tasks("read")' \in Nat
    BY <1>0, <2>0, TasksTail
  <2>2. CASE read_complete_i
    <3>1. Tasks("read") = 1 + Tasks("read")' /\ opener = "opened"
      BY <1>0, <2>1, <2>2 DEF read_complete_i, ReadInv, ReadChain
    <3>2. CASE reading' = reading + 1
      BY <1>0, <2>0, <2>1, <3>1, <3>2 DEF ReadInv, ReadChain
    <3>3. CASE CloseOnError /\ reading' = reading
      BY <1>0, <2>0, <2>1, <3>1, <3>3, CloseOnErrorFacts DEF ReadInv, ReadChain
    <3> QED BY <2>2, <3>2, <3>3 DEF read_complete_i
  <2>3. CASE close_i \/ sync_write_i \/ write_complete_i
    <3>1. Tasks("read") = Tasks("read")' /\ reading' = reading
      BY <1>0, <2>1, <2>3 DEF close_i, sync_write_i, write_complete_i
    <3>2. m_status' \in {m_status, "disconnected"}
      BY <1>0, <2>0, <2>3, CloseOnErrorFacts
         DEF close_i, sync_write_i, write_complete_i, sync_close_i
    <3> QED BY <1>0, <2>0, <3>1, <3>2 DEF ReadInv, ReadChain
  <2> QED BY <1>3, <2>2, <2>3 DEF RunTask
<1>4. CASE \E err \in BOOLEAN : ReadEnds(err)
  <2>1. PICK err \in BOOLEAN : ReadEnds(err)
    BY <1>4
  <2>2. /\ reading' = reading - 1 /\ reading > 0 /\ UNCHANGED <<opener, m_status>>
        /\ tasks' = Append(tasks, [op |-> "read", err |-> err])
    BY <2>1 DEF ReadEnds
  <2>3. Tasks("read")' = Tasks("read") + 1
    BY <1>0, <2>2, TasksAppend, TaskFacts
  <2> QED BY <1>0, <2>2, <2>3 DEF ReadInv, ReadChain
<1>5. CASE \E err \in BOOLEAN : \E size \in 0..(IF writing = <<>> THEN 0 ELSE Head(writing)) :
             WriteEnds(err, size)
  <2>1. PICK err \in BOOLEAN, size \in 0..(IF writing = <<>> THEN 0 ELSE Head(writing)) :
               WriteEnds(err, size)
    BY <1>5
  <2>2. /\ reading' = reading /\ UNCHANGED <<opener, m_status>>
        /\ tasks' = Append(tasks, [op |-> "written", err |-> err, size |-> size])
    BY <2>1 DEF WriteEnds
  <2>3. size \in Nat
    BY <1>0, <2>1, TailFacts, BoundsAreNat DEF WriteEnds, TypeOK
  <2>4. Tasks("read")' = Tasks("read")
    BY <1>0, <2>2, <2>3, TasksAppend, TaskFacts
  <2> QED BY <1>0, <2>2, <2>4 DEF ReadInv, ReadChain
<1> QED BY <1>1, <1>2, <1>3, <1>4, <1>5 DEF Next, Asio

-----------------------------------------------------------------------------
(* The broken message.                                                     *)

\* A handler of the connection posts it, or leaves its state alone.
LEMMA RunTaskCloses ==
  ASSUME RunTask
  PROVE  /\ UNCHANGED opener
         /\ \/ m_status' = "disconnected" /\ socket' = "closed" /\ Beat("del", 1) /\ post_broken_msg_i
            \/ UNCHANGED <<m_status, socket, m_is_broken, brokens, early, cut>>
BY DEF RunTask, read_complete_i, close_i, sync_write_i, write_complete_i, CloseOnError,
       sync_close_i, on_closed, open, broken

LEMMA BrokenStep ==
  ASSUME ConnInv, [Next]_vars
  PROVE  BrokenInv'
<1> USE DEF open, writer, logic, hb, broken
<1>0. TypeOK /\ OpenInv /\ BrokenInv
  BY DEF ConnInv
<1>1. CASE Open
  <2>1. UNCHANGED <<brokens, early>>
    BY <1>0, <1>1, BystanderFacts DEF Bystander
  <2>2. CASE reset
    BY <1>0, <2>1, <2>2 DEF reset, Opening, BrokenInv, TypeOK
  <2>3. CASE remote_open \/ monitor_add \/ async_read \/ sync_connect
    BY <1>0, <2>1, <2>3 DEF remote_open, monitor_add, async_read, sync_connect, Opening,
                            BrokenInv, OpenInv
  <2> QED BY <1>1, <2>2, <2>3 DEF Open
<1>2. CASE RunTask
  <2>1. CASE post_broken_msg_i /\ ~m_is_broken
    <3>1. /\ m_is_broken' = TRUE /\ brokens' = brokens + 1 /\ opener' = opener
          /\ early' = (early \/ opener \in {"adding", "resetting"})
      BY <1>2, <2>1, RunTaskCloses DEF post_broken_msg_i
    <3>2. opener \in {"resetting", "reading", "opened"}
      BY <1>2, RunTaskOpens
    <3>3. (early => early') /\ (opener = "resetting" => early')
      BY <3>1
    <3>4. /\ brokens' = brokens + 1 /\ m_is_broken' = TRUE /\ opener' = opener
      BY <3>1
    <3> QED BY <1>0, <2>1, <3>2, <3>3, <3>4 DEF BrokenInv
  <2>2. CASE UNCHANGED <<m_is_broken, brokens, early>>
    BY <1>0, <1>2, <2>2, RunTaskCloses DEF BrokenInv
  <2> QED BY <1>2, <2>1, <2>2, RunTaskCloses DEF post_broken_msg_i
<1>3. CASE Asio \/ PeerLeaves \/ handle_msg \/ Call \/ Monitor \/ UNCHANGED vars
  <2>1. UNCHANGED <<opener, m_is_broken, brokens, early>>
    BY <1>3, Zenon DEF Asio, ReadEnds, WriteEnds, PeerLeaves, handle_msg, Call, Monitor, RunBeat,
                Expel, close_all, stop_monitor, start_monitor, vars
  <2> QED BY <1>0, <2>1 DEF BrokenInv
<1> QED BY <1>1, <1>2, <1>3 DEF Next

-----------------------------------------------------------------------------
(* The late read.                                                          *)

LEMMA LateStep ==
  ASSUME ConnInv, [Next]_vars
  PROVE  LateInv'
<1> USE DEF open, writer, logic, hb, broken
<1>0. TypeOK /\ OpenInv /\ LateInv /\ ReadInv /\ reads \in Nat /\ cut \in Nat
  BY DEF ConnInv, TypeOK
<1>1. CASE Bystander
  <2>1. UNCHANGED <<reads, cut>> /\ OpsIn("read")' = OpsIn("read")
    BY <1>0, <1>1, BystanderFacts
  <2>2. CASE reset
    BY <2>2 DEF reset, LateInv
  <2>3. CASE ~reset
    <3>1. m_is_broken' = m_is_broken
      BY <1>1, <2>3 DEF Bystander, Open, PeerLeaves, vars, remote_open, monitor_add, async_read,
           sync_connect, handle_msg, Call, Monitor, RunBeat, Expel, close_all, stop_monitor,
           start_monitor
    <3>2. socket = "closed" => socket' = "closed"
      BY <1>1 DEF Bystander, Open, PeerLeaves, vars, remote_open, monitor_add, reset, async_read,
           sync_connect, handle_msg, Call, Monitor, RunBeat, Expel, close_all, stop_monitor,
           start_monitor
    <3> QED BY <1>0, <2>1, <3>1, <3>2 DEF LateInv
  <2> QED BY <2>2, <2>3
<1>2. CASE RunTask
  <2>0. tasks # <<>> /\ tasks' = Tail(tasks)
    BY <1>2 DEF RunTask, read_complete_i, close_i, sync_write_i, write_complete_i
  <2>1. /\ Tasks("read") = (IF Task.op = "read" THEN 1 ELSE 0) + Tasks("read")'
        /\ Tasks("read")' \in Nat /\ (Tasks("read")' = 0 => OpsIn("read")' = {})
        /\ OpsIn("read") = OpsIn("read")' \cup IF Task.op = "read" THEN {Task} ELSE {}
    BY <1>0, <2>0, TasksTail
  <2>2. \A t \in OpsIn("read")' : t \in OpsIn("read")
    BY <2>1
  <2>3. CASE reads' = reads
    <3>1. CASE /\ m_status' = "disconnected" /\ socket' = "closed" /\ post_broken_msg_i
               /\ ~m_is_broken
      <4>1. cut' = reads /\ socket' = "closed"
        BY <3>1 DEF post_broken_msg_i
      <4> QED BY <1>0, <2>3, <4>1 DEF LateInv
    <3>2. CASE UNCHANGED <<m_is_broken, cut>> /\ socket' \in {socket, "closed"}
      BY <1>0, <2>2, <2>3, <3>2 DEF LateInv
    <3> QED BY <1>2, <3>1, <3>2, RunTaskCloses DEF post_broken_msg_i
  <2>4. CASE /\ Task.op = "read" /\ ~Task.err /\ reads' = reads + 1
             /\ UNCHANGED <<m_is_broken, cut, socket>>
    <3>1. OpsIn("read")' = {} /\ Task \in OpsIn("read")
      BY <1>0, <2>1, <2>4 DEF ReadInv, ReadChain, TypeOK
    <3> QED BY <1>0, <2>4, <3>1 DEF LateInv
  <2> QED BY <1>2, <2>3, <2>4 DEF RunTask, read_complete_i, close_i, sync_write_i, write_complete_i
<1>3. CASE \E err \in BOOLEAN : ReadEnds(err)
  <2>1. PICK err \in BOOLEAN : ReadEnds(err)
    BY <1>3
  <2>2. UNCHANGED <<m_is_broken, cut, socket, reads>> /\ (~err => socket # "closed")
    BY <2>1 DEF ReadEnds
  <2>3. OpsIn("read")' = OpsIn("read") \cup {[op |-> "read", err |-> err]}
    BY <1>0, <2>1, TasksAppend, TaskFacts DEF ReadEnds
  <2> QED BY <1>0, <2>2, <2>3 DEF LateInv
<1>4. CASE \E err \in BOOLEAN : \E size \in 0..(IF writing = <<>> THEN 0 ELSE Head(writing)) :
             WriteEnds(err, size)
  <2>1. PICK err \in BOOLEAN, size \in 0..(IF writing = <<>> THEN 0 ELSE Head(writing)) :
               WriteEnds(err, size)
    BY <1>4
  <2>2. size \in Nat
    BY <1>0, <2>1, TailFacts, BoundsAreNat DEF WriteEnds, TypeOK
  <2>3. OpsIn("read")' = OpsIn("read")
    <3> DEFINE t == [op |-> "written", err |-> err, size |-> size]
    <3>1. t \in TaskType /\ t.op # "read" /\ tasks' = Append(tasks, t)
      BY <2>1, <2>2, TaskFacts DEF WriteEnds
    <3> HIDE DEF t
    <3>2. OpsIn("read")' = OpsIn("read") \cup IF t.op = "read" THEN {t} ELSE {}
      BY <1>0, <3>1, TasksAppend
    <3> QED BY <3>1, <3>2
  <2>4. UNCHANGED <<m_is_broken, cut, socket, reads>>
    BY <2>1 DEF WriteEnds
  <2> QED BY <1>0, <2>3, <2>4 DEF LateInv
<1> QED BY <1>1, <1>2, <1>3, <1>4 DEF Next, Asio, Bystander

-----------------------------------------------------------------------------
(* The monitor's requests.                                                 *)

\* n requests of one kind are behind those that waited.
LEMMA BeatSets ==
  ASSUME TypeOK, NEW kind \in {"update", "del"}, NEW n \in Nat, Beat(kind, n)
  PROVE  \/ beats' = beats /\ ~(OnlyMonitored /\ Started)
         \/ /\ OnlyMonitored /\ Started
            /\ \A x : x \in ToSet(beats) => x \in ToSet(beats')
            /\ \A x : x \in ToSet(beats') => x \in ToSet(beats) \/ x = kind
            /\ n > 0 => kind \in ToSet(beats')
            /\ AddsUndone(beats) \/ (kind = "del" /\ n > 0) => AddsUndone(beats')
<1> DEFINE t == [i \in 1..n |-> kind]
<1>1. kind \in BeatKind /\ beats \in Seq(BeatKind)
  BY DEF BeatKind, TypeOK
<1>2. CASE beats' = beats /\ ~(OnlyMonitored /\ Started)
  BY <1>2
<1>3. CASE OnlyMonitored /\ Started /\ beats' = beats \o t
  <2>1. t \in Seq(BeatKind) /\ Len(t) = n /\ \A i \in 1..n : t[i] = kind
    BY <1>1
  <2> HIDE DEF t
  <2>2. \A x : x \in ToSet(t) <=> n > 0 /\ x = kind
    <3>1. \A x : x \in ToSet(t) <=> \E i \in 1..Len(t) : t[i] = x
      BY <2>1, ToSetByIndex
    <3>2. n > 0 => 1 \in 1..n
      OBVIOUS
    <3>3. \A i \in 1..n : n > 0
      OBVIOUS
    <3> QED BY <2>1, <3>1, <3>2, <3>3
  <2>3. ToSet(beats') = ToSet(beats) \cup ToSet(t)
    BY <1>1, <1>3, <2>1, ConcatSet
  <2>4. AddsUndone(beats) \/ (kind = "del" /\ n > 0) => AddsUndone(beats')
    <3>1. "add" \notin ToSet(t)
      BY <2>2
    <3>2. Answered(beats, "add", "del") \/ "del" \in ToSet(t)
            => Answered(beats \o t, "add", "del")
      BY <1>1, <2>1, <3>1, AnsweredConcat
    <3> QED BY <1>3, <2>2, <3>2 DEF AddsUndone
  <2> QED BY <1>3, <2>2, <2>3, <2>4
<1> QED BY <1>2, <1>3 DEF Beat

LEMMA MonFrame ==
  ASSUME MonInv, UNCHANGED <<opener, announced, m_connect_type, m_status, beats, watched, refused, monitor, stops>>,
         CloseTask \in ToSet(tasks) => CloseTask \in ToSet(tasks')
  PROVE  MonInv'
BY DEF MonInv, OnlyMonitored, AddsUndone

LEMMA MonOpenStep ==
  ASSUME ConnInv, Open
  PROVE  MonInv'
<1> USE DEF open, writer, logic, hb, broken
<1>0. TypeOK /\ OpenInv /\ MonInv /\ beats \in Seq(BeatKind) /\ tasks' = tasks
  BY DEF ConnInv, TypeOK, BeatKind, Open, remote_open, monitor_add, reset, async_read, sync_connect
<1>1. ToSet(tasks') = ToSet(tasks)
  BY <1>0, SameTasks
<1>2. CASE monitor_add
  <2>1. /\ opener = "adding" /\ opener' = "resetting" /\ announced' = TRUE
        /\ UNCHANGED <<m_connect_type, m_status, watched, refused, monitor, stops>>
        /\ beats' = Append(beats, "add") /\ "add" \in BeatKind
    BY <1>2 DEF monitor_add, BeatKind
  <2>2. ToSet(beats') = ToSet(beats) \cup {"add"}
    BY <1>0, <2>1, AppendFacts
  <2>3. /\ m_connect_type = "passive" /\ m_use_monitor /\ m_status = "connected"
        /\ "del" \notin ToSet(beats) /\ ~announced
    BY <1>0, <2>1 DEF OpenInv, MonInv
  <2> QED BY <1>0, <2>1, <2>2, <2>3 DEF MonInv, OnlyMonitored
<1>3. CASE remote_open
  <2>1. ~announced /\ m_connect_type = "passive"
    BY <1>0, <1>3 DEF OpenInv, remote_open, Opening
  <2> QED BY <1>0, <1>3, <2>1 DEF MonInv, OnlyMonitored, remote_open, Opening, Started, TypeOK
<1>4. CASE sync_connect
  <2>1. ~announced
    BY <1>0, <1>4 DEF OpenInv, sync_connect, Opening
  <2> QED BY <1>0, <1>4, <2>1 DEF MonInv, OnlyMonitored, sync_connect, Opening
<1>5. CASE reset \/ async_read
  BY <1>0, <1>1, <1>5 DEF MonInv, OnlyMonitored, AddsUndone, reset, async_read, Opening
<1> QED BY <1>2, <1>3, <1>4, <1>5 DEF Open

\* A handler: a close undoes the add, the messages of a read change nothing.
LEMMA MonTaskStep ==
  ASSUME ConnInv, RunTask
  PROVE  MonInv'
<1> USE DEF open, writer, logic, hb, broken
<1>0. TypeOK /\ OpenInv /\ MonInv /\ beats \in Seq(BeatKind)
  BY DEF ConnInv, TypeOK, BeatKind
<1>1. /\ tasks # <<>> /\ tasks' = Tail(tasks) /\ opener \in {"resetting", "reading", "opened"}
      /\ UNCHANGED <<opener, announced, m_connect_type, watched, refused, monitor, stops>>
  BY RunTaskOpens DEF RunTask, read_complete_i, close_i, sync_write_i, write_complete_i
<1>2. Task.op # "close" => (CloseTask \in ToSet(tasks) => CloseTask \in ToSet(tasks'))
  BY <1>0, <1>1, TasksTail DEF CloseTask
<1>3. CASE m_status' = "disconnected" /\ Beat("del", 1)
  <2>1. CASE OnlyMonitored /\ Started
    <3>1. /\ \A x : x \in ToSet(beats') => x \in ToSet(beats) \/ x = "del"
          /\ "del" \in ToSet(beats') /\ AddsUndone(beats')
      BY <1>0, <1>3, <2>1, BeatSets
    <3> QED BY <1>0, <1>1, <1>3, <3>1 DEF MonInv, OnlyMonitored
  <2>2. CASE ~(OnlyMonitored /\ Started)
    <3>1. beats' = beats
      BY <1>3, <2>2 DEF Beat
    <3>2. stops = 0 => ~announced
      BY <1>0, <2>2 DEF MonInv, Started
    <3>3. stops = 0 => \A i \in 1..Len(beats) : beats[i] # "add"
      BY <1>0, <3>2, ToSetByIndex DEF MonInv
    <3> QED BY <1>0, <1>1, <1>3, <3>1, <3>2, <3>3 DEF MonInv, OnlyMonitored, AddsUndone, Answered
  <2> QED BY <2>1, <2>2
<1>4. ASSUME NEW n \in 0..MaxBatch, Beat("update", n), m_status' = m_status, Task.op = "read"
      PROVE  MonInv'
  <2>0. n \in Nat
    BY BoundsAreNat
  <2>1. CASE beats' = beats
    BY <1>0, <1>1, <1>2, <1>4, <2>1, MonFrame
  <2>2. CASE OnlyMonitored /\ Started
    <3>1. /\ \A x : x \in ToSet(beats) => x \in ToSet(beats')
          /\ \A x : x \in ToSet(beats') => x \in ToSet(beats) \/ x = "update"
          /\ AddsUndone(beats) => AddsUndone(beats')
      BY <1>0, <1>4, <2>0, <2>2, BeatSets
    <3> QED BY <1>0, <1>1, <1>2, <1>4, <3>1 DEF MonInv, OnlyMonitored
  <2> QED BY <1>4, <2>1, <2>2 DEF Beat
<1>5. CASE UNCHANGED <<m_status, beats>> /\ Task.op # "close"
  BY <1>0, <1>1, <1>2, <1>5, MonFrame
<1> QED BY <1>3, <1>4, <1>5 DEF RunTask, read_complete_i, close_i, sync_write_i, write_complete_i,
                                CloseOnError, sync_close_i, on_closed

LEMMA MonStep ==
  ASSUME ConnInv, [Next]_vars
  PROVE  MonInv'
<1> USE DEF open, writer, logic, hb, broken
<1>0. TypeOK /\ OpenInv /\ MonInv /\ beats \in Seq(BeatKind) /\ stops \in Nat
  BY DEF ConnInv, TypeOK, BeatKind
<1>1. CASE PeerLeaves \/ handle_msg \/ Call \/ UNCHANGED vars
  <2>1. \A t \in ToSet(tasks) : t \in ToSet(tasks')
    BY <1>0, <1>1, BystanderFacts DEF Bystander
  <2>2. UNCHANGED <<opener, announced, m_connect_type, m_status, beats, watched, refused, monitor, stops>>
    BY <1>1 DEF PeerLeaves, handle_msg, Call, vars
  <2> QED BY <1>0, <2>1, <2>2, MonFrame
<1>2. CASE Asio
  <2>1. UNCHANGED <<opener, announced, m_connect_type, m_status, beats, watched, refused, monitor, stops>>
    BY <1>2, Zenon DEF Asio, ReadEnds, WriteEnds
  <2>2. \E t : t \in TaskType /\ tasks' = Append(tasks, t)
    <3>1. CASE \E err \in BOOLEAN : ReadEnds(err)
      BY <3>1, TaskFacts DEF ReadEnds
    <3>2. CASE \E err \in BOOLEAN : \E size \in 0..(IF writing = <<>> THEN 0 ELSE Head(writing)) :
                 WriteEnds(err, size)
      <4>1. PICK err \in BOOLEAN, size \in 0..(IF writing = <<>> THEN 0 ELSE Head(writing)) :
                   WriteEnds(err, size)
        BY <3>2
      <4>2. size \in Nat
        BY <1>0, <4>1, TailFacts, BoundsAreNat DEF WriteEnds, TypeOK
      <4> QED BY <4>1, <4>2, TaskFacts DEF WriteEnds
    <3> QED BY <1>2, <3>1, <3>2 DEF Asio
  <2>3. CloseTask \in ToSet(tasks) => CloseTask \in ToSet(tasks')
    BY <1>0, <2>2, TasksAppend
  <2> QED BY <1>0, <2>1, <2>3, MonFrame
<1>3. CASE Monitor
  <2>0. /\ UNCHANGED <<opener, announced, m_connect_type, m_status>>
        /\ \A t \in ToSet(tasks) : t \in ToSet(tasks')
    BY <1>0, <1>3, BystanderFacts DEF Bystander, Monitor, RunBeat, Expel, close_all, stop_monitor,
                                      start_monitor
  <2>1. CASE RunBeat
    <3>1. /\ beats # <<>> /\ beats' = Tail(beats) /\ UNCHANGED <<monitor, stops>>
      BY <2>1 DEF RunBeat
    <3>2. ToSet(beats) = ToSet(beats') \cup {Head(beats)} /\ Head(beats) \in BeatKind
      BY <1>0, <3>1, TailSet, TailFacts
    <3>3. AddsUndone(beats) =>
            AddsUndone(beats') /\ (Head(beats) = "add" => "del" \in ToSet(beats'))
      BY <1>0, <3>1, AnsweredTail DEF AddsUndone
    <3> QED BY <1>0, <2>0, <2>1, <3>1, <3>2, <3>3, RunBeatFacts DEF MonInv, OnlyMonitored, BeatKind
  <2>2. CASE Expel
    <3>1. watched /\ ~watched' /\ handle_timeout /\ UNCHANGED <<beats, refused, monitor, stops>>
      BY <2>2 DEF Expel
    <3>2. stops = 0 => monitor = "on"
      BY <1>0, <3>1 DEF MonInv
    <3>3. stops = 0 => CloseTask \in ToSet(tasks')
      <4>1. stops = 0 => tasks' = Append(tasks, CloseTask)
        BY <3>1, <3>2 DEF handle_timeout, post, Started
      <4> QED BY <1>0, <4>1, TasksAppend, TaskFacts
    <3> QED BY <1>0, <2>0, <3>1, <3>3 DEF MonInv, OnlyMonitored, AddsUndone
  <2>3. CASE close_all
    <3>1. stops' = stops + 1 /\ beats' = Append(beats, "trigger") /\ watched' = watched
      BY <2>3 DEF close_all
    <3>2. ToSet(beats') = ToSet(beats) \cup {"trigger"}
      BY <1>0, <3>1, AppendFacts DEF BeatKind
    <3> QED BY <1>0, <2>0, <3>1, <3>2 DEF MonInv, OnlyMonitored
  <2>4. CASE stop_monitor \/ start_monitor
    BY <1>0, <2>0, <2>4 DEF MonInv, OnlyMonitored, AddsUndone, stop_monitor, start_monitor
  <2> QED BY <1>3, <2>1, <2>2, <2>3, <2>4 DEF Monitor
<1> QED BY <1>1, <1>2, <1>3, MonOpenStep, MonTaskStep DEF Next

-----------------------------------------------------------------------------
(* The writer.                                                             *)

LEMMA UnsentAppend ==
  ASSUME NEW q \in Seq(Data), NEW rq \in Seq(Data), NEW st \in Seq(Data), NEW x \in Data,
         NEW d \in 0..1, d <= Len(q), Unsent(q, rq, st, d)
  PROVE  Unsent(Append(q, x), Append(rq, x), st, d)
<1> DEFINE p == Append(q, x)
           rp == Append(rq, x)
<1>1. /\ Len(q) \in Nat /\ Len(rq) \in Nat /\ Len(st) \in Nat
      /\ Len(p) = Len(q) + 1 /\ Len(rp) = Len(rq) + 1
      /\ p[Len(q) + 1] = x /\ rp[Len(rq) + 1] = x
      /\ \A i \in 1..Len(q) : p[i] = q[i]
      /\ \A i \in 1..Len(rq) : rp[i] = rq[i]
  BY AppendFacts
<1>2. /\ Len(rq) = Len(st) + Len(q) - d
      /\ \A i \in 1..Len(q) - d : rq[Len(st) + i] = q[i + d]
  BY DEF Unsent
<1> HIDE DEF p, rp
<1>3. ASSUME NEW i \in 1..Len(p) - d PROVE rp[Len(st) + i] = p[i + d]
  <2>1. CASE i \in 1..Len(q) - d
    <3>1. Len(st) + i \in 1..Len(rq) /\ i + d \in 1..Len(q)
      BY <1>1, <1>2, <2>1
    <3> QED BY <1>1, <1>2, <2>1, <3>1
  <2>2. CASE i = Len(q) - d + 1
    <3>1. Len(st) + i = Len(rq) + 1 /\ i + d = Len(q) + 1
      BY <1>1, <1>2, <2>2
    <3> QED BY <1>1, <3>1
  <2> QED BY <1>1, <2>1, <2>2
<1>4. Len(rp) = Len(st) + Len(p) - d
  BY <1>1, <1>2
<1> QED BY <1>3, <1>4 DEF Unsent, p, rp

LEMMA UnsentTail ==
  ASSUME NEW q \in Seq(Data), NEW rq \in Seq(Data), NEW st \in Seq(Data), q # <<>>,
         Unsent(q, rq, st, 1)
  PROVE  Unsent(Tail(q), rq, st, 0)
<1> DEFINE p == Tail(q)
<1>1. /\ Len(q) \in Nat \ {0} /\ Len(st) \in Nat /\ Len(p) = Len(q) - 1
      /\ \A i \in 1..Len(q) - 1 : p[i] = q[i + 1]
  BY TailFacts
<1> HIDE DEF p
<1>2. Len(rq) = Len(st) + Len(p) - 0
  BY <1>1 DEF Unsent
<1>3. \A i \in 1..Len(p) - 0 : rq[Len(st) + i] = p[i + 0]
  BY <1>1 DEF Unsent
<1> QED BY <1>2, <1>3 DEF Unsent, p

LEMMA UnsentSent ==
  ASSUME NEW q \in Seq(Data), NEW rq \in Seq(Data), NEW st \in Seq(Data), q # <<>>,
         Unsent(q, rq, st, 0)
  PROVE  /\ Unsent(q, rq, Append(st, q[1]), 1)
         /\ Len(st) + 1 <= Len(rq) /\ rq[Len(st) + 1] = q[1]
<1> DEFINE sp == Append(st, q[1])
<1>1. Len(q) \in Nat \ {0} /\ Len(st) \in Nat /\ Len(sp) = Len(st) + 1
  BY TailFacts, AppendFacts
<1> HIDE DEF sp
<1>2. Len(rq) = Len(st) + Len(q) /\ \A i \in 1..Len(q) : rq[Len(st) + i] = q[i]
  BY <1>1 DEF Unsent
<1>3. Len(rq) = Len(sp) + Len(q) - 1
  BY <1>1, <1>2
<1>4. ASSUME NEW i \in 1..Len(q) - 1 PROVE rq[Len(sp) + i] = q[i + 1]
  <2>1. i + 1 \in 1..Len(q) /\ Len(sp) + i = Len(st) + (i + 1)
    BY <1>1
  <2> QED BY <1>2, <2>1
<1>5. Len(st) + 1 <= Len(rq) /\ 1 \in 1..Len(q)
  BY <1>1, <1>2
<1> QED BY <1>2, <1>3, <1>4, <1>5 DEF Unsent, sp

LEMMA WriteFrame ==
  ASSUME WriteInv, m_status' \in {m_status, "disconnected"},
         UNCHANGED <<writing, m_write_queue, m_is_writing, m_total_wait_write, requested, sent>>,
         Tasks("written")' = Tasks("written"), OpsIn("written")' = OpsIn("written")
  PROVE  WriteInv'
<1>1. Done' <=> Done
  BY DEF Done
<1>2. D' = D
  BY <1>1 DEF D
<1>3. WriteQueueSound'
  BY DEF WriteInv, WriteQueueSound, OneWriteOutstanding, TotalCoversQueue
<1> QED BY <1>2, <1>3 DEF WriteInv, Unsent

\* The parts of WriteInv, for the steps of the writer itself.
LEMMA WriteParts ==
  ASSUME TypeOK, WriteInv
  PROVE  /\ Len(writing) \in Nat /\ Tasks("written") \in Nat /\ m_is_writing \in BOOLEAN
         /\ Len(writing) + Tasks("written") = IF m_is_writing THEN 1 ELSE 0
         /\ m_is_writing => m_write_queue # <<>>
         /\ writing # <<>> => Head(writing) = Head(m_write_queue)
         /\ m_total_wait_write >= SumSeq(m_write_queue)
         /\ m_status = "connected" => m_total_wait_write = SumSeq(m_write_queue)
         /\ m_write_queue # <<>> /\ ~m_is_writing => m_status = "disconnected"
         /\ writing = <<>> <=> Len(writing) = 0
         /\ D \in 0..1
         /\ ~m_is_writing => writing = <<>> /\ OpsIn("written") = {} /\ D = 0
         /\ OpsIn("written") = {} => D = 0
<1>1. /\ Len(writing) \in Nat /\ m_is_writing \in BOOLEAN /\ (writing = <<>> <=> Len(writing) = 0)
      /\ Tasks("written") \in Nat /\ (Tasks("written") = 0 <=> OpsIn("written") = {})
  <2>1. Tasks("written") \in Nat /\ (Tasks("written") = 0 <=> OpsIn("written") = {})
    BY TasksCount
  <2>2. writing \in Seq(Data) /\ m_is_writing \in BOOLEAN
    BY DEF TypeOK
  <2> QED BY <2>1, <2>2
<1>2. /\ Len(writing) + Tasks("written") = IF m_is_writing THEN 1 ELSE 0
      /\ m_is_writing => m_write_queue # <<>>
      /\ writing # <<>> => Head(writing) = Head(m_write_queue)
      /\ m_total_wait_write >= SumSeq(m_write_queue)
      /\ m_status = "connected" => m_total_wait_write = SumSeq(m_write_queue)
      /\ m_write_queue # <<>> /\ ~m_is_writing => m_status = "disconnected"
  BY DEF WriteInv, WriteQueueSound, OneWriteOutstanding, TotalCoversQueue
<1>3. ~m_is_writing => writing = <<>> /\ OpsIn("written") = {}
  BY <1>1, <1>2
<1>4. D \in 0..1 /\ (OpsIn("written") = {} => D = 0)
  BY DEF D, Done
<1> QED BY <1>1, <1>2, <1>3, <1>4

\* Together again, after a step: counting the handlers of writes once.
LEMMA WriteJoin ==
  ASSUME (Len(writing) + Tasks("written") = IF m_is_writing THEN 1 ELSE 0)',
         (m_is_writing => m_write_queue # <<>>)',
         (writing # <<>> => Head(writing) = Head(m_write_queue))',
         TotalCoversQueue',
         (m_write_queue # <<>> /\ ~m_is_writing => m_status = "disconnected")',
         (\A t \in OpsIn("written") :
            IF t.err THEN t.size < m_write_queue[1] ELSE t.size = m_write_queue[1])',
         (Len(sent) <= Len(requested))',
         (\A i \in 1..Len(sent) : sent[i] = requested[i])',
         (m_status = "connected" => Unsent(m_write_queue, requested, sent, D))'
  PROVE  WriteInv'
BY DEF WriteInv, WriteQueueSound, OneWriteOutstanding

LEMMA SyncWriteStep ==
  ASSUME ConnInv, tasks # <<>>, sync_write_i
  PROVE  WriteInv'
<1> DEFINE d == Task.data
           q == m_write_queue
<1>0. TypeOK /\ WriteInv
  BY DEF ConnInv
<1>1. /\ tasks' = Tail(tasks) /\ Task.op = "write"
      /\ m_total_wait_write' = m_total_wait_write + d /\ q' = Append(q, d)
      /\ requested' = Append(requested, d) /\ sent' = sent /\ m_status' = m_status
      /\ \/ m_is_writing /\ UNCHANGED <<m_is_writing, writing>>
         \/ ~m_is_writing /\ start_sending_buffer_i(m_write_queue')
  BY DEF sync_write_i
<1>2. d \in Data /\ d \in Nat
  BY <1>0, <1>1, TasksTail, TaskFacts, BoundsAreNat
<1>3. Tasks("written")' = Tasks("written") /\ OpsIn("written")' = OpsIn("written")
  <2>1. /\ Tasks("written") = (IF Task.op = "written" THEN 1 ELSE 0) + Tasks("written")'
        /\ Tasks("written")' \in Nat
        /\ OpsIn("written") = OpsIn("written")' \cup IF Task.op = "written" THEN {Task} ELSE {}
    BY <1>0, <1>1, TasksTail
  <2> QED BY <1>1, <2>1
<1>4. D' = D
  BY <1>3 DEF D, Done
<1>5. /\ q \in Seq(Data) /\ q \in Seq(Nat) /\ requested \in Seq(Data) /\ sent \in Seq(Data)
      /\ m_total_wait_write \in Nat /\ SumSeq(q) \in Nat
  BY <1>0, WriterFacts
<1>6. /\ Len(q') = Len(q) + 1 /\ Len(q) \in Nat /\ Len(requested') = Len(requested) + 1
      /\ Len(requested) \in Nat /\ Len(sent) \in Nat /\ q' \in Seq(Data) /\ q' # <<>>
      /\ \A i \in 1..Len(requested) : requested'[i] = requested[i]
      /\ q # <<>> => q'[1] = q[1] /\ Head(q') = Head(q)
      /\ Head(q') = q'[1]
  BY <1>1, <1>2, <1>5
<1>7. SumSeq(q') = SumSeq(q) + d
  BY <1>1, <1>2, <1>5, SumAppend
<1>8. TotalCoversQueue'
  BY <1>0, <1>1, <1>2, <1>5, <1>7, WriteParts DEF TotalCoversQueue
<1>9. (m_status = "connected" => Unsent(m_write_queue, requested, sent, D))'
  <2> SUFFICES ASSUME m_status = "connected" PROVE Unsent(q', requested', sent', D')
    BY <1>1
  <2>1. Unsent(q, requested, sent, D)
    BY <1>0 DEF WriteInv
  <2>2. D \in 0..1 /\ D <= Len(q)
    <3>1. CASE m_is_writing
      <4>1. Len(q) \in Nat \ {0}
        BY <1>0, <1>5, <3>1, WriteParts
      <4> QED BY <1>0, <4>1, WriteParts
    <3>2. CASE ~m_is_writing
      BY <1>0, <1>6, <3>2, WriteParts
    <3> QED BY <3>1, <3>2
  <2>3. Unsent(Append(q, d), Append(requested, d), sent, D)
    BY <1>2, <1>5, <2>1, <2>2, UnsentAppend
  <2> QED BY <1>1, <1>4, <2>3
<1>10. /\ (Len(sent) <= Len(requested))'
       /\ (\A i \in 1..Len(sent) : sent[i] = requested[i])'
  BY <1>0, <1>1, <1>6 DEF WriteInv
<1>11. CASE m_is_writing /\ UNCHANGED <<m_is_writing, writing>>
  <2>1. q # <<>>
    BY <1>0, <1>11, WriteParts
  <2>2. (\A t \in OpsIn("written") : IF t.err THEN t.size < q[1] ELSE t.size = q[1])'
    BY <1>0, <1>3, <1>6, <2>1 DEF WriteInv
  <2>3. /\ (Len(writing) + Tasks("written") = IF m_is_writing THEN 1 ELSE 0)'
        /\ (writing # <<>> => Head(writing) = Head(q))'
    BY <1>0, <1>3, <1>6, <1>11, <2>1, WriteParts
  <2> QED BY <1>6, <1>8, <1>9, <1>10, <1>11, <2>2, <2>3, WriteJoin
<1>12. CASE ~m_is_writing /\ start_sending_buffer_i(m_write_queue')
  <2>1. writing = <<>> /\ OpsIn("written") = {} /\ Tasks("written") = 0
    BY <1>0, <1>12, WriteParts, TasksCount
  <2>2. m_is_writing' = TRUE /\ writing' = Append(<<>>, Head(q'))
    BY <1>6, <1>12, <2>1 DEF start_sending_buffer_i
  <2>3. Len(writing') = 1 /\ Head(writing') = Head(q')
    BY <2>2
  <2>4. (\A t \in OpsIn("written") : IF t.err THEN t.size < q[1] ELSE t.size = q[1])'
    BY <1>3, <2>1
  <2>5. (Len(writing) + Tasks("written") = IF m_is_writing THEN 1 ELSE 0)'
    BY <1>3, <2>1, <2>2, <2>3
  <2> QED BY <1>6, <1>8, <1>9, <1>10, <2>2, <2>3, <2>4, <2>5, WriteJoin
<1> QED BY <1>1, <1>11, <1>12

LEMMA WriteCompleteStep ==
  ASSUME ConnInv, tasks # <<>>, write_complete_i
  PROVE  WriteInv'
<1> DEFINE q == m_write_queue
<1>0. TypeOK /\ WriteInv /\ OpenInv /\ opener # "fresh"
  BY NotYet DEF ConnInv
<1>1. /\ tasks' = Tail(tasks) /\ Task.op = "written"
      /\ m_total_wait_write' = m_total_wait_write - Task.size /\ q' = Tail(q)
      /\ requested' = requested /\ sent' = sent
      /\ \/ Task.err /\ CloseOnError /\ m_is_writing' = FALSE /\ UNCHANGED writing
         \/ ~Task.err /\ start_sending_buffer_i(m_write_queue') /\ m_status' = m_status
  BY DEF write_complete_i
<1>2. /\ Task.err \in BOOLEAN /\ Task.size \in Nat /\ Task \in OpsIn("written")
      /\ q # <<>> /\ writing = <<>> /\ Tasks("written") = 1
  BY <1>0, <1>1, WrittenFacts
<1>3. Tasks("written")' = 0 /\ OpsIn("written")' = {}
  <2>1. /\ Tasks("written") = (IF Task.op = "written" THEN 1 ELSE 0) + Tasks("written")'
        /\ Tasks("written")' \in Nat /\ (Tasks("written")' = 0 => OpsIn("written")' = {})
    BY <1>0, <1>1, TasksTail
  <2> QED BY <1>1, <1>2, <2>1
<1>4. D' = 0
  BY <1>3 DEF D, Done
<1>5. /\ q \in Seq(Data) /\ q' \in Seq(Data) /\ requested \in Seq(Data) /\ sent \in Seq(Data)
      /\ m_total_wait_write \in Nat /\ SumSeq(q) \in Nat /\ m_total_wait_write >= SumSeq(q)
      /\ SumSeq(q') \in Nat /\ SumSeq(q) = q[1] + SumSeq(q') /\ q[1] \in Nat
  BY <1>0, <1>1, <1>2, WriterFacts
<1>6. IF Task.err THEN Task.size < q[1] ELSE Task.size = q[1]
  BY <1>0, <1>2 DEF WriteInv
<1>7. /\ (Len(sent) <= Len(requested))'
      /\ (\A i \in 1..Len(sent) : sent[i] = requested[i])'
  BY <1>0, <1>1 DEF WriteInv
<1>8. (\A t \in OpsIn("written") : IF t.err THEN t.size < q[1] ELSE t.size = q[1])'
  BY <1>3
<1>9. CASE Task.err /\ CloseOnError /\ m_is_writing' = FALSE /\ UNCHANGED writing
  <2>1. m_status' = "disconnected"
    BY <1>0, <1>9, CloseOnErrorFacts
  <2>2. TotalCoversQueue'
    BY <1>1, <1>2, <1>5, <1>6, <1>9, <2>1 DEF TotalCoversQueue
  <2>3. writing' = <<>> /\ Len(writing') = 0
    BY <1>2, <1>9
  <2> QED BY <1>3, <1>7, <1>8, <1>9, <2>1, <2>2, <2>3, WriteJoin
<1>10. CASE ~Task.err /\ start_sending_buffer_i(m_write_queue') /\ m_status' = m_status
  <2>1. Task.size = q[1] /\ D = 1
    BY <1>2, <1>6, <1>10 DEF D, Done
  <2>2. TotalCoversQueue'
    BY <1>0, <1>1, <1>5, <1>10, <2>1, WriteParts DEF TotalCoversQueue
  <2>3. (m_status = "connected" => Unsent(m_write_queue, requested, sent, D))'
    <3> SUFFICES ASSUME m_status = "connected" PROVE Unsent(q', requested, sent, 0)
      BY <1>1, <1>4, <1>10
    <3>1. Unsent(q, requested, sent, 1)
      BY <1>0, <2>1 DEF WriteInv
    <3> QED BY <1>1, <1>2, <1>5, <3>1, UnsentTail
  <2>4. CASE q' = <<>>
    <3>1. m_is_writing' = FALSE /\ writing' = <<>> /\ Len(writing') = 0
      BY <1>2, <1>10, <2>4 DEF start_sending_buffer_i
    <3> QED BY <1>3, <1>7, <1>8, <2>2, <2>3, <2>4, <3>1, WriteJoin
  <2>5. CASE q' # <<>>
    <3>1. m_is_writing' = TRUE /\ writing' = Append(<<>>, Head(q'))
      BY <1>2, <1>10, <2>5 DEF start_sending_buffer_i
    <3>2. Len(writing') = 1 /\ Head(writing') = Head(q')
      BY <3>1
    <3> QED BY <1>3, <1>7, <1>8, <2>2, <2>3, <2>5, <3>1, <3>2, WriteJoin
  <2> QED BY <2>4, <2>5
<1> QED BY <1>1, <1>9, <1>10

LEMMA WriteEndsStep ==
  ASSUME ConnInv, NEW err \in BOOLEAN,
         NEW size \in 0..(IF writing = <<>> THEN 0 ELSE Head(writing)), WriteEnds(err, size)
  PROVE  WriteInv'
<1> DEFINE q == m_write_queue
           t == [op |-> "written", err |-> err, size |-> size]
<1>0. TypeOK /\ WriteInv /\ OpenInv /\ opener # "fresh"
  BY NotYet DEF ConnInv, WriteEnds
<1>1. /\ writing # <<>> /\ writing' = Tail(writing) /\ tasks' = Append(tasks, t)
      /\ err => size < Head(writing)
      /\ ~err => socket # "closed" /\ size = Head(writing)
      /\ sent' = IF err THEN sent ELSE Append(sent, Head(writing))
      /\ UNCHANGED <<m_status, m_write_queue, m_is_writing, m_total_wait_write, requested>>
  BY DEF WriteEnds
<1>2. /\ Len(writing) = 1 /\ Tasks("written") = 0 /\ m_is_writing = TRUE /\ q # <<>>
      /\ Head(writing) = q[1] /\ OpsIn("written") = {} /\ D = 0 /\ q[1] \in Nat /\ q[1] \in Data
  <2>0. /\ Len(writing) \in Nat /\ Tasks("written") \in Nat /\ m_is_writing \in BOOLEAN
        /\ Len(writing) + Tasks("written") = IF m_is_writing THEN 1 ELSE 0
        /\ Len(writing) # 0
    BY <1>0, <1>1, WriteParts
  <2>1. Len(writing) = 1 /\ Tasks("written") = 0 /\ m_is_writing = TRUE
    <3>1. CASE m_is_writing = FALSE
      <4>1. Len(writing) + Tasks("written") = 0
        BY <2>0, <3>1
      <4> QED BY <2>0, <4>1
    <3>2. CASE m_is_writing = TRUE
      <4>1. Len(writing) + Tasks("written") = 1
        BY <2>0, <3>2
      <4> QED BY <2>0, <3>2, <4>1
    <3> QED BY <2>0, <3>1, <3>2
  <2>2. q # <<>> /\ Head(writing) = q[1] /\ q[1] \in Nat /\ q[1] \in Data
    BY <1>0, <1>1, <2>1, WriteParts, WriterFacts
  <2>3. OpsIn("written") = {}
    BY <1>0, <2>1, TasksCount
  <2> QED BY <1>0, <2>1, <2>2, <2>3, WriteParts
<1>3. size \in Nat
  BY <1>1, <1>2
<1>4. t \in TaskType /\ t.op = "written" /\ t.err = err /\ t.size = size
  BY <1>3, TaskFacts
<1> HIDE DEF t
<1>5. Tasks("written")' = 1 /\ OpsIn("written")' = {t}
  <2>1. /\ Tasks("written")' = Tasks("written") + IF t.op = "written" THEN 1 ELSE 0
        /\ OpsIn("written")' = OpsIn("written") \cup IF t.op = "written" THEN {t} ELSE {}
    BY <1>0, <1>1, <1>4, TasksAppend
  <2> QED BY <1>2, <1>4, <2>1
<1>6. D' = IF err THEN 0 ELSE 1
  <2>1. Done' <=> ~err
    BY <1>4, <1>5 DEF Done
  <2> QED BY <2>1 DEF D
<1>7. writing' = <<>> /\ Len(writing') = 0
  <2>1. writing \in Seq(Data)
    BY <1>0, WriterFacts
  <2> QED BY <1>1, <1>2, <2>1
<1>8. TotalCoversQueue'
  BY <1>0, <1>1 DEF WriteInv, WriteQueueSound, TotalCoversQueue
<1>9. (\A u \in OpsIn("written") : IF u.err THEN u.size < q[1] ELSE u.size = q[1])'
  BY <1>1, <1>2, <1>4, <1>5
<1>10. (m_write_queue # <<>> /\ ~m_is_writing => m_status = "disconnected")'
       /\ (Len(writing) + Tasks("written") = IF m_is_writing THEN 1 ELSE 0)'
  BY <1>1, <1>2, <1>5, <1>7
<1>11. CASE err
  <2>1. sent' = sent /\ D' = D
    BY <1>1, <1>2, <1>6, <1>11
  <2>2. (m_status = "connected" => Unsent(m_write_queue, requested, sent, D))'
    BY <1>0, <1>1, <2>1 DEF WriteInv
  <2>3. /\ (Len(sent) <= Len(requested))'
        /\ (\A i \in 1..Len(sent) : sent[i] = requested[i])'
    BY <1>0, <1>1, <2>1 DEF WriteInv
  <2> QED BY <1>1, <1>2, <1>7, <1>8, <1>9, <1>10, <2>2, <2>3, WriteJoin
<1>12. CASE ~err
  <2>1. sent' = Append(sent, q[1]) /\ D' = 1 /\ m_status = "connected"
    BY <1>0, <1>1, <1>2, <1>6, <1>12 DEF OpenInv
  <2>2. q \in Seq(Data) /\ requested \in Seq(Data) /\ sent \in Seq(Data)
    BY <1>0, WriterFacts
  <2>3. Unsent(q, requested, sent, 0)
    BY <1>0, <1>2, <2>1 DEF WriteInv
  <2>4. /\ Unsent(q, requested, Append(sent, q[1]), 1)
        /\ Len(sent) + 1 <= Len(requested) /\ requested[Len(sent) + 1] = q[1]
    BY <1>2, <2>2, <2>3, UnsentSent
  <2>5. (m_status = "connected" => Unsent(m_write_queue, requested, sent, D))'
    BY <1>1, <2>1, <2>4
  <2>6. /\ Len(sent') = Len(sent) + 1 /\ Len(sent) \in Nat /\ sent'[Len(sent) + 1] = q[1]
        /\ \A i \in 1..Len(sent) : sent'[i] = sent[i]
    BY <1>2, <2>1, <2>2
  <2>7. (Len(sent) <= Len(requested))'
    BY <1>1, <2>4, <2>6
  <2>8. (\A i \in 1..Len(sent) : sent[i] = requested[i])'
    <3> SUFFICES ASSUME NEW i \in 1..Len(sent') PROVE sent'[i] = requested[i]
      BY <1>1
    <3>1. CASE i = Len(sent) + 1
      BY <2>4, <2>6, <3>1
    <3>2. CASE i \in 1..Len(sent)
      BY <1>0, <2>6, <3>2 DEF WriteInv
    <3> QED BY <2>6, <3>1, <3>2
  <2> QED BY <1>1, <1>2, <1>7, <1>8, <1>9, <1>10, <2>5, <2>7, <2>8, WriteJoin
<1> QED BY <1>11, <1>12

\* A connection that opens has nothing to write.
LEMMA WriteOpenStep ==
  ASSUME ConnInv, Open
  PROVE  WriteInv'
<1> USE DEF open, writer, logic, hb, broken
<1>0. TypeOK /\ WriteInv /\ OpenInv
  BY DEF ConnInv
<1>1. /\ UNCHANGED <<writing, m_write_queue, m_is_writing, m_total_wait_write, requested, sent>>
      /\ Tasks("written")' = Tasks("written") /\ OpsIn("written")' = OpsIn("written")
  BY <1>0, BystanderFacts DEF Bystander
<1>2. CASE m_status' = m_status
  BY <1>0, <1>1, <1>2, WriteFrame
<1>3. CASE opener = "fresh"
  <2>1. /\ m_write_queue = <<>> /\ m_is_writing = FALSE /\ m_total_wait_write = 0
        /\ sent = <<>> /\ requested = <<>> /\ writing = <<>> /\ Tasks("written") = 0
    BY <1>0, <1>3, NotYet DEF OpenInv
  <2>2. OpsIn("written") = {} /\ D' = 0
    <3>1. OpsIn("written") = {}
      BY <1>0, <2>1, TasksCount
    <3> QED BY <1>1, <3>1 DEF D, Done
  <2>3. TotalCoversQueue'
    BY <1>1, <2>1, SumEmpty DEF TotalCoversQueue
  <2>4. Unsent(<<>>, <<>>, <<>>, 0)
    BY DEF Unsent
  <2> QED BY <1>1, <2>1, <2>2, <2>3, <2>4, WriteJoin
<1> QED BY <1>2, <1>3 DEF Open, remote_open, monitor_add, reset, async_read, sync_connect, Opening

LEMMA WriteStep ==
  ASSUME ConnInv, [Next]_vars
  PROVE  WriteInv'
<1> USE DEF open, writer, logic, hb, broken
<1>0. TypeOK /\ WriteInv /\ OpenInv
  BY DEF ConnInv
<1>1. CASE PeerLeaves \/ handle_msg \/ Call \/ Monitor \/ UNCHANGED vars
  <2>1. /\ UNCHANGED <<writing, m_write_queue, m_is_writing, m_total_wait_write, requested, sent>>
        /\ Tasks("written")' = Tasks("written") /\ OpsIn("written")' = OpsIn("written")
    BY <1>0, <1>1, BystanderFacts DEF Bystander
  <2>2. m_status' = m_status
    BY <1>1 DEF PeerLeaves, handle_msg, Call, Monitor, RunBeat, Expel, close_all, stop_monitor,
                start_monitor, vars
  <2> QED BY <1>0, <2>1, <2>2, WriteFrame
<1>2. CASE tasks # <<>> /\ (read_complete_i \/ close_i)
  <2>1. RunTask
    BY <1>2 DEF RunTask
  <2>2. /\ UNCHANGED <<writing, m_write_queue, m_is_writing, m_total_wait_write, requested, sent>>
        /\ tasks' = Tail(tasks) /\ Task.op # "written"
    BY <1>2 DEF read_complete_i, close_i
  <2>3. /\ Tasks("written") = (IF Task.op = "written" THEN 1 ELSE 0) + Tasks("written")'
        /\ Tasks("written")' \in Nat
        /\ OpsIn("written") = OpsIn("written")' \cup IF Task.op = "written" THEN {Task} ELSE {}
    BY <1>0, <1>2, <2>2, TasksTail
  <2>4. Tasks("written")' = Tasks("written") /\ OpsIn("written")' = OpsIn("written")
    <3>1. OpsIn("written")' = OpsIn("written")
      BY <2>2, <2>3
    <3>2. Tasks("written")' = Tasks("written")
      BY <2>2, <2>3
    <3> QED BY <3>1, <3>2
  <2>5. m_status' \in {m_status, "disconnected"}
    BY <2>1, RunTaskCloses
  <2> QED BY <1>0, <2>2, <2>4, <2>5, WriteFrame
<1>3. CASE \E err \in BOOLEAN : ReadEnds(err)
  <2>1. PICK err \in BOOLEAN : ReadEnds(err)
    BY <1>3
  <2> DEFINE t == [op |-> "read", err |-> err]
  <2>2. t \in TaskType /\ t.op # "written" /\ tasks' = Append(tasks, t)
    BY <2>1, TaskFacts DEF ReadEnds
  <2> HIDE DEF t
  <2>3. /\ Tasks("written")' = Tasks("written") + IF t.op = "written" THEN 1 ELSE 0
        /\ OpsIn("written")' = OpsIn("written") \cup IF t.op = "written" THEN {t} ELSE {}
    BY <1>0, <2>2, TasksAppend
  <2>4. Tasks("written")' = Tasks("written") /\ OpsIn("written")' = OpsIn("written")
    <3>1. OpsIn("written")' = OpsIn("written")
      BY <2>2, <2>3
    <3>2. Tasks("written") \in Nat
      BY <1>0, TasksCount
    <3>3. Tasks("written")' = Tasks("written")
      BY <2>2, <2>3, <3>2
    <3> QED BY <3>1, <3>3
  <2> QED BY <1>0, <2>1, <2>4, WriteFrame DEF ReadEnds
<1>4. CASE \E err \in BOOLEAN : \E size \in 0..(IF writing = <<>> THEN 0 ELSE Head(writing)) :
             WriteEnds(err, size)
  BY <1>4, WriteEndsStep
<1> QED BY <1>1, <1>2, <1>3, <1>4, SyncWriteStep, WriteCompleteStep, WriteOpenStep
        DEF Next, RunTask, Asio

-----------------------------------------------------------------------------
(* The theorems.                                                           *)

LEMMA InitInv == Init => ConnInv
<1> SUFFICES ASSUME Init PROVE ConnInv
  OBVIOUS
<1>1. TypeOK
  <2>1. <<>> \in Seq(Data) /\ <<>> \in Seq(TaskType) /\ <<>> \in Seq({"msg", "broken"})
        /\ <<>> \in Seq({"add", "update", "del", "trigger"})
    OBVIOUS
  <2>2. /\ {writing, m_write_queue, requested, sent} \subseteq Seq(Data)
        /\ {brokens, cut, reads, calls, stops} \subseteq Nat
    BY <2>1 DEF Init
  <2> QED BY <2>1, <2>2 DEF Init, TypeOK
<1>2. OpsIn("read") = {} /\ OpsIn("written") = {} /\ ToSet(beats) = {}
  BY DEF Init, OpsIn, ToSet
<1>3. Tasks("read") = 0 /\ Tasks("written") = 0
  BY <1>1, <1>2, TasksCount
<1>4. OpenInv
  BY DEF Init, OpenInv
<1>5. WriteInv
  BY <1>2, <1>3, SumEmpty DEF Init, WriteInv, WriteQueueSound, OneWriteOutstanding, TotalCoversQueue
<1>6. ReadInv
  BY <1>3 DEF Init, ReadInv, ReadChain
<1>7. BrokenInv /\ LateInv
  BY DEF Init, BrokenInv, LateInv
<1>8. MonInv
  BY <1>2 DEF Init, MonInv
<1> QED BY <1>1, <1>4, <1>5, <1>6, <1>7, <1>8 DEF ConnInv

LEMMA NextInv == ConnInv /\ [Next]_vars => ConnInv'
BY TypeInv, OpenStep, WriteStep, ReadStep, BrokenStep, LateStep, MonStep DEF ConnInv

\* ConnInv is an invariant of the connection.
THEOREM ConnInvariant == Spec => []ConnInv
BY InitInv, NextInv, PTL DEF Spec

\* Whatever the threads do, every variable of the connection keeps its type; for
\* m_total_wait_write, an unsigned counter, this says that it never wraps.
THEOREM ConnecterTypeCorrect == Spec => []TypeOK
<1>1. ConnInv => TypeOK
  BY DEF ConnInv
<1> QED BY <1>1, ConnInvariant, PTL

\* One async_write is outstanding at a time and for the string at the front of
\* m_write_queue, the counter covers the queue, and only a dead connection leaves
\* data without a write (rpc_connecter.cpp:80-118).
THEOREM WriteQueueCorrect == Spec => []WriteQueueSound
<1>1. ConnInv => WriteQueueSound
  BY DEF ConnInv, WriteInv
<1> QED BY <1>1, ConnInvariant, PTL

\* The strings on the wire are the first of those sync_write_i was given, in that
\* order, none twice and none left out, whenever the connection dies.
THEOREM SentInOrderCorrect == Spec => []SentInOrder
<1>1. ConnInv => SentInOrder
  <2> SUFFICES ASSUME ConnInv PROVE SentInOrder
    OBVIOUS
  <2>1. /\ sent \in Seq(Data) /\ requested \in Seq(Data) /\ Len(sent) <= Len(requested)
        /\ \A i \in 1..Len(sent) : sent[i] = requested[i]
    BY DEF ConnInv, TypeOK, WriteInv
  <2> QED BY <2>1 DEF SentInOrder, IsPrefix
<1> QED BY <1>1, ConnInvariant, PTL

\* At most one async_read_some is outstanding or about to be handled, and exactly
\* one as long as an opened connection lives.
THEOREM ReadChainCorrect == Spec => []ReadChain
<1>1. ConnInv => ReadChain
  BY DEF ConnInv, ReadInv
<1> QED BY <1>1, ConnInvariant, PTL

\* The broken message is posted once; twice only after a close that overtook the
\* reset() of on_remote_open.
THEOREM BrokenOnceCorrect == Spec => []BrokenOnce
<1>1. ConnInv => BrokenOnce
  <2> SUFFICES ASSUME ConnInv PROVE BrokenOnce
    OBVIOUS
  <2>1. /\ brokens \in Nat
        /\ IF m_is_broken THEN brokens = 1 \/ (early /\ brokens = 2)
                          ELSE brokens = 0 \/ (early /\ brokens = 1)
    BY DEF ConnInv, TypeOK, BrokenInv
  <2> QED BY <2>1 DEF BrokenOnce
<1> QED BY <1>1, ConnInvariant, PTL

\* At most one read is handled after the broken message was posted.
THEOREM OneLateReadCorrect == Spec => []OneLateRead
<1>1. ConnInv => OneLateRead
  BY DEF ConnInv, LateInv, OneLateRead
<1> QED BY <1>1, ConnInvariant, PTL

\* As long as the monitor is not stopped it watches the live connection that was
\* announced to it, and lets go of a closed one.
THEOREM MonitorAgreesCorrect == Spec => []MonitorAgrees
<1>1. ConnInv => MonitorAgrees
  <2> SUFFICES ASSUME ConnInv PROVE MonitorAgrees
    OBVIOUS
  <2>1. MonInv /\ (beats = <<>> => "del" \notin ToSet(beats))
    BY DEF ConnInv, ToSet
  <2> QED BY <2>1 DEF MonInv, MonitorAgrees
<1> QED BY <1>1, ConnInvariant, PTL

-----------------------------------------------------------------------------
(* The connection is a channel.  Beyond ConnInv: the broken message and    *)
(* the end of the connection go together, a close that came early leaves   *)
(* nothing to read, and as long as the connection is being opened the      *)
(* application does not know it.                                           *)

EndInv ==
  /\ opener # "opened" => reads = 0
  /\ cut <= reads
  /\ m_status = "connected" => brokens = 0
  /\ m_status = "disconnected" => opener = "fresh" \/ brokens > 0
  /\ early =>
       /\ opener # "fresh" /\ m_status = "disconnected" /\ reads = 0
       /\ \A t \in OpsIn("read") : t.err
  /\ opener \in {"adding", "resetting"} /\ m_status = "connected" =>
       inbox = <<>> /\ ~held /\ m_write_queue = <<>> /\ OpsIn("write") = {}

\* What a connection without a broken message, or with one, knows of it.
LEMMA EndFacts ==
  ASSUME ConnInv, EndInv
  PROVE  /\ reads \in Nat /\ cut \in Nat /\ brokens \in Nat /\ brokens <= 2
         /\ early \in BOOLEAN /\ m_is_broken \in BOOLEAN
         /\ m_status = "connected" => ~m_is_broken /\ ~early /\ brokens = 0 /\ opener # "fresh"
         /\ opener # "fresh" /\ m_status = "disconnected" /\ ~m_is_broken => early /\ brokens = 1
         /\ opener = "fresh" => ~m_is_broken /\ ~early /\ brokens = 0 /\ m_status = "disconnected"
<1>0. TypeOK /\ OpenInv /\ BrokenInv /\ EndInv
  BY DEF ConnInv
<1>1. /\ reads \in Nat /\ cut \in Nat /\ brokens \in Nat
      /\ early \in BOOLEAN /\ m_is_broken \in BOOLEAN
  BY <1>0 DEF TypeOK
<1>2. IF m_is_broken THEN brokens = 1 \/ (early /\ brokens = 2)
                     ELSE brokens = 0 \/ (early /\ brokens = 1)
  BY <1>0 DEF BrokenInv
<1>3. brokens <= 2
  BY <1>1, <1>2
<1>4. ASSUME m_status = "connected"
      PROVE  ~m_is_broken /\ ~early /\ brokens = 0 /\ opener # "fresh"
  <2>1. brokens = 0 /\ ~early
    BY <1>0, <1>4 DEF EndInv
  <2>2. opener # "fresh"
    BY <1>0, <1>4 DEF OpenInv
  <2>3. ~m_is_broken
    BY <1>2, <2>1
  <2> QED BY <2>1, <2>2, <2>3
<1>5. ASSUME opener # "fresh", m_status = "disconnected", ~m_is_broken
      PROVE  early /\ brokens = 1
  <2>1. brokens > 0
    BY <1>0, <1>5 DEF EndInv
  <2> QED BY <1>1, <1>2, <1>5, <2>1
<1>6. opener = "fresh" => ~m_is_broken /\ ~early /\ brokens = 0 /\ m_status = "disconnected"
  BY <1>0 DEF OpenInv, BrokenInv, EndInv
<1> QED BY <1>1, <1>3, <1>4, <1>5, <1>6

\* As long as the connection is being opened nothing is written.
LEMMA NothingToWrite ==
  ASSUME ConnInv, EndInv, opener \in {"adding", "resetting"}, m_status = "connected"
  PROVE  writing = <<>> /\ OpsIn("written") = {} /\ OpsIn("read") = {} /\ OpsIn("write") = {}
<1>0. TypeOK /\ WriteInv /\ ReadInv
  BY DEF ConnInv
<1>1. m_write_queue = <<>> /\ OpsIn("write") = {}
  BY DEF EndInv
<1>2. /\ Len(writing) \in Nat /\ Tasks("written") \in Nat /\ Len(writing) + Tasks("written") = 0
      /\ Tasks("read") \in Nat /\ reading \in Nat /\ reading + Tasks("read") = 0
  <2>1. Len(writing) + Tasks("written") = 0
    BY <1>0, <1>1 DEF WriteInv, WriteQueueSound, OneWriteOutstanding, TypeOK
  <2>2. reading + Tasks("read") = 0
    BY <1>0 DEF ReadInv
  <2>3. Tasks("written") \in Nat /\ Tasks("read") \in Nat
    BY <1>0, TasksCount
  <2>4. Len(writing) \in Nat /\ reading \in Nat
    BY <1>0 DEF TypeOK
  <2> QED BY <2>1, <2>2, <2>3, <2>4
<1>3. Len(writing) = 0 /\ Tasks("written") = 0 /\ Tasks("read") = 0
  BY <1>2
<1>4. writing = <<>>
  BY <1>0, <1>3 DEF TypeOK
<1> QED BY <1>0, <1>1, <1>3, <1>4, TasksCount

\* What a handler of m_io_service does to the channel: it ends it, brings messages, takes
\* a string to write, or leaves it alone.
Ends    == m_status' = "disconnected" /\ post_broken_msg_i /\ UNCHANGED <<reads, requested>>
Brings  == /\ Task.op = "read" /\ ~Task.err /\ reads' = reads + 1
           /\ \E n \in 0..MaxBatch : inbox' = inbox \o [i \in 1..n |-> "msg"]
           /\ UNCHANGED <<m_status, m_is_broken, brokens, early, cut, requested>>
Asks    == /\ Task.op = "write" /\ requested' = Append(requested, Task.data)
           /\ UNCHANGED <<m_status, m_is_broken, brokens, early, cut, reads, inbox>>
Ignores == /\ Task.op \in {"read", "written"}
           /\ UNCHANGED <<m_status, m_is_broken, brokens, early, cut, reads, inbox, requested>>

LEMMA TaskCases ==
  ASSUME RunTask
  PROVE  /\ tasks # <<>> /\ tasks' = Tail(tasks) /\ UNCHANGED <<opener, held, sent>>
         /\ Ends \/ Brings \/ Asks \/ Ignores
<1> USE DEF open, writer, logic, hb, broken
<1>1. CASE read_complete_i
  <2>1. CASE CloseOnError /\ UNCHANGED reads
    BY <1>1, <2>1 DEF RunTask, read_complete_i, CloseOnError, sync_close_i, on_closed, Ends, Ignores
  <2>2. CASE ~Task.err /\ reads' = reads + 1
    BY <1>1, <2>2 DEF RunTask, read_complete_i, Brings
  <2> QED BY <1>1, <2>1, <2>2 DEF read_complete_i
<1>2. CASE close_i
  BY <1>2 DEF RunTask, close_i, sync_close_i, on_closed, Ends
<1>3. CASE sync_write_i
  BY <1>3 DEF RunTask, sync_write_i, Asks
<1>4. CASE write_complete_i
  <2>1. CASE CloseOnError
    BY <1>4, <2>1 DEF RunTask, write_complete_i, CloseOnError, sync_close_i, on_closed, Ends, Ignores
  <2>2. CASE UNCHANGED <<m_status, socket, beats, inbox, broken>>
    BY <1>4, <2>2 DEF RunTask, write_complete_i, Ignores
  <2> QED BY <1>4, <2>1, <2>2 DEF write_complete_i
<1> QED BY <1>1, <1>2, <1>3, <1>4 DEF RunTask

\* The handler that runs, among those queued; the others were queued before.
LEMMA TaskSets ==
  ASSUME ConnInv, RunTask
  PROVE  /\ Task \in OpsIn(Task.op)
         /\ \A op : \A t \in OpsIn(op)' : t \in OpsIn(op)
         /\ Task.op = "read" => opener = "opened" /\ OpsIn("read")' = {}
<1>0. TypeOK /\ ReadInv /\ tasks # <<>> /\ tasks' = Tail(tasks)
  BY TaskCases DEF ConnInv
<1>1. \A op : OpsIn(op) = OpsIn(op)' \cup IF Task.op = op THEN {Task} ELSE {}
  BY <1>0, TasksTail
<1>2. Task \in OpsIn(Task.op) /\ \A op : \A t \in OpsIn(op)' : t \in OpsIn(op)
  BY <1>1
<1>3. ASSUME Task.op = "read" PROVE opener = "opened" /\ OpsIn("read")' = {}
  <2>1. /\ Tasks("read") = 1 + Tasks("read")' /\ Tasks("read")' \in Nat
        /\ Tasks("read")' = 0 => OpsIn("read")' = {}
    BY <1>0, <1>3, TasksTail
  <2>2. /\ reading \in Nat /\ reading + Tasks("read") <= 1
        /\ opener # "opened" => reading + Tasks("read") = 0
    BY <1>0 DEF TypeOK, ReadInv, ReadChain
  <2> QED BY <2>1, <2>2
<1> QED BY <1>2, <1>3

LEMMA EndTaskStep ==
  ASSUME ConnInv, EndInv, RunTask
  PROVE  EndInv'
<1>0. /\ opener' = opener /\ held' = held
      /\ opener \in {"resetting", "reading", "opened"}
      /\ \A t \in OpsIn("read")' : t \in OpsIn("read")
      /\ m_status \in {"connected", "disconnected"}
  BY TaskCases, RunTaskOpens, TaskSets DEF ConnInv, TypeOK
<1>1. ASSUME m_status = "connected", opener = "resetting" PROVE Ends
  <2>1. Task.op \notin {"read", "write", "written"}
    BY <1>1, NothingToWrite, TaskSets
  <2> QED BY <2>1, TaskCases DEF Brings, Asks, Ignores
<1>2. CASE Ends /\ ~m_is_broken
  <2>1. /\ brokens' = brokens + 1 /\ cut' = reads /\ reads' = reads
        /\ early' = (early \/ opener \in {"adding", "resetting"})
        /\ m_status' = "disconnected"
    BY <1>2 DEF Ends, post_broken_msg_i
  <2>2. reads \in Nat /\ brokens \in Nat
    BY EndFacts
  <2>3. ASSUME opener = "resetting" PROVE reads = 0 /\ OpsIn("read") = {}
    <3>1. reads = 0
      BY <2>3 DEF EndInv
    <3>2. TypeOK /\ reading \in Nat /\ reading + Tasks("read") = 0
      BY <2>3 DEF ConnInv, TypeOK, ReadInv
    <3>3. Tasks("read") \in Nat /\ (Tasks("read") = 0 <=> OpsIn("read") = {})
      BY <3>2, TasksCount
    <3>4. Tasks("read") = 0
      BY <3>2, <3>3
    <3> QED BY <3>1, <3>3, <3>4
  <2>4. early' => reads = 0 /\ \A t \in OpsIn("read") : t.err
    <3>1. CASE early
      BY <3>1 DEF EndInv
    <3>2. CASE opener = "resetting"
      BY <2>3, <3>2
    <3> QED BY <1>0, <2>1, <3>1, <3>2
  <2>5. cut' <= reads' /\ brokens' > 0
    BY <2>1, <2>2
  <2> QED BY <1>0, <2>1, <2>4, <2>5 DEF EndInv
<1>3. CASE Ends /\ m_is_broken
  <2>1. UNCHANGED <<inbox, brokens, early, cut, reads>> /\ m_status' = "disconnected"
    BY <1>3 DEF Ends, post_broken_msg_i, broken
  <2>2. m_status = "disconnected"
    BY <1>0, <1>3, EndFacts
  <2> QED BY <1>0, <2>1, <2>2 DEF EndInv
<1>4. CASE Brings
  <2>1. /\ Task.op = "read" /\ ~Task.err /\ reads' = reads + 1 
        /\ UNCHANGED <<m_status, brokens, early, cut>>
    BY <1>4 DEF Brings
  <2>2. opener = "opened" /\ Task \in OpsIn("read")
    BY <2>1, TaskSets
  <2>3. ~early
    BY <2>1, <2>2 DEF EndInv
  <2>4. cut' <= reads'
    BY <2>1, EndFacts DEF EndInv
  <2> QED BY <1>0, <2>1, <2>2, <2>3, <2>4 DEF EndInv
<1>5. CASE Asks \/ Ignores
  <2>1. UNCHANGED <<m_status, brokens, early, cut, reads>>
    BY <1>5 DEF Asks, Ignores
  <2>2. CASE ~(opener = "resetting" /\ m_status = "connected")
    BY <1>0, <2>1, <2>2 DEF EndInv
  <2>3. CASE opener = "resetting" /\ m_status = "connected"
    <3>1. m_status' = "disconnected"
      BY <1>1, <2>3 DEF Ends
    <3> QED BY <2>1, <2>3, <3>1
  <2> QED BY <2>2, <2>3
<1> QED BY <1>2, <1>3, <1>4, <1>5, TaskCases

LEMMA EndStep ==
  ASSUME ConnInv, EndInv, [Next]_vars
  PROVE  EndInv'
<1> USE DEF open, writer, logic, hb, broken
<1>0. TypeOK /\ OpenInv /\ ReadInv
  BY DEF ConnInv
<1>1. CASE Open
  <2>0. UNCHANGED <<reads, brokens, early, cut, tasks, inbox, m_write_queue>>
    BY <1>1 DEF Open, remote_open, monitor_add, reset, async_read, sync_connect
  <2>1. OpsIn("read")' = OpsIn("read") /\ OpsIn("write")' = OpsIn("write")
    BY <2>0, SameTasks
  <2>2. CASE remote_open
    <3>1. /\ opener = "fresh" /\ opener' \in {"adding", "resetting"} /\ m_status' = "connected"
          /\ held' = held
      BY <2>2 DEF remote_open, Opening
    <3>2. reads = 0 /\ cut <= reads /\ brokens = 0 /\ ~early
      BY <3>1, EndFacts DEF EndInv
    <3>3. inbox = <<>> /\ ~held /\ m_write_queue = <<>> /\ tasks = <<>>
      BY <1>0, <3>1 DEF OpenInv
    <3>4. OpsIn("write") = {}
      BY <3>3 DEF OpsIn, ToSet
    <3> QED BY <2>0, <2>1, <3>1, <3>2, <3>3, <3>4 DEF EndInv
  <2>3. CASE sync_connect
    <3>1. opener = "fresh" /\ opener' = "opened" /\ m_status' = "connected"
      BY <2>3 DEF sync_connect, Opening
    <3>2. cut <= reads /\ brokens = 0 /\ ~early
      BY <3>1, EndFacts DEF EndInv
    <3> QED BY <2>0, <3>1, <3>2 DEF EndInv
  <2>4. CASE monitor_add \/ reset \/ async_read
    <3>1. /\ opener # "fresh" /\ opener' # "fresh" /\ opener # "opened"
          /\ opener' \in {"adding", "resetting"} => opener \in {"adding", "resetting"}
          /\ m_status' = m_status /\ held' = held
      BY <2>4 DEF monitor_add, reset, async_read, Opening
    <3> QED BY <2>0, <2>1, <3>1 DEF EndInv
  <2> QED BY <1>1, <2>2, <2>3, <2>4 DEF Open
<1>2. CASE \E err \in BOOLEAN : ReadEnds(err)
  <2>1. PICK err \in BOOLEAN : ReadEnds(err)
    BY <1>2
  <2>2. /\ UNCHANGED <<opener, m_status, reads, brokens, early, cut>> /\ reading > 0
        /\ ~err => socket # "closed"
        /\ tasks' = Append(tasks, [op |-> "read", err |-> err])
    BY <2>1 DEF ReadEnds
  <2>3. opener = "opened"
    <3>1. Tasks("read") \in Nat /\ reading \in Nat
      BY <1>0, TasksCount DEF TypeOK
    <3>2. opener # "opened" => reading + Tasks("read") = 0
      BY <1>0 DEF ReadInv
    <3> QED BY <2>2, <3>1, <3>2
  <2>4. early => err
    BY <1>0, <2>2, <2>3 DEF EndInv, OpenInv
  <2>5. OpsIn("read")' = OpsIn("read") \cup {[op |-> "read", err |-> err]}
    BY <1>0, <2>2, TasksAppend, TaskFacts
  <2> QED BY <2>2, <2>3, <2>4, <2>5 DEF EndInv
<1>3. CASE \E err \in BOOLEAN : \E size \in 0..(IF writing = <<>> THEN 0 ELSE Head(writing)) :
             WriteEnds(err, size)
  <2>1. PICK err \in BOOLEAN, size \in 0..(IF writing = <<>> THEN 0 ELSE Head(writing)) :
               WriteEnds(err, size)
    BY <1>3
  <2> DEFINE t == [op |-> "written", err |-> err, size |-> size]
  <2>2. UNCHANGED <<opener, m_status, reads, brokens, early, cut>> /\ writing # <<>>
        /\ tasks' = Append(tasks, t)
    BY <2>1 DEF WriteEnds
  <2>3. t \in TaskType /\ t.op # "read"
    <3>1. size \in Nat
      BY <1>0, <2>1, TailFacts, BoundsAreNat DEF WriteEnds, TypeOK
    <3> QED BY <3>1, TaskFacts
  <2> HIDE DEF t
  <2>4. OpsIn("read")' = OpsIn("read")
    <3>1. OpsIn("read")' = OpsIn("read") \cup IF t.op = "read" THEN {t} ELSE {}
      BY <1>0, <2>2, <2>3, TasksAppend
    <3> QED BY <2>3, <3>1
  <2>5. ~(opener \in {"adding", "resetting"} /\ m_status = "connected")
    BY <2>2, NothingToWrite
  <2> QED BY <2>2, <2>4, <2>5 DEF EndInv
<1>4. CASE PeerLeaves \/ handle_msg \/ Call \/ Monitor \/ UNCHANGED vars
  <2>1. /\ UNCHANGED <<reads, brokens, early, cut, m_write_queue>>
        /\ OpsIn("read")' = OpsIn("read")
    BY <1>0, <1>4, BystanderFacts DEF Bystander
  <2>2. UNCHANGED <<opener, m_status>>
    BY <1>4 DEF PeerLeaves, handle_msg, Call, Monitor, RunBeat, Expel, close_all, stop_monitor,
                start_monitor, vars
  <2>3. ASSUME opener \in {"adding", "resetting"}, m_status = "connected"
        PROVE  UNCHANGED <<inbox, held>> /\ OpsIn("write")' = OpsIn("write")
    <3>1. inbox = <<>> /\ ~held
      BY <2>3 DEF EndInv
    <3>2. /\ UNCHANGED <<inbox, held>>
          /\ tasks' = tasks \/ tasks' = Append(tasks, CloseTask)
      <4>1. UNCHANGED <<inbox, held>>
        BY <1>4, <3>1 DEF PeerLeaves, handle_msg, Call, Monitor, RunBeat, Expel, close_all,
                  stop_monitor, start_monitor, vars
      <4>2. tasks' = tasks \/ tasks' = Append(tasks, CloseTask)
        BY <1>4, <3>1, RunBeatFacts DEF PeerLeaves, handle_msg, Call, Monitor, Expel, close_all,
                  stop_monitor, start_monitor, vars, handle_timeout, post
      <4> QED BY <4>1, <4>2
    <3>3. CASE tasks' = tasks
      BY <3>2, <3>3, SameTasks
    <3>4. CASE tasks' = Append(tasks, CloseTask)
      <4>1. CloseTask \in TaskType /\ CloseTask.op # "write"
        BY TaskFacts DEF CloseTask
      <4>2. OpsIn("write")' = OpsIn("write") \cup IF CloseTask.op = "write" THEN {CloseTask} ELSE {}
        BY <1>0, <3>4, <4>1, TasksAppend
      <4> QED BY <3>2, <4>1, <4>2
    <3> QED BY <3>2, <3>3, <3>4
  <2> QED BY <2>1, <2>2, <2>3 DEF EndInv
<1> QED BY <1>1, <1>2, <1>3, <1>4, EndTaskStep DEF Next, Asio

\* How far the connection is, without the CASE.
LEMMA PhaseIs ==
  ASSUME opener \in {"fresh", "adding", "resetting", "reading", "opened"},
         m_status \in {"connected", "disconnected"}
  PROVE  /\ opener = "fresh" => Phase = "new"
         /\ opener # "fresh" /\ m_status = "disconnected" => Phase = "ended"
         /\ opener \in {"adding", "resetting"} /\ m_status = "connected" => Phase = "opening"
         /\ opener \in {"reading", "opened"} /\ m_status = "connected" => Phase = "open"
BY DEF Phase

LEMMA PhaseNext ==
  ASSUME TypeOK'
  PROVE  /\ opener' = "fresh" => Phase' = "new"
         /\ opener' # "fresh" /\ m_status' = "disconnected" => Phase' = "ended"
         /\ opener' \in {"adding", "resetting"} /\ m_status' = "connected" => Phase' = "opening"
         /\ opener' \in {"reading", "opened"} /\ m_status' = "connected" => Phase' = "open"
BY DEF Phase, TypeOK

\* A read was handled after the end.
LateRead == Phase = "ended" /\ reads > cut

LEMMA SamePhase ==
  ASSUME UNCHANGED <<opener, m_status, reads, cut>>
  PROVE  Phase' = Phase /\ LateRead' = LateRead
BY DEF Phase, LateRead

LEMMA TaskIsChannelStep ==
  ASSUME ConnInv, EndInv, TypeOK', RunTask
  PROVE  Channel!CNext \/ UNCHANGED Channel!cvars
<1>0. /\ opener' = opener /\ sent' = sent
      /\ opener \in {"resetting", "reading", "opened"}
      /\ m_status \in {"connected", "disconnected"}
  BY TaskCases, RunTaskOpens DEF ConnInv, TypeOK
<1>1. ASSUME Ends, ~m_is_broken, m_status = "connected" PROVE Channel!CEnd
  <2>1. /\ brokens' = brokens + 1 /\ cut' = reads /\ UNCHANGED <<reads, requested>>
        /\ early' = (early \/ opener \in {"adding", "resetting"})
        /\ inbox' = Append(inbox, "broken") /\ m_status' = "disconnected"
    BY <1>1 DEF Ends, post_broken_msg_i
  <2>2. brokens = 0 /\ ~early /\ reads \in Nat
    BY <1>1, EndFacts
  <2>3. /\ Phase \in {"opening", "open"} /\ Phase' = "ended"
        /\ Phase = "opening" <=> opener \in {"adding", "resetting"}
    BY <1>0, <1>1, <2>1, PhaseIs, PhaseNext
  <2>4. early' = (Phase = "opening")
    BY <2>1, <2>2, <2>3
  <2>5. ~(Phase = "ended" /\ reads > cut) /\ ~(Phase' = "ended" /\ reads' > cut')
    BY <2>1, <2>2, <2>3
  <2>6. (Phase = "ended" /\ reads > cut)' = (Phase = "ended" /\ reads > cut)
    BY <2>5
  <2>7. brokens' = 1
    BY <2>1, <2>2
  <2> QED BY <1>0, <2>1, <2>3, <2>4, <2>6, <2>7 DEF Channel!CEnd
<1>2. ASSUME Ends, ~m_is_broken, m_status = "disconnected" PROVE Channel!CEndAgain
  <2>1. /\ brokens' = brokens + 1 /\ cut' = reads /\ UNCHANGED <<reads, requested>>
        /\ early' = (early \/ opener \in {"adding", "resetting"})
        /\ inbox' = Append(inbox, "broken") /\ m_status' = "disconnected"
    BY <1>2 DEF Ends, post_broken_msg_i
  <2>2. brokens = 1 /\ early /\ early \in BOOLEAN /\ reads = 0 /\ cut \in Nat
    BY <1>0, <1>2, EndFacts DEF EndInv
  <2>3. Phase = "ended" /\ Phase' = "ended"
    BY <1>0, <1>2, <2>1, PhaseIs, PhaseNext
  <2>4. early' = early
    BY <2>1, <2>2
  <2>5. ~(Phase = "ended" /\ reads > cut) /\ ~(Phase' = "ended" /\ reads' > cut')
    BY <2>1, <2>2
  <2>6. (Phase = "ended" /\ reads > cut)' = (Phase = "ended" /\ reads > cut)
    BY <2>5
  <2>7. brokens' = 2
    BY <2>1, <2>2
  <2> QED BY <1>0, <2>1, <2>2, <2>3, <2>4, <2>6, <2>7 DEF Channel!CEndAgain
<1>3. ASSUME Ends, m_is_broken PROVE UNCHANGED Channel!cvars
  <2>1. UNCHANGED <<inbox, brokens, early, cut, reads, requested>> /\ m_status' = "disconnected"
    BY <1>3 DEF Ends, post_broken_msg_i, broken
  <2>2. m_status' = m_status
    BY <1>0, <1>3, <2>1, EndFacts
  <2> QED BY <1>0, <2>1, <2>2, SamePhase DEF Channel!cvars, LateRead
<1>4. ASSUME Brings PROVE Channel!CArrive
  <2>1. /\ Task.op = "read" /\ ~Task.err /\ reads' = reads + 1
        /\ UNCHANGED <<m_status, m_is_broken, brokens, early, cut, requested>>
    BY <1>4 DEF Brings
  <2>2. opener = "opened" /\ Task \in OpsIn("read")
    BY <2>1, TaskSets
  <2>3. \E n \in 0..Len(inbox') : inbox' = inbox \o [i \in 1..n |-> "msg"]
    <3>1. PICK n \in 0..MaxBatch : inbox' = inbox \o [i \in 1..n |-> "msg"]
      BY <1>4 DEF Brings
    <3>2. inbox \in Seq({"msg", "broken"}) /\ n \in Nat
      BY BoundsAreNat DEF ConnInv, TypeOK
    <3>3. [i \in 1..n |-> "msg"] \in Seq({"msg", "broken"}) /\ Len([i \in 1..n |-> "msg"]) = n
      BY <3>2
    <3>4. Len(inbox') = Len(inbox) + n /\ Len(inbox) \in Nat
      BY <3>1, <3>2, <3>3
    <3>5. n \in 0..Len(inbox')
      BY <3>2, <3>4
    <3> QED BY <3>1, <3>5
  <2>4. Phase' = Phase
    BY <1>0, <2>1 DEF Phase
  <2>5. CASE m_status = "connected"
    <3>1. Phase = "open"
      BY <2>2, <2>5, PhaseIs
    <3>2. (Phase = "ended" /\ reads > cut)' = (Phase = "ended" /\ reads > cut)
      BY <2>4, <3>1
    <3> QED BY <1>0, <2>1, <2>3, <2>4, <3>1, <3>2 DEF Channel!CArrive
  <2>6. CASE m_status = "disconnected"
    <3>1. Phase = "ended"
      BY <2>2, <2>6, PhaseIs
    <3>2. ~early
      BY <2>1, <2>2 DEF EndInv
    <3>3. m_is_broken
      BY <2>2, <2>6, <3>2, EndFacts
    <3>4. reads <= cut /\ cut <= reads /\ reads \in Nat /\ cut \in Nat
      BY <2>1, <2>2, <3>3, EndFacts DEF ConnInv, LateInv, EndInv
    <3>5. ~(Phase = "ended" /\ reads > cut) /\ (Phase = "ended" /\ reads > cut)'
      BY <2>1, <2>4, <3>1, <3>4
    <3>6. (Phase = "ended" /\ reads > cut)' = TRUE
      BY <3>5
    <3> QED BY <1>0, <2>1, <2>3, <2>4, <3>1, <3>2, <3>5, <3>6 DEF Channel!CArrive
  <2> QED BY <1>0, <2>5, <2>6
<1>5. ASSUME Asks PROVE Channel!CRequest
  <2>1. /\ Task.op = "write" /\ requested' = Append(requested, Task.data)
        /\ UNCHANGED <<m_status, m_is_broken, brokens, early, cut, reads, inbox>>
    BY <1>5 DEF Asks
  <2>2. requested \in Seq(Data)
    BY DEF ConnInv, TypeOK
  <2>3. /\ Len(requested') = Len(requested) + 1
        /\ requested' = Append(requested, requested'[Len(requested) + 1])
    BY <2>1, <2>2
  <2>4. Phase # "new"
    BY <1>0, PhaseIs
  <2> QED BY <1>0, <2>1, <2>3, <2>4, SamePhase DEF Channel!CRequest, LateRead
<1>6. ASSUME Ignores PROVE UNCHANGED Channel!cvars
  BY <1>0, <1>6, SamePhase DEF Ignores, Channel!cvars, LateRead
<1> QED BY <1>0, <1>1, <1>2, <1>3, <1>4, <1>5, <1>6, TaskCases DEF Channel!CNext

\* A write that ends well puts the next string of the requests on the wire.
LEMMA WriteDelivers ==
  ASSUME ConnInv, EndInv, NEW size, WriteEnds(FALSE, size)
  PROVE  Channel!CDeliver
<1>0. TypeOK /\ WriteInv /\ OpenInv /\ opener # "fresh"
  BY NotYet DEF ConnInv, WriteEnds
<1>1. /\ writing # <<>> /\ socket # "closed" /\ sent' = Append(sent, Head(writing))
      /\ UNCHANGED <<opener, m_status, reads, cut, requested, inbox, brokens, early>>
  BY DEF WriteEnds, open, logic, broken
<1>2. m_status = "connected"
  BY <1>0, <1>1 DEF OpenInv
<1>3. Phase = "open"
  <2>1. opener \in {"reading", "opened"}
    BY <1>0, <1>1, <1>2, NothingToWrite DEF TypeOK
  <2> QED BY <1>2, <2>1, PhaseIs
<1>4. /\ m_write_queue # <<>> /\ Head(writing) = m_write_queue[1] /\ D = 0
  <2>1. /\ Len(writing) \in Nat /\ Tasks("written") \in Nat /\ m_is_writing \in BOOLEAN
        /\ Len(writing) + Tasks("written") = IF m_is_writing THEN 1 ELSE 0
        /\ Len(writing) # 0
    BY <1>0, <1>1, WriteParts
  <2>2. CASE m_is_writing = FALSE
    BY <2>1, <2>2
  <2>3. CASE m_is_writing = TRUE
    <3>1. Tasks("written") = 0
      BY <2>1, <2>3
    <3>2. m_write_queue # <<>> /\ Head(writing) = m_write_queue[1]
      BY <1>0, <1>1, <2>3, WriteParts, WriterFacts
    <3>3. OpsIn("written") = {}
      BY <1>0, <3>1, TasksCount
    <3> QED BY <3>2, <3>3 DEF D, Done
  <2> QED BY <2>1, <2>2, <2>3
<1>5. Len(sent) + 1 <= Len(requested) /\ requested[Len(sent) + 1] = m_write_queue[1]
  <2>1. m_write_queue \in Seq(Data) /\ requested \in Seq(Data) /\ sent \in Seq(Data)
    BY <1>0, WriterFacts
  <2>2. Unsent(m_write_queue, requested, sent, 0)
    BY <1>0, <1>2, <1>4 DEF WriteInv
  <2> QED BY <1>4, <2>1, <2>2, UnsentSent
<1>6. Len(sent) < Len(requested)
  <2>1. Len(sent) \in Nat /\ Len(requested) \in Nat
    BY <1>0 DEF TypeOK
  <2> QED BY <1>5, <2>1
<1> QED BY <1>1, <1>3, <1>4, <1>5, <1>6, SamePhase DEF Channel!CDeliver, LateRead

LEMMA StepIsChannelStep ==
  ASSUME ConnInv, EndInv, ConnInv', [Next]_vars
  PROVE  [Channel!CNext]_(Channel!cvars)
<1> USE DEF open, writer, logic, hb, broken
<1>0. TypeOK /\ OpenInv /\ TypeOK'
  BY DEF ConnInv
<1>1. ASSUME UNCHANGED <<opener, m_status, reads, cut, requested, sent, inbox, brokens, early>>
      PROVE  UNCHANGED Channel!cvars
  BY <1>1, SamePhase DEF Channel!cvars, LateRead
<1>2. CASE Open
  <2>0. UNCHANGED <<requested, sent, inbox, brokens, early, reads, cut>>
    BY <1>2 DEF Open, remote_open, monitor_add, reset, async_read, sync_connect
  <2>1. ASSUME Phase # "ended", Phase' # "ended"
        PROVE  (Phase = "ended" /\ reads > cut)' = (Phase = "ended" /\ reads > cut)
    BY <2>1
  <2>2. CASE remote_open \/ sync_connect
    <3>1. /\ opener = "fresh" /\ m_status' = "connected"
          /\ opener' \in {"adding", "resetting", "opened"}
      BY <2>2 DEF remote_open, sync_connect, Opening
    <3>2. Phase = "new" /\ Phase' \in {"opening", "open"}
      BY <1>0, <3>1, PhaseIs, PhaseNext DEF TypeOK
    <3> QED BY <2>0, <2>1, <3>2 DEF Channel!COpen, Channel!CNext
  <2>3. CASE monitor_add \/ reset \/ async_read
    <3>0. /\ \/ opener = "adding" /\ opener' = "resetting"
             \/ opener = "resetting" /\ opener' = "reading"
             \/ opener = "reading" /\ opener' = "opened"
          /\ m_status' = m_status /\ m_status \in {"connected", "disconnected"}
      BY <1>0, <2>3 DEF monitor_add, reset, async_read, Opening, TypeOK
    <3>1. CASE opener = "resetting" /\ m_status = "connected"
      <4>1. Phase = "opening" /\ Phase' = "open"
        BY <1>0, <3>0, <3>1, PhaseIs, PhaseNext
      <4> QED BY <2>0, <2>1, <4>1 DEF Channel!COpen, Channel!CNext
    <3>2. CASE ~(opener = "resetting" /\ m_status = "connected")
      <4>1. Phase' = Phase
        BY <1>0, <3>0, <3>2, PhaseIs, PhaseNext
      <4>2. (Phase = "ended" /\ reads > cut)' = (Phase = "ended" /\ reads > cut)
        BY <2>0, <4>1
      <4> QED BY <2>0, <4>1, <4>2 DEF Channel!cvars
    <3> QED BY <3>1, <3>2
  <2> QED BY <1>2, <2>2, <2>3 DEF Open
<1>3. CASE RunTask
  BY <1>0, <1>3, TaskIsChannelStep
<1>4. CASE Asio
  <2>1. ASSUME NEW err \in BOOLEAN, ReadEnds(err) PROVE UNCHANGED Channel!cvars
    BY <1>1, <2>1 DEF ReadEnds
  <2>2. ASSUME NEW size, WriteEnds(TRUE, size) PROVE UNCHANGED Channel!cvars
    BY <1>1, <2>2 DEF WriteEnds
  <2>3. ASSUME NEW size, WriteEnds(FALSE, size) PROVE Channel!CNext
    BY <2>3, WriteDelivers DEF Channel!CNext
  <2> QED BY <1>4, <2>1, <2>2, <2>3 DEF Asio
<1>5. CASE handle_msg
  <2>1. /\ inbox # <<>> /\ inbox' = Tail(inbox)
        /\ UNCHANGED <<opener, m_status, reads, cut, requested, sent, brokens, early>>
    BY <1>5 DEF handle_msg
  <2> QED BY <2>1, SamePhase DEF Channel!CTake, Channel!CNext, LateRead
<1>6. CASE PeerLeaves \/ Call
  BY <1>1, <1>6 DEF PeerLeaves, Call
<1>7. CASE Monitor
  BY <1>1, <1>7 DEF Monitor, RunBeat, Expel, close_all, stop_monitor, start_monitor
<1>8. CASE UNCHANGED vars
  BY <1>1, <1>8 DEF vars
<1> QED BY <1>2, <1>3, <1>4, <1>5, <1>6, <1>7, <1>8 DEF Next

\* The broken message and the end of the connection go together (post_broken_msg_i is
\* called by every close), a close that overtook reset() leaves nothing to read, and the
\* application does not know a connection that is still being opened.
THEOREM EndInvariant == Spec => []EndInv
<1>1. Init => EndInv
  BY DEF Init, EndInv
<1>2. ConnInv /\ EndInv /\ [Next]_vars => EndInv'
  BY EndStep
<1> QED BY <1>1, <1>2, ConnInvariant, PTL DEF Spec

\* A connection is a channel each way that ends once, for any number of reads, writes,
\* closes and stops of the monitor: nothing is sent after the end, the application is
\* told in the step that ends it, and afterwards at most one read brings messages.
THEOREM ConnImplementsChannel == Spec => ImplementsChannel
<1>1. Init => Channel!CInit
  <2> SUFFICES ASSUME Init PROVE Channel!CInit
    OBVIOUS
  <2>1. Phase = "new"
    BY PhaseIs DEF Init
  <2>2. (Phase = "ended" /\ reads > cut) = FALSE
    BY <2>1
  <2> QED BY <2>1, <2>2 DEF Init, Channel!CInit
<1>2. ConnInv /\ EndInv /\ ConnInv' /\ [Next]_vars => [Channel!CNext]_(Channel!cvars)
  BY StepIsChannelStep
<1> QED BY <1>1, <1>2, ConnInvariant, EndInvariant, PTL
        DEF Spec, ImplementsChannel, Channel!CSpec
=============================================================================
