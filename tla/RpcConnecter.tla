---------------------------- MODULE RpcConnecter ----------------------------
(***************************************************************************)
(* One connection: rpc_connecter_t with its strategy's handlers for open,  *)
(* read and close (rpc_common_conn_protocal_t), the dispatch of rpc_t and  *)
(* the connection's side of rpc_conn_monitor_t.                            *)
(*                                                                         *)
(* Five threads meet here: the acceptor's (or a client's), which opens the *)
(* connection; the one of the connection's io_service, which runs `tasks'  *)
(* in order; the logic thread of the strategy's m_io, which runs `inbox'   *)
(* and holds the connection from its first message on; the heart-beat      *)
(* thread, which runs `beats'; and the one that starts and stops the       *)
(* monitor.  The heart-beat service is what HeartBeatRegistry promises of  *)
(* it: a watched connection may be expelled at any time.  What on_read     *)
(* does with the bytes is in RpcCommonConnProtocol; here a read yields     *)
(* some number of messages.                                                *)
(*                                                                         *)
(* sync_close_i and set_write_state are declared but not defined in the    *)
(* repository; they are modelled by what their callers rely on.            *)
(***************************************************************************)
EXTENDS ListSeqs, FiniteSets

CONSTANTS
  m_use_monitor,
  MaxReads,    \* bound: reads that bring data
  MaxBatch,    \* bound: messages one read completes
  MaxCalls,    \* bound: async_write and close calls of the application
  MaxStops     \* bound: how often the monitor is stopped

ASSUME ConnecterAssumption ==
  /\ m_use_monitor \in BOOLEAN
  /\ {MaxReads, MaxBatch, MaxCalls, MaxStops} \subseteq Nat

VARIABLES
  opener,              \* how far the opening thread is
  announced,           \* history: add() has posted the connection
  m_connect_type, m_status, m_is_broken,
  socket,              \* "open"; "gone": the peer left; "closed"
  tasks,               \* the handlers queued in m_io_service
  reading,             \* outstanding async_read_some operations
  writing,             \* outstanding async_write operations: their data
  m_write_queue, m_is_writing, m_total_wait_write,
  inbox,               \* handle_msg calls queued in m_io
  held,                \* the application holds the connection
  beats,               \* requests queued in the heart-beat service
  watched,             \* the connection is one of its elements
  refused,             \* history: there was no memory to make it one
  monitor,             \* "on", "closing" (in stop, m_started still set), "off"
  reads, calls, stops, \* the bounded counters
  requested, sent,     \* history: data handed to sync_write_i; data on the wire
  brokens, early,      \* history: broken messages posted; one before reset()
  cut                  \* history: the reads handled when the last one was posted

open   == <<opener, announced, m_connect_type>>
writer == <<writing, m_write_queue, m_is_writing, m_total_wait_write, requested, sent>>
logic  == <<inbox, held, calls>>
hb     == <<beats, watched, refused, monitor, stops>>
broken == <<m_is_broken, brokens, early, cut>>
vars   == <<open, m_status, socket, tasks, reading, reads, writer, logic, hb, broken>>

Init ==
  /\ opener = "fresh" /\ announced = FALSE
  /\ m_connect_type = "passive" /\ m_status = "disconnected"
  /\ m_is_broken = FALSE /\ brokens = 0 /\ early = FALSE /\ cut = 0
  /\ socket = "open" /\ tasks = <<>> /\ reading = 0 /\ reads = 0
  /\ writing = <<>> /\ m_write_queue = <<>> /\ m_is_writing = FALSE
  /\ m_total_wait_write = 0 /\ requested = <<>> /\ sent = <<>>
  /\ inbox = <<>> /\ held = FALSE /\ calls = 0
  /\ beats = <<>> /\ watched = FALSE /\ refused = FALSE
  /\ monitor \in {"on", "off"} /\ stops = 0

-----------------------------------------------------------------------------
(* The monitor as the connection calls it: posts to the heart-beat service *)
(* unless the monitor is stopped.                                          *)

Started == monitor # "off"
OnlyMonitored == m_connect_type = "passive" /\ m_use_monitor

\* n requests of one kind.
Beat(kind, n) ==
  beats' = IF OnlyMonitored /\ Started THEN beats \o [i \in 1..n |-> kind] ELSE beats

-----------------------------------------------------------------------------
(* Opening.  remote_open runs in the acceptor's thread; each step of it    *)
(* that another thread can see is an action.                               *)

Opening(from, to) == opener = from /\ opener' = to /\ UNCHANGED announced

\* The status, then the monitor's test of m_started in add().
remote_open ==
  /\ Opening("fresh", IF m_use_monitor /\ Started THEN "adding" ELSE "resetting")
  /\ m_status' = "connected"
  /\ UNCHANGED <<m_connect_type, socket, tasks, reading, reads, writer, logic, hb, broken>>

\* The rest of add(): the element is posted.
monitor_add ==
  /\ opener = "adding" /\ opener' = "resetting" /\ announced' = TRUE
  /\ beats' = Append(beats, "add")
  /\ UNCHANGED <<m_connect_type, m_status, socket, tasks, reading, reads, writer, logic,
                 watched, refused, monitor, stops, broken>>

reset ==
  /\ Opening("resetting", "reading")
  /\ m_is_broken' = FALSE
  /\ UNCHANGED <<m_connect_type, m_status, socket, tasks, reading, reads, writer, logic, hb,
                 brokens, early, cut>>

async_read ==
  /\ Opening("reading", "opened")
  /\ reading' = reading + 1
  /\ UNCHANGED <<m_connect_type, m_status, socket, tasks, reads, writer, logic, hb, broken>>

\* A client connects, in its own thread; a failure changes nothing.
sync_connect ==
  /\ Opening("fresh", "opened")
  /\ m_status' = "connected" /\ m_connect_type' = "active"
  /\ reading' = reading + 1
  /\ held' = TRUE
  /\ UNCHANGED <<socket, tasks, reads, writer, inbox, calls, hb, broken>>

-----------------------------------------------------------------------------
(* Closing.                                                                *)

post_broken_msg_i ==
  \/ m_is_broken /\ UNCHANGED <<inbox, broken>>
  \/ /\ ~m_is_broken
     /\ m_is_broken' = TRUE
     /\ inbox' = Append(inbox, "broken")
     /\ brokens' = brokens + 1 /\ cut' = reads
     /\ early' = (early \/ opener \in {"adding", "resetting"})

\* Mutant: the monitor is not told.
on_closed_unmonitored == post_broken_msg_i /\ UNCHANGED beats

on_closed == Beat("del", 1) /\ post_broken_msg_i

\* Mutant: the socket is left to the peer.
sync_close_i_keeps_socket == m_status' = "disconnected" /\ on_closed /\ UNCHANGED socket

\* External: the status, the socket, the strategy.  Outstanding operations of
\* a closed socket complete with an error.
sync_close_i ==
  /\ m_status' = "disconnected"
  /\ socket' = "closed"
  /\ on_closed

\* A completion that reports an error closes a connection that is not closed.
CloseOnError ==
  \/ m_status # "disconnected" /\ sync_close_i
  \/ m_status = "disconnected" /\ UNCHANGED <<m_status, socket, beats, inbox, broken>>

-----------------------------------------------------------------------------
(* Handlers of m_io_service.  `Task' is the handler at the front.          *)

Task == Head(tasks)

\* Mutant: the next read is not started.
read_complete_i_once ==
  /\ Task.op = "read"
  /\ \/ Task.err /\ CloseOnError /\ UNCHANGED <<reading, reads>>
     \/ /\ ~Task.err
        /\ reads' = reads + 1
        /\ \E n \in 0..MaxBatch :
             Beat("update", n) /\ inbox' = inbox \o [i \in 1..n |-> "msg"]
        /\ UNCHANGED <<m_status, socket, reading, broken>>
  /\ tasks' = Tail(tasks)
  /\ UNCHANGED <<open, writer, held, calls, watched, refused, monitor, stops>>

\* on_read posts the messages it completes, each with an update of the
\* monitor, starts the next read and returns 0.
read_complete_i ==
  /\ Task.op = "read"
  /\ \/ Task.err /\ CloseOnError /\ UNCHANGED <<reading, reads>>
     \/ /\ ~Task.err
        /\ reading' = reading + 1 /\ reads' = reads + 1
        /\ \E n \in 0..MaxBatch :
             Beat("update", n) /\ inbox' = inbox \o [i \in 1..n |-> "msg"]
        /\ UNCHANGED <<m_status, socket, broken>>
  /\ tasks' = Tail(tasks)
  /\ UNCHANGED <<open, writer, held, calls, watched, refused, monitor, stops>>

close_i ==
  /\ Task.op = "close"
  /\ sync_close_i
  /\ tasks' = Tail(tasks)
  /\ UNCHANGED <<open, reading, reads, writer, held, calls, watched, refused, monitor, stops>>

\* On the queue q; set_write_state (external) sets m_is_writing.
start_sending_buffer_i(q) ==
  IF q = <<>> THEN m_is_writing' = FALSE /\ UNCHANGED writing
              ELSE m_is_writing' = TRUE /\ writing' = Append(writing, Head(q))

\* Mutant: a write is started although one is outstanding.
sync_write_i_eager ==
  /\ Task.op = "write"
  /\ m_total_wait_write' = m_total_wait_write + Task.data
  /\ m_write_queue' = Append(m_write_queue, Task.data)
  /\ requested' = Append(requested, Task.data)
  /\ start_sending_buffer_i(m_write_queue')
  /\ tasks' = Tail(tasks)
  /\ UNCHANGED <<open, m_status, socket, reading, reads, sent, logic, hb, broken>>

sync_write_i ==
  /\ Task.op = "write"
  /\ m_total_wait_write' = m_total_wait_write + Task.data
  /\ m_write_queue' = Append(m_write_queue, Task.data)
  /\ requested' = Append(requested, Task.data)
  /\ \/ m_is_writing /\ UNCHANGED <<m_is_writing, writing>>
     \/ ~m_is_writing /\ start_sending_buffer_i(m_write_queue')
  /\ tasks' = Tail(tasks)
  /\ UNCHANGED <<open, m_status, socket, reading, reads, sent, logic, hb, broken>>

\* After an error the queue is left as it is and nothing is sent any more.
write_complete_i ==
  /\ Task.op = "written"
  /\ m_total_wait_write' = m_total_wait_write - Task.size
  /\ m_write_queue' = Tail(m_write_queue)
  /\ \/ Task.err /\ CloseOnError /\ m_is_writing' = FALSE /\ UNCHANGED writing
     \/ /\ ~Task.err /\ start_sending_buffer_i(m_write_queue')
        /\ UNCHANGED <<m_status, socket, beats, inbox, broken>>
  /\ tasks' = Tail(tasks)
  /\ UNCHANGED <<open, reading, reads, requested, sent, held, calls, watched, refused, monitor,
                 stops>>

RunTask ==
  tasks # <<>> /\ (read_complete_i \/ close_i \/ sync_write_i \/ write_complete_i)

-----------------------------------------------------------------------------
(* asio: the operations end.                                               *)

ReadEnds(err) ==
  /\ reading > 0
  /\ err => socket # "open"
  /\ ~err => socket # "closed" /\ reads < MaxReads
  /\ reading' = reading - 1
  /\ tasks' = Append(tasks, [op |-> "read", err |-> err])
  /\ UNCHANGED <<open, m_status, socket, reads, writer, logic, hb, broken>>

\* A write ends with all its data on the wire, or with an error after less.
WriteEnds(err, size) ==
  /\ writing # <<>>
  /\ err => socket # "open" /\ size < Head(writing)
  /\ ~err => socket # "closed" /\ size = Head(writing)
  /\ sent' = IF err THEN sent ELSE Append(sent, Head(writing))
  /\ writing' = Tail(writing)
  /\ tasks' = Append(tasks, [op |-> "written", err |-> err, size |-> size])
  /\ UNCHANGED <<open, m_status, socket, reading, reads, m_write_queue, m_is_writing,
                 m_total_wait_write, requested, logic, hb, broken>>

PeerLeaves ==
  /\ m_status = "connected" /\ socket = "open"
  /\ socket' = "gone"
  /\ UNCHANGED <<open, m_status, tasks, reading, reads, writer, logic, hb, broken>>

-----------------------------------------------------------------------------
(* The application in the logic thread.                                    *)

post(t) == tasks' = Append(tasks, t)

CloseTask == [op |-> "close"]

\* A message of an unknown command, or one that cannot be unpacked, makes
\* handle_msg close the connection.
handle_msg ==
  /\ inbox # <<>>
  /\ inbox' = Tail(inbox)
  /\ held' = TRUE
  /\ \/ UNCHANGED tasks
     \/ Head(inbox) = "msg" /\ post(CloseTask)
  /\ UNCHANGED <<open, m_status, socket, reading, reads, writer, calls, hb, broken>>

\* close() and async_write(), called by the application.  The string the n-th call
\* writes has n bytes and is known by them.
Call ==
  /\ held /\ calls < MaxCalls
  /\ calls' = calls + 1
  /\ post(CloseTask) \/ post([op |-> "write", data |-> calls + 1])
  /\ UNCHANGED <<open, m_status, socket, reading, reads, writer, inbox, held, hb, broken>>

-----------------------------------------------------------------------------
(* The heart-beat thread and the monitor.                                  *)

\* The callback: close(RPC_CLOSE), unless the monitor is stopped.
handle_timeout == IF Started THEN post(CloseTask) ELSE UNCHANGED tasks

\* A node is constructed for the connection, or cannot be: add_element answers -1,
\* which the service thread drops.
add_element ==
  \/ watched' = TRUE /\ UNCHANGED refused
  \/ ~watched /\ refused' = TRUE /\ UNCHANGED watched

trigger_all_timeout ==
  /\ watched' = FALSE /\ UNCHANGED refused
  /\ IF watched THEN handle_timeout ELSE UNCHANGED tasks

\* The service runs one request; HeartBeatService has the whole of it.
RunBeat ==
  /\ beats # <<>> /\ beats' = Tail(beats)
  /\ \/ Head(beats) = "add" /\ add_element /\ UNCHANGED tasks
     \/ Head(beats) = "update" /\ UNCHANGED <<watched, refused, tasks>>
     \/ Head(beats) = "del" /\ watched' = FALSE /\ UNCHANGED <<refused, tasks>>
     \/ Head(beats) = "trigger" /\ trigger_all_timeout
  /\ UNCHANGED <<open, m_status, socket, reading, reads, writer, logic, monitor, stops, broken>>

\* The sweep, or the eviction by another connection's add, takes the connection.
Expel ==
  /\ watched /\ watched' = FALSE
  /\ handle_timeout
  /\ UNCHANGED <<open, m_status, socket, reading, reads, writer, logic, beats, refused, monitor,
                 stops, broken>>

\* stop(): close_all() posts, then m_started is cleared.
close_all ==
  /\ monitor = "on" /\ stops < MaxStops
  /\ monitor' = "closing" /\ stops' = stops + 1
  /\ beats' = Append(beats, "trigger")
  /\ UNCHANGED <<open, m_status, socket, tasks, reading, reads, writer, logic, watched, refused,
                 broken>>

stop_monitor ==
  /\ monitor = "closing" /\ monitor' = "off"
  /\ UNCHANGED <<open, m_status, socket, tasks, reading, reads, writer, logic, beats, watched,
                 refused, stops, broken>>

\* The heart-beat service goes on running over a stop, so that its start()
\* and the settings are refused and only m_started changes.
start_monitor ==
  /\ monitor = "off" /\ monitor' = "on"
  /\ UNCHANGED <<open, m_status, socket, tasks, reading, reads, writer, logic, beats, watched,
                 refused, stops, broken>>

-----------------------------------------------------------------------------

Open == remote_open \/ monitor_add \/ reset \/ async_read \/ sync_connect
Asio ==
  \/ \E err \in BOOLEAN : ReadEnds(err)
  \/ \E err \in BOOLEAN : \E size \in 0..(IF writing = <<>> THEN 0 ELSE Head(writing)) :
       WriteEnds(err, size)
Monitor == RunBeat \/ Expel \/ close_all \/ stop_monitor \/ start_monitor

Next == Open \/ RunTask \/ Asio \/ PeerLeaves \/ handle_msg \/ Call \/ Monitor

\* Each thread goes on with what it has to do; asio reports a broken socket.
Fairness ==
  /\ WF_vars(monitor_add \/ reset \/ async_read)
  /\ WF_vars(RunTask) /\ WF_vars(RunBeat)
  /\ WF_vars(ReadEnds(TRUE))

Spec == Init /\ [][Next]_vars
FairSpec == Spec /\ Fairness

-----------------------------------------------------------------------------
(* Properties.                                                             *)

Tasks(op) == Cardinality({i \in 1..Len(tasks) : tasks[i].op = op})

Data == 1..MaxCalls
TaskType ==
  {CloseTask} \cup [op : {"write"}, data : Data] \cup [op : {"read"}, err : BOOLEAN]
  \cup [op : {"written"}, err : BOOLEAN, size : Nat]

TypeOK ==
  /\ opener \in {"fresh", "adding", "resetting", "reading", "opened"} /\ announced \in BOOLEAN
  /\ m_connect_type \in {"passive", "active"} /\ m_status \in {"connected", "disconnected"}
  /\ socket \in {"open", "gone", "closed"} /\ reading \in Nat
  /\ tasks \in Seq(TaskType)
  /\ {writing, m_write_queue, requested, sent} \subseteq Seq(Data)
  /\ m_is_writing \in BOOLEAN /\ m_total_wait_write \in Nat
  /\ inbox \in Seq({"msg", "broken"}) /\ held \in BOOLEAN
  /\ beats \in Seq({"add", "update", "del", "trigger"}) /\ {watched, refused} \subseteq BOOLEAN
  /\ monitor \in {"on", "closing", "off"}
  /\ m_is_broken \in BOOLEAN /\ early \in BOOLEAN
  /\ {brokens, cut, reads, calls, stops} \subseteq Nat

\* asio allows one outstanding write: m_is_writing is set exactly while one is
\* outstanding or its handler queued, and what is outstanding is the string at the
\* front of m_write_queue, whose memory asio is using.
OneWriteOutstanding ==
  /\ Len(writing) + Tasks("written") = IF m_is_writing THEN 1 ELSE 0
  /\ m_is_writing => m_write_queue # <<>>
  /\ writing # <<>> => Head(writing) = Head(m_write_queue)

\* The unsigned counter of bytes never wraps: it covers the queue, and is exact as
\* long as the connection lives.
TotalCoversQueue ==
  /\ m_total_wait_write >= SumSeq(m_write_queue)
  /\ m_status = "connected" => m_total_wait_write = SumSeq(m_write_queue)

\* The writer's state is sound (rpc_connecter.cpp:80-118): one write is outstanding
\* at a time, the counter covers the queue, and data waits without a write to push
\* it on only when the connection is dead.
WriteQueueSound ==
  /\ OneWriteOutstanding
  /\ TotalCoversQueue
  /\ m_write_queue # <<>> /\ ~m_is_writing => m_status = "disconnected"

\* The peer gets the strings in the order of sync_write_i, none twice, none left out.
SentInOrder == IsPrefix(sent, requested)

\* There is never more than one read, and a live connection that has been opened
\* always has one, so that it notices its peer.
ReadChain ==
  LET n == reading + Tasks("read")
  IN n <= 1 /\ (opener = "opened" /\ m_status = "connected" => n = 1)

\* The application hears of the end once: a second broken message needs a close
\* that overtook the reset() of on_remote_open.
BrokenOnce == brokens <= 1 \/ (early /\ brokens = 2)

\* A read that was complete before the close is still handled after it
\* (rpc_connecter.cpp:64), and its messages follow the broken message; but only one:
\* the read it starts finds the socket closed.
OneLateRead == m_is_broken => reads <= cut + 1

\* The monitor and the connection agree as long as it is not stopped: a live
\* connection that was announced is watched, or on its way to be, or about to be
\* closed, unless the service had no memory for it, which leaves it unwatched without
\* anybody being told (heart_beat_element_mgr.h:279); and a closed one does not stay
\* there, holding the connection's memory.
MonitorAgrees ==
  stops = 0 =>
    /\ announced /\ m_status = "connected"
         => watched \/ "add" \in ToSet(beats) \/ CloseTask \in ToSet(tasks) \/ refused
    /\ opener = "opened" /\ m_status = "disconnected" /\ beats = <<>> => ~watched

\* How far the connection is, as the application sees it.
Phase ==
  CASE opener = "fresh" -> "new"
    [] opener # "fresh" /\ m_status = "disconnected" -> "ended"
    [] opener \in {"adding", "resetting"} /\ m_status = "connected" -> "opening"
    [] opener \in {"reading", "opened"} /\ m_status = "connected" -> "open"

Channel == INSTANCE RpcChannel WITH
  phase <- Phase, told <- brokens, late <- (Phase = "ended" /\ reads > cut)

\* The connection implements a channel each way: whatever the io_service, the monitor,
\* the opening thread and the application do in which order, nothing is sent after the
\* end, the application is told in the step that ends it, and afterwards at most one
\* read brings messages.
ImplementsChannel == Channel!CSpec

\* A peer that leaves an opened connection is noticed: the connection is closed and
\* the application told.
PeerLossIsReported ==
  socket = "gone" ~> m_status = "disconnected" /\ brokens > 0
=============================================================================
