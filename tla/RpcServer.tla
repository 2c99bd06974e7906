------------------------------ MODULE RpcServer ------------------------------
(***************************************************************************)
(* rpc_server_t with its rpc_acceptor_t, on the io_services of the pool.   *)
(*                                                                         *)
(* The owner, one thread, starts and stops the pool, constructs the server *)
(* and makes it listen.  Any other thread may close the server and post    *)
(* work to it.  The threads of the pool run the accept handlers, which     *)
(* keep the chain of accepts going, and the handlers of the connections.   *)
(*                                                                         *)
(* A connection is coarse here (RpcConnecter has the details): from its    *)
(* opening on it has a read outstanding in its io_service, whose error     *)
(* handler ends it.                                                        *)
(***************************************************************************)
EXTENDS IoServicePool

CONSTANTS
  MaxConns,     \* bound: connections constructed
  MaxListens,   \* bound: calls of listen()
  MaxJobs       \* bound: calls of async_do()

ASSUME ServerAssumption == {MaxConns, MaxListens, MaxJobs} \subseteq Nat

VARIABLES
  m_io,          \* the server's io_service: None before the construction
  m_sp_acc,      \* the acceptor's io_service: None before the first listen()
  m_started,     \* of the acceptor
  m_acceptor,    \* its socket: "closed", "open" (not listening), "listening"
  conns,         \* the connections: [io, st]
  accepts,       \* the connections of the outstanding async_accepts
  ready,         \* the accept handlers queued in the acceptor's io_service
  jobs,          \* the handle_do calls queued in m_io
  crashed,       \* the process is dead
  listens, asked,  \* the bounded counters
  forked,        \* history: completed accepts that were queued at the last listen
  lost           \* history: accepts since then that were never started, or that
                 \* ended without a next one

accVars == <<m_sp_acc, m_started, m_acceptor, accepts, ready, listens, forked, lost>>
vars    == <<poolVars, stopped, m_io, accVars, conns, jobs, crashed, asked>>

None == 0

Init ==
  /\ PoolInit
  /\ m_io = None /\ m_sp_acc = None
  /\ m_started = FALSE /\ m_acceptor = "closed"
  /\ conns = <<>> /\ accepts = {} /\ ready = <<>>
  /\ jobs = 0 /\ asked = 0 /\ crashed = FALSE
  /\ listens = 0 /\ forked = 0 /\ lost = 0

\* What asio counts as outstanding work of io_service i.
Busy(i) ==
  \/ work[i]
  \/ m_sp_acc = i /\ (accepts # {} \/ ready # <<>>)
  \/ m_io = i /\ jobs > 0
  \/ \E c \in 1..Len(conns) : conns[c].io = i /\ conns[c].st \in {"open", "ending"}

-----------------------------------------------------------------------------
(* The owner.                                                              *)

\* start() grows the vector that an accept handler in another thread may be
\* reading: a data race, which may end anyhow.
PoolStart(n) ==
  /\ pool_start(n)
  /\ crashed' \in IF ready # <<>> /\ Served(m_sp_acc) THEN BOOLEAN ELSE {FALSE}
  /\ UNCHANGED <<m_io, accVars, conns, jobs, asked>>

PoolStop ==
  /\ pool_stop \/ pool_joined
  /\ UNCHANGED <<m_io, accVars, conns, jobs, crashed, asked>>

\* rpc_server_t(): an empty pool divides by zero.
rpc_server_t ==
  /\ ~stopping /\ m_io = None
  /\ IF Size = 0 THEN crashed' = TRUE /\ UNCHANGED <<m_io, m_next_io_service>>
                 ELSE m_io' = Robin(0) /\ TakeNext(1, FALSE) /\ UNCHANGED crashed
  /\ UNCHANGED <<work, m_vt_threads, stopping, starts, doubled, accVars, conns, jobs, asked>>

\* The acceptor for a next connection, which async_accept waits for.
Accepting(io) == [io |-> io, st |-> "accepting"]

\* Completed accepts whose handlers have not run.
Pending == Cardinality({k \in DOMAIN ready : ~ready[k].err})

\* What sync_start_listen_i can come to: an exception before the acceptor's
\* open(), or before its listen(); an exception after listen(), thrown by the
\* strategy's creator or the connection's constructor, before or after
\* get_io_service(), which leaves the acceptor listening without an accept; or the
\* first accept.  start() never hears of an exception.
sync_start_listen_i(taken, racing) ==
  \/ /\ m_acceptor' \in {"closed", "open"}
     /\ TakeNext(taken, FALSE)
     /\ UNCHANGED <<conns, accepts, forked, lost>>
  \/ /\ m_acceptor' = "listening" /\ forked' = Pending /\ lost' = 1
     /\ TakeNext(taken, FALSE) \/ TakeNext(taken + 1, racing)
     /\ UNCHANGED <<conns, accepts>>
  \/ /\ m_acceptor' = "listening" /\ forked' = Pending /\ lost' = 0
     /\ Len(conns) < MaxConns
     /\ TakeNext(taken + 1, racing)
     /\ conns' = Append(conns, Accepting(Robin(taken)))
     /\ accepts' = accepts \cup {Len(conns')}

\* Mutant: the acceptor does not look at m_started.
start_again(taken, racing) == m_started' = TRUE /\ sync_start_listen_i(taken, racing)

\* start() of the acceptor: while m_started is set it does nothing and returns 0,
\* as it does after a failure.
start(taken, racing) ==
  \/ m_started /\ UNCHANGED <<m_next_io_service, m_started, m_acceptor, accepts, conns,
                              forked, lost>>
  \/ ~m_started /\ m_started' = TRUE /\ sync_start_listen_i(taken, racing)

\* listen(): the acceptor is constructed once and kept.
listen ==
  /\ ~stopping /\ m_io # None /\ listens < MaxListens
  /\ listens' = listens + 1
  /\ \/ m_sp_acc = None /\ m_sp_acc' = Robin(0) /\ start(1, FALSE)
     \/ /\ m_sp_acc # None /\ UNCHANGED m_sp_acc
        /\ start(0, ready # <<>> /\ Served(m_sp_acc))
  /\ UNCHANGED <<work, m_vt_threads, stopping, starts, doubled, m_io, ready, jobs,
                 crashed, asked>>

-----------------------------------------------------------------------------
(* Any thread.                                                             *)

Failed(cs)   == [k \in DOMAIN cs |-> [conn |-> cs[k], err |-> TRUE]]

\* stop() of the acceptor, with sync_close_i(), which cancels the accept.
stop ==
  /\ m_started /\ m_started' = FALSE
  /\ m_acceptor' = "closed"
  /\ accepts' = {} /\ ready' = ready \o Failed(SetToSeq(accepts))

\* close(): without an acceptor there is nothing to stop.
close ==
  /\ stop
  /\ UNCHANGED <<poolVars, m_io, m_sp_acc, listens, forked, lost, conns, jobs, crashed, asked>>

async_do ==
  /\ m_io # None /\ asked < MaxJobs
  /\ asked' = asked + 1 /\ jobs' = jobs + 1
  /\ UNCHANGED <<poolVars, m_io, accVars, conns, crashed>>

-----------------------------------------------------------------------------
(* The threads of the pool.                                                *)

handle_do ==
  /\ jobs > 0 /\ Served(m_io)
  /\ jobs' = jobs - 1
  /\ UNCHANGED <<poolVars, m_io, accVars, conns, crashed, asked>>

\* Connection c is open, or gone, and `next' says which connections follow it.
Turns(c, st, next) == conns' = [conns EXCEPT ![c].st = st] \o next

\* An error ends the chain.  Otherwise the next accept is started, which fails
\* at once when the acceptor does not listen any more, and then the connection
\* is opened.  An exception drops the connection, and ends the chain too unless
\* it comes from remote_open(), after the next accept.
sync_accept_i(h) ==
  \/ /\ Turns(h.conn, "closed", <<>>)
     /\ ready' = Tail(ready)
     /\ lost' = IF h.err THEN lost ELSE lost + 1
     /\ TakeNext(0, FALSE) \/ (~h.err /\ TakeNext(1, FALSE))
     /\ UNCHANGED accepts
  \/ /\ ~h.err /\ Len(conns) < MaxConns
     /\ \E st \in {"open", "closed"} : Turns(h.conn, st, <<Accepting(Robin(0))>>)
     /\ TakeNext(1, FALSE)
     /\ IF m_acceptor = "listening"
        THEN ready' = Tail(ready) /\ accepts' = accepts \cup {Len(conns')}
        ELSE ready' = Tail(ready) \o Failed(<<Len(conns')>>) /\ UNCHANGED accepts
     /\ UNCHANGED lost

RunAccept ==
  /\ ready # <<>> /\ Served(m_sp_acc)
  /\ sync_accept_i(Head(ready))
  /\ UNCHANGED <<work, m_vt_threads, stopping, starts, doubled, m_io, m_sp_acc, m_started,
                 m_acceptor, listens, forked, jobs, crashed, asked>>

\* External: a peer connects, or accept() fails.
AcceptEnds ==
  /\ \E c \in accepts, err \in BOOLEAN :
       /\ accepts' = accepts \ {c}
       /\ ready' = Append(ready, [conn |-> c, err |-> err])
       /\ lost' = IF err THEN lost + 1 ELSE lost
  /\ UNCHANGED <<poolVars, m_io, m_sp_acc, m_started, m_acceptor, listens, forked, conns,
                 jobs, crashed, asked>>

\* External: the peer leaves or the connection is closed, and its read ends.
ReadEnds ==
  /\ \E c \in 1..Len(conns) : conns[c].st = "open" /\ Turns(c, "ending", <<>>)
  /\ UNCHANGED <<poolVars, m_io, accVars, jobs, crashed, asked>>

\* read_complete_i with the error.
RunRead ==
  /\ \E c \in 1..Len(conns) :
       conns[c].st = "ending" /\ Served(conns[c].io) /\ Turns(c, "closed", <<>>)
  /\ UNCHANGED <<poolVars, m_io, accVars, jobs, crashed, asked>>

Exit == ThreadExits /\ UNCHANGED <<m_io, accVars, conns, jobs, crashed, asked>>

-----------------------------------------------------------------------------

Owner == (\E n \in PoolSizes : PoolStart(n)) \/ PoolStop \/ rpc_server_t \/ listen
Others == close \/ async_do
Pool == handle_do \/ RunAccept \/ RunRead \/ Exit

\* An io_service that runs out of work stops, for good.
OutOfWork ==
  stopped' = [i \in Io' |-> (i \in Io /\ stopped[i]) \/ ~Busy(i)']

Next ==
  /\ ~crashed
  /\ Owner \/ Others \/ Pool \/ AcceptEnds \/ ReadEnds
  /\ OutOfWork

\* The threads of the pool run what is ready, and end; the owner's goes on
\* when all of them have ended.  Nothing is assumed of the peers.
Fairness ==
  /\ WF_vars(~crashed /\ handle_do /\ OutOfWork)
  /\ WF_vars(~crashed /\ RunAccept /\ OutOfWork)
  /\ WF_vars(~crashed /\ RunRead /\ OutOfWork)
  /\ WF_vars(~crashed /\ Exit /\ OutOfWork)
  /\ WF_vars(~crashed /\ stopping /\ PoolStop /\ OutOfWork)

Spec == Init /\ [][Next]_vars
FairSpec == Spec /\ Fairness

-----------------------------------------------------------------------------
(* Properties.                                                             *)

TypeOK ==
  /\ work \in Seq(BOOLEAN) /\ stopped \in [Io -> BOOLEAN]
  /\ m_vt_threads \in Seq([io : Io, running : BOOLEAN])
  /\ {m_io, m_sp_acc} \subseteq Io \cup {None}
  /\ {stopping, doubled, m_started, crashed} \subseteq BOOLEAN
  /\ m_acceptor \in {"closed", "open", "listening"}
  /\ conns \in Seq([io : Io, st : {"accepting", "open", "ending", "closed"}])
  /\ accepts \subseteq 1..Len(conns)
  /\ ready \in Seq([conn : 1..Len(conns), err : BOOLEAN])
  /\ {m_next_io_service, starts, jobs, asked, listens, forked, lost} \subseteq Nat

\* The chain of accepts: as long as the acceptor listens exactly one accept is in
\* flight, outstanding or completed, except that every accept error and every
\* exception before an accept is started, that of listen() itself included, loses one
\* for good (the server is deaf when none is left), and every completed accept that a
\* close() and a listen() overtook adds a second chain.
AcceptChain ==
  m_acceptor = "listening" => Cardinality(accepts) + Pending + lost = 1 + forked

\* An io_service with a work object is run, and by one thread only, which the
\* connections need since they lock nothing; two need a second start() without a
\* stop() in between.
ServedByOneThread ==
  \A i \in Io :
    /\ work[i] => Served(i)
    /\ Cardinality(Threads(i)) > 1 => doubled

\* "Give all the io_services work to do so that their run() functions will not exit
\* until they are explicitly stopped" (io_service_pool.cpp:22).
RunsUntilStopped == ~stopping => \A t \in DOMAIN m_vt_threads : m_vt_threads[t].running

In(c, st) == c \in DOMAIN conns /\ conns[c].st = st
Halted(i) == i \in Io /\ stopped[i]

\* stop() of the pool returns once the acceptor has stopped listening, unless some
\* connection stays open, whose read keeps its io_service alive.
PoolStopReturns ==
  stopping /\ m_acceptor # "listening"
    ~> ~stopping \/ crashed \/ \E c \in DOMAIN conns : In(c, "open")

\* What is posted to an io_service is run, unless the io_service is stopped: a peer
\* that was accepted gets its answer, an ended connection its close, a job its call.
PostedIsRun ==
  /\ \A c \in 1..MaxConns :
       /\ (\E k \in DOMAIN ready : ready[k].conn = c)
            ~> ~In(c, "accepting") \/ Halted(m_sp_acc) \/ crashed
       /\ In(c, "ending") ~> ~In(c, "ending") \/ Halted(conns[c].io) \/ crashed
  /\ jobs > 0 ~> jobs = 0 \/ Halted(m_io) \/ crashed
=============================================================================
