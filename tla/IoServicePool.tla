---------------------------- MODULE IoServicePool ----------------------------
(***************************************************************************)
(* io_service_pool_t: a vector of io_services, each kept alive by a work   *)
(* object and run by a thread.  start() may be called again, with or       *)
(* without a stop() in between: it appends new io_services and starts a    *)
(* thread for every one in the vector, the old ones included.  stop()      *)
(* drops the work objects and joins the threads; it does not stop the      *)
(* io_services, and it never removes one.                                  *)
(*                                                                         *)
(* asio: an io_service whose last piece of work ends is stopped, and only  *)
(* reset(), which nobody calls, would change that; run() returns when the  *)
(* io_service is stopped.  What keeps an io_service busy besides its work  *)
(* object is up to the module that uses the pool, which sets `stopped'.    *)
(***************************************************************************)
EXTENDS Integers, Sequences, FiniteSets, SequencesExt

CONSTANTS
  PoolSizes,   \* what start() is called with; it throws on 0
  MaxStarts    \* bound: calls of start()

ASSUME PoolAssumption == PoolSizes \subseteq Nat \ {0} /\ MaxStarts \in Nat

VARIABLES
  work,               \* io_service -> its work object is in m_work_set
  stopped,            \* io_service -> asio's flag
  m_vt_threads,       \* the threads: which io_service, still in run()?
  m_next_io_service,
  stopping,           \* some thread is inside stop()
  starts,             \* calls of start() so far
  doubled             \* history: one of them met the threads of another

poolVars == <<work, m_vt_threads, m_next_io_service, stopping, starts, doubled>>

\* m_io_services_set: its length, and one io_service of it.
Size == Len(work)
Io   == 1..Size

PoolInit ==
  /\ work = <<>> /\ stopped = <<>> /\ m_vt_threads = <<>>
  /\ m_next_io_service = 0
  /\ stopping = FALSE /\ starts = 0 /\ doubled = FALSE

\* An io_service is served: a thread is inside its run().
Threads(i) == {t \in 1..Len(m_vt_threads) : m_vt_threads[t].io = i /\ m_vt_threads[t].running}
Served(i)  == ~stopped[i] /\ Threads(i) # {}

-----------------------------------------------------------------------------

\* Mutant: the last io_service gets no thread.
pool_start_off_by_one(n) ==
  /\ ~stopping /\ starts < MaxStarts
  /\ work' = work \o [k \in 1..n |-> TRUE]
  /\ m_vt_threads' =
       m_vt_threads \o [i \in 1..Size + n - 1 |-> [io |-> i, running |-> TRUE]]
  /\ starts' = starts + 1
  /\ doubled' = (doubled \/ m_vt_threads # <<>>)
  /\ UNCHANGED <<m_next_io_service, stopping>>

pool_start(n) ==
  /\ ~stopping /\ starts < MaxStarts
  /\ work' = work \o [k \in 1..n |-> TRUE]
  /\ m_vt_threads' =
       m_vt_threads \o [i \in 1..Size + n |-> [io |-> i, running |-> TRUE]]
  /\ starts' = starts + 1
  /\ doubled' = (doubled \/ m_vt_threads # <<>>)
  /\ UNCHANGED <<m_next_io_service, stopping>>

\* Mutant: the work objects stay.
pool_stop_keeps_work ==
  /\ ~stopping /\ stopping' = TRUE
  /\ UNCHANGED <<work, m_vt_threads, m_next_io_service, starts, doubled>>

\* stop() up to the joins.
pool_stop ==
  /\ ~stopping /\ stopping' = TRUE
  /\ work' = [i \in Io |-> FALSE]
  /\ UNCHANGED <<m_vt_threads, m_next_io_service, starts, doubled>>

pool_joined ==
  /\ stopping /\ stopping' = FALSE
  /\ \A i \in Io : Threads(i) = {}
  /\ m_vt_threads' = <<>>
  /\ UNCHANGED <<work, m_next_io_service, starts, doubled>>

\* External: run() returns.
ThreadExits ==
  /\ \E t \in 1..Len(m_vt_threads) :
       /\ m_vt_threads[t].running /\ stopped[m_vt_threads[t].io]
       /\ m_vt_threads' = [m_vt_threads EXCEPT ![t].running = FALSE]
  /\ UNCHANGED <<work, m_next_io_service, stopping, starts, doubled>>

-----------------------------------------------------------------------------
(* get_io_service().  The increment is not synchronised: when another      *)
(* thread is in get_io_service() too, both may get the same io_service and *)
(* one increment be lost.                                                  *)

Robin(k) == 1 + ((m_next_io_service + k) % Size)

\* k io_services are taken.
TakeNext(k, racing) ==
  m_next_io_service' \in {m_next_io_service + k}
                         \cup (IF racing THEN {m_next_io_service + k - 1} ELSE {})
=============================================================================
