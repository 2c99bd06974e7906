-------------------------- MODULE HeartBeatService --------------------------
(***************************************************************************)
(* heart_beat_service_t: the element manager behind an asio io_service.    *)
(*                                                                         *)
(* Three kinds of actors meet here.  The owner, one thread (the class is   *)
(* documented as thread unsafe), configures, starts, stops and drains the  *)
(* service.  Clients in any thread post requests.  The service thread runs *)
(* the handlers, one at a time, in the order in which they were queued;    *)
(* only it touches the manager while the service is started.  A deadline   *)
(* timer that every handle_timeout arms again drives the sweep.            *)
(*                                                                         *)
(* asio is modelled by what this code uses of it: post appends a handler;  *)
(* a wait whose expiry has come appends its handler; setting a new expiry  *)
(* cancels the outstanding waits, whose handlers are then appended with an *)
(* error (handle_timeout only logs it); stop() sets a flag that only       *)
(* reset() would clear, and this code never calls reset().                 *)
(***************************************************************************)
EXTENDS HeartBeatElementMgr

CONSTANTS
  Ticks,      \* HEART_BEAT_TICKS
  MaxQueue,   \* bound: clients and owner post only below this queue length
  MaxStarts   \* bound: how often the owner starts the service

ASSUME ServiceAssumption ==
  Ticks \in Nat \ {0} /\ MaxQueue \in Nat /\ MaxStarts \in Nat

VARIABLES
  m_started,
  queue,               \* the handlers ready to run
  stopped,             \* the stopped flag of m_io_service
  thread,              \* m_thread: "none", "running", "exited"
  waits, expires,      \* m_timer: its outstanding waits and its expiry
  owner,               \* what the owner is doing: "idle", "joining", "spinning"
  m_get_element_flag,
  starts               \* the number of starts so far

ioVars  == <<queue, stopped, waits, expires>>
svcVars == <<m_started, ioVars, thread, owner, m_get_element_flag, starts>>
vars    == <<mgrVars, svcVars>>

Request == [op : {"add", "update", "del"}, element : Element]
Command == [op : {"get_all", "trigger", "stop", "timer"}]

\* The constructor leaves m_get_element_flag uninitialised.
Init ==
  /\ MgrInit
  /\ m_started = FALSE
  /\ queue = <<>> /\ stopped = FALSE
  /\ thread = "none"
  /\ waits = 0 /\ expires = 0
  /\ owner = "idle"
  /\ m_get_element_flag \in BOOLEAN
  /\ starts = 0

-----------------------------------------------------------------------------
(* asio.                                                                   *)

Queued(op) == Cardinality({i \in 1..Len(queue) : queue[i].op = op})

post(h) == queue' = Append(queue, h)

TimerHandler == [op |-> "timer"]

\* expires_from_now / expires_at followed by async_wait, on the queue q.
Rearm(q, t) ==
  /\ expires' = t
  /\ queue' = q \o [i \in 1..waits |-> TimerHandler]
  /\ waits' = 1

\* The expiry has come: the waits complete.
TimerFires ==
  /\ thread = "running" /\ ~stopped
  /\ waits > 0 /\ now >= expires
  /\ queue' = queue \o [i \in 1..waits |-> TimerHandler]
  /\ waits' = 0
  /\ UNCHANGED <<mgrVars, m_started, stopped, expires, thread, owner,
                 m_get_element_flag, starts>>

-----------------------------------------------------------------------------
(* The owner.  A setting or a start is refused while m_started is set, a   *)
(* stop while it is not: nothing changes then.                             *)

\* Mutant: settings are accepted while the service is started.
set_settings_any_time ==
  /\ owner = "idle"
  /\ \/ set_callback_function
     \/ \E flag \in BOOLEAN, t \in Timeouts : set_timeout(flag, t)
     \/ \E flag \in BOOLEAN, l \in Limits : set_max_limit(flag, l)
  /\ UNCHANGED svcVars

set_settings ==
  /\ owner = "idle" /\ ~m_started
  /\ \/ set_callback_function
     \/ \E flag \in BOOLEAN, t \in Timeouts : set_timeout(flag, t)
     \/ \E flag \in BOOLEAN, l \in Limits : set_max_limit(flag, l)
  /\ UNCHANGED svcVars

start ==
  /\ owner = "idle" /\ ~m_started
  /\ starts < MaxStarts
  /\ Rearm(queue, now + Ticks)
  /\ thread' = "running"
  /\ m_started' = TRUE
  /\ starts' = starts + 1
  /\ UNCHANGED <<mgrVars, stopped, owner, m_get_element_flag>>

\* stop(): the request is posted, then join() waits for the thread.
stop ==
  /\ owner = "idle" /\ m_started
  /\ post([op |-> "stop"])
  /\ owner' = "joining"
  /\ UNCHANGED <<mgrVars, m_started, stopped, waits, expires, thread,
                 m_get_element_flag, starts>>

stop_joined ==
  /\ owner = "joining" /\ thread = "exited"
  /\ m_started' = FALSE
  /\ owner' = "idle"
  /\ UNCHANGED <<mgrVars, ioVars, thread, m_get_element_flag, starts>>

\* Mutant: the flag keeps the value of the call before.
get_all_stale_flag ==
  /\ owner = "idle"
  /\ Len(queue) < MaxQueue
  /\ post([op |-> "get_all"])
  /\ owner' = "spinning"
  /\ UNCHANGED <<mgrVars, m_started, stopped, waits, expires, thread,
                 m_get_element_flag, starts>>

\* get_all_element_and_clear(): clear the flag, post, spin on the flag.
get_all ==
  /\ owner = "idle"
  /\ Len(queue) < MaxQueue
  /\ m_get_element_flag' = FALSE
  /\ post([op |-> "get_all"])
  /\ owner' = "spinning"
  /\ UNCHANGED <<mgrVars, m_started, stopped, waits, expires, thread, starts>>

get_all_done ==
  /\ owner = "spinning" /\ m_get_element_flag
  /\ owner' = "idle"
  /\ UNCHANGED <<mgrVars, m_started, ioVars, thread, m_get_element_flag, starts>>

trigger_all ==
  /\ owner = "idle"
  /\ Len(queue) < MaxQueue
  /\ post([op |-> "trigger"])
  /\ UNCHANGED <<mgrVars, m_started, stopped, waits, expires, thread, owner,
                 m_get_element_flag, starts>>

-----------------------------------------------------------------------------
(* The clients.  Adds stop at MaxCount here, so that the manager's own     *)
(* bound never holds back a handler that is already queued.                *)

async_request(r) ==
  /\ Len(queue) < MaxQueue
  /\ r.op = "add" => m_element_count + Queued("add") < MaxCount
  /\ post(r)
  /\ UNCHANGED <<mgrVars, m_started, stopped, waits, expires, thread, owner,
                 m_get_element_flag, starts>>

-----------------------------------------------------------------------------
(* The service thread: io_service::run().                                  *)

\* A handler that only works on the manager.
Serve ==
  /\ \/ Head(queue).op = "add"    /\ add_element(Head(queue).element)
     \/ Head(queue).op = "update" /\ update_element(Head(queue).element)
     \/ Head(queue).op = "del"    /\ del_element(Head(queue).element)
     \/ Head(queue).op = "trigger" /\ trigger_all_timeout
  /\ queue' = Tail(queue)
  /\ UNCHANGED <<m_started, stopped, waits, expires, thread, owner,
                 m_get_element_flag, starts>>

\* Mutant: the waiting owner is not told.
get_all_i_silent ==
  /\ Head(queue).op = "get_all"
  /\ get_all_element_and_clear
  /\ queue' = Tail(queue)
  /\ UNCHANGED <<m_started, stopped, waits, expires, thread, owner,
                 m_get_element_flag, starts>>

\* get_all_element_and_clear_i(): fill the vector, then raise the flag.
get_all_i ==
  /\ Head(queue).op = "get_all"
  /\ get_all_element_and_clear
  /\ m_get_element_flag' = TRUE
  /\ queue' = Tail(queue)
  /\ UNCHANGED <<m_started, stopped, waits, expires, thread, owner, starts>>

\* Mutants: the elements are kept; the io_service is not stopped.
stop_service_keeps_elements ==
  /\ Head(queue).op = "stop"
  /\ stopped' = TRUE
  /\ queue' = Tail(queue)
  /\ UNCHANGED <<mgrVars, m_started, waits, expires, thread, owner,
                 m_get_element_flag, starts>>

stop_service_goes_on ==
  /\ Head(queue).op = "stop"
  /\ clear_element
  /\ queue' = Tail(queue)
  /\ UNCHANGED <<m_started, stopped, waits, expires, thread, owner,
                 m_get_element_flag, starts>>

stop_service ==
  /\ Head(queue).op = "stop"
  /\ clear_element
  /\ stopped' = TRUE
  /\ queue' = Tail(queue)
  /\ UNCHANGED <<m_started, waits, expires, thread, owner, m_get_element_flag, starts>>

\* Mutant: the timer is not armed again.
timer_i_once ==
  /\ Head(queue).op = "timer"
  /\ queue' = Tail(queue)
  /\ handle_timeout
  /\ UNCHANGED <<m_started, stopped, waits, expires, thread, owner,
                 m_get_element_flag, starts>>

\* The timer handler: arm the timer one period after its last expiry, sweep.
timer_i ==
  /\ Head(queue).op = "timer"
  /\ Rearm(Tail(queue), expires + Ticks)
  /\ handle_timeout
  /\ UNCHANGED <<m_started, stopped, thread, owner, m_get_element_flag, starts>>

RunHandler ==
  /\ thread = "running" /\ ~stopped
  /\ queue # <<>>
  /\ Serve \/ get_all_i \/ stop_service \/ timer_i

\* run() returns when the io_service is stopped: at once if it already was.
ThreadExits ==
  /\ thread = "running" /\ stopped
  /\ thread' = "exited"
  /\ UNCHANGED <<mgrVars, m_started, ioVars, owner, m_get_element_flag, starts>>

ClockTicks == Tick /\ UNCHANGED svcVars

Owner  == set_settings \/ start \/ stop \/ stop_joined \/ get_all \/ get_all_done \/ trigger_all
Client == \E r \in Request : async_request(r)

Next ==
  /\ ~crashed
  /\ Owner \/ Client \/ RunHandler \/ ThreadExits \/ TimerFires \/ ClockTicks

\* The operating system schedules the service thread and, when it can go on, the
\* owner's; the clock advances and asio completes the waits that are due.
Fairness ==
  /\ WF_vars(~crashed /\ RunHandler)
  /\ WF_vars(~crashed /\ ThreadExits)
  /\ WF_vars(~crashed /\ TimerFires)
  /\ WF_vars(~crashed /\ ClockTicks)
  /\ WF_vars(~crashed /\ (stop_joined \/ get_all_done))

Spec == Init /\ [][Next]_vars
FairSpec == Spec /\ Fairness

-----------------------------------------------------------------------------
(* Properties.                                                             *)

TypeOK ==
  /\ MgrTypeOK
  /\ m_started \in BOOLEAN /\ stopped \in BOOLEAN /\ m_get_element_flag \in BOOLEAN
  /\ queue \in Seq(Request \cup Command)
  /\ thread \in {"none", "running", "exited"}
  /\ owner \in {"idle", "joining", "spinning"}
  /\ waits \in Nat /\ expires \in Nat /\ starts \in Nat

\* The timer chain never breaks and never forks while the io_service serves: there
\* is exactly one outstanding wait or one queued timer handler.
TimerChain ==
  thread = "running" /\ ~stopped => waits + Queued("timer") = 1

\* The settings, which set_* changes as soon as m_started is false, never change
\* under a registered element: nothing survives a stop, even when requests were
\* still queued behind it.
StoppedIsEmpty == ~m_started => m_busy_list = <<>>

\* Once get_all_element_and_clear has returned, no handler is left that would
\* write through the pointer to the caller's vector.
NoDanglingVector == owner # "spinning" => Queued("get_all") = 0

\* Nobody waits for nothing: while stop() joins, the service thread has ended or will
\* come to a stop request; and while get_all_element_and_clear() spins, its handler is
\* queued exactly as long as the flag is down.
WaitersAreAnswered ==
  /\ owner = "joining" => thread # "none" /\ (stopped \/ Queued("stop") > 0)
  /\ owner = "spinning" => Queued("get_all") = IF m_get_element_flag THEN 0 ELSE 1

\* Every step of the service is a legal step of the manager or does not touch it,
\* so all that is proved of the manager holds inside the service.
UsesManager == MgrSpec

\* "identify whether service is running" (heart_beat_service.h:124), outside of
\* stop() itself.
StartedMeansRunning == m_started /\ owner = "idle" => thread = "running"

\* stop() returns: the service thread reaches the posted request and ends.
StopReturns == owner = "joining" ~> owner = "idle" \/ crashed

\* get_all_element_and_clear() called while the thread serves returns.
GetAllReturns ==
  owner = "spinning" /\ thread = "running" /\ ~stopped ~> owner = "idle" \/ crashed

\* An element that stays silent is expelled: with the time-out enabled and the
\* service running, an element refreshed at t is refreshed again or gone by the
\* first sweep after t + m_timeout, at most one period later.
SilentIsExpelled ==
  \A e \in Element, t \in Time :
    LastRefresh[e] = t /\ m_timeout_flag /\ t + m_timeout + Ticks <= MaxTime
      ~> LastRefresh[e] # t \/ stopped \/ crashed
=============================================================================
