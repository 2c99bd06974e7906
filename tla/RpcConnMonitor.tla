--------------------------- MODULE RpcConnMonitor ---------------------------
(***************************************************************************)
(* rpc_conn_monitor_t over the heart-beat service, for several connections *)
(* at once: the elements are connections, and the call-back closes them.   *)
(* RpcConnecter has the monitor's side of one connection in detail; here   *)
(* the service is the real one, with its queue, sweep, limit and counter,  *)
(* and a connection is open until it is closed.                            *)
(*                                                                         *)
(* The monitor never stops the service: stop() only asks it to expel       *)
(* everything and clears the monitor's own m_started.                      *)
(***************************************************************************)
EXTENDS HeartBeatService

CONSTANTS
  Settings,   \* the heart_beat_setting_t's that start() is called with
  MaxClosings \* bound: calls of close_all() and stop()

ASSUME MonitorAssumption ==
  /\ MaxClosings \in Nat
  /\ Settings \subseteq [timeout_flag : BOOLEAN, timeout : Nat,
                          max_limit_flag : BOOLEAN, max_limit : Nat]

VARIABLES
  monitor,     \* "off", "starting", "on", "closing" (in stop, m_started still set)
  setting,     \* the heart_beat_setting_t of the start that counts
  applied,     \* how many of its parts start() has passed on
  status,      \* Element -> "new", "adding", "open", "closed"
  closing,     \* the connections whose io_service has a close() queued
  announced,   \* history: the connections add() has posted
  unwatched,   \* history: those for which the service had no memory
  closings,    \* calls of close_all() so far, those of stop() included
  stops        \* calls of stop() so far

monVars  == <<monitor, setting, applied, closings, stops>>
connVars == <<status, closing, announced, unwatched>>
cvars    == <<vars, monVars, connVars>>

\* The monitor never calls get_all_element_and_clear: its flag does not matter.
MonInit ==
  /\ Init /\ ~m_get_element_flag
  /\ monitor = "off" /\ setting \in Settings /\ applied = 0
  /\ status = [c \in Element |-> "new"] /\ closing = {}
  /\ announced = {} /\ unwatched = {} /\ closings = 0 /\ stops = 0

\* The monitor's m_started.
Started == monitor \in {"on", "closing"}

-----------------------------------------------------------------------------
(* The thread that starts and stops the monitor.                           *)

\* The settings and the start go to the service one after the other.
Configured ==
  \/ applied = 0 /\ set_callback_function /\ UNCHANGED svcVars
  \/ applied = 1 /\ set_timeout(setting.timeout_flag, setting.timeout) /\ UNCHANGED svcVars
  \/ applied = 2 /\ set_max_limit(setting.max_limit_flag, setting.max_limit)
       /\ UNCHANGED svcVars
  \/ applied = 3 /\ start

start_step ==
  /\ monitor \in {"off", "starting"} /\ applied < 4
  /\ Configured
  /\ applied' = applied + 1
  /\ monitor' = IF applied = 3 THEN "on" ELSE "starting"
  /\ UNCHANGED <<setting, closings, stops, connVars>>

\* A running service refuses all four calls: only m_started changes.
start_again ==
  /\ monitor = "off" /\ applied = 4
  /\ monitor' = "on"
  /\ UNCHANGED <<vars, setting, applied, closings, stops, connVars>>

\* close_all(), and the one that stop() begins with.
close_all(next) ==
  /\ monitor = "on" /\ closings < MaxClosings
  /\ trigger_all
  /\ monitor' = next /\ closings' = closings + 1
  /\ stops' = IF next = "closing" THEN stops + 1 ELSE stops
  /\ UNCHANGED <<setting, applied, connVars>>

stop_monitor ==
  /\ monitor = "closing" /\ monitor' = "off"
  /\ UNCHANGED <<vars, setting, applied, closings, stops, connVars>>

-----------------------------------------------------------------------------
(* The threads of the connections.                                         *)

\* on_remote_open(): add() tests m_started, then posts.
open(c) ==
  /\ status[c] = "new"
  /\ status' = [status EXCEPT ![c] = IF Started THEN "adding" ELSE "open"]
  /\ UNCHANGED <<vars, monVars, closing, announced, unwatched>>

add(c) ==
  /\ status[c] = "adding"
  /\ async_request([op |-> "add", element |-> c])
  /\ status' = [status EXCEPT ![c] = "open"]
  /\ announced' = announced \cup {c}
  /\ UNCHANGED <<monVars, closing, unwatched>>

update(c) ==
  /\ status[c] = "open" /\ Started
  /\ async_request([op |-> "update", element |-> c])
  /\ UNCHANGED <<monVars, connVars>>

\* del() posts once for each connection, whatever the bound on the queue.
del(c) ==
  \/ ~Started /\ UNCHANGED vars
  \/ /\ Started /\ post([op |-> "del", element |-> c])
     /\ UNCHANGED <<mgrVars, m_started, stopped, waits, expires, thread, owner,
                    m_get_element_flag, starts>>

\* The connection is closed, because its close() runs or its peer left.
Close(c) ==
  /\ status[c] = "open"
  /\ status' = [status EXCEPT ![c] = "closed"]
  /\ closing' = closing \ {c}
  /\ del(c)
  /\ UNCHANGED <<monVars, announced, unwatched>>

-----------------------------------------------------------------------------
(* The heart-beat thread.                                                  *)

\* Mutants: the test of m_started is the wrong way round; only the first of the
\* connections expelled together is closed.
monitor_timeout_inverted(cs) ==
  closing' = closing \cup {c \in ToSet(cs) : ~Started /\ status[c] = "open"}

monitor_timeout_first(cs) ==
  closing' = closing \cup
    {c \in Element : Started /\ cs # <<>> /\ c = cs[1] /\ status[c] = "open"}

\* handle_timeout(), for each of the connections cs that the service expels: a
\* close() is posted, which does nothing to a connection that is closed already.
monitor_timeout(cs) ==
  closing' = closing \cup {c \in ToSet(cs) : Started /\ status[c] = "open"}

Beat ==
  /\ RunHandler
  /\ monitor_timeout(handed')
  /\ unwatched' = unwatched \cup
       {c \in Element : Head(queue) = [op |-> "add", element |-> c] /\ m_elements'[c] = NULL}
  /\ UNCHANGED <<monVars, status, announced>>

Timer == (TimerFires \/ ClockTicks) /\ UNCHANGED <<monVars, connVars>>

-----------------------------------------------------------------------------

Controls == start_step \/ start_again \/ close_all("on") \/ close_all("closing") \/ stop_monitor
Connections == \E c \in Element : open(c) \/ add(c) \/ update(c) \/ Close(c)

MonNext == ~crashed /\ (Controls \/ Connections \/ Beat \/ Timer)

\* The heart-beat thread and the io_services of the connections run what is queued.
MonFairness ==
  /\ WF_cvars(~crashed /\ Beat)
  /\ \A c \in Element : WF_cvars(~crashed /\ c \in closing /\ Close(c))

MonSpec == MonInit /\ [][MonNext]_cvars
MonFairSpec == MonSpec /\ MonFairness

-----------------------------------------------------------------------------
(* Properties.                                                             *)

MonTypeOK ==
  /\ TypeOK
  /\ monitor \in {"off", "starting", "on", "closing"} /\ setting \in Settings
  /\ applied \in 0..4 /\ closings \in Nat /\ stops \in Nat
  /\ status \in [Element -> {"new", "adding", "open", "closed"}]
  /\ {closing, announced, unwatched} \subseteq SUBSET Element

Watched(c)      == m_elements[c] # NULL
Requested(c)    == \E i \in 1..Len(queue) : queue[i] \in Request /\ queue[i].element = c
AddRequested(c) == [op |-> "add", element |-> c] \in ToSet(queue)

\* As long as the monitor was not stopped, it watches exactly the connections that
\* live: an open one that was announced is watched, or its add is on the way, or its
\* close, or there was no memory for it; a closed one is forgotten as soon as its
\* requests have been served, however sweep, limit and close_all interfere.
WatchesTheLiving ==
  stops = 0 => \A c \in Element :
    /\ status[c] = "open" /\ c \in announced
         => Watched(c) \/ AddRequested(c) \/ c \in closing \/ c \in unwatched
    /\ status[c] = "closed" /\ ~Requested(c) => ~Watched(c)

\* The limit holds for connections, not only for list nodes: of those that were
\* announced and registered no more than max_limit stay open without being closed.
LimitIsEnforced ==
  stops = 0 /\ setting.max_limit_flag =>
    Cardinality({c \in announced \ (closing \cup unwatched) :
                   status[c] = "open" /\ ~AddRequested(c)}) <= setting.max_limit

\* close_all() closes: a connection that is watched while the request is queued gets
\* closed, unless the monitor is stopped, which makes the call-backs do nothing.
CloseAllCloses ==
  \A c \in Element :
    Watched(c) /\ [op |-> "trigger"] \in ToSet(queue)
      ~> status[c] = "closed" \/ stops > 0 \/ crashed
=============================================================================
