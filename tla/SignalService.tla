---------------------------- MODULE SignalService ----------------------------
(***************************************************************************)
(* signal_service_t and its signal_handler_t: one thread (main) waits for  *)
(* signals in event_loop() and returns from it when a quit signal comes;   *)
(* terminate(), from any thread, makes it come.                            *)
(*                                                                         *)
(* The kernel, external: a signal that is sent stays pending for the       *)
(* process, once, however often it is sent, until sigwait() takes it or a  *)
(* thread that does not block it gets it, and then the default action of   *)
(* these signals kills the process.  A thread inherits the mask of the one *)
(* that creates it; main creates the threads.  The application registers   *)
(* its own signals while main is outside event_loop().                     *)
(***************************************************************************)
EXTENDS Integers, FiniteSets

CONSTANTS
  Signal,       \* the signals there are
  SIGQUIT,
  DefaultQuits, \* those start() registers: SIGINT, SIGQUIT, SIGTERM, SIGHUP
  VectorQuits,  \* the vectors start(quit_signals_) is called with, as sets
  MaxStarts,    \* bound: calls of start()
  MaxSends      \* bound: signals sent from outside

ASSUME SignalAssumption ==
  /\ SIGQUIT \in DefaultQuits /\ DefaultQuits \subseteq Signal
  /\ VectorQuits \subseteq SUBSET Signal
  /\ {MaxStarts, MaxSends} \subseteq Nat

VARIABLES
  m_wait_mask,        \* what sigwait() waits for
  m_signal_func_map,  \* the registered signals -> "quit" (no function) or "call"
  m_pid,              \* whom terminate() signals: "self" or, as 0, the "group"
  m_is_terminated,
  killing,            \* a terminate() has set the flag and not yet called kill()
  mask,               \* the signals main blocks
  workers,            \* the masks of the other threads
  pending,
  main,               \* "out" of start(), "registered", "waiting" in event_loop()
  last,               \* history: what event_loop() returned last
  killed,             \* the <<signal, mask of the thread it hit>> that killed the process
  starts, sends       \* the bounded counters

handler == <<m_wait_mask, m_signal_func_map>>
service == <<m_pid, m_is_terminated, killing>>
threads == <<mask, workers>>
vars    == <<handler, service, threads, pending, main, last, killed, starts, sends>>

\* The service is a static object: m_pid and m_is_terminated begin as zero.
Init ==
  /\ m_wait_mask = {} /\ m_signal_func_map = [s \in {} |-> "quit"]
  /\ m_pid = "group" /\ m_is_terminated = FALSE /\ killing = FALSE
  /\ mask = {} /\ workers = {} /\ pending = {}
  /\ main = "out" /\ last = 0 /\ killed = <<>>
  /\ starts = 0 /\ sends = 0

-----------------------------------------------------------------------------
(* signal_handler_t, in main.                                              *)

\* Registering the signals ss: one that is registered keeps what it has.
Registered(f, ss, kind) ==
  [s \in DOMAIN f \cup ss |-> IF s \in DOMAIN f THEN f[s] ELSE kind]

\* register_signal and register_quit_signal.
register(s, kind) ==
  /\ main = "out"
  /\ m_wait_mask' = m_wait_mask \cup {s}
  /\ m_signal_func_map' = Registered(m_signal_func_map, {s}, kind)
  /\ UNCHANGED <<service, threads, pending, main, last, killed, starts, sends>>

block_all_signal ==
  /\ main = "out"
  /\ mask' = Signal
  /\ UNCHANGED <<handler, service, workers, pending, main, last, killed, starts, sends>>

\* Mutant: only the first wait blocks its signals.
event_loop_blocks_once ==
  /\ main = "registered" /\ main' = "waiting"
  /\ mask' = IF starts = 1 THEN mask \cup m_wait_mask ELSE mask
  /\ UNCHANGED <<handler, service, workers, pending, last, killed, starts, sends>>

\* event_loop() up to the first sigwait().
event_loop ==
  /\ main = "registered" /\ main' = "waiting"
  /\ mask' = mask \cup m_wait_mask
  /\ UNCHANGED <<handler, service, workers, pending, last, killed, starts, sends>>

HasCallback(s) == s \in DOMAIN m_signal_func_map /\ m_signal_func_map[s] = "call"

\* sigwait() takes a signal: its call-back runs, or the loop ends, with 0, or with
\* -1 when the signal has no entry.
sigwait ==
  /\ main = "waiting"
  /\ \E s \in pending \cap m_wait_mask :
       /\ pending' = pending \ {s}
       /\ \/ ~HasCallback(s) /\ main' = "out"
             /\ last' = IF s \in DOMAIN m_signal_func_map THEN 0 ELSE -1
          \/ HasCallback(s) /\ UNCHANGED <<main, last>>
  /\ UNCHANGED <<handler, service, threads, killed, starts, sends>>

\* Mutant: the flag alone, as the commented-out test of m_terminate had it.
set_terminate_flag ==
  /\ killing /\ killing' = FALSE
  /\ UNCHANGED <<handler, m_pid, m_is_terminated, threads, pending, main, last, killed, starts,
                 sends>>

\* set_terminate(pid_), in the thread that calls terminate(): kill() reaches this
\* process whether m_pid is its own or 0, and for 0 the rest of its group too.
set_terminate ==
  /\ killing /\ killing' = FALSE
  /\ pending' = pending \cup {SIGQUIT}
  /\ UNCHANGED <<handler, m_pid, m_is_terminated, threads, main, last, killed, starts, sends>>

-----------------------------------------------------------------------------
(* signal_service_t.                                                       *)

\* start() and start(quit_signals_) up to event_loop(): what the registrations
\* return is not looked at, and only start() sets m_pid.
start(quits, pid) ==
  /\ main = "out" /\ starts < MaxStarts
  /\ main' = "registered" /\ starts' = starts + 1
  /\ m_pid' = pid /\ m_is_terminated' = FALSE
  /\ m_wait_mask' = m_wait_mask \cup quits
  /\ m_signal_func_map' = Registered(m_signal_func_map, quits, "quit")
  /\ UNCHANGED <<killing, threads, pending, last, killed, sends>>

\* terminate(), in any thread, up to the call of set_terminate().
terminate ==
  /\ ~killing
  /\ m_is_terminated' = TRUE /\ killing' = TRUE
  /\ UNCHANGED <<handler, m_pid, threads, pending, main, last, killed, starts, sends>>

-----------------------------------------------------------------------------
(* The world.                                                              *)

\* External: main creates a thread.
Spawn ==
  /\ main = "out"
  /\ workers' = workers \cup {mask}
  /\ UNCHANGED <<handler, service, mask, pending, main, last, killed, starts, sends>>

\* External: somebody sends the process a signal.
Arrives(s) ==
  /\ sends < MaxSends /\ sends' = sends + 1
  /\ pending' = pending \cup {s}
  /\ UNCHANGED <<handler, service, threads, main, last, killed, starts>>

\* External: the kernel gives a signal to a thread that lets it in.
Deliver ==
  /\ \E s \in pending, m \in {mask} \cup workers : s \notin m /\ killed' = <<s, m>>
  /\ UNCHANGED <<handler, service, threads, pending, main, last, starts, sends>>

Next ==
  /\ killed = <<>>
  /\ \/ \E s \in Signal, kind \in {"quit", "call"} : register(s, kind)
     \/ block_all_signal \/ event_loop \/ sigwait \/ set_terminate
     \/ start(DefaultQuits, "self") \/ \E quits \in VectorQuits : start(quits, m_pid)
     \/ terminate \/ Spawn \/ Deliver
     \/ \E s \in Signal : Arrives(s)

Spec == Init /\ [][Next]_vars

\* The threads go on: main to its wait and through what is pending, the thread in
\* terminate() to its kill().
Fairness ==
  /\ WF_vars(killed = <<>> /\ event_loop)
  /\ WF_vars(killed = <<>> /\ sigwait)
  /\ WF_vars(killed = <<>> /\ set_terminate)

FairSpec == Spec /\ Fairness

-----------------------------------------------------------------------------
(* Properties.                                                             *)

\* Whatever was registered by whom and in which order, over several starts:
\* event_loop() never takes its error return (signal_handler.cpp:80), and when a
\* signal it waits for kills the process nevertheless, it hit another thread, one
\* created before that signal was blocked; the waiting thread itself is safe.
WaiterSurvives ==
  /\ last # -1
  /\ killed # <<>> /\ main = "waiting" /\ killed[1] \in m_wait_mask
       => killed[2] \in workers \ {mask}

\* terminate() ends the wait (signal_service.h:35): once the flag is set while main
\* waits, with SIGQUIT registered as a quit signal, event_loop() returns, unless
\* a thread with an open mask got the signal and the process died.
TerminateEndsLoop ==
  (/\ main = "waiting" /\ m_is_terminated
   /\ SIGQUIT \in DOMAIN m_signal_func_map /\ m_signal_func_map[SIGQUIT] = "quit")
    ~> (main # "waiting" \/ killed # <<>>)
=============================================================================
