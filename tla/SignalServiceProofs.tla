------------------------- MODULE SignalServiceProofs -------------------------
(***************************************************************************)
(* The waiting thread is safe for any set of signals, any registrations,   *)
(* any number of starts and of other threads.                              *)
(***************************************************************************)
EXTENDS SignalService, TLAPS

-----------------------------------------------------------------------------
(* The inductive invariant.                                                *)

\* What main waits for is what it has registered, and blocked when it waits: the
\* registrations enter the mask and the table together, and none happens during the
\* wait.  A signal kills through a thread that lets it in.
SignalInv ==
  /\ m_wait_mask = DOMAIN m_signal_func_map
  /\ main = "waiting" => m_wait_mask \subseteq mask
  /\ last = 0
  /\ killed # <<>> => /\ killed[1] \notin killed[2]
                      /\ killed[2] \in {mask} \cup workers

LEMMA SignalStep ==
  ASSUME SignalInv, [Next]_vars
  PROVE  SignalInv'
<1> USE DEF handler, service, threads
<1>1. \A f, ss, kind : DOMAIN Registered(f, ss, kind) = DOMAIN f \cup ss
  BY DEF Registered
<1>2. ASSUME NEW s \in Signal, NEW kind \in {"quit", "call"}, register(s, kind), killed = <<>>
      PROVE  SignalInv'
  BY <1>1, <1>2 DEF SignalInv, register
<1>3. ASSUME NEW quits, NEW pid, start(quits, pid), killed = <<>> PROVE SignalInv'
  BY <1>1, <1>3 DEF SignalInv, start
<1>4. CASE killed = <<>> /\ block_all_signal
  BY <1>4 DEF SignalInv, block_all_signal
<1>5. CASE killed = <<>> /\ event_loop
  BY <1>5 DEF SignalInv, event_loop
<1>6. CASE killed = <<>> /\ sigwait
  <2>1. PICK s \in pending \cap m_wait_mask :
          \/ main' = "out" /\ last' = IF s \in DOMAIN m_signal_func_map THEN 0 ELSE -1
          \/ UNCHANGED <<main, last>>
    BY <1>6 DEF sigwait
  <2>2. last' = 0 /\ (main' = "waiting" => main = "waiting")
    BY <2>1 DEF SignalInv
  <2>3. UNCHANGED <<m_wait_mask, m_signal_func_map, mask, workers, killed>>
    BY <1>6 DEF sigwait
  <2> QED BY <1>6, <2>2, <2>3 DEF SignalInv
<1>7. CASE killed = <<>> /\ (set_terminate \/ terminate)
  BY <1>7 DEF SignalInv, set_terminate, terminate
<1>8. CASE killed = <<>> /\ Spawn
  BY <1>8 DEF SignalInv, Spawn
<1>9. ASSUME NEW s \in Signal, Arrives(s), killed = <<>> PROVE SignalInv'
  BY <1>9 DEF SignalInv, Arrives
<1>10. CASE Deliver
  <2>1. PICK s \in pending, m \in {mask} \cup workers : s \notin m /\ killed' = <<s, m>>
    BY <1>10 DEF Deliver
  <2>2. killed'[1] = s /\ killed'[2] = m
    BY <2>1
  <2>3. UNCHANGED <<m_wait_mask, m_signal_func_map, mask, workers, main, last>>
    BY <1>10 DEF Deliver
  <2> QED BY <2>1, <2>2, <2>3 DEF SignalInv
<1>11. CASE UNCHANGED vars
  BY <1>11 DEF SignalInv, vars
<1> QED BY <1>2, <1>3, <1>4, <1>5, <1>6, <1>7, <1>8, <1>9, <1>10, <1>11 DEF Next

\* event_loop never takes its error return, and what main waits for never kills the
\* process through main.
THEOREM WaiterSurvivesCorrect == Spec => []WaiterSurvives
<1>1. Init => SignalInv
  BY DEF Init, SignalInv
<1>2. SignalInv /\ [Next]_vars => SignalInv'
  BY SignalStep
<1>3. SignalInv => WaiterSurvives
  BY DEF SignalInv, WaiterSurvives
<1> QED BY <1>1, <1>2, <1>3, PTL DEF Spec
=============================================================================
