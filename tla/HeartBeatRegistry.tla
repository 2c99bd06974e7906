-------------------------- MODULE HeartBeatRegistry --------------------------
(***************************************************************************)
(* What heart_beat_element_mgr_t promises: a table of elements with the    *)
(* time each of them was last refreshed.  Nothing is said of lists, nodes  *)
(* or counters.  `handed' are the elements the last operation handed out.  *)
(* When an eviction happens is left open to the implementation, as long as *)
(* the limit is enabled; which element it may take is not.                 *)
(***************************************************************************)
EXTENDS Integers, FiniteSets, SequencesExt

CONSTANTS Element, Timeouts

VARIABLES
  refreshed,            \* Element -> time of the last refresh, -1 when absent
  handed, now,
  m_callback_function, m_timeout_flag, m_timeout, m_max_limit_flag

rconf == <<m_callback_function, m_timeout_flag, m_timeout, m_max_limit_flag>>
rvars == <<refreshed, handed, now, rconf>>

Absent == -1
Watched == {e \in Element : refreshed[e] # Absent}

RInit ==
  /\ refreshed = [e \in Element |-> Absent]
  /\ handed = <<>> /\ now = 0
  /\ rconf = <<FALSE, FALSE, 0, FALSE>>

\* s enumerates S without repetition, ordered by the time of the last refresh.
Enumerates(s, S, Before(_, _)) ==
  /\ ToSet(s) = S /\ Len(s) = Cardinality(S)
  /\ \A i, j \in 1..Len(s) : i < j => Before(refreshed[s[i]], refreshed[s[j]])

OldestFirst(t, u) == t <= u
NewestFirst(t, u) == t >= u

HandOut(s, S, Before(_, _)) ==
  IF m_callback_function THEN Enumerates(s, S, Before) ELSE s = <<>>

\* A newcomer is refreshed now; one element that nobody is older than may go.
RAdd(e) ==
  /\ e \notin Watched
  /\ \E V \in {{}} \cup {{v} : v \in Watched} :
       /\ V # {} => m_max_limit_flag
       /\ \A v \in V, w \in Watched : refreshed[v] <= refreshed[w]
       /\ HandOut(handed', V, OldestFirst)
       /\ \/ refreshed' = [x \in Element |-> IF x \in V THEN Absent ELSE refreshed[x]]
          \/ refreshed' = [x \in Element |-> IF x = e THEN now
                             ELSE IF x \in V THEN Absent ELSE refreshed[x]]
  /\ UNCHANGED <<now, rconf>>

RUpdate(e) ==
  /\ e \in Watched
  /\ refreshed' = [refreshed EXCEPT ![e] = now]
  /\ handed' = <<>>
  /\ UNCHANGED <<now, rconf>>

RDelete(e) ==
  /\ e \in Watched
  /\ refreshed' = [refreshed EXCEPT ![e] = Absent]
  /\ handed' = <<>>
  /\ UNCHANGED <<now, rconf>>

RExpired == {e \in Watched : now >= refreshed[e] + m_timeout}

RSweep ==
  /\ m_timeout_flag
  /\ refreshed' = [e \in Element |-> IF e \in RExpired THEN Absent ELSE refreshed[e]]
  /\ HandOut(handed', RExpired, OldestFirst)
  /\ UNCHANGED <<now, rconf>>

\* All elements leave at once: forgotten, or handed out newest first.
RDrain ==
  /\ refreshed' = [e \in Element |-> Absent]
  /\ handed' = <<>> \/ Enumerates(handed', Watched, NewestFirst)
  /\ UNCHANGED <<now, rconf>>

\* Settings change only while nothing is watched.
RConfigure ==
  /\ Watched = {}
  /\ m_callback_function' \in BOOLEAN /\ m_timeout_flag' \in BOOLEAN
  /\ m_timeout' \in Timeouts \cup {0} /\ m_max_limit_flag' \in BOOLEAN
  /\ handed' = <<>>
  /\ UNCHANGED <<refreshed, now>>

RTick == now' > now /\ handed' = <<>> /\ UNCHANGED <<refreshed, rconf>>

\* An operation that finds nothing to do.
RNothing == handed' = <<>> /\ UNCHANGED <<refreshed, now, rconf>>

RNext ==
  \/ \E e \in Element : RAdd(e) \/ RUpdate(e) \/ RDelete(e)
  \/ RSweep \/ RDrain \/ RConfigure \/ RTick \/ RNothing

RSpec == RInit /\ [][RNext]_rvars
=============================================================================
