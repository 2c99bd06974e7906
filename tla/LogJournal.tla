----------------------------- MODULE LogJournal -----------------------------
(***************************************************************************)
(* What log_t promises of the lines it has accepted: they go, in the order *)
(* of the posts, to the end of a journal that outlives the process and in  *)
(* which no line ever moves.  Nothing is said of threads, rotation or the  *)
(* counters.  Once a file could not be created the journal is spoiled: the *)
(* file thread may then drop the line it handles, and while it handles one *)
(* it may lose others; but nothing else, not even a restart, loses any.    *)
(*                                                                         *)
(* An entry is <<file, k, line>>: the k-th line of a file <<day, sn>>.     *)
(***************************************************************************)
EXTENDS Integers, Sequences

CONSTANT Lengths

VARIABLES
  waiting,   \* the lines accepted and not handled yet
  journal,   \* the set of the entries on disk
  posted,    \* how many lines have been accepted
  spoiled    \* some file could not be created

jvars == <<waiting, journal, posted, spoiled>>

JInit == waiting = <<>> /\ journal = {} /\ posted = 0 /\ spoiled = FALSE

\* The order of the journal: by day, file of the day, line of the file.
Precedes(d, e) ==
  \/ d[1][1] < e[1][1]
  \/ d[1][1] = e[1][1] /\ d[1][2] < e[1][2]
  \/ d[1] = e[1] /\ d[2] < e[2]

JPost ==
  /\ \E len \in Lengths : waiting' = Append(waiting, <<posted + 1, len>>)
  /\ posted' = posted + 1
  /\ UNCHANGED <<journal, spoiled>>

Handles == waiting # <<>> /\ waiting' = Tail(waiting) /\ UNCHANGED posted

\* The next line goes behind all others.
JStore ==
  /\ Handles
  /\ \E e \in journal' : /\ e[3] = Head(waiting) /\ journal' = journal \cup {e}
                         /\ \A d \in journal : Precedes(d, e)
  /\ spoiled' \in {spoiled, TRUE}

JDrop == Handles /\ spoiled' = TRUE /\ UNCHANGED journal

\* After a failure: what is left stays where it was.
JScramble ==
  /\ Handles /\ spoiled /\ spoiled' = TRUE
  /\ \A e \in journal' : e \in journal \/ e[3] = Head(waiting)

JSpoil == spoiled' = TRUE /\ UNCHANGED <<waiting, journal, posted>>

\* The process dies with the lines it has in memory.
JCrash == waiting' = <<>> /\ UNCHANGED <<journal, posted, spoiled>>

JNext == JPost \/ JStore \/ JDrop \/ JScramble \/ JSpoil \/ JCrash

JSpec == JInit /\ [][JNext]_jvars
=============================================================================
