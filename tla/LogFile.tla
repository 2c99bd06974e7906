------------------------------ MODULE LogFile ------------------------------
(***************************************************************************)
(* log_t: the process-wide log.  Any thread logs; a line that passes the   *)
(* module and level tests is posted to an io_service whose only thread     *)
(* writes it to a file, rotates the file by lines and bytes and moves to a *)
(* new directory every day.  The owner opens and closes the log.  The      *)
(* files outlive the process, which may end at any time and start anew.    *)
(*                                                                         *)
(* A line is the pair <<i, len>>: the i-th line posted, and its length.  A *)
(* file is <<day, sn>>; `disk' maps every file there is to its lines.  The *)
(* screen output is left out.                                              *)
(***************************************************************************)
EXTENDS ListSeqs, FiniteSets

CONSTANTS
  Caller,            \* the threads that log
  Levels,            \* the levels of the lines they log
  Lengths,           \* the lengths of these lines
  m_maxline, m_maxsize,
  DiskFails,         \* TRUE: a directory or a file may fail to be created
  MaxLines,          \* bound: lines posted
  MaxDay,            \* bound: the last day
  MaxOpens,          \* bound: calls of init_log in one process
  MaxRestarts        \* bound: restarts of the process

\* A line has its "\n" at least and at most MAX_LOG_LINE characters.
ASSUME LogAssumption ==
  /\ IsFiniteSet(Caller) /\ Levels \subseteq Nat
  /\ Lengths \subseteq Nat \ {0} /\ \E len \in Lengths : \A l \in Lengths : l <= len
  /\ m_maxline \in Nat /\ m_maxsize \in Nat /\ DiskFails \in BOOLEAN
  /\ {MaxLines, MaxDay, MaxOpens, MaxRestarts} \subseteq Nat /\ MaxDay >= 1

VARIABLES
  m_opened,
  modules_,          \* TRUE: the callers' modules are in modules_
  m_log_level,       \* the levels whose bit is set
  owner,             \* "idle", or "joining" inside close()
  pc,                \* Caller -> where it is in _logxxx()
  work, thread, stopped, queue,   \* work_io_service_: work_, its thread, asio's flag
  m_cur_day, m_cur_sn, m_cur_line, m_cur_size,
  ofstream_,         \* [file, ok]: the open file or NoFile; no failbit
  disk, today,
  opens, restarts,   \* the bounded counters
  accepted,          \* history: lines posted so far
  early,             \* history: of these, posted before the last close() began
  dropped,           \* history: lines written to a failed stream or lost in memory
  failed             \* history: some file could not be created

config  == <<m_opened, modules_, m_log_level>>
asio    == <<work, thread, stopped>>
current == <<m_cur_day, m_cur_sn, m_cur_line, m_cur_size>>
files   == <<ofstream_, disk>>
bounds  == <<opens, restarts>>
history == <<accepted, early, dropped, failed>>
vars    == <<config, owner, pc, asio, queue, current, files, today, bounds, history>>

NoFile == <<-1, -1>>

\* The constructor, and a disk without files.
Init ==
  /\ m_opened = FALSE /\ modules_ = FALSE /\ m_log_level = {}
  /\ owner = "idle" /\ pc = [c \in Caller |-> "idle"]
  /\ work = FALSE /\ thread = "none" /\ stopped = FALSE /\ queue = <<>>
  /\ m_cur_day = 0 /\ m_cur_sn = 0 /\ m_cur_line = 0 /\ m_cur_size = 0
  /\ ofstream_ = [file |-> NoFile, ok |-> TRUE]
  /\ opens = 0
  /\ disk = [f \in {} |-> <<>>] /\ today = 1
  /\ restarts = 0 /\ accepted = 0 /\ early = 0 /\ dropped = {} /\ failed = FALSE

-----------------------------------------------------------------------------
(* The stream and the files.                                               *)

Files(st, d) == [stream |-> st, disk |-> d]

\* What ofstream_.open(f) on a closed stream can lead to: the file is created,
\* or emptied if it exists, or the system refuses.
Opened(d, f) ==
  {Files([file |-> f, ok |-> TRUE],
         [g \in DOMAIN d \cup {f} |-> IF g = f THEN <<>> ELSE d[g]])}
  \cup (IF DiskFails THEN {Files([file |-> NoFile, ok |-> FALSE], d)} ELSE {})

\* ofstream_ << txt: nothing happens on a stream that has failed.
Written(fs, txt) ==
  IF fs.stream.ok THEN [fs EXCEPT !.disk[fs.stream.file] = Append(@, txt)] ELSE fs

-----------------------------------------------------------------------------
(* The owner.                                                              *)

\* Mutant: the first file of the day is taken, whether it exists or not.
FirstFree_zero(day) == 0

FirstFree(day) ==
  CHOOSE sn \in 0..Cardinality(DOMAIN disk) :
    <<day, sn>> \notin DOMAIN disk /\ \A s \in 0..sn - 1 : <<day, s>> \in DOMAIN disk

\* open_file_thread() when the directories are there: the first sequence number
\* whose file does not exist yet.  A stream that is still open (close() does not
\* close it) refuses to open another file.
open_file_thread ==
  /\ m_cur_sn' = FirstFree(today)
  /\ \/ /\ ofstream_.file = NoFile
        /\ \E fs \in Opened(disk, <<today, m_cur_sn'>>) :
             /\ ofstream_' = fs.stream /\ disk' = fs.disk
             /\ failed' = (failed \/ ~fs.stream.ok)
     \/ /\ ofstream_.file # NoFile
        /\ ofstream_' = [ofstream_ EXCEPT !.ok = FALSE]
        /\ UNCHANGED <<disk, failed>>
  /\ work' = TRUE /\ thread' = "running"

\* mkdir failed: no thread, but the log counts as opened.
OpenFails ==
  /\ DiskFails
  /\ m_cur_sn' = 0
  /\ UNCHANGED <<files, work, thread, failed>>

\* The settings, then open().
init_log(level) ==
  /\ owner = "idle" /\ ~m_opened /\ opens < MaxOpens
  /\ opens' = opens + 1
  /\ m_log_level' = m_log_level \cup 0..level
  /\ modules_' = TRUE
  /\ m_cur_day' = today /\ m_cur_line' = 0 /\ m_cur_size' = 0
  /\ open_file_thread \/ OpenFails
  /\ m_opened' = TRUE
  /\ UNCHANGED <<owner, pc, stopped, queue, today, restarts, accepted, early, dropped>>

\* Mutants: the thread is not waited for; the work object stays.
close_no_join ==
  /\ owner = "idle" /\ m_opened
  /\ m_opened' = FALSE /\ modules_' = FALSE /\ work' = FALSE
  /\ early' = accepted
  /\ UNCHANGED <<m_log_level, owner, pc, thread, stopped, queue, current, files, today, bounds,
                 accepted, dropped, failed>>

close_keeps_work ==
  /\ owner = "idle" /\ m_opened
  /\ m_opened' = FALSE /\ modules_' = FALSE
  /\ owner' = IF thread = "none" THEN "idle" ELSE "joining"
  /\ early' = accepted
  /\ UNCHANGED <<m_log_level, pc, asio, queue, current, files, today, bounds,
                 accepted, dropped, failed>>

\* Up to the join; without a thread there is nothing to wait for.
close ==
  /\ owner = "idle" /\ m_opened
  /\ m_opened' = FALSE /\ modules_' = FALSE /\ work' = FALSE
  /\ owner' = IF thread = "none" THEN "idle" ELSE "joining"
  /\ early' = accepted
  /\ UNCHANGED <<m_log_level, pc, thread, stopped, queue, current, files, today, bounds,
                 accepted, dropped, failed>>

close_joined ==
  /\ owner = "joining" /\ thread = "exited"
  /\ owner' = "idle"
  /\ UNCHANGED <<config, pc, asio, queue, current, files, today, bounds, history>>

-----------------------------------------------------------------------------
(* A caller: the test of m_opened, the tests of log(), the post.           *)

Goes(c, from, to) == pc[c] = from /\ pc' = [pc EXCEPT ![c] = to]

_log(c) ==
  /\ m_opened /\ Goes(c, "idle", "inside")
  /\ UNCHANGED <<config, owner, asio, queue, current, files, today, bounds, history>>

\* A line passes when its module is enabled and the bit of its level is clear:
\* check_log_level returns the bit, and log() goes on when it is 0.
check(c) ==
  /\ \E level \in Levels :
       Goes(c, "inside", IF modules_ /\ level \notin m_log_level THEN "accepted" ELSE "idle")
  /\ UNCHANGED <<config, owner, asio, queue, current, files, today, bounds, history>>

post(c, len) ==
  /\ Goes(c, "accepted", "idle")
  /\ accepted < MaxLines
  /\ accepted' = accepted + 1
  /\ queue' = Append(queue, <<accepted', len>>)
  /\ UNCHANGED <<config, owner, asio, current, files, today, bounds, early, dropped, failed>>

-----------------------------------------------------------------------------
(* The file thread.                                                        *)

\* Mutant: the rotation comes one line, or one byte, too late.
Full_late(line, size) == line > m_maxline \/ size > m_maxsize

\* The counters do not include the line just written.
Full(line, size) == line >= m_maxline \/ size >= m_maxsize

\* A new day starts with file 0; the line is written; a full file is followed
\* by the next one, and the line is counted after all that.
handle_write_file ==
  LET txt  == Head(queue)
      new  == today # m_cur_day
      sn   == IF new THEN 0 ELSE m_cur_sn
      line == IF new THEN 0 ELSE m_cur_line
      size == IF new THEN 0 ELSE m_cur_size
      full == Full(line, size)
  IN /\ \E now \in IF new THEN Opened(disk, <<today, 0>>) ELSE {Files(ofstream_, disk)} :
        \E after \in IF full THEN Opened(Written(now, txt).disk, <<today, sn + 1>>)
                             ELSE {Written(now, txt)} :
          /\ ofstream_' = after.stream /\ disk' = after.disk
          /\ dropped' = dropped \cup (IF now.stream.ok THEN {} ELSE {txt[1]})
          /\ failed' = (failed \/ ~now.stream.ok \/ ~after.stream.ok)
     /\ m_cur_day' = today
     /\ m_cur_sn' = IF full THEN sn + 1 ELSE sn
     /\ m_cur_line' = (IF full THEN 0 ELSE line) + 1
     /\ m_cur_size' = (IF full THEN 0 ELSE size) + txt[2]

RunHandler ==
  /\ thread = "running" /\ ~stopped /\ queue # <<>>
  /\ handle_write_file
  /\ queue' = Tail(queue)
  /\ UNCHANGED <<config, owner, pc, asio, today, bounds, accepted, early>>

\* External: run() ends when nothing is left to do and work_ is gone, which
\* stops the io_service for good; on a stopped one it ends at once.
ThreadExits ==
  /\ thread = "running"
  /\ stopped \/ (~work /\ queue = <<>>)
  /\ thread' = "exited" /\ stopped' = TRUE
  /\ UNCHANGED <<config, owner, pc, work, queue, current, files, today, bounds, history>>

-----------------------------------------------------------------------------
(* The world.                                                              *)

Midnight ==
  /\ today < MaxDay /\ today' = today + 1
  /\ UNCHANGED <<config, owner, pc, asio, queue, current, files, bounds, history>>

Ids(s) == {s[i][1] : i \in 1..Len(s)}

\* The process dies with what it has in memory; another one takes its place.
Restart ==
  /\ restarts < MaxRestarts /\ restarts' = restarts + 1
  /\ m_opened' = FALSE /\ modules_' = FALSE /\ m_log_level' = {}
  /\ owner' = "idle" /\ pc' = [c \in Caller |-> "idle"]
  /\ work' = FALSE /\ thread' = "none" /\ stopped' = FALSE /\ queue' = <<>>
  /\ m_cur_day' = 0 /\ m_cur_sn' = 0 /\ m_cur_line' = 0 /\ m_cur_size' = 0
  /\ ofstream_' = [file |-> NoFile, ok |-> TRUE]
  /\ opens' = 0
  /\ dropped' = dropped \cup Ids(queue)
  /\ early' = accepted
  /\ UNCHANGED <<disk, today, accepted, failed>>

Callers == \E c \in Caller : _log(c) \/ check(c) \/ \E len \in Lengths : post(c, len)

Next ==
  \/ \E level \in Levels : init_log(level)
  \/ close \/ close_joined
  \/ Callers \/ RunHandler \/ ThreadExits \/ Midnight \/ Restart

\* The system schedules the file thread and the owner that waits for it.
Fairness == WF_vars(RunHandler) /\ WF_vars(ThreadExits) /\ WF_vars(close_joined)

Spec == Init /\ [][Next]_vars
FairSpec == Spec /\ Fairness

-----------------------------------------------------------------------------
(* Properties.                                                             *)

Line == (1..MaxLines) \X Lengths

TypeOK ==
  /\ m_opened \in BOOLEAN /\ modules_ \in BOOLEAN /\ m_log_level \subseteq Nat
  /\ owner \in {"idle", "joining"} /\ pc \in [Caller -> {"idle", "inside", "accepted"}]
  /\ work \in BOOLEAN /\ stopped \in BOOLEAN /\ thread \in {"none", "running", "exited"}
  /\ queue \in Seq(Line)
  /\ m_cur_day \in 0..MaxDay /\ today \in 1..MaxDay
  /\ m_cur_sn \in Nat /\ m_cur_line \in Nat /\ m_cur_size \in Nat
  /\ ofstream_ \in [file : DOMAIN disk \cup {NoFile}, ok : BOOLEAN]
  /\ DOMAIN disk \subseteq (1..MaxDay) \X Nat /\ disk \in [DOMAIN disk -> Seq(Line)]
  /\ accepted \in 0..MaxLines /\ early \in 0..MaxLines /\ dropped \subseteq 1..MaxLines
  /\ opens \in Nat /\ restarts \in Nat /\ failed \in BOOLEAN

\* The order of the files, and the order of the posts within a sequence of lines.
Before(f, g) == f[1] < g[1] \/ (f[1] = g[1] /\ f[2] < g[2])
InPostOrder(s) == \A i, j \in 1..Len(s) : i < j => s[i][1] < s[j][1]
OnDisk == UNION {Ids(disk[f]) : f \in DOMAIN disk}

\* As long as no file failed to be created, every line posted is on disk exactly once,
\* or still queued, or was lost with a dead process, and the files hold the lines in
\* the order of the posts: no rotation, new day or restart empties a file with lines.
\* (A failed rotation leaves a gap in the sequence numbers; a restart fills the gap
\* and its next rotation empties the file behind it.)
WrittenOnceInOrder == ~failed =>
  /\ OnDisk \cup Ids(queue) \cup dropped = 1..accepted
  /\ dropped \cap (OnDisk \cup Ids(queue)) = {}
  /\ \A i \in OnDisk, j \in Ids(queue) : i < j
  /\ InPostOrder(queue) /\ \A f \in DOMAIN disk : InPostOrder(disk[f])
  /\ \A f, g \in DOMAIN disk : Before(f, g) =>
       \A i \in Ids(disk[f]), j \in Ids(disk[g]) : i < j

Longest == CHOOSE len \in Lengths : \A l \in Lengths : l <= len
Bytes(s) == SumSeq([i \in 1..Len(s) |-> s[i][2]])

\* Rotation bounds the files: at most one line more than m_maxline, and less than
\* two lines more than m_maxsize.
FilesBounded ==
  \A f \in DOMAIN disk :
    Len(disk[f]) <= m_maxline + 1 /\ Bytes(disk[f]) < m_maxsize + 2 * Longest

\* When close() has returned, every line posted before it was called has been
\* handled; only callers that were already past their tests can have left a line
\* behind, one each.
ClosedIsFlushed ==
  ~m_opened /\ owner = "idle" /\ opens = 1 /\ thread # "none" =>
    /\ \A i \in Ids(queue) : i > early
    /\ Len(queue) <= Cardinality(Caller)

\* The lines on disk, each with its place.
Entries(d) == UNION {{<<f, k, d[f][k]>> : k \in 1..Len(d[f])} : f \in DOMAIN d}

Journal == INSTANCE LogJournal WITH
  waiting <- queue, journal <- Entries(disk), posted <- accepted, spoiled <- failed

\* The log implements the journal: handle_write_file puts every line behind all lines
\* there are, through rotations, new days and restarts, and no step moves or loses a line
\* that is on disk, except for a handler after a file could not be created.
ImplementsJournal == Journal!JSpec

\* close() returns: the file thread empties the queue and ends.
CloseReturns == owner = "joining" ~> owner = "idle"
=============================================================================
