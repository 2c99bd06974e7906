--------------------------- MODULE RpcServerProofs ---------------------------
(***************************************************************************)
(* The server, its acceptor and the pool for any number of starts, threads,*)
(* connections and jobs: an io_service with work is run, by one thread     *)
(* unless start() met the threads of another start(), and the chain of     *)
(* accepts is neither lost nor forked but where AcceptChain says so.       *)
(***************************************************************************)
EXTENDS RpcServer, ListSeqsProofs

-----------------------------------------------------------------------------
(* The inductive invariant.                                                *)

\* An io_service that has work runs, and has a thread; without a doubled start no two
\* threads share an io_service, whether they still run or not.
PoolInv ==
  /\ \A i \in Io : work[i] => ~stopped[i] /\ Threads(i) # {}
  /\ ~doubled => \A t, u \in 1..Len(m_vt_threads) :
                   m_vt_threads[t].io = m_vt_threads[u].io => t = u

\* The acceptor listens only between start() and stop(), and only then are there
\* accepts outstanding: a new chain begins with none.
ChainInv ==
  /\ m_acceptor = "listening" => m_started
  /\ accepts # {} => m_acceptor = "listening"
  /\ AcceptChain

ServerInv == TypeOK /\ PoolInv /\ ChainInv

-----------------------------------------------------------------------------
(* Sequences and sets.                                                     *)

LEMMA SeqMonotone ==
  ASSUME NEW S, NEW T, S \subseteq T, NEW s \in Seq(S)
  PROVE  s \in Seq(T)
<1>1. Len(s) \in Nat /\ \A i \in 1..Len(s) : s[i] \in T
  OBVIOUS
<1>2. s \in [1..Len(s) -> T]
  BY <1>1
<1> QED BY <1>1, <1>2

LEMMA SeqOfFunction ==
  ASSUME NEW T, NEW n \in Nat, NEW f \in [1..n -> T]
  PROVE  f \in Seq(T) /\ Len(f) = n
OBVIOUS

LEMMA SeqWith ==
  ASSUME NEW T, NEW s \in Seq(T), NEW k \in 1..Len(s), NEW x \in T
  PROVE  /\ [s EXCEPT ![k] = x] \in Seq(T) /\ Len([s EXCEPT ![k] = x]) = Len(s)
         /\ [s EXCEPT ![k] = x][k] = x
         /\ \A i \in 1..Len(s) : i # k => [s EXCEPT ![k] = x][i] = s[i]
OBVIOUS

LEMMA SetAsSeq ==
  ASSUME NEW S, IsFiniteSet(S)
  PROVE  SetToSeq(S) \in Seq(S)
<1>1. Cardinality(S) \in Nat /\ ExistsBijection(1..Cardinality(S), S)
  BY FS_CardinalityType
<1>2. PICK f : f \in Bijection(1..Cardinality(S), S)
  BY <1>1 DEF ExistsBijection
<1>3. f \in [1..Cardinality(S) -> S] /\ IsInjective(f)
  BY <1>2 DEF Bijection, Injection
<1>4. SetToSeq(S) \in [1..Cardinality(S) -> S]
  BY <1>3 DEF SetToSeq
<1> QED BY <1>1, <1>4, SeqOfFunction

\* A field of one record of a sequence is set.
LEMMA SeqElement ==
  ASSUME NEW T, NEW s \in Seq(T), NEW k \in 1..Len(s)
  PROVE  s[k] \in T
OBVIOUS

LEMMA ThreadEnds ==
  ASSUME NEW S, NEW T, NEW y \in [io : S, running : T], NEW v \in T
  PROVE  [y EXCEPT !.running = v] \in [io : S, running : T] /\ [y EXCEPT !.running = v].io = y.io
<1>1. y.io \in S /\ y = [io |-> y.io, running |-> y.running]
  OBVIOUS
<1>2. [y EXCEPT !.running = v] = [io |-> y.io, running |-> v]
  BY <1>1
<1> QED BY <1>1, <1>2

LEMMA ConnTurns ==
  ASSUME NEW S, NEW T, NEW y \in [io : S, st : T], NEW v \in T
  PROVE  [y EXCEPT !.st = v] \in [io : S, st : T]
<1>1. y.io \in S /\ y = [io |-> y.io, st |-> y.st]
  OBVIOUS
<1>2. [y EXCEPT !.st = v] = [io |-> y.io, st |-> v]
  BY <1>1
<1> QED BY <1>1, <1>2

\* Completed accepts, as a count of the queue.
Completion == [conn : Nat, err : BOOLEAN]
Completed  == [conn : Nat, err : {FALSE}]

LEMMA CompletedWhenNoError ==
  ASSUME NEW r \in Completion
  PROVE  ~r.err <=> r \in Completed
<1>1. r.conn \in Nat /\ r.err \in BOOLEAN /\ r = [conn |-> r.conn, err |-> r.err]
  BY DEF Completion
<1>2. CASE r.err = TRUE
  BY <1>2 DEF Completed
<1>3. CASE r.err = FALSE
  BY <1>1, <1>3 DEF Completed
<1> QED BY <1>1, <1>2, <1>3

LEMMA PendingIsCount ==
  ASSUME NEW q \in Seq(Completion)
  PROVE  Cardinality({k \in DOMAIN q : ~q[k].err}) = CountIn(q, Completed)
<1>1. DOMAIN q = 1..Len(q)
  OBVIOUS
<1>2. \A k \in 1..Len(q) : ~q[k].err <=> q[k] \in Completed
  BY SeqElement, CompletedWhenNoError, Zenon
<1>3. {k \in DOMAIN q : ~q[k].err} = {k \in 1..Len(q) : q[k] \in Completed}
  BY <1>1, <1>2
<1> QED BY <1>3 DEF CountIn

-----------------------------------------------------------------------------
(* The steps, by what they leave alone.                                    *)

LEMMA ServerInitInv == Init => ServerInv
<1> SUFFICES ASSUME Init PROVE ServerInv
  OBVIOUS
<1>1. /\ work = <<>> /\ stopped = <<>> /\ m_vt_threads = <<>> /\ m_next_io_service = 0
      /\ stopping = FALSE /\ starts = 0 /\ doubled = FALSE /\ m_io = 0 /\ m_sp_acc = 0
      /\ m_started = FALSE /\ m_acceptor = "closed" /\ conns = <<>> /\ accepts = {} /\ ready = <<>>
      /\ jobs = 0 /\ asked = 0 /\ crashed = FALSE /\ listens = 0 /\ forked = 0 /\ lost = 0
  BY DEF Init, PoolInit, None
<1>2. Io = {}
  BY <1>1 DEF Io, Size
<1>3. TypeOK
  <2>1. stopped \in [Io -> BOOLEAN]
    BY <1>1, <1>2
  <2>2. work \in Seq(BOOLEAN) /\ m_vt_threads \in Seq([io : Io, running : BOOLEAN])
    BY <1>1
  <2>3. conns \in Seq([io : Io, st : {"accepting", "open", "ending", "closed"}])
    BY <1>1
  <2>4. accepts \subseteq 1..Len(conns) /\ ready \in Seq([conn : 1..Len(conns), err : BOOLEAN])
    BY <1>1
  <2>5. {stopping, doubled, m_started, crashed} \subseteq BOOLEAN
    BY <1>1, Zenon
  <2> QED BY <1>1, <2>1, <2>2, <2>3, <2>4, <2>5 DEF TypeOK, None
<1>4. PoolInv
  BY <1>1, <1>2 DEF PoolInv
<1>5. ChainInv
  BY <1>1 DEF ChainInv, AcceptChain
<1> QED BY <1>3, <1>4, <1>5 DEF ServerInv

\* An io_service stops only when it has stopped before or lost its work.
LEMMA OutOfWorkFacts ==
  ASSUME OutOfWork
  PROVE  /\ stopped' \in [Io' -> BOOLEAN]
         /\ \A i \in Io' : stopped'[i] => (i \in Io /\ stopped[i]) \/ ~work'[i]
<1>1. stopped' = [i \in Io' |-> (i \in Io /\ stopped[i]) \/ ~Busy(i)']
  BY DEF OutOfWork
<1>2. \A i : work'[i] => Busy(i)'
  BY DEF Busy
<1>3. stopped' \in [Io' -> BOOLEAN]
  BY <1>1, Zenon
<1>4. \A i \in Io' : stopped'[i] <=> (i \in Io /\ stopped[i]) \/ ~Busy(i)'
  BY <1>1, Zenon
<1> QED BY <1>2, <1>3, <1>4

\* The pool is left alone.
LEMMA PoolKept ==
  ASSUME PoolInv, OutOfWork, UNCHANGED <<work, m_vt_threads, doubled>>
  PROVE  PoolInv'
<1>1. Io' = Io /\ \A i : Threads(i)' = Threads(i)
  BY DEF Io, Size, Threads
<1>2. \A i \in Io : stopped'[i] => stopped[i] \/ ~work[i]
  BY <1>1, OutOfWorkFacts
<1>3. \A i \in Io : work[i] => ~stopped'[i] /\ Threads(i) # {}
  BY <1>2 DEF PoolInv
<1>4. ~doubled => \A t, u \in 1..Len(m_vt_threads) :
                    m_vt_threads[t].io = m_vt_threads[u].io => t = u
  BY DEF PoolInv
<1> QED BY <1>1, <1>3, <1>4 DEF PoolInv

\* The acceptor is left alone.
LEMMA ChainKept ==
  ASSUME ChainInv, UNCHANGED <<m_started, m_acceptor, accepts, ready, forked, lost>>
  PROVE  ChainInv'
<1>1. Pending' = Pending
  BY DEF Pending
<1> QED BY <1>1 DEF ChainInv, AcceptChain

\* The types, when the pool itself is left alone.
LEMMA TypesKept ==
  ASSUME TypeOK, OutOfWork, UNCHANGED <<work, m_vt_threads, stopping, starts, doubled>>,
         m_io' \in Io \cup {None}, m_sp_acc' \in Io \cup {None},
         m_started' \in BOOLEAN, crashed' \in BOOLEAN,
         m_acceptor' \in {"closed", "open", "listening"},
         conns' \in Seq([io : Io, st : {"accepting", "open", "ending", "closed"}]),
         accepts' \subseteq 1..Len(conns'),
         ready' \in Seq([conn : 1..Len(conns'), err : BOOLEAN]),
         m_next_io_service' \in Nat, jobs' \in Nat, asked' \in Nat, listens' \in Nat,
         forked' \in Nat, lost' \in Nat
  PROVE  TypeOK'
<1>1. Io' = Io
  BY DEF Io, Size
<1>2. stopped' \in [Io -> BOOLEAN]
  BY <1>1, OutOfWorkFacts
<1>3. /\ work' \in Seq(BOOLEAN) /\ m_vt_threads' \in Seq([io : Io, running : BOOLEAN])
      /\ starts' \in Nat
  BY DEF TypeOK
<1>4. stopping' \in BOOLEAN /\ doubled' \in BOOLEAN
  BY Zenon DEF TypeOK
<1>5. {stopping', doubled', m_started', crashed'} \subseteq BOOLEAN
  BY <1>4, Zenon
<1>6. {m_next_io_service', starts', jobs', asked', listens', forked', lost'} \subseteq Nat
  BY <1>3
<1>7. {m_io', m_sp_acc'} \subseteq Io \cup {None}
  OBVIOUS
<1> QED BY <1>1, <1>2, <1>3, <1>5, <1>6, <1>7 DEF TypeOK

\* The types one by one.
LEMMA Types ==
  ASSUME TypeOK
  PROVE  /\ work \in Seq(BOOLEAN) /\ stopped \in [Io -> BOOLEAN]
         /\ m_vt_threads \in Seq([io : Io, running : BOOLEAN])
         /\ m_io \in Io \cup {None} /\ m_sp_acc \in Io \cup {None}
         /\ stopping \in BOOLEAN /\ doubled \in BOOLEAN /\ m_started \in BOOLEAN /\ crashed \in BOOLEAN
         /\ m_acceptor \in {"closed", "open", "listening"}
         /\ conns \in Seq([io : Io, st : {"accepting", "open", "ending", "closed"}])
         /\ accepts \subseteq 1..Len(conns)
         /\ ready \in Seq([conn : 1..Len(conns), err : BOOLEAN])
         /\ m_next_io_service \in Nat /\ starts \in Nat /\ jobs \in Nat /\ asked \in Nat
         /\ listens \in Nat /\ forked \in Nat /\ lost \in Nat
         /\ Size \in Nat /\ Io = 1..Size /\ Len(conns) \in Nat /\ Len(m_vt_threads) \in Nat
         /\ IsFiniteSet(accepts) /\ ready \in Seq(Completion)
<1>1. /\ work \in Seq(BOOLEAN) /\ stopped \in [Io -> BOOLEAN]
      /\ m_vt_threads \in Seq([io : Io, running : BOOLEAN])
      /\ m_io \in Io \cup {None} /\ m_sp_acc \in Io \cup {None}
      /\ m_acceptor \in {"closed", "open", "listening"}
      /\ conns \in Seq([io : Io, st : {"accepting", "open", "ending", "closed"}])
      /\ accepts \subseteq 1..Len(conns)
      /\ ready \in Seq([conn : 1..Len(conns), err : BOOLEAN])
      /\ m_next_io_service \in Nat /\ starts \in Nat /\ jobs \in Nat /\ asked \in Nat
      /\ listens \in Nat /\ forked \in Nat /\ lost \in Nat
  BY DEF TypeOK
<1>2. stopping \in BOOLEAN /\ doubled \in BOOLEAN /\ m_started \in BOOLEAN /\ crashed \in BOOLEAN
  BY Zenon DEF TypeOK
<1>3. Size \in Nat /\ Io = 1..Size /\ Len(conns) \in Nat /\ Len(m_vt_threads) \in Nat
  BY <1>1 DEF Size, Io
<1>4. IsFiniteSet(accepts)
  <2>1. IsFiniteSet(1..Len(conns))
    BY <1>3, FS_Interval
  <2> QED BY <1>1, <2>1, FS_Subset
<1>5. ready \in Seq(Completion)
  <2>1. [conn : 1..Len(conns), err : BOOLEAN] \subseteq Completion
    BY <1>3 DEF Completion
  <2> QED BY <1>1, <2>1, SeqMonotone
<1> QED BY <1>1, <1>2, <1>3, <1>4, <1>5

-----------------------------------------------------------------------------
(* The pool.                                                               *)

LEMMA PoolStartInv ==
  ASSUME ServerInv, NEW n \in PoolSizes, PoolStart(n), OutOfWork
  PROVE  ServerInv'
<1>0. TypeOK /\ PoolInv /\ ChainInv
  BY DEF ServerInv
<1>1. n \in Nat /\ n > 0
  BY PoolAssumption
<1> DEFINE ws == [k \in 1..n |-> TRUE]
           ts == [i \in 1..Size + n |-> [io |-> i, running |-> TRUE]]
           M  == Len(m_vt_threads)
<1>2. /\ work' = work \o ws /\ m_vt_threads' = m_vt_threads \o ts
      /\ starts' = starts + 1 /\ doubled' = (doubled \/ m_vt_threads # <<>>)
      /\ UNCHANGED <<m_next_io_service, stopping, m_io, conns, jobs, asked>>
      /\ UNCHANGED <<m_sp_acc, m_started, m_acceptor, accepts, ready, listens, forked, lost>>
  BY DEF PoolStart, pool_start, accVars
<1>3. crashed' \in BOOLEAN
  BY Zenon DEF PoolStart
<1>4. Size \in Nat /\ Io = 1..Size /\ M \in Nat
  BY <1>0, Types
<1>5. work' \in Seq(BOOLEAN) /\ Len(work') = Size + n /\ \A i \in 1..Size : work'[i] = work[i]
  <2>1. ws \in Seq(BOOLEAN) /\ Len(ws) = n
    <3>1. ws \in [1..n -> BOOLEAN]
      BY Zenon
    <3> HIDE DEF ws
    <3> QED BY <1>1, <3>1, SeqOfFunction
  <2> HIDE DEF ws
  <2>2. work \in Seq(BOOLEAN)
    BY <1>0, Types
  <2> QED BY <1>2, <2>1, <2>2, ConcatFacts DEF Size
<1>6. Io' = 1..Size + n /\ Io \subseteq Io'
  BY <1>1, <1>4, <1>5 DEF Io, Size
<1>7. /\ ts \in Seq([io : Io', running : BOOLEAN]) /\ Len(ts) = Size + n
      /\ \A i \in 1..Size + n : ts[i].io = i /\ ts[i].running
  <2>1. \A i \in 1..Size + n : [io |-> i, running |-> TRUE] \in [io : Io', running : BOOLEAN]
    BY <1>6
  <2>2. ts \in [1..Size + n -> [io : Io', running : BOOLEAN]]
    BY <2>1, Zenon
  <2>3. \A i \in 1..Size + n : ts[i] = [io |-> i, running |-> TRUE]
    OBVIOUS
  <2>4. Size + n \in Nat
    BY <1>1, <1>4
  <2> HIDE DEF ts
  <2>5. ts \in Seq([io : Io', running : BOOLEAN]) /\ Len(ts) = Size + n
    BY <2>2, <2>4, SeqOfFunction
  <2>6. ASSUME NEW i \in 1..Size + n PROVE ts[i].io = i /\ ts[i].running
    <3>1. PICK r : r = ts[i]
      OBVIOUS
    <3>2. r = [io |-> i, running |-> TRUE]
      BY <2>3, <3>1
    <3>3. r.io = i /\ r.running = TRUE
      BY <3>2
    <3> QED BY <3>1, <3>3
  <2> QED BY <2>5, <2>6
<1> HIDE DEF ws, ts, M
<1>8. m_vt_threads \in Seq([io : Io', running : BOOLEAN])
  <2>1. [io : Io, running : BOOLEAN] \subseteq [io : Io', running : BOOLEAN]
    BY <1>6
  <2> QED BY <1>0, <2>1, Types, SeqMonotone
<1>9. /\ m_vt_threads' \in Seq([io : Io', running : BOOLEAN]) /\ Len(m_vt_threads') = M + (Size + n)
      /\ \A i \in 1..Size + n : m_vt_threads'[M + i] = ts[i]
  <2>1. \A p, q \in Seq([io : Io', running : BOOLEAN]) :
          /\ p \o q \in Seq([io : Io', running : BOOLEAN]) /\ Len(p \o q) = Len(p) + Len(q)
          /\ \A i \in 1..Len(q) : (p \o q)[Len(p) + i] = q[i]
    BY ConcatFacts
  <2>2. /\ m_vt_threads \o ts \in Seq([io : Io', running : BOOLEAN])
        /\ Len(m_vt_threads \o ts) = Len(m_vt_threads) + Len(ts)
        /\ \A i \in 1..Len(ts) : (m_vt_threads \o ts)[Len(m_vt_threads) + i] = ts[i]
    BY <1>7, <1>8, <2>1
  <2> QED BY <1>2, <1>7, <2>2 DEF M
<1>10. TypeOK'
  <2>1. conns' \in Seq([io : Io', st : {"accepting", "open", "ending", "closed"}])
    <3>1. [io : Io, st : {"accepting", "open", "ending", "closed"}]
            \subseteq [io : Io', st : {"accepting", "open", "ending", "closed"}]
      BY <1>6
    <3> QED BY <1>0, <1>2, <3>1, Types, SeqMonotone
  <2>2. stopped' \in [Io' -> BOOLEAN]
    BY OutOfWorkFacts
  <2>3. /\ m_io' \in Io' \cup {None} /\ m_sp_acc' \in Io' \cup {None}
    BY <1>0, <1>2, <1>6, Types
  <2>4. stopping' \in BOOLEAN /\ doubled' \in BOOLEAN /\ m_started' \in BOOLEAN
    BY <1>0, <1>2, Types
  <2>5. {stopping', doubled', m_started', crashed'} \subseteq BOOLEAN
    BY <1>3, <2>4, Zenon
  <2>6. /\ m_acceptor' \in {"closed", "open", "listening"} /\ accepts' \subseteq 1..Len(conns')
        /\ ready' \in Seq([conn : 1..Len(conns'), err : BOOLEAN])
    BY <1>0, <1>2, Types
  <2>7. /\ m_next_io_service' \in Nat /\ starts' \in Nat /\ jobs' \in Nat /\ asked' \in Nat
        /\ listens' \in Nat /\ forked' \in Nat /\ lost' \in Nat
    BY <1>0, <1>2, Types
  <2>8. {m_next_io_service', starts', jobs', asked', listens', forked', lost'} \subseteq Nat
    BY <2>7
  <2>9. {m_io', m_sp_acc'} \subseteq Io' \cup {None}
    BY <2>3
  <2> QED BY <1>5, <1>9, <2>1, <2>2, <2>5, <2>6, <2>8, <2>9 DEF TypeOK
<1>11. ASSUME NEW i \in Io', work'[i] PROVE ~stopped'[i] /\ Threads(i)' # {}
  <2>1. ~stopped'[i]
    <3>1. i \in Io => work[i]
      BY <1>4, <1>5, <1>11
    <3>2. i \in Io => ~stopped[i]
      BY <1>0, <3>1 DEF PoolInv
    <3> QED BY <1>11, <3>2, OutOfWorkFacts
  <2>2. i \in 1..Size + n
    BY <1>6
  <2>3. m_vt_threads'[M + i].io = i /\ m_vt_threads'[M + i].running
    BY <1>7, <1>9, <2>2
  <2>4. M + i \in 1..Len(m_vt_threads')
    BY <1>1, <1>4, <1>9, <2>2
  <2> QED BY <2>1, <2>3, <2>4 DEF Threads
<1>12. ASSUME ~doubled', NEW t \in 1..Len(m_vt_threads'), NEW u \in 1..Len(m_vt_threads'),
              m_vt_threads'[t].io = m_vt_threads'[u].io
       PROVE  t = u
  <2>1. M = 0
    <3>1. m_vt_threads = <<>>
      BY <1>2, <1>12, Zenon
    <3> QED BY <3>1 DEF M
  <2>2. t \in 1..Size + n /\ u \in 1..Size + n /\ M + t = t /\ M + u = u
    BY <1>1, <1>4, <1>9, <2>1
  <2>3. m_vt_threads'[t].io = t /\ m_vt_threads'[u].io = u
    BY <1>7, <1>9, <2>2
  <2> QED BY <1>12, <2>3
<1>13. PoolInv'
  BY <1>11, <1>12 DEF PoolInv
<1>14. ChainInv'
  BY <1>0, <1>2, ChainKept
<1> QED BY <1>10, <1>13, <1>14 DEF ServerInv

LEMMA PoolStopInv ==
  ASSUME ServerInv, PoolStop, OutOfWork
  PROVE  ServerInv'
<1>0. TypeOK /\ PoolInv /\ ChainInv
  BY DEF ServerInv
<1>1. /\ UNCHANGED <<m_next_io_service, starts, doubled, m_io, conns, jobs, crashed, asked>>
      /\ UNCHANGED <<m_sp_acc, m_started, m_acceptor, accepts, ready, listens, forked, lost>>
      /\ \/ stopping' = TRUE /\ work' = [i \in Io |-> FALSE] /\ UNCHANGED m_vt_threads
         \/ /\ stopping' = FALSE /\ UNCHANGED work
            /\ m_vt_threads' = <<>> /\ \A i \in Io : Threads(i) = {}
  BY DEF PoolStop, pool_stop, pool_joined, accVars
<1>2. ChainInv'
  BY <1>0, <1>1, ChainKept
<1>3. Size \in Nat /\ Io = 1..Size
  BY <1>0, Types
<1>4. work' \in Seq(BOOLEAN) /\ Len(work') = Size /\ \A i \in Io : work'[i] => work[i] /\ UNCHANGED work
  <2>1. CASE UNCHANGED work
    BY <1>0, <2>1, Types DEF Size
  <2>2. CASE work' = [i \in Io |-> FALSE]
    <3>1. work' \in [1..Size -> BOOLEAN] /\ \A i \in Io : ~work'[i]
      BY <1>3, <2>2, Zenon
    <3> QED BY <1>3, <3>1, SeqOfFunction
  <2> QED BY <1>1, <2>1, <2>2
<1>5. Io' = Io
  BY <1>3, <1>4 DEF Io, Size
<1>6. m_vt_threads' \in Seq([io : Io, running : BOOLEAN])
  <2>1. m_vt_threads \in Seq([io : Io, running : BOOLEAN])
    BY <1>0, Types
  <2>2. <<>> \in Seq([io : Io, running : BOOLEAN])
    OBVIOUS
  <2>3. m_vt_threads' = m_vt_threads \/ m_vt_threads' = <<>>
    BY <1>1, Zenon
  <2> QED BY <2>1, <2>2, <2>3, Zenon
<1>7. TypeOK'
  <2>1. stopped' \in [Io' -> BOOLEAN]
    BY OutOfWorkFacts
  <2>2. stopping' \in BOOLEAN /\ doubled' \in BOOLEAN /\ m_started' \in BOOLEAN /\ crashed' \in BOOLEAN
    BY <1>0, <1>1, Types, Zenon
  <2>3. {stopping', doubled', m_started', crashed'} \subseteq BOOLEAN
    BY <2>2, Zenon
  <2> QED BY <1>0, <1>1, <1>4, <1>5, <1>6, <2>1, <2>3 DEF TypeOK
<1>8. ASSUME NEW i \in Io', work'[i] PROVE ~stopped'[i] /\ Threads(i)' # {}
  <2>1. work[i] /\ UNCHANGED work /\ i \in Io
    BY <1>4, <1>5, <1>8
  <2>2. ~stopped[i] /\ Threads(i) # {}
    BY <1>0, <2>1 DEF PoolInv
  <2>3. UNCHANGED m_vt_threads
    <3>1. CASE work' = [j \in Io |-> FALSE]
      BY <1>8, <2>1, <3>1
    <3> QED BY <1>1, <2>1, <2>2, <3>1
  <2>4. Threads(i)' = Threads(i)
    BY <2>3 DEF Threads
  <2> QED BY <1>8, <2>2, <2>4, OutOfWorkFacts
<1>9. ASSUME ~doubled', NEW t \in 1..Len(m_vt_threads'), NEW u \in 1..Len(m_vt_threads'),
             m_vt_threads'[t].io = m_vt_threads'[u].io
      PROVE  t = u
  <2>1. CASE UNCHANGED m_vt_threads
    BY <1>0, <1>1, <1>9, <2>1 DEF PoolInv
  <2>2. CASE m_vt_threads' = <<>>
    BY <1>9, <2>2
  <2> QED BY <1>1, <2>1, <2>2
<1>10. PoolInv'
  BY <1>8, <1>9 DEF PoolInv
<1> QED BY <1>2, <1>7, <1>10 DEF ServerInv

\* A thread ends only when its io_service has stopped, which one with work has not.
LEMMA ExitInv ==
  ASSUME ServerInv, Exit, OutOfWork
  PROVE  ServerInv'
<1>0. TypeOK /\ PoolInv /\ ChainInv
  BY DEF ServerInv
<1>1. /\ UNCHANGED <<work, m_next_io_service, stopping, starts, doubled, m_io, conns, jobs, crashed, asked>>
      /\ UNCHANGED <<m_sp_acc, m_started, m_acceptor, accepts, ready, listens, forked, lost>>
  BY DEF Exit, ThreadExits, accVars
<1>2. PICK t \in 1..Len(m_vt_threads) :
        /\ stopped[m_vt_threads[t].io]
        /\ m_vt_threads' = [m_vt_threads EXCEPT ![t].running = FALSE]
  BY DEF Exit, ThreadExits
<1>3. m_vt_threads \in Seq([io : Io, running : BOOLEAN]) /\ Len(m_vt_threads) \in Nat
  BY <1>0, Types
<1>4. /\ m_vt_threads' \in Seq([io : Io, running : BOOLEAN]) /\ Len(m_vt_threads') = Len(m_vt_threads)
      /\ \A u \in 1..Len(m_vt_threads) : m_vt_threads'[u].io = m_vt_threads[u].io
      /\ \A u \in 1..Len(m_vt_threads) : u # t => m_vt_threads'[u] = m_vt_threads[u]
  <2>1. PICK x : x = [m_vt_threads[t] EXCEPT !.running = FALSE]
    OBVIOUS
  <2>2. x \in [io : Io, running : BOOLEAN] /\ x.io = m_vt_threads[t].io
    <3>1. m_vt_threads[t] \in [io : Io, running : BOOLEAN]
      BY <1>3, SeqElement, Zenon
    <3>2. FALSE \in BOOLEAN
      OBVIOUS
    <3> QED BY <2>1, <3>1, <3>2, ThreadEnds, Zenon
  <2>3. m_vt_threads' = [m_vt_threads EXCEPT ![t] = x]
    BY <1>2, <2>1
  <2>4. /\ m_vt_threads' \in Seq([io : Io, running : BOOLEAN]) /\ Len(m_vt_threads') = Len(m_vt_threads)
        /\ m_vt_threads'[t] = x
        /\ \A u \in 1..Len(m_vt_threads) : u # t => m_vt_threads'[u] = m_vt_threads[u]
    BY <1>3, <2>2, <2>3, SeqWith
  <2> QED BY <2>2, <2>4
<1>5. Io' = Io
  BY <1>1 DEF Io, Size
<1>6. ChainInv'
  BY <1>0, <1>1, ChainKept
<1>7. TypeOK'
  <2>1. stopped' \in [Io' -> BOOLEAN]
    BY OutOfWorkFacts
  <2> QED BY <1>0, <1>1, <1>4, <1>5, <2>1 DEF TypeOK
<1>8. ASSUME NEW i \in Io, work[i] PROVE ~stopped'[i] /\ Threads(i)' # {}
  <2>1. ~stopped[i] /\ Threads(i) # {}
    BY <1>0, <1>8 DEF PoolInv
  <2>2. PICK u \in 1..Len(m_vt_threads) : m_vt_threads[u].io = i /\ m_vt_threads[u].running
    BY <2>1 DEF Threads
  <2>3. u # t
    BY <1>2, <2>1, <2>2
  <2>4. m_vt_threads'[u].io = i /\ m_vt_threads'[u].running
    BY <1>4, <2>2, <2>3
  <2>5. Threads(i)' # {}
    BY <1>4, <2>4 DEF Threads
  <2> QED BY <1>1, <1>5, <1>8, <2>1, <2>5, OutOfWorkFacts
<1>9. ASSUME ~doubled, NEW r \in 1..Len(m_vt_threads), NEW u \in 1..Len(m_vt_threads),
             m_vt_threads'[r].io = m_vt_threads'[u].io
      PROVE  r = u
  BY <1>0, <1>4, <1>9 DEF PoolInv
<1>10. PoolInv'
  BY <1>1, <1>4, <1>5, <1>8, <1>9 DEF PoolInv
<1> QED BY <1>6, <1>7, <1>10 DEF ServerInv

-----------------------------------------------------------------------------
(* The server and the connections.                                         *)

LEMMA RobinType ==
  ASSUME TypeOK, Size > 0, NEW k \in Nat
  PROVE  Robin(k) \in Io
<1>1. Size \in Nat /\ Io = 1..Size /\ m_next_io_service + k \in Nat
  BY Types
<1>2. (m_next_io_service + k) % Size \in 0..Size - 1
  BY <1>1
<1> QED BY <1>1, <1>2 DEF Robin

LEMMA ConstructInv ==
  ASSUME ServerInv, rpc_server_t, OutOfWork
  PROVE  ServerInv'
<1>0. TypeOK /\ PoolInv /\ ChainInv
  BY DEF ServerInv
<1>1. /\ UNCHANGED <<work, m_vt_threads, stopping, starts, doubled, conns, jobs, asked>>
      /\ UNCHANGED <<m_sp_acc, m_started, m_acceptor, accepts, ready, listens, forked, lost>>
  BY DEF rpc_server_t, accVars
<1>2. /\ m_io' \in Io \cup {None} /\ m_next_io_service' \in Nat /\ crashed' \in BOOLEAN
  <2>1. CASE Size = 0
    <3>1. crashed' = TRUE /\ UNCHANGED <<m_io, m_next_io_service>>
      BY <2>1 DEF rpc_server_t
    <3>2. m_io \in Io \cup {None} /\ m_next_io_service \in Nat
      BY <1>0, Types
    <3> QED BY <3>1, <3>2
  <2>2. CASE Size # 0
    <3>1. m_io' = Robin(0) /\ TakeNext(1, FALSE) /\ UNCHANGED crashed
      BY <2>2 DEF rpc_server_t
    <3>2. Size > 0 /\ m_next_io_service \in Nat /\ crashed \in BOOLEAN
      BY <1>0, <2>2, Types
    <3>3. Robin(0) \in Io
      BY <1>0, <3>2, RobinType
    <3>4. m_next_io_service' = m_next_io_service + 1
      BY <3>1 DEF TakeNext
    <3>5. m_next_io_service' \in Nat
      BY <3>2, <3>4
    <3> QED BY <3>1, <3>2, <3>3, <3>5
  <2> QED BY <2>1, <2>2
<1>3. TypeOK'
  BY <1>0, <1>1, <1>2, Types, TypesKept
<1> QED BY <1>0, <1>1, <1>3, PoolKept, ChainKept DEF ServerInv

\* A connection changes its state.
LEMMA TurnedConns ==
  ASSUME TypeOK, NEW c \in 1..Len(conns), NEW st \in {"accepting", "open", "ending", "closed"}
  PROVE  /\ [conns EXCEPT ![c].st = st] \in Seq([io : Io, st : {"accepting", "open", "ending", "closed"}])
         /\ Len([conns EXCEPT ![c].st = st]) = Len(conns)
<1> DEFINE C == [io : Io, st : {"accepting", "open", "ending", "closed"}]
<1>1. conns \in Seq(C)
  BY Types
<1>2. PICK x : x = [conns[c] EXCEPT !.st = st]
  OBVIOUS
<1>3. [conns EXCEPT ![c].st = st] = [conns EXCEPT ![c] = x]
  BY <1>2
<1>4. x \in C
  <2>1. conns[c] \in C
    BY <1>1, SeqElement, Zenon
  <2> QED BY <1>2, <2>1, ConnTurns, Zenon
<1> HIDE DEF C
<1>5. [conns EXCEPT ![c] = x] \in Seq(C) /\ Len([conns EXCEPT ![c] = x]) = Len(conns)
  BY <1>1, <1>4, SeqWith
<1> QED BY <1>3, <1>5 DEF C

\* Steps that only touch jobs, and those of the connections.
LEMMA QuietInv ==
  ASSUME ServerInv, async_do \/ handle_do \/ ReadEnds \/ RunRead, OutOfWork
  PROVE  ServerInv'
<1>0. TypeOK /\ PoolInv /\ ChainInv
  BY DEF ServerInv
<1>1. /\ UNCHANGED <<work, m_vt_threads, m_next_io_service, stopping, starts, doubled, m_io, crashed>>
      /\ UNCHANGED <<m_sp_acc, m_started, m_acceptor, accepts, ready, listens, forked, lost>>
  BY DEF async_do, handle_do, ReadEnds, RunRead, accVars, poolVars
<1>2. jobs' \in Nat /\ asked' \in Nat
  <2>1. jobs \in Nat /\ asked \in Nat
    BY <1>0, Types
  <2>2. CASE async_do
    BY <2>1, <2>2 DEF async_do
  <2>3. CASE handle_do
    BY <2>1, <2>3 DEF handle_do
  <2>4. CASE ReadEnds \/ RunRead
    BY <2>1, <2>4 DEF ReadEnds, RunRead
  <2> QED BY <2>2, <2>3, <2>4
<1>3. \/ UNCHANGED conns
      \/ \E c \in 1..Len(conns) : Turns(c, "ending", <<>>) \/ Turns(c, "closed", <<>>)
  BY Zenon DEF async_do, handle_do, ReadEnds, RunRead
<1>4. /\ conns \in Seq([io : Io, st : {"accepting", "open", "ending", "closed"}])
      /\ Len(conns) \in Nat
  BY <1>0, Types
<1>5. /\ conns' \in Seq([io : Io, st : {"accepting", "open", "ending", "closed"}])
      /\ Len(conns') = Len(conns)
  <2>1. ASSUME NEW c \in 1..Len(conns), NEW st \in {"ending", "closed"}, Turns(c, st, <<>>)
        PROVE  /\ conns' \in Seq([io : Io, st : {"accepting", "open", "ending", "closed"}])
               /\ Len(conns') = Len(conns)
    <3>1. PICK cs : cs = [conns EXCEPT ![c].st = st]
      OBVIOUS
    <3>2. /\ cs \in Seq([io : Io, st : {"accepting", "open", "ending", "closed"}])
          /\ Len(cs) = Len(conns)
      <4>1. st \in {"accepting", "open", "ending", "closed"}
        OBVIOUS
      <4> QED BY <1>0, <3>1, <4>1, TurnedConns
    <3>3. conns' = cs \o <<>>
      BY <2>1, <3>1 DEF Turns
    <3> QED BY <3>2, <3>3
  <2> QED BY <1>3, <1>4, <2>1
<1>6. TypeOK'
  BY <1>0, <1>1, <1>2, <1>5, Types, TypesKept
<1> QED BY <1>0, <1>1, <1>6, PoolKept, ChainKept DEF ServerInv

\* One more connection, for the accept that follows.
LEMMA OneMoreConn ==
  ASSUME TypeOK, NEW cs \in Seq([io : Io, st : {"accepting", "open", "ending", "closed"}]),
         Len(cs) = Len(conns), NEW i \in Io
  PROVE  /\ Append(cs, Accepting(i)) \in Seq([io : Io, st : {"accepting", "open", "ending", "closed"}])
         /\ Len(Append(cs, Accepting(i))) = Len(conns) + 1
         /\ Len(conns) + 1 \notin accepts
         /\ accepts \subseteq 1..Len(conns) + 1
         /\ \A q \in Seq([conn : 1..Len(conns), err : BOOLEAN]) :
              q \in Seq([conn : 1..Len(conns) + 1, err : BOOLEAN])
<1>1. Len(conns) \in Nat /\ accepts \subseteq 1..Len(conns)
  BY Types
<1>2. Accepting(i) \in [io : Io, st : {"accepting", "open", "ending", "closed"}]
  BY DEF Accepting
<1>3. /\ Append(cs, Accepting(i)) \in Seq([io : Io, st : {"accepting", "open", "ending", "closed"}])
      /\ Len(Append(cs, Accepting(i))) = Len(conns) + 1
  BY <1>2, AppendFacts
<1>4. [conn : 1..Len(conns), err : BOOLEAN] \subseteq [conn : 1..Len(conns) + 1, err : BOOLEAN]
  BY <1>1
<1>5. \A q \in Seq([conn : 1..Len(conns), err : BOOLEAN]) :
        q \in Seq([conn : 1..Len(conns) + 1, err : BOOLEAN])
  BY <1>4, SeqMonotone
<1>6. Len(conns) + 1 \notin accepts /\ accepts \subseteq 1..Len(conns) + 1
  BY <1>1
<1> QED BY <1>3, <1>5, <1>6

\* start() of the acceptor: a new chain begins with no accept outstanding, and
\* with the completed ones that are still queued.
LEMMA StartFacts ==
  ASSUME TypeOK, ChainInv, Size > 0, NEW taken \in Nat, NEW racing, start(taken, racing), UNCHANGED ready
  PROVE  /\ ChainInv' /\ m_next_io_service' \in Nat /\ m_started' \in BOOLEAN
         /\ m_acceptor' \in {"closed", "open", "listening"}
         /\ conns' \in Seq([io : Io, st : {"accepting", "open", "ending", "closed"}])
         /\ accepts' \subseteq 1..Len(conns')
         /\ ready' \in Seq([conn : 1..Len(conns'), err : BOOLEAN])
         /\ forked' \in Nat /\ lost' \in Nat
<1>1. /\ m_next_io_service \in Nat /\ m_started \in BOOLEAN
      /\ m_acceptor \in {"closed", "open", "listening"}
      /\ conns \in Seq([io : Io, st : {"accepting", "open", "ending", "closed"}])
      /\ Len(conns) \in Nat /\ accepts \subseteq 1..Len(conns)
      /\ ready \in Seq([conn : 1..Len(conns), err : BOOLEAN]) /\ ready \in Seq(Completion)
      /\ forked \in Nat /\ lost \in Nat
  BY Types
<1>2. CASE m_started /\ UNCHANGED <<m_next_io_service, m_started, m_acceptor, accepts, conns, forked, lost>>
  BY <1>1, <1>2, ChainKept
<1>3. CASE ~m_started /\ m_started' = TRUE /\ sync_start_listen_i(taken, racing)
  <2>0. Pending \in Nat /\ Pending' = Pending
    <3>1. Pending = CountIn(ready, Completed)
      BY <1>1, PendingIsCount DEF Pending
    <3>2. CountIn(ready, Completed) \in Nat
      BY <1>1, CountType
    <3>3. Pending' = Pending
      BY DEF Pending
    <3> QED BY <3>1, <3>2, <3>3
  <2>1. accepts = {} /\ m_acceptor # "listening"
    BY <1>3 DEF ChainInv
  <2>2. CASE /\ m_acceptor' \in {"closed", "open"} /\ TakeNext(taken, FALSE)
             /\ UNCHANGED <<conns, accepts, forked, lost>>
    <3>1. m_next_io_service' \in Nat
      BY <1>1, <2>2 DEF TakeNext
    <3>2. m_acceptor' # "listening" /\ accepts' = {}
      BY <2>1, <2>2
    <3>3. ChainInv'
      BY <3>2 DEF ChainInv, AcceptChain
    <3> QED BY <1>1, <1>3, <2>2, <3>1, <3>3
  <2>3. CASE /\ m_acceptor' = "listening" /\ forked' = Pending /\ lost' = 1
             /\ TakeNext(taken, FALSE) \/ TakeNext(taken + 1, racing)
             /\ UNCHANGED <<conns, accepts>>
    <3>1. m_next_io_service' \in Nat
      BY <1>1, <2>3 DEF TakeNext
    <3>2. accepts' = {} /\ Cardinality(accepts') = 0
      BY <2>1, <2>3, FS_EmptySet
    <3>3. ChainInv'
      BY <1>3, <2>0, <2>3, <3>2 DEF ChainInv, AcceptChain
    <3> QED BY <1>1, <1>3, <2>0, <2>3, <3>1, <3>3
  <2>4. CASE /\ m_acceptor' = "listening" /\ forked' = Pending /\ lost' = 0
             /\ TakeNext(taken + 1, racing)
             /\ conns' = Append(conns, Accepting(Robin(taken)))
             /\ accepts' = accepts \cup {Len(conns')}
    <3>1. m_next_io_service' \in Nat
      BY <1>1, <2>4 DEF TakeNext
    <3>2. Robin(taken) \in Io
      BY RobinType
    <3>3. /\ conns' \in Seq([io : Io, st : {"accepting", "open", "ending", "closed"}])
          /\ Len(conns') = Len(conns) + 1
          /\ ready' \in Seq([conn : 1..Len(conns) + 1, err : BOOLEAN])
      BY <1>1, <2>4, <3>2, OneMoreConn
    <3>4. accepts' = {Len(conns) + 1}
      BY <2>1, <2>4, <3>3
    <3>5. accepts' \subseteq 1..Len(conns')
      BY <1>1, <3>3, <3>4
    <3>6. Cardinality(accepts') = 1
      BY <3>4, FS_Singleton
    <3>7. ChainInv'
      BY <1>3, <2>0, <2>4, <3>6 DEF ChainInv, AcceptChain
    <3> QED BY <1>3, <2>0, <2>4, <3>1, <3>3, <3>5, <3>7
  <2> QED BY <1>3, <2>2, <2>3, <2>4 DEF sync_start_listen_i
<1> QED BY <1>2, <1>3 DEF start

LEMMA ListenInv ==
  ASSUME ServerInv, listen, OutOfWork
  PROVE  ServerInv'
<1>0. TypeOK /\ PoolInv /\ ChainInv
  BY DEF ServerInv
<1>1. /\ UNCHANGED <<work, m_vt_threads, stopping, starts, doubled, m_io, ready, jobs, crashed, asked>>
      /\ m_io # None /\ listens' = listens + 1
      /\ \/ m_sp_acc' = Robin(0) /\ start(1, FALSE)
         \/ UNCHANGED m_sp_acc /\ start(0, ready # <<>> /\ Served(m_sp_acc))
  BY DEF listen
<1>2. /\ m_io \in Io \cup {None} /\ m_sp_acc \in Io \cup {None} /\ listens \in Nat /\ jobs \in Nat
      /\ asked \in Nat /\ crashed \in BOOLEAN /\ Size \in Nat /\ Io = 1..Size
  BY <1>0, Types
<1>3. Size > 0
  BY <1>1, <1>2
<1>4. m_sp_acc' \in Io \cup {None}
  BY <1>0, <1>1, <1>2, <1>3, RobinType
<1>5. \E taken \in Nat : \E racing : start(taken, racing)
  BY <1>1
<1>6. /\ ChainInv' /\ m_next_io_service' \in Nat /\ m_started' \in BOOLEAN
      /\ m_acceptor' \in {"closed", "open", "listening"}
      /\ conns' \in Seq([io : Io, st : {"accepting", "open", "ending", "closed"}])
      /\ accepts' \subseteq 1..Len(conns')
      /\ ready' \in Seq([conn : 1..Len(conns'), err : BOOLEAN])
      /\ forked' \in Nat /\ lost' \in Nat
  BY <1>0, <1>1, <1>3, <1>5, StartFacts
<1>7. m_io' \in Io \cup {None} /\ listens' \in Nat /\ jobs' \in Nat /\ asked' \in Nat /\ crashed' \in BOOLEAN
  BY <1>1, <1>2
<1>8. TypeOK'
  BY <1>0, <1>1, <1>4, <1>6, <1>7, TypesKept
<1> QED BY <1>0, <1>1, <1>6, <1>8, PoolKept DEF ServerInv

LEMMA FailedType ==
  ASSUME NEW N, NEW s \in Seq(1..N)
  PROVE  Failed(s) \in Seq([conn : 1..N, err : BOOLEAN])
<1>1. DOMAIN s = 1..Len(s) /\ Len(s) \in Nat /\ \A k \in 1..Len(s) : s[k] \in 1..N
  <2>1. \A k \in 1..Len(s) : s[k] \in 1..N
    BY SeqElement, Zenon
  <2> QED BY <2>1
<1>2. \A c \in 1..N : [conn |-> c, err |-> TRUE] \in [conn : 1..N, err : BOOLEAN]
  OBVIOUS
<1>3. Failed(s) \in [1..Len(s) -> [conn : 1..N, err : BOOLEAN]]
  BY <1>1, <1>2, Zenon DEF Failed
<1> QED BY <1>1, <1>3, SeqOfFunction

\* stop() of the acceptor: the chain of accepts is over.
LEMMA CloseInv ==
  ASSUME ServerInv, close, OutOfWork
  PROVE  ServerInv'
<1>0. TypeOK /\ PoolInv /\ ChainInv
  BY DEF ServerInv
<1>1. /\ UNCHANGED <<work, m_vt_threads, m_next_io_service, stopping, starts, doubled, m_io, m_sp_acc,
                     listens, forked, lost, conns, jobs, crashed, asked>>
      /\ m_started' = FALSE /\ m_acceptor' = "closed" /\ accepts' = {}
      /\ ready' = ready \o Failed(SetToSeq(accepts))
  BY DEF close, stop, poolVars
<1>2. /\ ready \in Seq([conn : 1..Len(conns), err : BOOLEAN]) /\ IsFiniteSet(accepts)
      /\ accepts \subseteq 1..Len(conns)
  BY <1>0, Types
<1>3. Failed(SetToSeq(accepts)) \in Seq([conn : 1..Len(conns), err : BOOLEAN])
  <2>1. PICK s : s = SetToSeq(accepts)
    OBVIOUS
  <2>2. s \in Seq(1..Len(conns))
    BY <1>2, <2>1, SetAsSeq, SeqMonotone
  <2> QED BY <2>1, <2>2, FailedType
<1>4. ready' \in Seq([conn : 1..Len(conns'), err : BOOLEAN])
  BY <1>1, <1>2, <1>3, ConcatFacts
<1>5. TypeOK'
  BY <1>0, <1>1, <1>4, Types, TypesKept
<1>6. ChainInv'
  BY <1>1 DEF ChainInv, AcceptChain
<1> QED BY <1>0, <1>1, <1>5, <1>6, PoolKept DEF ServerInv

\* An accept completes, with an error or without: it leaves the outstanding ones, and
\* is pending or lost.
LEMMA AcceptEndsInv ==
  ASSUME ServerInv, AcceptEnds, OutOfWork
  PROVE  ServerInv'
<1>0. TypeOK /\ PoolInv /\ ChainInv
  BY DEF ServerInv
<1>1. UNCHANGED <<work, m_vt_threads, m_next_io_service, stopping, starts, doubled, m_io, m_sp_acc,
                  m_started, m_acceptor, listens, forked, conns, jobs, crashed, asked>>
  BY DEF AcceptEnds, poolVars
<1>2. PICK c \in accepts, err \in BOOLEAN :
        /\ accepts' = accepts \ {c} /\ ready' = Append(ready, [conn |-> c, err |-> err])
        /\ lost' = IF err THEN lost + 1 ELSE lost
  BY DEF AcceptEnds
<1>3. /\ ready \in Seq([conn : 1..Len(conns), err : BOOLEAN]) /\ ready \in Seq(Completion)
      /\ IsFiniteSet(accepts) /\ accepts \subseteq 1..Len(conns) /\ lost \in Nat /\ forked \in Nat
      /\ Len(conns) \in Nat
  BY <1>0, Types
<1>4. PICK h : h = [conn |-> c, err |-> err]
  OBVIOUS
<1>5. h \in [conn : 1..Len(conns), err : BOOLEAN] /\ h \in Completion /\ (h.err <=> err)
  <2>1. c \in 1..Len(conns) /\ c \in Nat
    BY <1>3
  <2> QED BY <1>4, <2>1 DEF Completion
<1>6. ready' \in Seq([conn : 1..Len(conns'), err : BOOLEAN])
  BY <1>1, <1>2, <1>3, <1>4, <1>5, AppendFacts
<1>7. lost' \in Nat /\ accepts' \subseteq 1..Len(conns')
  BY <1>1, <1>2, <1>3
<1>8. TypeOK'
  BY <1>0, <1>1, <1>6, <1>7, Types, TypesKept
<1>9. Cardinality(accepts') = Cardinality(accepts) - 1 /\ Cardinality(accepts) \in Nat
  BY <1>2, <1>3, FS_RemoveElement, FS_CardinalityType
<1>10. Pending \in Nat /\ Pending' = Pending + IF err THEN 0 ELSE 1
  <2>1. ready' = Append(ready, h) /\ ready' \in Seq(Completion)
    BY <1>2, <1>3, <1>4, <1>5, AppendFacts
  <2>2. Pending = CountIn(ready, Completed)
    BY <1>3, PendingIsCount DEF Pending
  <2>3. Pending' = CountIn(ready', Completed)
    BY <2>1, PendingIsCount DEF Pending
  <2>4. CountIn(ready, Completed) \in Nat
    BY <1>3, CountType
  <2>5. CountIn(Append(ready, h), Completed) = CountIn(ready, Completed) + IF h \in Completed THEN 1 ELSE 0
    BY <1>3, <1>5, CountAppend
  <2>6. h \in Completed <=> ~err
    BY <1>5, CompletedWhenNoError
  <2> QED BY <2>1, <2>2, <2>3, <2>4, <2>5, <2>6
<1>11. m_acceptor = "listening" /\ m_started
  BY <1>0, <1>2 DEF ChainInv
<1>12. AcceptChain'
  <2>1. Cardinality(accepts) + Pending + lost = 1 + forked
    BY <1>0, <1>11 DEF ChainInv, AcceptChain
  <2>2. Cardinality(accepts') + Pending' + lost' = 1 + forked'
    BY <1>1, <1>2, <1>3, <1>9, <1>10, <2>1
  <2> QED BY <2>2 DEF AcceptChain
<1>13. ChainInv'
  BY <1>1, <1>11, <1>12 DEF ChainInv
<1> QED BY <1>0, <1>1, <1>8, <1>13, PoolKept DEF ServerInv

\* An accept handler runs: the pending accept is followed by an outstanding one, or
\* lost to an exception.
LEMMA RunAcceptInv ==
  ASSUME ServerInv, RunAccept, OutOfWork
  PROVE  ServerInv'
<1> DEFINE h == Head(ready)
<1>0. TypeOK /\ PoolInv /\ ChainInv
  BY DEF ServerInv
<1>1. /\ UNCHANGED <<work, m_vt_threads, stopping, starts, doubled, m_io, m_sp_acc, m_started,
                     m_acceptor, listens, forked, jobs, crashed, asked>>
      /\ ready # <<>> /\ Served(m_sp_acc) /\ sync_accept_i(h)
  BY DEF RunAccept
<1>2. /\ ready \in Seq([conn : 1..Len(conns), err : BOOLEAN]) /\ ready \in Seq(Completion)
      /\ IsFiniteSet(accepts) /\ accepts \subseteq 1..Len(conns) /\ lost \in Nat /\ forked \in Nat
      /\ Len(conns) \in Nat /\ m_next_io_service \in Nat /\ Size \in Nat /\ Io = 1..Size
      /\ m_vt_threads \in Seq([io : Io, running : BOOLEAN])
      /\ m_acceptor \in {"closed", "open", "listening"}
  BY <1>0, Types
<1>3. /\ h \in [conn : 1..Len(conns), err : BOOLEAN] /\ h \in Completion
      /\ Tail(ready) \in Seq([conn : 1..Len(conns), err : BOOLEAN]) /\ Tail(ready) \in Seq(Completion)
  <2>1. \A T : \A q \in Seq(T) : q # <<>> => Head(q) \in T /\ Tail(q) \in Seq(T)
    OBVIOUS
  <2> QED BY <1>1, <1>2, <2>1, Zenon
<1>4. /\ Pending \in Nat /\ CountIn(Tail(ready), Completed) \in Nat
      /\ Pending = (IF h.err THEN 0 ELSE 1) + CountIn(Tail(ready), Completed)
  <2>1. Pending = CountIn(ready, Completed)
    BY <1>2, PendingIsCount DEF Pending
  <2>2. CountIn(ready, Completed) \in Nat
    BY <1>2, CountType
  <2>3. CountIn(Tail(ready), Completed) \in Nat
    BY <1>3, CountType
  <2>4. CountIn(ready, Completed) = (IF h \in Completed THEN 1 ELSE 0) + CountIn(Tail(ready), Completed)
    BY <1>1, <1>2, CountTail
  <2>5. h \in Completed <=> ~h.err
    BY <1>3, CompletedWhenNoError, Zenon
  <2> HIDE DEF h
  <2> QED BY <2>1, <2>2, <2>3, <2>4, <2>5
<1>5. h.conn \in 1..Len(conns)
  BY <1>3
<1> HIDE DEF h
<1>6. Cardinality(accepts) \in Nat
  BY <1>2, FS_CardinalityType
<1>7. CASE /\ Turns(h.conn, "closed", <<>>) /\ ready' = Tail(ready)
           /\ lost' = IF h.err THEN lost ELSE lost + 1
           /\ TakeNext(0, FALSE) \/ (~h.err /\ TakeNext(1, FALSE))
           /\ UNCHANGED accepts
  <2>1. /\ conns' \in Seq([io : Io, st : {"accepting", "open", "ending", "closed"}])
        /\ Len(conns') = Len(conns)
    <3>1. PICK cs : cs = [conns EXCEPT ![h.conn].st = "closed"]
      OBVIOUS
    <3>2. cs \in Seq([io : Io, st : {"accepting", "open", "ending", "closed"}]) /\ Len(cs) = Len(conns)
      BY <1>0, <1>5, <3>1, TurnedConns
    <3>3. conns' = cs \o <<>>
      BY <1>7, <3>1 DEF Turns
    <3> QED BY <3>2, <3>3
  <2>2. lost' \in Nat /\ m_next_io_service' \in Nat
    BY <1>2, <1>7 DEF TakeNext
  <2>3. ready' \in Seq([conn : 1..Len(conns'), err : BOOLEAN]) /\ accepts' \subseteq 1..Len(conns')
    BY <1>2, <1>3, <1>7, <2>1
  <2>4. TypeOK'
    BY <1>0, <1>1, <1>7, <2>1, <2>2, <2>3, Types, TypesKept
  <2>5. Pending' = CountIn(Tail(ready), Completed)
    BY <1>3, <1>7, PendingIsCount DEF Pending
  <2>6. AcceptChain'
    <3>1. SUFFICES ASSUME m_acceptor = "listening"
                   PROVE  Cardinality(accepts) + Pending' + lost' = 1 + forked
      BY <1>1, <1>7 DEF AcceptChain
    <3>2. Cardinality(accepts) + Pending + lost = 1 + forked
      BY <1>0, <3>1 DEF ChainInv, AcceptChain
    <3> QED BY <1>2, <1>4, <1>6, <1>7, <2>5, <3>2
  <2>7. ChainInv'
    BY <1>0, <1>1, <1>7, <2>6 DEF ChainInv
  <2> QED BY <1>0, <1>1, <2>4, <2>7, PoolKept DEF ServerInv
<1>8. CASE /\ ~h.err /\ TakeNext(1, FALSE)
           /\ \E st \in {"open", "closed"} : Turns(h.conn, st, <<Accepting(Robin(0))>>)
           /\ IF m_acceptor = "listening"
              THEN ready' = Tail(ready) /\ accepts' = accepts \cup {Len(conns')}
              ELSE ready' = Tail(ready) \o Failed(<<Len(conns')>>) /\ UNCHANGED accepts
           /\ UNCHANGED lost
  <2>1. Robin(0) \in Io
    <3>1. PICK t \in 1..Len(m_vt_threads) : m_vt_threads[t].io = m_sp_acc
      BY <1>1 DEF Served, Threads
    <3>2. m_vt_threads[t].io \in Io
      <4>1. m_vt_threads[t] \in [io : Io, running : BOOLEAN]
        BY <1>2, SeqElement, Zenon
      <4> QED BY <4>1
    <3>3. Size > 0
      BY <1>2, <3>2
    <3> QED BY <1>0, <3>3, RobinType
  <2>2. /\ conns' \in Seq([io : Io, st : {"accepting", "open", "ending", "closed"}])
        /\ Len(conns') = Len(conns) + 1 /\ Len(conns) + 1 \notin accepts
        /\ accepts \subseteq 1..Len(conns')
        /\ Tail(ready) \in Seq([conn : 1..Len(conns'), err : BOOLEAN])
    <3>0. PICK st \in {"open", "closed"} : Turns(h.conn, st, <<Accepting(Robin(0))>>)
      BY <1>8
    <3>1. PICK cs : cs = [conns EXCEPT ![h.conn].st = st]
      OBVIOUS
    <3>2. cs \in Seq([io : Io, st : {"accepting", "open", "ending", "closed"}]) /\ Len(cs) = Len(conns)
      BY <1>0, <1>5, <3>1, TurnedConns
    <3>3. conns' = Append(cs, Accepting(Robin(0)))
      BY <3>0, <3>1, <3>2 DEF Turns
    <3> QED BY <1>0, <1>3, <2>1, <3>2, <3>3, OneMoreConn
  <2>3. m_next_io_service' \in Nat
    BY <1>2, <1>8 DEF TakeNext
  <2>4. CASE m_acceptor = "listening"
    <3>1. ready' = Tail(ready) /\ accepts' = accepts \cup {Len(conns) + 1}
      BY <1>8, <2>2, <2>4
    <3>2. accepts' \subseteq 1..Len(conns')
      <4>1. Len(conns) + 1 \in 1..Len(conns')
        BY <1>2, <2>2
      <4> QED BY <2>2, <3>1, <4>1
    <3>3. TypeOK'
      BY <1>0, <1>1, <1>8, <2>2, <2>3, <3>1, <3>2, Types, TypesKept
    <3>4. Cardinality(accepts') = Cardinality(accepts) + 1
      BY <1>2, <2>2, <3>1, FS_AddElement
    <3>5. Pending' = CountIn(Tail(ready), Completed)
      BY <1>3, <3>1, PendingIsCount DEF Pending
    <3>6. Cardinality(accepts) + Pending + lost = 1 + forked /\ m_started
      BY <1>0, <2>4 DEF ChainInv, AcceptChain
    <3>7. Cardinality(accepts') + Pending' + lost' = 1 + forked'
      BY <1>1, <1>2, <1>4, <1>6, <1>8, <3>4, <3>5, <3>6
    <3>8. ChainInv'
      BY <1>1, <2>4, <3>6, <3>7 DEF ChainInv, AcceptChain
    <3> QED BY <1>0, <1>1, <3>3, <3>8, PoolKept DEF ServerInv
  <2>5. CASE m_acceptor # "listening"
    <3>1. ready' = Tail(ready) \o Failed(<<Len(conns')>>) /\ UNCHANGED accepts
      BY <1>8, <2>5
    <3>2. <<Len(conns')>> \in Seq(1..Len(conns'))
      <4>1. Len(conns') \in 1..Len(conns')
        BY <1>2, <2>2
      <4> QED BY <4>1
    <3>3. Failed(<<Len(conns')>>) \in Seq([conn : 1..Len(conns'), err : BOOLEAN])
      BY <3>2, FailedType
    <3>4. ready' \in Seq([conn : 1..Len(conns'), err : BOOLEAN])
      BY <2>2, <3>1, <3>3, ConcatFacts
    <3>5. TypeOK'
      BY <1>0, <1>1, <1>8, <2>2, <2>3, <3>1, <3>4, Types, TypesKept
    <3>6. ChainInv'
      BY <1>0, <1>1, <2>5, <3>1 DEF ChainInv, AcceptChain
    <3> QED BY <1>0, <1>1, <3>5, <3>6, PoolKept DEF ServerInv
  <2> QED BY <2>4, <2>5
<1> QED BY <1>1, <1>7, <1>8 DEF sync_accept_i

-----------------------------------------------------------------------------
(* The theorems.                                                           *)

LEMMA ServerStep ==
  ASSUME ServerInv, [Next]_vars
  PROVE  ServerInv'
<1>1. CASE UNCHANGED vars
  <2>1. /\ UNCHANGED <<work, stopped, m_vt_threads, m_next_io_service, stopping, starts, doubled,
                       m_io, conns, jobs, crashed, asked>>
        /\ UNCHANGED <<m_sp_acc, m_started, m_acceptor, accepts, ready, listens, forked, lost>>
    BY <1>1 DEF vars, poolVars, accVars
  <2>2. Io' = Io /\ \A i : Threads(i)' = Threads(i)
    BY <2>1 DEF Io, Size, Threads
  <2>3. TypeOK'
    BY <2>1, <2>2 DEF ServerInv, TypeOK
  <2>4. PoolInv'
    BY <2>1, <2>2 DEF ServerInv, PoolInv
  <2>5. ChainInv'
    BY <2>1, ChainKept DEF ServerInv
  <2> QED BY <2>3, <2>4, <2>5 DEF ServerInv
<1>2. CASE Next
  <2>1. OutOfWork /\ (Owner \/ Others \/ Pool \/ AcceptEnds \/ ReadEnds)
    BY <1>2 DEF Next
  <2>2. CASE Owner
    BY <2>1, <2>2, PoolStartInv, PoolStopInv, ConstructInv, ListenInv DEF Owner
  <2>3. CASE Others
    BY <2>1, <2>3, CloseInv, QuietInv DEF Others
  <2>4. CASE Pool
    BY <2>1, <2>4, QuietInv, RunAcceptInv, ExitInv DEF Pool
  <2>5. CASE AcceptEnds
    BY <2>1, <2>5, AcceptEndsInv
  <2>6. CASE ReadEnds
    BY <2>1, <2>6, QuietInv
  <2> QED BY <2>1, <2>2, <2>3, <2>4, <2>5, <2>6
<1> QED BY <1>1, <1>2

\* The conjunction of types, threads and chain is an invariant of the server, for
\* every number of starts, connections, listens and jobs.
THEOREM ServerInvariant == Spec => []ServerInv
<1>1. Init => ServerInv
  BY ServerInitInv
<1>2. ServerInv /\ [Next]_vars => ServerInv'
  BY ServerStep
<1> QED BY <1>1, <1>2, PTL DEF Spec

\* Every variable of rpc_server_t, its acceptor and its pool keeps its type: a server's
\* io_service is one of the vector's, an accept handler's connection exists.
THEOREM ServerTypeCorrect == Spec => []TypeOK
<1>1. ServerInv => TypeOK
  BY DEF ServerInv
<1> QED BY <1>1, ServerInvariant, PTL

\* While the acceptor listens one accept is in flight, but for those that
\* sync_start_listen_i or sync_accept_i lost to an error or an exception and those that
\* a close() and a listen() overtook.
THEOREM AcceptChainCorrect == Spec => []AcceptChain
<1>1. ServerInv => AcceptChain
  BY DEF ServerInv, ChainInv
<1> QED BY <1>1, ServerInvariant, PTL

\* An io_service with a work object is run, and by two threads only after a start()
\* that met the threads of another start().
THEOREM ServedByOneThreadCorrect == Spec => []ServedByOneThread
<1>1. ServerInv => ServedByOneThread
  <2> SUFFICES ASSUME ServerInv, NEW i \in Io
               PROVE  (work[i] => Served(i)) /\ (Cardinality(Threads(i)) > 1 => doubled)
    BY DEF ServedByOneThread
  <2>1. work[i] => Served(i)
    BY DEF ServerInv, PoolInv, Served
  <2>2. ASSUME ~doubled PROVE ~(Cardinality(Threads(i)) > 1)
    <3>1. \A t, u \in Threads(i) : t = u
      BY <2>2 DEF ServerInv, PoolInv, Threads
    <3>2. Threads(i) = {} \/ \E t : Threads(i) = {t}
      BY <3>1
    <3>3. Cardinality(Threads(i)) = 0 \/ Cardinality(Threads(i)) = 1
      BY <3>2, FS_EmptySet, FS_Singleton
    <3> QED BY <3>3
  <2> QED BY <2>1, <2>2
<1> QED BY <1>1, ServerInvariant, PTL
=============================================================================
