---------------------- MODULE SharedConnectionsProofs ----------------------
(***************************************************************************)
(* Proofs about SharedConnections, for any number of threads and of        *)
(* connections, with and without the lock of dbus-bus.c: the reference     *)
(* counts are exact and nothing is finalized while it is used, and, with   *)
(* the lock, the weak reference of dbus-bus.c is safe and a connection     *)
(* that was lost is never returned again.                                  *)
(***************************************************************************)
EXTENDS SharedConnections, FiniteSetTheorems, TLAPS

-----------------------------------------------------------------------------
(***************************************************************************)
(* The inductive invariant.  The counts alone are not inductive: that a    *)
(* thread which drops a reference had one, and that nobody else finds what *)
(* it makes or finalizes, depends on where every thread is, on what the    *)
(* table and the list of connections without a guid hold, and on how far   *)
(* each connection has come.                                               *)
(***************************************************************************)
Places == {"idle", "lookup", "peek", "create", "record", "register", "store", "mark",
           "close", "notify", "pop", "update", "forget", "unref", "finalize"}

Connection ==
  [refs : Int, born : BOOLEAN, freed : BOOLEAN, connected : BOOLEAN,
   link : BOOLEAN, queued : BOOLEAN, arrived : BOOLEAN, processed : BOOLEAN,
   guid : BOOLEAN, lock : Threads \cup {None}, wellKnown : BOOLEAN, leaked : BOOLEAN]
Thread == [at : Places, busGet : BOOLEAN, arg : Conns \cup {None}, holds : SUBSET Conns]

TypeOK ==
  /\ hasGuid \in BOOLEAN
  /\ conn \in [Conns -> Connection]
  /\ table \in Conns \cup {None} /\ noGuid \in SUBSET Conns /\ slot \in Conns \cup {None}
  /\ bus \in Threads \cup {None} /\ pool \in Threads \cup {None}
  /\ thread \in [Threads -> Thread]
  /\ crash \in {"none", "connection was not in the shared table", "finalized too soon"}

Counted == \A c \in Conns : conn[c].refs = References(c)

\* Where a thread is says what it has.
PlacedAt(t) ==
  /\ thread[t].at \in {"idle", "lookup", "peek", "create"} <=> thread[t].arg = None
  /\ thread[t].busGet => bus = t
  /\ thread[t].at \in {"register", "store", "mark"} =>
       thread[t].busGet /\ thread[t].arg \notin thread[t].holds
  /\ thread[t].at \in {"idle", "finalize"} => ~thread[t].busGet
  /\ thread[t].at = "peek" => pool = t /\ table # None
  /\ thread[t].at \in {"lookup", "peek", "create"} =>
       \A c \in thread[t].holds : ~conn[c].connected
  /\ thread[t].at = "notify" => ~conn[thread[t].arg].connected
  /\ thread[t].at = "pop" => ~conn[thread[t].arg].link
Placed == \A t \in Threads : PlacedAt(t)

Shared(c) == conn[c].guid \/ c \in noGuid

\* The life of a connection.
LivedAt(c) ==
  /\ conn[c].connected => conn[c].link
  /\ conn[c].arrived \/ conn[c].queued => ~conn[c].link
  /\ conn[c].processed => conn[c].arrived
  /\ ~conn[c].born => conn[c].refs = 0 /\ conn[c].link /\ ~conn[c].leaked
                      /\ ~conn[c].connected /\ ~conn[c].freed
  /\ Shared(c) => conn[c].born
Lived == \A c \in Conns : LivedAt(c)

\* Nobody can find it.
Hidden(c) == ~Shared(c) /\ slot # c /\ \A t \in Threads : c \notin thread[t].holds

\* What nobody can find: connections that are not made yet, those that are being
\* made, and those that are closed because they could not be recorded.
UnmadeAt(c) ==
  ~conn[c].born => Hidden(c) /\ \A t \in Threads : thread[t].arg # c
Unmade == \A c \in Conns : UnmadeAt(c)
LeakedAt(c) ==
  conn[c].leaked =>
    /\ Hidden(c) /\ ~conn[c].arrived
    /\ \A t \in Threads :
         thread[t].arg = c => thread[t].at \in {"close", "notify", "update", "unref"}
Leaked == \A c \in Conns : LeakedAt(c)
MakingAt(t) ==
  thread[t].at = "record" =>
    /\ Hidden(thread[t].arg)
    /\ ~conn[thread[t].arg].leaked /\ conn[thread[t].arg].link
    /\ \A u \in Threads : thread[u].arg = thread[t].arg => u = t
Making == \A t \in Threads : MakingAt(t)

Recorded(c) == \A t \in Threads : thread[t].arg = c => thread[t].at # "record"

\* libdbus keeps its reference until Disconnected is processed.
KeptAt(c) ==
  conn[c].born /\ ~conn[c].leaked /\ Recorded(c) /\ ~conn[c].processed => Shared(c)
Kept == \A c \in Conns : KeptAt(c)
ForgettingAt(t) ==
  thread[t].at = "forget" =>
    /\ conn[thread[t].arg].processed /\ Shared(thread[t].arg)
    /\ \A u \in Threads :
         thread[u].at = "forget" /\ thread[u].arg = thread[t].arg => u = t
Forgetting == \A t \in Threads : ForgettingAt(t)
FinalizingAt(t) ==
  thread[t].at = "finalize" =>
    ~Shared(thread[t].arg) /\ ~conn[thread[t].arg].leaked /\ conn[thread[t].arg].processed
Finalizing == (\A t \in Threads : FinalizingAt(t)) /\ crash # "finalized too soon"

Tabled == table # None => conn[table].guid

\* With the bus lock the weak reference is cleared in time.
Weak ==
  /\ slot # None => conn[slot].link
  /\ \A t \in Threads : thread[t].at \in {"store", "mark"} => conn[thread[t].arg].link
  /\ \A c \in Conns : conn[c].freed => conn[c].refs = 0
  /\ \A t \in Threads : thread[t].at = "finalize" => conn[thread[t].arg].refs = 0

SInv == TypeOK /\ Placed /\ Lived /\ Unmade /\ Leaked /\ Making /\ Kept /\ Forgetting /\ Finalizing /\ Tabled
IInv == SInv /\ Counted /\ (BusLocked => Weak)

-----------------------------------------------------------------------------
(***************************************************************************)
(* References, counted.                                                    *)
(***************************************************************************)
One(b) == IF b THEN 1 ELSE 0

\* Integers, for the proofs without arithmetic.
LEMMA Counting ==
  1 \in Int /\ \A n \in Int : n + 1 \in Int /\ n - 1 \in Int
OBVIOUS

\* Sets that differ in one thread at most.
LEMMA DifferInOne ==
  ASSUME NEW S, IsFiniteSet(S), NEW t \in S, NEW A \in SUBSET S, NEW B \in SUBSET S,
         \A u \in S : u # t => (u \in A <=> u \in B)
  PROVE  /\ Cardinality(A) \in Nat /\ Cardinality(B) \in Nat
         /\ Cardinality(B) + One(t \in A) = Cardinality(A) + One(t \in B)
<1>1. IsFiniteSet(A) /\ IsFiniteSet(B)
  BY FS_Subset, Zenon
<1>2. Cardinality(A) \in Nat /\ Cardinality(B) \in Nat
  BY <1>1, FS_CardinalityType, Zenon
<1>3. CASE t \in A <=> t \in B
  <2>1. A = B
    BY <1>3, SMT
  <2> QED
    BY <2>1, <1>2, <1>3, Zenon DEF One
<1>4. CASE t \in A /\ t \notin B
  <2>1. B = A \ {t}
    BY <1>4, Zenon
  <2>2. Cardinality(B) = Cardinality(A) - 1
    BY <1>1, <1>4, <2>1, FS_RemoveElement, Zenon
  <2> QED
    BY <1>2, <1>4, <2>2 DEF One
<1>5. CASE t \notin A /\ t \in B
  <2>1. B = A \cup {t}
    BY <1>5, Zenon
  <2>2. Cardinality(B) = Cardinality(A) + 1
    BY <1>1, <1>5, <2>1, FS_AddElement, Zenon
  <2> QED
    BY <1>2, <1>5, <2>2 DEF One
<1> QED
  BY <1>3, <1>4, <1>5, Zenon

Works(p, a, c) == a = c /\ p \notin {"idle", "finalize"}
KeptByLibrary(c) == conn[c].guid \/ c \in noGuid \/ conn[c].leaked

\* A step of thread t leaves it at p with b, a and h.
ThreadIs(t, p, b, a, h) ==
  /\ thread' \in [Threads -> Thread]
  /\ thread'[t].at = p /\ thread'[t].busGet = b /\ thread'[t].arg = a /\ thread'[t].holds = h
  /\ \A u \in Threads : u # t => thread'[u] = thread[u]

OthersStay(k) ==
  /\ conn' \in [Conns -> Connection]
  /\ \A x \in Conns : x # k => conn'[x] = conn[x]

\* What Becomes does.
LEMMA BecomesIs ==
  ASSUME TypeOK, NEW t \in Threads, NEW r \in Thread, Becomes(t, r)
  PROVE  ThreadIs(t, r.at, r.busGet, r.arg, r.holds)
BY Zenon DEF TypeOK, ThreadIs, Becomes

\* What ConnBecomes does.
LEMMA ConnBecomesIs ==
  ASSUME TypeOK, NEW k \in Conns, NEW d \in Connection, ConnBecomes(k, d)
  PROVE  OthersStay(k) /\ conn'[k] = d
BY Zenon DEF TypeOK, OthersStay, ConnBecomes

\* One thread's step changes the number of references to a connection by what
\* it changes in that thread and in the library.
LEMMA CountStep ==
  ASSUME IsFiniteSet(Threads), TypeOK, NEW t \in Threads, NEW p, NEW b, NEW a, NEW h,
         ThreadIs(t, p, b, a, h), NEW c \in Conns
  PROVE  /\ References(c) \in Int /\ References(c)' \in Int
         /\ References(c)' = References(c)
              + One(c \in thread'[t].holds) - One(c \in thread[t].holds)
              + One(Works(thread'[t].at, thread'[t].arg, c)) - One(Works(thread[t].at, thread[t].arg, c))
              + One(KeptByLibrary(c)') - One(KeptByLibrary(c))
<1> DEFINE H == {u \in Threads : c \in thread[u].holds}
           W == {u \in Threads : Arg(u) = c /\ thread[u].at \notin {"idle", "finalize"}}
           H2 == {u \in Threads : c \in thread'[u].holds}
           W2 == {u \in Threads : thread'[u].arg = c /\ thread'[u].at \notin {"idle", "finalize"}}
<1>1. /\ Cardinality(H) \in Nat /\ Cardinality(H2) \in Nat
      /\ Cardinality(H2) + One(t \in H) = Cardinality(H) + One(t \in H2)
  <2>1. \A u \in Threads : u # t => (u \in H <=> u \in H2)
    BY Zenon DEF ThreadIs
  <2>2. H \in SUBSET Threads /\ H2 \in SUBSET Threads
    BY Zenon
  <2> HIDE DEF H, H2
  <2> QED
    BY <2>1, <2>2, DifferInOne, SMT
<1>2. /\ Cardinality(W) \in Nat /\ Cardinality(W2) \in Nat
      /\ Cardinality(W2) + One(t \in W) = Cardinality(W) + One(t \in W2)
  <2>1. \A u \in Threads : u # t => (u \in W <=> u \in W2)
    BY Zenon DEF ThreadIs, Arg
  <2>2. W \in SUBSET Threads /\ W2 \in SUBSET Threads
    BY Zenon
  <2> HIDE DEF W, W2
  <2> QED
    BY <2>1, <2>2, DifferInOne, SMT
<1>3. References(c) = Cardinality(H) + Cardinality(W) + One(KeptByLibrary(c))
  BY Zenon DEF References, One, KeptByLibrary
<1>4. References(c)' = Cardinality(H2) + Cardinality(W2) + One(KeptByLibrary(c)')
  BY Zenon DEF References, One, KeptByLibrary, Arg
<1>5. /\ t \in H <=> c \in thread[t].holds
      /\ t \in H2 <=> c \in thread'[t].holds
      /\ t \in W <=> Works(thread[t].at, thread[t].arg, c)
      /\ t \in W2 <=> Works(thread'[t].at, thread'[t].arg, c)
  BY Zenon DEF Works, Arg, ThreadIs
<1> HIDE DEF H, H2, W, W2
<1>6. /\ One(t \in H) = One(c \in thread[t].holds)
      /\ One(t \in H2) = One(c \in thread'[t].holds)
      /\ One(t \in W) = One(Works(thread[t].at, thread[t].arg, c))
      /\ One(t \in W2) = One(Works(thread'[t].at, thread'[t].arg, c))
  BY <1>5, Zenon DEF One
<1>7. \A x : One(x) \in {0, 1}
  BY Zenon DEF One
<1> QED
  BY <1>1, <1>2, <1>3, <1>4, <1>6, <1>7

\* A thread that holds a connection or works on it has a reference, and so has
\* the library.
LEMMA References1 ==
  ASSUME IsFiniteSet(Threads), TypeOK, Counted, NEW c \in Conns
  PROVE  /\ conn[c].refs >= One(KeptByLibrary(c))
         /\ \A t \in Threads :
              c \in thread[t].holds \/ Works(thread[t].at, thread[t].arg, c)
                => conn[c].refs >= 1 + One(KeptByLibrary(c))
<1> DEFINE H == {u \in Threads : c \in thread[u].holds}
           W == {u \in Threads : Arg(u) = c /\ thread[u].at \notin {"idle", "finalize"}}
<1>1. conn[c].refs = Cardinality(H) + Cardinality(W) + One(KeptByLibrary(c))
  BY Zenon DEF References, One, KeptByLibrary, Counted
<1>2. IsFiniteSet(H) /\ IsFiniteSet(W)
  BY FS_Subset, Zenon
<1>3. \A t \in Threads : /\ c \in thread[t].holds => t \in H
                         /\ Works(thread[t].at, thread[t].arg, c) => t \in W
  BY Zenon DEF Works, Arg
<1> HIDE DEF H, W
<1>4. Cardinality(H) \in Nat /\ Cardinality(W) \in Nat
  BY <1>2, FS_CardinalityType, Zenon
<1>5. /\ H # {} => Cardinality(H) # 0
      /\ W # {} => Cardinality(W) # 0
  BY <1>2, FS_EmptySet, Zenon
<1>6. One(KeptByLibrary(c)) \in {0, 1}
  BY Zenon DEF One
<1>7. \A t \in Threads :
        c \in thread[t].holds \/ Works(thread[t].at, thread[t].arg, c)
          => Cardinality(H) # 0 \/ Cardinality(W) # 0
  BY <1>3, <1>5, Zenon
<1> QED
  BY <1>1, <1>4, <1>6, <1>7


\* What a step does to the references to c: nothing, one is gained, one is lost,
\* or the working reference becomes the thread's own.
Balanced(t, c) ==
  LET H  == c \in thread[t].holds
      H2 == c \in thread'[t].holds
      W  == Works(thread[t].at, thread[t].arg, c)
      W2 == Works(thread'[t].at, thread'[t].arg, c)
      K  == KeptByLibrary(c)
      K2 == KeptByLibrary(c)'
      Gains(x, x2) == ~x /\ x2
      Stays(x, x2) == x <=> x2
      Moved == Gains(W2, W) /\ Gains(H, H2)
  IN  \/ /\ conn'[c].refs = conn[c].refs /\ Stays(K, K2)
         /\ (Stays(H, H2) /\ Stays(W, W2)) \/ Moved
      \/ /\ conn'[c].refs = conn[c].refs + 1
         /\ \/ Gains(H, H2) /\ Stays(W, W2) /\ Stays(K, K2)
            \/ Stays(H, H2) /\ Gains(W, W2) /\ Stays(K, K2)
            \/ ((Stays(H, H2) /\ Stays(W, W2)) \/ Moved) /\ Gains(K, K2)
      \/ /\ conn'[c].refs = conn[c].refs - 1
         /\ \/ Gains(H2, H) /\ Stays(W, W2) /\ Stays(K, K2)
            \/ Stays(H, H2) /\ Gains(W2, W) /\ Stays(K, K2)
            \/ Stays(H, H2) /\ Stays(W, W2) /\ Gains(K2, K)

\* A step that is balanced keeps the count of a connection.
LEMMA BalanceKeeps ==
  ASSUME IsFiniteSet(Threads), TypeOK, Counted, NEW t \in Threads,
         NEW p, NEW b, NEW a, NEW h, ThreadIs(t, p, b, a, h), NEW c \in Conns, Balanced(t, c)
  PROVE  conn'[c].refs = References(c)'
<1>1. conn[c].refs = References(c)
  BY Zenon DEF Counted
<1>2. /\ References(c) \in Int /\ References(c)' \in Int
      /\ References(c)' = References(c)
           + One(c \in thread'[t].holds) - One(c \in thread[t].holds)
           + One(Works(thread'[t].at, thread'[t].arg, c)) - One(Works(thread[t].at, thread[t].arg, c))
           + One(KeptByLibrary(c)') - One(KeptByLibrary(c))
  BY CountStep, Zenon
<1> QED
  BY <1>1, <1>2 DEF Balanced, One

-----------------------------------------------------------------------------
(***************************************************************************)
(* What a step of thread t on connection k guarantees to the other threads *)
(* and to the other connections; k is None when it is on none.             *)
(***************************************************************************)
\* t has a way to k.
Reaches(t, k) ==
  k = thread[t].arg \/ k \in thread[t].holds \/ k = slot \/ Shared(k) \/ ~conn[k].born

\* What happens to the connection itself.
Ages(t, k) ==
  /\ conn'[k].born
  /\ conn'[k].connected => conn[k].connected \/ ~conn[k].born
  /\ conn'[k].link => conn[k].link
  /\ conn[k].link => \/ conn'[k].link
                     \/ thread[t].at = "notify" /\ (BusLocked => bus \in {None, t})
  /\ conn[k].processed => conn'[k].processed
  /\ Shared(k)' => Shared(k) \/ thread[t].at = "record"
  /\ Shared(k) => Shared(k)' \/ thread[t].at = "forget"
  /\ conn'[k].leaked => conn[k].leaked \/ thread[t].at = "record"
  /\ BusLocked => conn'[k].refs = conn[k].refs \/ conn[k].refs >= 1 \/ ~conn[k].born

Step(t, k) ==
  /\ TypeOK'
  /\ \A u \in Threads : u # t => thread'[u] = thread[u]
  /\ \A c \in Conns : c # k => /\ conn'[c] = conn[c] /\ (c \in noGuid' <=> c \in noGuid)
                               /\ c \in thread'[t].holds <=> c \in thread[t].holds
  /\ thread[t].arg \in {None, k} /\ thread'[t].arg \in {None, k}
  /\ bus' = bus \/ bus \in {None, t}
  /\ (pool' = pool /\ table' = table) \/ pool \in {None, t}
  /\ slot' \in {slot, None} \/ (thread[t].at = "store" /\ slot' = k)
  /\ k # None => Reaches(t, k) /\ Ages(t, k)
  /\ thread'[t].at = "forget" => k # None /\ ~conn[k].processed

\* What is left to show for t and k themselves.
OwnThread(t) == PlacedAt(t) /\ MakingAt(t) /\ ForgettingAt(t) /\ FinalizingAt(t)
OwnConn(k) == LivedAt(k) /\ LeakedAt(k) /\ KeptAt(k) /\ conn[k].refs = References(k)
OwnWeak(t, k) ==
  /\ slot = k => conn[k].link
  /\ thread[t].at \in {"store", "mark"} => conn[k].link
  /\ conn[k].freed => conn[k].refs = 0
  /\ thread[t].at = "finalize" => conn[k].refs = 0

\* The connection that another thread has.
LEMMA OtherThread ==
  ASSUME SharedAssumption, IInv, NEW t \in Threads, NEW k \in Conns \cup {None}, Step(t, k),
         NEW u \in Threads, u # t
  PROVE  OwnThread(u)'
<1> USE DEF IInv, SInv
<1>1. /\ thread'[u] = thread[u]
      /\ PlacedAt(u) /\ MakingAt(u) /\ ForgettingAt(u) /\ FinalizingAt(u)
      /\ PlacedAt(t) /\ MakingAt(t)
  BY Zenon DEF Step, Placed, Making, Forgetting, Finalizing
<1>2. PICK a \in Conns \cup {None} : a = thread[u].arg
  BY Zenon DEF TypeOK, Thread
<1>3. \A c \in thread[u].holds : c \in Conns /\ conn[c].born
  BY Zenon DEF TypeOK, Thread, Unmade, UnmadeAt, Hidden
<1>4. a # None => conn[a].born
  BY <1>2, Zenon DEF Unmade, UnmadeAt
<1>5. /\ \A c \in Conns : conn[c].born /\ conn'[c].connected => conn[c].connected
      /\ \A c \in Conns : conn'[c].link => conn[c].link
      /\ \A c \in Conns : conn[c].processed => conn'[c].processed
  BY Zenon DEF Step, Ages, SharedAssumption
<1>s. \A c \in Conns : c # k => (Shared(c)' <=> Shared(c))
  BY Zenon DEF Step, Shared
<1>6. PlacedAt(u)'
  <2>1. thread[u].busGet => bus' = u
    BY <1>1, Zenon DEF PlacedAt, Step, SharedAssumption
  <2>2. thread[u].at = "peek" => pool' = u /\ table' # None
    BY <1>1, Zenon DEF PlacedAt, Step, SharedAssumption
  <2> QED
    BY <1>1, <1>2, <1>3, <1>4, <1>5, <2>1, <2>2, Zenon DEF PlacedAt
<1>7. MakingAt(u)'
  <2> SUFFICES ASSUME thread[u].at = "record" PROVE MakingAt(u)'
    BY <1>1, Zenon DEF MakingAt
  <2>1. a \in Conns /\ Hidden(a) /\ \A v \in Threads : thread[v].arg = a => v = u
    BY <1>1, <1>2, Zenon DEF MakingAt, PlacedAt
  <2>2. a # k
    BY <1>4, <2>1, Zenon DEF Step, Reaches, Hidden, SharedAssumption
  <2>3. Hidden(a)' /\ \A v \in Threads : thread'[v].arg = a => v = u
    BY <1>1, <1>s, <2>1, <2>2, ZenonT(40) DEF Step, Hidden, SharedAssumption
  <2> QED
    BY <1>1, <1>2, <2>1, <2>2, <2>3, ZenonT(40) DEF MakingAt, Step
<1>8. ForgettingAt(u)'
  <2> SUFFICES ASSUME thread[u].at = "forget" PROVE ForgettingAt(u)'
    BY <1>1, Zenon DEF ForgettingAt
  <2>1. /\ a \in Conns /\ conn[a].processed /\ Shared(a)
        /\ \A v \in Threads : thread[v].at = "forget" /\ thread[v].arg = a => v = u
    BY <1>1, <1>2, Zenon DEF ForgettingAt, PlacedAt
  <2>2. Shared(a)'
    <3>1. CASE a # k
      BY <1>s, <2>1, <3>1, Zenon
    <3>2. CASE a = k
      <4>1. thread[t].at = "forget" => thread[t].arg = k
        BY <1>1, Zenon DEF Step, PlacedAt
      <4> QED
        BY <2>1, <3>2, <4>1, Zenon DEF Step, Ages, SharedAssumption
    <3> QED
      BY <3>1, <3>2, Zenon
  <2>3. \A v \in Threads : thread'[v].at = "forget" /\ thread'[v].arg = a => v = u
    BY <2>1, ZenonT(40) DEF Step, SharedAssumption
  <2> QED
    BY <1>1, <1>2, <1>5, <2>1, <2>2, <2>3, Zenon DEF ForgettingAt
<1>9. FinalizingAt(u)'
  <2> SUFFICES ASSUME thread[u].at = "finalize" PROVE FinalizingAt(u)'
    BY <1>1, Zenon DEF FinalizingAt
  <2>1. a \in Conns /\ ~Shared(a) /\ ~conn[a].leaked /\ conn[a].processed
    BY <1>1, <1>2, Zenon DEF FinalizingAt, PlacedAt
  <2>2. a = k => thread[t].at # "record"
    BY <1>1, <1>2, <2>1, Zenon DEF Step, PlacedAt, MakingAt
  <2>3. ~Shared(a)' /\ ~conn'[a].leaked
    BY <1>s, <2>1, <2>2, Zenon DEF Step, Ages, SharedAssumption
  <2> QED
    BY <1>1, <1>2, <1>5, <2>1, <2>3, Zenon DEF FinalizingAt
<1> QED
  BY <1>6, <1>7, <1>8, <1>9, Zenon DEF OwnThread

\* The connections that the step does not touch, and k as far as it was made.
LEMMA OtherConn ==
  ASSUME SharedAssumption, IInv, NEW t \in Threads, NEW k \in Conns \cup {None}, Step(t, k),
         NEW c \in Conns, c # k
  PROVE  OwnConn(c)' /\ UnmadeAt(c)'
<1> USE DEF IInv, SInv
<1>1. /\ conn'[c] = conn[c] /\ (Shared(c)' <=> Shared(c))
      /\ LivedAt(c) /\ UnmadeAt(c) /\ LeakedAt(c) /\ KeptAt(c)
  BY Zenon DEF Step, Shared, Lived, Unmade, Leaked, Kept
<1>2. \A u \in Threads : thread[u].arg = c => u # t /\ thread'[u] = thread[u]
  BY Zenon DEF Step, SharedAssumption
<1>3. \A u \in Threads : thread'[u].arg = c => u # t /\ thread'[u] = thread[u]
  BY Zenon DEF Step, SharedAssumption
<1>4. Hidden(c) => Hidden(c)'
  BY <1>1, Zenon DEF Hidden, Step, SharedAssumption
<1>5. LivedAt(c)'
  BY <1>1, Zenon DEF LivedAt
<1>6. UnmadeAt(c)' /\ LeakedAt(c)'
  BY <1>1, <1>3, <1>4, Zenon DEF UnmadeAt, LeakedAt
<1>7. KeptAt(c)'
  BY <1>1, <1>2, Zenon DEF KeptAt, Recorded
<1>8. ThreadIs(t, thread'[t].at, thread'[t].busGet, thread'[t].arg, thread'[t].holds)
  BY Zenon DEF Step, ThreadIs, TypeOK
<1>9. Balanced(t, c)
  BY <1>1, <1>2, <1>3, Zenon DEF Balanced, Step, Works, KeptByLibrary, Shared
<1>10. conn'[c].refs = References(c)'
  BY <1>8, <1>9, BalanceKeeps, Zenon DEF SharedAssumption
<1> QED
  BY <1>5, <1>6, <1>7, <1>10, Zenon DEF OwnConn

\* The weak reference of dbus-bus.c, when t is done with k.
LEMMA OthersWeak ==
  ASSUME SharedAssumption, IInv, BusLocked, NEW t \in Threads, NEW k \in Conns \cup {None},
         Step(t, k), PlacedAt(t)',
         k # None => OwnWeak(t, k)'
  PROVE  Weak'
<1> USE DEF IInv, SInv
<1>1. Weak /\ \A u \in Threads : PlacedAt(u)
  BY Zenon DEF Placed
<1>2. slot' # None => conn'[slot'].link
  <2>1. PICK s \in Conns \cup {None} : s = slot'
    BY Zenon DEF Step, TypeOK
  <2>2. CASE s = k
    BY <2>1, <2>2, Zenon DEF OwnWeak
  <2>3. CASE s # k
    BY <1>1, <2>1, <2>3, Zenon DEF Step, Weak
  <2> QED
    BY <2>2, <2>3, Zenon
<1>3. ASSUME NEW c \in Conns, conn'[c].freed PROVE conn'[c].refs = 0
  BY <1>1, <1>3, Zenon DEF Step, Weak, OwnWeak, SharedAssumption
<1>4. ASSUME NEW u \in Threads
      PROVE  /\ thread'[u].at \in {"store", "mark"} => conn'[thread'[u].arg].link
             /\ thread'[u].at = "finalize" => conn'[thread'[u].arg].refs = 0
  <2>1. CASE u = t
    <3>1. thread'[t].at \in {"store", "mark", "finalize"} => thread'[t].arg = k /\ k # None
      BY Zenon DEF Step, PlacedAt
    <3> QED
      BY <2>1, <3>1, Zenon DEF OwnWeak
  <2>2. CASE u # t
    <3>1. PICK a \in Conns \cup {None} : a = thread[u].arg /\ thread'[u] = thread[u]
      BY <2>2, Zenon DEF TypeOK, Thread, Step
    <3>2. thread[u].at \in {"store", "mark", "finalize"} => a \in Conns /\ conn[a].born
      BY <1>1, <3>1, Zenon DEF PlacedAt, Unmade, UnmadeAt
    <3>3. thread[u].at \in {"store", "mark"} => conn'[a].link
      BY <1>1, <2>2, <3>1, <3>2 DEF PlacedAt, Weak, Step, Ages, SharedAssumption
    <3>4. thread[u].at = "finalize" => conn'[a].refs = 0
      BY <1>1, <2>2, <3>1, <3>2 DEF Weak, Step, Ages, SharedAssumption
    <3> QED
      BY <3>1, <3>3, <3>4, Zenon
  <2> QED
    BY <2>1, <2>2, Zenon
<1> QED
  BY <1>2, <1>3, <1>4, Zenon DEF Weak

\* So an action has to show no more than Step and what its own thread and its
\* own connection become.
LEMMA StepKeeps ==
  ASSUME SharedAssumption, IInv, NEW t \in Threads, NEW k \in Conns \cup {None}, Step(t, k),
         OwnThread(t)', Tabled', crash' # "finalized too soon",
         k # None => OwnConn(k)', BusLocked /\ k # None => OwnWeak(t, k)'
  PROVE  IInv'
<1>1. \A u \in Threads : OwnThread(u)'
  BY OtherThread, Zenon
<1>2. \A c \in Conns : OwnConn(c)' /\ UnmadeAt(c)'
  <2>1. k # None => UnmadeAt(k)'
    BY Zenon DEF Step, Ages, UnmadeAt
  <2>2. ASSUME NEW c \in Conns PROVE OwnConn(c)' /\ UnmadeAt(c)'
    <3>1. CASE c = k
      BY <2>1, <3>1, Zenon DEF SharedAssumption
    <3>2. CASE c # k
      BY <3>2, OtherConn, Zenon
    <3> QED
      BY <3>1, <3>2, Zenon
  <2> QED
    BY <2>2, Zenon
<1>3. Placed' /\ Making' /\ Forgetting' /\ Finalizing'
  BY <1>1, Zenon DEF OwnThread, Placed, Making, Forgetting, Finalizing
<1>4. Lived' /\ Unmade' /\ Leaked' /\ Kept' /\ Counted'
  BY <1>2, Zenon DEF OwnConn, Lived, Unmade, Leaked, Kept, Counted
<1>5. TypeOK'
  BY Zenon DEF Step
<1>6. BusLocked => Weak'
  BY OthersWeak, Zenon DEF OwnThread
<1> QED
  BY <1>3, <1>4, <1>5, <1>6, Zenon DEF IInv, SInv

-----------------------------------------------------------------------------
(***************************************************************************)
(* One lemma for each action.  Its proof says what the action does to its  *)
(* thread and to its connection, then that this is a Step, and then what   *)
(* becomes of the thread and of the connection.                            *)
(***************************************************************************)
\* dbus_connection_open begins: nothing is touched.
LEMMA DbusConnectionOpenKeeps ==
  ASSUME SharedAssumption, IInv, NEW t \in Threads, DbusConnectionOpen(t)
  PROVE  IInv'
<1> USE DEF IInv, SInv
<1>1. /\ thread[t].at = "idle"
      /\ \A c \in thread[t].holds : ~conn[c].connected
      /\ crash = "none"
      /\ hasGuid' = hasGuid
      /\ table' = table
      /\ noGuid' = noGuid
      /\ slot' = slot
      /\ bus' = bus
      /\ pool' = pool
      /\ crash' = crash
  BY DbusConnectionOpen(t), Zenon DEF DbusConnectionOpen, MayOpen, At, Go, Becomes
<1>2. thread[t] \in Thread
  BY Zenon DEF TypeOK
<1>3. ThreadIs(t, "lookup", thread[t].busGet, thread[t].arg, thread[t].holds)
  <2> DEFINE r == [thread[t] EXCEPT !.at = "lookup"]
  <2>1. Becomes(t, r)
    BY DbusConnectionOpen(t), Zenon DEF DbusConnectionOpen, MayOpen, At, Go
  <2>2. r \in Thread
    BY <1>1, <1>2, Zenon DEF Thread, Places, Idle, TypeOK
  <2>3. r.at = ("lookup") /\ r.busGet = thread[t].busGet /\ r.arg = thread[t].arg /\ r.holds = thread[t].holds
    BY <1>1, <1>2, Zenon DEF Thread, Idle
  <2> HIDE DEF r
  <2> QED
    BY <2>1, <2>2, <2>3, BecomesIs, Zenon
<1>4. conn' = conn
  BY DbusConnectionOpen(t), Zenon DEF DbusConnectionOpen, MayOpen, At, Go, Becomes
<1>5. TypeOK'
  BY <1>1, <1>3, <1>4, Zenon DEF ThreadIs, TypeOK
<1>6. OwnThread(t)
  BY Zenon DEF OwnThread, Placed, Making, Forgetting, Finalizing
<1>7. thread[t].arg \in {None, None} /\ thread'[t].arg \in {None, None}
  BY <1>1, <1>3, <1>6, Zenon DEF OwnThread, PlacedAt, ThreadIs
<1>8. /\ bus' = bus \/ bus \in {None, t}
      /\ (pool' = pool /\ table' = table) \/ pool \in {None, t}
      /\ slot' \in {slot, None} \/ (thread[t].at = "store" /\ slot' = None)
  BY <1>1, Zenon
<1>9. Step(t, None)
  BY <1>1, <1>3, <1>4, <1>5, <1>7, <1>8, Zenon DEF Step, ThreadIs
<1>10. OwnThread(t)'
  <2>1. PlacedAt(t)'
    BY <1>1, <1>3, <1>4, <1>6, Zenon DEF OwnThread, ThreadIs, PlacedAt, LivedAt, MakingAt,
       Hidden, SharedAssumption
  <2>2. MakingAt(t)'
    BY <1>1, <1>3, <1>4, <1>6, Zenon DEF OwnThread, ThreadIs, MakingAt, Hidden, SharedAssumption
  <2>3. ForgettingAt(t)'
    BY <1>1, <1>3, <1>4, <1>6, Zenon DEF OwnThread, ThreadIs, ForgettingAt, SharedAssumption
  <2>4. FinalizingAt(t)'
    BY <1>1, <1>3, <1>4, <1>6, Zenon DEF OwnThread, ThreadIs, FinalizingAt, SharedAssumption
  <2> QED
    BY <2>1, <2>2, <2>3, <2>4, Zenon DEF OwnThread
<1>11. Tabled'
  BY <1>1, <1>4, Zenon DEF Tabled, TypeOK
<1> QED
  BY <1>1, <1>9, <1>10, <1>11, StepKeeps, Zenon DEF SharedAssumption

\* dbus_bus_get finds the connection to the bus, or takes the bus lock and looks on.
LEMMA DbusBusGetKeeps ==
  ASSUME SharedAssumption, IInv, NEW t \in Threads, DbusBusGet(t)
  PROVE  IInv'
<1> USE DEF IInv, SInv
<1>1. CASE slot # None
  <2>1. slot \in Conns
    BY <1>1, DbusBusGet(t), Zenon DEF DbusBusGet, MayOpen, At, Return, Becomes, ConnBecomes,
       Idle, TypeOK, Thread, Placed, PlacedAt
  <2>2. PICK k \in Conns : k = slot
    BY <2>1, Zenon
  <2>3. /\ thread[t].at = "idle"
        /\ k \notin thread[t].holds
        /\ slot = k
        /\ crash = "none"
        /\ hasGuid' = hasGuid
        /\ table' = table
        /\ noGuid' = noGuid
        /\ slot' = slot
        /\ bus' = bus
        /\ pool' = pool
        /\ crash' = crash
    BY <1>1, <2>2, DbusBusGet(t), Zenon DEF DbusBusGet, MayOpen, At, Return, Becomes,
       ConnBecomes, Idle
  <2>4. thread[t] \in Thread
    BY Zenon DEF TypeOK
  <2>5. ThreadIs(t, "idle", FALSE, None, thread[t].holds \cup {k})
    <3> DEFINE r == [Idle EXCEPT !.holds = thread[t].holds \cup {k}]
    <3>1. Becomes(t, r)
      BY <1>1, <2>2, DbusBusGet(t), Zenon DEF DbusBusGet, MayOpen, At, Return, Idle
    <3>2. r \in Thread
      BY <2>3, <2>4, <2>2, Zenon DEF Thread, Places, Idle, TypeOK
    <3>3. r.at = ("idle") /\ r.busGet = FALSE /\ r.arg = None /\ r.holds = thread[t].holds \cup {k}
      BY <1>1, <2>2, <2>3, <2>4, Zenon DEF Thread, Idle
    <3> HIDE DEF r
    <3> QED
      BY <3>1, <3>2, <3>3, BecomesIs, Zenon
  <2>6. /\ OthersStay(k)
        /\ conn'[k].refs = conn[k].refs + 1 /\ conn'[k].born = conn[k].born
        /\ conn'[k].freed = conn[k].freed /\ conn'[k].connected = conn[k].connected
        /\ conn'[k].link = conn[k].link /\ conn'[k].queued = conn[k].queued
        /\ conn'[k].arrived = conn[k].arrived /\ conn'[k].processed = conn[k].processed
        /\ conn'[k].guid = conn[k].guid /\ conn'[k].leaked = conn[k].leaked
    <3> DEFINE d == [conn[k] EXCEPT !.refs = @ + 1]
    <3>1. ConnBecomes(k, d)
      BY <1>1, <2>2, DbusBusGet(t), Zenon DEF DbusBusGet, MayOpen, At, Return, Idle
    <3>2. conn[k] \in Connection
      BY <2>2, Zenon DEF TypeOK
    <3>3. d \in Connection
      <4>1. conn[k].refs \in Int /\ hasGuid \in BOOLEAN
        BY <3>2, Zenon DEF TypeOK, Connection
      <4> QED
        BY <3>2, <4>1, Counting, Zenon DEF Connection
    <3>4. /\ d.refs = conn[k].refs + 1 /\ d.born = conn[k].born
          /\ d.freed = conn[k].freed /\ d.connected = conn[k].connected
          /\ d.link = conn[k].link /\ d.queued = conn[k].queued
          /\ d.arrived = conn[k].arrived /\ d.processed = conn[k].processed
          /\ d.guid = conn[k].guid /\ d.leaked = conn[k].leaked
      BY <3>2, Zenon DEF Connection
    <3> HIDE DEF d
    <3> QED
      BY <2>2, <3>1, <3>3, <3>4, ConnBecomesIs, Zenon
  <2>7. TypeOK'
    BY <2>2, <2>3, <2>5, <2>6, Zenon DEF ThreadIs, OthersStay, TypeOK
  <2>8. OwnThread(t) /\ LivedAt(k) /\ UnmadeAt(k) /\ LeakedAt(k) /\ KeptAt(k)
    BY <2>2, Zenon DEF OwnThread, Placed, Making, Forgetting, Finalizing, Lived, Unmade,
       Leaked, Kept
  <2>9. Reaches(t, k) /\ conn[k].born /\ ~conn[k].leaked
    BY <2>2, <2>3, <2>8, Zenon DEF OwnThread, PlacedAt, MakingAt, Reaches, UnmadeAt, LivedAt,
       LeakedAt, Hidden, Tabled, Shared, SharedAssumption
  <2>10. thread[t].arg \in {None, k} /\ thread'[t].arg \in {None, k}
    BY <2>3, <2>5, <2>8, Zenon DEF OwnThread, PlacedAt, ThreadIs
  <2>11. Shared(k)' <=> Shared(k)
    BY <2>2, <2>3, <2>6, Zenon DEF Shared
  <2>12. BusLocked => conn[k].refs >= 1
    BY <2>2, <2>3, <2>8, <2>9, References1 DEF OwnThread, Weak, KeptByLibrary, Works, One,
       Shared, PlacedAt, Tabled, KeptAt, LivedAt, LeakedAt, MakingAt, Hidden, Recorded,
       SharedAssumption
  <2>13. Ages(t, k)
    BY <2>3, <2>6, <2>8, <2>9, <2>11, <2>12, Zenon DEF Ages, LivedAt
  <2>14. /\ bus' = bus \/ bus \in {None, t}
         /\ (pool' = pool /\ table' = table) \/ pool \in {None, t}
         /\ slot' \in {slot, None} \/ (thread[t].at = "store" /\ slot' = k)
    BY <2>3, Zenon
  <2>15. Step(t, k)
    BY <2>2, <2>3, <2>5, <2>6, <2>7, <2>10, <2>14, <2>9, <2>13, Zenon DEF Step, ThreadIs,
       OthersStay
  <2>16. OwnThread(t)'
    <3>1. PlacedAt(t)'
      BY <2>2, <2>3, <2>5, <2>6, <2>8, <2>9, <2>11, Zenon DEF OwnThread, ThreadIs, OthersStay,
         PlacedAt, LivedAt, MakingAt, Hidden, SharedAssumption
    <3>2. MakingAt(t)'
      BY <2>2, <2>3, <2>5, <2>6, <2>8, <2>9, <2>11, Zenon DEF OwnThread, ThreadIs, OthersStay,
         MakingAt, Hidden, SharedAssumption
    <3>3. ForgettingAt(t)'
      BY <2>2, <2>3, <2>5, <2>6, <2>8, <2>9, <2>11, Zenon DEF OwnThread, ThreadIs, OthersStay,
         ForgettingAt, SharedAssumption
    <3>4. FinalizingAt(t)'
      BY <2>2, <2>3, <2>5, <2>6, <2>8, <2>9, <2>11, Zenon DEF OwnThread, ThreadIs, OthersStay,
         FinalizingAt, SharedAssumption
    <3> QED
      BY <3>1, <3>2, <3>3, <3>4, Zenon DEF OwnThread
  <2>17. OwnConn(k)'
    <3>1. LivedAt(k)'
      BY <2>3, <2>6, <2>8, <2>9, <2>11, Zenon DEF LivedAt, OwnThread, PlacedAt
    <3>2. LeakedAt(k)'
      BY <2>2, <2>3, <2>5, <2>6, <2>8, <2>9, <2>11, Zenon DEF LeakedAt
    <3>3. KeptAt(k)'
      BY <2>2, <2>3, <2>5, <2>6, <2>8, <2>9, <2>11, ZenonT(40) DEF KeptAt, OwnThread,
         ForgettingAt, Recorded, ThreadIs, LivedAt
    <3>4. Balanced(t, k)
      BY <2>2, <2>3, <2>5, <2>6, <2>8, <2>9, <2>11, Zenon DEF Balanced, Works, KeptByLibrary,
         Shared, OwnThread, PlacedAt, MakingAt, ThreadIs, Hidden, LivedAt, SharedAssumption
    <3>5. conn'[k].refs = References(k)'
      BY <2>2, <2>5, <3>4, BalanceKeeps, Zenon DEF SharedAssumption
    <3> QED
      BY <3>1, <3>2, <3>3, <3>5, Zenon DEF OwnConn
  <2>18. Tabled'
    BY <2>2, <2>3, <2>6, Zenon DEF Tabled, TypeOK, OthersStay
  <2>19. ASSUME BusLocked PROVE OwnWeak(t, k)'
    <3>1. (slot' = k => conn'[k].link) /\ (thread'[t].at \in {"store", "mark"} => conn'[k].link)
      BY <2>2, <2>19, <2>3, <2>5, <2>6, <2>8, <2>9, Zenon DEF Weak, OwnThread, PlacedAt,
         MakingAt, LivedAt, ThreadIs, Hidden, SharedAssumption
    <3>2. (conn'[k].freed => conn'[k].refs = 0) /\ (thread'[t].at = "finalize" => conn'[k].refs = 0)
      BY <2>2, <2>19, <2>3, <2>5, <2>6, <2>8, <2>9, <2>12 DEF Weak, LivedAt, ThreadIs
    <3> QED
      BY <3>1, <3>2, Zenon DEF OwnWeak
  <2> QED
    BY <2>2, <2>3, <2>15, <2>16, <2>18, <2>17, <2>19, StepKeeps, Zenon DEF SharedAssumption
<1>2. CASE slot = None
  <2>1. /\ thread[t].at = "idle"
        /\ bus = None
        /\ \A c \in thread[t].holds : ~conn[c].connected
        /\ crash = "none"
        /\ hasGuid' = hasGuid
        /\ table' = table
        /\ noGuid' = noGuid
        /\ slot' = slot
        /\ bus' = t
        /\ pool' = pool
        /\ crash' = crash
    BY <1>2, DbusBusGet(t), Zenon DEF DbusBusGet, MayOpen, At, Return, Becomes, ConnBecomes,
       Idle
  <2>2. thread[t] \in Thread
    BY Zenon DEF TypeOK
  <2>3. ThreadIs(t, "lookup", TRUE, thread[t].arg, thread[t].holds)
    <3> DEFINE r == [thread[t] EXCEPT !.at = "lookup", !.busGet = TRUE]
    <3>1. Becomes(t, r)
      BY <1>2, DbusBusGet(t), Zenon DEF DbusBusGet, MayOpen, At, Return, Idle
    <3>2. r \in Thread
      BY <2>1, <2>2, Zenon DEF Thread, Places, Idle, TypeOK
    <3>3. r.at = ("lookup") /\ r.busGet = TRUE /\ r.arg = thread[t].arg /\ r.holds = thread[t].holds
      BY <1>2, <2>1, <2>2, Zenon DEF Thread, Idle
    <3> HIDE DEF r
    <3> QED
      BY <3>1, <3>2, <3>3, BecomesIs, Zenon
  <2>4. conn' = conn
    BY <1>2, DbusBusGet(t), Zenon DEF DbusBusGet, MayOpen, At, Return, Becomes, ConnBecomes,
       Idle
  <2>5. TypeOK'
    BY <2>1, <2>3, <2>4, Zenon DEF ThreadIs, TypeOK
  <2>6. OwnThread(t)
    BY Zenon DEF OwnThread, Placed, Making, Forgetting, Finalizing
  <2>7. thread[t].arg \in {None, None} /\ thread'[t].arg \in {None, None}
    BY <2>1, <2>3, <2>6, Zenon DEF OwnThread, PlacedAt, ThreadIs
  <2>8. /\ bus' = bus \/ bus \in {None, t}
        /\ (pool' = pool /\ table' = table) \/ pool \in {None, t}
        /\ slot' \in {slot, None} \/ (thread[t].at = "store" /\ slot' = None)
    BY <2>1, Zenon
  <2>9. Step(t, None)
    BY <2>1, <2>3, <2>4, <2>5, <2>7, <2>8, Zenon DEF Step, ThreadIs
  <2>10. OwnThread(t)'
    <3>1. PlacedAt(t)'
      BY <2>1, <2>3, <2>4, <2>6, Zenon DEF OwnThread, ThreadIs, PlacedAt, LivedAt, MakingAt,
         Hidden, SharedAssumption
    <3>2. MakingAt(t)'
      BY <2>1, <2>3, <2>4, <2>6, Zenon DEF OwnThread, ThreadIs, MakingAt, Hidden,
         SharedAssumption
    <3>3. ForgettingAt(t)'
      BY <2>1, <2>3, <2>4, <2>6, Zenon DEF OwnThread, ThreadIs, ForgettingAt, SharedAssumption
    <3>4. FinalizingAt(t)'
      BY <2>1, <2>3, <2>4, <2>6, Zenon DEF OwnThread, ThreadIs, FinalizingAt, SharedAssumption
    <3> QED
      BY <3>1, <3>2, <3>3, <3>4, Zenon DEF OwnThread
  <2>11. Tabled'
    BY <2>1, <2>4, Zenon DEF Tabled, TypeOK
  <2> QED
    BY <2>1, <2>9, <2>10, <2>11, StepKeeps, Zenon DEF SharedAssumption
<1> QED
  BY <1>1, <1>2, DbusBusGet(t), Zenon DEF DbusBusGet, MayOpen, At, Return, Becomes,
     ConnBecomes, Idle

\* connection_lookup_shared takes the lock of the table when there is something in it.
LEMMA LookupSharedKeeps ==
  ASSUME SharedAssumption, IInv, NEW t \in Threads, LookupShared(t)
  PROVE  IInv'
<1> USE DEF IInv, SInv
<1>1. CASE hasGuid /\ table # None
  <2>1. /\ thread[t].at = "lookup"
        /\ table # None
        /\ pool = None
        /\ crash = "none"
        /\ hasGuid' = hasGuid
        /\ table' = table
        /\ noGuid' = noGuid
        /\ slot' = slot
        /\ bus' = bus
        /\ pool' = t
        /\ crash' = crash
    BY <1>1, LookupShared(t), Zenon DEF LookupShared, At, Go, Becomes
  <2>2. thread[t] \in Thread
    BY Zenon DEF TypeOK
  <2>3. ThreadIs(t, "peek", thread[t].busGet, thread[t].arg, thread[t].holds)
    <3> DEFINE r == [thread[t] EXCEPT !.at = "peek"]
    <3>1. Becomes(t, r)
      BY <1>1, LookupShared(t), Zenon DEF LookupShared, At, Go
    <3>2. r \in Thread
      BY <2>1, <2>2, Zenon DEF Thread, Places, Idle, TypeOK
    <3>3. r.at = ("peek") /\ r.busGet = thread[t].busGet /\ r.arg = thread[t].arg /\ r.holds = thread[t].holds
      BY <1>1, <2>1, <2>2, Zenon DEF Thread, Idle
    <3> HIDE DEF r
    <3> QED
      BY <3>1, <3>2, <3>3, BecomesIs, Zenon
  <2>4. conn' = conn
    BY <1>1, LookupShared(t), Zenon DEF LookupShared, At, Go, Becomes
  <2>5. TypeOK'
    BY <2>1, <2>3, <2>4, Zenon DEF ThreadIs, TypeOK
  <2>6. OwnThread(t)
    BY Zenon DEF OwnThread, Placed, Making, Forgetting, Finalizing
  <2>7. thread[t].arg \in {None, None} /\ thread'[t].arg \in {None, None}
    BY <2>1, <2>3, <2>6, Zenon DEF OwnThread, PlacedAt, ThreadIs
  <2>8. /\ bus' = bus \/ bus \in {None, t}
        /\ (pool' = pool /\ table' = table) \/ pool \in {None, t}
        /\ slot' \in {slot, None} \/ (thread[t].at = "store" /\ slot' = None)
    BY <2>1, Zenon
  <2>9. Step(t, None)
    BY <2>1, <2>3, <2>4, <2>5, <2>7, <2>8, Zenon DEF Step, ThreadIs
  <2>10. OwnThread(t)'
    <3>1. PlacedAt(t)'
      BY <2>1, <2>3, <2>4, <2>6, Zenon DEF OwnThread, ThreadIs, PlacedAt, LivedAt, MakingAt,
         Hidden, SharedAssumption
    <3>2. MakingAt(t)'
      BY <2>1, <2>3, <2>4, <2>6, Zenon DEF OwnThread, ThreadIs, MakingAt, Hidden,
         SharedAssumption
    <3>3. ForgettingAt(t)'
      BY <2>1, <2>3, <2>4, <2>6, Zenon DEF OwnThread, ThreadIs, ForgettingAt, SharedAssumption
    <3>4. FinalizingAt(t)'
      BY <2>1, <2>3, <2>4, <2>6, Zenon DEF OwnThread, ThreadIs, FinalizingAt, SharedAssumption
    <3> QED
      BY <3>1, <3>2, <3>3, <3>4, Zenon DEF OwnThread
  <2>11. Tabled'
    BY <2>1, <2>4, Zenon DEF Tabled, TypeOK
  <2> QED
    BY <2>1, <2>9, <2>10, <2>11, StepKeeps, Zenon DEF SharedAssumption
<1>2. CASE ~(hasGuid /\ table # None)
  <2>1. /\ thread[t].at = "lookup"
        /\ crash = "none"
        /\ hasGuid' = hasGuid
        /\ table' = table
        /\ noGuid' = noGuid
        /\ slot' = slot
        /\ bus' = bus
        /\ pool' = pool
        /\ crash' = crash
    BY <1>2, LookupShared(t), Zenon DEF LookupShared, At, Go, Becomes
  <2>2. thread[t] \in Thread
    BY Zenon DEF TypeOK
  <2>3. ThreadIs(t, "create", thread[t].busGet, thread[t].arg, thread[t].holds)
    <3> DEFINE r == [thread[t] EXCEPT !.at = "create"]
    <3>1. Becomes(t, r)
      BY <1>2, LookupShared(t), Zenon DEF LookupShared, At, Go
    <3>2. r \in Thread
      BY <2>1, <2>2, Zenon DEF Thread, Places, Idle, TypeOK
    <3>3. r.at = ("create") /\ r.busGet = thread[t].busGet /\ r.arg = thread[t].arg /\ r.holds = thread[t].holds
      BY <1>2, <2>1, <2>2, Zenon DEF Thread, Idle
    <3> HIDE DEF r
    <3> QED
      BY <3>1, <3>2, <3>3, BecomesIs, Zenon
  <2>4. conn' = conn
    BY <1>2, LookupShared(t), Zenon DEF LookupShared, At, Go, Becomes
  <2>5. TypeOK'
    BY <2>1, <2>3, <2>4, Zenon DEF ThreadIs, TypeOK
  <2>6. OwnThread(t)
    BY Zenon DEF OwnThread, Placed, Making, Forgetting, Finalizing
  <2>7. thread[t].arg \in {None, None} /\ thread'[t].arg \in {None, None}
    BY <2>1, <2>3, <2>6, Zenon DEF OwnThread, PlacedAt, ThreadIs
  <2>8. /\ bus' = bus \/ bus \in {None, t}
        /\ (pool' = pool /\ table' = table) \/ pool \in {None, t}
        /\ slot' \in {slot, None} \/ (thread[t].at = "store" /\ slot' = None)
    BY <2>1, Zenon
  <2>9. Step(t, None)
    BY <2>1, <2>3, <2>4, <2>5, <2>7, <2>8, Zenon DEF Step, ThreadIs
  <2>10. OwnThread(t)'
    <3>1. PlacedAt(t)'
      BY <2>1, <2>3, <2>4, <2>6, Zenon DEF OwnThread, ThreadIs, PlacedAt, LivedAt, MakingAt,
         Hidden, SharedAssumption
    <3>2. MakingAt(t)'
      BY <2>1, <2>3, <2>4, <2>6, Zenon DEF OwnThread, ThreadIs, MakingAt, Hidden,
         SharedAssumption
    <3>3. ForgettingAt(t)'
      BY <2>1, <2>3, <2>4, <2>6, Zenon DEF OwnThread, ThreadIs, ForgettingAt, SharedAssumption
    <3>4. FinalizingAt(t)'
      BY <2>1, <2>3, <2>4, <2>6, Zenon DEF OwnThread, ThreadIs, FinalizingAt, SharedAssumption
    <3> QED
      BY <3>1, <3>2, <3>3, <3>4, Zenon DEF OwnThread
  <2>11. Tabled'
    BY <2>1, <2>4, Zenon DEF Tabled, TypeOK
  <2> QED
    BY <2>1, <2>9, <2>10, <2>11, StepKeeps, Zenon DEF SharedAssumption
<1> QED
  BY <1>1, <1>2, LookupShared(t), Zenon DEF LookupShared, At, Go, Becomes

\* What is in the table is given out while it is connected.
LEMMA LookupConnectionKeeps ==
  ASSUME SharedAssumption, IInv, NEW t \in Threads, LookupConnection(t)
  PROVE  IInv'
<1> USE DEF IInv, SInv
<1>1. CASE Peek(table) /\ thread[t].busGet
  <2>1. table \in Conns
    BY <1>1, LookupConnection(t), Zenon DEF LookupConnection, At, Go, Becomes, ConnBecomes,
       Peek, Opened, Return, Idle, TypeOK, Thread, Placed, PlacedAt
  <2>2. PICK k \in Conns : k = table
    BY <2>1, Zenon
  <2>3. /\ thread[t].at = "peek"
        /\ conn[k].connected
        /\ thread[t].busGet
        /\ table = k
        /\ crash = "none"
        /\ hasGuid' = hasGuid
        /\ table' = table
        /\ noGuid' = noGuid
        /\ slot' = slot
        /\ bus' = bus
        /\ pool' = None
        /\ crash' = crash
    BY <1>1, <2>2, LookupConnection(t), Zenon DEF LookupConnection, At, Go, Becomes,
       ConnBecomes, Peek, Opened, Return, Idle
  <2>4. thread[t] \in Thread
    BY Zenon DEF TypeOK
  <2>5. ThreadIs(t, "register", thread[t].busGet, k, thread[t].holds)
    <3> DEFINE r == [thread[t] EXCEPT !.at = "register", !.arg = k]
    <3>1. Becomes(t, r)
      BY <1>1, <2>2, LookupConnection(t), Zenon DEF LookupConnection, At, Go, Peek, Opened,
         Return, Idle
    <3>2. r \in Thread
      BY <2>3, <2>4, <2>2, Zenon DEF Thread, Places, Idle, TypeOK
    <3>3. r.at = ("register") /\ r.busGet = thread[t].busGet /\ r.arg = k /\ r.holds = thread[t].holds
      BY <1>1, <2>2, <2>3, <2>4, Zenon DEF Thread, Idle
    <3> HIDE DEF r
    <3> QED
      BY <3>1, <3>2, <3>3, BecomesIs, Zenon
  <2>6. /\ OthersStay(k)
        /\ conn'[k].refs = conn[k].refs + 1 /\ conn'[k].born = conn[k].born
        /\ conn'[k].freed = conn[k].freed /\ conn'[k].connected = conn[k].connected
        /\ conn'[k].link = conn[k].link /\ conn'[k].queued = conn[k].queued
        /\ conn'[k].arrived = conn[k].arrived /\ conn'[k].processed = conn[k].processed
        /\ conn'[k].guid = conn[k].guid /\ conn'[k].leaked = conn[k].leaked
    <3> DEFINE d == [conn[k] EXCEPT !.refs = @ + 1]
    <3>1. ConnBecomes(k, d)
      BY <1>1, <2>2, LookupConnection(t), Zenon DEF LookupConnection, At, Go, Peek, Opened,
         Return, Idle
    <3>2. conn[k] \in Connection
      BY <2>2, Zenon DEF TypeOK
    <3>3. d \in Connection
      <4>1. conn[k].refs \in Int /\ hasGuid \in BOOLEAN
        BY <3>2, Zenon DEF TypeOK, Connection
      <4> QED
        BY <3>2, <4>1, Counting, Zenon DEF Connection
    <3>4. /\ d.refs = conn[k].refs + 1 /\ d.born = conn[k].born
          /\ d.freed = conn[k].freed /\ d.connected = conn[k].connected
          /\ d.link = conn[k].link /\ d.queued = conn[k].queued
          /\ d.arrived = conn[k].arrived /\ d.processed = conn[k].processed
          /\ d.guid = conn[k].guid /\ d.leaked = conn[k].leaked
      BY <3>2, Zenon DEF Connection
    <3> HIDE DEF d
    <3> QED
      BY <2>2, <3>1, <3>3, <3>4, ConnBecomesIs, Zenon
  <2>7. TypeOK'
    BY <2>2, <2>3, <2>5, <2>6, Zenon DEF ThreadIs, OthersStay, TypeOK
  <2>8. OwnThread(t) /\ LivedAt(k) /\ UnmadeAt(k) /\ LeakedAt(k) /\ KeptAt(k)
    BY <2>2, Zenon DEF OwnThread, Placed, Making, Forgetting, Finalizing, Lived, Unmade,
       Leaked, Kept
  <2>9. Reaches(t, k) /\ conn[k].born /\ ~conn[k].leaked
    BY <2>2, <2>3, <2>8, Zenon DEF OwnThread, PlacedAt, MakingAt, Reaches, UnmadeAt, LivedAt,
       LeakedAt, Hidden, Tabled, Shared, SharedAssumption
  <2>10. thread[t].arg \in {None, k} /\ thread'[t].arg \in {None, k}
    BY <2>3, <2>5, <2>8, Zenon DEF OwnThread, PlacedAt, ThreadIs
  <2>11. Shared(k)' <=> Shared(k)
    BY <2>2, <2>3, <2>6, Zenon DEF Shared
  <2>12. BusLocked => conn[k].refs >= 1
    BY <2>2, <2>3, <2>8, <2>9, References1, Zenon DEF OwnThread, Weak, KeptByLibrary, Works,
       One, Shared, PlacedAt, Tabled, KeptAt, LivedAt, LeakedAt, MakingAt, Hidden, Recorded,
       SharedAssumption
  <2>13. Ages(t, k)
    BY <2>3, <2>6, <2>8, <2>9, <2>11, <2>12, Zenon DEF Ages, LivedAt
  <2>14. /\ bus' = bus \/ bus \in {None, t}
         /\ (pool' = pool /\ table' = table) \/ pool \in {None, t}
         /\ slot' \in {slot, None} \/ (thread[t].at = "store" /\ slot' = k)
    BY <2>3, <2>8, Zenon DEF OwnThread, PlacedAt
  <2>15. Step(t, k)
    BY <2>2, <2>3, <2>5, <2>6, <2>7, <2>10, <2>14, <2>9, <2>13, Zenon DEF Step, ThreadIs,
       OthersStay
  <2>16. OwnThread(t)'
    <3>1. PlacedAt(t)'
      BY <2>2, <2>3, <2>5, <2>6, <2>8, <2>9, <2>11, ZenonT(40) DEF OwnThread, ThreadIs,
         OthersStay, PlacedAt, LivedAt, MakingAt, Hidden, SharedAssumption
    <3>2. MakingAt(t)'
      BY <2>2, <2>3, <2>5, <2>6, <2>8, <2>9, <2>11, Zenon DEF OwnThread, ThreadIs, OthersStay,
         MakingAt, Hidden, SharedAssumption
    <3>3. ForgettingAt(t)'
      BY <2>2, <2>3, <2>5, <2>6, <2>8, <2>9, <2>11, Zenon DEF OwnThread, ThreadIs, OthersStay,
         ForgettingAt, SharedAssumption
    <3>4. FinalizingAt(t)'
      BY <2>2, <2>3, <2>5, <2>6, <2>8, <2>9, <2>11, Zenon DEF OwnThread, ThreadIs, OthersStay,
         FinalizingAt, SharedAssumption
    <3> QED
      BY <3>1, <3>2, <3>3, <3>4, Zenon DEF OwnThread
  <2>17. OwnConn(k)'
    <3>1. LivedAt(k)'
      BY <2>3, <2>6, <2>8, <2>9, <2>11, Zenon DEF LivedAt, OwnThread, PlacedAt
    <3>2. LeakedAt(k)'
      BY <2>2, <2>3, <2>5, <2>6, <2>8, <2>9, <2>11, Zenon DEF LeakedAt
    <3>3. KeptAt(k)'
      BY <2>2, <2>3, <2>5, <2>6, <2>8, <2>9, <2>11, ZenonT(40) DEF KeptAt, OwnThread,
         ForgettingAt, Recorded, ThreadIs, LivedAt
    <3>4. Balanced(t, k)
      BY <2>2, <2>3, <2>5, <2>6, <2>8, <2>9, <2>11, ZenonT(40) DEF Balanced, Works,
         KeptByLibrary, Shared, OwnThread, PlacedAt, MakingAt, ThreadIs, Hidden, LivedAt,
         SharedAssumption
    <3>5. conn'[k].refs = References(k)'
      BY <2>2, <2>5, <3>4, BalanceKeeps, Zenon DEF SharedAssumption
    <3> QED
      BY <3>1, <3>2, <3>3, <3>5, Zenon DEF OwnConn
  <2>18. Tabled'
    BY <2>2, <2>3, <2>6, Zenon DEF Tabled, TypeOK, OthersStay
  <2>19. ASSUME BusLocked PROVE OwnWeak(t, k)'
    <3>1. (slot' = k => conn'[k].link) /\ (thread'[t].at \in {"store", "mark"} => conn'[k].link)
      BY <2>2, <2>19, <2>3, <2>5, <2>6, <2>8, <2>9, Zenon DEF Weak, OwnThread, PlacedAt,
         MakingAt, LivedAt, ThreadIs, Hidden, SharedAssumption
    <3>2. (conn'[k].freed => conn'[k].refs = 0) /\ (thread'[t].at = "finalize" => conn'[k].refs = 0)
      BY <2>2, <2>19, <2>3, <2>5, <2>6, <2>8, <2>9, <2>12 DEF Weak, LivedAt, ThreadIs
    <3> QED
      BY <3>1, <3>2, Zenon DEF OwnWeak
  <2> QED
    BY <2>2, <2>3, <2>15, <2>16, <2>18, <2>17, <2>19, StepKeeps, Zenon DEF SharedAssumption
<1>2. CASE Peek(table) /\ ~thread[t].busGet
  <2>1. table \in Conns
    BY <1>2, LookupConnection(t), Zenon DEF LookupConnection, At, Go, Becomes, ConnBecomes,
       Peek, Opened, Return, Idle, TypeOK, Thread, Placed, PlacedAt
  <2>2. PICK k \in Conns : k = table
    BY <2>1, Zenon
  <2>3. /\ thread[t].at = "peek"
        /\ conn[k].connected
        /\ ~thread[t].busGet
        /\ table = k
        /\ crash = "none"
        /\ hasGuid' = hasGuid
        /\ table' = table
        /\ noGuid' = noGuid
        /\ slot' = slot
        /\ bus' = bus
        /\ pool' = None
        /\ crash' = crash
    BY <1>2, <2>2, LookupConnection(t), Zenon DEF LookupConnection, At, Go, Becomes,
       ConnBecomes, Peek, Opened, Return, Idle
  <2>4. thread[t] \in Thread
    BY Zenon DEF TypeOK
  <2>5. ThreadIs(t, "idle", FALSE, None, thread[t].holds \cup {k})
    <3> DEFINE r == [Idle EXCEPT !.holds = thread[t].holds \cup {k}]
    <3>1. Becomes(t, r)
      BY <1>2, <2>2, LookupConnection(t), Zenon DEF LookupConnection, At, Go, Peek, Opened,
         Return, Idle
    <3>2. r \in Thread
      BY <2>3, <2>4, <2>2, Zenon DEF Thread, Places, Idle, TypeOK
    <3>3. r.at = ("idle") /\ r.busGet = FALSE /\ r.arg = None /\ r.holds = thread[t].holds \cup {k}
      BY <1>2, <2>2, <2>3, <2>4, Zenon DEF Thread, Idle
    <3> HIDE DEF r
    <3> QED
      BY <3>1, <3>2, <3>3, BecomesIs, Zenon
  <2>6. /\ OthersStay(k)
        /\ conn'[k].refs = conn[k].refs + 1 /\ conn'[k].born = conn[k].born
        /\ conn'[k].freed = conn[k].freed /\ conn'[k].connected = conn[k].connected
        /\ conn'[k].link = conn[k].link /\ conn'[k].queued = conn[k].queued
        /\ conn'[k].arrived = conn[k].arrived /\ conn'[k].processed = conn[k].processed
        /\ conn'[k].guid = conn[k].guid /\ conn'[k].leaked = conn[k].leaked
    <3> DEFINE d == [conn[k] EXCEPT !.refs = @ + 1]
    <3>1. ConnBecomes(k, d)
      BY <1>2, <2>2, LookupConnection(t), Zenon DEF LookupConnection, At, Go, Peek, Opened,
         Return, Idle
    <3>2. conn[k] \in Connection
      BY <2>2, Zenon DEF TypeOK
    <3>3. d \in Connection
      <4>1. conn[k].refs \in Int /\ hasGuid \in BOOLEAN
        BY <3>2, Zenon DEF TypeOK, Connection
      <4> QED
        BY <3>2, <4>1, Counting, Zenon DEF Connection
    <3>4. /\ d.refs = conn[k].refs + 1 /\ d.born = conn[k].born
          /\ d.freed = conn[k].freed /\ d.connected = conn[k].connected
          /\ d.link = conn[k].link /\ d.queued = conn[k].queued
          /\ d.arrived = conn[k].arrived /\ d.processed = conn[k].processed
          /\ d.guid = conn[k].guid /\ d.leaked = conn[k].leaked
      BY <3>2, Zenon DEF Connection
    <3> HIDE DEF d
    <3> QED
      BY <2>2, <3>1, <3>3, <3>4, ConnBecomesIs, Zenon
  <2>7. TypeOK'
    BY <2>2, <2>3, <2>5, <2>6, Zenon DEF ThreadIs, OthersStay, TypeOK
  <2>8. OwnThread(t) /\ LivedAt(k) /\ UnmadeAt(k) /\ LeakedAt(k) /\ KeptAt(k)
    BY <2>2, Zenon DEF OwnThread, Placed, Making, Forgetting, Finalizing, Lived, Unmade,
       Leaked, Kept
  <2>9. Reaches(t, k) /\ conn[k].born /\ ~conn[k].leaked
    BY <2>2, <2>3, <2>8, Zenon DEF OwnThread, PlacedAt, MakingAt, Reaches, UnmadeAt, LivedAt,
       LeakedAt, Hidden, Tabled, Shared, SharedAssumption
  <2>10. thread[t].arg \in {None, k} /\ thread'[t].arg \in {None, k}
    BY <2>3, <2>5, <2>8, Zenon DEF OwnThread, PlacedAt, ThreadIs
  <2>11. Shared(k)' <=> Shared(k)
    BY <2>2, <2>3, <2>6, Zenon DEF Shared
  <2>12. BusLocked => conn[k].refs >= 1
    BY <2>2, <2>3, <2>8, <2>9, References1, Zenon DEF OwnThread, Weak, KeptByLibrary, Works,
       One, Shared, PlacedAt, Tabled, KeptAt, LivedAt, LeakedAt, MakingAt, Hidden, Recorded,
       SharedAssumption
  <2>13. Ages(t, k)
    BY <2>3, <2>6, <2>8, <2>9, <2>11, <2>12, Zenon DEF Ages, LivedAt
  <2>14. /\ bus' = bus \/ bus \in {None, t}
         /\ (pool' = pool /\ table' = table) \/ pool \in {None, t}
         /\ slot' \in {slot, None} \/ (thread[t].at = "store" /\ slot' = k)
    BY <2>3, <2>8, Zenon DEF OwnThread, PlacedAt
  <2>15. Step(t, k)
    BY <2>2, <2>3, <2>5, <2>6, <2>7, <2>10, <2>14, <2>9, <2>13, Zenon DEF Step, ThreadIs,
       OthersStay
  <2>16. OwnThread(t)'
    <3>1. PlacedAt(t)'
      BY <2>2, <2>3, <2>5, <2>6, <2>8, <2>9, <2>11, Zenon DEF OwnThread, ThreadIs, OthersStay,
         PlacedAt, LivedAt, MakingAt, Hidden, SharedAssumption
    <3>2. MakingAt(t)'
      BY <2>2, <2>3, <2>5, <2>6, <2>8, <2>9, <2>11, Zenon DEF OwnThread, ThreadIs, OthersStay,
         MakingAt, Hidden, SharedAssumption
    <3>3. ForgettingAt(t)'
      BY <2>2, <2>3, <2>5, <2>6, <2>8, <2>9, <2>11, Zenon DEF OwnThread, ThreadIs, OthersStay,
         ForgettingAt, SharedAssumption
    <3>4. FinalizingAt(t)'
      BY <2>2, <2>3, <2>5, <2>6, <2>8, <2>9, <2>11, Zenon DEF OwnThread, ThreadIs, OthersStay,
         FinalizingAt, SharedAssumption
    <3> QED
      BY <3>1, <3>2, <3>3, <3>4, Zenon DEF OwnThread
  <2>17. OwnConn(k)'
    <3>1. LivedAt(k)'
      BY <2>3, <2>6, <2>8, <2>9, <2>11, Zenon DEF LivedAt, OwnThread, PlacedAt
    <3>2. LeakedAt(k)'
      BY <2>2, <2>3, <2>5, <2>6, <2>8, <2>9, <2>11, Zenon DEF LeakedAt
    <3>3. KeptAt(k)'
      BY <2>2, <2>3, <2>5, <2>6, <2>8, <2>9, <2>11, ZenonT(40) DEF KeptAt, OwnThread,
         ForgettingAt, Recorded, ThreadIs, LivedAt
    <3>4. Balanced(t, k)
      BY <2>2, <2>3, <2>5, <2>6, <2>8, <2>9, <2>11, Zenon DEF Balanced, Works, KeptByLibrary,
         Shared, OwnThread, PlacedAt, MakingAt, ThreadIs, Hidden, LivedAt, SharedAssumption
    <3>5. conn'[k].refs = References(k)'
      BY <2>2, <2>5, <3>4, BalanceKeeps, Zenon DEF SharedAssumption
    <3> QED
      BY <3>1, <3>2, <3>3, <3>5, Zenon DEF OwnConn
  <2>18. Tabled'
    BY <2>2, <2>3, <2>6, Zenon DEF Tabled, TypeOK, OthersStay
  <2>19. ASSUME BusLocked PROVE OwnWeak(t, k)'
    <3>1. (slot' = k => conn'[k].link) /\ (thread'[t].at \in {"store", "mark"} => conn'[k].link)
      BY <2>2, <2>19, <2>3, <2>5, <2>6, <2>8, <2>9, Zenon DEF Weak, OwnThread, PlacedAt,
         MakingAt, LivedAt, ThreadIs, Hidden, SharedAssumption
    <3>2. (conn'[k].freed => conn'[k].refs = 0) /\ (thread'[t].at = "finalize" => conn'[k].refs = 0)
      BY <2>2, <2>19, <2>3, <2>5, <2>6, <2>8, <2>9, <2>12 DEF Weak, LivedAt, ThreadIs
    <3> QED
      BY <3>1, <3>2, Zenon DEF OwnWeak
  <2> QED
    BY <2>2, <2>3, <2>15, <2>16, <2>18, <2>17, <2>19, StepKeeps, Zenon DEF SharedAssumption
<1>3. CASE ~Peek(table)
  <2>1. /\ thread[t].at = "peek"
        /\ crash = "none"
        /\ hasGuid' = hasGuid
        /\ table' = table
        /\ noGuid' = noGuid
        /\ slot' = slot
        /\ bus' = bus
        /\ pool' = None
        /\ crash' = crash
    BY <1>3, LookupConnection(t), Zenon DEF LookupConnection, At, Go, Becomes, ConnBecomes,
       Peek, Opened, Return, Idle
  <2>2. thread[t] \in Thread
    BY Zenon DEF TypeOK
  <2>3. ThreadIs(t, "create", thread[t].busGet, thread[t].arg, thread[t].holds)
    <3> DEFINE r == [thread[t] EXCEPT !.at = "create"]
    <3>1. Becomes(t, r)
      BY <1>3, LookupConnection(t), Zenon DEF LookupConnection, At, Go, Peek, Opened, Return,
         Idle
    <3>2. r \in Thread
      BY <2>1, <2>2, Zenon DEF Thread, Places, Idle, TypeOK
    <3>3. r.at = ("create") /\ r.busGet = thread[t].busGet /\ r.arg = thread[t].arg /\ r.holds = thread[t].holds
      BY <1>3, <2>1, <2>2, Zenon DEF Thread, Idle
    <3> HIDE DEF r
    <3> QED
      BY <3>1, <3>2, <3>3, BecomesIs, Zenon
  <2>4. conn' = conn
    BY <1>3, LookupConnection(t), Zenon DEF LookupConnection, At, Go, Becomes, ConnBecomes,
       Peek, Opened, Return, Idle
  <2>5. TypeOK'
    BY <2>1, <2>3, <2>4, Zenon DEF ThreadIs, TypeOK
  <2>6. OwnThread(t)
    BY Zenon DEF OwnThread, Placed, Making, Forgetting, Finalizing
  <2>7. thread[t].arg \in {None, None} /\ thread'[t].arg \in {None, None}
    BY <2>1, <2>3, <2>6, Zenon DEF OwnThread, PlacedAt, ThreadIs
  <2>8. /\ bus' = bus \/ bus \in {None, t}
        /\ (pool' = pool /\ table' = table) \/ pool \in {None, t}
        /\ slot' \in {slot, None} \/ (thread[t].at = "store" /\ slot' = None)
    BY <2>1, <2>6, Zenon DEF OwnThread, PlacedAt
  <2>9. Step(t, None)
    BY <2>1, <2>3, <2>4, <2>5, <2>7, <2>8, Zenon DEF Step, ThreadIs
  <2>10. OwnThread(t)'
    <3>1. PlacedAt(t)'
      BY <2>1, <2>3, <2>4, <2>6, Zenon DEF OwnThread, ThreadIs, PlacedAt, LivedAt, MakingAt,
         Hidden, SharedAssumption
    <3>2. MakingAt(t)'
      BY <2>1, <2>3, <2>4, <2>6, Zenon DEF OwnThread, ThreadIs, MakingAt, Hidden,
         SharedAssumption
    <3>3. ForgettingAt(t)'
      BY <2>1, <2>3, <2>4, <2>6, Zenon DEF OwnThread, ThreadIs, ForgettingAt, SharedAssumption
    <3>4. FinalizingAt(t)'
      BY <2>1, <2>3, <2>4, <2>6, Zenon DEF OwnThread, ThreadIs, FinalizingAt, SharedAssumption
    <3> QED
      BY <3>1, <3>2, <3>3, <3>4, Zenon DEF OwnThread
  <2>11. Tabled'
    BY <2>1, <2>4, Zenon DEF Tabled, TypeOK
  <2> QED
    BY <2>1, <2>9, <2>10, <2>11, StepKeeps, Zenon DEF SharedAssumption
<1> QED
  BY <1>1, <1>2, <1>3, LookupConnection(t), Zenon DEF LookupConnection, At, Go, Becomes,
     ConnBecomes, Peek, Opened, Return, Idle

\* A new connection is known to the thread that makes it alone; none is made on failure.
LEMMA TryFromAddressEntryKeeps ==
  ASSUME SharedAssumption, IInv, NEW t \in Threads, TryFromAddressEntry(t)
  PROVE  IInv'
<1> USE DEF IInv, SInv
<1>1. ASSUME NEW x \in Conns, ~conn[x].born,
             ConnBecomes(x, [conn[x] EXCEPT !.born = TRUE, !.connected = TRUE, !.refs = 1, !.lock = t]),
             Becomes(t, [thread[t] EXCEPT !.at = "record", !.arg = x]), UNCHANGED bus
      PROVE  IInv'
  <2>1. x \in Conns
    BY Zenon
  <2>2. /\ thread[t].at = "create"
        /\ ~conn[x].born
        /\ crash = "none"
        /\ hasGuid' = hasGuid
        /\ table' = table
        /\ noGuid' = noGuid
        /\ slot' = slot
        /\ bus' = bus
        /\ pool' = pool
        /\ crash' = crash
    BY <1>1, TryFromAddressEntry(t), Zenon DEF TryFromAddressEntry, At, Fail, Becomes,
       ConnBecomes, Idle
  <2>3. thread[t] \in Thread
    BY Zenon DEF TypeOK
  <2>4. ThreadIs(t, "record", thread[t].busGet, x, thread[t].holds)
    <3> DEFINE r == [thread[t] EXCEPT !.at = "record", !.arg = x]
    <3>1. Becomes(t, r)
      BY <1>1, TryFromAddressEntry(t), Zenon DEF TryFromAddressEntry, At, Fail, Idle
    <3>2. r \in Thread
      BY <2>2, <2>3, <2>1, Zenon DEF Thread, Places, Idle, TypeOK
    <3>3. r.at = ("record") /\ r.busGet = thread[t].busGet /\ r.arg = x /\ r.holds = thread[t].holds
      BY <1>1, <2>2, <2>3, Zenon DEF Thread, Idle
    <3> HIDE DEF r
    <3> QED
      BY <3>1, <3>2, <3>3, BecomesIs, Zenon
  <2>5. /\ OthersStay(x)
        /\ conn'[x].refs = 1 /\ conn'[x].born = TRUE
        /\ conn'[x].freed = conn[x].freed /\ conn'[x].connected = TRUE
        /\ conn'[x].link = conn[x].link /\ conn'[x].queued = conn[x].queued
        /\ conn'[x].arrived = conn[x].arrived /\ conn'[x].processed = conn[x].processed
        /\ conn'[x].guid = conn[x].guid /\ conn'[x].leaked = conn[x].leaked
    <3> DEFINE d == [conn[x] EXCEPT !.born = TRUE, !.connected = TRUE, !.refs = 1, !.lock = t]
    <3>1. ConnBecomes(x, d)
      BY <1>1, TryFromAddressEntry(t), Zenon DEF TryFromAddressEntry, At, Fail, Idle
    <3>2. conn[x] \in Connection
      BY <2>1, Zenon DEF TypeOK
    <3>3. d \in Connection
      <4>1. conn[x].refs \in Int /\ hasGuid \in BOOLEAN
        BY <3>2, Zenon DEF TypeOK, Connection
      <4> QED
        BY <3>2, <4>1, Counting, Zenon DEF Connection
    <3>4. /\ d.refs = 1 /\ d.born = TRUE
          /\ d.freed = conn[x].freed /\ d.connected = TRUE
          /\ d.link = conn[x].link /\ d.queued = conn[x].queued
          /\ d.arrived = conn[x].arrived /\ d.processed = conn[x].processed
          /\ d.guid = conn[x].guid /\ d.leaked = conn[x].leaked
      BY <3>2, Zenon DEF Connection
    <3> HIDE DEF d
    <3> QED
      BY <2>1, <3>1, <3>3, <3>4, ConnBecomesIs, Zenon
  <2>6. TypeOK'
    BY <2>1, <2>2, <2>4, <2>5, Zenon DEF ThreadIs, OthersStay, TypeOK
  <2>7. OwnThread(t) /\ LivedAt(x) /\ UnmadeAt(x) /\ LeakedAt(x) /\ KeptAt(x)
    BY <2>1, Zenon DEF OwnThread, Placed, Making, Forgetting, Finalizing, Lived, Unmade,
       Leaked, Kept
  <2>8. Reaches(t, x) /\ Hidden(x) /\ ~conn[x].leaked
    BY <2>1, <2>2, <2>7, Zenon DEF OwnThread, PlacedAt, MakingAt, Reaches, UnmadeAt, LivedAt,
       LeakedAt, Hidden, Tabled, Shared, SharedAssumption
  <2>9. thread[t].arg \in {None, x} /\ thread'[t].arg \in {None, x}
    BY <2>2, <2>4, <2>7, Zenon DEF OwnThread, PlacedAt, ThreadIs
  <2>10. Shared(x)' <=> Shared(x)
    BY <2>1, <2>2, <2>5, Zenon DEF Shared
  <2>11. Ages(t, x)
    BY <2>2, <2>5, <2>7, <2>8, <2>10, Zenon DEF Ages, LivedAt
  <2>12. /\ bus' = bus \/ bus \in {None, t}
         /\ (pool' = pool /\ table' = table) \/ pool \in {None, t}
         /\ slot' \in {slot, None} \/ (thread[t].at = "store" /\ slot' = x)
    BY <2>2, <2>7, Zenon DEF OwnThread, PlacedAt
  <2>13. Step(t, x)
    BY <2>1, <2>2, <2>4, <2>5, <2>6, <2>9, <2>12, <2>8, <2>11, Zenon DEF Step, ThreadIs,
       OthersStay
  <2>14. OwnThread(t)'
    <3>1. PlacedAt(t)'
      BY <2>1, <2>2, <2>4, <2>5, <2>7, <2>8, <2>10, ZenonT(40) DEF OwnThread, ThreadIs, OthersStay,
         PlacedAt, LivedAt, MakingAt, Hidden, SharedAssumption
    <3>2. MakingAt(t)'
      BY <2>1, <2>2, <2>4, <2>5, <2>7, <2>8, <2>10 DEF OwnThread, ThreadIs, OthersStay,
         MakingAt, Hidden, UnmadeAt, LivedAt, SharedAssumption
    <3>3. ForgettingAt(t)'
      BY <2>1, <2>2, <2>4, <2>5, <2>7, <2>8, <2>10, Zenon DEF OwnThread, ThreadIs, OthersStay,
         ForgettingAt, SharedAssumption
    <3>4. FinalizingAt(t)'
      BY <2>1, <2>2, <2>4, <2>5, <2>7, <2>8, <2>10, Zenon DEF OwnThread, ThreadIs, OthersStay,
         FinalizingAt, SharedAssumption
    <3> QED
      BY <3>1, <3>2, <3>3, <3>4, Zenon DEF OwnThread
  <2>15. OwnConn(x)'
    <3>1. LivedAt(x)'
      BY <2>2, <2>5, <2>7, <2>8, <2>10, Zenon DEF LivedAt, OwnThread, PlacedAt
    <3>2. LeakedAt(x)'
      BY <2>1, <2>2, <2>4, <2>5, <2>7, <2>8, <2>10, Zenon DEF LeakedAt
    <3>3. KeptAt(x)'
      BY <2>1, <2>2, <2>4, <2>5, <2>7, <2>8, <2>10, ZenonT(40) DEF KeptAt, OwnThread, ForgettingAt,
         Recorded, ThreadIs, LivedAt
    <3>4. Balanced(t, x)
      BY <2>1, <2>2, <2>4, <2>5, <2>7, <2>8, <2>10 DEF Balanced, Works, KeptByLibrary, Shared,
         OwnThread, PlacedAt, MakingAt, ThreadIs, Hidden, LivedAt, SharedAssumption
    <3>5. conn'[x].refs = References(x)'
      BY <2>1, <2>4, <3>4, BalanceKeeps, Zenon DEF SharedAssumption
    <3> QED
      BY <3>1, <3>2, <3>3, <3>5, Zenon DEF OwnConn
  <2>16. Tabled'
    BY <2>1, <2>2, <2>5, <2>7, <2>8, Zenon DEF Tabled, TypeOK, OthersStay, Hidden, Shared
  <2>17. ASSUME BusLocked PROVE OwnWeak(t, x)'
    <3>1. (slot' = x => conn'[x].link) /\ (thread'[t].at \in {"store", "mark"} => conn'[x].link)
      BY <2>1, <2>17, <2>2, <2>4, <2>5, <2>7, <2>8, Zenon DEF Weak, OwnThread, PlacedAt,
         MakingAt, LivedAt, ThreadIs, Hidden, SharedAssumption
    <3>2. (conn'[x].freed => conn'[x].refs = 0) /\ (thread'[t].at = "finalize" => conn'[x].refs = 0)
      BY <2>1, <2>17, <2>2, <2>4, <2>5, <2>7, <2>8, Zenon DEF Weak, LivedAt, ThreadIs
    <3> QED
      BY <3>1, <3>2, Zenon DEF OwnWeak
  <2> QED
    BY <2>1, <2>2, <2>13, <2>14, <2>16, <2>15, <2>17, StepKeeps, Zenon DEF SharedAssumption
<1>2. CASE Fail(t) /\ bus' = (IF thread[t].busGet THEN None ELSE bus) /\ UNCHANGED conn
  <2>1. /\ thread[t].at = "create"
        /\ crash = "none"
        /\ hasGuid' = hasGuid
        /\ table' = table
        /\ noGuid' = noGuid
        /\ slot' = slot
        /\ bus' = (IF thread[t].busGet THEN None ELSE bus)
        /\ pool' = pool
        /\ crash' = crash
    BY <1>2, TryFromAddressEntry(t), Zenon DEF TryFromAddressEntry, At, Fail, Becomes,
       ConnBecomes, Idle
  <2>2. thread[t] \in Thread
    BY Zenon DEF TypeOK
  <2>3. ThreadIs(t, "idle", FALSE, None, thread[t].holds)
    <3> DEFINE r == [Idle EXCEPT !.holds = thread[t].holds]
    <3>1. Becomes(t, r)
      BY <1>2, TryFromAddressEntry(t), Zenon DEF TryFromAddressEntry, At, Fail, Idle
    <3>2. r \in Thread
      BY <2>1, <2>2, Zenon DEF Thread, Places, Idle, TypeOK
    <3>3. r.at = ("idle") /\ r.busGet = FALSE /\ r.arg = None /\ r.holds = thread[t].holds
      BY <1>2, <2>1, <2>2, Zenon DEF Thread, Idle
    <3> HIDE DEF r
    <3> QED
      BY <3>1, <3>2, <3>3, BecomesIs, Zenon
  <2>4. conn' = conn
    BY <1>2, TryFromAddressEntry(t), Zenon DEF TryFromAddressEntry, At, Fail, Becomes,
       ConnBecomes, Idle
  <2>5. TypeOK'
    BY <2>1, <2>3, <2>4, Zenon DEF ThreadIs, TypeOK
  <2>6. OwnThread(t)
    BY Zenon DEF OwnThread, Placed, Making, Forgetting, Finalizing
  <2>7. thread[t].arg \in {None, None} /\ thread'[t].arg \in {None, None}
    BY <2>1, <2>3, <2>6, Zenon DEF OwnThread, PlacedAt, ThreadIs
  <2>8. /\ bus' = bus \/ bus \in {None, t}
        /\ (pool' = pool /\ table' = table) \/ pool \in {None, t}
        /\ slot' \in {slot, None} \/ (thread[t].at = "store" /\ slot' = None)
    BY <2>1, <2>6, Zenon DEF OwnThread, PlacedAt
  <2>9. Step(t, None)
    BY <2>1, <2>3, <2>4, <2>5, <2>7, <2>8, Zenon DEF Step, ThreadIs
  <2>10. OwnThread(t)'
    <3>1. PlacedAt(t)'
      BY <2>1, <2>3, <2>4, <2>6, Zenon DEF OwnThread, ThreadIs, PlacedAt, LivedAt, MakingAt,
         Hidden, SharedAssumption
    <3>2. MakingAt(t)'
      BY <2>1, <2>3, <2>4, <2>6, Zenon DEF OwnThread, ThreadIs, MakingAt, Hidden, UnmadeAt,
         LivedAt, SharedAssumption
    <3>3. ForgettingAt(t)'
      BY <2>1, <2>3, <2>4, <2>6, Zenon DEF OwnThread, ThreadIs, ForgettingAt, SharedAssumption
    <3>4. FinalizingAt(t)'
      BY <2>1, <2>3, <2>4, <2>6, Zenon DEF OwnThread, ThreadIs, FinalizingAt, SharedAssumption
    <3> QED
      BY <3>1, <3>2, <3>3, <3>4, Zenon DEF OwnThread
  <2>11. Tabled'
    BY <2>1, <2>4, Zenon DEF Tabled, TypeOK
  <2> QED
    BY <2>1, <2>9, <2>10, <2>11, StepKeeps, Zenon DEF SharedAssumption
<1> QED
  BY <1>1, <1>2, TryFromAddressEntry(t), Zenon DEF TryFromAddressEntry, At, Fail, Becomes,
     ConnBecomes, Idle

\* The new connection gets libdbus' reference and is known to all.
LEMMA RecordSharedKeeps ==
  ASSUME SharedAssumption, IInv, NEW t \in Threads, RecordShared(t)
  PROVE  IInv'
<1> USE DEF IInv, SInv
<1>1. CASE thread[t].busGet
  <2>1. thread[t].arg \in Conns
    BY <1>1, RecordShared(t), Zenon DEF RecordShared, At, Opened, Return, Becomes,
       ConnBecomes, Idle, Arg, TypeOK, Thread, Placed, PlacedAt
  <2>2. PICK k \in Conns : k = thread[t].arg
    BY <2>1, Zenon
  <2>3. /\ thread[t].at = "record"
        /\ thread[t].busGet
        /\ pool = None
        /\ thread[t].arg = k
        /\ crash = "none"
        /\ hasGuid' = hasGuid
        /\ table' = (IF hasGuid THEN k ELSE table)
        /\ noGuid' = (IF hasGuid THEN noGuid ELSE noGuid \cup {k})
        /\ slot' = slot
        /\ bus' = bus
        /\ pool' = pool
        /\ crash' = crash
    BY <1>1, <2>2, RecordShared(t), Zenon DEF RecordShared, At, Opened, Return, Becomes,
       ConnBecomes, Idle, Arg
  <2>4. thread[t] \in Thread
    BY Zenon DEF TypeOK
  <2>5. ThreadIs(t, "register", thread[t].busGet, k, thread[t].holds)
    <3> DEFINE r == [thread[t] EXCEPT !.at = "register"]
    <3>1. Becomes(t, r)
      BY <1>1, <2>2, RecordShared(t), Zenon DEF RecordShared, At, Opened, Return, Idle, Arg
    <3>2. r \in Thread
      BY <2>3, <2>4, <2>2, Zenon DEF Thread, Places, Idle, TypeOK
    <3>3. r.at = ("register") /\ r.busGet = thread[t].busGet /\ r.arg = k /\ r.holds = thread[t].holds
      BY <1>1, <2>2, <2>3, <2>4, Zenon DEF Thread, Idle
    <3> HIDE DEF r
    <3> QED
      BY <3>1, <3>2, <3>3, BecomesIs, Zenon
  <2>6. /\ OthersStay(k)
        /\ conn'[k].refs = conn[k].refs + 1 /\ conn'[k].born = conn[k].born
        /\ conn'[k].freed = conn[k].freed /\ conn'[k].connected = conn[k].connected
        /\ conn'[k].link = conn[k].link /\ conn'[k].queued = conn[k].queued
        /\ conn'[k].arrived = conn[k].arrived /\ conn'[k].processed = conn[k].processed
        /\ conn'[k].guid = hasGuid /\ conn'[k].leaked = conn[k].leaked
    <3> DEFINE d == [conn[k] EXCEPT !.refs = @ + 1, !.lock = None, !.guid = hasGuid]
    <3>1. ConnBecomes(k, d)
      BY <1>1, <2>2, RecordShared(t), Zenon DEF RecordShared, At, Opened, Return, Idle, Arg
    <3>2. conn[k] \in Connection
      BY <2>2, Zenon DEF TypeOK
    <3>3. d \in Connection
      <4>1. conn[k].refs \in Int /\ hasGuid \in BOOLEAN
        BY <3>2, Zenon DEF TypeOK, Connection
      <4> QED
        BY <3>2, <4>1, Counting, Zenon DEF Connection
    <3>4. /\ d.refs = conn[k].refs + 1 /\ d.born = conn[k].born
          /\ d.freed = conn[k].freed /\ d.connected = conn[k].connected
          /\ d.link = conn[k].link /\ d.queued = conn[k].queued
          /\ d.arrived = conn[k].arrived /\ d.processed = conn[k].processed
          /\ d.guid = hasGuid /\ d.leaked = conn[k].leaked
      BY <3>2, Zenon DEF Connection
    <3> HIDE DEF d
    <3> QED
      BY <2>2, <3>1, <3>3, <3>4, ConnBecomesIs, Zenon
  <2>7. TypeOK'
    BY <2>2, <2>3, <2>5, <2>6, Zenon DEF ThreadIs, OthersStay, TypeOK
  <2>8. OwnThread(t) /\ LivedAt(k) /\ UnmadeAt(k) /\ LeakedAt(k) /\ KeptAt(k)
    BY <2>2, Zenon DEF OwnThread, Placed, Making, Forgetting, Finalizing, Lived, Unmade,
       Leaked, Kept
  <2>9. Reaches(t, k) /\ conn[k].born /\ ~conn[k].leaked
    BY <2>2, <2>3, <2>8, Zenon DEF OwnThread, PlacedAt, MakingAt, Reaches, UnmadeAt, LivedAt,
       LeakedAt, Hidden, Tabled, Shared, SharedAssumption
  <2>10. thread[t].arg \in {None, k} /\ thread'[t].arg \in {None, k}
    BY <2>3, <2>5, <2>8, Zenon DEF OwnThread, PlacedAt, ThreadIs
  <2>11. Shared(k)'
    BY <2>2, <2>3, <2>6, ZenonT(40) DEF Shared
  <2>12. BusLocked => conn[k].refs >= 1
    BY <2>2, <2>3, <2>8, <2>9, References1 DEF OwnThread, Weak, KeptByLibrary, Works, One,
       Shared, PlacedAt, Tabled, KeptAt, LivedAt, LeakedAt, MakingAt, Hidden, Recorded,
       SharedAssumption
  <2>13. Ages(t, k)
    BY <2>3, <2>6, <2>8, <2>9, <2>11, <2>12, Zenon DEF Ages, LivedAt
  <2>14. /\ bus' = bus \/ bus \in {None, t}
         /\ (pool' = pool /\ table' = table) \/ pool \in {None, t}
         /\ slot' \in {slot, None} \/ (thread[t].at = "store" /\ slot' = k)
    BY <2>3, Zenon
  <2>15. Step(t, k)
    BY <2>2, <2>3, <2>5, <2>6, <2>7, <2>10, <2>14, <2>9, <2>13, ZenonT(40) DEF Step, ThreadIs,
       OthersStay
  <2>16. OwnThread(t)'
    <3>1. PlacedAt(t)'
      BY <2>2, <2>3, <2>5, <2>6, <2>8, <2>9, <2>11, ZenonT(40) DEF OwnThread, ThreadIs, OthersStay,
         PlacedAt, LivedAt, MakingAt, Hidden, SharedAssumption
    <3>2. MakingAt(t)'
      BY <2>2, <2>3, <2>5, <2>6, <2>8, <2>9, <2>11, Zenon DEF OwnThread, ThreadIs, OthersStay,
         MakingAt, Hidden, SharedAssumption
    <3>3. ForgettingAt(t)'
      BY <2>2, <2>3, <2>5, <2>6, <2>8, <2>9, <2>11, Zenon DEF OwnThread, ThreadIs, OthersStay,
         ForgettingAt, SharedAssumption
    <3>4. FinalizingAt(t)'
      BY <2>2, <2>3, <2>5, <2>6, <2>8, <2>9, <2>11, Zenon DEF OwnThread, ThreadIs, OthersStay,
         FinalizingAt, SharedAssumption
    <3> QED
      BY <3>1, <3>2, <3>3, <3>4, Zenon DEF OwnThread
  <2>17. OwnConn(k)'
    <3>1. LivedAt(k)'
      BY <2>3, <2>6, <2>8, <2>9, <2>11, Zenon DEF LivedAt, OwnThread, PlacedAt
    <3>2. LeakedAt(k)'
      BY <2>2, <2>3, <2>5, <2>6, <2>8, <2>9, <2>11, Zenon DEF LeakedAt
    <3>3. KeptAt(k)'
      BY <2>2, <2>3, <2>5, <2>6, <2>8, <2>9, <2>11, Zenon DEF KeptAt, OwnThread, ForgettingAt,
         Recorded, ThreadIs, LivedAt
    <3>4. Balanced(t, k)
      BY <2>2, <2>3, <2>5, <2>6, <2>8, <2>9, <2>11, Zenon DEF Balanced, Works, KeptByLibrary,
         Shared, OwnThread, PlacedAt, MakingAt, ThreadIs, Hidden, LivedAt, SharedAssumption
    <3>5. conn'[k].refs = References(k)'
      BY <2>2, <2>5, <3>4, BalanceKeeps, Zenon DEF SharedAssumption
    <3> QED
      BY <3>1, <3>2, <3>3, <3>5, Zenon DEF OwnConn
  <2>18. Tabled'
    BY <2>2, <2>3, <2>6, <2>8, <2>9, Zenon DEF Tabled, TypeOK, OthersStay, Hidden, Shared,
       OwnThread, MakingAt
  <2>19. ASSUME BusLocked PROVE OwnWeak(t, k)'
    <3>1. (slot' = k => conn'[k].link) /\ (thread'[t].at \in {"store", "mark"} => conn'[k].link)
      BY <2>2, <2>19, <2>3, <2>5, <2>6, <2>8, <2>9, ZenonT(40) DEF Weak, OwnThread, PlacedAt,
         MakingAt, LivedAt, ThreadIs, Hidden, SharedAssumption
    <3>2. (conn'[k].freed => conn'[k].refs = 0) /\ (thread'[t].at = "finalize" => conn'[k].refs = 0)
      BY <2>2, <2>19, <2>3, <2>5, <2>6, <2>8, <2>9, <2>12 DEF Weak, LivedAt, ThreadIs
    <3> QED
      BY <3>1, <3>2, Zenon DEF OwnWeak
  <2> QED
    BY <2>2, <2>3, <2>15, <2>16, <2>18, <2>17, <2>19, StepKeeps, Zenon DEF SharedAssumption
<1>2. CASE ~thread[t].busGet
  <2>1. thread[t].arg \in Conns
    BY <1>2, RecordShared(t), Zenon DEF RecordShared, At, Opened, Return, Becomes,
       ConnBecomes, Idle, Arg, TypeOK, Thread, Placed, PlacedAt
  <2>2. PICK k \in Conns : k = thread[t].arg
    BY <2>1, Zenon
  <2>3. /\ thread[t].at = "record"
        /\ ~thread[t].busGet
        /\ pool = None
        /\ thread[t].arg = k
        /\ crash = "none"
        /\ hasGuid' = hasGuid
        /\ table' = (IF hasGuid THEN k ELSE table)
        /\ noGuid' = (IF hasGuid THEN noGuid ELSE noGuid \cup {k})
        /\ slot' = slot
        /\ bus' = bus
        /\ pool' = pool
        /\ crash' = crash
    BY <1>2, <2>2, RecordShared(t), Zenon DEF RecordShared, At, Opened, Return, Becomes,
       ConnBecomes, Idle, Arg
  <2>4. thread[t] \in Thread
    BY Zenon DEF TypeOK
  <2>5. ThreadIs(t, "idle", FALSE, None, thread[t].holds \cup {k})
    <3> DEFINE r == [Idle EXCEPT !.holds = thread[t].holds \cup {k}]
    <3>1. Becomes(t, r)
      BY <1>2, <2>2, RecordShared(t), Zenon DEF RecordShared, At, Opened, Return, Idle, Arg
    <3>2. r \in Thread
      BY <2>3, <2>4, <2>2, Zenon DEF Thread, Places, Idle, TypeOK
    <3>3. r.at = ("idle") /\ r.busGet = FALSE /\ r.arg = None /\ r.holds = thread[t].holds \cup {k}
      BY <1>2, <2>2, <2>3, <2>4, Zenon DEF Thread, Idle
    <3> HIDE DEF r
    <3> QED
      BY <3>1, <3>2, <3>3, BecomesIs, Zenon
  <2>6. /\ OthersStay(k)
        /\ conn'[k].refs = conn[k].refs + 1 /\ conn'[k].born = conn[k].born
        /\ conn'[k].freed = conn[k].freed /\ conn'[k].connected = conn[k].connected
        /\ conn'[k].link = conn[k].link /\ conn'[k].queued = conn[k].queued
        /\ conn'[k].arrived = conn[k].arrived /\ conn'[k].processed = conn[k].processed
        /\ conn'[k].guid = hasGuid /\ conn'[k].leaked = conn[k].leaked
    <3> DEFINE d == [conn[k] EXCEPT !.refs = @ + 1, !.lock = None, !.guid = hasGuid]
    <3>1. ConnBecomes(k, d)
      BY <1>2, <2>2, RecordShared(t), Zenon DEF RecordShared, At, Opened, Return, Idle, Arg
    <3>2. conn[k] \in Connection
      BY <2>2, Zenon DEF TypeOK
    <3>3. d \in Connection
      <4>1. conn[k].refs \in Int /\ hasGuid \in BOOLEAN
        BY <3>2, Zenon DEF TypeOK, Connection
      <4> QED
        BY <3>2, <4>1, Counting, Zenon DEF Connection
    <3>4. /\ d.refs = conn[k].refs + 1 /\ d.born = conn[k].born
          /\ d.freed = conn[k].freed /\ d.connected = conn[k].connected
          /\ d.link = conn[k].link /\ d.queued = conn[k].queued
          /\ d.arrived = conn[k].arrived /\ d.processed = conn[k].processed
          /\ d.guid = hasGuid /\ d.leaked = conn[k].leaked
      BY <3>2, Zenon DEF Connection
    <3> HIDE DEF d
    <3> QED
      BY <2>2, <3>1, <3>3, <3>4, ConnBecomesIs, Zenon
  <2>7. TypeOK'
    BY <2>2, <2>3, <2>5, <2>6, Zenon DEF ThreadIs, OthersStay, TypeOK
  <2>8. OwnThread(t) /\ LivedAt(k) /\ UnmadeAt(k) /\ LeakedAt(k) /\ KeptAt(k)
    BY <2>2, Zenon DEF OwnThread, Placed, Making, Forgetting, Finalizing, Lived, Unmade,
       Leaked, Kept
  <2>9. Reaches(t, k) /\ conn[k].born /\ ~conn[k].leaked
    BY <2>2, <2>3, <2>8, Zenon DEF OwnThread, PlacedAt, MakingAt, Reaches, UnmadeAt, LivedAt,
       LeakedAt, Hidden, Tabled, Shared, SharedAssumption
  <2>10. thread[t].arg \in {None, k} /\ thread'[t].arg \in {None, k}
    BY <2>3, <2>5, <2>8, Zenon DEF OwnThread, PlacedAt, ThreadIs
  <2>11. Shared(k)'
    BY <2>2, <2>3, <2>6, ZenonT(40) DEF Shared
  <2>12. BusLocked => conn[k].refs >= 1
    BY <2>2, <2>3, <2>8, <2>9, References1 DEF OwnThread, Weak, KeptByLibrary, Works, One,
       Shared, PlacedAt, Tabled, KeptAt, LivedAt, LeakedAt, MakingAt, Hidden, Recorded,
       SharedAssumption
  <2>13. Ages(t, k)
    BY <2>3, <2>6, <2>8, <2>9, <2>11, <2>12, Zenon DEF Ages, LivedAt
  <2>14. /\ bus' = bus \/ bus \in {None, t}
         /\ (pool' = pool /\ table' = table) \/ pool \in {None, t}
         /\ slot' \in {slot, None} \/ (thread[t].at = "store" /\ slot' = k)
    BY <2>3, Zenon
  <2>15. Step(t, k)
    BY <2>2, <2>3, <2>5, <2>6, <2>7, <2>10, <2>14, <2>9, <2>13, Zenon DEF Step, ThreadIs,
       OthersStay
  <2>16. OwnThread(t)'
    <3>1. PlacedAt(t)'
      BY <2>2, <2>3, <2>5, <2>6, <2>8, <2>9, <2>11, Zenon DEF OwnThread, ThreadIs, OthersStay,
         PlacedAt, LivedAt, MakingAt, Hidden, SharedAssumption
    <3>2. MakingAt(t)'
      BY <2>2, <2>3, <2>5, <2>6, <2>8, <2>9, <2>11, Zenon DEF OwnThread, ThreadIs, OthersStay,
         MakingAt, Hidden, SharedAssumption
    <3>3. ForgettingAt(t)'
      BY <2>2, <2>3, <2>5, <2>6, <2>8, <2>9, <2>11, Zenon DEF OwnThread, ThreadIs, OthersStay,
         ForgettingAt, SharedAssumption
    <3>4. FinalizingAt(t)'
      BY <2>2, <2>3, <2>5, <2>6, <2>8, <2>9, <2>11, Zenon DEF OwnThread, ThreadIs, OthersStay,
         FinalizingAt, SharedAssumption
    <3> QED
      BY <3>1, <3>2, <3>3, <3>4, Zenon DEF OwnThread
  <2>17. OwnConn(k)'
    <3>1. LivedAt(k)'
      BY <2>3, <2>6, <2>8, <2>9, <2>11, Zenon DEF LivedAt, OwnThread, PlacedAt
    <3>2. LeakedAt(k)'
      BY <2>2, <2>3, <2>5, <2>6, <2>8, <2>9, <2>11, Zenon DEF LeakedAt
    <3>3. KeptAt(k)'
      BY <2>2, <2>3, <2>5, <2>6, <2>8, <2>9, <2>11, Zenon DEF KeptAt, OwnThread, ForgettingAt,
         Recorded, ThreadIs, LivedAt
    <3>4. Balanced(t, k)
      BY <2>2, <2>3, <2>5, <2>6, <2>8, <2>9, <2>11, Zenon DEF Balanced, Works, KeptByLibrary,
         Shared, OwnThread, PlacedAt, MakingAt, ThreadIs, Hidden, LivedAt, SharedAssumption
    <3>5. conn'[k].refs = References(k)'
      BY <2>2, <2>5, <3>4, BalanceKeeps, Zenon DEF SharedAssumption
    <3> QED
      BY <3>1, <3>2, <3>3, <3>5, Zenon DEF OwnConn
  <2>18. Tabled'
    BY <2>2, <2>3, <2>6, <2>8, <2>9, Zenon DEF Tabled, TypeOK, OthersStay, Hidden, Shared,
       OwnThread, MakingAt
  <2>19. ASSUME BusLocked PROVE OwnWeak(t, k)'
    <3>1. (slot' = k => conn'[k].link) /\ (thread'[t].at \in {"store", "mark"} => conn'[k].link)
      BY <2>2, <2>19, <2>3, <2>5, <2>6, <2>8, <2>9, ZenonT(40) DEF Weak, OwnThread, PlacedAt,
         MakingAt, LivedAt, ThreadIs, Hidden, SharedAssumption
    <3>2. (conn'[k].freed => conn'[k].refs = 0) /\ (thread'[t].at = "finalize" => conn'[k].refs = 0)
      BY <2>2, <2>19, <2>3, <2>5, <2>6, <2>8, <2>9, <2>12 DEF Weak, LivedAt, ThreadIs
    <3> QED
      BY <3>1, <3>2, Zenon DEF OwnWeak
  <2> QED
    BY <2>2, <2>3, <2>15, <2>16, <2>18, <2>17, <2>19, StepKeeps, Zenon DEF SharedAssumption
<1> QED
  BY <1>1, <1>2, RecordShared(t), Zenon DEF RecordShared, At, Opened, Return, Becomes,
     ConnBecomes, Idle, Arg

\* The reference that the table would have had is lost; nobody finds the connection.
LEMMA RecordSharedFailsKeeps ==
  ASSUME SharedAssumption, IInv, NEW t \in Threads, RecordSharedFails(t)
  PROVE  IInv'
<1> USE DEF IInv, SInv
<1>1. thread[t].arg \in Conns
  BY RecordSharedFails(t), Zenon DEF RecordSharedFails, At, Go, Becomes, ConnBecomes, Arg,
     TypeOK, Thread, Placed, PlacedAt
<1>2. PICK k \in Conns : k = thread[t].arg
  BY <1>1, Zenon
<1>3. /\ thread[t].at = "record"
      /\ thread[t].arg = k
      /\ crash = "none"
      /\ hasGuid' = hasGuid
      /\ table' = table
      /\ noGuid' = noGuid
      /\ slot' = slot
      /\ bus' = bus
      /\ pool' = pool
      /\ crash' = crash
  BY <1>2, RecordSharedFails(t), Zenon DEF RecordSharedFails, At, Go, Becomes, ConnBecomes, Arg
<1>4. thread[t] \in Thread
  BY Zenon DEF TypeOK
<1>5. ThreadIs(t, "close", thread[t].busGet, k, thread[t].holds)
  <2> DEFINE r == [thread[t] EXCEPT !.at = "close"]
  <2>1. Becomes(t, r)
    BY <1>2, RecordSharedFails(t), Zenon DEF RecordSharedFails, At, Go, Arg
  <2>2. r \in Thread
    BY <1>3, <1>4, <1>2, Zenon DEF Thread, Places, Idle, TypeOK
  <2>3. r.at = ("close") /\ r.busGet = thread[t].busGet /\ r.arg = k /\ r.holds = thread[t].holds
    BY <1>2, <1>3, <1>4, Zenon DEF Thread, Idle
  <2> HIDE DEF r
  <2> QED
    BY <2>1, <2>2, <2>3, BecomesIs, Zenon
<1>6. /\ OthersStay(k)
      /\ conn'[k].refs = conn[k].refs + 1 /\ conn'[k].born = conn[k].born
      /\ conn'[k].freed = conn[k].freed /\ conn'[k].connected = conn[k].connected
      /\ conn'[k].link = conn[k].link /\ conn'[k].queued = conn[k].queued
      /\ conn'[k].arrived = conn[k].arrived /\ conn'[k].processed = conn[k].processed
      /\ conn'[k].guid = conn[k].guid /\ conn'[k].leaked = TRUE
  <2> DEFINE d == [conn[k] EXCEPT !.refs = @ + 1, !.lock = None, !.leaked = TRUE]
  <2>1. ConnBecomes(k, d)
    BY <1>2, RecordSharedFails(t), Zenon DEF RecordSharedFails, At, Go, Arg
  <2>2. conn[k] \in Connection
    BY <1>2, Zenon DEF TypeOK
  <2>3. d \in Connection
    <3>1. conn[k].refs \in Int /\ hasGuid \in BOOLEAN
      BY <2>2, Zenon DEF TypeOK, Connection
    <3> QED
      BY <2>2, <3>1, Counting, Zenon DEF Connection
  <2>4. /\ d.refs = conn[k].refs + 1 /\ d.born = conn[k].born
        /\ d.freed = conn[k].freed /\ d.connected = conn[k].connected
        /\ d.link = conn[k].link /\ d.queued = conn[k].queued
        /\ d.arrived = conn[k].arrived /\ d.processed = conn[k].processed
        /\ d.guid = conn[k].guid /\ d.leaked = TRUE
    BY <2>2, Zenon DEF Connection
  <2> HIDE DEF d
  <2> QED
    BY <1>2, <2>1, <2>3, <2>4, ConnBecomesIs, Zenon
<1>7. TypeOK'
  BY <1>2, <1>3, <1>5, <1>6, Zenon DEF ThreadIs, OthersStay, TypeOK
<1>8. OwnThread(t) /\ LivedAt(k) /\ UnmadeAt(k) /\ LeakedAt(k) /\ KeptAt(k)
  BY <1>2, Zenon DEF OwnThread, Placed, Making, Forgetting, Finalizing, Lived, Unmade, Leaked,
     Kept
<1>9. Reaches(t, k) /\ conn[k].born /\ ~conn[k].leaked
  BY <1>2, <1>3, <1>8, Zenon DEF OwnThread, PlacedAt, MakingAt, Reaches, UnmadeAt, LivedAt,
     LeakedAt, Hidden, Tabled, Shared, SharedAssumption
<1>10. thread[t].arg \in {None, k} /\ thread'[t].arg \in {None, k}
  BY <1>3, <1>5, <1>8, Zenon DEF OwnThread, PlacedAt, ThreadIs
<1>11. Shared(k)' <=> Shared(k)
  BY <1>2, <1>3, <1>6, ZenonT(40) DEF Shared
<1>12. BusLocked => conn[k].refs >= 1
  BY <1>2, <1>3, <1>8, <1>9, References1 DEF OwnThread, Weak, KeptByLibrary, Works, One,
     Shared, PlacedAt, Tabled, KeptAt, LivedAt, LeakedAt, MakingAt, Hidden, Recorded,
     SharedAssumption
<1>13. Ages(t, k)
  BY <1>3, <1>6, <1>8, <1>9, <1>11, <1>12, Zenon DEF Ages, LivedAt
<1>14. /\ bus' = bus \/ bus \in {None, t}
       /\ (pool' = pool /\ table' = table) \/ pool \in {None, t}
       /\ slot' \in {slot, None} \/ (thread[t].at = "store" /\ slot' = k)
  BY <1>3, Zenon
<1>15. Step(t, k)
  BY <1>2, <1>3, <1>5, <1>6, <1>7, <1>10, <1>14, <1>9, <1>13, ZenonT(40) DEF Step, ThreadIs,
     OthersStay
<1>16. OwnThread(t)'
  <2>1. PlacedAt(t)'
    BY <1>2, <1>3, <1>5, <1>6, <1>8, <1>9, <1>11, ZenonT(40) DEF OwnThread, ThreadIs,
       OthersStay, PlacedAt, LivedAt, MakingAt, Hidden, SharedAssumption
  <2>2. MakingAt(t)'
    BY <1>2, <1>3, <1>5, <1>6, <1>8, <1>9, <1>11, Zenon DEF OwnThread, ThreadIs, OthersStay,
       MakingAt, Hidden, SharedAssumption
  <2>3. ForgettingAt(t)'
    BY <1>2, <1>3, <1>5, <1>6, <1>8, <1>9, <1>11, Zenon DEF OwnThread, ThreadIs, OthersStay,
       ForgettingAt, SharedAssumption
  <2>4. FinalizingAt(t)'
    BY <1>2, <1>3, <1>5, <1>6, <1>8, <1>9, <1>11, ZenonT(40) DEF OwnThread, ThreadIs, OthersStay,
       FinalizingAt, SharedAssumption
  <2> QED
    BY <2>1, <2>2, <2>3, <2>4, Zenon DEF OwnThread
<1>17. OwnConn(k)'
  <2>1. LivedAt(k)'
    BY <1>3, <1>6, <1>8, <1>9, <1>11, ZenonT(40) DEF LivedAt, OwnThread, PlacedAt
  <2>2. LeakedAt(k)'
    BY <1>2, <1>3, <1>5, <1>6, <1>8, <1>9, <1>11 DEF LeakedAt, Hidden, LivedAt, OwnThread,
       MakingAt, ThreadIs, OthersStay, SharedAssumption
  <2>3. KeptAt(k)'
    BY <1>2, <1>3, <1>5, <1>6, <1>8, <1>9, <1>11, Zenon DEF KeptAt, OwnThread, ForgettingAt,
       Recorded, ThreadIs, LivedAt
  <2>4. Balanced(t, k)
    BY <1>2, <1>3, <1>5, <1>6, <1>8, <1>9, <1>11, Zenon DEF Balanced, Works, KeptByLibrary,
       Shared, OwnThread, PlacedAt, MakingAt, ThreadIs, Hidden, LivedAt, SharedAssumption
  <2>5. conn'[k].refs = References(k)'
    BY <1>2, <1>5, <2>4, BalanceKeeps, Zenon DEF SharedAssumption
  <2> QED
    BY <2>1, <2>2, <2>3, <2>5, Zenon DEF OwnConn
<1>18. Tabled'
  BY <1>2, <1>3, <1>6, Zenon DEF Tabled, TypeOK, OthersStay
<1>19. ASSUME BusLocked PROVE OwnWeak(t, k)'
  <2>1. (slot' = k => conn'[k].link) /\ (thread'[t].at \in {"store", "mark"} => conn'[k].link)
    BY <1>2, <1>19, <1>3, <1>5, <1>6, <1>8, <1>9, ZenonT(40) DEF Weak, OwnThread, PlacedAt,
       MakingAt, LivedAt, ThreadIs, Hidden, SharedAssumption
  <2>2. (conn'[k].freed => conn'[k].refs = 0) /\ (thread'[t].at = "finalize" => conn'[k].refs = 0)
    BY <1>2, <1>19, <1>3, <1>5, <1>6, <1>8, <1>9, <1>12 DEF Weak, LivedAt, ThreadIs
  <2> QED
    BY <2>1, <2>2, Zenon DEF OwnWeak
<1> QED
  BY <1>2, <1>3, <1>15, <1>16, <1>18, <1>17, <1>19, StepKeeps, Zenon DEF SharedAssumption

\* dbus_bus_register succeeds or fails.
LEMMA RegisterKeeps ==
  ASSUME SharedAssumption, IInv, NEW t \in Threads, Register(t)
  PROVE  IInv'
<1> USE DEF IInv, SInv
<1>1. CASE conn[Arg(t)].connected /\ Go(t, "store")
  <2>1. thread[t].arg \in Conns
    BY <1>1, Register(t), Zenon DEF Register, At, Go, Becomes, Arg, TypeOK, Thread, Placed,
       PlacedAt
  <2>2. PICK k \in Conns : k = thread[t].arg
    BY <2>1, Zenon
  <2>3. /\ thread[t].at = "register"
        /\ conn[k].connected
        /\ thread[t].arg = k
        /\ crash = "none"
        /\ hasGuid' = hasGuid
        /\ table' = table
        /\ noGuid' = noGuid
        /\ slot' = slot
        /\ bus' = bus
        /\ pool' = pool
        /\ crash' = crash
    BY <1>1, <2>2, Register(t), Zenon DEF Register, At, Go, Becomes, Arg
  <2>4. thread[t] \in Thread
    BY Zenon DEF TypeOK
  <2>5. ThreadIs(t, "store", thread[t].busGet, k, thread[t].holds)
    <3> DEFINE r == [thread[t] EXCEPT !.at = "store"]
    <3>1. Becomes(t, r)
      BY <1>1, <2>2, Register(t), Zenon DEF Register, At, Go, Arg
    <3>2. r \in Thread
      BY <2>3, <2>4, Zenon DEF Thread, Places, Idle, TypeOK
    <3>3. r.at = ("store") /\ r.busGet = thread[t].busGet /\ r.arg = k /\ r.holds = thread[t].holds
      BY <1>1, <2>2, <2>3, <2>4, Zenon DEF Thread, Idle
    <3> HIDE DEF r
    <3> QED
      BY <3>1, <3>2, <3>3, BecomesIs, Zenon
  <2>6. conn' = conn
    BY <1>1, <2>2, Register(t), Zenon DEF Register, At, Go, Becomes, Arg
  <2>7. TypeOK'
    BY <2>2, <2>3, <2>5, <2>6, Zenon DEF ThreadIs, TypeOK
  <2>8. OwnThread(t) /\ LivedAt(k) /\ UnmadeAt(k) /\ LeakedAt(k) /\ KeptAt(k)
    BY <2>2, Zenon DEF OwnThread, Placed, Making, Forgetting, Finalizing, Lived, Unmade,
       Leaked, Kept
  <2>9. Reaches(t, k) /\ conn[k].born /\ ~conn[k].leaked
    BY <2>2, <2>3, <2>8, Zenon DEF OwnThread, PlacedAt, MakingAt, Reaches, UnmadeAt, LivedAt,
       LeakedAt, Hidden, Tabled, Shared, SharedAssumption
  <2>10. thread[t].arg \in {None, k} /\ thread'[t].arg \in {None, k}
    BY <2>3, <2>5, <2>8, Zenon DEF OwnThread, PlacedAt, ThreadIs
  <2>11. Shared(k)' <=> Shared(k)
    BY <2>2, <2>3, <2>6, Zenon DEF Shared
  <2>12. Ages(t, k)
    BY <2>3, <2>6, <2>8, <2>9, <2>11, Zenon DEF Ages, LivedAt
  <2>13. /\ bus' = bus \/ bus \in {None, t}
         /\ (pool' = pool /\ table' = table) \/ pool \in {None, t}
         /\ slot' \in {slot, None} \/ (thread[t].at = "store" /\ slot' = k)
    BY <2>3, Zenon
  <2>14. Step(t, k)
    BY <2>2, <2>3, <2>5, <2>6, <2>7, <2>10, <2>13, <2>9, <2>12, ZenonT(40) DEF Step, ThreadIs
  <2>15. OwnThread(t)'
    <3>1. PlacedAt(t)'
      BY <2>2, <2>3, <2>5, <2>6, <2>8, <2>9, <2>11, Zenon DEF OwnThread, ThreadIs, PlacedAt,
         LivedAt, MakingAt, Hidden, SharedAssumption
    <3>2. MakingAt(t)'
      BY <2>2, <2>3, <2>5, <2>6, <2>8, <2>9, <2>11, Zenon DEF OwnThread, ThreadIs, MakingAt,
         Hidden, SharedAssumption
    <3>3. ForgettingAt(t)'
      BY <2>2, <2>3, <2>5, <2>6, <2>8, <2>9, <2>11, Zenon DEF OwnThread, ThreadIs,
         ForgettingAt, SharedAssumption
    <3>4. FinalizingAt(t)'
      BY <2>2, <2>3, <2>5, <2>6, <2>8, <2>9, <2>11, Zenon DEF OwnThread, ThreadIs,
         FinalizingAt, SharedAssumption
    <3> QED
      BY <3>1, <3>2, <3>3, <3>4, Zenon DEF OwnThread
  <2>16. OwnConn(k)'
    <3>1. LivedAt(k)'
      BY <2>3, <2>6, <2>8, <2>9, <2>11, Zenon DEF LivedAt, OwnThread, PlacedAt
    <3>2. LeakedAt(k)'
      BY <2>2, <2>3, <2>5, <2>6, <2>8, <2>9, <2>11, Zenon DEF LeakedAt
    <3>3. KeptAt(k)'
      BY <2>2, <2>3, <2>5, <2>6, <2>8, <2>9, <2>11, Zenon DEF KeptAt, OwnThread, ForgettingAt,
         Recorded, ThreadIs, LivedAt
    <3>4. Balanced(t, k)
      BY <2>2, <2>3, <2>5, <2>6, <2>8, <2>9, <2>11, Zenon DEF Balanced, Works, KeptByLibrary,
         Shared, OwnThread, PlacedAt, MakingAt, ThreadIs, Hidden, LivedAt, SharedAssumption
    <3>5. conn'[k].refs = References(k)'
      BY <2>2, <2>5, <3>4, BalanceKeeps, Zenon DEF SharedAssumption
    <3> QED
      BY <3>1, <3>2, <3>3, <3>5, Zenon DEF OwnConn
  <2>17. Tabled'
    BY <2>2, <2>3, <2>6, Zenon DEF Tabled, TypeOK
  <2>18. ASSUME BusLocked PROVE OwnWeak(t, k)'
    <3>1. (slot' = k => conn'[k].link) /\ (thread'[t].at \in {"store", "mark"} => conn'[k].link)
      BY <2>2, <2>18, <2>3, <2>5, <2>6, <2>8, <2>9, Zenon DEF Weak, OwnThread, PlacedAt,
         MakingAt, LivedAt, ThreadIs, Hidden, SharedAssumption
    <3>2. (conn'[k].freed => conn'[k].refs = 0) /\ (thread'[t].at = "finalize" => conn'[k].refs = 0)
      BY <2>2, <2>18, <2>3, <2>5, <2>6, <2>8, <2>9, Zenon DEF Weak, LivedAt, ThreadIs
    <3> QED
      BY <3>1, <3>2, Zenon DEF OwnWeak
  <2> QED
    BY <2>2, <2>3, <2>14, <2>15, <2>17, <2>16, <2>18, StepKeeps, Zenon DEF SharedAssumption
<1>2. CASE Go(t, "close")
  <2>1. thread[t].arg \in Conns
    BY <1>2, Register(t), Zenon DEF Register, At, Go, Becomes, Arg, TypeOK, Thread, Placed,
       PlacedAt
  <2>2. PICK k \in Conns : k = thread[t].arg
    BY <2>1, Zenon
  <2>3. /\ thread[t].at = "register"
        /\ thread[t].arg = k
        /\ crash = "none"
        /\ hasGuid' = hasGuid
        /\ table' = table
        /\ noGuid' = noGuid
        /\ slot' = slot
        /\ bus' = bus
        /\ pool' = pool
        /\ crash' = crash
    BY <1>2, <2>2, Register(t), Zenon DEF Register, At, Go, Becomes, Arg
  <2>4. thread[t] \in Thread
    BY Zenon DEF TypeOK
  <2>5. ThreadIs(t, "close", thread[t].busGet, k, thread[t].holds)
    <3> DEFINE r == [thread[t] EXCEPT !.at = "close"]
    <3>1. Becomes(t, r)
      BY <1>2, <2>2, Register(t), Zenon DEF Register, At, Go, Arg
    <3>2. r \in Thread
      BY <2>3, <2>4, Zenon DEF Thread, Places, Idle, TypeOK
    <3>3. r.at = ("close") /\ r.busGet = thread[t].busGet /\ r.arg = k /\ r.holds = thread[t].holds
      BY <1>2, <2>2, <2>3, <2>4, Zenon DEF Thread, Idle
    <3> HIDE DEF r
    <3> QED
      BY <3>1, <3>2, <3>3, BecomesIs, Zenon
  <2>6. conn' = conn
    BY <1>2, <2>2, Register(t), Zenon DEF Register, At, Go, Becomes, Arg
  <2>7. TypeOK'
    BY <2>2, <2>3, <2>5, <2>6, Zenon DEF ThreadIs, TypeOK
  <2>8. OwnThread(t) /\ LivedAt(k) /\ UnmadeAt(k) /\ LeakedAt(k) /\ KeptAt(k)
    BY <2>2, Zenon DEF OwnThread, Placed, Making, Forgetting, Finalizing, Lived, Unmade,
       Leaked, Kept
  <2>9. Reaches(t, k) /\ conn[k].born /\ ~conn[k].leaked
    BY <2>2, <2>3, <2>8, Zenon DEF OwnThread, PlacedAt, MakingAt, Reaches, UnmadeAt, LivedAt,
       LeakedAt, Hidden, Tabled, Shared, SharedAssumption
  <2>10. thread[t].arg \in {None, k} /\ thread'[t].arg \in {None, k}
    BY <2>3, <2>5, <2>8, Zenon DEF OwnThread, PlacedAt, ThreadIs
  <2>11. Shared(k)' <=> Shared(k)
    BY <2>2, <2>3, <2>6, Zenon DEF Shared
  <2>12. Ages(t, k)
    BY <2>3, <2>6, <2>8, <2>9, <2>11, Zenon DEF Ages, LivedAt
  <2>13. /\ bus' = bus \/ bus \in {None, t}
         /\ (pool' = pool /\ table' = table) \/ pool \in {None, t}
         /\ slot' \in {slot, None} \/ (thread[t].at = "store" /\ slot' = k)
    BY <2>3, Zenon
  <2>14. Step(t, k)
    BY <2>2, <2>3, <2>5, <2>6, <2>7, <2>10, <2>13, <2>9, <2>12, Zenon DEF Step, ThreadIs
  <2>15. OwnThread(t)'
    <3>1. PlacedAt(t)'
      BY <2>2, <2>3, <2>5, <2>6, <2>8, <2>9, <2>11, Zenon DEF OwnThread, ThreadIs, PlacedAt,
         LivedAt, MakingAt, Hidden, SharedAssumption
    <3>2. MakingAt(t)'
      BY <2>2, <2>3, <2>5, <2>6, <2>8, <2>9, <2>11, Zenon DEF OwnThread, ThreadIs, MakingAt,
         Hidden, SharedAssumption
    <3>3. ForgettingAt(t)'
      BY <2>2, <2>3, <2>5, <2>6, <2>8, <2>9, <2>11, Zenon DEF OwnThread, ThreadIs,
         ForgettingAt, SharedAssumption
    <3>4. FinalizingAt(t)'
      BY <2>2, <2>3, <2>5, <2>6, <2>8, <2>9, <2>11, Zenon DEF OwnThread, ThreadIs,
         FinalizingAt, SharedAssumption
    <3> QED
      BY <3>1, <3>2, <3>3, <3>4, Zenon DEF OwnThread
  <2>16. OwnConn(k)'
    <3>1. LivedAt(k)'
      BY <2>3, <2>6, <2>8, <2>9, <2>11, Zenon DEF LivedAt, OwnThread, PlacedAt
    <3>2. LeakedAt(k)'
      BY <2>2, <2>3, <2>5, <2>6, <2>8, <2>9, <2>11, Zenon DEF LeakedAt
    <3>3. KeptAt(k)'
      BY <2>2, <2>3, <2>5, <2>6, <2>8, <2>9, <2>11, Zenon DEF KeptAt, OwnThread, ForgettingAt,
         Recorded, ThreadIs, LivedAt
    <3>4. Balanced(t, k)
      BY <2>2, <2>3, <2>5, <2>6, <2>8, <2>9, <2>11, Zenon DEF Balanced, Works, KeptByLibrary,
         Shared, OwnThread, PlacedAt, MakingAt, ThreadIs, Hidden, LivedAt, SharedAssumption
    <3>5. conn'[k].refs = References(k)'
      BY <2>2, <2>5, <3>4, BalanceKeeps, Zenon DEF SharedAssumption
    <3> QED
      BY <3>1, <3>2, <3>3, <3>5, Zenon DEF OwnConn
  <2>17. Tabled'
    BY <2>2, <2>3, <2>6, Zenon DEF Tabled, TypeOK
  <2>18. ASSUME BusLocked PROVE OwnWeak(t, k)'
    <3>1. (slot' = k => conn'[k].link) /\ (thread'[t].at \in {"store", "mark"} => conn'[k].link)
      BY <2>2, <2>18, <2>3, <2>5, <2>6, <2>8, <2>9, Zenon DEF Weak, OwnThread, PlacedAt,
         MakingAt, LivedAt, ThreadIs, Hidden, SharedAssumption
    <3>2. (conn'[k].freed => conn'[k].refs = 0) /\ (thread'[t].at = "finalize" => conn'[k].refs = 0)
      BY <2>2, <2>18, <2>3, <2>5, <2>6, <2>8, <2>9, Zenon DEF Weak, LivedAt, ThreadIs
    <3> QED
      BY <3>1, <3>2, Zenon DEF OwnWeak
  <2> QED
    BY <2>2, <2>3, <2>14, <2>15, <2>17, <2>16, <2>18, StepKeeps, Zenon DEF SharedAssumption
<1> QED
  BY <1>1, <1>2, Register(t), Zenon DEF Register, At, Go, Becomes, Arg

\* The weak reference of dbus-bus.c is set under the bus lock.
LEMMA StoreKeeps ==
  ASSUME SharedAssumption, IInv, NEW t \in Threads, Store(t)
  PROVE  IInv'
<1> USE DEF IInv, SInv
<1>1. thread[t].arg \in Conns
  BY Store(t), Zenon DEF Store, At, Go, Becomes, Arg, TypeOK, Thread, Placed, PlacedAt
<1>2. PICK k \in Conns : k = thread[t].arg
  BY <1>1, Zenon
<1>3. /\ thread[t].at = "store"
      /\ thread[t].arg = k
      /\ crash = "none"
      /\ hasGuid' = hasGuid
      /\ table' = table
      /\ noGuid' = noGuid
      /\ slot' = k
      /\ bus' = bus
      /\ pool' = pool
      /\ crash' = crash
  BY <1>2, Store(t), Zenon DEF Store, At, Go, Becomes, Arg
<1>4. thread[t] \in Thread
  BY Zenon DEF TypeOK
<1>5. ThreadIs(t, "mark", thread[t].busGet, k, thread[t].holds)
  <2> DEFINE r == [thread[t] EXCEPT !.at = "mark"]
  <2>1. Becomes(t, r)
    BY <1>2, Store(t), Zenon DEF Store, At, Go, Arg
  <2>2. r \in Thread
    BY <1>3, <1>4, Zenon DEF Thread, Places, Idle, TypeOK
  <2>3. r.at = ("mark") /\ r.busGet = thread[t].busGet /\ r.arg = k /\ r.holds = thread[t].holds
    BY <1>2, <1>3, <1>4, Zenon DEF Thread, Idle
  <2> HIDE DEF r
  <2> QED
    BY <2>1, <2>2, <2>3, BecomesIs, Zenon
<1>6. conn' = conn
  BY <1>2, Store(t), Zenon DEF Store, At, Go, Becomes, Arg
<1>7. TypeOK'
  BY <1>2, <1>3, <1>5, <1>6, Zenon DEF ThreadIs, TypeOK
<1>8. OwnThread(t) /\ LivedAt(k) /\ UnmadeAt(k) /\ LeakedAt(k) /\ KeptAt(k)
  BY <1>2, Zenon DEF OwnThread, Placed, Making, Forgetting, Finalizing, Lived, Unmade, Leaked,
     Kept
<1>9. Reaches(t, k) /\ conn[k].born /\ ~conn[k].leaked
  BY <1>2, <1>3, <1>8, Zenon DEF OwnThread, PlacedAt, MakingAt, Reaches, UnmadeAt, LivedAt,
     LeakedAt, Hidden, Tabled, Shared, SharedAssumption
<1>10. thread[t].arg \in {None, k} /\ thread'[t].arg \in {None, k}
  BY <1>3, <1>5, <1>8, Zenon DEF OwnThread, PlacedAt, ThreadIs
<1>11. Shared(k)' <=> Shared(k)
  BY <1>2, <1>3, <1>6, Zenon DEF Shared
<1>12. Ages(t, k)
  BY <1>3, <1>6, <1>8, <1>9, <1>11, Zenon DEF Ages, LivedAt
<1>13. /\ bus' = bus \/ bus \in {None, t}
       /\ (pool' = pool /\ table' = table) \/ pool \in {None, t}
       /\ slot' \in {slot, None} \/ (thread[t].at = "store" /\ slot' = k)
  BY <1>3, Zenon
<1>14. Step(t, k)
  BY <1>2, <1>3, <1>5, <1>6, <1>7, <1>10, <1>13, <1>9, <1>12, Zenon DEF Step, ThreadIs
<1>15. OwnThread(t)'
  <2>1. PlacedAt(t)'
    BY <1>2, <1>3, <1>5, <1>6, <1>8, <1>9, <1>11, Zenon DEF OwnThread, ThreadIs, PlacedAt,
       LivedAt, MakingAt, Hidden, SharedAssumption
  <2>2. MakingAt(t)'
    BY <1>2, <1>3, <1>5, <1>6, <1>8, <1>9, <1>11, Zenon DEF OwnThread, ThreadIs, MakingAt,
       Hidden, SharedAssumption
  <2>3. ForgettingAt(t)'
    BY <1>2, <1>3, <1>5, <1>6, <1>8, <1>9, <1>11, Zenon DEF OwnThread, ThreadIs, ForgettingAt,
       SharedAssumption
  <2>4. FinalizingAt(t)'
    BY <1>2, <1>3, <1>5, <1>6, <1>8, <1>9, <1>11, Zenon DEF OwnThread, ThreadIs, FinalizingAt,
       SharedAssumption
  <2> QED
    BY <2>1, <2>2, <2>3, <2>4, Zenon DEF OwnThread
<1>16. OwnConn(k)'
  <2>1. LivedAt(k)'
    BY <1>3, <1>6, <1>8, <1>9, <1>11, Zenon DEF LivedAt, OwnThread, PlacedAt
  <2>2. LeakedAt(k)'
    BY <1>2, <1>3, <1>5, <1>6, <1>8, <1>9, <1>11, Zenon DEF LeakedAt
  <2>3. KeptAt(k)'
    BY <1>2, <1>3, <1>5, <1>6, <1>8, <1>9, <1>11, Zenon DEF KeptAt, OwnThread, ForgettingAt,
       Recorded, ThreadIs, LivedAt
  <2>4. Balanced(t, k)
    BY <1>2, <1>3, <1>5, <1>6, <1>8, <1>9, <1>11, Zenon DEF Balanced, Works, KeptByLibrary,
       Shared, OwnThread, PlacedAt, MakingAt, ThreadIs, Hidden, LivedAt, SharedAssumption
  <2>5. conn'[k].refs = References(k)'
    BY <1>2, <1>5, <2>4, BalanceKeeps, Zenon DEF SharedAssumption
  <2> QED
    BY <2>1, <2>2, <2>3, <2>5, Zenon DEF OwnConn
<1>17. Tabled'
  BY <1>2, <1>3, <1>6, Zenon DEF Tabled, TypeOK
<1>18. ASSUME BusLocked PROVE OwnWeak(t, k)'
  <2>1. (slot' = k => conn'[k].link) /\ (thread'[t].at \in {"store", "mark"} => conn'[k].link)
    BY <1>2, <1>18, <1>3, <1>5, <1>6, <1>8, <1>9, Zenon DEF Weak, OwnThread, PlacedAt,
       MakingAt, LivedAt, ThreadIs, Hidden, SharedAssumption
  <2>2. (conn'[k].freed => conn'[k].refs = 0) /\ (thread'[t].at = "finalize" => conn'[k].refs = 0)
    BY <1>2, <1>18, <1>3, <1>5, <1>6, <1>8, <1>9, Zenon DEF Weak, LivedAt, ThreadIs
  <2> QED
    BY <2>1, <2>2, Zenon DEF OwnWeak
<1> QED
  BY <1>2, <1>3, <1>14, <1>15, <1>17, <1>16, <1>18, StepKeeps, Zenon DEF SharedAssumption

\* dbus_bus_get returns the connection; its working reference is the caller's.
LEMMA MarkKeeps ==
  ASSUME SharedAssumption, IInv, NEW t \in Threads, Mark(t)
  PROVE  IInv'
<1> USE DEF IInv, SInv
<1>1. thread[t].arg \in Conns
  BY Mark(t), Zenon DEF Mark, At, Return, Becomes, ConnBecomes, Idle, Arg, TypeOK, Thread,
     Placed, PlacedAt
<1>2. PICK k \in Conns : k = thread[t].arg
  BY <1>1, Zenon
<1>3. /\ thread[t].at = "mark"
      /\ thread[t].arg = k
      /\ crash = "none"
      /\ hasGuid' = hasGuid
      /\ table' = table
      /\ noGuid' = noGuid
      /\ slot' = slot
      /\ bus' = None
      /\ pool' = pool
      /\ crash' = crash
  BY <1>2, Mark(t), Zenon DEF Mark, At, Return, Becomes, ConnBecomes, Idle, Arg
<1>4. thread[t] \in Thread
  BY Zenon DEF TypeOK
<1>5. ThreadIs(t, "idle", FALSE, None, thread[t].holds \cup {k})
  <2> DEFINE r == [Idle EXCEPT !.holds = thread[t].holds \cup {k}]
  <2>1. Becomes(t, r)
    BY <1>2, Mark(t), Zenon DEF Mark, At, Return, Idle, Arg
  <2>2. r \in Thread
    BY <1>3, <1>4, <1>2, Zenon DEF Thread, Places, Idle, TypeOK
  <2>3. r.at = ("idle") /\ r.busGet = FALSE /\ r.arg = None /\ r.holds = thread[t].holds \cup {k}
    BY <1>2, <1>3, <1>4, Zenon DEF Thread, Idle
  <2> HIDE DEF r
  <2> QED
    BY <2>1, <2>2, <2>3, BecomesIs, Zenon
<1>6. /\ OthersStay(k)
      /\ conn'[k].refs = conn[k].refs /\ conn'[k].born = conn[k].born
      /\ conn'[k].freed = conn[k].freed /\ conn'[k].connected = conn[k].connected
      /\ conn'[k].link = conn[k].link /\ conn'[k].queued = conn[k].queued
      /\ conn'[k].arrived = conn[k].arrived /\ conn'[k].processed = conn[k].processed
      /\ conn'[k].guid = conn[k].guid /\ conn'[k].leaked = conn[k].leaked
  <2> DEFINE d == [conn[k] EXCEPT !.wellKnown = TRUE]
  <2>1. ConnBecomes(k, d)
    BY <1>2, Mark(t), Zenon DEF Mark, At, Return, Idle, Arg
  <2>2. conn[k] \in Connection
    BY <1>2, Zenon DEF TypeOK
  <2>3. d \in Connection
    <3>1. conn[k].refs \in Int /\ hasGuid \in BOOLEAN
      BY <2>2, Zenon DEF TypeOK, Connection
    <3> QED
      BY <2>2, <3>1, Counting, Zenon DEF Connection
  <2>4. /\ d.refs = conn[k].refs /\ d.born = conn[k].born
        /\ d.freed = conn[k].freed /\ d.connected = conn[k].connected
        /\ d.link = conn[k].link /\ d.queued = conn[k].queued
        /\ d.arrived = conn[k].arrived /\ d.processed = conn[k].processed
        /\ d.guid = conn[k].guid /\ d.leaked = conn[k].leaked
    BY <2>2, Zenon DEF Connection
  <2> HIDE DEF d
  <2> QED
    BY <1>2, <2>1, <2>3, <2>4, ConnBecomesIs, Zenon
<1>7. TypeOK'
  BY <1>2, <1>3, <1>5, <1>6, Zenon DEF ThreadIs, OthersStay, TypeOK
<1>8. OwnThread(t) /\ LivedAt(k) /\ UnmadeAt(k) /\ LeakedAt(k) /\ KeptAt(k)
  BY <1>2, Zenon DEF OwnThread, Placed, Making, Forgetting, Finalizing, Lived, Unmade, Leaked,
     Kept
<1>9. Reaches(t, k) /\ conn[k].born /\ ~conn[k].leaked
  BY <1>2, <1>3, <1>8, Zenon DEF OwnThread, PlacedAt, MakingAt, Reaches, UnmadeAt, LivedAt,
     LeakedAt, Hidden, Tabled, Shared, SharedAssumption
<1>10. thread[t].arg \in {None, k} /\ thread'[t].arg \in {None, k}
  BY <1>3, <1>5, <1>8, Zenon DEF OwnThread, PlacedAt, ThreadIs
<1>11. Shared(k)' <=> Shared(k)
  BY <1>2, <1>3, <1>6, Zenon DEF Shared
<1>12. Ages(t, k)
  BY <1>3, <1>6, <1>8, <1>9, <1>11, Zenon DEF Ages, LivedAt
<1>13. /\ bus' = bus \/ bus \in {None, t}
       /\ (pool' = pool /\ table' = table) \/ pool \in {None, t}
       /\ slot' \in {slot, None} \/ (thread[t].at = "store" /\ slot' = k)
  BY <1>3, <1>8, Zenon DEF OwnThread, PlacedAt
<1>14. Step(t, k)
  BY <1>2, <1>3, <1>5, <1>6, <1>7, <1>10, <1>13, <1>9, <1>12, ZenonT(40) DEF Step, ThreadIs,
     OthersStay
<1>15. OwnThread(t)'
  <2>1. PlacedAt(t)'
    BY <1>2, <1>3, <1>5, <1>6, <1>8, <1>9, <1>11, Zenon DEF OwnThread, ThreadIs, OthersStay,
       PlacedAt, LivedAt, MakingAt, Hidden, SharedAssumption
  <2>2. MakingAt(t)'
    BY <1>2, <1>3, <1>5, <1>6, <1>8, <1>9, <1>11, Zenon DEF OwnThread, ThreadIs, OthersStay,
       MakingAt, Hidden, SharedAssumption
  <2>3. ForgettingAt(t)'
    BY <1>2, <1>3, <1>5, <1>6, <1>8, <1>9, <1>11, Zenon DEF OwnThread, ThreadIs, OthersStay,
       ForgettingAt, SharedAssumption
  <2>4. FinalizingAt(t)'
    BY <1>2, <1>3, <1>5, <1>6, <1>8, <1>9, <1>11, Zenon DEF OwnThread, ThreadIs, OthersStay,
       FinalizingAt, SharedAssumption
  <2> QED
    BY <2>1, <2>2, <2>3, <2>4, Zenon DEF OwnThread
<1>16. OwnConn(k)'
  <2>1. LivedAt(k)'
    BY <1>3, <1>6, <1>8, <1>9, <1>11, Zenon DEF LivedAt, OwnThread, PlacedAt
  <2>2. LeakedAt(k)'
    BY <1>2, <1>3, <1>5, <1>6, <1>8, <1>9, <1>11, Zenon DEF LeakedAt
  <2>3. KeptAt(k)'
    BY <1>2, <1>3, <1>5, <1>6, <1>8, <1>9, <1>11, Zenon DEF KeptAt, OwnThread, ForgettingAt,
       Recorded, ThreadIs, LivedAt
  <2>4. Balanced(t, k)
    BY <1>2, <1>3, <1>5, <1>6, <1>8, <1>9, <1>11, Zenon DEF Balanced, Works, KeptByLibrary,
       Shared, OwnThread, PlacedAt, MakingAt, ThreadIs, Hidden, LivedAt, SharedAssumption
  <2>5. conn'[k].refs = References(k)'
    BY <1>2, <1>5, <2>4, BalanceKeeps, Zenon DEF SharedAssumption
  <2> QED
    BY <2>1, <2>2, <2>3, <2>5, Zenon DEF OwnConn
<1>17. Tabled'
  BY <1>2, <1>3, <1>6, Zenon DEF Tabled, TypeOK, OthersStay
<1>18. ASSUME BusLocked PROVE OwnWeak(t, k)'
  <2>1. (slot' = k => conn'[k].link) /\ (thread'[t].at \in {"store", "mark"} => conn'[k].link)
    BY <1>2, <1>18, <1>3, <1>5, <1>6, <1>8, <1>9, Zenon DEF Weak, OwnThread, PlacedAt,
       MakingAt, LivedAt, ThreadIs, Hidden, SharedAssumption
  <2>2. (conn'[k].freed => conn'[k].refs = 0) /\ (thread'[t].at = "finalize" => conn'[k].refs = 0)
    BY <1>2, <1>18, <1>3, <1>5, <1>6, <1>8, <1>9, Zenon DEF Weak, LivedAt, ThreadIs
  <2> QED
    BY <2>1, <2>2, Zenon DEF OwnWeak
<1> QED
  BY <1>2, <1>3, <1>14, <1>15, <1>17, <1>16, <1>18, StepKeeps, Zenon DEF SharedAssumption

\* A dispatch works on a connection that its thread holds.
LEMMA DispatchKeeps ==
  ASSUME SharedAssumption, IInv, NEW t \in Threads, NEW c \in Conns, Dispatch(t, c)
  PROVE  IInv'
<1> USE DEF IInv, SInv
<1>1. ASSUME NEW b \in {conn[c].connected, FALSE},
             ConnBecomes(c, [conn[c] EXCEPT !.lock = t, !.refs = @ + 1, !.connected = b]),
             Becomes(t, [thread[t] EXCEPT !.arg = c,
               !.at = IF conn[c].queued THEN "pop" ELSE IF b THEN "update" ELSE "notify"])
      PROVE  IInv'
  <2>1. c \in Conns
    BY Zenon
  <2>2. /\ thread[t].at = "idle"
        /\ c \in thread[t].holds
        /\ b => conn[c].connected
        /\ crash = "none"
        /\ hasGuid' = hasGuid
        /\ table' = table
        /\ noGuid' = noGuid
        /\ slot' = slot
        /\ bus' = bus
        /\ pool' = pool
        /\ crash' = crash
    BY <1>1, Dispatch(t, c), Zenon DEF Dispatch, At, Becomes, ConnBecomes
  <2>3. thread[t] \in Thread
    BY Zenon DEF TypeOK
  <2>4. ThreadIs(t, IF conn[c].queued THEN "pop" ELSE IF b THEN "update" ELSE "notify", thread[t].busGet, c, thread[t].holds)
    <3> DEFINE r == [thread[t] EXCEPT !.arg = c, !.at = IF conn[c].queued THEN "pop" ELSE IF b THEN "update" ELSE "notify"]
    <3>1. Becomes(t, r)
      BY <1>1, Dispatch(t, c), Zenon DEF Dispatch, At
    <3>2. r \in Thread
      BY <2>2, <2>3, <2>1, Zenon DEF Thread, Places, Idle, TypeOK
    <3>3. r.at = (IF conn[c].queued THEN "pop" ELSE IF b THEN "update" ELSE "notify") /\ r.busGet = thread[t].busGet /\ r.arg = c /\ r.holds = thread[t].holds
      BY <1>1, <2>2, <2>3, Zenon DEF Thread, Idle
    <3> HIDE DEF r
    <3> QED
      BY <3>1, <3>2, <3>3, BecomesIs, Zenon
  <2>5. /\ OthersStay(c)
        /\ conn'[c].refs = conn[c].refs + 1 /\ conn'[c].born = conn[c].born
        /\ conn'[c].freed = conn[c].freed /\ conn'[c].connected = b
        /\ conn'[c].link = conn[c].link /\ conn'[c].queued = conn[c].queued
        /\ conn'[c].arrived = conn[c].arrived /\ conn'[c].processed = conn[c].processed
        /\ conn'[c].guid = conn[c].guid /\ conn'[c].leaked = conn[c].leaked
    <3> DEFINE d == [conn[c] EXCEPT !.lock = t, !.refs = @ + 1, !.connected = b]
    <3>1. ConnBecomes(c, d)
      BY <1>1, Dispatch(t, c), Zenon DEF Dispatch, At
    <3>2. conn[c] \in Connection
      BY <2>1, Zenon DEF TypeOK
    <3>3. d \in Connection
      <4>1. conn[c].refs \in Int /\ hasGuid \in BOOLEAN /\ b \in BOOLEAN
        BY <3>2, Zenon DEF TypeOK, Connection
      <4> QED
        BY <3>2, <4>1, Counting, Zenon DEF Connection
    <3>4. /\ d.refs = conn[c].refs + 1 /\ d.born = conn[c].born
          /\ d.freed = conn[c].freed /\ d.connected = b
          /\ d.link = conn[c].link /\ d.queued = conn[c].queued
          /\ d.arrived = conn[c].arrived /\ d.processed = conn[c].processed
          /\ d.guid = conn[c].guid /\ d.leaked = conn[c].leaked
      BY <3>2, Zenon DEF Connection
    <3> HIDE DEF d
    <3> QED
      BY <2>1, <3>1, <3>3, <3>4, ConnBecomesIs, Zenon
  <2>6. TypeOK'
    BY <2>1, <2>2, <2>4, <2>5, Zenon DEF ThreadIs, OthersStay, TypeOK
  <2>7. OwnThread(t) /\ LivedAt(c) /\ UnmadeAt(c) /\ LeakedAt(c) /\ KeptAt(c)
    BY <2>1, Zenon DEF OwnThread, Placed, Making, Forgetting, Finalizing, Lived, Unmade,
       Leaked, Kept
  <2>8. Reaches(t, c) /\ conn[c].born /\ ~conn[c].leaked
    BY <2>1, <2>2, <2>7, Zenon DEF OwnThread, PlacedAt, MakingAt, Reaches, UnmadeAt, LivedAt,
       LeakedAt, Hidden, Tabled, Shared, SharedAssumption
  <2>9. thread[t].arg \in {None, c} /\ thread'[t].arg \in {None, c}
    BY <2>2, <2>4, <2>7, Zenon DEF OwnThread, PlacedAt, ThreadIs
  <2>10. Shared(c)' <=> Shared(c)
    BY <2>1, <2>2, <2>5, ZenonT(40) DEF Shared
  <2>11. BusLocked => conn[c].refs >= 1
    BY <2>1, <2>2, <2>7, <2>8, References1 DEF OwnThread, Weak, KeptByLibrary, Works, One,
       Shared, PlacedAt, Tabled, KeptAt, LivedAt, LeakedAt, MakingAt, Hidden, Recorded,
       SharedAssumption
  <2>12. Ages(t, c)
    BY <2>2, <2>5, <2>7, <2>8, <2>10, <2>11, Zenon DEF Ages, LivedAt
  <2>13. /\ bus' = bus \/ bus \in {None, t}
         /\ (pool' = pool /\ table' = table) \/ pool \in {None, t}
         /\ slot' \in {slot, None} \/ (thread[t].at = "store" /\ slot' = c)
    BY <2>2, Zenon
  <2>14. Step(t, c)
    BY <2>1, <2>2, <2>4, <2>5, <2>6, <2>9, <2>13, <2>8, <2>12, Zenon DEF Step, ThreadIs,
       OthersStay
  <2>15. OwnThread(t)'
    <3>1. PlacedAt(t)'
      BY <2>1, <2>2, <2>4, <2>5, <2>7, <2>8, <2>10, Zenon DEF OwnThread, ThreadIs, OthersStay,
         PlacedAt, LivedAt, MakingAt, Hidden, SharedAssumption
    <3>2. MakingAt(t)'
      BY <2>1, <2>2, <2>4, <2>5, <2>7, <2>8, <2>10, Zenon DEF OwnThread, ThreadIs, OthersStay,
         MakingAt, Hidden, SharedAssumption
    <3>3. ForgettingAt(t)'
      BY <2>1, <2>2, <2>4, <2>5, <2>7, <2>8, <2>10, Zenon DEF OwnThread, ThreadIs, OthersStay,
         ForgettingAt, SharedAssumption
    <3>4. FinalizingAt(t)'
      BY <2>1, <2>2, <2>4, <2>5, <2>7, <2>8, <2>10, Zenon DEF OwnThread, ThreadIs, OthersStay,
         FinalizingAt, SharedAssumption
    <3> QED
      BY <3>1, <3>2, <3>3, <3>4, Zenon DEF OwnThread
  <2>16. OwnConn(c)'
    <3>1. LivedAt(c)'
      BY <2>2, <2>5, <2>7, <2>8, <2>10, Zenon DEF LivedAt, OwnThread, PlacedAt
    <3>2. LeakedAt(c)'
      BY <2>1, <2>2, <2>4, <2>5, <2>7, <2>8, <2>10, Zenon DEF LeakedAt
    <3>3. KeptAt(c)'
      BY <2>1, <2>2, <2>4, <2>5, <2>7, <2>8, <2>10, ZenonT(40) DEF KeptAt, OwnThread,
         ForgettingAt, Recorded, ThreadIs, LivedAt
    <3>4. Balanced(t, c)
      BY <2>1, <2>2, <2>4, <2>5, <2>7, <2>8, <2>10, Zenon DEF Balanced, Works, KeptByLibrary,
         Shared, OwnThread, PlacedAt, MakingAt, ThreadIs, Hidden, LivedAt, SharedAssumption
    <3>5. conn'[c].refs = References(c)'
      BY <2>1, <2>4, <3>4, BalanceKeeps, Zenon DEF SharedAssumption
    <3> QED
      BY <3>1, <3>2, <3>3, <3>5, Zenon DEF OwnConn
  <2>17. Tabled'
    BY <2>1, <2>2, <2>5, Zenon DEF Tabled, TypeOK, OthersStay
  <2>18. ASSUME BusLocked PROVE OwnWeak(t, c)'
    <3>1. (slot' = c => conn'[c].link) /\ (thread'[t].at \in {"store", "mark"} => conn'[c].link)
      BY <2>1, <2>18, <2>2, <2>4, <2>5, <2>7, <2>8, ZenonT(40) DEF Weak, OwnThread, PlacedAt,
         MakingAt, LivedAt, ThreadIs, Hidden, SharedAssumption
    <3>2. (conn'[c].freed => conn'[c].refs = 0) /\ (thread'[t].at = "finalize" => conn'[c].refs = 0)
      BY <2>1, <2>18, <2>2, <2>4, <2>5, <2>7, <2>8, <2>11 DEF Weak, LivedAt, ThreadIs
    <3> QED
      BY <3>1, <3>2, Zenon DEF OwnWeak
  <2> QED
    BY <2>1, <2>2, <2>14, <2>15, <2>17, <2>16, <2>18, StepKeeps, Zenon DEF SharedAssumption
<1> QED
  BY <1>1, Dispatch(t, c), Zenon DEF Dispatch, At, Becomes, ConnBecomes

\* A connection that could not be recorded or registered is closed.
LEMMA CloseKeeps ==
  ASSUME SharedAssumption, IInv, NEW t \in Threads, Close(t)
  PROVE  IInv'
<1> USE DEF IInv, SInv
<1>1. thread[t].arg \in Conns
  BY Close(t), Zenon DEF Close, At, Go, Becomes, ConnBecomes, Arg, TypeOK, Thread, Placed,
     PlacedAt
<1>2. PICK k \in Conns : k = thread[t].arg
  BY <1>1, Zenon
<1>3. /\ thread[t].at = "close"
      /\ thread[t].arg = k
      /\ crash = "none"
      /\ hasGuid' = hasGuid
      /\ table' = table
      /\ noGuid' = noGuid
      /\ slot' = slot
      /\ bus' = bus
      /\ pool' = pool
      /\ crash' = crash
  BY <1>2, Close(t), Zenon DEF Close, At, Go, Becomes, ConnBecomes, Arg
<1>4. thread[t] \in Thread
  BY Zenon DEF TypeOK
<1>5. ThreadIs(t, IF conn[k].queued THEN "update" ELSE "notify", thread[t].busGet, k, thread[t].holds)
  <2> DEFINE r == [thread[t] EXCEPT !.at = IF conn[k].queued THEN "update" ELSE "notify"]
  <2>1. Becomes(t, r)
    BY <1>2, Close(t), Zenon DEF Close, At, Go, Arg
  <2>2. r \in Thread
    BY <1>3, <1>4, <1>2, Zenon DEF Thread, Places, Idle, TypeOK
  <2>3. r.at = (IF conn[k].queued THEN "update" ELSE "notify") /\ r.busGet = thread[t].busGet /\ r.arg = k /\ r.holds = thread[t].holds
    BY <1>2, <1>3, <1>4, Zenon DEF Thread, Idle
  <2> HIDE DEF r
  <2> QED
    BY <2>1, <2>2, <2>3, BecomesIs, Zenon
<1>6. /\ OthersStay(k)
      /\ conn'[k].refs = conn[k].refs /\ conn'[k].born = conn[k].born
      /\ conn'[k].freed = conn[k].freed /\ conn'[k].connected = FALSE
      /\ conn'[k].link = conn[k].link /\ conn'[k].queued = conn[k].queued
      /\ conn'[k].arrived = conn[k].arrived /\ conn'[k].processed = conn[k].processed
      /\ conn'[k].guid = conn[k].guid /\ conn'[k].leaked = conn[k].leaked
  <2> DEFINE d == [conn[k] EXCEPT !.lock = t, !.connected = FALSE]
  <2>1. ConnBecomes(k, d)
    BY <1>2, Close(t), Zenon DEF Close, At, Go, Arg
  <2>2. conn[k] \in Connection
    BY <1>2, Zenon DEF TypeOK
  <2>3. d \in Connection
    <3>1. conn[k].refs \in Int /\ hasGuid \in BOOLEAN
      BY <2>2, Zenon DEF TypeOK, Connection
    <3> QED
      BY <2>2, <3>1, Counting, Zenon DEF Connection
  <2>4. /\ d.refs = conn[k].refs /\ d.born = conn[k].born
        /\ d.freed = conn[k].freed /\ d.connected = FALSE
        /\ d.link = conn[k].link /\ d.queued = conn[k].queued
        /\ d.arrived = conn[k].arrived /\ d.processed = conn[k].processed
        /\ d.guid = conn[k].guid /\ d.leaked = conn[k].leaked
    BY <2>2, Zenon DEF Connection
  <2> HIDE DEF d
  <2> QED
    BY <1>2, <2>1, <2>3, <2>4, ConnBecomesIs, Zenon
<1>7. TypeOK'
  BY <1>2, <1>3, <1>5, <1>6, Zenon DEF ThreadIs, OthersStay, TypeOK
<1>8. OwnThread(t) /\ LivedAt(k) /\ UnmadeAt(k) /\ LeakedAt(k) /\ KeptAt(k)
  BY <1>2, Zenon DEF OwnThread, Placed, Making, Forgetting, Finalizing, Lived, Unmade, Leaked,
     Kept
<1>9. Reaches(t, k) /\ conn[k].born
  BY <1>2, <1>3, <1>8, Zenon DEF OwnThread, PlacedAt, MakingAt, Reaches, UnmadeAt, LivedAt,
     LeakedAt, Hidden, Tabled, Shared, SharedAssumption
<1>10. thread[t].arg \in {None, k} /\ thread'[t].arg \in {None, k}
  BY <1>3, <1>5, <1>8, Zenon DEF OwnThread, PlacedAt, ThreadIs
<1>11. Shared(k)' <=> Shared(k)
  BY <1>2, <1>3, <1>6, Zenon DEF Shared
<1>12. Ages(t, k)
  BY <1>3, <1>6, <1>8, <1>9, <1>11, Zenon DEF Ages, LivedAt
<1>13. /\ bus' = bus \/ bus \in {None, t}
       /\ (pool' = pool /\ table' = table) \/ pool \in {None, t}
       /\ slot' \in {slot, None} \/ (thread[t].at = "store" /\ slot' = k)
  BY <1>3, Zenon
<1>14. Step(t, k)
  BY <1>2, <1>3, <1>5, <1>6, <1>7, <1>10, <1>13, <1>9, <1>12, Zenon DEF Step, ThreadIs,
     OthersStay
<1>15. OwnThread(t)'
  <2>1. PlacedAt(t)'
    BY <1>2, <1>3, <1>5, <1>6, <1>8, <1>9, <1>11, Zenon DEF OwnThread, ThreadIs, OthersStay,
       PlacedAt, LivedAt, MakingAt, Hidden, SharedAssumption
  <2>2. MakingAt(t)'
    BY <1>2, <1>3, <1>5, <1>6, <1>8, <1>9, <1>11, Zenon DEF OwnThread, ThreadIs, OthersStay,
       MakingAt, Hidden, SharedAssumption
  <2>3. ForgettingAt(t)'
    BY <1>2, <1>3, <1>5, <1>6, <1>8, <1>9, <1>11, Zenon DEF OwnThread, ThreadIs, OthersStay,
       ForgettingAt, SharedAssumption
  <2>4. FinalizingAt(t)'
    BY <1>2, <1>3, <1>5, <1>6, <1>8, <1>9, <1>11, Zenon DEF OwnThread, ThreadIs, OthersStay,
       FinalizingAt, SharedAssumption
  <2> QED
    BY <2>1, <2>2, <2>3, <2>4, Zenon DEF OwnThread
<1>16. OwnConn(k)'
  <2>1. LivedAt(k)'
    BY <1>3, <1>6, <1>8, <1>9, <1>11, Zenon DEF LivedAt, OwnThread, PlacedAt
  <2>2. LeakedAt(k)'
    BY <1>2, <1>3, <1>5, <1>6, <1>8, <1>9, <1>11, ZenonT(40) DEF LeakedAt, Hidden, LivedAt,
       OwnThread, MakingAt, ThreadIs, OthersStay, SharedAssumption
  <2>3. KeptAt(k)'
    BY <1>2, <1>3, <1>5, <1>6, <1>8, <1>9, <1>11, Zenon DEF KeptAt, OwnThread, ForgettingAt,
       Recorded, ThreadIs, LivedAt
  <2>4. Balanced(t, k)
    BY <1>2, <1>3, <1>5, <1>6, <1>8, <1>9, <1>11, Zenon DEF Balanced, Works, KeptByLibrary,
       Shared, OwnThread, PlacedAt, MakingAt, ThreadIs, Hidden, LivedAt, SharedAssumption
  <2>5. conn'[k].refs = References(k)'
    BY <1>2, <1>5, <2>4, BalanceKeeps, Zenon DEF SharedAssumption
  <2> QED
    BY <2>1, <2>2, <2>3, <2>5, Zenon DEF OwnConn
<1>17. Tabled'
  BY <1>2, <1>3, <1>6, Zenon DEF Tabled, TypeOK, OthersStay
<1>18. ASSUME BusLocked PROVE OwnWeak(t, k)'
  <2>1. (slot' = k => conn'[k].link) /\ (thread'[t].at \in {"store", "mark"} => conn'[k].link)
    BY <1>2, <1>18, <1>3, <1>5, <1>6, <1>8, <1>9, Zenon DEF Weak, OwnThread, PlacedAt,
       MakingAt, LivedAt, ThreadIs, Hidden, SharedAssumption
  <2>2. (conn'[k].freed => conn'[k].refs = 0) /\ (thread'[t].at = "finalize" => conn'[k].refs = 0)
    BY <1>2, <1>18, <1>3, <1>5, <1>6, <1>8, <1>9, Zenon DEF Weak, LivedAt, ThreadIs
  <2> QED
    BY <2>1, <2>2, Zenon DEF OwnWeak
<1> QED
  BY <1>2, <1>3, <1>14, <1>15, <1>17, <1>16, <1>18, StepKeeps, Zenon DEF SharedAssumption

\* The weak reference is cleared with the link, under the bus lock when BusLocked.
LEMMA NotifyDisconnectedKeeps ==
  ASSUME SharedAssumption, IInv, NEW t \in Threads, NotifyDisconnected(t)
  PROVE  IInv'
<1> USE DEF IInv, SInv
<1>1. thread[t].arg \in Conns
  BY NotifyDisconnected(t), Zenon DEF NotifyDisconnected, At, Go, Becomes, ConnBecomes, Arg,
     ClearSlot, Free, TypeOK, Thread, Placed, PlacedAt
<1>2. PICK k \in Conns : k = thread[t].arg
  BY <1>1, Zenon
<1>3. /\ thread[t].at = "notify"
      /\ BusLocked => bus \in {None, t}
      /\ thread[t].arg = k
      /\ crash = "none"
      /\ hasGuid' = hasGuid
      /\ table' = table
      /\ noGuid' = noGuid
      /\ slot' = (IF slot = k THEN None ELSE slot)
      /\ bus' = bus
      /\ pool' = pool
      /\ crash' = crash
  BY <1>2, NotifyDisconnected(t), Zenon DEF NotifyDisconnected, At, Go, Becomes, ConnBecomes,
     Arg, ClearSlot, Free
<1>4. thread[t] \in Thread
  BY Zenon DEF TypeOK
<1>5. ThreadIs(t, "update", thread[t].busGet, k, thread[t].holds)
  <2> DEFINE r == [thread[t] EXCEPT !.at = "update"]
  <2>1. Becomes(t, r)
    BY <1>2, NotifyDisconnected(t), Zenon DEF NotifyDisconnected, At, Go, Arg, ClearSlot, Free
  <2>2. r \in Thread
    BY <1>3, <1>4, <1>2, Zenon DEF Thread, Places, Idle, TypeOK
  <2>3. r.at = ("update") /\ r.busGet = thread[t].busGet /\ r.arg = k /\ r.holds = thread[t].holds
    BY <1>2, <1>3, <1>4, Zenon DEF Thread, Idle
  <2> HIDE DEF r
  <2> QED
    BY <2>1, <2>2, <2>3, BecomesIs, Zenon
<1>6. /\ OthersStay(k)
      /\ conn'[k].refs = conn[k].refs /\ conn'[k].born = conn[k].born
      /\ conn'[k].freed = conn[k].freed /\ conn'[k].connected = conn[k].connected
      /\ conn'[k].link = FALSE /\ conn'[k].queued = (conn[k].link \/ conn[k].queued)
      /\ conn'[k].arrived = conn[k].arrived /\ conn'[k].processed = conn[k].processed
      /\ conn'[k].guid = conn[k].guid /\ conn'[k].leaked = conn[k].leaked
  <2> DEFINE d == [conn[k] EXCEPT !.link = FALSE, !.queued = conn[k].link \/ @]
  <2>1. ConnBecomes(k, d)
    BY <1>2, NotifyDisconnected(t), Zenon DEF NotifyDisconnected, At, Go, Arg, ClearSlot, Free
  <2>2. conn[k] \in Connection
    BY <1>2, Zenon DEF TypeOK
  <2>3. d \in Connection
    <3>1. conn[k].refs \in Int /\ hasGuid \in BOOLEAN
      BY <2>2, Zenon DEF TypeOK, Connection
    <3> QED
      BY <2>2, <3>1, Counting, ZenonT(40) DEF Connection
  <2>4. /\ d.refs = conn[k].refs /\ d.born = conn[k].born
        /\ d.freed = conn[k].freed /\ d.connected = conn[k].connected
        /\ d.link = FALSE /\ d.queued = (conn[k].link \/ conn[k].queued)
        /\ d.arrived = conn[k].arrived /\ d.processed = conn[k].processed
        /\ d.guid = conn[k].guid /\ d.leaked = conn[k].leaked
    BY <2>2, Zenon DEF Connection
  <2> HIDE DEF d
  <2> QED
    BY <1>2, <2>1, <2>3, <2>4, ConnBecomesIs, Zenon
<1>7. TypeOK'
  BY <1>2, <1>3, <1>5, <1>6, Zenon DEF ThreadIs, OthersStay, TypeOK
<1>8. OwnThread(t) /\ LivedAt(k) /\ UnmadeAt(k) /\ LeakedAt(k) /\ KeptAt(k)
  BY <1>2, Zenon DEF OwnThread, Placed, Making, Forgetting, Finalizing, Lived, Unmade, Leaked,
     Kept
<1>9. Reaches(t, k) /\ conn[k].born
  BY <1>2, <1>3, <1>8, Zenon DEF OwnThread, PlacedAt, MakingAt, Reaches, UnmadeAt, LivedAt,
     LeakedAt, Hidden, Tabled, Shared, SharedAssumption
<1>10. thread[t].arg \in {None, k} /\ thread'[t].arg \in {None, k}
  BY <1>3, <1>5, <1>8, Zenon DEF OwnThread, PlacedAt, ThreadIs
<1>11. Shared(k)' <=> Shared(k)
  BY <1>2, <1>3, <1>6, Zenon DEF Shared
<1>12. Ages(t, k)
  BY <1>3, <1>6, <1>8, <1>9, <1>11, Zenon DEF Ages, LivedAt
<1>13. /\ bus' = bus \/ bus \in {None, t}
       /\ (pool' = pool /\ table' = table) \/ pool \in {None, t}
       /\ slot' \in {slot, None} \/ (thread[t].at = "store" /\ slot' = k)
  BY <1>3, Zenon
<1>14. Step(t, k)
  BY <1>2, <1>3, <1>5, <1>6, <1>7, <1>10, <1>13, <1>9, <1>12, Zenon DEF Step, ThreadIs,
     OthersStay
<1>15. OwnThread(t)'
  <2>1. PlacedAt(t)'
    BY <1>2, <1>3, <1>5, <1>6, <1>8, <1>9, <1>11, Zenon DEF OwnThread, ThreadIs, OthersStay,
       PlacedAt, LivedAt, MakingAt, Hidden, SharedAssumption
  <2>2. MakingAt(t)'
    BY <1>2, <1>3, <1>5, <1>6, <1>8, <1>9, <1>11, Zenon DEF OwnThread, ThreadIs, OthersStay,
       MakingAt, Hidden, SharedAssumption
  <2>3. ForgettingAt(t)'
    BY <1>2, <1>3, <1>5, <1>6, <1>8, <1>9, <1>11, Zenon DEF OwnThread, ThreadIs, OthersStay,
       ForgettingAt, SharedAssumption
  <2>4. FinalizingAt(t)'
    BY <1>2, <1>3, <1>5, <1>6, <1>8, <1>9, <1>11, Zenon DEF OwnThread, ThreadIs, OthersStay,
       FinalizingAt, SharedAssumption
  <2> QED
    BY <2>1, <2>2, <2>3, <2>4, Zenon DEF OwnThread
<1>16. OwnConn(k)'
  <2>1. LivedAt(k)'
    BY <1>3, <1>6, <1>8, <1>9, <1>11, Zenon DEF LivedAt, OwnThread, PlacedAt
  <2>2. LeakedAt(k)'
    BY <1>2, <1>3, <1>5, <1>6, <1>8, <1>9, <1>11, ZenonT(40) DEF LeakedAt, Hidden, LivedAt,
       OwnThread, MakingAt, ThreadIs, OthersStay, SharedAssumption
  <2>3. KeptAt(k)'
    BY <1>2, <1>3, <1>5, <1>6, <1>8, <1>9, <1>11, Zenon DEF KeptAt, OwnThread, ForgettingAt,
       Recorded, ThreadIs, LivedAt
  <2>4. Balanced(t, k)
    BY <1>2, <1>3, <1>5, <1>6, <1>8, <1>9, <1>11, Zenon DEF Balanced, Works, KeptByLibrary,
       Shared, OwnThread, PlacedAt, MakingAt, ThreadIs, Hidden, LivedAt, SharedAssumption
  <2>5. conn'[k].refs = References(k)'
    BY <1>2, <1>5, <2>4, BalanceKeeps, Zenon DEF SharedAssumption
  <2> QED
    BY <2>1, <2>2, <2>3, <2>5, Zenon DEF OwnConn
<1>17. Tabled'
  BY <1>2, <1>3, <1>6, Zenon DEF Tabled, TypeOK, OthersStay
<1>18. ASSUME BusLocked PROVE OwnWeak(t, k)'
  <2>1. (slot' = k => conn'[k].link) /\ (thread'[t].at \in {"store", "mark"} => conn'[k].link)
    BY <1>2, <1>18, <1>3, <1>5, <1>6, <1>8, <1>9, Zenon DEF Weak, OwnThread, PlacedAt,
       MakingAt, LivedAt, ThreadIs, Hidden, SharedAssumption
  <2>2. (conn'[k].freed => conn'[k].refs = 0) /\ (thread'[t].at = "finalize" => conn'[k].refs = 0)
    BY <1>2, <1>18, <1>3, <1>5, <1>6, <1>8, <1>9, Zenon DEF Weak, LivedAt, ThreadIs
  <2> QED
    BY <2>1, <2>2, Zenon DEF OwnWeak
<1> QED
  BY <1>2, <1>3, <1>14, <1>15, <1>17, <1>16, <1>18, StepKeeps, Zenon DEF SharedAssumption

\* The Disconnected message is taken out of the queue.
LEMMA PopDisconnectedKeeps ==
  ASSUME SharedAssumption, IInv, NEW t \in Threads, PopDisconnected(t)
  PROVE  IInv'
<1> USE DEF IInv, SInv
<1>1. thread[t].arg \in Conns
  BY PopDisconnected(t), Zenon DEF PopDisconnected, At, Go, Becomes, ConnBecomes, Arg, TypeOK,
     Thread, Placed, PlacedAt
<1>2. PICK k \in Conns : k = thread[t].arg
  BY <1>1, Zenon
<1>3. /\ thread[t].at = "pop"
      /\ thread[t].arg = k
      /\ crash = "none"
      /\ hasGuid' = hasGuid
      /\ table' = table
      /\ noGuid' = noGuid
      /\ slot' = slot
      /\ bus' = bus
      /\ pool' = pool
      /\ crash' = crash
  BY <1>2, PopDisconnected(t), Zenon DEF PopDisconnected, At, Go, Becomes, ConnBecomes, Arg
<1>4. thread[t] \in Thread
  BY Zenon DEF TypeOK
<1>5. ThreadIs(t, "update", thread[t].busGet, k, thread[t].holds)
  <2> DEFINE r == [thread[t] EXCEPT !.at = "update"]
  <2>1. Becomes(t, r)
    BY <1>2, PopDisconnected(t), Zenon DEF PopDisconnected, At, Go, Arg
  <2>2. r \in Thread
    BY <1>3, <1>4, <1>2, Zenon DEF Thread, Places, Idle, TypeOK
  <2>3. r.at = ("update") /\ r.busGet = thread[t].busGet /\ r.arg = k /\ r.holds = thread[t].holds
    BY <1>2, <1>3, <1>4, Zenon DEF Thread, Idle
  <2> HIDE DEF r
  <2> QED
    BY <2>1, <2>2, <2>3, BecomesIs, Zenon
<1>6. /\ OthersStay(k)
      /\ conn'[k].refs = conn[k].refs /\ conn'[k].born = conn[k].born
      /\ conn'[k].freed = conn[k].freed /\ conn'[k].connected = conn[k].connected
      /\ conn'[k].link = conn[k].link /\ conn'[k].queued = FALSE
      /\ conn'[k].arrived = TRUE /\ conn'[k].processed = conn[k].processed
      /\ conn'[k].guid = conn[k].guid /\ conn'[k].leaked = conn[k].leaked
  <2> DEFINE d == [conn[k] EXCEPT !.queued = FALSE, !.arrived = TRUE]
  <2>1. ConnBecomes(k, d)
    BY <1>2, PopDisconnected(t), Zenon DEF PopDisconnected, At, Go, Arg
  <2>2. conn[k] \in Connection
    BY <1>2, Zenon DEF TypeOK
  <2>3. d \in Connection
    <3>1. conn[k].refs \in Int /\ hasGuid \in BOOLEAN
      BY <2>2, Zenon DEF TypeOK, Connection
    <3> QED
      BY <2>2, <3>1, Counting, Zenon DEF Connection
  <2>4. /\ d.refs = conn[k].refs /\ d.born = conn[k].born
        /\ d.freed = conn[k].freed /\ d.connected = conn[k].connected
        /\ d.link = conn[k].link /\ d.queued = FALSE
        /\ d.arrived = TRUE /\ d.processed = conn[k].processed
        /\ d.guid = conn[k].guid /\ d.leaked = conn[k].leaked
    BY <2>2, Zenon DEF Connection
  <2> HIDE DEF d
  <2> QED
    BY <1>2, <2>1, <2>3, <2>4, ConnBecomesIs, Zenon
<1>7. TypeOK'
  BY <1>2, <1>3, <1>5, <1>6, Zenon DEF ThreadIs, OthersStay, TypeOK
<1>8. OwnThread(t) /\ LivedAt(k) /\ UnmadeAt(k) /\ LeakedAt(k) /\ KeptAt(k)
  BY <1>2, Zenon DEF OwnThread, Placed, Making, Forgetting, Finalizing, Lived, Unmade, Leaked,
     Kept
<1>9. Reaches(t, k) /\ conn[k].born /\ ~conn[k].leaked
  BY <1>2, <1>3, <1>8, Zenon DEF OwnThread, PlacedAt, MakingAt, Reaches, UnmadeAt, LivedAt,
     LeakedAt, Hidden, Tabled, Shared, SharedAssumption
<1>10. thread[t].arg \in {None, k} /\ thread'[t].arg \in {None, k}
  BY <1>3, <1>5, <1>8, Zenon DEF OwnThread, PlacedAt, ThreadIs
<1>11. Shared(k)' <=> Shared(k)
  BY <1>2, <1>3, <1>6, Zenon DEF Shared
<1>12. Ages(t, k)
  BY <1>3, <1>6, <1>8, <1>9, <1>11, Zenon DEF Ages, LivedAt
<1>13. /\ bus' = bus \/ bus \in {None, t}
       /\ (pool' = pool /\ table' = table) \/ pool \in {None, t}
       /\ slot' \in {slot, None} \/ (thread[t].at = "store" /\ slot' = k)
  BY <1>3, Zenon
<1>14. Step(t, k)
  BY <1>2, <1>3, <1>5, <1>6, <1>7, <1>10, <1>13, <1>9, <1>12, Zenon DEF Step, ThreadIs,
     OthersStay
<1>15. OwnThread(t)'
  <2>1. PlacedAt(t)'
    BY <1>2, <1>3, <1>5, <1>6, <1>8, <1>9, <1>11, Zenon DEF OwnThread, ThreadIs, OthersStay,
       PlacedAt, LivedAt, MakingAt, Hidden, SharedAssumption
  <2>2. MakingAt(t)'
    BY <1>2, <1>3, <1>5, <1>6, <1>8, <1>9, <1>11, Zenon DEF OwnThread, ThreadIs, OthersStay,
       MakingAt, Hidden, SharedAssumption
  <2>3. ForgettingAt(t)'
    BY <1>2, <1>3, <1>5, <1>6, <1>8, <1>9, <1>11, Zenon DEF OwnThread, ThreadIs, OthersStay,
       ForgettingAt, SharedAssumption
  <2>4. FinalizingAt(t)'
    BY <1>2, <1>3, <1>5, <1>6, <1>8, <1>9, <1>11, Zenon DEF OwnThread, ThreadIs, OthersStay,
       FinalizingAt, SharedAssumption
  <2> QED
    BY <2>1, <2>2, <2>3, <2>4, Zenon DEF OwnThread
<1>16. OwnConn(k)'
  <2>1. LivedAt(k)'
    BY <1>3, <1>6, <1>8, <1>9, <1>11, Zenon DEF LivedAt, OwnThread, PlacedAt
  <2>2. LeakedAt(k)'
    BY <1>2, <1>3, <1>5, <1>6, <1>8, <1>9, <1>11, Zenon DEF LeakedAt
  <2>3. KeptAt(k)'
    BY <1>2, <1>3, <1>5, <1>6, <1>8, <1>9, <1>11, Zenon DEF KeptAt, OwnThread, ForgettingAt,
       Recorded, ThreadIs, LivedAt
  <2>4. Balanced(t, k)
    BY <1>2, <1>3, <1>5, <1>6, <1>8, <1>9, <1>11, Zenon DEF Balanced, Works, KeptByLibrary,
       Shared, OwnThread, PlacedAt, MakingAt, ThreadIs, Hidden, LivedAt, SharedAssumption
  <2>5. conn'[k].refs = References(k)'
    BY <1>2, <1>5, <2>4, BalanceKeeps, Zenon DEF SharedAssumption
  <2> QED
    BY <2>1, <2>2, <2>3, <2>5, Zenon DEF OwnConn
<1>17. Tabled'
  BY <1>2, <1>3, <1>6, Zenon DEF Tabled, TypeOK, OthersStay
<1>18. ASSUME BusLocked PROVE OwnWeak(t, k)'
  <2>1. (slot' = k => conn'[k].link) /\ (thread'[t].at \in {"store", "mark"} => conn'[k].link)
    BY <1>2, <1>18, <1>3, <1>5, <1>6, <1>8, <1>9, Zenon DEF Weak, OwnThread, PlacedAt,
       MakingAt, LivedAt, ThreadIs, Hidden, SharedAssumption
  <2>2. (conn'[k].freed => conn'[k].refs = 0) /\ (thread'[t].at = "finalize" => conn'[k].refs = 0)
    BY <1>2, <1>18, <1>3, <1>5, <1>6, <1>8, <1>9, Zenon DEF Weak, LivedAt, ThreadIs
  <2> QED
    BY <2>1, <2>2, Zenon DEF OwnWeak
<1> QED
  BY <1>2, <1>3, <1>14, <1>15, <1>17, <1>16, <1>18, StepKeeps, Zenon DEF SharedAssumption

\* One thread only processes the Disconnected message.
LEMMA UpdateDispatchStatusKeeps ==
  ASSUME SharedAssumption, IInv, NEW t \in Threads, UpdateDispatchStatus(t)
  PROVE  IInv'
<1> USE DEF IInv, SInv
<1>1. CASE conn[thread[t].arg].arrived /\ ~conn[thread[t].arg].processed
  <2>1. thread[t].arg \in Conns
    BY <1>1, UpdateDispatchStatus(t), Zenon DEF UpdateDispatchStatus, At, Go, Becomes,
       ConnBecomes, Arg, UpdateDone, TypeOK, Thread, Placed, PlacedAt
  <2>2. PICK k \in Conns : k = thread[t].arg
    BY <2>1, Zenon
  <2>3. /\ thread[t].at = "update"
        /\ conn[k].arrived
        /\ ~conn[k].processed
        /\ thread[t].arg = k
        /\ crash = "none"
        /\ hasGuid' = hasGuid
        /\ table' = table
        /\ noGuid' = noGuid
        /\ slot' = slot
        /\ bus' = bus
        /\ pool' = pool
        /\ crash' = crash
    BY <1>1, <2>2, UpdateDispatchStatus(t), Zenon DEF UpdateDispatchStatus, At, Go, Becomes,
       ConnBecomes, Arg, UpdateDone
  <2>4. thread[t] \in Thread
    BY Zenon DEF TypeOK
  <2>5. ThreadIs(t, "forget", thread[t].busGet, k, thread[t].holds)
    <3> DEFINE r == [thread[t] EXCEPT !.at = "forget"]
    <3>1. Becomes(t, r)
      BY <1>1, <2>2, UpdateDispatchStatus(t), Zenon DEF UpdateDispatchStatus, At, Go, Arg,
         UpdateDone
    <3>2. r \in Thread
      BY <2>3, <2>4, <2>2, Zenon DEF Thread, Places, Idle, TypeOK
    <3>3. r.at = ("forget") /\ r.busGet = thread[t].busGet /\ r.arg = k /\ r.holds = thread[t].holds
      BY <1>1, <2>2, <2>3, <2>4, Zenon DEF Thread, Idle
    <3> HIDE DEF r
    <3> QED
      BY <3>1, <3>2, <3>3, BecomesIs, Zenon
  <2>6. /\ OthersStay(k)
        /\ conn'[k].refs = conn[k].refs /\ conn'[k].born = conn[k].born
        /\ conn'[k].freed = conn[k].freed /\ conn'[k].connected = conn[k].connected
        /\ conn'[k].link = conn[k].link /\ conn'[k].queued = conn[k].queued
        /\ conn'[k].arrived = conn[k].arrived /\ conn'[k].processed = TRUE
        /\ conn'[k].guid = conn[k].guid /\ conn'[k].leaked = conn[k].leaked
    <3> DEFINE d == [conn[k] EXCEPT !.processed = TRUE]
    <3>1. ConnBecomes(k, d)
      BY <1>1, <2>2, UpdateDispatchStatus(t), Zenon DEF UpdateDispatchStatus, At, Go, Arg,
         UpdateDone
    <3>2. conn[k] \in Connection
      BY <2>2, Zenon DEF TypeOK
    <3>3. d \in Connection
      <4>1. conn[k].refs \in Int /\ hasGuid \in BOOLEAN
        BY <3>2, Zenon DEF TypeOK, Connection
      <4> QED
        BY <3>2, <4>1, Counting, Zenon DEF Connection
    <3>4. /\ d.refs = conn[k].refs /\ d.born = conn[k].born
          /\ d.freed = conn[k].freed /\ d.connected = conn[k].connected
          /\ d.link = conn[k].link /\ d.queued = conn[k].queued
          /\ d.arrived = conn[k].arrived /\ d.processed = TRUE
          /\ d.guid = conn[k].guid /\ d.leaked = conn[k].leaked
      BY <3>2, Zenon DEF Connection
    <3> HIDE DEF d
    <3> QED
      BY <2>2, <3>1, <3>3, <3>4, ConnBecomesIs, Zenon
  <2>7. TypeOK'
    BY <2>2, <2>3, <2>5, <2>6, Zenon DEF ThreadIs, OthersStay, TypeOK
  <2>8. OwnThread(t) /\ LivedAt(k) /\ UnmadeAt(k) /\ LeakedAt(k) /\ KeptAt(k)
    BY <2>2, Zenon DEF OwnThread, Placed, Making, Forgetting, Finalizing, Lived, Unmade,
       Leaked, Kept
  <2>9. Reaches(t, k) /\ conn[k].born
    BY <2>2, <2>3, <2>8, Zenon DEF OwnThread, PlacedAt, MakingAt, Reaches, UnmadeAt, LivedAt,
       LeakedAt, Hidden, Tabled, Shared, SharedAssumption
  <2>10. thread[t].arg \in {None, k} /\ thread'[t].arg \in {None, k}
    BY <2>3, <2>5, <2>8, Zenon DEF OwnThread, PlacedAt, ThreadIs
  <2>11. Shared(k)' <=> Shared(k)
    BY <2>2, <2>3, <2>6, Zenon DEF Shared
  <2>12. Ages(t, k)
    BY <2>3, <2>6, <2>8, <2>9, <2>11, Zenon DEF Ages, LivedAt
  <2>13. /\ bus' = bus \/ bus \in {None, t}
         /\ (pool' = pool /\ table' = table) \/ pool \in {None, t}
         /\ slot' \in {slot, None} \/ (thread[t].at = "store" /\ slot' = k)
    BY <2>3, Zenon
  <2>14. Step(t, k)
    BY <2>2, <2>3, <2>5, <2>6, <2>7, <2>10, <2>13, <2>9, <2>12, Zenon DEF Step, ThreadIs,
       OthersStay, SharedAssumption
  <2>15. Shared(k) /\ \A u \in Threads : thread[u].at = "forget" => thread[u].arg # k
    BY <2>2, <2>3, <2>8, <2>9, Zenon DEF OwnThread, KeptAt, LeakedAt, Making, MakingAt,
       Forgetting, ForgettingAt, Recorded
  <2>16. OwnThread(t)'
    <3>1. PlacedAt(t)'
      BY <2>2, <2>3, <2>5, <2>6, <2>8, <2>9, <2>11, <2>15, Zenon DEF OwnThread, ThreadIs,
         OthersStay, PlacedAt, LivedAt, MakingAt, Hidden, SharedAssumption
    <3>2. MakingAt(t)'
      BY <2>2, <2>3, <2>5, <2>6, <2>8, <2>9, <2>11, <2>15, Zenon DEF OwnThread, ThreadIs,
         OthersStay, MakingAt, Hidden, SharedAssumption
    <3>3. ForgettingAt(t)'
      BY <2>2, <2>3, <2>5, <2>6, <2>8, <2>9, <2>11, <2>15, ZenonT(40) DEF OwnThread, ThreadIs,
         OthersStay, ForgettingAt, SharedAssumption
    <3>4. FinalizingAt(t)'
      BY <2>2, <2>3, <2>5, <2>6, <2>8, <2>9, <2>11, <2>15, Zenon DEF OwnThread, ThreadIs,
         OthersStay, FinalizingAt, SharedAssumption
    <3> QED
      BY <3>1, <3>2, <3>3, <3>4, Zenon DEF OwnThread
  <2>17. OwnConn(k)'
    <3>1. LivedAt(k)'
      BY <2>3, <2>6, <2>8, <2>9, <2>11, <2>15, Zenon DEF LivedAt, OwnThread, PlacedAt
    <3>2. LeakedAt(k)'
      BY <2>2, <2>3, <2>5, <2>6, <2>8, <2>9, <2>11, <2>15, Zenon DEF LeakedAt, Hidden,
         LivedAt, OwnThread, MakingAt, ThreadIs, OthersStay, SharedAssumption
    <3>3. KeptAt(k)'
      BY <2>2, <2>3, <2>5, <2>6, <2>8, <2>9, <2>11, <2>15, Zenon DEF KeptAt, OwnThread,
         ForgettingAt, Recorded, ThreadIs, LivedAt
    <3>4. Balanced(t, k)
      BY <2>2, <2>3, <2>5, <2>6, <2>8, <2>9, <2>11, <2>15, Zenon DEF Balanced, Works,
         KeptByLibrary, Shared, OwnThread, PlacedAt, MakingAt, ThreadIs, Hidden, LivedAt,
         SharedAssumption
    <3>5. conn'[k].refs = References(k)'
      BY <2>2, <2>5, <3>4, BalanceKeeps, Zenon DEF SharedAssumption
    <3> QED
      BY <3>1, <3>2, <3>3, <3>5, Zenon DEF OwnConn
  <2>18. Tabled'
    BY <2>2, <2>3, <2>6, Zenon DEF Tabled, TypeOK, OthersStay
  <2>19. ASSUME BusLocked PROVE OwnWeak(t, k)'
    <3>1. (slot' = k => conn'[k].link) /\ (thread'[t].at \in {"store", "mark"} => conn'[k].link)
      BY <2>2, <2>19, <2>3, <2>5, <2>6, <2>8, <2>9, Zenon DEF Weak, OwnThread, PlacedAt,
         MakingAt, LivedAt, ThreadIs, Hidden, SharedAssumption
    <3>2. (conn'[k].freed => conn'[k].refs = 0) /\ (thread'[t].at = "finalize" => conn'[k].refs = 0)
      BY <2>2, <2>19, <2>3, <2>5, <2>6, <2>8, <2>9, Zenon DEF Weak, LivedAt, ThreadIs
    <3> QED
      BY <3>1, <3>2, Zenon DEF OwnWeak
  <2> QED
    BY <2>2, <2>3, <2>14, <2>16, <2>18, <2>17, <2>19, StepKeeps, Zenon DEF SharedAssumption
<1>2. CASE ~(conn[thread[t].arg].arrived /\ ~conn[thread[t].arg].processed)
  <2>1. thread[t].arg \in Conns
    BY <1>2, UpdateDispatchStatus(t), Zenon DEF UpdateDispatchStatus, At, Go, Becomes,
       ConnBecomes, Arg, UpdateDone, TypeOK, Thread, Placed, PlacedAt
  <2>2. PICK k \in Conns : k = thread[t].arg
    BY <2>1, Zenon
  <2>3. /\ thread[t].at = "update"
        /\ thread[t].arg = k
        /\ crash = "none"
        /\ hasGuid' = hasGuid
        /\ table' = table
        /\ noGuid' = noGuid
        /\ slot' = slot
        /\ bus' = bus
        /\ pool' = pool
        /\ crash' = crash
    BY <1>2, <2>2, UpdateDispatchStatus(t), Zenon DEF UpdateDispatchStatus, At, Go, Becomes,
       ConnBecomes, Arg, UpdateDone
  <2>4. thread[t] \in Thread
    BY Zenon DEF TypeOK
  <2>5. ThreadIs(t, "unref", thread[t].busGet, k, thread[t].holds)
    <3> DEFINE r == [thread[t] EXCEPT !.at = "unref"]
    <3>1. Becomes(t, r)
      BY <1>2, <2>2, UpdateDispatchStatus(t), Zenon DEF UpdateDispatchStatus, At, Go, Arg,
         UpdateDone
    <3>2. r \in Thread
      BY <2>3, <2>4, <2>2, Zenon DEF Thread, Places, Idle, TypeOK
    <3>3. r.at = ("unref") /\ r.busGet = thread[t].busGet /\ r.arg = k /\ r.holds = thread[t].holds
      BY <1>2, <2>2, <2>3, <2>4, Zenon DEF Thread, Idle
    <3> HIDE DEF r
    <3> QED
      BY <3>1, <3>2, <3>3, BecomesIs, Zenon
  <2>6. /\ OthersStay(k)
        /\ conn'[k].refs = conn[k].refs /\ conn'[k].born = conn[k].born
        /\ conn'[k].freed = conn[k].freed /\ conn'[k].connected = conn[k].connected
        /\ conn'[k].link = conn[k].link /\ conn'[k].queued = conn[k].queued
        /\ conn'[k].arrived = conn[k].arrived /\ conn'[k].processed = conn[k].processed
        /\ conn'[k].guid = conn[k].guid /\ conn'[k].leaked = conn[k].leaked
    <3> DEFINE d == [conn[k] EXCEPT !.lock = None]
    <3>1. ConnBecomes(k, d)
      BY <1>2, <2>2, UpdateDispatchStatus(t), Zenon DEF UpdateDispatchStatus, At, Go, Arg,
         UpdateDone
    <3>2. conn[k] \in Connection
      BY <2>2, Zenon DEF TypeOK
    <3>3. d \in Connection
      <4>1. conn[k].refs \in Int /\ hasGuid \in BOOLEAN
        BY <3>2, Zenon DEF TypeOK, Connection
      <4> QED
        BY <3>2, <4>1, Counting, Zenon DEF Connection
    <3>4. /\ d.refs = conn[k].refs /\ d.born = conn[k].born
          /\ d.freed = conn[k].freed /\ d.connected = conn[k].connected
          /\ d.link = conn[k].link /\ d.queued = conn[k].queued
          /\ d.arrived = conn[k].arrived /\ d.processed = conn[k].processed
          /\ d.guid = conn[k].guid /\ d.leaked = conn[k].leaked
      BY <3>2, Zenon DEF Connection
    <3> HIDE DEF d
    <3> QED
      BY <2>2, <3>1, <3>3, <3>4, ConnBecomesIs, Zenon
  <2>7. TypeOK'
    BY <2>2, <2>3, <2>5, <2>6, Zenon DEF ThreadIs, OthersStay, TypeOK
  <2>8. OwnThread(t) /\ LivedAt(k) /\ UnmadeAt(k) /\ LeakedAt(k) /\ KeptAt(k)
    BY <2>2, Zenon DEF OwnThread, Placed, Making, Forgetting, Finalizing, Lived, Unmade,
       Leaked, Kept
  <2>9. Reaches(t, k) /\ conn[k].born
    BY <2>2, <2>3, <2>8, Zenon DEF OwnThread, PlacedAt, MakingAt, Reaches, UnmadeAt, LivedAt,
       LeakedAt, Hidden, Tabled, Shared, SharedAssumption
  <2>10. thread[t].arg \in {None, k} /\ thread'[t].arg \in {None, k}
    BY <2>3, <2>5, <2>8, Zenon DEF OwnThread, PlacedAt, ThreadIs
  <2>11. Shared(k)' <=> Shared(k)
    BY <2>2, <2>3, <2>6, Zenon DEF Shared
  <2>12. Ages(t, k)
    BY <2>3, <2>6, <2>8, <2>9, <2>11, Zenon DEF Ages, LivedAt
  <2>13. /\ bus' = bus \/ bus \in {None, t}
         /\ (pool' = pool /\ table' = table) \/ pool \in {None, t}
         /\ slot' \in {slot, None} \/ (thread[t].at = "store" /\ slot' = k)
    BY <2>3, Zenon
  <2>14. Step(t, k)
    BY <2>2, <2>3, <2>5, <2>6, <2>7, <2>10, <2>13, <2>9, <2>12, ZenonT(40) DEF Step, ThreadIs,
       OthersStay, SharedAssumption
  <2>15. OwnThread(t)'
    <3>1. PlacedAt(t)'
      BY <2>2, <2>3, <2>5, <2>6, <2>8, <2>9, <2>11, Zenon DEF OwnThread, ThreadIs, OthersStay,
         PlacedAt, LivedAt, MakingAt, Hidden, SharedAssumption
    <3>2. MakingAt(t)'
      BY <2>2, <2>3, <2>5, <2>6, <2>8, <2>9, <2>11, Zenon DEF OwnThread, ThreadIs, OthersStay,
         MakingAt, Hidden, SharedAssumption
    <3>3. ForgettingAt(t)'
      BY <2>2, <2>3, <2>5, <2>6, <2>8, <2>9, <2>11, Zenon DEF OwnThread, ThreadIs, OthersStay,
         ForgettingAt, SharedAssumption
    <3>4. FinalizingAt(t)'
      BY <2>2, <2>3, <2>5, <2>6, <2>8, <2>9, <2>11, Zenon DEF OwnThread, ThreadIs, OthersStay,
         FinalizingAt, SharedAssumption
    <3> QED
      BY <3>1, <3>2, <3>3, <3>4, Zenon DEF OwnThread
  <2>16. OwnConn(k)'
    <3>1. LivedAt(k)'
      BY <2>3, <2>6, <2>8, <2>9, <2>11, Zenon DEF LivedAt, OwnThread, PlacedAt
    <3>2. LeakedAt(k)'
      BY <2>2, <2>3, <2>5, <2>6, <2>8, <2>9, <2>11, ZenonT(40) DEF LeakedAt, Hidden, LivedAt,
         OwnThread, MakingAt, ThreadIs, OthersStay, SharedAssumption
    <3>3. KeptAt(k)'
      BY <2>2, <2>3, <2>5, <2>6, <2>8, <2>9, <2>11, ZenonT(40) DEF KeptAt, OwnThread,
         ForgettingAt, Recorded, ThreadIs, LivedAt
    <3>4. Balanced(t, k)
      BY <2>2, <2>3, <2>5, <2>6, <2>8, <2>9, <2>11, Zenon DEF Balanced, Works, KeptByLibrary,
         Shared, OwnThread, PlacedAt, MakingAt, ThreadIs, Hidden, LivedAt, SharedAssumption
    <3>5. conn'[k].refs = References(k)'
      BY <2>2, <2>5, <3>4, BalanceKeeps, Zenon DEF SharedAssumption
    <3> QED
      BY <3>1, <3>2, <3>3, <3>5, Zenon DEF OwnConn
  <2>17. Tabled'
    BY <2>2, <2>3, <2>6, Zenon DEF Tabled, TypeOK, OthersStay
  <2>18. ASSUME BusLocked PROVE OwnWeak(t, k)'
    <3>1. (slot' = k => conn'[k].link) /\ (thread'[t].at \in {"store", "mark"} => conn'[k].link)
      BY <2>2, <2>18, <2>3, <2>5, <2>6, <2>8, <2>9, Zenon DEF Weak, OwnThread, PlacedAt,
         MakingAt, LivedAt, ThreadIs, Hidden, SharedAssumption
    <3>2. (conn'[k].freed => conn'[k].refs = 0) /\ (thread'[t].at = "finalize" => conn'[k].refs = 0)
      BY <2>2, <2>18, <2>3, <2>5, <2>6, <2>8, <2>9, Zenon DEF Weak, LivedAt, ThreadIs
    <3> QED
      BY <3>1, <3>2, Zenon DEF OwnWeak
  <2> QED
    BY <2>2, <2>3, <2>14, <2>15, <2>17, <2>16, <2>18, StepKeeps, Zenon DEF SharedAssumption
<1> QED
  BY <1>1, <1>2, UpdateDispatchStatus(t), Zenon DEF UpdateDispatchStatus, At, Go, Becomes,
     ConnBecomes, Arg, UpdateDone

\* libdbus' reference is dropped, or the assertion on the table fails and nothing is done.
LEMMA ForgetSharedKeeps ==
  ASSUME SharedAssumption, IInv, NEW t \in Threads, ForgetShared(t)
  PROVE  IInv'
<1> USE DEF IInv, SInv
<1>1. CASE conn[thread[t].arg].guid /\ table = None
  <2>1. /\ thread[t].at = "forget"
        /\ crash = "none"
        /\ hasGuid' = hasGuid
        /\ table' = table
        /\ noGuid' = noGuid
        /\ slot' = slot
        /\ bus' = bus
        /\ pool' = pool
        /\ crash' = "connection was not in the shared table"
    BY <1>1, ForgetShared(t), Zenon DEF ForgetShared, At, Go, Becomes, ConnBecomes, Arg,
       UpdateDone, Dropped
  <2>2. thread' = thread /\ conn' = conn
    BY <1>1, ForgetShared(t), Zenon DEF ForgetShared, At, Go, Becomes, ConnBecomes, Arg,
       UpdateDone, Dropped
  <2>3. TypeOK'
    BY <2>1, <2>2, Zenon DEF TypeOK
  <2>4. Finalizing'
    BY <2>1, <2>2, Zenon DEF Finalizing, FinalizingAt, Shared
  <2>5. Placed' /\ Lived' /\ Tabled'
    BY <2>1, <2>2, Zenon DEF Placed, PlacedAt, Lived, LivedAt, Tabled, Shared
  <2>6. Unmade' /\ Leaked' /\ Making'
    BY <2>1, <2>2, Zenon DEF Unmade, UnmadeAt, Leaked, LeakedAt, Making, MakingAt, Hidden,
       Shared
  <2>7. Kept' /\ Forgetting'
    BY <2>1, <2>2, Zenon DEF Kept, KeptAt, Recorded, Forgetting, ForgettingAt, Shared
  <2>8. Counted'
    BY <2>1, <2>2, Zenon DEF Counted, References, Arg
  <2>9. BusLocked => Weak'
    BY <2>1, <2>2, Zenon DEF Weak
  <2> QED
    BY <2>3, <2>4, <2>5, <2>6, <2>7, <2>8, <2>9, Zenon
<1>2. CASE ~(conn[thread[t].arg].guid /\ table = None)
  <2>1. thread[t].arg \in Conns
    BY <1>2, ForgetShared(t), Zenon DEF ForgetShared, At, Go, Becomes, ConnBecomes, Arg,
       UpdateDone, Dropped, TypeOK, Thread, Placed, PlacedAt
  <2>2. PICK k \in Conns : k = thread[t].arg
    BY <2>1, Zenon
  <2>3. /\ thread[t].at = "forget"
        /\ pool = None
        /\ thread[t].arg = k
        /\ crash = "none"
        /\ hasGuid' = hasGuid
        /\ table' = (IF conn[k].guid THEN None ELSE table)
        /\ noGuid' = (noGuid \ {k})
        /\ slot' = slot
        /\ bus' = bus
        /\ pool' = pool
        /\ crash' = crash
    BY <1>2, <2>2, ForgetShared(t), Zenon DEF ForgetShared, At, Go, Becomes, ConnBecomes, Arg,
       UpdateDone, Dropped
  <2>4. thread[t] \in Thread
    BY Zenon DEF TypeOK
  <2>5. ThreadIs(t, "unref", thread[t].busGet, k, thread[t].holds)
    <3> DEFINE r == [thread[t] EXCEPT !.at = "unref"]
    <3>1. Becomes(t, r)
      BY <1>2, <2>2, ForgetShared(t), Zenon DEF ForgetShared, At, Go, Arg, UpdateDone, Dropped
    <3>2. r \in Thread
      BY <2>3, <2>4, <2>2, Zenon DEF Thread, Places, Idle, TypeOK
    <3>3. r.at = ("unref") /\ r.busGet = thread[t].busGet /\ r.arg = k /\ r.holds = thread[t].holds
      BY <1>2, <2>2, <2>3, <2>4, Zenon DEF Thread, Idle
    <3> HIDE DEF r
    <3> QED
      BY <3>1, <3>2, <3>3, BecomesIs, Zenon
  <2>6. /\ OthersStay(k)
        /\ conn'[k].refs = conn[k].refs - 1 /\ conn'[k].born = conn[k].born
        /\ conn'[k].freed = conn[k].freed /\ conn'[k].connected = conn[k].connected
        /\ conn'[k].link = conn[k].link /\ conn'[k].queued = conn[k].queued
        /\ conn'[k].arrived = conn[k].arrived /\ conn'[k].processed = conn[k].processed
        /\ conn'[k].guid = FALSE /\ conn'[k].leaked = conn[k].leaked
    <3> DEFINE d == [[[conn[k] EXCEPT !.guid = FALSE] EXCEPT !.refs = @ - 1] EXCEPT !.lock = None]
    <3>1. ConnBecomes(k, d)
      BY <1>2, <2>2, ForgetShared(t), Zenon DEF ForgetShared, At, Go, Arg, UpdateDone, Dropped
    <3>2. conn[k] \in Connection
      BY <2>2, Zenon DEF TypeOK
    <3>3. d \in Connection
      <4>1. conn[k].refs \in Int /\ hasGuid \in BOOLEAN
        BY <3>2, Zenon DEF TypeOK, Connection
      <4> QED
        BY <3>2, <4>1, Counting, Zenon DEF Connection
    <3>4. /\ d.refs = conn[k].refs - 1 /\ d.born = conn[k].born
          /\ d.freed = conn[k].freed /\ d.connected = conn[k].connected
          /\ d.link = conn[k].link /\ d.queued = conn[k].queued
          /\ d.arrived = conn[k].arrived /\ d.processed = conn[k].processed
          /\ d.guid = FALSE /\ d.leaked = conn[k].leaked
      BY <3>2, Zenon DEF Connection
    <3> HIDE DEF d
    <3> QED
      BY <2>2, <3>1, <3>3, <3>4, ConnBecomesIs, Zenon
  <2>7. TypeOK'
    BY <2>2, <2>3, <2>5, <2>6, Zenon DEF ThreadIs, OthersStay, TypeOK
  <2>8. OwnThread(t) /\ LivedAt(k) /\ UnmadeAt(k) /\ LeakedAt(k) /\ KeptAt(k)
    BY <2>2, Zenon DEF OwnThread, Placed, Making, Forgetting, Finalizing, Lived, Unmade,
       Leaked, Kept
  <2>9. Reaches(t, k) /\ conn[k].born /\ ~conn[k].leaked
    BY <2>2, <2>3, <2>8, Zenon DEF OwnThread, PlacedAt, MakingAt, Reaches, UnmadeAt, LivedAt,
       LeakedAt, Hidden, Tabled, Shared, SharedAssumption
  <2>10. thread[t].arg \in {None, k} /\ thread'[t].arg \in {None, k}
    BY <2>3, <2>5, <2>8, Zenon DEF OwnThread, PlacedAt, ThreadIs
  <2>11. Shared(k) /\ ~Shared(k)'
    BY <2>2, <2>3, <2>6, <2>8, ZenonT(40) DEF Shared, OwnThread, ForgettingAt
  <2>12. BusLocked => conn[k].refs >= 1
    BY <2>2, <2>3, <2>8, <2>9, References1 DEF OwnThread, Weak, KeptByLibrary, Works, One,
       Shared, PlacedAt, Tabled, KeptAt, LivedAt, LeakedAt, MakingAt, Hidden, Recorded,
       SharedAssumption
  <2>13. Ages(t, k)
    BY <2>3, <2>6, <2>8, <2>9, <2>11, <2>12, Zenon DEF Ages, LivedAt
  <2>14. /\ bus' = bus \/ bus \in {None, t}
         /\ (pool' = pool /\ table' = table) \/ pool \in {None, t}
         /\ slot' \in {slot, None} \/ (thread[t].at = "store" /\ slot' = k)
    BY <2>3, Zenon
  <2>15. Step(t, k)
    BY <2>2, <2>3, <2>5, <2>6, <2>7, <2>10, <2>14, <2>9, <2>13, Zenon DEF Step, ThreadIs,
       OthersStay
  <2>16. OwnThread(t)'
    <3>1. PlacedAt(t)'
      BY <2>2, <2>3, <2>5, <2>6, <2>8, <2>9, <2>11, Zenon DEF OwnThread, ThreadIs, OthersStay,
         PlacedAt, LivedAt, MakingAt, Hidden, SharedAssumption
    <3>2. MakingAt(t)'
      BY <2>2, <2>3, <2>5, <2>6, <2>8, <2>9, <2>11, Zenon DEF OwnThread, ThreadIs, OthersStay,
         MakingAt, Hidden, SharedAssumption
    <3>3. ForgettingAt(t)'
      BY <2>2, <2>3, <2>5, <2>6, <2>8, <2>9, <2>11, Zenon DEF OwnThread, ThreadIs, OthersStay,
         ForgettingAt, SharedAssumption
    <3>4. FinalizingAt(t)'
      BY <2>2, <2>3, <2>5, <2>6, <2>8, <2>9, <2>11, Zenon DEF OwnThread, ThreadIs, OthersStay,
         FinalizingAt, SharedAssumption
    <3> QED
      BY <3>1, <3>2, <3>3, <3>4, Zenon DEF OwnThread
  <2>17. OwnConn(k)'
    <3>1. LivedAt(k)'
      BY <2>3, <2>6, <2>8, <2>9, <2>11, Zenon DEF LivedAt, OwnThread, PlacedAt
    <3>2. LeakedAt(k)'
      BY <2>2, <2>3, <2>5, <2>6, <2>8, <2>9, <2>11, Zenon DEF LeakedAt
    <3>3. KeptAt(k)'
      BY <2>2, <2>3, <2>5, <2>6, <2>8, <2>9, <2>11, Zenon DEF KeptAt, OwnThread, ForgettingAt,
         Recorded, ThreadIs, LivedAt
    <3>4. Balanced(t, k)
      BY <2>2, <2>3, <2>5, <2>6, <2>8, <2>9, <2>11, ZenonT(40) DEF Balanced, Works, KeptByLibrary,
         Shared, OwnThread, PlacedAt, MakingAt, ThreadIs, Hidden, LivedAt, SharedAssumption
    <3>5. conn'[k].refs = References(k)'
      BY <2>2, <2>5, <3>4, BalanceKeeps, Zenon DEF SharedAssumption
    <3> QED
      BY <3>1, <3>2, <3>3, <3>5, Zenon DEF OwnConn
  <2>18. Tabled'
    BY <2>2, <2>3, <2>6, Zenon DEF Tabled, TypeOK, OthersStay
  <2>19. ASSUME BusLocked PROVE OwnWeak(t, k)'
    <3>1. (slot' = k => conn'[k].link) /\ (thread'[t].at \in {"store", "mark"} => conn'[k].link)
      BY <2>2, <2>19, <2>3, <2>5, <2>6, <2>8, <2>9, ZenonT(40) DEF Weak, OwnThread, PlacedAt,
         MakingAt, LivedAt, ThreadIs, Hidden, SharedAssumption
    <3>2. (conn'[k].freed => conn'[k].refs = 0) /\ (thread'[t].at = "finalize" => conn'[k].refs = 0)
      BY <2>2, <2>19, <2>3, <2>5, <2>6, <2>8, <2>9, <2>12 DEF Weak, LivedAt, ThreadIs
    <3> QED
      BY <3>1, <3>2, Zenon DEF OwnWeak
  <2> QED
    BY <2>2, <2>3, <2>15, <2>16, <2>18, <2>17, <2>19, StepKeeps, Zenon DEF SharedAssumption
<1> QED
  BY <1>1, <1>2, ForgetShared(t), Zenon DEF ForgetShared, At, Go, Becomes, ConnBecomes, Arg,
     UpdateDone, Dropped

\* The working reference is dropped; when it was the last one, libdbus had forgotten the connection.
LEMMA UnrefKeeps ==
  ASSUME SharedAssumption, IInv, NEW t \in Threads, Unref(t)
  PROVE  IInv'
<1> USE DEF IInv, SInv
<1>1. CASE conn[thread[t].arg].refs = 1
  <2>1. thread[t].arg \in Conns
    BY <1>1, Unref(t), Zenon DEF Unref, At, Becomes, ConnBecomes, Arg, Dropped, Fail, Idle,
       TypeOK, Thread, Placed, PlacedAt
  <2>2. PICK k \in Conns : k = thread[t].arg
    BY <2>1, Zenon
  <2>3. /\ thread[t].at = "unref"
        /\ conn[k].refs = 1
        /\ thread[t].arg = k
        /\ crash = "none"
        /\ hasGuid' = hasGuid
        /\ table' = table
        /\ noGuid' = noGuid
        /\ slot' = slot
        /\ bus' = (IF thread[t].busGet THEN None ELSE bus)
        /\ pool' = pool
        /\ crash' = crash
    BY <1>1, <2>2, Unref(t), Zenon DEF Unref, At, Becomes, ConnBecomes, Arg, Dropped, Fail, Idle
  <2>4. thread[t] \in Thread
    BY Zenon DEF TypeOK
  <2>5. ThreadIs(t, "finalize", FALSE, k, thread[t].holds)
    <3> DEFINE r == [thread[t] EXCEPT !.at = "finalize", !.busGet = FALSE]
    <3>1. Becomes(t, r)
      BY <1>1, <2>2, Unref(t), Zenon DEF Unref, At, Arg, Dropped, Fail, Idle
    <3>2. r \in Thread
      BY <2>3, <2>4, <2>2, Zenon DEF Thread, Places, Idle, TypeOK
    <3>3. r.at = ("finalize") /\ r.busGet = FALSE /\ r.arg = k /\ r.holds = thread[t].holds
      BY <1>1, <2>2, <2>3, <2>4, Zenon DEF Thread, Idle
    <3> HIDE DEF r
    <3> QED
      BY <3>1, <3>2, <3>3, BecomesIs, Zenon
  <2>6. /\ OthersStay(k)
        /\ conn'[k].refs = conn[k].refs - 1 /\ conn'[k].born = conn[k].born
        /\ conn'[k].freed = conn[k].freed /\ conn'[k].connected = conn[k].connected
        /\ conn'[k].link = conn[k].link /\ conn'[k].queued = conn[k].queued
        /\ conn'[k].arrived = conn[k].arrived /\ conn'[k].processed = conn[k].processed
        /\ conn'[k].guid = conn[k].guid /\ conn'[k].leaked = conn[k].leaked
    <3> DEFINE d == [conn[k] EXCEPT !.refs = @ - 1]
    <3>1. ConnBecomes(k, d)
      BY <1>1, <2>2, Unref(t), Zenon DEF Unref, At, Arg, Dropped, Fail, Idle
    <3>2. conn[k] \in Connection
      BY <2>2, Zenon DEF TypeOK
    <3>3. d \in Connection
      <4>1. conn[k].refs \in Int /\ hasGuid \in BOOLEAN
        BY <3>2, Zenon DEF TypeOK, Connection
      <4> QED
        BY <3>2, <4>1, Counting, Zenon DEF Connection
    <3>4. /\ d.refs = conn[k].refs - 1 /\ d.born = conn[k].born
          /\ d.freed = conn[k].freed /\ d.connected = conn[k].connected
          /\ d.link = conn[k].link /\ d.queued = conn[k].queued
          /\ d.arrived = conn[k].arrived /\ d.processed = conn[k].processed
          /\ d.guid = conn[k].guid /\ d.leaked = conn[k].leaked
      BY <3>2, Zenon DEF Connection
    <3> HIDE DEF d
    <3> QED
      BY <2>2, <3>1, <3>3, <3>4, ConnBecomesIs, Zenon
  <2>7. TypeOK'
    BY <2>2, <2>3, <2>5, <2>6, Zenon DEF ThreadIs, OthersStay, TypeOK
  <2>8. OwnThread(t) /\ LivedAt(k) /\ UnmadeAt(k) /\ LeakedAt(k) /\ KeptAt(k)
    BY <2>2, Zenon DEF OwnThread, Placed, Making, Forgetting, Finalizing, Lived, Unmade,
       Leaked, Kept
  <2>9. Reaches(t, k) /\ conn[k].born
    BY <2>2, <2>3, <2>8, Zenon DEF OwnThread, PlacedAt, MakingAt, Reaches, UnmadeAt, LivedAt,
       LeakedAt, Hidden, Tabled, Shared, SharedAssumption
  <2>10. thread[t].arg \in {None, k} /\ thread'[t].arg \in {None, k}
    BY <2>3, <2>5, <2>8, Zenon DEF OwnThread, PlacedAt, ThreadIs
  <2>11. Shared(k)' <=> Shared(k)
    BY <2>2, <2>3, <2>6, ZenonT(40) DEF Shared
  <2>12. BusLocked => conn[k].refs >= 1
    BY <2>2, <2>3, <2>8, <2>9, References1 DEF OwnThread, Weak, KeptByLibrary, Works, One,
       Shared, PlacedAt, Tabled, KeptAt, LivedAt, LeakedAt, MakingAt, Hidden, Recorded,
       SharedAssumption
  <2>13. Ages(t, k)
    BY <2>3, <2>6, <2>8, <2>9, <2>11, <2>12, Zenon DEF Ages, LivedAt
  <2>14. /\ bus' = bus \/ bus \in {None, t}
         /\ (pool' = pool /\ table' = table) \/ pool \in {None, t}
         /\ slot' \in {slot, None} \/ (thread[t].at = "store" /\ slot' = k)
    BY <2>3, <2>8, Zenon DEF OwnThread, PlacedAt
  <2>15. Step(t, k)
    BY <2>2, <2>3, <2>5, <2>6, <2>7, <2>10, <2>14, <2>9, <2>13, ZenonT(40) DEF Step, ThreadIs,
       OthersStay
  <2>16. ~Shared(k) /\ ~conn[k].leaked
    BY <2>2, <2>3, <2>8, <2>9, References1 DEF Works, One, KeptByLibrary, Shared,
       SharedAssumption
  <2>17. Recorded(k)
    BY <2>2, <2>3, <2>8, <2>9, Zenon DEF OwnThread, Making, MakingAt, Hidden, Recorded
  <2>18. conn[k].processed
    BY <2>16, <2>17, <2>8, <2>9, Zenon DEF KeptAt
  <2>19. OwnThread(t)'
    <3>1. PlacedAt(t)'
      BY <2>2, <2>3, <2>5, <2>6, <2>8, <2>9, <2>11, <2>16, <2>18, ZenonT(40) DEF OwnThread,
         ThreadIs, OthersStay, PlacedAt, LivedAt, MakingAt, Hidden, SharedAssumption
    <3>2. MakingAt(t)'
      BY <2>2, <2>3, <2>5, <2>6, <2>8, <2>9, <2>11, <2>16, <2>18, Zenon DEF OwnThread,
         ThreadIs, OthersStay, MakingAt, Hidden, SharedAssumption
    <3>3. ForgettingAt(t)'
      BY <2>2, <2>3, <2>5, <2>6, <2>8, <2>9, <2>11, <2>16, <2>18, Zenon DEF OwnThread,
         ThreadIs, OthersStay, ForgettingAt, SharedAssumption
    <3>4. FinalizingAt(t)'
      BY <2>2, <2>3, <2>5, <2>6, <2>8, <2>9, <2>11, <2>16, <2>18, Zenon DEF OwnThread,
         ThreadIs, OthersStay, FinalizingAt, SharedAssumption
    <3> QED
      BY <3>1, <3>2, <3>3, <3>4, Zenon DEF OwnThread
  <2>20. OwnConn(k)'
    <3>1. LivedAt(k)'
      BY <2>3, <2>6, <2>8, <2>9, <2>11, <2>16, <2>18, Zenon DEF LivedAt, OwnThread, PlacedAt
    <3>2. LeakedAt(k)'
      BY <2>2, <2>3, <2>5, <2>6, <2>8, <2>9, <2>11, <2>16, <2>18, Zenon DEF LeakedAt, Hidden,
         LivedAt, OwnThread, MakingAt, ThreadIs, OthersStay, SharedAssumption
    <3>3. KeptAt(k)'
      BY <2>2, <2>3, <2>5, <2>6, <2>8, <2>9, <2>11, <2>16, <2>18, Zenon DEF KeptAt, OwnThread,
         ForgettingAt, Recorded, ThreadIs, LivedAt
    <3>4. Balanced(t, k)
      BY <2>2, <2>3, <2>5, <2>6, <2>8, <2>9, <2>11, <2>16, <2>18, Zenon DEF Balanced, Works,
         KeptByLibrary, Shared, OwnThread, PlacedAt, MakingAt, ThreadIs, Hidden, LivedAt,
         SharedAssumption
    <3>5. conn'[k].refs = References(k)'
      BY <2>2, <2>5, <3>4, BalanceKeeps, Zenon DEF SharedAssumption
    <3> QED
      BY <3>1, <3>2, <3>3, <3>5, Zenon DEF OwnConn
  <2>21. Tabled'
    BY <2>2, <2>3, <2>6, Zenon DEF Tabled, TypeOK, OthersStay
  <2>22. ASSUME BusLocked PROVE OwnWeak(t, k)'
    <3>1. (slot' = k => conn'[k].link) /\ (thread'[t].at \in {"store", "mark"} => conn'[k].link)
      BY <2>2, <2>22, <2>3, <2>5, <2>6, <2>8, <2>9, ZenonT(40) DEF Weak, OwnThread, PlacedAt,
         MakingAt, LivedAt, ThreadIs, Hidden, SharedAssumption
    <3>2. (conn'[k].freed => conn'[k].refs = 0) /\ (thread'[t].at = "finalize" => conn'[k].refs = 0)
      BY <2>2, <2>22, <2>3, <2>5, <2>6, <2>8, <2>9, <2>12 DEF Weak, LivedAt, ThreadIs
    <3> QED
      BY <3>1, <3>2, Zenon DEF OwnWeak
  <2> QED
    BY <2>2, <2>3, <2>15, <2>19, <2>21, <2>20, <2>22, StepKeeps, Zenon DEF SharedAssumption
<1>2. CASE conn[thread[t].arg].refs # 1
  <2>1. thread[t].arg \in Conns
    BY <1>2, Unref(t), Zenon DEF Unref, At, Becomes, ConnBecomes, Arg, Dropped, Fail, Idle,
       TypeOK, Thread, Placed, PlacedAt
  <2>2. PICK k \in Conns : k = thread[t].arg
    BY <2>1, Zenon
  <2>3. /\ thread[t].at = "unref"
        /\ thread[t].arg = k
        /\ crash = "none"
        /\ hasGuid' = hasGuid
        /\ table' = table
        /\ noGuid' = noGuid
        /\ slot' = slot
        /\ bus' = (IF thread[t].busGet THEN None ELSE bus)
        /\ pool' = pool
        /\ crash' = crash
    BY <1>2, <2>2, Unref(t), Zenon DEF Unref, At, Becomes, ConnBecomes, Arg, Dropped, Fail, Idle
  <2>4. thread[t] \in Thread
    BY Zenon DEF TypeOK
  <2>5. ThreadIs(t, "idle", FALSE, None, thread[t].holds)
    <3> DEFINE r == [Idle EXCEPT !.holds = thread[t].holds]
    <3>1. Becomes(t, r)
      BY <1>2, <2>2, Unref(t), Zenon DEF Unref, At, Arg, Dropped, Fail, Idle
    <3>2. r \in Thread
      BY <2>3, <2>4, <2>2, Zenon DEF Thread, Places, Idle, TypeOK
    <3>3. r.at = ("idle") /\ r.busGet = FALSE /\ r.arg = None /\ r.holds = thread[t].holds
      BY <1>2, <2>2, <2>3, <2>4, Zenon DEF Thread, Idle
    <3> HIDE DEF r
    <3> QED
      BY <3>1, <3>2, <3>3, BecomesIs, Zenon
  <2>6. /\ OthersStay(k)
        /\ conn'[k].refs = conn[k].refs - 1 /\ conn'[k].born = conn[k].born
        /\ conn'[k].freed = conn[k].freed /\ conn'[k].connected = conn[k].connected
        /\ conn'[k].link = conn[k].link /\ conn'[k].queued = conn[k].queued
        /\ conn'[k].arrived = conn[k].arrived /\ conn'[k].processed = conn[k].processed
        /\ conn'[k].guid = conn[k].guid /\ conn'[k].leaked = conn[k].leaked
    <3> DEFINE d == [conn[k] EXCEPT !.refs = @ - 1]
    <3>1. ConnBecomes(k, d)
      BY <1>2, <2>2, Unref(t), Zenon DEF Unref, At, Arg, Dropped, Fail, Idle
    <3>2. conn[k] \in Connection
      BY <2>2, Zenon DEF TypeOK
    <3>3. d \in Connection
      <4>1. conn[k].refs \in Int /\ hasGuid \in BOOLEAN
        BY <3>2, Zenon DEF TypeOK, Connection
      <4> QED
        BY <3>2, <4>1, Counting, Zenon DEF Connection
    <3>4. /\ d.refs = conn[k].refs - 1 /\ d.born = conn[k].born
          /\ d.freed = conn[k].freed /\ d.connected = conn[k].connected
          /\ d.link = conn[k].link /\ d.queued = conn[k].queued
          /\ d.arrived = conn[k].arrived /\ d.processed = conn[k].processed
          /\ d.guid = conn[k].guid /\ d.leaked = conn[k].leaked
      BY <3>2, Zenon DEF Connection
    <3> HIDE DEF d
    <3> QED
      BY <2>2, <3>1, <3>3, <3>4, ConnBecomesIs, Zenon
  <2>7. TypeOK'
    BY <2>2, <2>3, <2>5, <2>6, Zenon DEF ThreadIs, OthersStay, TypeOK
  <2>8. OwnThread(t) /\ LivedAt(k) /\ UnmadeAt(k) /\ LeakedAt(k) /\ KeptAt(k)
    BY <2>2, Zenon DEF OwnThread, Placed, Making, Forgetting, Finalizing, Lived, Unmade,
       Leaked, Kept
  <2>9. Reaches(t, k) /\ conn[k].born
    BY <2>2, <2>3, <2>8, Zenon DEF OwnThread, PlacedAt, MakingAt, Reaches, UnmadeAt, LivedAt,
       LeakedAt, Hidden, Tabled, Shared, SharedAssumption
  <2>10. thread[t].arg \in {None, k} /\ thread'[t].arg \in {None, k}
    BY <2>3, <2>5, <2>8, Zenon DEF OwnThread, PlacedAt, ThreadIs
  <2>11. Shared(k)' <=> Shared(k)
    BY <2>2, <2>3, <2>6, ZenonT(40) DEF Shared
  <2>12. BusLocked => conn[k].refs >= 1
    BY <2>2, <2>3, <2>8, <2>9, References1 DEF OwnThread, Weak, KeptByLibrary, Works, One,
       Shared, PlacedAt, Tabled, KeptAt, LivedAt, LeakedAt, MakingAt, Hidden, Recorded,
       SharedAssumption
  <2>13. Ages(t, k)
    BY <2>3, <2>6, <2>8, <2>9, <2>11, <2>12, Zenon DEF Ages, LivedAt
  <2>14. /\ bus' = bus \/ bus \in {None, t}
         /\ (pool' = pool /\ table' = table) \/ pool \in {None, t}
         /\ slot' \in {slot, None} \/ (thread[t].at = "store" /\ slot' = k)
    BY <2>3, <2>8, Zenon DEF OwnThread, PlacedAt
  <2>15. Step(t, k)
    BY <2>2, <2>3, <2>5, <2>6, <2>7, <2>10, <2>14, <2>9, <2>13, ZenonT(40) DEF Step, ThreadIs,
       OthersStay
  <2>16. OwnThread(t)'
    <3>1. PlacedAt(t)'
      BY <2>2, <2>3, <2>5, <2>6, <2>8, <2>9, <2>11, Zenon DEF OwnThread, ThreadIs, OthersStay,
         PlacedAt, LivedAt, MakingAt, Hidden, SharedAssumption
    <3>2. MakingAt(t)'
      BY <2>2, <2>3, <2>5, <2>6, <2>8, <2>9, <2>11, Zenon DEF OwnThread, ThreadIs, OthersStay,
         MakingAt, Hidden, SharedAssumption
    <3>3. ForgettingAt(t)'
      BY <2>2, <2>3, <2>5, <2>6, <2>8, <2>9, <2>11, Zenon DEF OwnThread, ThreadIs, OthersStay,
         ForgettingAt, SharedAssumption
    <3>4. FinalizingAt(t)'
      BY <2>2, <2>3, <2>5, <2>6, <2>8, <2>9, <2>11, ZenonT(40) DEF OwnThread, ThreadIs, OthersStay,
         FinalizingAt, SharedAssumption
    <3> QED
      BY <3>1, <3>2, <3>3, <3>4, Zenon DEF OwnThread
  <2>17. OwnConn(k)'
    <3>1. LivedAt(k)'
      BY <2>3, <2>6, <2>8, <2>9, <2>11, Zenon DEF LivedAt, OwnThread, PlacedAt
    <3>2. LeakedAt(k)'
      BY <2>2, <2>3, <2>5, <2>6, <2>8, <2>9, <2>11, ZenonT(40) DEF LeakedAt, Hidden, LivedAt,
         OwnThread, MakingAt, ThreadIs, OthersStay, SharedAssumption
    <3>3. KeptAt(k)'
      BY <2>2, <2>3, <2>5, <2>6, <2>8, <2>9, <2>11, Zenon DEF KeptAt, OwnThread, ForgettingAt,
         Recorded, ThreadIs, LivedAt
    <3>4. Balanced(t, k)
      BY <2>2, <2>3, <2>5, <2>6, <2>8, <2>9, <2>11, Zenon DEF Balanced, Works, KeptByLibrary,
         Shared, OwnThread, PlacedAt, MakingAt, ThreadIs, Hidden, LivedAt, SharedAssumption
    <3>5. conn'[k].refs = References(k)'
      BY <2>2, <2>5, <3>4, BalanceKeeps, Zenon DEF SharedAssumption
    <3> QED
      BY <3>1, <3>2, <3>3, <3>5, Zenon DEF OwnConn
  <2>18. Tabled'
    BY <2>2, <2>3, <2>6, Zenon DEF Tabled, TypeOK, OthersStay
  <2>19. ASSUME BusLocked PROVE OwnWeak(t, k)'
    <3>1. (slot' = k => conn'[k].link) /\ (thread'[t].at \in {"store", "mark"} => conn'[k].link)
      BY <2>2, <2>19, <2>3, <2>5, <2>6, <2>8, <2>9, ZenonT(40) DEF Weak, OwnThread, PlacedAt,
         MakingAt, LivedAt, ThreadIs, Hidden, SharedAssumption
    <3>2. (conn'[k].freed => conn'[k].refs = 0) /\ (thread'[t].at = "finalize" => conn'[k].refs = 0)
      BY <2>2, <2>19, <2>3, <2>5, <2>6, <2>8, <2>9, <2>12 DEF Weak, LivedAt, ThreadIs
    <3> QED
      BY <3>1, <3>2, Zenon DEF OwnWeak
  <2> QED
    BY <2>2, <2>3, <2>15, <2>16, <2>18, <2>17, <2>19, StepKeeps, Zenon DEF SharedAssumption
<1> QED
  BY <1>1, <1>2, Unref(t), Zenon DEF Unref, At, Becomes, ConnBecomes, Arg, Dropped, Fail, Idle

\* The application drops its reference, the last one or not.
LEMMA DbusConnectionUnrefKeeps ==
  ASSUME SharedAssumption, IInv, NEW t \in Threads, NEW c \in Conns, DbusConnectionUnref(t, c)
  PROVE  IInv'
<1> USE DEF IInv, SInv
<1>1. CASE conn[c].refs = 1
  <2>1. c \in Conns
    BY Zenon
  <2>2. /\ thread[t].at = "idle"
        /\ c \in thread[t].holds
        /\ conn[c].refs = 1
        /\ crash = "none"
        /\ hasGuid' = hasGuid
        /\ table' = table
        /\ noGuid' = noGuid
        /\ slot' = slot
        /\ bus' = bus
        /\ pool' = pool
        /\ crash' = crash
    BY <1>1, DbusConnectionUnref(t, c), Zenon DEF DbusConnectionUnref, At, Becomes,
       ConnBecomes, Dropped, Idle
  <2>3. thread[t] \in Thread
    BY Zenon DEF TypeOK
  <2>4. ThreadIs(t, "finalize", FALSE, c, thread[t].holds \ {c})
    <3> DEFINE r == [Idle EXCEPT !.holds = thread[t].holds \ {c}, !.arg = IF conn[c].refs = 1 THEN c ELSE None, !.at = IF conn[c].refs = 1 THEN "finalize" ELSE "idle"]
    <3>1. Becomes(t, r)
      BY <1>1, DbusConnectionUnref(t, c), Zenon DEF DbusConnectionUnref, At, Dropped, Idle
    <3>2. r \in Thread
      BY <2>2, <2>3, <2>1, Zenon DEF Thread, Places, Idle, TypeOK
    <3>3. r.at = ("finalize") /\ r.busGet = FALSE /\ r.arg = c /\ r.holds = thread[t].holds \ {c}
      BY <1>1, <2>2, <2>3, Zenon DEF Thread, Idle
    <3> HIDE DEF r
    <3> QED
      BY <3>1, <3>2, <3>3, BecomesIs, Zenon
  <2>5. /\ OthersStay(c)
        /\ conn'[c].refs = conn[c].refs - 1 /\ conn'[c].born = conn[c].born
        /\ conn'[c].freed = conn[c].freed /\ conn'[c].connected = conn[c].connected
        /\ conn'[c].link = conn[c].link /\ conn'[c].queued = conn[c].queued
        /\ conn'[c].arrived = conn[c].arrived /\ conn'[c].processed = conn[c].processed
        /\ conn'[c].guid = conn[c].guid /\ conn'[c].leaked = conn[c].leaked
    <3> DEFINE d == [conn[c] EXCEPT !.refs = @ - 1]
    <3>1. ConnBecomes(c, d)
      BY <1>1, DbusConnectionUnref(t, c), Zenon DEF DbusConnectionUnref, At, Dropped, Idle
    <3>2. conn[c] \in Connection
      BY <2>1, Zenon DEF TypeOK
    <3>3. d \in Connection
      <4>1. conn[c].refs \in Int /\ hasGuid \in BOOLEAN
        BY <3>2, Zenon DEF TypeOK, Connection
      <4> QED
        BY <3>2, <4>1, Counting, Zenon DEF Connection
    <3>4. /\ d.refs = conn[c].refs - 1 /\ d.born = conn[c].born
          /\ d.freed = conn[c].freed /\ d.connected = conn[c].connected
          /\ d.link = conn[c].link /\ d.queued = conn[c].queued
          /\ d.arrived = conn[c].arrived /\ d.processed = conn[c].processed
          /\ d.guid = conn[c].guid /\ d.leaked = conn[c].leaked
      BY <3>2, Zenon DEF Connection
    <3> HIDE DEF d
    <3> QED
      BY <2>1, <3>1, <3>3, <3>4, ConnBecomesIs, Zenon
  <2>6. TypeOK'
    BY <2>1, <2>2, <2>4, <2>5, Zenon DEF ThreadIs, OthersStay, TypeOK
  <2>7. OwnThread(t) /\ LivedAt(c) /\ UnmadeAt(c) /\ LeakedAt(c) /\ KeptAt(c)
    BY <2>1, Zenon DEF OwnThread, Placed, Making, Forgetting, Finalizing, Lived, Unmade,
       Leaked, Kept
  <2>8. Reaches(t, c) /\ conn[c].born /\ ~conn[c].leaked
    BY <2>1, <2>2, <2>7, Zenon DEF OwnThread, PlacedAt, MakingAt, Reaches, UnmadeAt, LivedAt,
       LeakedAt, Hidden, Tabled, Shared, SharedAssumption
  <2>9. thread[t].arg \in {None, c} /\ thread'[t].arg \in {None, c}
    BY <2>2, <2>4, <2>7, Zenon DEF OwnThread, PlacedAt, ThreadIs
  <2>10. Shared(c)' <=> Shared(c)
    BY <2>1, <2>2, <2>5, ZenonT(40) DEF Shared
  <2>11. BusLocked => conn[c].refs >= 1
    BY <2>1, <2>2, <2>7, <2>8, References1 DEF OwnThread, Weak, KeptByLibrary, Works, One,
       Shared, PlacedAt, Tabled, KeptAt, LivedAt, LeakedAt, MakingAt, Hidden, Recorded,
       SharedAssumption
  <2>12. Ages(t, c)
    BY <2>2, <2>5, <2>7, <2>8, <2>10, <2>11, Zenon DEF Ages, LivedAt
  <2>13. /\ bus' = bus \/ bus \in {None, t}
         /\ (pool' = pool /\ table' = table) \/ pool \in {None, t}
         /\ slot' \in {slot, None} \/ (thread[t].at = "store" /\ slot' = c)
    BY <2>2, Zenon
  <2>14. Step(t, c)
    BY <2>1, <2>2, <2>4, <2>5, <2>6, <2>9, <2>13, <2>8, <2>12, ZenonT(40) DEF Step, ThreadIs,
       OthersStay
  <2>15. ~Shared(c) /\ ~conn[c].leaked
    BY <2>1, <2>2, <2>7, <2>8, References1 DEF Works, One, KeptByLibrary, Shared,
       SharedAssumption
  <2>16. Recorded(c)
    BY <2>1, <2>2, <2>7, <2>8, Zenon DEF OwnThread, Making, MakingAt, Hidden, Recorded
  <2>17. conn[c].processed
    BY <2>15, <2>16, <2>7, <2>8, Zenon DEF KeptAt
  <2>18. OwnThread(t)'
    <3>1. PlacedAt(t)'
      BY <2>1, <2>2, <2>4, <2>5, <2>7, <2>8, <2>10, <2>15, <2>17, Zenon DEF OwnThread,
         ThreadIs, OthersStay, PlacedAt, LivedAt, MakingAt, Hidden, SharedAssumption
    <3>2. MakingAt(t)'
      BY <2>1, <2>2, <2>4, <2>5, <2>7, <2>8, <2>10, <2>15, <2>17, Zenon DEF OwnThread,
         ThreadIs, OthersStay, MakingAt, Hidden, SharedAssumption
    <3>3. ForgettingAt(t)'
      BY <2>1, <2>2, <2>4, <2>5, <2>7, <2>8, <2>10, <2>15, <2>17, Zenon DEF OwnThread,
         ThreadIs, OthersStay, ForgettingAt, SharedAssumption
    <3>4. FinalizingAt(t)'
      BY <2>1, <2>2, <2>4, <2>5, <2>7, <2>8, <2>10, <2>15, <2>17, ZenonT(40) DEF OwnThread,
         ThreadIs, OthersStay, FinalizingAt, SharedAssumption
    <3> QED
      BY <3>1, <3>2, <3>3, <3>4, Zenon DEF OwnThread
  <2>19. OwnConn(c)'
    <3>1. LivedAt(c)'
      BY <2>2, <2>5, <2>7, <2>8, <2>10, <2>15, <2>17, Zenon DEF LivedAt, OwnThread, PlacedAt
    <3>2. LeakedAt(c)'
      BY <2>1, <2>2, <2>4, <2>5, <2>7, <2>8, <2>10, <2>15, <2>17, Zenon DEF LeakedAt
    <3>3. KeptAt(c)'
      BY <2>1, <2>2, <2>4, <2>5, <2>7, <2>8, <2>10, <2>15, <2>17, Zenon DEF KeptAt, OwnThread,
         ForgettingAt, Recorded, ThreadIs, LivedAt
    <3>4. Balanced(t, c)
      BY <2>1, <2>2, <2>4, <2>5, <2>7, <2>8, <2>10, <2>15, <2>17, Zenon DEF Balanced, Works,
         KeptByLibrary, Shared, OwnThread, PlacedAt, MakingAt, ThreadIs, Hidden, LivedAt,
         SharedAssumption
    <3>5. conn'[c].refs = References(c)'
      BY <2>1, <2>4, <3>4, BalanceKeeps, Zenon DEF SharedAssumption
    <3> QED
      BY <3>1, <3>2, <3>3, <3>5, Zenon DEF OwnConn
  <2>20. Tabled'
    BY <2>1, <2>2, <2>5, Zenon DEF Tabled, TypeOK, OthersStay
  <2>21. ASSUME BusLocked PROVE OwnWeak(t, c)'
    <3>1. (slot' = c => conn'[c].link) /\ (thread'[t].at \in {"store", "mark"} => conn'[c].link)
      BY <2>1, <2>21, <2>2, <2>4, <2>5, <2>7, <2>8, ZenonT(40) DEF Weak, OwnThread, PlacedAt,
         MakingAt, LivedAt, ThreadIs, Hidden, SharedAssumption
    <3>2. (conn'[c].freed => conn'[c].refs = 0) /\ (thread'[t].at = "finalize" => conn'[c].refs = 0)
      BY <2>1, <2>21, <2>2, <2>4, <2>5, <2>7, <2>8, <2>11 DEF Weak, LivedAt, ThreadIs
    <3> QED
      BY <3>1, <3>2, Zenon DEF OwnWeak
  <2> QED
    BY <2>1, <2>2, <2>14, <2>18, <2>20, <2>19, <2>21, StepKeeps, Zenon DEF SharedAssumption
<1>2. CASE conn[c].refs # 1
  <2>1. c \in Conns
    BY Zenon
  <2>2. /\ thread[t].at = "idle"
        /\ c \in thread[t].holds
        /\ crash = "none"
        /\ hasGuid' = hasGuid
        /\ table' = table
        /\ noGuid' = noGuid
        /\ slot' = slot
        /\ bus' = bus
        /\ pool' = pool
        /\ crash' = crash
    BY <1>2, DbusConnectionUnref(t, c), Zenon DEF DbusConnectionUnref, At, Becomes,
       ConnBecomes, Dropped, Idle
  <2>3. thread[t] \in Thread
    BY Zenon DEF TypeOK
  <2>4. ThreadIs(t, "idle", FALSE, None, thread[t].holds \ {c})
    <3> DEFINE r == [Idle EXCEPT !.holds = thread[t].holds \ {c}, !.arg = IF conn[c].refs = 1 THEN c ELSE None, !.at = IF conn[c].refs = 1 THEN "finalize" ELSE "idle"]
    <3>1. Becomes(t, r)
      BY <1>2, DbusConnectionUnref(t, c), Zenon DEF DbusConnectionUnref, At, Dropped, Idle
    <3>2. r \in Thread
      BY <2>2, <2>3, <2>1, Zenon DEF Thread, Places, Idle, TypeOK
    <3>3. r.at = ("idle") /\ r.busGet = FALSE /\ r.arg = None /\ r.holds = thread[t].holds \ {c}
      BY <1>2, <2>2, <2>3, Zenon DEF Thread, Idle
    <3> HIDE DEF r
    <3> QED
      BY <3>1, <3>2, <3>3, BecomesIs, Zenon
  <2>5. /\ OthersStay(c)
        /\ conn'[c].refs = conn[c].refs - 1 /\ conn'[c].born = conn[c].born
        /\ conn'[c].freed = conn[c].freed /\ conn'[c].connected = conn[c].connected
        /\ conn'[c].link = conn[c].link /\ conn'[c].queued = conn[c].queued
        /\ conn'[c].arrived = conn[c].arrived /\ conn'[c].processed = conn[c].processed
        /\ conn'[c].guid = conn[c].guid /\ conn'[c].leaked = conn[c].leaked
    <3> DEFINE d == [conn[c] EXCEPT !.refs = @ - 1]
    <3>1. ConnBecomes(c, d)
      BY <1>2, DbusConnectionUnref(t, c), Zenon DEF DbusConnectionUnref, At, Dropped, Idle
    <3>2. conn[c] \in Connection
      BY <2>1, Zenon DEF TypeOK
    <3>3. d \in Connection
      <4>1. conn[c].refs \in Int /\ hasGuid \in BOOLEAN
        BY <3>2, Zenon DEF TypeOK, Connection
      <4> QED
        BY <3>2, <4>1, Counting, Zenon DEF Connection
    <3>4. /\ d.refs = conn[c].refs - 1 /\ d.born = conn[c].born
          /\ d.freed = conn[c].freed /\ d.connected = conn[c].connected
          /\ d.link = conn[c].link /\ d.queued = conn[c].queued
          /\ d.arrived = conn[c].arrived /\ d.processed = conn[c].processed
          /\ d.guid = conn[c].guid /\ d.leaked = conn[c].leaked
      BY <3>2, Zenon DEF Connection
    <3> HIDE DEF d
    <3> QED
      BY <2>1, <3>1, <3>3, <3>4, ConnBecomesIs, Zenon
  <2>6. TypeOK'
    BY <2>1, <2>2, <2>4, <2>5, Zenon DEF ThreadIs, OthersStay, TypeOK
  <2>7. OwnThread(t) /\ LivedAt(c) /\ UnmadeAt(c) /\ LeakedAt(c) /\ KeptAt(c)
    BY <2>1, Zenon DEF OwnThread, Placed, Making, Forgetting, Finalizing, Lived, Unmade,
       Leaked, Kept
  <2>8. Reaches(t, c) /\ conn[c].born /\ ~conn[c].leaked
    BY <2>1, <2>2, <2>7, Zenon DEF OwnThread, PlacedAt, MakingAt, Reaches, UnmadeAt, LivedAt,
       LeakedAt, Hidden, Tabled, Shared, SharedAssumption
  <2>9. thread[t].arg \in {None, c} /\ thread'[t].arg \in {None, c}
    BY <2>2, <2>4, <2>7, Zenon DEF OwnThread, PlacedAt, ThreadIs
  <2>10. Shared(c)' <=> Shared(c)
    BY <2>1, <2>2, <2>5, ZenonT(40) DEF Shared
  <2>11. BusLocked => conn[c].refs >= 1
    BY <2>1, <2>2, <2>7, <2>8, References1 DEF OwnThread, Weak, KeptByLibrary, Works, One,
       Shared, PlacedAt, Tabled, KeptAt, LivedAt, LeakedAt, MakingAt, Hidden, Recorded,
       SharedAssumption
  <2>12. Ages(t, c)
    BY <2>2, <2>5, <2>7, <2>8, <2>10, <2>11, Zenon DEF Ages, LivedAt
  <2>13. /\ bus' = bus \/ bus \in {None, t}
         /\ (pool' = pool /\ table' = table) \/ pool \in {None, t}
         /\ slot' \in {slot, None} \/ (thread[t].at = "store" /\ slot' = c)
    BY <2>2, Zenon
  <2>14. Step(t, c)
    BY <2>1, <2>2, <2>4, <2>5, <2>6, <2>9, <2>13, <2>8, <2>12, Zenon DEF Step, ThreadIs,
       OthersStay
  <2>15. OwnThread(t)'
    <3>1. PlacedAt(t)'
      BY <2>1, <2>2, <2>4, <2>5, <2>7, <2>8, <2>10, Zenon DEF OwnThread, ThreadIs, OthersStay,
         PlacedAt, LivedAt, MakingAt, Hidden, SharedAssumption
    <3>2. MakingAt(t)'
      BY <2>1, <2>2, <2>4, <2>5, <2>7, <2>8, <2>10, Zenon DEF OwnThread, ThreadIs, OthersStay,
         MakingAt, Hidden, SharedAssumption
    <3>3. ForgettingAt(t)'
      BY <2>1, <2>2, <2>4, <2>5, <2>7, <2>8, <2>10, Zenon DEF OwnThread, ThreadIs, OthersStay,
         ForgettingAt, SharedAssumption
    <3>4. FinalizingAt(t)'
      BY <2>1, <2>2, <2>4, <2>5, <2>7, <2>8, <2>10, Zenon DEF OwnThread, ThreadIs, OthersStay,
         FinalizingAt, SharedAssumption
    <3> QED
      BY <3>1, <3>2, <3>3, <3>4, Zenon DEF OwnThread
  <2>16. OwnConn(c)'
    <3>1. LivedAt(c)'
      BY <2>2, <2>5, <2>7, <2>8, <2>10, Zenon DEF LivedAt, OwnThread, PlacedAt
    <3>2. LeakedAt(c)'
      BY <2>1, <2>2, <2>4, <2>5, <2>7, <2>8, <2>10, Zenon DEF LeakedAt
    <3>3. KeptAt(c)'
      BY <2>1, <2>2, <2>4, <2>5, <2>7, <2>8, <2>10, ZenonT(40) DEF KeptAt, OwnThread, ForgettingAt,
         Recorded, ThreadIs, LivedAt
    <3>4. Balanced(t, c)
      BY <2>1, <2>2, <2>4, <2>5, <2>7, <2>8, <2>10, Zenon DEF Balanced, Works, KeptByLibrary,
         Shared, OwnThread, PlacedAt, MakingAt, ThreadIs, Hidden, LivedAt, SharedAssumption
    <3>5. conn'[c].refs = References(c)'
      BY <2>1, <2>4, <3>4, BalanceKeeps, Zenon DEF SharedAssumption
    <3> QED
      BY <3>1, <3>2, <3>3, <3>5, Zenon DEF OwnConn
  <2>17. Tabled'
    BY <2>1, <2>2, <2>5, Zenon DEF Tabled, TypeOK, OthersStay
  <2>18. ASSUME BusLocked PROVE OwnWeak(t, c)'
    <3>1. (slot' = c => conn'[c].link) /\ (thread'[t].at \in {"store", "mark"} => conn'[c].link)
      BY <2>1, <2>18, <2>2, <2>4, <2>5, <2>7, <2>8, ZenonT(40) DEF Weak, OwnThread, PlacedAt,
         MakingAt, LivedAt, ThreadIs, Hidden, SharedAssumption
    <3>2. (conn'[c].freed => conn'[c].refs = 0) /\ (thread'[t].at = "finalize" => conn'[c].refs = 0)
      BY <2>1, <2>18, <2>2, <2>4, <2>5, <2>7, <2>8, <2>11 DEF Weak, LivedAt, ThreadIs
    <3> QED
      BY <3>1, <3>2, Zenon DEF OwnWeak
  <2> QED
    BY <2>1, <2>2, <2>14, <2>15, <2>17, <2>16, <2>18, StepKeeps, Zenon DEF SharedAssumption
<1> QED
  BY <1>1, <1>2, DbusConnectionUnref(t, c), Zenon DEF DbusConnectionUnref, At, Becomes,
     ConnBecomes, Dropped, Idle

\* What is finalized is disconnected and forgotten: the assertion holds.
LEMMA LastUnrefKeeps ==
  ASSUME SharedAssumption, IInv, NEW t \in Threads, LastUnref(t)
  PROVE  IInv'
<1> USE DEF IInv, SInv
<1>1. CASE conn[thread[t].arg].connected \/ conn[thread[t].arg].guid
  <2>1. /\ thread[t].at = "finalize"
        /\ conn[thread[t].arg].connected \/ conn[thread[t].arg].guid
    BY <1>1, LastUnref(t), Zenon DEF LastUnref, At, Becomes, ConnBecomes, Arg, Fail, Idle,
       ClearSlot
  <2>2. thread[t].arg \in Conns
    BY <2>1, Zenon DEF TypeOK, Placed, PlacedAt, Thread
  <2> QED
    BY <2>1, <2>2, Zenon DEF Finalizing, FinalizingAt, Lived, LivedAt, Shared
<1>2. CASE ~(conn[thread[t].arg].connected \/ conn[thread[t].arg].guid)
  <2>1. thread[t].arg \in Conns
    BY <1>2, LastUnref(t), Zenon DEF LastUnref, At, Becomes, ConnBecomes, Arg, Fail, Idle,
       ClearSlot, TypeOK, Thread, Placed, PlacedAt
  <2>2. PICK k \in Conns : k = thread[t].arg
    BY <2>1, Zenon
  <2>3. /\ thread[t].at = "finalize"
        /\ ~conn[k].connected
        /\ thread[t].arg = k
        /\ crash = "none"
        /\ hasGuid' = hasGuid
        /\ table' = table
        /\ noGuid' = noGuid
        /\ bus' = bus
        /\ pool' = pool
        /\ crash' = crash
        /\ slot' \in {slot, IF slot = k THEN None ELSE slot}
    BY <1>2, <2>2, LastUnref(t), Zenon DEF LastUnref, At, Becomes, ConnBecomes, Arg, Fail,
       Idle, ClearSlot
  <2>4. thread[t] \in Thread
    BY Zenon DEF TypeOK
  <2>5. ThreadIs(t, "idle", FALSE, None, thread[t].holds)
    <3> DEFINE r == [Idle EXCEPT !.holds = thread[t].holds]
    <3>1. Becomes(t, r)
      BY <1>2, <2>2, LastUnref(t), Zenon DEF LastUnref, At, Arg, Fail, Idle, ClearSlot
    <3>2. r \in Thread
      BY <2>3, <2>4, <2>2, Zenon DEF Thread, Places, Idle, TypeOK
    <3>3. r.at = ("idle") /\ r.busGet = FALSE /\ r.arg = None /\ r.holds = thread[t].holds
      BY <1>2, <2>2, <2>3, <2>4, Zenon DEF Thread, Idle
    <3> HIDE DEF r
    <3> QED
      BY <3>1, <3>2, <3>3, BecomesIs, Zenon
  <2>6. /\ OthersStay(k)
        /\ conn'[k].refs = conn[k].refs /\ conn'[k].born = conn[k].born
        /\ conn'[k].freed = TRUE /\ conn'[k].connected = conn[k].connected
        /\ conn'[k].link = conn[k].link /\ conn'[k].queued = conn[k].queued
        /\ conn'[k].arrived = conn[k].arrived /\ conn'[k].processed = conn[k].processed
        /\ conn'[k].guid = conn[k].guid /\ conn'[k].leaked = conn[k].leaked
    <3> DEFINE d == [conn[k] EXCEPT !.freed = TRUE]
    <3>1. ConnBecomes(k, d)
      BY <1>2, <2>2, LastUnref(t), Zenon DEF LastUnref, At, Arg, Fail, Idle, ClearSlot
    <3>2. conn[k] \in Connection
      BY <2>2, Zenon DEF TypeOK
    <3>3. d \in Connection
      <4>1. conn[k].refs \in Int /\ hasGuid \in BOOLEAN
        BY <3>2, Zenon DEF TypeOK, Connection
      <4> QED
        BY <3>2, <4>1, Counting, Zenon DEF Connection
    <3>4. /\ d.refs = conn[k].refs /\ d.born = conn[k].born
          /\ d.freed = TRUE /\ d.connected = conn[k].connected
          /\ d.link = conn[k].link /\ d.queued = conn[k].queued
          /\ d.arrived = conn[k].arrived /\ d.processed = conn[k].processed
          /\ d.guid = conn[k].guid /\ d.leaked = conn[k].leaked
      BY <3>2, Zenon DEF Connection
    <3> HIDE DEF d
    <3> QED
      BY <2>2, <3>1, <3>3, <3>4, ConnBecomesIs, Zenon
  <2>7. TypeOK'
    BY <2>2, <2>3, <2>5, <2>6, Zenon DEF ThreadIs, OthersStay, TypeOK
  <2>8. OwnThread(t) /\ LivedAt(k) /\ UnmadeAt(k) /\ LeakedAt(k) /\ KeptAt(k)
    BY <2>2, Zenon DEF OwnThread, Placed, Making, Forgetting, Finalizing, Lived, Unmade,
       Leaked, Kept
  <2>9. Reaches(t, k) /\ conn[k].born /\ ~conn[k].leaked
    BY <2>2, <2>3, <2>8, Zenon DEF OwnThread, PlacedAt, MakingAt, Reaches, UnmadeAt, LivedAt,
       LeakedAt, Hidden, Tabled, Shared, SharedAssumption
  <2>10. thread[t].arg \in {None, k} /\ thread'[t].arg \in {None, k}
    BY <2>3, <2>5, <2>8, Zenon DEF OwnThread, PlacedAt, ThreadIs
  <2>11. Shared(k)' <=> Shared(k)
    BY <2>2, <2>3, <2>6, Zenon DEF Shared
  <2>12. Ages(t, k)
    BY <2>3, <2>6, <2>8, <2>9, <2>11, Zenon DEF Ages, LivedAt
  <2>13. /\ bus' = bus \/ bus \in {None, t}
         /\ (pool' = pool /\ table' = table) \/ pool \in {None, t}
         /\ slot' \in {slot, None} \/ (thread[t].at = "store" /\ slot' = k)
    BY <2>3, Zenon
  <2>14. Step(t, k)
    BY <2>2, <2>3, <2>5, <2>6, <2>7, <2>10, <2>13, <2>9, <2>12, ZenonT(40) DEF Step, ThreadIs,
       OthersStay
  <2>15. OwnThread(t)'
    <3>1. PlacedAt(t)'
      BY <2>2, <2>3, <2>5, <2>6, <2>8, <2>9, <2>11, Zenon DEF OwnThread, ThreadIs, OthersStay,
         PlacedAt, LivedAt, MakingAt, Hidden, SharedAssumption
    <3>2. MakingAt(t)'
      BY <2>2, <2>3, <2>5, <2>6, <2>8, <2>9, <2>11, Zenon DEF OwnThread, ThreadIs, OthersStay,
         MakingAt, Hidden, SharedAssumption
    <3>3. ForgettingAt(t)'
      BY <2>2, <2>3, <2>5, <2>6, <2>8, <2>9, <2>11, Zenon DEF OwnThread, ThreadIs, OthersStay,
         ForgettingAt, SharedAssumption
    <3>4. FinalizingAt(t)'
      BY <2>2, <2>3, <2>5, <2>6, <2>8, <2>9, <2>11, Zenon DEF OwnThread, ThreadIs, OthersStay,
         FinalizingAt, SharedAssumption
    <3> QED
      BY <3>1, <3>2, <3>3, <3>4, Zenon DEF OwnThread
  <2>16. OwnConn(k)'
    <3>1. LivedAt(k)'
      BY <2>3, <2>6, <2>8, <2>9, <2>11, Zenon DEF LivedAt, OwnThread, PlacedAt
    <3>2. LeakedAt(k)'
      BY <2>2, <2>3, <2>5, <2>6, <2>8, <2>9, <2>11, Zenon DEF LeakedAt
    <3>3. KeptAt(k)'
      BY <2>2, <2>3, <2>5, <2>6, <2>8, <2>9, <2>11, Zenon DEF KeptAt, OwnThread, ForgettingAt,
         Recorded, ThreadIs, LivedAt
    <3>4. Balanced(t, k)
      BY <2>2, <2>3, <2>5, <2>6, <2>8, <2>9, <2>11, ZenonT(40) DEF Balanced, Works, KeptByLibrary,
         Shared, OwnThread, PlacedAt, MakingAt, ThreadIs, Hidden, LivedAt, SharedAssumption
    <3>5. conn'[k].refs = References(k)'
      BY <2>2, <2>5, <3>4, BalanceKeeps, Zenon DEF SharedAssumption
    <3> QED
      BY <3>1, <3>2, <3>3, <3>5, Zenon DEF OwnConn
  <2>17. Tabled'
    BY <2>2, <2>3, <2>6, Zenon DEF Tabled, TypeOK, OthersStay
  <2>18. ASSUME BusLocked PROVE OwnWeak(t, k)'
    <3>1. (slot' = k => conn'[k].link) /\ (thread'[t].at \in {"store", "mark"} => conn'[k].link)
      BY <2>2, <2>18, <2>3, <2>5, <2>6, <2>8, <2>9, Zenon DEF Weak, OwnThread, PlacedAt,
         MakingAt, LivedAt, ThreadIs, Hidden, SharedAssumption
    <3>2. (conn'[k].freed => conn'[k].refs = 0) /\ (thread'[t].at = "finalize" => conn'[k].refs = 0)
      BY <2>2, <2>18, <2>3, <2>5, <2>6, <2>8, <2>9, Zenon DEF Weak, LivedAt, ThreadIs
    <3> QED
      BY <3>1, <3>2, Zenon DEF OwnWeak
  <2> QED
    BY <2>2, <2>3, <2>14, <2>15, <2>17, <2>16, <2>18, StepKeeps, Zenon DEF SharedAssumption
<1> QED
  BY <1>1, <1>2, LastUnref(t), Zenon DEF LastUnref, At, Becomes, ConnBecomes, Arg, Fail, Idle,
     ClearSlot

-----------------------------------------------------------------------------
(* The invariant holds, and what follows from it *)

\* IInv holds when no connection is made yet.
LEMMA SharedInit ==
  ASSUME SharedAssumption, Init
  PROVE  IInv
<1>1. /\ \A c \in Conns : conn[c] = Unborn
      /\ \A t \in Threads : thread[t] = Idle
      /\ table = None /\ noGuid = {} /\ slot = None /\ crash = "none"
  BY Zenon DEF Init
<1>2. TypeOK
  <2>1. Unborn \in Connection
    BY SMT DEF Unborn, Connection
  <2>2. Idle \in Thread
    BY SMT DEF Idle, Thread, Places
  <2> QED
    BY <2>1, <2>2, SMT DEF Init, TypeOK
<1>3. /\ \A c \in Conns : /\ conn[c].refs = 0 /\ ~conn[c].born /\ ~conn[c].freed
                          /\ ~conn[c].connected /\ conn[c].link /\ ~conn[c].queued
                          /\ ~conn[c].arrived /\ ~conn[c].processed
                          /\ ~conn[c].guid /\ ~conn[c].leaked
      /\ \A t \in Threads : /\ thread[t].at = "idle" /\ ~thread[t].busGet
                            /\ thread[t].arg = None /\ thread[t].holds = {}
  BY <1>1, SMT DEF Unborn, Idle
<1>4. Placed /\ Making /\ Forgetting /\ Finalizing
  BY <1>1, <1>3, Zenon DEF Placed, PlacedAt, Making, MakingAt, Forgetting, ForgettingAt,
     Finalizing, FinalizingAt
<1>5. Lived /\ Kept /\ Tabled
  BY <1>1, <1>3, Zenon DEF Lived, LivedAt, Kept, KeptAt, Tabled, Shared
<1>6. Unmade /\ Leaked
  BY <1>1, <1>3, Zenon DEF Unmade, UnmadeAt, Leaked, LeakedAt, Hidden, Shared, SharedAssumption
<1>7. Counted
  <2> SUFFICES ASSUME NEW c \in Conns PROVE References(c) = 0
    BY <1>3, Zenon DEF Counted
  <2>1. {t \in Threads : c \in thread[t].holds} = {}
    BY <1>3, Zenon
  <2>2. {t \in Threads : Arg(t) = c /\ thread[t].at \notin {"idle", "finalize"}} = {}
    BY <1>3, Zenon
  <2>3. ~(conn[c].guid \/ c \in noGuid \/ conn[c].leaked)
    BY <1>1, <1>3, Zenon
  <2>4. Cardinality({}) = 0
    BY FS_EmptySet, Zenon
  <2>5. References(c) = 0 + 0 + 0
    BY <2>1, <2>2, <2>3, <2>4, Zenon DEF References
  <2> QED
    BY <2>5, SMT
<1>8. Weak
  BY <1>1, <1>3, Zenon DEF Weak
<1> QED
  BY <1>2, <1>4, <1>5, <1>6, <1>7, <1>8, Zenon DEF IInv, SInv

\* Every step of Next, and a step that changes nothing, keeps IInv.
LEMMA SharedStep ==
  ASSUME SharedAssumption, IInv, [Next]_vars
  PROVE  IInv'
<1>1. CASE UNCHANGED vars
  <2> USE <1>1 DEF IInv, SInv, vars
  <2>1. TypeOK' /\ Finalizing'
    BY Zenon DEF TypeOK, Finalizing, FinalizingAt, Shared
  <2>2. Placed' /\ Lived' /\ Tabled'
    BY Zenon DEF Placed, PlacedAt, Lived, LivedAt, Tabled, Shared
  <2>3. Unmade' /\ Leaked' /\ Making'
    BY Zenon DEF Unmade, UnmadeAt, Leaked, LeakedAt, Making, MakingAt, Hidden, Shared
  <2>4. Kept' /\ Forgetting'
    BY Zenon DEF Kept, KeptAt, Recorded, Forgetting, ForgettingAt, Shared
  <2>5. Counted' /\ (BusLocked => Weak')
    BY Zenon DEF Counted, References, Arg, Weak
  <2> QED
    BY <2>1, <2>2, <2>3, <2>4, <2>5, Zenon
<1>2. CASE Next
  <2>1. PICK t \in Threads :
          \/ DbusConnectionOpen(t) \/ DbusBusGet(t)
          \/ LookupShared(t) \/ LookupConnection(t)
          \/ TryFromAddressEntry(t) \/ RecordShared(t) \/ RecordSharedFails(t)
          \/ Register(t) \/ Store(t) \/ Mark(t)
          \/ \E c \in Conns : Dispatch(t, c) \/ DbusConnectionUnref(t, c)
          \/ Close(t) \/ NotifyDisconnected(t) \/ PopDisconnected(t)
          \/ UpdateDispatchStatus(t) \/ ForgetShared(t) \/ Unref(t) \/ LastUnref(t)
    BY <1>2, Zenon DEF Next
  <2>2. CASE DbusConnectionOpen(t) \/ DbusBusGet(t) \/ LookupShared(t) \/ LookupConnection(t)
    BY <2>2, DbusConnectionOpenKeeps, DbusBusGetKeeps, LookupSharedKeeps,
       LookupConnectionKeeps, Zenon
  <2>3. CASE TryFromAddressEntry(t) \/ RecordShared(t) \/ RecordSharedFails(t)
    BY <2>3, TryFromAddressEntryKeeps, RecordSharedKeeps, RecordSharedFailsKeeps, Zenon
  <2>4. CASE Register(t) \/ Store(t) \/ Mark(t)
    BY <2>4, RegisterKeeps, StoreKeeps, MarkKeeps, Zenon
  <2>5. CASE \E c \in Conns : Dispatch(t, c) \/ DbusConnectionUnref(t, c)
    BY <2>5, DispatchKeeps, DbusConnectionUnrefKeeps, Zenon
  <2>6. CASE Close(t) \/ NotifyDisconnected(t) \/ PopDisconnected(t)
    BY <2>6, CloseKeeps, NotifyDisconnectedKeeps, PopDisconnectedKeeps, Zenon
  <2>7. CASE UpdateDispatchStatus(t) \/ ForgetShared(t) \/ Unref(t) \/ LastUnref(t)
    BY <2>7, UpdateDispatchStatusKeeps, ForgetSharedKeeps, UnrefKeeps, LastUnrefKeeps, Zenon
  <2> QED
    BY <2>1, <2>2, <2>3, <2>4, <2>5, <2>6, <2>7, Zenon
<1> QED
  BY <1>1, <1>2, Zenon

\* IInv holds in every state.
LEMMA SharedInvariant ==
  ASSUME SharedAssumption
  PROVE  Spec => []IInv
<1>1. Init => IInv
  BY SharedInit, Zenon
<1>2. IInv /\ [Next]_vars => IInv'
  BY SharedStep, Zenon
<1> QED
  BY <1>1, <1>2, PTL DEF Spec

\* The weak reference of dbus-bus.c names a connection that libdbus holds.
LEMMA SlotIsKept ==
  ASSUME SharedAssumption, IInv, BusLocked, slot # None
  PROVE  conn[slot].refs > 0 /\ ~conn[slot].freed
<1> USE DEF IInv, SInv
<1>1. PICK s \in Conns : s = slot
  BY Zenon DEF TypeOK
<1>2. /\ LivedAt(s) /\ UnmadeAt(s) /\ LeakedAt(s) /\ KeptAt(s) /\ conn[s].link
      /\ \A t \in Threads : MakingAt(t)
  BY <1>1, Zenon DEF Lived, Unmade, Leaked, Kept, Making, Weak
<1>3. conn[s].born /\ ~conn[s].leaked /\ ~conn[s].processed
  BY <1>1, <1>2, Zenon DEF UnmadeAt, LeakedAt, LivedAt, Hidden
<1>4. Recorded(s)
  BY <1>1, <1>2, Zenon DEF MakingAt, Recorded, Hidden
<1>5. KeptByLibrary(s)
  BY <1>2, <1>3, <1>4, Zenon DEF KeptAt, KeptByLibrary, Shared
<1>6. conn[s].refs >= 1 /\ conn[s].refs \in Int
  BY <1>5, References1 DEF SharedAssumption, One, TypeOK, Connection
<1> QED
  BY <1>1, <1>6 DEF Weak

\* dbus_connection_ref and dbus_connection_unref are called in pairs by every
\* path through dbus-bus.c and dbus-connection.c: in every build the count of a
\* connection is the number of threads that hold it, of threads that work on it
\* and of references of libdbus itself, also when connecting, recording or
\* registering fails.
THEOREM ReferencesCounted ==
  ASSUME SharedAssumption
  PROVE  Spec => [](\A c \in Conns : conn[c].refs = References(c))
<1>1. IInv => \A c \in Conns : conn[c].refs = References(c)
  BY Zenon DEF IInv, Counted
<1> QED
  BY <1>1, SharedInvariant, PTL

\* _dbus_connection_last_unref asserts that the connection is not connected any
\* more and that its server_guid is gone: in every build the last reference to a
\* connection is dropped only after its Disconnected message was processed and
\* libdbus has forgotten it.
THEOREM FinalizedInTime ==
  ASSUME SharedAssumption
  PROVE  Spec => [](crash # "finalized too soon")
<1>1. IInv => crash # "finalized too soon"
  BY Zenon DEF IInv, SInv, Finalizing
<1> QED
  BY <1>1, SharedInvariant, PTL

\* When the loss of a connection is noted under the bus lock, the weak reference
\* of dbus-bus.c never names a connection that has no reference or is finalized.
THEOREM SharedConnectionsSound ==
  ASSUME SharedAssumption, BusLocked
  PROVE  Spec => []SharedSound
<1>1. IInv => SharedSound
  BY SlotIsKept, Zenon DEF SharedSound, IInv, Counted
<1> QED
  BY <1>1, SharedInvariant, PTL

\* When the loss of a connection is noted under the bus lock, no thread is given
\* a connection whose Disconnected message is queued already.
THEOREM LostConnectionsNotReturned ==
  ASSUME SharedAssumption, BusLocked
  PROVE  Spec => NeverReturnedAgain
<1> DEFINE A == \A t \in Threads, c \in Conns :
                  c \in thread'[t].holds /\ c \notin thread[t].holds => conn[c].link
<1>1. IInv /\ [Next]_vars => [A]_vars
  <2> SUFFICES ASSUME IInv, Next, NEW t \in Threads, NEW c \in Conns,
                      c \in thread'[t].holds, c \notin thread[t].holds
               PROVE  conn[c].link
    BY Zenon
  <2> USE DEF IInv, SInv
  <2>1. TypeOK /\ thread[t] \in Thread /\ Weak /\ MakingAt(t) /\ PlacedAt(t) /\ LivedAt(c)
    BY Zenon DEF TypeOK, Making, Placed, Lived
  <2>2. \/ DbusBusGet(t) /\ slot # None /\ c = slot
        \/ LookupConnection(t) /\ Peek(table) /\ c = table
        \/ RecordShared(t) /\ c = Arg(t)
        \/ Mark(t) /\ c = Arg(t)
    <3>1. PICK u \in Threads :
            \/ DbusConnectionOpen(u) \/ DbusBusGet(u)
            \/ LookupShared(u) \/ LookupConnection(u)
            \/ TryFromAddressEntry(u) \/ RecordShared(u) \/ RecordSharedFails(u)
            \/ Register(u) \/ Store(u) \/ Mark(u)
            \/ \E d \in Conns : Dispatch(u, d) \/ DbusConnectionUnref(u, d)
            \/ Close(u) \/ NotifyDisconnected(u) \/ PopDisconnected(u)
            \/ UpdateDispatchStatus(u) \/ ForgetShared(u) \/ Unref(u) \/ LastUnref(u)
      BY Zenon DEF Next
    <3>2. thread[u] \in Thread /\ Idle \in Thread
      BY Zenon DEF TypeOK, Idle, Thread, Places
    <3>3. ASSUME NEW r, Becomes(u, r)
          PROVE  u = t /\ c \in r.holds /\ r.holds # thread[u].holds
      BY <3>3 DEF Becomes, TypeOK
    <3>4. thread' # thread
      OBVIOUS
    <3>5. \A place : ~Go(u, place)
      <4> SUFFICES ASSUME NEW place, Go(u, place) PROVE FALSE
        BY Zenon
      <4>1. [thread[u] EXCEPT !.at = place].holds = thread[u].holds
        BY <3>2, Zenon DEF Thread
      <4> QED
        BY <3>3, <4>1, Zenon DEF Go
    <3>6. \A place, a : ~Becomes(u, [thread[u] EXCEPT !.at = place, !.arg = a])
      <4> SUFFICES ASSUME NEW place, NEW a, Becomes(u, [thread[u] EXCEPT !.at = place, !.arg = a])
                   PROVE FALSE
        BY Zenon
      <4>1. [thread[u] EXCEPT !.at = place, !.arg = a].holds = thread[u].holds
        BY <3>2, Zenon DEF Thread
      <4> QED
        BY <3>3, <4>1, Zenon
    <3>7. ~Fail(u)
      <4> SUFFICES ASSUME Fail(u) PROVE FALSE
        BY Zenon
      <4>1. [Idle EXCEPT !.holds = thread[u].holds].holds = thread[u].holds
        BY <3>2, Zenon DEF Thread
      <4> QED
        BY <3>3, <4>1, Zenon DEF Fail
    <3>8. \A d : Return(u, d) => u = t /\ c = d
      <4> SUFFICES ASSUME NEW d, Return(u, d) PROVE u = t /\ c = d
        BY Zenon
      <4>1. [Idle EXCEPT !.holds = thread[u].holds \cup {d}].holds = thread[u].holds \cup {d}
        BY <3>2, Zenon DEF Thread
      <4> QED
        BY <3>3, <4>1, Zenon DEF Return
    <3>9. \A place, x : ~Becomes(u, [thread[u] EXCEPT !.at = place, !.busGet = x])
      <4> SUFFICES ASSUME NEW place, NEW x, Becomes(u, [thread[u] EXCEPT !.at = place, !.busGet = x])
                   PROVE FALSE
        BY Zenon
      <4>1. [thread[u] EXCEPT !.at = place, !.busGet = x].holds = thread[u].holds
        BY <3>2, Zenon DEF Thread
      <4> QED
        BY <3>3, <4>1, Zenon
    <3>10. \A d \in Conns : ~Dispatch(u, d)
      <4> SUFFICES ASSUME NEW place, NEW d, Becomes(u, [thread[u] EXCEPT !.arg = d, !.at = place])
                   PROVE FALSE
        BY Zenon DEF Dispatch
      <4>1. [thread[u] EXCEPT !.arg = d, !.at = place].holds = thread[u].holds
        BY <3>2, Zenon DEF Thread
      <4> QED
        BY <3>3, <4>1, Zenon
    <3>11. \A d \in Conns : ~DbusConnectionUnref(u, d)
      <4> SUFFICES ASSUME NEW place, NEW a, NEW d,
                          Becomes(u, [Idle EXCEPT !.holds = thread[u].holds \ {d}, !.arg = a, !.at = place])
                   PROVE FALSE
        BY Zenon DEF DbusConnectionUnref
      <4>1. [Idle EXCEPT !.holds = thread[u].holds \ {d}, !.arg = a, !.at = place].holds
              = thread[u].holds \ {d}
        BY <3>2, Zenon DEF Thread
      <4> QED
        BY <3>3, <4>1, Zenon
    <3>12. CASE DbusBusGet(u)
      BY <3>8, <3>9, <3>12, Zenon DEF DbusBusGet
    <3>13. CASE LookupConnection(u)
      BY <3>5, <3>6, <3>8, <3>13, Zenon DEF LookupConnection, Opened
    <3>14. CASE RecordShared(u)
      BY <3>6, <3>8, <3>14, Zenon DEF RecordShared, Opened
    <3>15. CASE Mark(u)
      BY <3>8, <3>15, Zenon DEF Mark
    <3>16. /\ ~DbusConnectionOpen(u) /\ ~LookupShared(u) /\ ~RecordSharedFails(u) /\ ~Register(u)
           /\ ~Store(u) /\ ~Close(u) /\ ~NotifyDisconnected(u) /\ ~PopDisconnected(u)
      BY <3>5, Zenon DEF DbusConnectionOpen, LookupShared, RecordSharedFails, Register, Store,
         Close, NotifyDisconnected, PopDisconnected
    <3>17. /\ ~TryFromAddressEntry(u) /\ ~UpdateDispatchStatus(u) /\ ~ForgetShared(u)
           /\ ~Unref(u) /\ ~LastUnref(u)
      BY <3>4, <3>5, <3>6, <3>7, <3>9, Zenon DEF TryFromAddressEntry, UpdateDispatchStatus,
         UpdateDone, ForgetShared, Unref, LastUnref
    <3> QED
      BY <3>1, <3>10, <3>11, <3>12, <3>13, <3>14, <3>15, <3>16, <3>17, Zenon
  <2>3. CASE DbusBusGet(t) /\ slot # None /\ c = slot
    BY <2>1, <2>3, Zenon DEF Weak
  <2>4. CASE LookupConnection(t) /\ Peek(table) /\ c = table
    BY <2>1, <2>4, Zenon DEF Peek, LivedAt
  <2>5. CASE RecordShared(t) /\ c = Arg(t)
    BY <2>1, <2>5, Zenon DEF RecordShared, At, Arg, MakingAt
  <2>6. CASE Mark(t) /\ c = Arg(t)
    BY <2>1, <2>6, Zenon DEF Mark, At, Arg, Weak
  <2> QED
    BY <2>2, <2>3, <2>4, <2>5, <2>6, Zenon
<1> QED
  BY <1>1, SharedInvariant, PTL DEF Spec, NeverReturnedAgain
=============================================================================
