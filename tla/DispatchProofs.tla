--------------------------- MODULE DispatchProofs ---------------------------
(***************************************************************************)
(* The list of pending replies is sound, and what a caller is owed agrees  *)
(* with it, for any number of connections and serials, any limits and any  *)
(* policy.                                                                 *)
(***************************************************************************)
EXTENDS Dispatch, FiniteSetTheorems, TLAPS

-----------------------------------------------------------------------------
(***************************************************************************)
(* Counting pending replies.                                               *)
(***************************************************************************)

\* The number of replies pending for a serial is a natural number.
LEMMA NumberType ==
  ASSUME NEW P, IsFiniteSet(P), NEW a, NEW s
  PROVE  NumberFor(P, a, s) \in Nat
<1>1. {p \in P : p.get = a /\ p.serial = s} \in SUBSET P
  BY Zenon
<1> QED
  BY <1>1, FS_Subset, FS_CardinalityType, Zenon DEF NumberFor

\* Taking replies off the list lowers the number by theirs.
LEMMA NumberRemove ==
  ASSUME NEW P, IsFiniteSet(P), NEW Q \in SUBSET P, NEW a, NEW s
  PROVE  /\ IsFiniteSet(P \ Q)
         /\ NumberFor(P \ Q, a, s) = NumberFor(P, a, s) - NumberFor(Q, a, s)
         /\ NumberFor(Q, a, s) \in Nat
<1> DEFINE A == {p \in P \ Q : p.get = a /\ p.serial = s}
           B == {p \in Q : p.get = a /\ p.serial = s}
<1>1. A \in SUBSET P /\ B \in SUBSET P /\ P \ Q \in SUBSET P
  BY Zenon
<1>2. IsFiniteSet(A) /\ IsFiniteSet(B) /\ IsFiniteSet(P \ Q)
  BY <1>1, FS_Subset, Zenon
<1>3. A \cup B = {p \in P : p.get = a /\ p.serial = s} /\ A \cap B = {}
  BY Zenon
<1>4. Cardinality(A \cup B) = Cardinality(A) + Cardinality(B) - Cardinality(A \cap B)
  BY <1>2, FS_Union, Zenon
<1>5. Cardinality(A) \in Nat /\ Cardinality(B) \in Nat /\ Cardinality(A \cap B) = 0
  BY <1>2, <1>3, FS_CardinalityType, FS_EmptySet, Zenon
<1>6. /\ NumberFor(P, a, s) = Cardinality(A \cup B)
      /\ NumberFor(P \ Q, a, s) = Cardinality(A)
      /\ NumberFor(Q, a, s) = Cardinality(B)
  BY <1>3, Zenon DEF NumberFor
<1> HIDE DEF A, B
<1> QED
  BY <1>2, <1>4, <1>5, <1>6

\* Adding a reply raises the number for its caller and serial by one.
LEMMA NumberAdd ==
  ASSUME NEW P, IsFiniteSet(P), NEW p, p \notin P, NEW a, NEW s
  PROVE  /\ IsFiniteSet(P \cup {p})
         /\ NumberFor(P \cup {p}, a, s) =
              NumberFor(P, a, s) + (IF p.get = a /\ p.serial = s THEN 1 ELSE 0)
<1> DEFINE A == {q \in P : q.get = a /\ q.serial = s}
<1>1. IsFiniteSet(P \cup {p})
  BY FS_AddElement, Zenon
<1>2. A \in SUBSET P
  BY Zenon
<1>3. IsFiniteSet(A) /\ Cardinality(A) \in Nat
  BY <1>2, FS_Subset, FS_CardinalityType, Zenon
<1>4. CASE p.get = a /\ p.serial = s
  <2>1. {q \in P \cup {p} : q.get = a /\ q.serial = s} = A \cup {p}
    BY <1>4, Zenon
  <2>2. Cardinality(A \cup {p}) = Cardinality(A) + 1
    BY <1>3, FS_AddElement, Zenon
  <2> QED
    BY <1>1, <1>4, <2>1, <2>2, Zenon DEF NumberFor
<1>5. CASE ~(p.get = a /\ p.serial = s)
  <2>1. {q \in P \cup {p} : q.get = a /\ q.serial = s} = A
    BY <1>5, Zenon
  <2>2. NumberFor(P \cup {p}, a, s) = Cardinality(A) /\ NumberFor(P, a, s) = Cardinality(A)
    BY <2>1, Zenon DEF NumberFor
  <2> HIDE DEF A
  <2> QED
    BY <1>1, <1>3, <1>5, <2>2
<1> QED
  BY <1>4, <1>5, Zenon

\* No two replies of a list stand for the same caller, callee and serial.
Distinct(P) ==
  \A p, q \in P : p.get = q.get /\ p.to = q.to /\ p.serial = q.serial => p = q

\* Marking replies as due or dropped changes no number: f says what becomes of
\* each.
LEMMA Remarked ==
  ASSUME NEW P \in SUBSET PendingReply, IsFiniteSet(P), Distinct(P),
         NEW f \in [P -> PendingReply],
         \A p \in P : f[p].get = p.get /\ f[p].to = p.to /\ f[p].serial = p.serial
  PROVE  LET Q == {f[p] : p \in P}
         IN  /\ IsFiniteSet(Q)
             /\ Distinct(Q)
             /\ \A a \in Conns, s \in Serials : NumberFor(Q, a, s) = NumberFor(P, a, s)
             /\ \A c \in Conns : Cardinality({q \in Q : q.get = c})
                                   = Cardinality({p \in P : p.get = c})
<1> DEFINE Q == {f[p] : p \in P}
<1>1. ASSUME NEW S \in SUBSET P
      PROVE  /\ IsFiniteSet({f[p] : p \in S})
             /\ Cardinality({f[p] : p \in S}) = Cardinality(S)
  <2> DEFINE T == {f[p] : p \in S}
             g == [p \in S |-> f[p]]
  <2>1. g \in [S -> T]
    BY Zenon
  <2>2. \A t \in T : \E p \in S : g[p] = t
    BY Zenon
  <2>3. \A p, q \in S : g[p] = g[q] => p = q
    BY DEF Distinct
  <2>4. g \in Surjection(S, T) /\ g \in Injection(S, T)
    BY <2>1, <2>2, <2>3, Zenon DEF Surjection, Injection, IsInjective
  <2>5. IsFiniteSet(S)
    BY FS_Subset, Zenon
  <2> QED
    BY <2>4, <2>5, FS_Surjection, Zenon
<1>2. IsFiniteSet(Q)
  BY <1>1, Zenon
<1>3. Distinct(Q)
  BY DEF Distinct
<1>4. ASSUME NEW a \in Conns, NEW s \in Serials
      PROVE  NumberFor(Q, a, s) = NumberFor(P, a, s)
  <2> DEFINE S == {p \in P : p.get = a /\ p.serial = s}
  <2>1. {q \in Q : q.get = a /\ q.serial = s} = {f[p] : p \in S}
    BY ZenonT(40)
  <2> QED
    BY <1>1, <2>1, Zenon DEF NumberFor
<1>5. ASSUME NEW c \in Conns
      PROVE  Cardinality({q \in Q : q.get = c}) = Cardinality({p \in P : p.get = c})
  <2> DEFINE S == {p \in P : p.get = c}
  <2>1. {q \in Q : q.get = c} = {f[p] : p \in S}
    BY ZenonT(40)
  <2> QED
    BY <1>1, <2>1, Zenon
<1> QED
  BY <1>2, <1>3, <1>4, <1>5, Zenon

\* Nobody has more replies on the list than max_replies_per_connection.
Limited(P) == \A c \in Conns : Cardinality({p \in P : p.get = c}) <= MaxReplies

Good(P) == P \subseteq PendingReply /\ IsFiniteSet(P) /\ Distinct(P) /\ Limited(P)

\* A part of a good list is a good list: bus_expire_list_remove_link and friends.
LEMMA GoodPart ==
  ASSUME NEW P, Good(P), NEW Q \in SUBSET P
  PROVE  Good(Q)
<1>1. IsFiniteSet(Q)
  BY FS_Subset, Zenon DEF Good
<1>2. ASSUME NEW c \in Conns
      PROVE  Cardinality({p \in Q : p.get = c}) <= MaxReplies
  <2> DEFINE A == {p \in Q : p.get = c}
             B == {p \in P : p.get = c}
  <2>1. A \in SUBSET B /\ B \in SUBSET P
    BY Zenon
  <2>2. IsFiniteSet(B) /\ IsFiniteSet(A) /\ Cardinality(A) <= Cardinality(B)
    BY <2>1, FS_Subset, Zenon DEF Good
  <2>3. Cardinality(A) \in Nat /\ Cardinality(B) \in Nat /\ Cardinality(B) <= MaxReplies
    BY <2>2, FS_CardinalityType, Zenon DEF Good, Limited
  <2> HIDE DEF A, B
  <2>4. Cardinality(A) <= MaxReplies
    BY <2>2, <2>3, DispatchAssumption
  <2> QED
    BY <2>4, Zenon DEF A
<1> QED
  BY <1>1, <1>2, Zenon DEF Good, Distinct, Limited

\* A list below the caller's limit stays good when a new reply is added.
LEMMA GoodAdd ==
  ASSUME NEW P, Good(P), NEW p \in PendingReply,
         \A q \in P : ~(q.get = p.get /\ q.to = p.to /\ q.serial = p.serial),
         ~(Cardinality({q \in P : q.get = p.get}) >= MaxReplies)
  PROVE  Good(P \cup {p})
<1>1. IsFiniteSet(P \cup {p})
  BY FS_AddElement, Zenon DEF Good
<1>2. Distinct(P \cup {p})
  BY Zenon DEF Good, Distinct
<1>3. ASSUME NEW c \in Conns
      PROVE  Cardinality({q \in P \cup {p} : q.get = c}) <= MaxReplies
  <2> DEFINE B == {q \in P : q.get = c}
  <2>1. B \in SUBSET P
    BY Zenon
  <2>2. IsFiniteSet(B) /\ Cardinality(B) \in Nat
    BY <2>1, FS_Subset, FS_CardinalityType, Zenon DEF Good
  <2>3. CASE p.get = c
    <3>1. {q \in P \cup {p} : q.get = c} = B \cup {p} /\ p \notin B
      BY <2>3, Zenon
    <3>2. Cardinality(B \cup {p}) = Cardinality(B) + 1
      BY <2>2, <3>1, FS_AddElement, Zenon
    <3>3. ~(Cardinality(B) >= MaxReplies)
      BY <2>3, Zenon
    <3>4. Cardinality(B \cup {p}) <= MaxReplies
      <4> HIDE DEF B
      <4> QED
        BY <2>2, <3>2, <3>3, DispatchAssumption
    <3> QED
      BY <3>1, <3>4, Zenon
  <2>4. CASE p.get # c
    <3>1. {q \in P \cup {p} : q.get = c} = B
      BY <2>4, Zenon
    <3> QED
      BY <3>1, Zenon DEF Good, Limited
  <2> QED
    BY <2>3, <2>4, Zenon
<1> QED
  BY <1>1, <1>2, <1>3, Zenon DEF Good, Limited

-----------------------------------------------------------------------------
(***************************************************************************)
(* The inductive invariant: PendingSound, with the list finite and only    *)
(* slow readers over their outgoing limit.                                 *)
(***************************************************************************)
Live ==
  \A p \in pending :
    /\ state[p.get] = "active"
    /\ IF p.dropped THEN state[p.to] = "gone" /\ p.due ELSE state[p.to] = "active"

Inv ==
  /\ TypeOK
  /\ Good(pending)
  /\ Live
  /\ pending # {} => timer
  /\ full \subseteq Slow

\* The invariant holds before the first message.
LEMMA InvInit == Init => Inv
<1> SUFFICES ASSUME Init PROVE Inv
  BY Zenon
<1>0. TypeOK
  <2>1. state \in [Conns -> {"incomplete", "active", "gone"}] /\ timer \in BOOLEAN
    BY Zenon DEF Init
  <2>2. connected \subseteq Conns /\ full \subseteq Conns /\ pending \subseteq PendingReply
    BY Zenon DEF Init
  <2>3. owed \in [Conns -> [Serials -> Int]]
    BY DEF Init
  <2> QED
    BY <2>1, <2>2, <2>3, Zenon DEF TypeOK
<1>1. Live /\ (pending # {} => timer) /\ full \subseteq Slow
  BY Zenon DEF Init, Live
<1>2. IsFiniteSet({}) /\ Cardinality({}) = 0
  BY FS_EmptySet, Zenon
<1>3. pending = {} /\ \A c \in Conns : {p \in pending : p.get = c} = {}
  BY Zenon DEF Init
<1>4. Limited(pending)
  <2> SUFFICES ASSUME NEW c \in Conns
               PROVE  Cardinality({p \in pending : p.get = c}) <= MaxReplies
    BY Zenon DEF Limited
  <2>1. {p \in pending : p.get = c} = {}
    BY <1>3, Zenon
  <2>2. 0 <= MaxReplies
    BY DispatchAssumption
  <2> QED
    BY <1>2, <2>1, <2>2, Zenon
<1>5. Good(pending)
  BY <1>2, <1>3, <1>4, Zenon DEF Good, Distinct
<1> QED
  BY <1>0, <1>1, <1>5, Zenon DEF Inv

\* What is owed stays a count for every caller and serial.
LEMMA OweType ==
  ASSUME TypeOK, NEW a \in Conns, NEW s \in Serials, NEW n \in {0, 1},
         NEW answered, Owe(a, s, n, answered)
  PROVE  owed' \in [Conns -> [Serials -> Int]]
<1>1. owed[a][s] + n - (IF answered THEN 1 ELSE 0) \in Int
  BY DEF TypeOK
<1>2. owed' = [owed EXCEPT ![a] = [owed[a] EXCEPT ![s] = owed[a][s] + n - (IF answered THEN 1 ELSE 0)]]
  BY Zenon DEF Owe
<1> QED
  BY <1>1, <1>2, Zenon DEF TypeOK

\* A call is put on the list only when the caller waits for no reply from the
\* callee with that serial and is below its limit: bus_connections_expect_reply.
LEMMA AddKeeps ==
  ASSUME Inv, NEW a \in Conns, NEW b \in Conns, NEW s \in Serials,
         state[a] = "active", state[b] = "active", ~ExpectReplyRefused(a, b, s)
  PROVE  /\ Good(pending \cup {NewPending(a, b, s)})
         /\ NewPending(a, b, s) \in PendingReply
         /\ NewPending(a, b, s) \notin pending
<1> DEFINE p == NewPending(a, b, s)
<1>1. p \in PendingReply /\ p.get = a /\ p.to = b /\ p.serial = s /\ ~p.dropped
  BY Zenon DEF NewPending, PendingReply
<1>2. \A q \in pending : ~(q.get = p.get /\ q.to = p.to /\ q.serial = p.serial)
  BY <1>1, Zenon DEF Inv, Live, ExpectReplyRefused, Expecting
<1>3. ~(Cardinality({q \in pending : q.get = p.get}) >= MaxReplies)
  BY <1>1, Zenon DEF ExpectReplyRefused
<1>4. Good(pending \cup {p})
  <2> HIDE DEF p
  <2> QED
    BY <1>1, <1>2, <1>3, GoodAdd, Zenon DEF Inv
<1> QED
  BY <1>1, <1>2, <1>4, Zenon

\* The list after the callee or the caller c was freed.
LEMMA DropKeeps ==
  ASSUME Inv, NEW c \in Conns
  PROVE  /\ Good(DropPendingReplies(c))
         /\ \A a \in Conns \ {c}, s \in Serials :
              NumberFor(DropPendingReplies(c), a, s) = NumberFor(pending, a, s)
<1> DEFINE P == {q \in pending : q.get # c}
           f == [p \in P |-> [p EXCEPT !.dropped = @ \/ p.to = c,
                                       !.due = @ \/ (p.to = c /\ ~p.dropped)]]
           Q == {f[p] : p \in P}
<1>1. P \in SUBSET pending /\ Good(P) /\ P \in SUBSET PendingReply
  BY GoodPart, Zenon DEF Inv, Good
<1>2. DropPendingReplies(c) = Q
  BY Zenon DEF DropPendingReplies
<1>3. /\ f \in [P -> PendingReply]
      /\ \A p \in P : f[p].get = p.get /\ f[p].to = p.to /\ f[p].serial = p.serial
  <2>1. ASSUME NEW p \in P
        PROVE  /\ f[p] \in PendingReply
               /\ f[p].get = p.get /\ f[p].to = p.to /\ f[p].serial = p.serial
    BY <1>1, Zenon DEF PendingReply
  <2> QED
    BY <2>1, Zenon
<1>4. /\ IsFiniteSet(Q) /\ Distinct(Q)
      /\ \A a \in Conns, s \in Serials : NumberFor(Q, a, s) = NumberFor(P, a, s)
      /\ \A d \in Conns : Cardinality({q \in Q : q.get = d}) = Cardinality({p \in P : p.get = d})
  <2> HIDE DEF f, P
  <2> QED
    BY <1>1, <1>3, Remarked, Zenon DEF Good
<1>5. Q \subseteq PendingReply
  BY <1>3, ZenonT(40)
<1>6. Limited(Q)
  <2> HIDE DEF f, P, Q
  <2> QED
    BY <1>1, <1>4, Zenon DEF Good, Limited
<1>7. ASSUME NEW a \in Conns \ {c}, NEW s \in Serials
      PROVE  NumberFor(P, a, s) = NumberFor(pending, a, s)
  <2>1. {p \in P : p.get = a /\ p.serial = s} = {p \in pending : p.get = a /\ p.serial = s}
    BY Zenon
  <2> QED
    BY <2>1, Zenon DEF NumberFor
<1> HIDE DEF f, P, Q
<1> QED
  BY <1>2, <1>4, <1>5, <1>6, <1>7, Zenon DEF Good

\* The list after the time of one reply is up.
LEMMA DueKeeps ==
  ASSUME Inv, NEW p \in pending
  PROVE  LET Q == (pending \ {p}) \cup {[p EXCEPT !.due = TRUE]}
         IN  /\ Good(Q)
             /\ \A a \in Conns, s \in Serials :
                  NumberFor(Q, a, s) = NumberFor(pending, a, s)
<1> DEFINE f == [q \in pending |-> IF q = p THEN [p EXCEPT !.due = TRUE] ELSE q]
           Q == {f[q] : q \in pending}
<1>1. (pending \ {p}) \cup {[p EXCEPT !.due = TRUE]} = Q
  BY Zenon
<1>2. pending \in SUBSET PendingReply
  BY Zenon DEF Inv, Good
<1>3. /\ f \in [pending -> PendingReply]
      /\ \A q \in pending : f[q].get = q.get /\ f[q].to = q.to /\ f[q].serial = q.serial
  <2>1. ASSUME NEW q \in pending
        PROVE  /\ f[q] \in PendingReply
               /\ f[q].get = q.get /\ f[q].to = q.to /\ f[q].serial = q.serial
    BY <1>2, Zenon DEF PendingReply
  <2> QED
    BY <2>1, Zenon
<1>4. /\ IsFiniteSet(Q) /\ Distinct(Q)
      /\ \A a \in Conns, s \in Serials : NumberFor(Q, a, s) = NumberFor(pending, a, s)
      /\ \A d \in Conns : Cardinality({q \in Q : q.get = d})
                            = Cardinality({q \in pending : q.get = d})
  <2> HIDE DEF f
  <2> QED
    BY <1>2, <1>3, Remarked, Zenon DEF Inv, Good
<1>5. Q \subseteq PendingReply
  BY <1>3, Zenon
<1> HIDE DEF f, Q
<1>6. Limited(Q)
  BY <1>4, Zenon DEF Inv, Good, Limited
<1> QED
  BY <1>1, <1>4, <1>5, <1>6, Zenon DEF Good

\* Every message, firing of the timer and disconnection keeps the invariant.
LEMMA InvNext == Inv /\ [Next]_vars => Inv'
<1> SUFFICES ASSUME Inv, [Next]_vars PROVE Inv'
  BY Zenon
<1>1. TypeOK /\ Good(pending) /\ Live /\ (pending # {} => timer) /\ full \subseteq Slow
  BY Zenon DEF Inv
<1>2. ASSUME NEW c \in Conns,
             Hello(c) \/ NotRegistered(c) \/ TransportClosed(c) \/ QueueFills(c) \/ QueueDrains(c)
      PROVE  Inv'
  <2>1. TypeOK'
    BY <1>1, <1>2, Zenon
       DEF TypeOK, Hello, NotRegistered, TransportClosed, QueueFills, QueueDrains
  <2>2. pending' = pending /\ timer' = timer
    BY <1>2, Zenon DEF Hello, NotRegistered, TransportClosed, QueueFills, QueueDrains
  <2>3. \A d \in Conns : state[d] # "incomplete" => state'[d] = state[d]
    BY <1>1, <1>2, Zenon
       DEF TypeOK, Hello, NotRegistered, TransportClosed, QueueFills, QueueDrains
  <2>4. full' \subseteq Slow
    BY <1>1, <1>2, Zenon DEF Hello, NotRegistered, TransportClosed, QueueFills, QueueDrains
  <2>5. Live'
    <3> SUFFICES ASSUME NEW p \in pending
                 PROVE  /\ state'[p.get] = "active"
                        /\ IF p.dropped THEN state'[p.to] = "gone" /\ p.due
                                        ELSE state'[p.to] = "active"
      BY <2>2, Zenon DEF Live
    <3>1. p.get \in Conns /\ p.to \in Conns
      BY <1>1, Zenon DEF Good, PendingReply
    <3> QED
      BY <1>1, <2>3, <3>1, Zenon DEF Live
  <2> QED
    BY <1>1, <2>1, <2>2, <2>4, <2>5, Zenon DEF Inv
<1>3. ASSUME NEW a \in Conns, NEW b \in Conns, NEW s \in Serials,
             state[a] = "active", state[b] = "active", ~ExpectReplyRefused(a, b, s),
             pending' = pending \cup {NewPending(a, b, s)}, timer' = TRUE,
             UNCHANGED <<state, connected, full>>,
             owed' \in [Conns -> [Serials -> Int]]
      PROVE  Inv'
  <2>1. Good(pending') /\ NewPending(a, b, s) \in PendingReply
    BY <1>3, AddKeeps, Zenon
  <2>2. TypeOK'
    BY <1>1, <1>3, <2>1, Zenon DEF TypeOK
  <2>3. Live'
    BY <1>1, <1>3 DEF Live, NewPending
  <2> QED
    BY <1>1, <1>3, <2>1, <2>2, <2>3, Zenon DEF Inv
<1>4. ASSUME NEW Q \in SUBSET pending, pending' = pending \ Q,
             timer' \in BOOLEAN, pending' # {} => timer',
             UNCHANGED <<state, connected, full>>,
             owed' \in [Conns -> [Serials -> Int]]
      PROVE  Inv'
  <2>1. pending \ Q \in SUBSET pending
    BY Zenon
  <2>2. Good(pending')
    BY <1>1, <1>4, <2>1, GoodPart, Zenon
  <2>3. TypeOK'
    BY <1>1, <1>4, Zenon DEF TypeOK
  <2>4. Live'
    BY <1>1, <1>4, Zenon DEF Live
  <2> QED
    BY <1>1, <1>4, <2>2, <2>3, <2>4, Zenon DEF Inv
<1>5. ASSUME pending' = pending, timer' \in BOOLEAN, pending' # {} => timer',
             UNCHANGED <<state, connected, full>>,
             owed' \in [Conns -> [Serials -> Int]]
      PROVE  Inv'
  <2>1. TypeOK' /\ Live'
    BY <1>1, <1>5, Zenon DEF TypeOK, Live
  <2> QED
    BY <1>1, <1>5, <2>1, Zenon DEF Inv
<1>6. ASSUME NEW a \in Conns, NEW s \in Serials, CallDriver(a, s)
      PROVE  Inv'
  <2>1. owed' \in [Conns -> [Serials -> Int]]
    BY <1>1, <1>6, OweType, Zenon DEF CallDriver
  <2> QED
    BY <1>1, <1>5, <1>6, <2>1, Zenon DEF CallDriver, TypeOK
<1>7. ASSUME NEW a \in Conns, NEW b \in Conns \cup {NoConn}, NEW s \in Serials,
             NEW no_reply \in BOOLEAN, Call(a, b, s, no_reply)
      PROVE  Inv'
  <2>1. CASE Refused(a, b, s, no_reply)
    <3>1. owed' \in [Conns -> [Serials -> Int]]
      BY <1>1, <1>7, <2>1, OweType, Zenon DEF Call
    <3> QED
      BY <1>1, <1>5, <1>7, <2>1, <3>1, Zenon DEF Call, TypeOK
  <2>2. CASE ~Refused(a, b, s, no_reply) /\ no_reply
    BY <1>1, <1>5, <1>7, <2>2, Zenon DEF Call, TypeOK
  <2>3. CASE ~Refused(a, b, s, no_reply) /\ ~no_reply
    <3>1. Owe(a, s, 1, FALSE)
      BY <1>7, <2>3, Zenon DEF Call
    <3>2. owed' \in [Conns -> [Serials -> Int]]
      BY <1>1, <3>1, OweType, Zenon
    <3>3. b \in Conns /\ ~ExpectReplyRefused(a, b, s)
      BY <2>3, Zenon DEF Refused
    <3>4. /\ state[a] = "active" /\ state[b] = "active"
          /\ pending' = pending \cup {NewPending(a, b, s)} /\ timer' = TRUE
          /\ UNCHANGED <<state, connected, full>>
      BY <1>7, <2>3, <3>3, DispatchAssumption, Zenon DEF Call
    <3> QED
      BY <1>3, <3>2, <3>3, <3>4, Zenon
  <2> QED
    BY <2>1, <2>2, <2>3, Zenon
<1>8. ASSUME NEW a \in Conns, NEW b \in Conns \cup {NoConn}, NEW s \in Serials,
             CallOom(a, b, s)
      PROVE  Inv'
  <2>1. owed' \in [Conns -> [Serials -> Int]]
    BY <1>1, <1>8, OweType, Zenon DEF CallOom
  <2>2. CASE pending' = pending
    <3>1. timer' = timer \/ timer' = TRUE
      BY <1>8, Zenon DEF CallOom
    <3>2. timer' \in BOOLEAN /\ (pending' # {} => timer')
      BY <1>1, <2>2, <3>1, Zenon DEF TypeOK
    <3> QED
      BY <1>5, <1>8, <2>1, <2>2, <3>2, Zenon DEF CallOom
  <2>3. CASE pending' # pending
    <3>1. /\ ~Refused(a, b, s, FALSE) /\ pending' = pending \cup {NewPending(a, b, s)}
          /\ timer' = TRUE
      BY <1>8, <2>3, Zenon DEF CallOom
    <3>2. b \in Conns /\ ~ExpectReplyRefused(a, b, s)
      BY <3>1, Zenon DEF Refused
    <3>3. state[a] = "active" /\ state[b] = "active" /\ UNCHANGED <<state, connected, full>>
      BY <1>8, <3>2, DispatchAssumption, Zenon DEF CallOom
    <3> QED
      BY <1>3, <2>1, <3>1, <3>2, <3>3, Zenon
  <2> QED
    BY <2>2, <2>3, Zenon
<1>9. ASSUME NEW a \in Conns, NEW b \in Conns, NEW s \in Serials, Reply(b, a, s)
      PROVE  Inv'
  <2>1. owed' \in [Conns -> [Serials -> Int]]
    BY <1>1, <1>9, OweType, Zenon DEF Reply
  <2>2. Expecting(a, b, s) \in SUBSET pending
    BY Zenon DEF Expecting
  <2>3. pending' = pending \ Expecting(a, b, s) /\ UNCHANGED <<state, connected, full, timer>>
    BY <1>9, Zenon DEF Reply
  <2>4. timer' \in BOOLEAN /\ (pending' # {} => timer')
    BY <1>1, <2>3, Zenon DEF TypeOK
  <2> QED
    BY <1>4, <2>1, <2>2, <2>3, <2>4, Zenon
<1>10. ASSUME NEW a \in Conns, NEW b \in Conns, NEW s \in Serials, ReplyOom(b, a, s)
      PROVE  Inv'
  <2>1. UNCHANGED <<state, connected, full>> /\ owed' \in [Conns -> [Serials -> Int]]
    BY <1>1, <1>10, Zenon DEF ReplyOom, TypeOK
  <2>2. CASE b \in connected
    BY <1>5, <1>10, <2>1, <2>2, Zenon DEF ReplyOom
  <2>3. CASE b \notin connected
    <3>1. Expecting(a, b, s) \in SUBSET pending
      BY Zenon DEF Expecting
    <3>2. pending' = pending \ Expecting(a, b, s) /\ timer' = timer
      BY <1>10, <2>3, Zenon DEF ReplyOom
    <3>3. timer' \in BOOLEAN /\ (pending' # {} => timer')
      BY <1>1, <3>2, Zenon DEF TypeOK
    <3> QED
      BY <1>4, <2>1, <3>1, <3>2, <3>3, Zenon
  <2> QED
    BY <2>2, <2>3, Zenon
<1>11. ASSUME NEW p \in pending, TimePasses(p)
       PROVE  Inv'
  <2>1. Good(pending')
    BY <1>11, DueKeeps, Zenon DEF TimePasses
  <2>2. pending' = (pending \ {p}) \cup {[p EXCEPT !.due = TRUE]}
        /\ UNCHANGED <<state, connected, full, timer, owed>>
    BY <1>11, Zenon DEF TimePasses
  <2>3. TypeOK'
    BY <1>1, <2>1, <2>2, Zenon DEF TypeOK, Good
  <2>4. p \in PendingReply
    BY <1>1, Zenon DEF Good
  <2>5. Live'
    BY <1>1, <2>2, <2>4, Zenon DEF Live, PendingReply
  <2> QED
    BY <1>1, <2>1, <2>2, <2>3, <2>5, Zenon DEF Inv
<1>12. ASSUME NEW P \in SUBSET Due, ExpireSome(P)
       PROVE  Inv'
  <2>1. P \in SUBSET pending
    BY Zenon DEF Due
  <2>2. ASSUME NEW a \in Conns, NEW s \in Serials PROVE NumberFor(P, a, s) \in Int
    <3>1. IsFiniteSet(P)
      BY <1>1, <2>1, FS_Subset, Zenon DEF Good
    <3> QED
      BY <3>1, NumberType
  <2>3. owed' \in [Conns -> [Serials -> Int]]
    BY <1>1, <1>12, <2>2 DEF ExpireSome, TypeOK
  <2>4. pending' = pending \ P /\ timer' = (pending' # {}) /\ UNCHANGED <<state, connected, full>>
    BY <1>12, Zenon DEF ExpireSome
  <2>5. timer' \in BOOLEAN /\ (pending' # {} => timer')
    BY <2>4, Zenon
  <2> QED
    BY <1>4, <2>1, <2>3, <2>4, <2>5, Zenon
<1>13. ASSUME NEW c \in Conns, Disconnected(c)
       PROVE  Inv'
  <2>1. Good(pending')
    BY <1>13, DropKeeps, Zenon DEF Disconnected
  <2>2. TypeOK'
    <3>1. state' \in [Conns -> {"incomplete", "active", "gone"}]
      BY <1>1, <1>13, Zenon DEF Disconnected, TypeOK
    <3>2. timer' \in BOOLEAN
      BY <1>13, Zenon DEF Disconnected
    <3>3. connected' \subseteq Conns /\ full' \subseteq Conns /\ owed' \in [Conns -> [Serials -> Int]]
      BY <1>1, <1>13, Zenon DEF Disconnected, TypeOK
    <3> QED
      BY <2>1, <3>1, <3>2, <3>3, Zenon DEF TypeOK, Good
  <2>3. Live'
    <3> SUFFICES ASSUME NEW q \in pending'
                 PROVE  /\ state'[q.get] = "active"
                        /\ IF q.dropped THEN state'[q.to] = "gone" /\ q.due
                                        ELSE state'[q.to] = "active"
      BY Zenon DEF Live
    <3>1. PICK p \in pending :
            /\ p.get # c
            /\ q = [p EXCEPT !.dropped = @ \/ p.to = c, !.due = @ \/ (p.to = c /\ ~p.dropped)]
      BY <1>13, Zenon DEF Disconnected, DropPendingReplies
    <3>2. p \in PendingReply
      BY <1>1, Zenon DEF Good
    <3>3. /\ q.get = p.get /\ q.to = p.to
          /\ q.dropped = (p.dropped \/ p.to = c)
          /\ q.due = (p.due \/ (p.to = c /\ ~p.dropped))
      BY <3>1, <3>2, Zenon DEF PendingReply
    <3>4. /\ state[p.get] = "active"
          /\ IF p.dropped THEN state[p.to] = "gone" /\ p.due ELSE state[p.to] = "active"
      BY <1>1, Zenon DEF Live
    <3>5. /\ p.get \in Conns /\ p.to \in Conns
          /\ state' = [state EXCEPT ![c] = "gone"]
      BY <1>13, <3>2, Zenon DEF Disconnected, PendingReply
    <3>6. /\ state'[p.get] = "active"
          /\ p.to = c => state'[p.to] = "gone"
          /\ p.to # c => state'[p.to] = state[p.to]
      BY <1>1, <3>1, <3>4, <3>5, Zenon DEF TypeOK
    <3> QED
      BY <3>3, <3>4, <3>6, Zenon
  <2>4. pending' # {} => timer'
    <3>1. pending' # {} => pending # {}
      BY <1>13, Zenon DEF Disconnected, DropPendingReplies
    <3>2. timer => timer'
      BY <1>13, Zenon DEF Disconnected
    <3> QED
      BY <1>1, <3>1, <3>2, Zenon
  <2>5. full' \subseteq Slow
    BY <1>1, <1>13, Zenon DEF Disconnected
  <2> QED
    BY <2>1, <2>2, <2>3, <2>4, <2>5, Zenon DEF Inv
<1>14. CASE UNCHANGED vars
  BY <1>1, <1>5, <1>14, Zenon DEF vars, TypeOK
<1>15. ASSUME Next PROVE Inv'
  <2>1. Expire \/ ExpireOom => \E P \in SUBSET Due : ExpireSome(P)
    BY Zenon DEF Expire, ExpireOom
  <2> QED
    BY <1>2, <1>6, <1>7, <1>8, <1>9, <1>10, <1>11, <1>12, <1>13, <1>15, <2>1, Zenon DEF Next
<1> QED
  BY <1>14, <1>15, Zenon

\* Whatever order calls, replies, errors, expiry and disconnections come in, the
\* list of pending replies is sound.
THEOREM PendingCorrect == Spec => []PendingSound
<1>1. Inv => PendingSound
  BY Zenon DEF Inv, PendingSound, Good, Distinct, Limited, Live
<1> QED
  BY <1>1, InvInit, InvNext, PTL DEF Spec

-----------------------------------------------------------------------------
(***************************************************************************)
(* What a caller is owed, against what is pending for it.                  *)
(***************************************************************************)

\* At most one pending reply fits a reply message.
LEMMA ExpectingNumber ==
  ASSUME Inv, NEW a \in Conns, NEW b \in Conns, NEW s \in Serials,
         NEW d \in Conns, NEW r \in Serials
  PROVE  NumberFor(Expecting(a, b, s), d, r) =
           IF d = a /\ r = s /\ Expecting(a, b, s) # {} THEN 1 ELSE 0
<1> DEFINE E == Expecting(a, b, s)
<1>1. \A p, q \in E : p = q
  BY Zenon DEF Inv, Good, Distinct, Expecting
<1>2. CASE d = a /\ r = s /\ E # {}
  <2>1. PICK p : p \in E
    BY <1>2, Zenon
  <2>2. {q \in E : q.get = d /\ q.serial = r} = {p}
    BY <1>1, <1>2, <2>1, Zenon DEF Expecting
  <2> QED
    BY <1>2, <2>2, FS_Singleton, Zenon DEF NumberFor
<1>3. CASE ~(d = a /\ r = s /\ E # {})
  <2>1. {q \in E : q.get = d /\ q.serial = r} = {}
    BY <1>3, Zenon DEF Expecting
  <2> QED
    BY <1>3, <2>1, FS_EmptySet, Zenon DEF NumberFor
<1> QED
  BY <1>2, <1>3, Zenon

\* The account of caller d for serial r is not overdrawn by a step.
Funded(d, r) ==
  owed'[d][r] - NumberFor(pending', d, r) >= owed[d][r] - NumberFor(pending, d, r)

\* ... and is left as it was, if d can be reached.
Settled(d, r) ==
  d \in connected' /\ OpenTo(d) =>
    \/ owed'[d][r] - NumberFor(pending', d, r) = owed[d][r] - NumberFor(pending, d, r)
    \/ \E b \in Conns \ connected : ReplyOom(b, d, r)

\* A caller that reads its messages gets what the driver sends it.
LEMMA OpenIsReached ==
  ASSUME Inv, NEW a \in connected, OpenTo(a)
  PROVE  DriverReaches(a) /\ a \notin full
  BY Zenon DEF Inv, OpenTo, DriverReaches

\* A call adds as much to what is owed as to what is pending, less what the
\* driver answers at once.
LEMMA CallSettled ==
  ASSUME Inv, StrictPolicy, NEW a \in Conns, NEW b \in Conns \cup {NoConn}, NEW s \in Serials,
         \/ CallDriver(a, s)
         \/ \E no_reply \in BOOLEAN : Call(a, b, s, no_reply)
         \/ CallOom(a, b, s),
         NEW d \in Conns, NEW r \in Serials
  PROVE  Funded(d, r) /\ Settled(d, r)
<1>1. TypeOK /\ IsFiniteSet(pending) /\ owed[d][r] \in Int /\ NumberFor(pending, d, r) \in Nat
  <2>1. TypeOK /\ IsFiniteSet(pending)
    BY Zenon DEF Inv, Good
  <2> QED
    BY <2>1, NumberType, Zenon DEF TypeOK
<1>2. connected' = connected
  BY Zenon DEF CallDriver, Call, CallOom
<1>3. CASE Owe(a, s, 1, DriverReaches(a)) /\ pending' = pending
  <2>1. owed'[d][r] = IF d = a /\ r = s
                      THEN owed[d][r] + 1 - (IF DriverReaches(a) THEN 1 ELSE 0)
                      ELSE owed[d][r]
    BY <1>1, <1>3, Zenon DEF Owe, TypeOK
  <2>2. d \in connected /\ OpenTo(d) => DriverReaches(d)
    BY OpenIsReached, Zenon
  <2>3. /\ owed'[d][r] \in Int /\ owed'[d][r] >= owed[d][r]
        /\ d \in connected /\ OpenTo(d) => owed'[d][r] = owed[d][r]
    BY <1>1, <2>1, <2>2
  <2> QED
    BY <1>1, <1>2, <1>3, <2>3 DEF Funded, Settled
<1>4. CASE Owe(a, s, 1, a \in connected) /\ pending' = pending
  <2>1. owed'[d][r] = IF d = a /\ r = s
                      THEN owed[d][r] + 1 - (IF a \in connected THEN 1 ELSE 0)
                      ELSE owed[d][r]
    BY <1>1, <1>4, Zenon DEF Owe, TypeOK
  <2>2. /\ owed'[d][r] \in Int /\ owed'[d][r] >= owed[d][r]
        /\ d \in connected => owed'[d][r] = owed[d][r]
    BY <1>1, <2>1
  <2> QED
    BY <1>1, <1>2, <1>4, <2>2 DEF Funded, Settled
<1>5. CASE UNCHANGED <<owed, pending>>
  BY <1>1, <1>5 DEF Funded, Settled
<1>6. ASSUME Owe(a, s, 1, FALSE), b \in Conns, state[a] = "active", state[b] = "active",
             ~ExpectReplyRefused(a, b, s), pending' = pending \cup {NewPending(a, b, s)}
      PROVE  Funded(d, r) /\ Settled(d, r)
  <2>1. owed'[d][r] = IF d = a /\ r = s THEN owed[d][r] + 1 ELSE owed[d][r]
    BY <1>1, <1>6 DEF Owe, TypeOK
  <2>2. NewPending(a, b, s) \notin pending
    BY <1>6, AddKeeps, Zenon
  <2>3. NewPending(a, b, s).get = a /\ NewPending(a, b, s).serial = s
    BY Zenon DEF NewPending
  <2>4. NumberFor(pending', d, r) = NumberFor(pending, d, r)
          + (IF NewPending(a, b, s).get = d /\ NewPending(a, b, s).serial = r THEN 1 ELSE 0)
    BY <1>1, <1>6, <2>2, NumberAdd
  <2> QED
    BY <1>1, <2>1, <2>3, <2>4 DEF Funded, Settled
<1>7. CASE CallDriver(a, s)
  BY <1>3, <1>7, Zenon DEF CallDriver
<1>8. ASSUME NEW no_reply \in BOOLEAN, Call(a, b, s, no_reply)
      PROVE  Funded(d, r) /\ Settled(d, r)
  <2>1. CASE Refused(a, b, s, no_reply)
    BY <1>3, <1>8, <2>1, Zenon DEF Call
  <2>2. CASE ~Refused(a, b, s, no_reply) /\ no_reply
    BY <1>5, <1>8, <2>2, Zenon DEF Call
  <2>3. CASE ~Refused(a, b, s, no_reply) /\ ~no_reply
    <3>1. b \in Conns /\ ~ExpectReplyRefused(a, b, s)
      BY <2>3, Zenon DEF Refused
    <3>2. /\ state[a] = "active" /\ state[b] = "active" /\ Owe(a, s, 1, FALSE)
          /\ pending' = pending \cup {NewPending(a, b, s)}
      BY <1>8, <2>3, <3>1, DispatchAssumption, Zenon DEF Call
    <3> QED
      BY <1>6, <3>1, <3>2, Zenon
  <2> QED
    BY <2>1, <2>2, <2>3, Zenon
<1>9. ASSUME CallOom(a, b, s)
      PROVE  Funded(d, r) /\ Settled(d, r)
  <2>1. CASE pending' = pending
    BY <1>4, <1>9, <2>1, Zenon DEF CallOom
  <2>2. CASE pending' # pending
    <3>1. /\ ~Refused(a, b, s, FALSE) /\ pending' = pending \cup {NewPending(a, b, s)}
          /\ a \notin connected
      BY <1>9, <2>2, Zenon DEF CallOom
    <3>2. b \in Conns /\ ~ExpectReplyRefused(a, b, s)
      BY <3>1, Zenon DEF Refused
    <3>3. state[a] = "active" /\ state[b] = "active" /\ Owe(a, s, 1, FALSE)
      <4>1. (a \in connected) = FALSE
        BY <3>1
      <4> QED
        BY <1>9, <3>2, <4>1, DispatchAssumption, Zenon DEF CallOom
    <3> QED
      BY <1>6, <3>1, <3>2, <3>3, Zenon
  <2> QED
    BY <2>1, <2>2, Zenon
<1> QED
  BY <1>7, <1>8, <1>9, Zenon

\* A reply takes as much off what is pending as off what is owed; only a reply of
\* a replier that has gone, for which memory runs out, is lost.
LEMMA ReplySettled ==
  ASSUME Inv, StrictPolicy, NEW a \in Conns, NEW b \in Conns, NEW s \in Serials,
         Reply(b, a, s) \/ ReplyOom(b, a, s), NEW d \in Conns, NEW r \in Serials
  PROVE  Funded(d, r) /\ Settled(d, r)
<1> DEFINE E == Expecting(a, b, s)
           hit == d = a /\ r = s /\ E # {}
<1>1. /\ TypeOK /\ IsFiniteSet(pending) /\ owed[d][r] \in Int
      /\ NumberFor(pending, d, r) \in Nat /\ connected' = connected
  <2>1. TypeOK /\ IsFiniteSet(pending)
    BY Zenon DEF Inv, Good
  <2> QED
    BY <2>1, NumberType, Zenon DEF TypeOK, Reply, ReplyOom
<1>2. E \in SUBSET pending
  BY Zenon DEF Expecting
<1>3. NumberFor(pending \ E, d, r) = NumberFor(pending, d, r) - NumberFor(E, d, r)
  BY <1>1, <1>2, NumberRemove
<1>4. NumberFor(E, d, r) = IF hit THEN 1 ELSE 0
  BY ExpectingNumber, Zenon
<1>5. ASSUME Reply(b, a, s)
      PROVE  Funded(d, r) /\ Settled(d, r)
  <2> DEFINE sent == Allowed(b, a, "reply", E # {}) /\ a \in connected
  <2>1. owed'[d][r] = IF d = a /\ r = s THEN owed[d][r] - (IF sent THEN 1 ELSE 0)
                                        ELSE owed[d][r]
    BY <1>1, <1>5 DEF Reply, Owe, TypeOK
  <2>2. pending' = pending \ E
    BY <1>5, Zenon DEF Reply
  <2>3. E = {} => ~sent
    BY Zenon DEF StrictPolicy, Allowed
  <2>4. E # {} /\ a \in connected /\ OpenTo(a) => sent
    BY OpenIsReached, Zenon DEF OpenTo, Allowed
  <2> HIDE DEF E, sent
  <2>5. NumberFor(pending', d, r) = NumberFor(pending, d, r) - (IF hit THEN 1 ELSE 0)
    BY <1>3, <1>4, <2>2, Zenon
  <2> QED
    BY <1>1, <2>1, <2>3, <2>4, <2>5 DEF Funded, Settled
<1>6. ASSUME ReplyOom(b, a, s)
      PROVE  Funded(d, r) /\ Settled(d, r)
  <2>1. owed' = owed
    BY <1>6, Zenon DEF ReplyOom
  <2>2. CASE b \in connected
    <3>1. pending' = pending
      BY <1>6, <2>2, Zenon DEF ReplyOom
    <3> QED
      BY <1>1, <2>1, <3>1 DEF Funded, Settled
  <2>3. CASE b \notin connected
    <3>1. pending' = pending \ E
      BY <1>6, <2>3, Zenon DEF ReplyOom
    <3>2. d = a /\ r = s => \E c \in Conns \ connected : ReplyOom(c, d, r)
      BY <1>6, <2>3, Zenon
    <3>3. NumberFor(pending', d, r) = NumberFor(pending, d, r) - (IF hit THEN 1 ELSE 0)
      BY <1>3, <1>4, <3>1, Zenon
    <3> HIDE DEF E
    <3> QED
      BY <1>1, <2>1, <3>2, <3>3 DEF Funded, Settled
  <2> QED
    BY <2>2, <2>3, Zenon
<1> QED
  BY <1>5, <1>6, Zenon

\* The expiry takes off what is owed what it takes off the list, and no more.
LEMMA ExpireSettled ==
  ASSUME Inv, NEW P \in SUBSET Due, ExpireSome(P), NEW d \in Conns, NEW r \in Serials
  PROVE  Funded(d, r) /\ Settled(d, r)
<1>1. /\ TypeOK /\ IsFiniteSet(pending) /\ owed[d][r] \in Int
      /\ NumberFor(pending, d, r) \in Nat /\ connected' = connected /\ pending' = pending \ P
  <2>1. TypeOK /\ IsFiniteSet(pending)
    BY Zenon DEF Inv, Good
  <2> QED
    BY <2>1, NumberType, Zenon DEF TypeOK, ExpireSome
<1>2. P \in SUBSET pending
  BY Zenon DEF Due
<1>3. /\ NumberFor(pending \ P, d, r) = NumberFor(pending, d, r) - NumberFor(P, d, r)
      /\ NumberFor(P, d, r) \in Nat
  BY <1>1, <1>2, NumberRemove
<1>4. owed'[d][r] = owed[d][r] - (IF DriverReaches(d) THEN NumberFor(P, d, r) ELSE 0)
  BY <1>1, Zenon DEF ExpireSome, TypeOK
<1>5. d \in connected /\ OpenTo(d) => DriverReaches(d)
  BY OpenIsReached, Zenon
<1> QED
  BY <1>1, <1>3, <1>4, <1>5 DEF Funded, Settled

\* In every step, under rules that only let requested replies through, no account
\* is overdrawn, and none that can be settled is left open.
LEMMA AccountsKept ==
  ASSUME Inv, StrictPolicy, [Next]_vars, NEW d \in Conns, NEW r \in Serials
  PROVE  Funded(d, r) /\ Settled(d, r)
<1>1. /\ IsFiniteSet(pending) /\ owed[d][r] \in Int
      /\ NumberFor(pending, d, r) \in Nat
  <2>1. TypeOK /\ IsFiniteSet(pending)
    BY Zenon DEF Inv, Good
  <2> QED
    BY <2>1, NumberType, Zenon DEF TypeOK
<1>2. CASE UNCHANGED <<pending, owed>>
  BY <1>1, <1>2 DEF Funded, Settled
<1>3. ASSUME NEW c \in Conns,
             Hello(c) \/ NotRegistered(c) \/ TransportClosed(c) \/ QueueFills(c) \/ QueueDrains(c)
      PROVE  Funded(d, r) /\ Settled(d, r)
  BY <1>2, <1>3, Zenon DEF Hello, NotRegistered, TransportClosed, QueueFills, QueueDrains
<1>4. ASSUME NEW c \in Conns, Disconnected(c)
      PROVE  Funded(d, r) /\ Settled(d, r)
  <2>1. /\ pending' = DropPendingReplies(c) /\ owed' = owed
        /\ c \notin connected /\ connected' = connected
    BY <1>4, Zenon DEF Disconnected
  <2>2. CASE d = c
    <3>1. {q \in DropPendingReplies(c) : q.get = d /\ q.serial = r} = {}
      <4> SUFFICES ASSUME NEW q \in DropPendingReplies(c), q.get = c PROVE FALSE
        BY <2>2, Zenon
      <4>1. PICK p \in pending : p.get # c /\
              q = [p EXCEPT !.dropped = @ \/ p.to = c, !.due = @ \/ (p.to = c /\ ~p.dropped)]
        BY Zenon DEF DropPendingReplies
      <4>2. q.get = p.get
        BY <4>1, Zenon DEF Inv, Good, PendingReply
      <4> QED
        BY <4>1, <4>2, Zenon
    <3>2. NumberFor(pending', d, r) = 0
      BY <2>1, <3>1, FS_EmptySet, Zenon DEF NumberFor
    <3> QED
      BY <1>1, <2>1, <2>2, <3>2 DEF Funded, Settled
  <2>3. CASE d # c
    <3>1. NumberFor(pending', d, r) = NumberFor(pending, d, r)
      BY <2>1, <2>3, DropKeeps, Zenon
    <3> QED
      BY <1>1, <2>1, <3>1 DEF Funded, Settled
  <2> QED
    BY <2>2, <2>3, Zenon
<1>5. ASSUME NEW a \in Conns, NEW s \in Serials, CallDriver(a, s)
      PROVE  Funded(d, r) /\ Settled(d, r)
  BY <1>5, CallSettled, Zenon
<1>6. ASSUME NEW a \in Conns, NEW b \in Conns \cup {NoConn}, NEW s \in Serials,
             (\E no_reply \in BOOLEAN : Call(a, b, s, no_reply)) \/ CallOom(a, b, s)
      PROVE  Funded(d, r) /\ Settled(d, r)
  BY <1>6, CallSettled, Zenon
<1>7. ASSUME NEW a \in Conns, NEW b \in Conns, NEW s \in Serials,
             Reply(b, a, s) \/ ReplyOom(b, a, s)
      PROVE  Funded(d, r) /\ Settled(d, r)
  BY <1>7, ReplySettled, Zenon
<1>8. ASSUME NEW p \in pending, TimePasses(p)
      PROVE  Funded(d, r) /\ Settled(d, r)
  <2>1. pending' = (pending \ {p}) \cup {[p EXCEPT !.due = TRUE]} /\ owed' = owed
    BY <1>8, Zenon DEF TimePasses
  <2>2. NumberFor(pending', d, r) = NumberFor(pending, d, r)
    BY <2>1, DueKeeps, Zenon
  <2> QED
    BY <1>1, <2>1, <2>2 DEF Funded, Settled
<1>9. ASSUME NEW P \in SUBSET Due, ExpireSome(P)
      PROVE  Funded(d, r) /\ Settled(d, r)
  BY <1>9, ExpireSettled, Zenon
<1>10. Expire \/ ExpireOom => \E P \in SUBSET Due : ExpireSome(P)
  BY Zenon DEF Expire, ExpireOom
<1>11. CASE UNCHANGED vars
  BY <1>2, <1>11, Zenon DEF vars
<1>12. CASE Next
  BY <1>3, <1>4, <1>5, <1>6, <1>7, <1>8, <1>9, <1>10, <1>12, Zenon DEF Next
<1> QED
  BY <1>11, <1>12, Zenon

\* Where the rules only let requested replies through, nobody gets more answers
\* than it made calls, and every pending call is still to be answered.
THEOREM AnswersCorrect == Spec => []NoSpuriousAnswer
<1>1. Init => NoSpuriousAnswer
  <2> SUFFICES ASSUME Init, NEW a \in Conns, NEW s \in Serials
               PROVE  NumberFor(pending, a, s) <= owed[a][s]
    BY Zenon DEF NoSpuriousAnswer
  <2>1. {p \in pending : p.get = a /\ p.serial = s} = {} /\ owed[a][s] = 0
    BY Zenon DEF Init
  <2>2. NumberFor(pending, a, s) = 0
    BY <2>1, FS_EmptySet, Zenon DEF NumberFor
  <2> QED
    BY <2>1, <2>2
<1>2. Inv /\ Inv' /\ NoSpuriousAnswer /\ [Next]_vars => NoSpuriousAnswer'
  <2> SUFFICES ASSUME Inv, Inv', NoSpuriousAnswer, [Next]_vars, StrictPolicy,
                      NEW a \in Conns, NEW s \in Serials
               PROVE  NumberFor(pending', a, s) <= owed'[a][s]
    BY Zenon DEF NoSpuriousAnswer, StrictPolicy, NumberFor
  <2>1. Funded(a, s)
    BY AccountsKept, Zenon
  <2>2. /\ IsFiniteSet(pending) /\ IsFiniteSet(pending')
        /\ owed[a][s] \in Int /\ owed'[a][s] \in Int
    BY Zenon DEF Inv, Good, TypeOK
  <2>3. NumberFor(pending, a, s) \in Nat /\ NumberFor(pending', a, s) \in Nat
    BY <2>2, NumberType, Zenon
  <2>4. NumberFor(pending, a, s) <= owed[a][s]
    BY Zenon DEF NoSpuriousAnswer
  <2> QED
    BY <2>1, <2>2, <2>3, <2>4 DEF Funded
<1> QED
  BY <1>1, <1>2, InvInit, InvNext, PTL DEF Spec

\* No step loses an answer for a caller that may receive replies and reads its
\* messages, but for memory running out on the reply of a replier that has gone.
THEOREM AnswersDelivered == Spec => NoAnswerLost
<1>1. Inv /\ Inv' /\ [Next]_vars =>
        [\A a \in connected', s \in Serials :
           StrictPolicy /\ OpenTo(a) =>
             \/ owed'[a][s] - NumberFor(pending', a, s) = owed[a][s] - NumberFor(pending, a, s)
             \/ \E b \in Conns \ connected : ReplyOom(b, a, s)]_vars
  <2> SUFFICES ASSUME Inv, Inv', [Next]_vars, NEW a \in connected', NEW s \in Serials,
                      StrictPolicy, OpenTo(a)
               PROVE  \/ owed'[a][s] - NumberFor(pending', a, s)
                           = owed[a][s] - NumberFor(pending, a, s)
                      \/ \E b \in Conns \ connected : ReplyOom(b, a, s)
    BY Zenon
  <2>1. a \in Conns
    BY Zenon DEF Inv, TypeOK
  <2> QED
    BY <2>1, AccountsKept, Zenon DEF Settled
<1> QED
  BY <1>1, InvInit, InvNext, PTL DEF Spec, NoAnswerLost
=============================================================================
