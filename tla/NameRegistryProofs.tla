------------------------- MODULE NameRegistryProofs -------------------------
(***************************************************************************)
(* Proofs about NameRegistry, for any number of connections, names and     *)
(* processes, any policy and any limit.                                    *)
(***************************************************************************)
EXTENDS NameRegistry, TLAPS, SequenceTheorems

-----------------------------------------------------------------------------
(***************************************************************************)
(* Taking an element out of a sequence and putting one in.                 *)
(***************************************************************************)

\* The two halves of a list around position i.
LEMMA Halves ==
  ASSUME NEW S, NEW q \in Seq(S), NEW i \in 1..Len(q)
  PROVE  /\ SubSeq(q, i + 1, Len(q)) \in Seq(S)
         /\ Len(SubSeq(q, i + 1, Len(q))) = Len(q) - i
         /\ \A j \in 1..(Len(q) - i) : SubSeq(q, i + 1, Len(q))[j] = q[i + j]
         /\ SubSeq(q, 1, i - 1) \in Seq(S)
         /\ Len(SubSeq(q, 1, i - 1)) = i - 1
         /\ \A j \in 1..(i - 1) : SubSeq(q, 1, i - 1)[j] = q[j]
  BY SubSeqProperties, LenProperties

\* What unlinking the link at position i does to a list.
LEMMA RemoveAtProps ==
  ASSUME NEW S, NEW q \in Seq(S), NEW i \in 1..Len(q)
  PROVE  /\ RemoveLink(q, i) \in Seq(S)
         /\ Len(RemoveLink(q, i)) = Len(q) - 1
         /\ \A j \in 1..(Len(q) - 1) :
              RemoveLink(q, i)[j] = IF j < i THEN q[j] ELSE q[j + 1]
<1> DEFINE a == SubSeq(q, 1, i - 1)
           b == SubSeq(q, i + 1, Len(q))
<1>1. Len(q) \in Nat
  BY LenProperties, Zenon
<1>2. RemoveLink(q, i) = a \o b
  BY Zenon DEF RemoveLink
<1>3. /\ a \in Seq(S) /\ Len(a) = i - 1
      /\ b \in Seq(S) /\ Len(b) = Len(q) - i
      /\ \A j \in 1..(Len(q) - i) : b[j] = q[i + j]
      /\ \A j \in 1..(i - 1) : a[j] = q[j]
  BY Halves, ZenonT(40)
<1> HIDE DEF a, b
<1>4. a \o b \in Seq(S)
  BY <1>3, ConcatProperties, Zenon
<1>5. Len(a \o b) = Len(q) - 1
  <2>1. Len(a \o b) = Len(a) + Len(b)
    BY <1>3, ConcatProperties, Zenon
  <2>2. QED BY <1>1, <1>3, <2>1
<1>6. ASSUME NEW j \in 1..(Len(q) - 1), j < i
      PROVE  (a \o b)[j] = q[j]
  BY <1>1, <1>3, <1>6, ConcatProperties
<1>7. ASSUME NEW j \in 1..(Len(q) - 1), ~(j < i)
      PROVE  (a \o b)[j] = q[j + 1]
  <2>1. (a \o b)[j] = b[j - Len(a)]
    BY <1>1, <1>3, <1>7, ConcatProperties
  <2>2. j - Len(a) \in 1..(Len(q) - i) /\ i + (j - Len(a)) = j + 1
    BY <1>1, <1>3, <1>7
  <2>3. QED BY <1>3, <2>1, <2>2, Zenon
<1>8. QED BY <1>2, <1>4, <1>5, <1>6, <1>7, Zenon

\* What inserting a link behind the first one does to a list.
LEMMA InsertSecondProps ==
  ASSUME NEW S, NEW q \in Seq(S), q # << >>, NEW x \in S
  PROVE  /\ InsertLink(q, 2, x) \in Seq(S)
         /\ Len(InsertLink(q, 2, x)) = Len(q) + 1
         /\ \A j \in 1..(Len(q) + 1) :
              InsertLink(q, 2, x)[j] = IF j = 1 THEN q[1]
                                     ELSE IF j = 2 THEN x ELSE q[j - 1]
<1>1. InsertLink(q, 2, x) \in Seq(S) /\ Len(InsertLink(q, 2, x)) = Len(q) + 1
  BY LenProperties DEF InsertLink
<1>2. ASSUME NEW j \in 1..(Len(q) + 1)
      PROVE  InsertLink(q, 2, x)[j] = IF j = 1 THEN q[1]
                                    ELSE IF j = 2 THEN x ELSE q[j - 1]
  BY LenProperties DEF InsertLink
<1>3. QED BY <1>1, <1>2, Zenon

-----------------------------------------------------------------------------
(***************************************************************************)
(* Queues of owners without duplicates.                                    *)
(***************************************************************************)
Queue(q) == q \in Seq(Owner) /\ NoDuplicates(q)

\* A list has at least one element unless it is empty.
LEMMA NonEmpty ==
  ASSUME NEW S, NEW q \in Seq(S)
  PROVE  /\ Len(q) \in Nat /\ DOMAIN q = 1..Len(q)
         /\ q # << >> <=> Len(q) >= 1
         /\ \A i \in DOMAIN q : q[i] \in S
  BY EmptySeq, LenProperties, ElementOfSeq

\* bus_owner_set_flags and bus_owner_new make a BusOwner of the connection.
LEMMA NewOwnerType ==
  ASSUME NEW c \in Conns, NEW f
  PROVE  NewOwner(c, f) \in Owner /\ NewOwner(c, f).conn = c
  BY DEF NewOwner, Owner

\* The link found for a queued connection is that connection's.
LEMMA LinkProps ==
  ASSUME NEW q, Queue(q), NEW c, HasOwner(q, c)
  PROVE  /\ OwnerLink(q, c) \in 1..Len(q)
         /\ q[OwnerLink(q, c)].conn = c
<1>1. OwnerLink(q, c) \in DOMAIN q /\ q[OwnerLink(q, c)].conn = c
  BY Zenon DEF HasOwner, OwnerLink
<1>2. QED BY <1>1, NonEmpty, Zenon DEF Queue

\* Unlinking an owner: the others keep their places, nobody is queued twice.
LEMMA QueueRemove ==
  ASSUME NEW q, Queue(q), NEW i \in 1..Len(q)
  PROVE  /\ Queue(RemoveLink(q, i))
         /\ \A d : HasOwner(RemoveLink(q, i), d) <=> HasOwner(q, d) /\ d # q[i].conn
         /\ i # 1 => RemoveLink(q, i) # << >> /\ RemoveLink(q, i)[1] = q[1]
<1> DEFINE r == RemoveLink(q, i)
<1>1. /\ r \in Seq(Owner) /\ Len(r) = Len(q) - 1
      /\ \A j \in 1..(Len(q) - 1) : r[j] = IF j < i THEN q[j] ELSE q[j + 1]
  BY RemoveAtProps, Zenon DEF Queue
<1>2. Len(q) \in Nat /\ DOMAIN q = 1..Len(q) /\ DOMAIN r = 1..(Len(q) - 1)
  BY <1>1, NonEmpty, Zenon DEF Queue
<1>3. \A j, k \in 1..Len(q) : q[j].conn = q[k].conn => j = k
  BY <1>2, Zenon DEF Queue, NoDuplicates
<1> HIDE DEF r
<1>4. NoDuplicates(r)
  <2> SUFFICES ASSUME NEW j \in 1..(Len(q) - 1), NEW k \in 1..(Len(q) - 1),
                      r[j].conn = r[k].conn
               PROVE  j = k
    BY <1>2, Zenon DEF NoDuplicates
  <2> DEFINE old(m) == IF m < i THEN m ELSE m + 1
  <2>1. /\ old(j) \in 1..Len(q) /\ r[j] = q[old(j)]
        /\ old(k) \in 1..Len(q) /\ r[k] = q[old(k)]
    BY <1>1, <1>2
  <2>2. old(j) = old(k)
    <3> HIDE DEF old
    <3> QED BY <1>3, <2>1, Zenon
  <2>3. QED BY <1>2, <2>2
<1>5. ASSUME NEW d
      PROVE  HasOwner(r, d) <=> HasOwner(q, d) /\ d # q[i].conn
  <2>1. ASSUME HasOwner(r, d) PROVE HasOwner(q, d) /\ d # q[i].conn
    <3>1. PICK j \in 1..(Len(q) - 1) : r[j].conn = d
      BY <1>2, <2>1, Zenon DEF HasOwner
    <3>2. PICK k \in 1..Len(q) : k # i /\ r[j] = q[k]
      <4>1. CASE j < i  BY <1>1, <1>2, <4>1
      <4>2. CASE ~(j < i)
        <5>1. j + 1 \in 1..Len(q) /\ j + 1 # i /\ r[j] = q[j + 1]
          BY <1>1, <1>2, <4>2
        <5>2. QED BY <5>1, Zenon
      <4>3. QED BY <4>1, <4>2, Zenon
    <3>3. QED BY <1>2, <1>3, <3>1, <3>2, Zenon DEF HasOwner
  <2>2. ASSUME HasOwner(q, d), d # q[i].conn PROVE HasOwner(r, d)
    <3>1. PICK k \in 1..Len(q) : q[k].conn = d
      BY <1>2, <2>2, Zenon DEF HasOwner
    <3>2. k # i
      BY <2>2, <3>1, Zenon
    <3>3. CASE k < i
      <4>1. k \in 1..(Len(q) - 1) /\ r[k] = q[k]
        BY <1>1, <1>2, <3>3
      <4>2. QED BY <1>2, <3>1, <4>1, Zenon DEF HasOwner
    <3>4. CASE k > i
      <4>1. k - 1 \in 1..(Len(q) - 1) /\ r[k - 1] = q[k]
        BY <1>1, <1>2, <3>4
      <4>2. QED BY <1>2, <3>1, <4>1, Zenon DEF HasOwner
    <3>5. QED BY <1>2, <3>2, <3>3, <3>4
  <2>3. QED BY <2>1, <2>2, Zenon
<1>6. ASSUME i # 1 PROVE r # << >> /\ r[1] = q[1]
  BY <1>1, <1>2, <1>6, NonEmpty
<1>7. QED BY <1>1, <1>4, <1>5, <1>6, Zenon DEF Queue, r

\* Linking an owner behind the primary owner.
LEMMA QueueInsert ==
  ASSUME NEW q, Queue(q), q # << >>, NEW x \in Owner, ~HasOwner(q, x.conn)
  PROVE  /\ Queue(InsertLink(q, 2, x))
         /\ \A d : HasOwner(InsertLink(q, 2, x), d) <=> HasOwner(q, d) \/ d = x.conn
         /\ InsertLink(q, 2, x)[1] = q[1] /\ InsertLink(q, 2, x)[2] = x
         /\ Len(InsertLink(q, 2, x)) >= 2
<1> DEFINE r == InsertLink(q, 2, x)
<1>1. /\ r \in Seq(Owner) /\ Len(r) = Len(q) + 1
      /\ \A j \in 1..(Len(q) + 1) : r[j] = IF j = 1 THEN q[1]
                                           ELSE IF j = 2 THEN x ELSE q[j - 1]
  BY InsertSecondProps DEF Queue
<1>2. /\ Len(q) \in Nat /\ Len(q) >= 1
      /\ DOMAIN q = 1..Len(q) /\ DOMAIN r = 1..(Len(q) + 1)
  BY <1>1, NonEmpty, Zenon DEF Queue
<1>3. \A j, k \in 1..Len(q) : q[j].conn = q[k].conn => j = k
  BY <1>2, Zenon DEF Queue, NoDuplicates
<1> HIDE DEF r
<1>4. r[1] = q[1] /\ r[2] = x
  BY <1>1, <1>2
<1>5. \A j \in 1..Len(q) : q[j].conn # x.conn
  BY <1>2, Zenon DEF HasOwner
<1>6. NoDuplicates(r)
  <2> SUFFICES ASSUME NEW j \in 1..(Len(q) + 1), NEW k \in 1..(Len(q) + 1),
                      r[j].conn = r[k].conn
               PROVE  j = k
    BY <1>2, Zenon DEF NoDuplicates
  <2> DEFINE old(m) == IF m = 1 THEN 1 ELSE m - 1
  <2>1. \A m \in 1..(Len(q) + 1) : m # 2 => old(m) \in 1..Len(q) /\ r[m] = q[old(m)]
    BY <1>1, <1>2
  <2>2. CASE j = 2 \/ k = 2
    BY <1>2, <1>4, <1>5, <2>1, <2>2, Zenon
  <2>3. CASE j # 2 /\ k # 2
    <3>1. old(j) = old(k)
      <4> HIDE DEF old
      <4> QED BY <1>3, <2>1, <2>3
    <3>2. QED BY <1>2, <2>3, <3>1
  <2>4. QED BY <2>2, <2>3, Zenon
<1>7. ASSUME NEW d
      PROVE  HasOwner(r, d) <=> HasOwner(q, d) \/ d = x.conn
  <2>1. ASSUME HasOwner(r, d) PROVE HasOwner(q, d) \/ d = x.conn
    <3>1. PICK j \in 1..(Len(q) + 1) : r[j].conn = d
      BY <1>2, <2>1, Zenon DEF HasOwner
    <3>2. CASE j = 2  BY <1>4, <3>1, <3>2, Zenon
    <3>3. CASE j = 1  BY <1>2, <1>4, <3>1, <3>3 DEF HasOwner
    <3>4. CASE j > 2
      <4>1. j - 1 \in 1..Len(q) /\ r[j] = q[j - 1]
        BY <1>1, <1>2, <3>4
      <4>2. QED BY <1>2, <3>1, <4>1, Zenon DEF HasOwner
    <3>5. QED BY <1>2, <3>2, <3>3, <3>4
  <2>2. ASSUME HasOwner(q, d) PROVE HasOwner(r, d)
    <3>1. PICK k \in 1..Len(q) : q[k].conn = d
      BY <1>2, <2>2, Zenon DEF HasOwner
    <3>2. CASE k = 1
      <4>1. 1 \in 1..(Len(q) + 1)  BY <1>2
      <4>2. QED BY <1>2, <1>4, <3>1, <3>2, <4>1, Zenon DEF HasOwner
    <3>3. CASE k > 1
      <4>1. k + 1 \in 1..(Len(q) + 1) /\ r[k + 1] = q[k]
        BY <1>1, <1>2, <3>3
      <4>2. QED BY <1>2, <3>1, <4>1, Zenon DEF HasOwner
    <3>4. QED BY <1>2, <3>2, <3>3
  <2>3. ASSUME d = x.conn PROVE HasOwner(r, d)
    <3>1. 2 \in 1..(Len(q) + 1)  BY <1>2
    <3>2. QED BY <1>2, <1>4, <2>3, <3>1, Zenon DEF HasOwner
  <2>4. QED BY <2>1, <2>2, <2>3, Zenon
<1>8. QED BY <1>1, <1>2, <1>4, <1>6, <1>7 DEF Queue, r

\* Linking an owner at the end.
LEMMA QueueAppend ==
  ASSUME NEW q, Queue(q), NEW x \in Owner, ~HasOwner(q, x.conn)
  PROVE  /\ Queue(Append(q, x))
         /\ \A d : HasOwner(Append(q, x), d) <=> HasOwner(q, d) \/ d = x.conn
         /\ q # << >> => Append(q, x)[1] = q[1]
         /\ q = << >> => Append(q, x)[1] = x
         /\ Append(q, x) # << >>
<1> DEFINE r == Append(q, x)
<1>1. /\ r \in Seq(Owner) /\ Len(r) = Len(q) + 1
      /\ \A j \in 1..Len(q) : r[j] = q[j]
      /\ r[Len(q) + 1] = x
  BY AppendProperties DEF Queue
<1>2. Len(q) \in Nat /\ DOMAIN q = 1..Len(q) /\ DOMAIN r = 1..(Len(q) + 1)
  BY <1>1, NonEmpty, Zenon DEF Queue
<1>3. \A j, k \in 1..Len(q) : q[j].conn = q[k].conn => j = k
  BY <1>2, Zenon DEF Queue, NoDuplicates
<1>4. \A j \in 1..Len(q) : q[j].conn # x.conn
  BY <1>2, Zenon DEF HasOwner
<1> HIDE DEF r
<1>5. \A j \in 1..(Len(q) + 1) : j \in 1..Len(q) \/ j = Len(q) + 1
  BY <1>2
<1>6. NoDuplicates(r)
  BY <1>1, <1>2, <1>3, <1>4, <1>5, Zenon DEF NoDuplicates
<1>7. \A j \in 1..Len(q) : j \in 1..(Len(q) + 1)
  BY <1>2
<1>8. Len(q) + 1 \in 1..(Len(q) + 1)
  BY <1>2
<1>9. \A d : HasOwner(r, d) <=> HasOwner(q, d) \/ d = x.conn
  BY <1>1, <1>2, <1>5, <1>7, <1>8, Zenon DEF HasOwner
<1>10. /\ q # << >> => r[1] = q[1]
       /\ q = << >> => r[1] = x
       /\ r # << >>
  BY <1>1, <1>2, NonEmpty DEF Queue
<1>11. QED BY <1>1, <1>6, <1>9, <1>10, Zenon DEF Queue, r

\* Unlinking the primary owner.
LEMMA QueueTail ==
  ASSUME NEW q, Queue(q), q # << >>
  PROVE  /\ Queue(Tail(q))
         /\ \A d : HasOwner(Tail(q), d) <=> HasOwner(q, d) /\ d # q[1].conn
         /\ Len(q) = 1 => Tail(q) = << >>
         /\ Len(q) # 1 => Tail(q) # << >> /\ Tail(q)[1] = q[2]
<1> DEFINE r == Tail(q)
<1>1. /\ r \in Seq(Owner) /\ Len(r) = Len(q) - 1
      /\ \A j \in 1..(Len(q) - 1) : r[j] = q[j + 1]
  BY HeadTailProperties, Zenon DEF Queue
<1>2. /\ Len(q) \in Nat /\ Len(q) >= 1
      /\ DOMAIN q = 1..Len(q) /\ DOMAIN r = 1..(Len(q) - 1)
  BY <1>1, NonEmpty, Zenon DEF Queue
<1>3. \A j, k \in 1..Len(q) : q[j].conn = q[k].conn => j = k
  BY <1>2, Zenon DEF Queue, NoDuplicates
<1> HIDE DEF r
<1>4. \A j \in 1..(Len(q) - 1) : j + 1 \in 1..Len(q)
  BY <1>2
<1>5. NoDuplicates(r)
  <2> SUFFICES ASSUME NEW j \in 1..(Len(q) - 1), NEW k \in 1..(Len(q) - 1),
                      r[j].conn = r[k].conn
               PROVE  j = k
    BY <1>2, Zenon DEF NoDuplicates
  <2>1. j + 1 = k + 1
    BY <1>1, <1>3, <1>4, ZenonT(40)
  <2>2. QED BY <1>2, <2>1
<1>6. ASSUME NEW d
      PROVE  HasOwner(r, d) <=> HasOwner(q, d) /\ d # q[1].conn
  <2>1. ASSUME HasOwner(r, d) PROVE HasOwner(q, d) /\ d # q[1].conn
    <3>1. PICK j \in 1..(Len(q) - 1) : r[j].conn = d
      BY <1>2, <2>1, Zenon DEF HasOwner
    <3>2. j + 1 # 1 /\ 1 \in 1..Len(q)
      BY <1>2
    <3>3. QED BY <1>1, <1>2, <1>3, <1>4, <3>1, <3>2, Zenon DEF HasOwner
  <2>2. ASSUME HasOwner(q, d), d # q[1].conn PROVE HasOwner(r, d)
    <3>1. PICK k \in 1..Len(q) : q[k].conn = d
      BY <1>2, <2>2, Zenon DEF HasOwner
    <3>2. k # 1
      BY <2>2, <3>1, Zenon
    <3>3. k - 1 \in 1..(Len(q) - 1) /\ r[k - 1] = q[k]
      BY <1>1, <1>2, <3>2
    <3>4. QED BY <1>2, <3>1, <3>3, Zenon DEF HasOwner
  <2>3. QED BY <2>1, <2>2, Zenon
<1>7. /\ Len(q) = 1 => r = << >>
      /\ Len(q) # 1 => r # << >> /\ r[1] = q[2]
  BY <1>1, <1>2, NonEmpty
<1>8. QED BY <1>1, <1>5, <1>6, <1>7, Zenon DEF Queue, r

\* bus_owner_set_flags on the owner at position i.
LEMMA QueueSetFlags ==
  ASSUME NEW q, Queue(q), NEW i \in 1..Len(q), NEW x \in Owner, x.conn = q[i].conn
  PROVE  /\ Queue([q EXCEPT ![i] = x])
         /\ \A d : HasOwner([q EXCEPT ![i] = x], d) <=> HasOwner(q, d)
         /\ [q EXCEPT ![i] = x] # << >>
         /\ [q EXCEPT ![i] = x][1].conn = q[1].conn
<1> DEFINE r == [q EXCEPT ![i] = x]
<1>1. /\ r \in Seq(Owner) /\ Len(r) = Len(q)
      /\ \A j \in 1..Len(q) : r[j] = IF j = i THEN x ELSE q[j]
  BY ExceptSeq DEF Queue
<1>2. /\ Len(q) \in Nat /\ Len(q) >= 1
      /\ DOMAIN q = 1..Len(q) /\ DOMAIN r = 1..Len(q)
  BY <1>1, NonEmpty DEF Queue
<1> HIDE DEF r
<1>3. \A j \in 1..Len(q) : r[j].conn = q[j].conn
  BY <1>1, Zenon
<1>4. NoDuplicates(r)
  BY <1>2, <1>3, Zenon DEF Queue, NoDuplicates
<1>5. \A d : HasOwner(r, d) <=> HasOwner(q, d)
  BY <1>2, <1>3, Zenon DEF HasOwner
<1>6. r # << >> /\ r[1].conn = q[1].conn
  BY <1>1, <1>2, <1>3, NonEmpty
<1>7. QED BY <1>1, <1>4, <1>5, <1>6, Zenon DEF Queue, r

\* Making the primary owner the second in the queue.
LEMMA QueueSwap ==
  ASSUME NEW q, Queue(q), Len(q) >= 2,
         NEW r, r = [q EXCEPT ![1] = q[2], ![2] = q[1]]
  PROVE  /\ Queue(r)
         /\ \A d : HasOwner(r, d) <=> HasOwner(q, d)
         /\ r # << >> /\ r[1] = q[2]
<1>1. Len(q) \in Nat /\ DOMAIN q = 1..Len(q) /\ q[1] \in Owner /\ q[2] \in Owner
  BY NonEmpty DEF Queue
<1> DEFINE p == [q EXCEPT ![1] = q[2]]
<1>2. /\ p \in Seq(Owner) /\ Len(p) = Len(q)
      /\ \A j \in 1..Len(q) : p[j] = IF j = 1 THEN q[2] ELSE q[j]
  BY <1>1, ExceptSeq DEF Queue
<1>3. r = [p EXCEPT ![2] = q[1]]
  BY Zenon
<1> HIDE DEF p
<1>4. /\ r \in Seq(Owner) /\ Len(r) = Len(q)
      /\ \A j \in 1..Len(q) : r[j] = IF j = 2 THEN q[1] ELSE p[j]
  <2>1. 2 \in 1..Len(p)
    BY <1>1, <1>2
  <2>2. /\ [p EXCEPT ![2] = q[1]] \in Seq(Owner)
        /\ Len([p EXCEPT ![2] = q[1]]) = Len(p)
        /\ \A j \in 1..Len(p) :
             [p EXCEPT ![2] = q[1]][j] = IF j = 2 THEN q[1] ELSE p[j]
    BY <1>1, <1>2, <2>1, ExceptSeq
  <2>3. QED BY <1>2, <1>3, <2>2, Zenon
<1>5. \A j \in 1..Len(q) : r[j] = IF j = 1 THEN q[2] ELSE IF j = 2 THEN q[1] ELSE q[j]
  BY <1>1, <1>2, <1>4, Zenon
<1>6. DOMAIN r = 1..Len(q)
  BY <1>4, NonEmpty, Zenon
<1>7. 1 \in 1..Len(q) /\ 2 \in 1..Len(q)
  BY <1>1
<1>8. NoDuplicates(r)
  BY <1>1, <1>5, <1>6, <1>7 DEF Queue, NoDuplicates
<1>9. \A d : HasOwner(r, d) <=> HasOwner(q, d)
  BY <1>1, <1>5, <1>6, <1>7, Zenon DEF HasOwner
<1>10. r # << >> /\ r[1] = q[2]
  BY <1>1, <1>4, <1>5, <1>7, NonEmpty
<1>11. QED BY <1>4, <1>8, <1>9, <1>10, Zenon DEF Queue

\* An owner that asks again keeps its place, or moves up behind the primary
\* owner; nobody else enters or leaves the queue.
LEMMA RequeueProps ==
  ASSUME NEW q, Queue(q), NEW c \in Conns, NEW f, HasOwner(q, c), q[1].conn # c
  PROVE  /\ Queue(Requeue(q, c, f))
         /\ \A d : HasOwner(Requeue(q, c, f), d) <=> HasOwner(q, d)
         /\ Requeue(q, c, f) # << >> /\ Requeue(q, c, f)[1] = q[1]
         /\ REPLACE_EXISTING \in f => /\ Len(Requeue(q, c, f)) >= 2
                                      /\ Requeue(q, c, f)[2] = NewOwner(c, f)
<1> DEFINE i == OwnerLink(q, c)
           x == NewOwner(c, f)
<1>1. i \in 1..Len(q) /\ q[i].conn = c /\ i # 1
  BY LinkProps, ZenonT(40)
<1>2. x \in Owner /\ x.conn = c
  BY NewOwnerType, Zenon
<1> HIDE DEF i, x
<1>3. CASE REPLACE_EXISTING \in f
  <2> DEFINE r == RemoveLink(q, i)
  <2>1. /\ Queue(r) /\ r # << >> /\ r[1] = q[1]
        /\ \A d : HasOwner(r, d) <=> HasOwner(q, d) /\ d # c
    BY <1>1, QueueRemove, ZenonT(40)
  <2> HIDE DEF r
  <2>2. /\ Queue(InsertLink(r, 2, x))
        /\ \A d : HasOwner(InsertLink(r, 2, x), d) <=> HasOwner(r, d) \/ d = c
        /\ InsertLink(r, 2, x)[1] = r[1] /\ InsertLink(r, 2, x)[2] = x
        /\ Len(InsertLink(r, 2, x)) >= 2
    BY <1>2, <2>1, QueueInsert, Zenon
  <2>3. Requeue(q, c, f) = InsertLink(r, 2, x)
    BY <1>3, Zenon DEF Requeue, i, x, r
  <2> DEFINE t == InsertLink(r, 2, x)
  <2>4. t # << >>
    <3> HIDE DEF t
    <3> QED BY <2>2, NonEmpty DEF Queue, t
  <2>5. QED BY <2>1, <2>2, <2>3, <2>4, Zenon DEF x
<1>4. CASE REPLACE_EXISTING \notin f
  <2>1. Requeue(q, c, f) = [q EXCEPT ![i] = x]
    BY <1>4, Zenon DEF Requeue, i, x
  <2>2. [q EXCEPT ![i] = x][1] = q[1]
    BY <1>1, <1>2, NonEmpty, ExceptSeq DEF Queue
  <2>3. /\ Queue([q EXCEPT ![i] = x])
        /\ \A d : HasOwner([q EXCEPT ![i] = x], d) <=> HasOwner(q, d)
        /\ [q EXCEPT ![i] = x] # << >>
    <3>1. x.conn = q[i].conn
      BY <1>1, <1>2, Zenon
    <3>2. QED BY <1>1, <1>2, <3>1, QueueSetFlags, Zenon
  <2>4. QED BY <1>4, <2>1, <2>2, <2>3, Zenon
<1>5. QED BY <1>3, <1>4, Zenon

\* A connection that was not queued joins at the end, or behind the primary
\* owner.
LEMMA EnqueueProps ==
  ASSUME NEW q, Queue(q), NEW c \in Conns, NEW f, ~HasOwner(q, c)
  PROVE  /\ Queue(Enqueue(q, c, f))
         /\ \A d : HasOwner(Enqueue(q, c, f), d) <=> HasOwner(q, d) \/ d = c
         /\ Enqueue(q, c, f) # << >>
         /\ q # << >> => Enqueue(q, c, f)[1] = q[1]
         /\ q = << >> => Enqueue(q, c, f)[1].conn = c
         /\ q # << >> /\ REPLACE_EXISTING \in f =>
              Len(Enqueue(q, c, f)) >= 2 /\ Enqueue(q, c, f)[2] = NewOwner(c, f)
<1> DEFINE x == NewOwner(c, f)
<1>1. x \in Owner /\ x.conn = c
  BY NewOwnerType, Zenon
<1> HIDE DEF x
<1>2. CASE REPLACE_EXISTING \notin f \/ q = << >>
  <2>1. Enqueue(q, c, f) = Append(q, x)
    BY <1>2, Zenon DEF Enqueue, x
  <2>2. QED BY <1>1, <1>2, <2>1, QueueAppend
<1>3. CASE REPLACE_EXISTING \in f /\ q # << >>
  <2>1. Enqueue(q, c, f) = InsertLink(q, 2, x)
    BY <1>3, Zenon DEF Enqueue, x
  <2> DEFINE t == InsertLink(q, 2, x)
  <2>2. /\ Queue(t)
        /\ \A d : HasOwner(t, d) <=> HasOwner(q, d) \/ d = c
        /\ t[1] = q[1] /\ t[2] = x /\ Len(t) >= 2
    BY <1>1, <1>3, QueueInsert, Zenon
  <2> HIDE DEF t
  <2>3. t # << >>
    BY <2>2, NonEmpty DEF Queue
  <2>4. QED BY <1>3, <2>1, <2>2, <2>3, Zenon DEF t, x
<1>4. QED BY <1>2, <1>3, Zenon

\* A waiting connection leaves the queue.
LEMMA LeaveQueueProps ==
  ASSUME NEW q, Queue(q), NEW c, q # << >> => q[1].conn # c
  PROVE  /\ Queue(LeaveQueue(q, c))
         /\ \A d : HasOwner(LeaveQueue(q, c), d) <=> HasOwner(q, d) /\ d # c
         /\ q # << >> => LeaveQueue(q, c) # << >> /\ LeaveQueue(q, c)[1] = q[1]
         /\ q = << >> => LeaveQueue(q, c) = << >>
<1>1. CASE HasOwner(q, c)
  <2> DEFINE i == OwnerLink(q, c)
  <2>1. i \in 1..Len(q) /\ q[i].conn = c
    BY <1>1, LinkProps, Zenon
  <2>2. q # << >>
    BY <2>1, NonEmpty DEF Queue
  <2>3. i # 1
    BY <2>1, <2>2, Zenon
  <2>4. LeaveQueue(q, c) = RemoveLink(q, i)
    BY <1>1, Zenon DEF LeaveQueue
  <2> HIDE DEF i
  <2>5. QED BY <2>1, <2>2, <2>3, <2>4, QueueRemove, SMTT(30)
<1>2. CASE ~HasOwner(q, c)
  BY <1>2, Zenon DEF LeaveQueue
<1>3. QED BY <1>1, <1>2, Zenon

-----------------------------------------------------------------------------
(***************************************************************************)
(* Services: queue, signals sent, and their agreement.                     *)
(***************************************************************************)
ServiceType == [q : Seq(Owner), told : SUBSET Conns, announced : Conns \cup {NoConn},
                coherent : BOOLEAN, fresh : BOOLEAN]

\* Clients believe, rightly or not, that p is the primary owner.
Believed(s, p) == s.told = {p} \cap connected /\ s.announced = p /\ s.coherent = TRUE

GoodService(s) ==
  s \in ServiceType /\ NoDuplicates(s.q) /\ Believed(s, PrimaryOwner(s.q))

\* Replacing the queue of a service touches nothing else.
LEMMA SetQueue ==
  ASSUME NEW s \in ServiceType, NEW r \in Seq(Owner)
  PROVE  /\ [s EXCEPT !.q = r] \in ServiceType
         /\ [s EXCEPT !.q = r].q = r
         /\ [s EXCEPT !.q = r].fresh = s.fresh
         /\ \A p : Believed(s, p) => Believed([s EXCEPT !.q = r], p)
  BY Zenon DEF ServiceType, Believed

\* NameLost to the old owner.
LEMMA SendLostProps ==
  ASSUME NEW s \in ServiceType, NEW p \in Conns, Believed(s, p),
         connected \subseteq Conns
  PROVE  /\ SendLost(s, p) \in ServiceType
         /\ SendLost(s, p).q = s.q /\ SendLost(s, p).fresh = s.fresh
         /\ SendLost(s, p).told = {} /\ SendLost(s, p).announced = p
         /\ SendLost(s, p).coherent = TRUE
  BY Zenon DEF SendLost, ServiceType, Believed

\* NameOwnerChanged from the announced owner to another.
LEMMA SendOwnerChangedProps ==
  ASSUME NEW s \in ServiceType, NEW p \in Conns \cup {NoConn},
         NEW r \in Conns \cup {NoConn},
         s.announced = p, s.told = {}, s.coherent = TRUE
  PROVE  /\ SendOwnerChanged(s, p, r) \in ServiceType
         /\ SendOwnerChanged(s, p, r).q = s.q
         /\ SendOwnerChanged(s, p, r).fresh = s.fresh
         /\ SendOwnerChanged(s, p, r).told = {}
         /\ SendOwnerChanged(s, p, r).announced = r
         /\ SendOwnerChanged(s, p, r).coherent = TRUE
  BY Zenon DEF SendOwnerChanged, ServiceType

\* NameAcquired to the new owner.
LEMMA SendAcquiredProps ==
  ASSUME NEW s \in ServiceType, NEW p \in Conns, connected \subseteq Conns,
         s.announced = p, s.told = {}, s.coherent = TRUE
  PROVE  /\ SendAcquired(s, p) \in ServiceType
         /\ SendAcquired(s, p).q = s.q /\ SendAcquired(s, p).fresh = s.fresh
         /\ Believed(SendAcquired(s, p), p)
  BY Zenon DEF SendAcquired, ServiceType, Believed

\* The three signals that move a name from one connection to another.
LEMMA HandOver ==
  ASSUME NEW s \in ServiceType, NEW p \in Conns, NEW r \in Conns,
         connected \subseteq Conns, Believed(s, p),
         NEW t, t = SendAcquired(SendOwnerChanged(SendLost(s, p), p, r), r)
  PROVE  t \in ServiceType /\ t.q = s.q /\ t.fresh = s.fresh /\ Believed(t, r)
<1> DEFINE a == SendLost(s, p)
           b == SendOwnerChanged(a, p, r)
<1>1. /\ a \in ServiceType /\ a.q = s.q /\ a.fresh = s.fresh
      /\ a.told = {} /\ a.announced = p /\ a.coherent = TRUE
  BY SendLostProps, Zenon
<1> HIDE DEF a
<1>2. p \in Conns \cup {NoConn} /\ r \in Conns \cup {NoConn}
  BY Zenon
<1>3. /\ b \in ServiceType /\ b.q = s.q /\ b.fresh = s.fresh
      /\ b.told = {} /\ b.announced = r /\ b.coherent = TRUE
  BY <1>1, <1>2, SendOwnerChangedProps, ZenonT(40)
<1>4. t = SendAcquired(b, r)
  BY Zenon DEF a
<1> HIDE DEF b
<1>5. QED BY <1>3, <1>4, SendAcquiredProps, ZenonT(40)

\* The two signals that free a name.
LEMMA GiveUp ==
  ASSUME NEW s \in ServiceType, NEW p \in Conns,
         connected \subseteq Conns, Believed(s, p),
         NEW t, t = SendOwnerChanged(SendLost(s, p), p, NoConn)
  PROVE  t \in ServiceType /\ t.q = s.q /\ t.fresh = s.fresh /\ Believed(t, NoConn)
<1> DEFINE a == SendLost(s, p)
           b == SendOwnerChanged(a, p, NoConn)
<1>1. /\ a \in ServiceType /\ a.q = s.q /\ a.fresh = s.fresh
      /\ a.told = {} /\ a.announced = p /\ a.coherent = TRUE
  BY SendLostProps, Zenon
<1>2. t = b
  BY Zenon
<1> HIDE DEF a
<1>3. p \in Conns \cup {NoConn} /\ NoConn \in Conns \cup {NoConn}
  BY Zenon
<1>4. /\ b \in ServiceType /\ b.q = s.q /\ b.fresh = s.fresh
      /\ b.told = {} /\ b.announced = NoConn /\ b.coherent = TRUE
  BY <1>1, <1>3, SendOwnerChangedProps, ZenonT(40)
<1> HIDE DEF b
<1>5. NoConn \notin connected
  BY ConnAssumption, Zenon
<1>6. QED BY <1>2, <1>4, <1>5, Zenon DEF Believed

\* The primary owner of a queue.
LEMMA PrimaryProps ==
  ASSUME NEW q \in Seq(Owner)
  PROVE  /\ q = << >> => PrimaryOwner(q) = NoConn
         /\ q # << >> => /\ PrimaryOwner(q) = q[1].conn
                         /\ q[1].conn \in Conns
                         /\ HasOwner(q, q[1].conn)
<1>1. q # << >> => 1 \in DOMAIN q /\ q[1] \in Owner
  BY NonEmpty
<1>2. q # << >> => q[1].conn \in Conns
  BY <1>1, Zenon DEF Owner
<1>3. QED BY <1>1, <1>2, Zenon DEF PrimaryOwner, HasOwner

\* Removing the primary owner (bus_service_remove_owner): the next in line
\* becomes the owner and everybody is told so.
LEMMA RemovePrimaryProps ==
  ASSUME NEW s, GoodService(s), s.q # << >>, connected \subseteq Conns
  PROVE  /\ GoodService(RemovePrimary(s))
         /\ RemovePrimary(s).fresh = s.fresh
         /\ RemovePrimary(s).q = Tail(s.q)
         /\ \A d : HasOwner(RemovePrimary(s).q, d) <=>
                     HasOwner(s.q, d) /\ d # PrimaryOwner(s.q)
<1> DEFINE old == s.q[1].conn
           heir == s.q[2].conn
           r == Tail(s.q)
<1>1. s \in ServiceType /\ Queue(s.q) /\ s.q \in Seq(Owner)
  BY Zenon DEF GoodService, ServiceType, Queue
<1>2. old \in Conns /\ PrimaryOwner(s.q) = old /\ Believed(s, old)
  BY <1>1, PrimaryProps, Zenon DEF GoodService
<1>3. /\ Queue(r) /\ r \in Seq(Owner)
      /\ \A d : HasOwner(r, d) <=> HasOwner(s.q, d) /\ d # old
      /\ Len(s.q) = 1 => r = << >>
      /\ Len(s.q) # 1 => r # << >> /\ r[1] = s.q[2]
  BY <1>1, QueueTail, Zenon DEF Queue
<1>4. ASSUME NEW u \in ServiceType, u.q = s.q, u.fresh = s.fresh,
             Believed(u, PrimaryOwner(r)), RemovePrimary(s) = [u EXCEPT !.q = Tail(@)]
      PROVE  /\ GoodService(RemovePrimary(s)) /\ RemovePrimary(s).fresh = s.fresh
             /\ RemovePrimary(s).q = r
  <2>1. RemovePrimary(s) = [u EXCEPT !.q = r]
    BY <1>4, Zenon
  <2> HIDE DEF r
  <2>2. /\ [u EXCEPT !.q = r] \in ServiceType /\ [u EXCEPT !.q = r].q = r
        /\ [u EXCEPT !.q = r].fresh = u.fresh
        /\ Believed([u EXCEPT !.q = r], PrimaryOwner(r))
    BY <1>3, <1>4, SetQueue, Zenon
  <2>3. QED BY <1>3, <1>4, <2>1, <2>2, Zenon DEF GoodService, Queue
<1>5. CASE Len(s.q) = 1
  <2> DEFINE u == SendOwnerChanged(SendLost(s, old), old, NoConn)
  <2>1. u \in ServiceType /\ u.q = s.q /\ u.fresh = s.fresh /\ Believed(u, NoConn)
    BY <1>1, <1>2, GiveUp, Zenon
  <2>2. RemovePrimary(s) = [u EXCEPT !.q = Tail(@)]
    BY <1>5, Zenon DEF RemovePrimary
  <2>3. PrimaryOwner(r) = NoConn
    BY <1>3, <1>5, PrimaryProps, Zenon
  <2> HIDE DEF u, r
  <2>4. QED BY <1>2, <1>3, <1>4, <2>1, <2>2, <2>3, Zenon DEF r
<1>6. CASE Len(s.q) # 1
  <2> DEFINE u == SendAcquired(SendOwnerChanged(SendLost(s, old), old, heir), heir)
  <2>1. PrimaryOwner(r) = heir /\ heir \in Conns
    BY <1>3, <1>6, PrimaryProps, Zenon
  <2>2. u \in ServiceType /\ u.q = s.q /\ u.fresh = s.fresh /\ Believed(u, heir)
    BY <1>1, <1>2, <2>1, HandOver, Zenon
  <2>3. RemovePrimary(s) = [u EXCEPT !.q = Tail(@)]
    BY <1>6, Zenon DEF RemovePrimary
  <2> HIDE DEF u, r
  <2>4. QED BY <1>2, <1>3, <1>4, <2>1, <2>2, <2>3, Zenon DEF r
<1>7. QED BY <1>5, <1>6, Zenon

\* Removing any owner.
LEMMA RemoveOwnerProps ==
  ASSUME NEW s, GoodService(s), NEW c \in Conns, HasOwner(s.q, c),
         connected \subseteq Conns
  PROVE  /\ GoodService(RemoveOwner(s, c))
         /\ RemoveOwner(s, c).fresh = s.fresh
         /\ \A d : HasOwner(RemoveOwner(s, c).q, d) <=> HasOwner(s.q, d) /\ d # c
<1>1. s \in ServiceType /\ Queue(s.q) /\ s.q \in Seq(Owner)
  BY Zenon DEF GoodService, ServiceType, Queue
<1>2. s.q # << >>
  <2>1. OwnerLink(s.q, c) \in 1..Len(s.q)
    BY <1>1, LinkProps, Zenon
  <2>2. QED BY <1>1, <2>1, NonEmpty
<1>3. CASE PrimaryOwner(s.q) = c
  BY <1>2, <1>3, RemovePrimaryProps, Zenon DEF RemoveOwner
<1>4. CASE PrimaryOwner(s.q) # c
  <2> DEFINE r == LeaveQueue(s.q, c)
  <2>1. s.q[1].conn # c
    BY <1>1, <1>2, <1>4, PrimaryProps, Zenon
  <2>2. /\ Queue(r) /\ r # << >> /\ r[1] = s.q[1]
        /\ \A d : HasOwner(r, d) <=> HasOwner(s.q, d) /\ d # c
    BY <1>1, <1>2, <2>1, LeaveQueueProps
  <2>3. RemoveOwner(s, c) = [s EXCEPT !.q = r]
    BY <1>4, Zenon DEF RemoveOwner, LeaveQueue
  <2> HIDE DEF r
  <2>4. r \in Seq(Owner) /\ NoDuplicates(r) /\ PrimaryOwner(r) = PrimaryOwner(s.q)
    BY <1>2, <2>2, Zenon DEF Queue, PrimaryOwner
  <2>5. /\ [s EXCEPT !.q = r] \in ServiceType /\ [s EXCEPT !.q = r].q = r
        /\ [s EXCEPT !.q = r].fresh = s.fresh
        /\ Believed([s EXCEPT !.q = r], PrimaryOwner(s.q))
    BY <1>1, <2>4, SetQueue, Zenon DEF GoodService
  <2>6. QED BY <2>2, <2>3, <2>4, <2>5, Zenon DEF GoodService
<1>5. QED BY <1>3, <1>4, Zenon

\* Joining the queue of a service that has an owner: nobody is told anything.
LEMMA AddOwnerProps ==
  ASSUME NEW s, GoodService(s), NEW c \in Conns, NEW f,
         s.q # << >>, s.q[1].conn # c
  PROVE  /\ GoodService(AddOwner(s, c, f))
         /\ AddOwner(s, c, f).fresh = s.fresh
         /\ \A d : HasOwner(AddOwner(s, c, f).q, d) <=> HasOwner(s.q, d) \/ d = c
         /\ AddOwner(s, c, f).q # << >> /\ AddOwner(s, c, f).q[1] = s.q[1]
         /\ REPLACE_EXISTING \in f => /\ Len(AddOwner(s, c, f).q) >= 2
                                      /\ AddOwner(s, c, f).q[2].conn = c
<1> DEFINE r == IF HasOwner(s.q, c) THEN Requeue(s.q, c, f) ELSE Enqueue(s.q, c, f)
<1>1. s \in ServiceType /\ Queue(s.q) /\ s.q \in Seq(Owner)
  BY Zenon DEF GoodService, ServiceType, Queue
<1>2. AddOwner(s, c, f) = [s EXCEPT !.q = r]
  BY Zenon DEF AddOwner
<1>3. /\ Queue(r) /\ r # << >> /\ r[1] = s.q[1]
      /\ \A d : HasOwner(r, d) <=> HasOwner(s.q, d) \/ d = c
      /\ REPLACE_EXISTING \in f => Len(r) >= 2 /\ r[2] = NewOwner(c, f)
  <2>1. CASE HasOwner(s.q, c)
    BY <1>1, <2>1, RequeueProps, SMTT(30)
  <2>2. CASE ~HasOwner(s.q, c)
    BY <1>1, <2>2, EnqueueProps
  <2>3. QED BY <2>1, <2>2, Zenon
<1> HIDE DEF r
<1>4. r \in Seq(Owner) /\ NoDuplicates(r) /\ PrimaryOwner(r) = PrimaryOwner(s.q)
  BY <1>3, Zenon DEF Queue, PrimaryOwner
<1>5. /\ [s EXCEPT !.q = r] \in ServiceType /\ [s EXCEPT !.q = r].q = r
      /\ [s EXCEPT !.q = r].fresh = s.fresh
      /\ Believed([s EXCEPT !.q = r], PrimaryOwner(s.q))
  BY <1>1, <1>4, SetQueue, Zenon DEF GoodService
<1>6. NewOwner(c, f).conn = c
  BY NewOwnerType, Zenon
<1>7. QED BY <1>2, <1>3, <1>4, <1>5, <1>6, Zenon DEF GoodService

\* Creating a service: its first owner is announced and told.
LEMMA EnsureProps ==
  ASSUME NEW s, GoodService(s), NEW c \in Conns, NEW f, s.q = << >>,
         connected \subseteq Conns
  PROVE  /\ GoodService(Ensure(s, c, f))
         /\ \A d : HasOwner(Ensure(s, c, f).q, d) <=> d = c
         /\ Ensure(s, c, f).q # << >> /\ Ensure(s, c, f).q[1].conn = c
<1> DEFINE a == SendOwnerChanged(s, NoConn, c)
           b == SendAcquired(a, c)
           r == Enqueue(<< >>, c, f)
<1>1. s \in ServiceType /\ Believed(s, NoConn) /\ NoConn \notin connected
  BY ConnAssumption, Zenon DEF GoodService, PrimaryOwner
<1>2. s.told = {} /\ s.announced = NoConn /\ s.coherent = TRUE
  BY <1>1, Zenon DEF Believed
<1>3. /\ a \in ServiceType /\ a.q = << >> /\ a.told = {} /\ a.announced = c
      /\ a.coherent = TRUE
  <2>1. NoConn \in Conns \cup {NoConn} /\ c \in Conns \cup {NoConn}
    BY Zenon
  <2>2. a \in ServiceType
    BY <1>1, <1>2, <2>1, SendOwnerChangedProps, Zenon
  <2>3. a.q = << >> /\ a.told = {} /\ a.announced = c
    BY <1>1, <1>2, Zenon DEF ServiceType, SendOwnerChanged
  <2>4. a.coherent = TRUE
    BY <1>1, <1>2, <2>1, SendOwnerChangedProps, Zenon
  <2>5. QED BY <2>2, <2>3, <2>4, Zenon
<1>4. AddOwner(a, c, f) = [b EXCEPT !.q = IF HasOwner(@, c) THEN Requeue(@, c, f)
                                          ELSE Enqueue(@, c, f)]
  BY <1>3, Zenon DEF AddOwner
<1> HIDE DEF a
<1>5. b \in ServiceType /\ b.q = << >> /\ Believed(b, c)
  BY <1>3, SendAcquiredProps, Zenon
<1> HIDE DEF b
<1>6. Queue(<< >>) /\ \A d : ~HasOwner(<< >>, d)
  BY EmptySeq DEF Queue, NoDuplicates, HasOwner
<1>7. AddOwner(a, c, f) = [b EXCEPT !.q = r]
  BY <1>4, <1>5, <1>6, Zenon
<1>8. /\ Queue(r) /\ r # << >> /\ r[1].conn = c
      /\ \A d : HasOwner(r, d) <=> d = c
  BY <1>6, EnqueueProps
<1> HIDE DEF r
<1>9. r \in Seq(Owner) /\ NoDuplicates(r) /\ PrimaryOwner(r) = c
  BY <1>8, Zenon DEF Queue, PrimaryOwner
<1> DEFINE t == [b EXCEPT !.q = r]
<1>10. t \in ServiceType /\ t.q = r /\ Believed(t, c)
  BY <1>5, <1>9, SetQueue, Zenon
<1>11. Ensure(s, c, f) = [t EXCEPT !.fresh = TRUE]
  BY <1>7, Zenon DEF Ensure, a
<1> HIDE DEF t
<1>12. /\ [t EXCEPT !.fresh = TRUE] \in ServiceType
       /\ [t EXCEPT !.fresh = TRUE].q = r
       /\ Believed([t EXCEPT !.fresh = TRUE], c)
  BY <1>10, Zenon DEF ServiceType, Believed
<1>13. QED BY <1>8, <1>9, <1>11, <1>12, Zenon DEF GoodService

\* A request that replaces the owner.
LEMMA ReplaceOwnerProps ==
  ASSUME NEW s, GoodService(s), NEW c \in Conns, NEW f, s.q # << >>,
         s.q[1].conn # c, REPLACE_EXISTING \in f, connected \subseteq Conns
  PROVE  /\ GoodService(ReplaceOwner(s, c, f))
         /\ ReplaceOwner(s, c, f).fresh = s.fresh
         /\ \A d : HasOwner(ReplaceOwner(s, c, f).q, d) => HasOwner(s.q, d) \/ d = c
         /\ HasOwner(ReplaceOwner(s, c, f).q, c)
         /\ PrimaryOwner(ReplaceOwner(s, c, f).q) = c
<1> DEFINE t == AddOwner(s, c, f)
<1>1. /\ GoodService(t) /\ t.fresh = s.fresh /\ t.q # << >> /\ t.q[1] = s.q[1]
      /\ \A d : HasOwner(t.q, d) <=> HasOwner(s.q, d) \/ d = c
      /\ Len(t.q) >= 2 /\ t.q[2].conn = c
  <2>1. GoodService(t) /\ t.fresh = s.fresh
    BY AddOwnerProps
  <2>2. \A d : HasOwner(t.q, d) <=> HasOwner(s.q, d) \/ d = c
    BY AddOwnerProps, Zenon
  <2>3. t.q # << >> /\ t.q[1] = s.q[1]
    BY AddOwnerProps
  <2>4. Len(t.q) >= 2 /\ t.q[2].conn = c
    BY AddOwnerProps
  <2>5. QED BY <2>1, <2>2, <2>3, <2>4, Zenon
<1>2. ReplaceOwner(s, c, f) = IF s.q[1].do_not_queue THEN RemovePrimary(t) ELSE SwapOwner(t)
  BY Zenon DEF ReplaceOwner
<1> HIDE DEF t
<1>3. t \in ServiceType /\ Queue(t.q) /\ t.q \in Seq(Owner)
  BY <1>1, Zenon DEF GoodService, ServiceType, Queue
<1> DEFINE old == t.q[1].conn
<1>4. PrimaryOwner(t.q) = old /\ old \in Conns /\ old # c /\ Believed(t, old)
  BY <1>1, <1>3, PrimaryProps, Zenon DEF GoodService
<1>5. CASE s.q[1].do_not_queue
  <2>1. /\ GoodService(RemovePrimary(t)) /\ RemovePrimary(t).fresh = t.fresh
        /\ RemovePrimary(t).q = Tail(t.q)
        /\ \A d : HasOwner(RemovePrimary(t).q, d) <=>
                    HasOwner(t.q, d) /\ d # PrimaryOwner(t.q)
    BY <1>1, RemovePrimaryProps, Zenon
  <2>2. Len(t.q) # 1
    BY <1>1, <1>3, NonEmpty
  <2>3. Tail(t.q) # << >> /\ Tail(t.q)[1] = t.q[2]
    BY <1>1, <1>3, <2>2, QueueTail, Zenon
  <2>4. PrimaryOwner(Tail(t.q)) = c
    BY <1>1, <2>3, Zenon DEF PrimaryOwner
  <2>5. QED BY <1>1, <1>2, <1>4, <1>5, <2>1, <2>4, Zenon
<1>6. CASE ~s.q[1].do_not_queue
  <2> DEFINE u == SendAcquired(SendOwnerChanged(SendLost(t, old), old, c), c)
             r == [t.q EXCEPT ![1] = t.q[2], ![2] = t.q[1]]
  <2>1. u \in ServiceType /\ u.q = t.q /\ u.fresh = t.fresh /\ Believed(u, c)
    BY <1>3, <1>4, HandOver, Zenon
  <2>2. SwapOwner(t) = [u EXCEPT !.q = [@ EXCEPT ![1] = t.q[2], ![2] = t.q[1]]]
    BY <1>1, Zenon DEF SwapOwner
  <2> HIDE DEF u
  <2>3. SwapOwner(t) = [u EXCEPT !.q = r]
    BY <2>1, <2>2, Zenon
  <2>4. /\ Queue(r) /\ r # << >> /\ r[1] = t.q[2]
        /\ \A d : HasOwner(r, d) <=> HasOwner(t.q, d)
    BY <1>1, <1>3, QueueSwap, Zenon
  <2> HIDE DEF r
  <2>5. r \in Seq(Owner) /\ NoDuplicates(r) /\ PrimaryOwner(r) = c
    BY <1>1, <2>4, Zenon DEF Queue, PrimaryOwner
  <2> DEFINE w == SwapOwner(t)
  <2>6. w \in ServiceType /\ w.q = r /\ w.fresh = u.fresh /\ Believed(w, c)
    BY <2>1, <2>3, <2>5, SetQueue
  <2> HIDE DEF w
  <2>7. GoodService(w) /\ w.fresh = s.fresh
    BY <1>1, <2>1, <2>5, <2>6, Zenon DEF GoodService
  <2>8. \A d : HasOwner(w.q, d) <=> HasOwner(t.q, d)
    BY <2>4, <2>6, Zenon
  <2>9. QED BY <1>1, <1>2, <1>6, <2>5, <2>6, <2>7, <2>8, Zenon DEF w
<1>7. QED BY <1>5, <1>6, Zenon

\* A request for a name, whatever its outcome: only the requester joins the
\* queue, signals and queue still agree, and the outcome is as answered.
LEMMA AcquireProps ==
  ASSUME NEW s, GoodService(s), NEW c \in Conns, NEW f, connected \subseteq Conns
  PROVE  /\ GoodService(Acquire(s, c, f))
         /\ \A d : HasOwner(Acquire(s, c, f).q, d) => HasOwner(s.q, d) \/ d = c
         /\ AcquireResult(s.q, c, f) \in RequestResults
         /\ AcquireResult(s.q, c, f) \in {"PRIMARY_OWNER", "ALREADY_OWNER"} =>
              PrimaryOwner(Acquire(s, c, f).q) = c
         /\ AcquireResult(s.q, c, f) = "IN_QUEUE" =>
              HasOwner(Acquire(s, c, f).q, c) /\ PrimaryOwner(Acquire(s, c, f).q) # c
         /\ AcquireResult(s.q, c, f) = "EXISTS" =>
              ~HasOwner(Acquire(s, c, f).q, c) /\ Acquire(s, c, f).q # << >>
         /\ Acquire(s, c, f).fresh => s.fresh \/ s.q = << >>
<1>1. s \in ServiceType /\ Queue(s.q) /\ s.q \in Seq(Owner)
  BY Zenon DEF GoodService, ServiceType, Queue
<1>2. CASE s.q = << >>
  <2>1. Acquire(s, c, f) = Ensure(s, c, f)
    BY <1>2, Zenon DEF Acquire
  <2>2. AcquireResult(s.q, c, f) = "PRIMARY_OWNER"
    BY <1>2, Zenon DEF AcquireResult
  <2>3. PrimaryOwner(Ensure(s, c, f).q) = c
    BY <1>2, EnsureProps DEF PrimaryOwner
  <2>4. QED BY <1>2, <2>1, <2>2, <2>3, EnsureProps, SMTT(30) DEF RequestResults
<1>3. CASE s.q # << >> /\ s.q[1].conn = c
  <2> DEFINE r == [s.q EXCEPT ![1] = NewOwner(c, f)]
  <2>1. Acquire(s, c, f) = [s EXCEPT !.q = r]
    BY <1>3, Zenon DEF Acquire
  <2>2. AcquireResult(s.q, c, f) = "ALREADY_OWNER"
    BY <1>3, Zenon DEF AcquireResult
  <2>3. /\ Queue(r) /\ r # << >> /\ r[1].conn = c
        /\ \A d : HasOwner(r, d) <=> HasOwner(s.q, d)
    <3>1. 1 \in 1..Len(s.q) /\ NewOwner(c, f) \in Owner /\ NewOwner(c, f).conn = s.q[1].conn
      BY <1>1, <1>3, NonEmpty, NewOwnerType, SMTT(30)
    <3>2. QED BY <1>1, <1>3, <3>1, QueueSetFlags, SMTT(30)
  <2> HIDE DEF r
  <2>4. r \in Seq(Owner) /\ NoDuplicates(r) /\ PrimaryOwner(r) = c /\ PrimaryOwner(s.q) = c
    BY <1>3, <2>3, Zenon DEF Queue, PrimaryOwner
  <2>5. /\ [s EXCEPT !.q = r] \in ServiceType /\ [s EXCEPT !.q = r].q = r
        /\ [s EXCEPT !.q = r].fresh = s.fresh /\ Believed([s EXCEPT !.q = r], c)
    BY <1>1, <2>4, SetQueue, Zenon DEF GoodService
  <2>6. QED BY <2>1, <2>2, <2>3, <2>4, <2>5, Zenon DEF GoodService, RequestResults
<1>4. CASE s.q # << >> /\ s.q[1].conn # c /\ Replaceable(s.q, f)
  <2>1. Acquire(s, c, f) = ReplaceOwner(s, c, f)
    BY <1>4, Zenon DEF Acquire
  <2>2. AcquireResult(s.q, c, f) = "PRIMARY_OWNER"
    BY <1>4, Zenon DEF AcquireResult
  <2>3. REPLACE_EXISTING \in f
    BY <1>4, Zenon DEF Replaceable
  <2>4. QED BY <1>4, <2>1, <2>2, <2>3, ReplaceOwnerProps, SMTT(30) DEF RequestResults
<1>5. CASE s.q # << >> /\ s.q[1].conn # c /\ ~Replaceable(s.q, f) /\ DO_NOT_QUEUE \in f
  <2> DEFINE r == LeaveQueue(s.q, c)
  <2>1. Acquire(s, c, f) = [s EXCEPT !.q = r]
    BY <1>5, Zenon DEF Acquire
  <2>2. AcquireResult(s.q, c, f) = "EXISTS"
    BY <1>5, Zenon DEF AcquireResult
  <2>3. /\ Queue(r) /\ r # << >> /\ r[1] = s.q[1]
        /\ \A d : HasOwner(r, d) <=> HasOwner(s.q, d) /\ d # c
    BY <1>1, <1>5, LeaveQueueProps, SMTT(30)
  <2> HIDE DEF r
  <2>4. r \in Seq(Owner) /\ NoDuplicates(r) /\ PrimaryOwner(r) = PrimaryOwner(s.q)
    BY <1>5, <2>3, Zenon DEF Queue, PrimaryOwner
  <2>5. /\ [s EXCEPT !.q = r] \in ServiceType /\ [s EXCEPT !.q = r].q = r
        /\ [s EXCEPT !.q = r].fresh = s.fresh
        /\ Believed([s EXCEPT !.q = r], PrimaryOwner(s.q))
    BY <1>1, <2>4, SetQueue, Zenon DEF GoodService
  <2>6. QED BY <2>1, <2>2, <2>3, <2>4, <2>5, Zenon DEF GoodService, RequestResults
<1>6. CASE s.q # << >> /\ s.q[1].conn # c /\ ~Replaceable(s.q, f) /\ DO_NOT_QUEUE \notin f
  <2>1. Acquire(s, c, f) = AddOwner(s, c, f)
    BY <1>6, Zenon DEF Acquire
  <2>2. AcquireResult(s.q, c, f) = "IN_QUEUE"
    BY <1>6, Zenon DEF AcquireResult
  <2>3. PrimaryOwner(AddOwner(s, c, f).q) # c
    BY <1>6, AddOwnerProps DEF PrimaryOwner
  <2> DEFINE t == AddOwner(s, c, f)
  <2>4. GoodService(t) /\ t.fresh = s.fresh
    BY <1>6, AddOwnerProps
  <2>5. \A d : HasOwner(t.q, d) <=> HasOwner(s.q, d) \/ d = c
    BY <1>6, AddOwnerProps, Zenon
  <2> HIDE DEF t
  <2>6. QED BY <1>6, <2>1, <2>2, <2>3, <2>4, <2>5, Zenon DEF RequestResults, t
<1>7. \/ s.q = << >>
      \/ s.q # << >> /\ s.q[1].conn = c
      \/ s.q # << >> /\ s.q[1].conn # c /\ Replaceable(s.q, f)
      \/ s.q # << >> /\ s.q[1].conn # c /\ ~Replaceable(s.q, f) /\ DO_NOT_QUEUE \in f
      \/ s.q # << >> /\ s.q[1].conn # c /\ ~Replaceable(s.q, f) /\ DO_NOT_QUEUE \notin f
  BY Zenon
<1>8. QED BY <1>2, <1>3, <1>4, <1>5, <1>6, <1>7, Zenon

-----------------------------------------------------------------------------
(***************************************************************************)
(* services_owned.                                                         *)
(***************************************************************************)
Lists(o, n) == \E i \in DOMAIN o : o[i] = n

OwnedList(o) == o \in Seq(BusNames) /\ \A i, j \in DOMAIN o : o[i] = o[j] => i = j

\* Taking a service off the list of its owner.
LEMMA DisownProps ==
  ASSUME NEW o, OwnedList(o), NEW n, Lists(o, n)
  PROVE  /\ OwnedList(Disown(o, n)) /\ Len(Disown(o, n)) = Len(o) - 1
         /\ \A m : Lists(Disown(o, n), m) <=> Lists(o, m) /\ m # n
<1> DEFINE i == CHOOSE i \in DOMAIN o : o[i] = n
           r == RemoveLink(o, i)
<1>1. Disown(o, n) = r
  BY Zenon DEF Disown
<1>2. Len(o) \in Nat /\ DOMAIN o = 1..Len(o)
  BY NonEmpty, Zenon DEF OwnedList
<1>3. i \in 1..Len(o) /\ o[i] = n
  BY <1>2, Zenon DEF Lists
<1> HIDE DEF i
<1>4. /\ r \in Seq(BusNames) /\ Len(r) = Len(o) - 1
      /\ \A j \in 1..(Len(o) - 1) : r[j] = IF j < i THEN o[j] ELSE o[j + 1]
  BY <1>3, RemoveAtProps, Zenon DEF OwnedList
<1> HIDE DEF r
<1>5. DOMAIN r = 1..(Len(o) - 1)
  BY <1>4, NonEmpty, Zenon
<1>6. \A j, k \in 1..Len(o) : o[j] = o[k] => j = k
  BY <1>2, Zenon DEF OwnedList
<1>7. \A j, k \in DOMAIN r : r[j] = r[k] => j = k
  <2> SUFFICES ASSUME NEW j \in 1..(Len(o) - 1), NEW k \in 1..(Len(o) - 1), r[j] = r[k]
               PROVE  j = k
    BY <1>5, Zenon
  <2> DEFINE old(m) == IF m < i THEN m ELSE m + 1
  <2>1. /\ old(j) \in 1..Len(o) /\ r[j] = o[old(j)]
        /\ old(k) \in 1..Len(o) /\ r[k] = o[old(k)]
    BY <1>2, <1>3, <1>4
  <2>2. old(j) = old(k)
    <3> HIDE DEF old
    <3> QED BY <1>6, <2>1, Zenon
  <2>3. QED BY <1>2, <1>3, <2>2
<1>8. ASSUME NEW m PROVE Lists(r, m) <=> Lists(o, m) /\ m # n
  <2>1. ASSUME Lists(r, m) PROVE Lists(o, m) /\ m # n
    <3>1. PICK j \in 1..(Len(o) - 1) : r[j] = m
      BY <1>5, <2>1, Zenon DEF Lists
    <3>2. PICK k \in 1..Len(o) : k # i /\ r[j] = o[k]
      <4>1. CASE j < i  BY <1>2, <1>3, <1>4, <4>1, SMTT(30)
      <4>2. CASE ~(j < i)
        <5>1. j + 1 \in 1..Len(o) /\ j + 1 # i /\ r[j] = o[j + 1]
          BY <1>2, <1>3, <1>4, <4>2, SMTT(30)
        <5>2. QED BY <5>1, Zenon
      <4>3. QED BY <4>1, <4>2, Zenon
    <3>3. QED BY <1>2, <1>3, <1>6, <3>1, <3>2, Zenon DEF Lists
  <2>2. ASSUME Lists(o, m), m # n PROVE Lists(r, m)
    <3>1. PICK k \in 1..Len(o) : o[k] = m
      BY <1>2, <2>2, Zenon DEF Lists
    <3>2. k # i
      BY <1>3, <2>2, <3>1, Zenon
    <3>3. CASE k < i
      <4>1. k \in 1..(Len(o) - 1) /\ r[k] = o[k]
        BY <1>2, <1>3, <1>4, <3>3, SMTT(30)
      <4>2. QED BY <1>5, <3>1, <4>1, Zenon DEF Lists
    <3>4. CASE k > i
      <4>1. k - 1 \in 1..(Len(o) - 1) /\ r[k - 1] = o[k]
        BY <1>2, <1>3, <1>4, <3>4, SMTT(30)
      <4>2. QED BY <1>5, <3>1, <4>1, Zenon DEF Lists
    <3>5. QED BY <1>2, <1>3, <3>2, <3>3, <3>4, SMTT(30)
  <2>3. QED BY <2>1, <2>2, Zenon
<1>9. QED BY <1>1, <1>4, <1>7, <1>8, Zenon DEF OwnedList

\* Putting a service at the end of the list of its owner.
LEMMA OwnProps ==
  ASSUME NEW o, OwnedList(o), NEW n \in BusNames, ~Lists(o, n)
  PROVE  /\ OwnedList(Append(o, n)) /\ Len(Append(o, n)) = Len(o) + 1
         /\ \A m : Lists(Append(o, n), m) <=> Lists(o, m) \/ m = n
<1> DEFINE r == Append(o, n)
<1>1. /\ r \in Seq(BusNames) /\ Len(r) = Len(o) + 1
      /\ \A j \in 1..Len(o) : r[j] = o[j]
      /\ r[Len(o) + 1] = n
  BY AppendProperties DEF OwnedList
<1>2. Len(o) \in Nat /\ DOMAIN o = 1..Len(o) /\ DOMAIN r = 1..(Len(o) + 1)
  BY <1>1, NonEmpty, Zenon DEF OwnedList
<1> HIDE DEF r
<1>3. \A j \in 1..(Len(o) + 1) : j \in 1..Len(o) \/ j = Len(o) + 1
  BY <1>2
<1>4. \A j \in 1..Len(o) : j \in 1..(Len(o) + 1) /\ o[j] # n
  BY <1>2 DEF Lists
<1>5. Len(o) + 1 \in 1..(Len(o) + 1)
  BY <1>2
<1>6. \A i, j \in DOMAIN r : r[i] = r[j] => i = j
  BY <1>1, <1>2, <1>3, <1>4, Zenon DEF OwnedList
<1>7. \A m : Lists(r, m) <=> Lists(o, m) \/ m = n
  BY <1>1, <1>2, <1>3, <1>4, <1>5, Zenon DEF Lists
<1>8. QED BY <1>1, <1>6, <1>7, Zenon DEF OwnedList, r

-----------------------------------------------------------------------------
(***************************************************************************)
(* Places in a queue.  Kept(q, r, c): where two connections other than c   *)
(* stand in r one ahead of the other, they stand so in q.                  *)
(***************************************************************************)
Kept(q, r, c) == \A a, b : a # c /\ b # c /\ Ahead(r, a, b) => Ahead(q, a, b)
AllKept(q, r) == \A a, b : Ahead(r, a, b) => Ahead(q, a, b)

\* Unlinking an owner moves nobody past another.
LEMMA RemoveKept ==
  ASSUME NEW q, Queue(q), NEW i \in 1..Len(q)
  PROVE  AllKept(q, RemoveLink(q, i))
<1> DEFINE r == RemoveLink(q, i)
<1>1. q \in Seq(Owner) /\ Len(q) \in Nat /\ DOMAIN q = 1..Len(q)
  BY NonEmpty, Zenon DEF Queue
<1>2. /\ r \in Seq(Owner) /\ Len(r) = Len(q) - 1
      /\ \A j \in 1..(Len(q) - 1) : r[j] = IF j < i THEN q[j] ELSE q[j + 1]
  BY <1>1, RemoveAtProps, Zenon
<1>3. DOMAIN r = 1..(Len(q) - 1)
  BY <1>2, NonEmpty, Zenon
<1> HIDE DEF r
<1>4. ASSUME NEW a, NEW b, Ahead(r, a, b) PROVE Ahead(q, a, b)
  <2>1. PICK j \in 1..(Len(q) - 1), k \in 1..(Len(q) - 1) :
          j < k /\ r[j].conn = a /\ r[k].conn = b
    BY <1>3, <1>4, Zenon DEF Ahead
  <2> DEFINE up(x) == IF x < i THEN x ELSE x + 1
  <2>2. up(j) \in DOMAIN q /\ up(k) \in DOMAIN q /\ up(j) < up(k)
    BY <1>1, <2>1
  <2>3. r[j] = q[up(j)] /\ r[k] = q[up(k)]
    BY <1>2, <2>1, Zenon
  <2>4. QED BY <2>1, <2>2, <2>3, Zenon DEF Ahead
<1>5. QED BY <1>4, Zenon DEF AllKept, r

\* Linking an owner in behind the first moves nobody else.
LEMMA InsertKept ==
  ASSUME NEW q, Queue(q), q # << >>, NEW x \in Owner
  PROVE  Kept(q, InsertLink(q, 2, x), x.conn)
<1> DEFINE r == InsertLink(q, 2, x)
<1>1. q \in Seq(Owner) /\ Len(q) \in Nat /\ DOMAIN q = 1..Len(q) /\ Len(q) >= 1
  BY NonEmpty, Zenon DEF Queue
<1>2. /\ r \in Seq(Owner) /\ Len(r) = Len(q) + 1
      /\ \A j \in 1..(Len(q) + 1) :
           r[j] = IF j = 1 THEN q[1] ELSE IF j = 2 THEN x ELSE q[j - 1]
  BY InsertSecondProps DEF Queue
<1>3. DOMAIN r = 1..(Len(q) + 1)
  BY <1>2, NonEmpty, Zenon
<1> HIDE DEF r
<1>4. ASSUME NEW a, NEW b, a # x.conn, b # x.conn, Ahead(r, a, b) PROVE Ahead(q, a, b)
  <2>1. PICK j \in 1..(Len(q) + 1), k \in 1..(Len(q) + 1) :
          j < k /\ r[j].conn = a /\ r[k].conn = b
    BY <1>3, <1>4, Zenon DEF Ahead
  <2>2. j # 2 /\ k # 2
    BY <1>1, <1>2, <1>4, <2>1, SMTT(30)
  <2> DEFINE down(y) == IF y = 1 THEN 1 ELSE y - 1
  <2>3. down(j) \in DOMAIN q /\ down(k) \in DOMAIN q /\ down(j) < down(k)
    BY <1>1, <2>1, <2>2
  <2>4. r[j] = q[down(j)] /\ r[k] = q[down(k)]
    BY <1>2, <2>1, <2>2, Zenon
  <2>5. QED BY <2>1, <2>3, <2>4, Zenon DEF Ahead
<1>5. QED BY <1>4, Zenon DEF Kept, r

\* Linking an owner in at the end moves nobody else.
LEMMA AppendKept ==
  ASSUME NEW q, Queue(q), NEW x \in Owner
  PROVE  Kept(q, Append(q, x), x.conn)
<1> DEFINE r == Append(q, x)
<1>1. q \in Seq(Owner) /\ Len(q) \in Nat /\ DOMAIN q = 1..Len(q)
  BY NonEmpty, Zenon DEF Queue
<1>2. /\ DOMAIN r = 1..(Len(q) + 1) /\ r[Len(q) + 1] = x
      /\ \A j \in 1..Len(q) : r[j] = q[j]
  BY <1>1, AppendProperties
<1> HIDE DEF r
<1>3. ASSUME NEW a, NEW b, a # x.conn, b # x.conn, Ahead(r, a, b) PROVE Ahead(q, a, b)
  <2>1. PICK j \in 1..(Len(q) + 1), k \in 1..(Len(q) + 1) :
          j < k /\ r[j].conn = a /\ r[k].conn = b
    BY <1>2, <1>3, Zenon DEF Ahead
  <2>2. j \in 1..Len(q) /\ k \in 1..Len(q)
    BY <1>1, <1>2, <1>3, <2>1, SMTT(30)
  <2>3. QED BY <1>1, <1>2, <2>1, <2>2, Zenon DEF Ahead
<1>4. QED BY <1>3, Zenon DEF Kept, r

\* The first owner leaves.
LEMMA TailKept ==
  ASSUME NEW q, Queue(q), q # << >>
  PROVE  AllKept(q, Tail(q))
<1> DEFINE r == Tail(q)
<1>1. q \in Seq(Owner) /\ Len(q) \in Nat /\ DOMAIN q = 1..Len(q) /\ Len(q) >= 1
  BY NonEmpty, Zenon DEF Queue
<1>2. /\ r \in Seq(Owner) /\ Len(r) = Len(q) - 1
      /\ \A j \in 1..(Len(q) - 1) : r[j] = q[j + 1]
  BY <1>1, HeadTailProperties, Zenon
<1>3. DOMAIN r = 1..(Len(q) - 1)
  BY <1>2, NonEmpty, Zenon
<1> HIDE DEF r
<1>4. ASSUME NEW a, NEW b, Ahead(r, a, b) PROVE Ahead(q, a, b)
  <2>1. PICK j \in 1..(Len(q) - 1), k \in 1..(Len(q) - 1) :
          j < k /\ r[j].conn = a /\ r[k].conn = b
    BY <1>3, <1>4, Zenon DEF Ahead
  <2>2. /\ j + 1 \in DOMAIN q /\ k + 1 \in DOMAIN q /\ j + 1 < k + 1
        /\ q[j + 1].conn = a /\ q[k + 1].conn = b
    BY <1>1, <1>2, <2>1
  <2>3. QED BY <2>2, Zenon DEF Ahead
<1>5. QED BY <1>4, Zenon DEF AllKept, r

\* New flags for a queued owner.
LEMMA SetFlagsKept ==
  ASSUME NEW q, Queue(q), NEW i \in 1..Len(q), NEW x \in Owner, x.conn = q[i].conn
  PROVE  AllKept(q, [q EXCEPT ![i] = x])
<1> DEFINE r == [q EXCEPT ![i] = x]
<1>1. q \in Seq(Owner) /\ DOMAIN q = 1..Len(q)
  BY NonEmpty, Zenon DEF Queue
<1>2. DOMAIN r = DOMAIN q /\ \A j \in DOMAIN q : r[j].conn = q[j].conn
  BY <1>1, Zenon
<1> HIDE DEF r
<1>3. QED BY <1>2 DEF AllKept, Ahead, r

\* The first two owners change places: nobody but those two is passed.
LEMMA SwapKept ==
  ASSUME NEW q, Queue(q), Len(q) >= 2,
         NEW r, r = [q EXCEPT ![1] = q[2], ![2] = q[1]]
  PROVE  Kept(q, r, q[2].conn)
<1>1. q \in Seq(Owner) /\ Len(q) \in Nat /\ DOMAIN q = 1..Len(q)
  BY NonEmpty, Zenon DEF Queue
<1>2. /\ DOMAIN r = DOMAIN q /\ r[1] = q[2] /\ r[2] = q[1]
      /\ \A j \in DOMAIN q : j > 2 => r[j] = q[j]
  BY <1>1
<1>3. ASSUME NEW a, NEW b, a # q[2].conn, b # q[2].conn, Ahead(r, a, b) PROVE Ahead(q, a, b)
  <2>1. PICK j \in 1..Len(q), k \in 1..Len(q) : j < k /\ r[j].conn = a /\ r[k].conn = b
    BY <1>1, <1>2, <1>3, Zenon DEF Ahead
  <2>2. j # 1 /\ k > 2
    BY <1>1, <1>2, <1>3, <2>1, SMTT(30)
  <2> DEFINE i == IF j = 2 THEN 1 ELSE j
  <2>3. i \in DOMAIN q /\ k \in DOMAIN q /\ i < k
    BY <1>1, <2>1, <2>2, SMTT(30)
  <2>4. q[i].conn = a /\ q[k].conn = b
    BY <1>1, <1>2, <2>1, <2>2, Zenon
  <2>5. QED BY <2>3, <2>4, Zenon DEF Ahead
<1>4. QED BY <1>3, Zenon DEF Kept

\* Keeping places composes.
LEMMA KeptTwice ==
  ASSUME NEW q, NEW r, NEW t, NEW c
  PROVE  /\ AllKept(q, r) => Kept(q, r, c)
         /\ Kept(q, r, c) /\ Kept(r, t, c) => Kept(q, t, c)
  BY Zenon DEF AllKept, Kept

\* A connection that asks again, or for the first time, passes others and lets
\* nobody else pass.
LEMMA AddOwnerKept ==
  ASSUME NEW q, Queue(q), NEW c \in Conns, NEW f
  PROVE  /\ HasOwner(q, c) /\ q[1].conn # c => Kept(q, Requeue(q, c, f), c)
         /\ ~HasOwner(q, c) => Kept(q, Enqueue(q, c, f), c)
<1> DEFINE x == NewOwner(c, f)
<1>1. x \in Owner /\ x.conn = c
  BY NewOwnerType, Zenon
<1> HIDE DEF x
<1>2. ASSUME HasOwner(q, c), q[1].conn # c PROVE Kept(q, Requeue(q, c, f), c)
  <2> DEFINE i == OwnerLink(q, c)
             r == RemoveLink(q, i)
  <2>1. i \in 1..Len(q) /\ q[i].conn = c
    BY <1>2, LinkProps, Zenon
  <2> HIDE DEF i
  <2>2. Requeue(q, c, f) = IF REPLACE_EXISTING \in f THEN InsertLink(r, 2, x)
                                                     ELSE [q EXCEPT ![i] = x]
    BY Zenon DEF Requeue, x, i
  <2>3. Kept(q, [q EXCEPT ![i] = x], c)
    BY <1>1, <2>1, SetFlagsKept, KeptTwice, Zenon
  <2>4. i # 1
    BY <1>2, <2>1, Zenon
  <2>5. Queue(r) /\ r # << >>
    BY <2>1, <2>4, QueueRemove, Zenon
  <2>6. Kept(q, r, c)
    BY <2>1, RemoveKept, KeptTwice, Zenon
  <2> HIDE DEF r
  <2>7. Kept(r, InsertLink(r, 2, x), c)
    BY <1>1, <2>5, InsertKept, Zenon
  <2>8. QED BY <2>2, <2>3, <2>6, <2>7, KeptTwice, Zenon
<1>3. ASSUME ~HasOwner(q, c) PROVE Kept(q, Enqueue(q, c, f), c)
  <2>1. Kept(q, Append(q, x), c)
    BY <1>1, AppendKept, Zenon
  <2>2. q # << >> => Kept(q, InsertLink(q, 2, x), c)
    BY <1>1, InsertKept, Zenon
  <2>3. QED BY <2>1, <2>2, Zenon DEF Enqueue, x
<1>4. QED BY <1>2, <1>3, Zenon

\* Leaving the queue.
LEMMA LeaveQueueKept ==
  ASSUME NEW q, Queue(q), NEW c
  PROVE  AllKept(q, LeaveQueue(q, c))
<1>1. AllKept(q, q)
  BY Zenon DEF AllKept
<1>2. HasOwner(q, c) => OwnerLink(q, c) \in 1..Len(q)
  BY LinkProps, Zenon
<1>3. QED BY <1>1, <1>2, RemoveKept, Zenon DEF LeaveQueue

\* What a handler may do to the queue of a service, seen from those who wait:
\* nobody but the requester moves, and the primary owner changes only as the
\* specification of the bus says.
LEMMA AcquireKept ==
  ASSUME NEW s, GoodService(s), NEW c \in Conns, NEW f, connected \subseteq Conns
  PROVE  /\ Kept(s.q, Acquire(s, c, f).q, c)
         /\ PrimaryOwner(Acquire(s, c, f).q) # PrimaryOwner(s.q) =>
              /\ PrimaryOwner(Acquire(s, c, f).q) = c
              /\ s.q # << >> => s.q[1].allow_replacement
<1> DEFINE q == s.q
           r == Acquire(s, c, f).q
<1>1. s \in ServiceType /\ q \in Seq(Owner) /\ Queue(q)
  BY Zenon DEF GoodService, ServiceType, Queue
<1>2. CASE q = << >>
  <2>1. r = Ensure(s, c, f).q
    BY <1>2, Zenon DEF Acquire
  <2>2. /\ \A d : HasOwner(Ensure(s, c, f).q, d) <=> d = c
        /\ Ensure(s, c, f).q # << >> /\ Ensure(s, c, f).q[1].conn = c
    <3>1. s.q = << >>
      BY <1>2, Zenon
    <3>2. QED BY <3>1, EnsureProps, SMTT(30)
  <2>3. ASSUME NEW a, NEW b, a # c, Ahead(r, a, b) PROVE FALSE
    <3>1. HasOwner(r, a)
      BY <2>3, Zenon DEF Ahead, HasOwner
    <3>2. QED BY <2>1, <2>2, <2>3, <3>1, Zenon
  <2>4. PrimaryOwner(r) = c
    BY <2>1, <2>2, Zenon DEF PrimaryOwner
  <2>5. QED BY <1>2, <2>3, <2>4, Zenon DEF Kept
<1>3. CASE q # << >> /\ q[1].conn = c
  <2> DEFINE p == [q EXCEPT ![1] = NewOwner(c, f)]
  <2>1. /\ 1 \in 1..Len(q) /\ NewOwner(c, f) \in Owner /\ NewOwner(c, f).conn = q[1].conn
    BY <1>1, <1>3, NonEmpty, NewOwnerType
  <2>2. AllKept(q, p) /\ p # << >> /\ p[1].conn = q[1].conn /\ Queue(p)
    BY <1>1, <2>1, SetFlagsKept, QueueSetFlags, ZenonT(40)
  <2> HIDE DEF p
  <2>3. Acquire(s, c, f) = [s EXCEPT !.q = p]
    BY <1>3, Zenon DEF Acquire, p
  <2>4. r = p
    BY <1>1, <2>2, <2>3, SetQueue, ZenonT(40) DEF Queue
  <2>5. PrimaryOwner(p) = PrimaryOwner(q)
    BY <1>3, <2>2, Zenon DEF PrimaryOwner
  <2>6. QED BY <2>2, <2>4, <2>5, KeptTwice, Zenon
<1>4. CASE q # << >> /\ q[1].conn # c /\ Replaceable(q, f)
  <2> DEFINE t == AddOwner(s, c, f)
  <2>1. REPLACE_EXISTING \in f /\ q[1].allow_replacement
    BY <1>4, Zenon DEF Replaceable
  <2>2. /\ GoodService(t) /\ t.q # << >> /\ t.q[1] = q[1]
        /\ Len(t.q) >= 2 /\ t.q[2].conn = c
    BY <1>4, <2>1, AddOwnerProps, SMTT(30)
  <2>3. Kept(q, t.q, c)
    <3>1. t = [s EXCEPT !.q = IF HasOwner(q, c) THEN Requeue(q, c, f) ELSE Enqueue(q, c, f)]
      BY <1>4, Zenon DEF AddOwner
    <3>2. t.q = IF HasOwner(q, c) THEN Requeue(q, c, f) ELSE Enqueue(q, c, f)
      BY <1>1, <3>1, Zenon DEF ServiceType
    <3>3. QED BY <1>1, <1>4, <3>2, AddOwnerKept, Zenon
  <2>4. Acquire(s, c, f) = IF q[1].do_not_queue THEN RemovePrimary(t) ELSE SwapOwner(t)
    BY <1>4, Zenon DEF Acquire, ReplaceOwner
  <2>5. t \in ServiceType /\ Queue(t.q)
    BY <2>2, Zenon DEF GoodService, ServiceType, Queue
  <2> HIDE DEF t
  <2>6. RemovePrimary(t).q = Tail(t.q)
    BY <2>2, RemovePrimaryProps, Zenon
  <2>7. Kept(t.q, Tail(t.q), c)
    BY <2>2, <2>5, TailKept, KeptTwice, Zenon
  <2>8. Kept(t.q, SwapOwner(t).q, c)
    <3> DEFINE w == [t.q EXCEPT ![1] = t.q[2], ![2] = t.q[1]]
    <3>1. Kept(t.q, w, c)
      BY <2>2, <2>5, SwapKept, Zenon
    <3>2. SwapOwner(t).q = w
      <4> DEFINE old == t.q[1].conn
                 new == t.q[2].conn
                 v == SendAcquired(SendOwnerChanged(SendLost(t, old), old, new), new)
      <4>1. old \in Conns /\ new \in Conns /\ Believed(t, old)
        <5>1. t.q \in Seq(Owner)
          BY <2>5, Zenon DEF Queue
        <5>2. PrimaryOwner(t.q) = old /\ old \in Conns
          BY <2>2, <5>1, PrimaryProps, Zenon
        <5>3. QED BY <2>2, <5>2, Zenon DEF GoodService
      <4>2. v \in ServiceType /\ v.q = t.q
        BY <2>5, <4>1, HandOver, SMTT(30)
      <4>3. SwapOwner(t) = [v EXCEPT !.q = [@ EXCEPT ![1] = t.q[2], ![2] = t.q[1]]]
        BY Zenon DEF SwapOwner
      <4> HIDE DEF v
      <4>4. QED BY <4>2, <4>3, Zenon DEF ServiceType
    <3>3. QED BY <3>1, <3>2, Zenon
  <2>9. PrimaryOwner(r) = c
    BY <1>4, <2>1, ReplaceOwnerProps, Zenon DEF Acquire
  <2>10. QED BY <2>1, <2>3, <2>4, <2>6, <2>7, <2>8, <2>9, KeptTwice, ZenonT(40)
<1>5. CASE q # << >> /\ q[1].conn # c /\ ~Replaceable(q, f) /\ DO_NOT_QUEUE \in f
  <2>1. Acquire(s, c, f) = [s EXCEPT !.q = LeaveQueue(q, c)]
    BY <1>5, Zenon DEF Acquire
  <2>2. Queue(LeaveQueue(q, c)) /\ LeaveQueue(q, c) # << >> /\ LeaveQueue(q, c)[1] = q[1]
    BY <1>1, <1>5, LeaveQueueProps, SMTT(30)
  <2>3. r = LeaveQueue(q, c)
    BY <1>1, <2>1, <2>2, Zenon DEF ServiceType
  <2>4. Kept(q, LeaveQueue(q, c), c)
    BY <1>1, LeaveQueueKept, KeptTwice, Zenon
  <2>5. QED BY <1>5, <2>2, <2>3, <2>4, Zenon DEF PrimaryOwner
<1>6. CASE q # << >> /\ q[1].conn # c /\ ~Replaceable(q, f) /\ DO_NOT_QUEUE \notin f
  <2>1. Acquire(s, c, f) = AddOwner(s, c, f)
    BY <1>6, Zenon DEF Acquire
  <2>2. AddOwner(s, c, f).q # << >> /\ AddOwner(s, c, f).q[1] = q[1]
    BY <1>6, AddOwnerProps, SMTT(30)
  <2>3. AddOwner(s, c, f).q = IF HasOwner(q, c) THEN Requeue(q, c, f) ELSE Enqueue(q, c, f)
    BY <1>1, <1>6, Zenon DEF AddOwner, ServiceType
  <2>4. Kept(q, r, c)
    BY <1>1, <1>6, <2>1, <2>3, AddOwnerKept, Zenon
  <2>5. QED BY <1>6, <2>1, <2>2, <2>4, Zenon DEF PrimaryOwner
<1>7. QED BY <1>2, <1>3, <1>4, <1>5, <1>6, Zenon

\* What a cancelled request leaves: only the requester moved.
LEMMA UnhookedKept ==
  ASSUME NEW q, Queue(q), NEW c \in Conns, NEW f
  PROVE  Kept(q, Unhooked(q, c, f), c)
<1>1. Kept(q, q, c)
  BY Zenon DEF Kept
<1>2. CASE HasOwner(q, c)
  <2>1. q \in Seq(Owner) /\ q # << >> /\ 1 \in 1..Len(q)
    BY <1>2, NonEmpty, SMTT(30) DEF Queue, HasOwner
  <2>2. NewOwner(c, f) \in Owner /\ NewOwner(c, f).conn = c
    BY NewOwnerType, Zenon
  <2>3. q[1].conn = c => Kept(q, [q EXCEPT ![1] = NewOwner(c, f)], c)
    BY <2>1, <2>2, SetFlagsKept, KeptTwice, Zenon
  <2>4. Kept(q, LeaveQueue(q, c), c)
    BY LeaveQueueKept, KeptTwice, Zenon
  <2>5. q[1].conn # c => Kept(q, Requeue(q, c, f), c)
    BY <1>2, AddOwnerKept, Zenon
  <2>6. PrimaryOwner(q) = q[1].conn
    BY <2>1, PrimaryProps, Zenon
  <2>7. QED BY <1>2, <2>3, <2>4, <2>5, <2>6, Zenon DEF Unhooked
<1>3. QED BY <1>1, <1>2, Zenon DEF Unhooked

\* Nobody is both ahead of and behind another.
LEMMA AheadOnce ==
  ASSUME NEW q, Queue(q), NEW a, NEW b, Ahead(q, a, b), Ahead(q, b, a)
  PROVE  FALSE
<1>1. q \in Seq(Owner) /\ NoDuplicates(q) /\ Len(q) \in Nat /\ DOMAIN q = 1..Len(q)
  BY NonEmpty, Zenon DEF Queue
<1>2. PICK i \in 1..Len(q), j \in 1..Len(q) : i < j /\ q[i].conn = a /\ q[j].conn = b
  BY <1>1, Zenon DEF Ahead
<1>3. PICK k \in 1..Len(q), l \in 1..Len(q) : k < l /\ q[k].conn = b /\ q[l].conn = a
  BY <1>1, Zenon DEF Ahead
<1>4. i = l /\ j = k
  BY <1>1, <1>2, <1>3, Zenon DEF NoDuplicates
<1>5. QED BY <1>1, <1>2, <1>3, <1>4, SMTT(30)

\* Taking another service off the list leaves the first one first.
LEMMA DisownFirst ==
  ASSUME NEW o, OwnedList(o), NEW m, NEW n, Lists(o, n), Lists(o, m), o[1] = m, m # n
  PROVE  Disown(o, n)[1] = m /\ Len(Disown(o, n)) >= 1
<1>1. o \in Seq(BusNames) /\ Len(o) \in Nat /\ DOMAIN o = 1..Len(o)
  BY NonEmpty, Zenon DEF OwnedList
<1> DEFINE i == CHOOSE j \in DOMAIN o : o[j] = n
<1>2. i \in 1..Len(o) /\ o[i] = n
  BY <1>1, Zenon DEF Lists
<1>3. i # 1
  BY <1>2, Zenon
<1> HIDE DEF i
<1>4. /\ Len(RemoveLink(o, i)) = Len(o) - 1
      /\ \A j \in 1..(Len(o) - 1) : RemoveLink(o, i)[j] = IF j < i THEN o[j] ELSE o[j + 1]
  BY <1>1, <1>2, RemoveAtProps, Zenon
<1>5. Disown(o, n) = RemoveLink(o, i)
  BY Zenon DEF Disown, i
<1>6. QED BY <1>1, <1>2, <1>3, <1>4, <1>5, SMTT(30)

-----------------------------------------------------------------------------
(***************************************************************************)
(* The inductive invariant.  None of its parts is inductive alone: the     *)
(* loop over services_owned removes c from a queue only because            *)
(* OwnedAgrees says c is in it, OwnedAgrees survives a request only        *)
(* because queues have no duplicates, and the signals stay coherent only   *)
(* because they agreed with the queue before.                              *)
(***************************************************************************)
IInv == TypeOK /\ QueueWellFormed /\ OwnedAgrees /\ ViewsAgree /\ SignalsCoherent

\* Between handlers every service is good.
LEMMA ServiceGood ==
  ASSUME IInv, NEW n \in BusNames
  PROVE  /\ GoodService(Service(n)) /\ Service(n).q = owners[n]
         /\ Service(n).fresh = FALSE
         /\ owners[n] \in Seq(Owner) /\ Queue(owners[n])
<1>1. /\ owners[n] \in Seq(Owner) /\ told[n] \in SUBSET Conns
      /\ announced[n] \in Conns \cup {NoConn} /\ coherent \in BOOLEAN
  BY Zenon DEF IInv, TypeOK
<1>2. NoDuplicates(owners[n])
  BY Zenon DEF IInv, QueueWellFormed
<1>3. /\ told[n] = {PrimaryOwner(owners[n])} \cap connected
      /\ announced[n] = PrimaryOwner(owners[n])
  BY Zenon DEF IInv, ViewsAgree
<1>4. coherent = TRUE
  BY Zenon DEF IInv, SignalsCoherent, TypeOK
<1>5. Service(n) \in ServiceType
  BY <1>1, Zenon DEF Service, ServiceType
<1>6. Believed(Service(n), PrimaryOwner(owners[n]))
  BY <1>3, <1>4, Zenon DEF Service, Believed
<1>7. Service(n).q = owners[n] /\ Service(n).fresh = FALSE
  BY Zenon DEF Service
<1>8. QED BY <1>1, <1>2, <1>5, <1>6, <1>7, Zenon DEF GoodService, Queue

\* The lists of owned services between handlers.
LEMMA OwnedGood ==
  ASSUME IInv, NEW c \in Conns
  PROVE  /\ OwnedList(services_owned[c])
         /\ Len(services_owned[c]) \in Nat /\ Len(services_owned[c]) <= MaxServices
         /\ \A n \in BusNames : Lists(services_owned[c], n) <=> HasOwner(owners[n], c)
<1>1. services_owned[c] \in Seq(BusNames)
  BY Zenon DEF IInv, TypeOK
<1>2. QED BY <1>1, LenProperties, Zenon DEF IInv, OwnedAgrees, OwnedList, Lists

\* Only active connections are queued, and for a unique name only its own.
LEMMA QueuedActive ==
  ASSUME IInv, NEW n \in BusNames, NEW d, HasOwner(owners[n], d)
  PROVE  d \in Conns /\ conn_state[d] = "active" /\ (n \in Conns => d = n)
<1>1. owners[n] \in Seq(Owner)
  BY Zenon DEF IInv, TypeOK
<1>2. PICK i \in DOMAIN owners[n] : owners[n][i].conn = d
  BY Zenon DEF HasOwner
<1>3. owners[n][i] \in Owner
  BY <1>1, NonEmpty, Zenon
<1>4. d \in Conns
  BY <1>2, <1>3, Zenon DEF Owner
<1>5. QED BY <1>2, <1>4, Zenon DEF IInv, QueueWellFormed

\* One connection's list after a transaction on service n.
LEMMA OwnedStep ==
  ASSUME IInv, NEW n \in BusNames, NEW s, NEW c \in Conns,
         HasOwner(s.q, c) /\ ~HasOwner(owners[n], c) =>
           Len(services_owned[c]) < MaxServices
  PROVE  /\ OwnedList(OwnedAfter(n, s)[c])
         /\ Len(OwnedAfter(n, s)[c]) <= MaxServices
         /\ Lists(OwnedAfter(n, s)[c], n) <=> HasOwner(s.q, c)
         /\ \A m \in BusNames : m # n =>
              (Lists(OwnedAfter(n, s)[c], m) <=> HasOwner(owners[m], c))
<1> DEFINE o == services_owned[c]
           before == HasOwner(owners[n], c)
           after == HasOwner(s.q, c)
<1>1. /\ OwnedList(o) /\ Len(o) \in Nat /\ Len(o) <= MaxServices
      /\ \A m \in BusNames : Lists(o, m) <=> HasOwner(owners[m], c)
  BY OwnedGood, Zenon
<1>2. OwnedAfter(n, s)[c] = IF ~before /\ after THEN Append(o, n)
                            ELSE IF before /\ ~after THEN Disown(o, n)
                            ELSE IF before /\ s.fresh THEN Append(Disown(o, n), n)
                            ELSE o
  BY Zenon DEF OwnedAfter
<1>3. MaxServices \in Nat
  BY LimitAssumption, Zenon
<1> HIDE DEF o
<1>4. CASE ~before /\ after
  <2>1. Len(o) < MaxServices
    BY <1>4, Zenon DEF o
  <2>2. /\ OwnedList(Append(o, n)) /\ Len(Append(o, n)) = Len(o) + 1
        /\ \A m : Lists(Append(o, n), m) <=> Lists(o, m) \/ m = n
    BY <1>1, <1>4, OwnProps, Zenon
  <2>3. Len(Append(o, n)) <= MaxServices
    BY <1>1, <1>3, <2>1, <2>2, SMTT(30)
  <2>4. QED BY <1>1, <1>2, <1>4, <2>2, <2>3, Zenon
<1>5. CASE before
  <2>1. /\ OwnedList(Disown(o, n)) /\ Len(Disown(o, n)) = Len(o) - 1
        /\ \A m : Lists(Disown(o, n), m) <=> Lists(o, m) /\ m # n
    BY <1>1, <1>5, DisownProps, Zenon
  <2>2. CASE ~after
    <3>1. Len(Disown(o, n)) <= MaxServices
      BY <1>1, <1>3, <2>1, SMTT(30)
    <3>2. QED BY <1>1, <1>2, <1>5, <2>1, <2>2, <3>1, Zenon
  <2>3. CASE after /\ s.fresh
    <3> DEFINE r == Disown(o, n)
    <3>1. OwnedList(r) /\ Len(r) = Len(o) - 1 /\ ~Lists(r, n)
      BY <2>1, Zenon
    <3> HIDE DEF r
    <3>2. /\ OwnedList(Append(r, n)) /\ Len(Append(r, n)) = Len(r) + 1
          /\ \A m : Lists(Append(r, n), m) <=> Lists(r, m) \/ m = n
      BY <3>1, OwnProps, Zenon
    <3>3. Len(Append(r, n)) <= MaxServices
      BY <1>1, <1>3, <3>1, <3>2, SMTT(30)
    <3>4. QED BY <1>1, <1>2, <1>5, <2>1, <2>3, <3>2, <3>3, Zenon DEF r
  <2>4. CASE after /\ ~s.fresh
    BY <1>1, <1>2, <1>5, <2>4, Zenon
  <2>5. QED BY <2>2, <2>3, <2>4, Zenon
<1>6. CASE ~before /\ ~after
  BY <1>1, <1>2, <1>6, Zenon
<1>7. QED BY <1>4, <1>5, <1>6, Zenon

\* A handler that ends with a good service, having let into the queue only
\* connections that may be there, keeps the registry in order.
LEMMA ExecuteStep ==
  ASSUME IInv, NEW n \in BusNames, NEW s, GoodService(s), Execute(n, s),
         connected' = connected,
         conn_state' \in [Conns -> {"incomplete", "active", "gone"}],
         \A d \in Conns : conn_state[d] = "active" => conn_state'[d] = "active",
         \A d \in Conns : HasOwner(s.q, d) =>
           conn_state'[d] = "active" /\ (n \in Conns => d = n),
         \A d \in Conns : HasOwner(s.q, d) /\ ~HasOwner(owners[n], d) =>
           Len(services_owned[d]) < MaxServices
  PROVE  /\ owners' \in [BusNames -> Seq(Owner)]
         /\ services_owned' \in [Conns -> Seq(BusNames)]
         /\ told' \in [BusNames -> SUBSET Conns]
         /\ announced' \in [BusNames -> Conns \cup {NoConn}]
         /\ coherent' \in BOOLEAN
         /\ QueueWellFormed' /\ OwnedAgrees' /\ ViewsAgree' /\ SignalsCoherent'
<1>1. /\ owners \in [BusNames -> Seq(Owner)]
      /\ told \in [BusNames -> SUBSET Conns]
      /\ announced \in [BusNames -> Conns \cup {NoConn}]
  BY Zenon DEF IInv, TypeOK
<1>2. /\ s.q \in Seq(Owner) /\ s.told \in SUBSET Conns
      /\ s.announced \in Conns \cup {NoConn} /\ s.coherent = TRUE
      /\ NoDuplicates(s.q) /\ s.announced = PrimaryOwner(s.q)
      /\ s.told = {PrimaryOwner(s.q)} \cap connected
  BY Zenon DEF GoodService, ServiceType, Believed
<1>3. /\ owners' = [owners EXCEPT ![n] = s.q]
      /\ told' = [told EXCEPT ![n] = s.told]
      /\ announced' = [announced EXCEPT ![n] = s.announced]
      /\ coherent' = s.coherent
      /\ services_owned' = OwnedAfter(n, s)
  BY Zenon DEF Execute
<1>4. /\ owners'[n] = s.q
      /\ \A m \in BusNames : m # n => owners'[m] = owners[m]
  BY <1>1, <1>3, Zenon
<1>5. owners' \in [BusNames -> Seq(Owner)]
  BY <1>1, <1>2, <1>3, Zenon
<1>6. /\ told' \in [BusNames -> SUBSET Conns]
      /\ announced' \in [BusNames -> Conns \cup {NoConn}]
      /\ coherent' \in BOOLEAN
  BY <1>1, <1>2, <1>3, Zenon
<1>7. \A c \in Conns :
        /\ OwnedList(OwnedAfter(n, s)[c])
        /\ Len(OwnedAfter(n, s)[c]) <= MaxServices
        /\ Lists(OwnedAfter(n, s)[c], n) <=> HasOwner(s.q, c)
        /\ \A m \in BusNames : m # n =>
             (Lists(OwnedAfter(n, s)[c], m) <=> HasOwner(owners[m], c))
  BY OwnedStep, Zenon
<1>8. services_owned' \in [Conns -> Seq(BusNames)]
  <2>1. \A c \in Conns : OwnedAfter(n, s)[c] \in Seq(BusNames)
    BY <1>7, Zenon DEF OwnedList
  <2>2. OwnedAfter(n, s) = [c \in Conns |-> OwnedAfter(n, s)[c]]
    BY Zenon DEF OwnedAfter
  <2>3. QED BY <1>3, <2>1, <2>2, Zenon
<1>9. OwnedAgrees'
  <2> SUFFICES ASSUME NEW c \in Conns
               PROVE  /\ \A m \in BusNames : HasOwner(owners'[m], c) <=>
                           \E i \in DOMAIN services_owned'[c] : services_owned'[c][i] = m
                      /\ \A i, j \in DOMAIN services_owned'[c] :
                           services_owned'[c][i] = services_owned'[c][j] => i = j
                      /\ Len(services_owned'[c]) <= MaxServices
    BY Zenon DEF OwnedAgrees, HasOwner
  <2>1. ASSUME NEW m \in BusNames
        PROVE  HasOwner(owners'[m], c) <=> Lists(services_owned'[c], m)
    BY <1>3, <1>4, <1>7, Zenon
  <2>2. OwnedList(services_owned'[c]) /\ Len(services_owned'[c]) <= MaxServices
    BY <1>3, <1>7, Zenon
  <2>3. QED BY <2>1, <2>2, Zenon DEF Lists, OwnedList
<1>10. QueueWellFormed'
  <2> SUFFICES ASSUME NEW m \in BusNames
               PROVE  /\ NoDuplicates(owners'[m])
                      /\ \A i \in DOMAIN owners'[m] :
                           /\ conn_state'[owners'[m][i].conn] = "active"
                           /\ m \in Conns => owners'[m][i].conn = m
    BY Zenon DEF QueueWellFormed, NoDuplicates
  <2>1. CASE m = n
    <3>1. ASSUME NEW i \in DOMAIN s.q
          PROVE  s.q[i].conn \in Conns /\ HasOwner(s.q, s.q[i].conn)
      <4>1. s.q[i] \in Owner
        BY <1>2, NonEmpty, Zenon
      <4>2. QED BY <4>1, Zenon DEF Owner, HasOwner
    <3>2. QED BY <1>2, <1>4, <2>1, <3>1, Zenon
  <2>2. CASE m # n
    <3>1. owners'[m] = owners[m] /\ NoDuplicates(owners[m])
      BY <1>4, <2>2, Zenon DEF IInv, QueueWellFormed
    <3>2. ASSUME NEW i \in DOMAIN owners[m]
          PROVE  /\ owners[m][i].conn \in Conns
                 /\ conn_state[owners[m][i].conn] = "active"
                 /\ m \in Conns => owners[m][i].conn = m
      <4>1. HasOwner(owners[m], owners[m][i].conn)
        BY Zenon DEF HasOwner
      <4>2. QED BY <4>1, QueuedActive, ZenonT(40)
    <3>3. QED BY <3>1, <3>2, Zenon
  <2>3. QED BY <2>1, <2>2, Zenon
<1>11. ViewsAgree'
  <2> SUFFICES ASSUME NEW m \in BusNames
               PROVE  /\ told'[m] = {PrimaryOwner(owners'[m])} \cap connected'
                      /\ announced'[m] = PrimaryOwner(owners'[m])
    BY Zenon DEF ViewsAgree, PrimaryOwner
  <2>1. CASE m = n
    BY <1>1, <1>2, <1>3, <1>4, <2>1, Zenon
  <2>2. CASE m # n
    <3>1. told'[m] = told[m] /\ announced'[m] = announced[m] /\ owners'[m] = owners[m]
      BY <1>1, <1>3, <1>4, <2>2, Zenon
    <3>2. QED BY <3>1, Zenon DEF IInv, ViewsAgree
  <2>3. QED BY <2>1, <2>2, Zenon
<1>12. SignalsCoherent'
  BY <1>2, <1>3, Zenon DEF SignalsCoherent
<1>13. QED BY <1>5, <1>6, <1>8, <1>9, <1>10, <1>11, <1>12, Zenon

\* A cancelled transaction that leaves a well-formed queue with the same primary
\* owner is like an executed one that sent nothing.
LEMMA CancelIsExecute ==
  ASSUME IInv, NEW n \in BusNames, NEW r, Queue(r),
         PrimaryOwner(r) = PrimaryOwner(owners[n]), Cancel(n, r),
         NEW s, s = [Service(n) EXCEPT !.q = r]
  PROVE  GoodService(s) /\ Execute(n, s) /\ s.q = r
<1>1. GoodService(Service(n)) /\ Service(n).q = owners[n]
  BY ServiceGood, Zenon
<1>2. Service(n) \in ServiceType /\ Believed(Service(n), PrimaryOwner(owners[n]))
  BY <1>1, Zenon DEF GoodService
<1>3. r \in Seq(Owner) /\ NoDuplicates(r)
  BY Zenon DEF Queue
<1>4. s \in ServiceType /\ s.q = r /\ Believed(s, PrimaryOwner(owners[n]))
  BY <1>2, <1>3, SetQueue, Zenon
<1>5. GoodService(s)
  BY <1>3, <1>4, Zenon DEF GoodService
<1>6. s.told = told[n] /\ s.announced = announced[n] /\ s.coherent = coherent
  BY Zenon DEF Service
<1>7. /\ told \in [BusNames -> SUBSET Conns]
      /\ announced \in [BusNames -> Conns \cup {NoConn}]
  BY Zenon DEF IInv, TypeOK
<1>8. /\ [told EXCEPT ![n] = told[n]] = told
      /\ [announced EXCEPT ![n] = announced[n]] = announced
  BY <1>7, Zenon
<1>9. Execute(n, s)
  BY <1>4, <1>6, <1>8, Zenon DEF Cancel, Execute
<1>10. QED BY <1>4, <1>5, <1>9, Zenon

-----------------------------------------------------------------------------
(***************************************************************************)
(* Each handler preserves the invariant.                                   *)
(***************************************************************************)

\* The part of TypeOK that Execute does not touch.
OtherTypes ==
  /\ conn_state \in [Conns -> {"incomplete", "active", "gone"}]
  /\ connected \subseteq Conns
  /\ closing \in Conns \cup {NoConn}
  /\ unique_pid_hash \in [Names -> Pids \cup {NoPid}]
  /\ processes \subseteq Pids
  /\ reply \in [conn : Conns \cup {NoConn}, name : BusNames \cup {NoConn},
                result : RequestResults \cup ReleaseResults \cup ErrorResults
                         \cup {"none"}]

\* What a handler answers is a reply.
LEMMA AnswerType ==
  ASSUME NEW c \in Conns, NEW n \in BusNames, NEW result,
         result \in RequestResults \cup ReleaseResults \cup ErrorResults,
         Answer(c, n, result)
  PROVE  reply' \in [conn : Conns \cup {NoConn}, name : BusNames \cup {NoConn},
                     result : RequestResults \cup ReleaseResults \cup ErrorResults
                              \cup {"none"}]
  BY Zenon DEF Answer

\* So is no answer.
LEMMA NoReplyType ==
  NoReply \in [conn : Conns \cup {NoConn}, name : BusNames \cup {NoConn},
               result : RequestResults \cup ReleaseResults \cup ErrorResults
                        \cup {"none"}]
  BY Zenon DEF NoReply

\* Putting the two halves of the type invariant together.
LEMMA ExecutePreserves ==
  ASSUME IInv, OtherTypes', NEW n \in BusNames, NEW s, GoodService(s), Execute(n, s),
         connected' = connected,
         \A d \in Conns : conn_state[d] = "active" => conn_state'[d] = "active",
         \A d \in Conns : HasOwner(s.q, d) =>
           conn_state'[d] = "active" /\ (n \in Conns => d = n),
         \A d \in Conns : HasOwner(s.q, d) /\ ~HasOwner(owners[n], d) =>
           Len(services_owned[d]) < MaxServices
  PROVE  IInv'
<1>1. conn_state' \in [Conns -> {"incomplete", "active", "gone"}]
  BY Zenon DEF OtherTypes
<1>2. /\ owners' \in [BusNames -> Seq(Owner)]
      /\ services_owned' \in [Conns -> Seq(BusNames)]
      /\ told' \in [BusNames -> SUBSET Conns]
      /\ announced' \in [BusNames -> Conns \cup {NoConn}]
      /\ coherent' \in BOOLEAN
  BY <1>1, ExecuteStep, Zenon
<1>3. QueueWellFormed' /\ OwnedAgrees' /\ ViewsAgree' /\ SignalsCoherent'
  BY <1>1, ExecuteStep, Zenon
<1>4. TypeOK'
  BY <1>2, Zenon DEF TypeOK, OtherTypes
<1>5. QED BY <1>3, <1>4, Zenon DEF IInv

\* A handler that changes only the queue of one name, and lets nobody in.
LEMMA ShrinkPreserves ==
  ASSUME IInv, OtherTypes', NEW n \in BusNames, NEW s, GoodService(s), Execute(n, s),
         connected' = connected, conn_state' = conn_state,
         \A d : HasOwner(s.q, d) => HasOwner(owners[n], d)
  PROVE  IInv'
<1>1. \A d \in Conns : HasOwner(s.q, d) =>
        conn_state'[d] = "active" /\ (n \in Conns => d = n)
  BY QueuedActive, Zenon
<1>2. QED BY <1>1, ExecutePreserves, Zenon

\* A connection that has not said Hello is in no queue.
LEMMA IncompleteOwnsNothing ==
  ASSUME IInv, NEW c \in Conns, conn_state[c] # "active"
  PROVE  /\ \A n \in BusNames : ~HasOwner(owners[n], c)
         /\ services_owned[c] = << >> /\ owners[c] = << >>
<1>1. \A n \in BusNames : ~HasOwner(owners[n], c)
  BY QueuedActive, Zenon
<1>2. services_owned[c] = << >>
  <2>1. services_owned[c] \in Seq(BusNames)
    BY Zenon DEF IInv, TypeOK
  <2>2. ASSUME services_owned[c] # << >> PROVE FALSE
    <3>1. 1 \in DOMAIN services_owned[c] /\ services_owned[c][1] \in BusNames
      BY <2>1, <2>2, NonEmpty, SMTT(30)
    <3>2. Lists(services_owned[c], services_owned[c][1])
      BY <3>1, Zenon DEF Lists
    <3>3. QED BY <1>1, <3>1, <3>2, OwnedGood, Zenon
  <2>3. QED BY <2>2, Zenon
<1>3. owners[c] = << >>
  <2>1. c \in BusNames /\ owners[c] \in Seq(Owner)
    BY ServiceGood, Zenon DEF BusNames
  <2>2. ASSUME owners[c] # << >> PROVE FALSE
    <3>1. HasOwner(owners[c], owners[c][1].conn)
      BY <2>1, <2>2, PrimaryProps, Zenon
    <3>2. owners[c][1].conn = c
      BY <2>1, <3>1, QueuedActive, Zenon
    <3>3. QED BY <1>1, <2>1, <3>1, <3>2, Zenon
  <2>3. QED BY <2>2, Zenon
<1>4. QED BY <1>1, <1>2, <1>3, Zenon

\* Hello: the connection becomes active and owns its unique name.
LEMMA InvHello ==
  ASSUME IInv, NEW c \in Conns, Hello(c)
  PROVE  IInv'
<1> DEFINE s == Ensure(Service(c), c, {})
<1>1. c \in BusNames /\ connected \subseteq Conns /\ conn_state[c] # "active"
  BY Zenon DEF BusNames, IInv, TypeOK, Hello
<1>2. owners[c] = << >> /\ services_owned[c] = << >>
  BY <1>1, IncompleteOwnsNothing, Zenon
<1>3. GoodService(Service(c)) /\ Service(c).q = << >>
  BY <1>1, <1>2, ServiceGood, Zenon
<1>4. GoodService(s) /\ \A d : HasOwner(s.q, d) <=> d = c
  BY <1>1, <1>3, EnsureProps, Zenon
<1>5. Execute(c, s) /\ connected' = connected
  BY Zenon DEF Hello
<1> HIDE DEF s
<1>6. conn_state' = [conn_state EXCEPT ![c] = "active"]
  BY Zenon DEF Hello
<1>7. OtherTypes'
  BY <1>6, NoReplyType, Zenon DEF Hello, OtherTypes, IInv, TypeOK
<1>8. Len(services_owned[c]) < MaxServices
  BY <1>2, LimitAssumption, SMTT(30)
<1>9. conn_state \in [Conns -> {"incomplete", "active", "gone"}]
  BY Zenon DEF IInv, TypeOK
<1>10. /\ conn_state'[c] = "active"
       /\ \A d \in Conns : conn_state[d] = "active" => conn_state'[d] = "active"
  BY <1>6, <1>9, Zenon
<1>11. QED BY <1>1, <1>4, <1>5, <1>7, <1>8, <1>10, ExecutePreserves, Zenon

\* Connections change state without touching the registry.
LEMMA StatePreserves ==
  ASSUME IInv, OtherTypes', connected' = connected,
         UNCHANGED <<owners, services_owned, told, announced, coherent>>,
         \A d \in Conns : conn_state[d] = "active" =>
           conn_state'[d] = "active" \/ services_owned[d] = << >>
  PROVE  IInv'
<1>1. TypeOK'
  BY Zenon DEF IInv, TypeOK, OtherTypes
<1>2. OwnedAgrees'
  BY DEF IInv, OwnedAgrees, HasOwner
<1>3. ViewsAgree' /\ SignalsCoherent'
  BY Zenon DEF IInv, ViewsAgree, SignalsCoherent, PrimaryOwner
<1>4. QueueWellFormed'
  <2> SUFFICES ASSUME NEW n \in BusNames
               PROVE  /\ NoDuplicates(owners[n])
                      /\ \A i \in DOMAIN owners[n] :
                           /\ conn_state'[owners[n][i].conn] = "active"
                           /\ n \in Conns => owners[n][i].conn = n
    BY ZenonT(40) DEF QueueWellFormed, NoDuplicates
  <2>1. NoDuplicates(owners[n])
    BY Zenon DEF IInv, QueueWellFormed
  <2>2. ASSUME NEW i \in DOMAIN owners[n]
        PROVE  /\ conn_state'[owners[n][i].conn] = "active"
               /\ n \in Conns => owners[n][i].conn = n
    <3> DEFINE d == owners[n][i].conn
    <3>1. HasOwner(owners[n], d)
      BY Zenon DEF HasOwner
    <3>2. d \in Conns /\ conn_state[d] = "active" /\ (n \in Conns => d = n)
      BY <3>1, QueuedActive, Zenon
    <3>3. services_owned[d] # << >>
      <4>1. Lists(services_owned[d], n)
        BY <3>1, <3>2, OwnedGood, Zenon
      <4>2. services_owned[d] \in Seq(BusNames)
        BY <3>2, Zenon DEF IInv, TypeOK
      <4>3. QED BY <4>1, <4>2, NonEmpty, SMTT(30) DEF Lists
    <3>4. QED BY <3>2, <3>3, Zenon
  <2>3. QED BY <2>1, <2>2, Zenon
<1>5. QED BY <1>1, <1>2, <1>3, <1>4, Zenon DEF IInv

\* The clean-up after a dead process leaves a good service with fewer owners.
LEMMA ReleaseOldProps ==
  ASSUME IInv, NEW c \in Conns, NEW n \in BusNames, NEW u,
         NEW s, s = ReleaseOldService(Service(n), c, n, u)
  PROVE  /\ GoodService(s)
         /\ \A d : HasOwner(s.q, d) => HasOwner(owners[n], d)
<1>1. GoodService(Service(n)) /\ Service(n).q = owners[n]
  BY ServiceGood, Zenon
<1>2. connected \subseteq Conns
  BY Zenon DEF IInv, TypeOK
<1>3. CASE u /\ OldPidDead(c, n) /\ Service(n).q # << >>
  <2>1. s = RemovePrimary(Service(n))
    BY <1>3, Zenon DEF ReleaseOldService
  <2>2. QED BY <1>1, <1>2, <1>3, <2>1, RemovePrimaryProps, Zenon
<1>4. CASE ~(u /\ OldPidDead(c, n) /\ Service(n).q # << >>)
  BY <1>1, <1>4, Zenon DEF ReleaseOldService
<1>5. QED BY <1>3, <1>4, Zenon

\* Remembering a pid, or not, keeps the table typed.
LEMMA PidTable ==
  ASSUME IInv, NEW c \in Conns, NEW n \in Names, NEW u,
         NEW p \in RememberedPids(c, n, u) \cup {NoPid, unique_pid_hash[n]}
  PROVE  [unique_pid_hash EXCEPT ![n] = p] \in [Names -> Pids \cup {NoPid}]
<1>1. unique_pid_hash \in [Names -> Pids \cup {NoPid}]
  BY Zenon DEF IInv, TypeOK
<1>2. ProcOf[c] \in Pids
  BY PidAssumption, Zenon
<1>3. p \in Pids \cup {NoPid}
  BY <1>1, <1>2, Zenon DEF RememberedPids
<1>4. QED BY <1>1, <1>3, Zenon

\* The checks of RequestName answer an error or let the request through; a
\* request let through is for a well-known name, within the limit.
LEMMA RequestErrorProps ==
  ASSUME NEW c, NEW n
  PROVE  /\ RequestError(c, n) \in ErrorResults \cup {"none"}
         /\ RequestError(c, n) = "none" =>
              n \notin Conns /\ ~(Len(services_owned[c]) >= MaxServices)
  BY Zenon DEF RequestError, ErrorResults

\* RequestName, in all its outcomes.
LEMMA InvRequestName ==
  ASSUME IInv, NEW c \in Conns, NEW n \in BusNames, NEW u \in BOOLEAN, NEW f \in Flags,
         RequestName(c, n, u, f)
  PROVE  IInv'
<1> DEFINE s == ReleaseOldService(Service(n), c, n, u)
           error == RequestError(c, n)
           t == Acquire(s, c, f)
<1>1. GoodService(s) /\ \A d : HasOwner(s.q, d) => HasOwner(owners[n], d)
  BY ReleaseOldProps, Zenon
<1>2. /\ IF error = "none"
         THEN /\ Execute(n, t)
              /\ \/ Answer(c, n, AcquireResult(s.q, c, f))
                 \/ n \in AutoStarted /\ Answer(c, n, "ACCESS_DENIED")
         ELSE Execute(n, s) /\ Answer(c, n, error)
      /\ connected' = connected /\ conn_state' = conn_state
      /\ conn_state[c] = "active"
  BY Zenon DEF RequestName, Dispatching
<1> HIDE DEF s
<1>3. connected \subseteq Conns
  BY Zenon DEF IInv, TypeOK
<1>4. /\ GoodService(t)
      /\ \A d : HasOwner(t.q, d) => HasOwner(s.q, d) \/ d = c
      /\ AcquireResult(s.q, c, f) \in RequestResults
  BY <1>1, <1>3, AcquireProps, Zenon
<1>5. /\ error \in ErrorResults \cup {"none"}
      /\ error = "none" => n \notin Conns /\ ~(Len(services_owned[c]) >= MaxServices)
  BY RequestErrorProps, Zenon
<1> HIDE DEF t, error
<1>6. reply' \in [conn : Conns \cup {NoConn}, name : BusNames \cup {NoConn},
                  result : RequestResults \cup ReleaseResults \cup ErrorResults
                           \cup {"none"}]
  <2>1. PICK result \in RequestResults \cup ReleaseResults \cup ErrorResults :
          Answer(c, n, result)
    BY <1>2, <1>4, <1>5, Zenon DEF ErrorResults
  <2>2. QED BY <2>1, AnswerType, Zenon
<1>7. unique_pid_hash' \in [Names -> Pids \cup {NoPid}]
  <2>1. CASE n \in Names
    <3>1. PICK p \in RememberedPids(c, n, u) :
            unique_pid_hash' = [unique_pid_hash EXCEPT ![n] = p]
      BY <2>1, Zenon DEF RequestName
    <3>2. QED BY <2>1, <3>1, PidTable, Zenon
  <2>2. CASE n \notin Names
    BY <2>2, Zenon DEF RequestName, IInv, TypeOK
  <2>3. QED BY <2>1, <2>2, Zenon
<1>8. OtherTypes'
  BY <1>2, <1>6, <1>7, Zenon DEF RequestName, OtherTypes, IInv, TypeOK
<1>9. CASE error # "none"
  BY <1>1, <1>2, <1>8, <1>9, ShrinkPreserves, Zenon
<1>10. CASE error = "none"
  <2>1. \A d \in Conns : HasOwner(t.q, d) =>
          conn_state'[d] = "active" /\ (n \in Conns => d = n)
    BY <1>1, <1>2, <1>4, <1>5, <1>10, QueuedActive, Zenon
  <2>2. Len(services_owned[c]) < MaxServices
    <3>1. Len(services_owned[c]) \in Nat
      BY OwnedGood, Zenon
    <3>2. QED BY <1>5, <1>10, <3>1, LimitAssumption, SMTT(30)
  <2>3. \A d \in Conns : HasOwner(t.q, d) /\ ~HasOwner(owners[n], d) =>
          Len(services_owned[d]) < MaxServices
    BY <1>1, <1>4, <2>2, Zenon
  <2>4. Execute(n, t)
    BY <1>2, <1>10, Zenon
  <2>5. QED BY <1>2, <1>4, <1>8, <2>1, <2>3, <2>4, ExecutePreserves, Zenon
<1>11. QED BY <1>9, <1>10, Zenon

\* What a cancelled request leaves behind is a well-formed queue of the same
\* connections, or fewer, under the same primary owner.
LEMMA UnhookedProps ==
  ASSUME NEW q, Queue(q), NEW c \in Conns, NEW f
  PROVE  /\ Queue(Unhooked(q, c, f))
         /\ PrimaryOwner(Unhooked(q, c, f)) = PrimaryOwner(q)
         /\ \A d : HasOwner(Unhooked(q, c, f), d) => HasOwner(q, d)
<1>1. CASE ~HasOwner(q, c)
  BY <1>1, Zenon DEF Unhooked
<1>2. CASE HasOwner(q, c)
  <2>1. q # << >> /\ q \in Seq(Owner)
    <3>1. OwnerLink(q, c) \in 1..Len(q)
      BY <1>2, LinkProps, Zenon
    <3>2. QED BY <3>1, NonEmpty, SMTT(30) DEF Queue
  <2>2. PrimaryOwner(q) = q[1].conn
    BY <2>1, PrimaryProps, Zenon
  <2>3. CASE q[1].conn = c
    <3>1. Unhooked(q, c, f) = [q EXCEPT ![1] = NewOwner(c, f)]
      BY <1>2, <2>2, <2>3, Zenon DEF Unhooked
    <3>2. 1 \in 1..Len(q) /\ NewOwner(c, f) \in Owner /\ NewOwner(c, f).conn = q[1].conn
      BY <2>1, <2>3, NonEmpty, NewOwnerType, SMTT(30)
    <3> DEFINE r == [q EXCEPT ![1] = NewOwner(c, f)]
    <3>3. /\ Queue(r) /\ r # << >> /\ r[1].conn = q[1].conn
          /\ \A d : HasOwner(r, d) <=> HasOwner(q, d)
      BY <3>2, QueueSetFlags, Zenon
    <3> HIDE DEF r
    <3>4. PrimaryOwner(r) = PrimaryOwner(q)
      BY <2>2, <3>3, Zenon DEF PrimaryOwner
    <3>5. QED BY <3>1, <3>3, <3>4, Zenon DEF r
  <2>4. CASE q[1].conn # c /\ AcquireResult(q, c, f) = "EXISTS"
    <3>1. Unhooked(q, c, f) = LeaveQueue(q, c)
      BY <1>2, <2>2, <2>4, Zenon DEF Unhooked
    <3>2. PrimaryOwner(LeaveQueue(q, c)) = PrimaryOwner(q)
      BY <2>1, <2>4, LeaveQueueProps, Zenon DEF PrimaryOwner
    <3>3. QED BY <2>4, <3>1, <3>2, LeaveQueueProps, SMTT(30)
  <2>5. CASE q[1].conn # c /\ AcquireResult(q, c, f) # "EXISTS"
    <3>1. Unhooked(q, c, f) = Requeue(q, c, f)
      BY <1>2, <2>2, <2>5, Zenon DEF Unhooked
    <3>2. PrimaryOwner(Requeue(q, c, f)) = PrimaryOwner(q)
      BY <1>2, <2>1, <2>5, RequeueProps, Zenon DEF PrimaryOwner
    <3>3. QED BY <1>2, <2>5, <3>1, <3>2, RequeueProps, SMTT(30)
  <2>6. QED BY <2>3, <2>4, <2>5, Zenon
<1>3. QED BY <1>1, <1>2, Zenon

\* RequestName running out of memory.
LEMMA InvRequestNameOom ==
  ASSUME IInv, NEW c \in Conns, NEW n \in BusNames, NEW u \in BOOLEAN, NEW f \in Flags,
         RequestNameOom(c, n, u, f)
  PROVE  IInv'
<1>1. n \in Names
  BY RequestErrorProps, Zenon DEF RequestNameOom, BusNames
<1>2. PICK r \in {owners[n], Unhooked(owners[n], c, f)} : Cancel(n, r)
  BY Zenon DEF RequestNameOom
<1>3. Queue(owners[n])
  BY ServiceGood, Zenon
<1>4. /\ Queue(r) /\ PrimaryOwner(r) = PrimaryOwner(owners[n])
      /\ \A d : HasOwner(r, d) => HasOwner(owners[n], d)
  BY <1>3, UnhookedProps, Zenon
<1>5. PICK s : s = [Service(n) EXCEPT !.q = r]
  BY Zenon
<1>6. GoodService(s) /\ Execute(n, s) /\ s.q = r
  BY <1>2, <1>4, <1>5, CancelIsExecute, Zenon
<1>7. unique_pid_hash' \in [Names -> Pids \cup {NoPid}]
  <2>1. PICK p \in RememberedPids(c, n, u) \cup {NoPid, unique_pid_hash[n]} :
          unique_pid_hash' = [unique_pid_hash EXCEPT ![n] = p]
    BY Zenon DEF RequestNameOom
  <2>2. QED BY <1>1, <2>1, PidTable, Zenon
<1>8. OtherTypes'
  <2>1. "NO_MEMORY" \in RequestResults \cup ReleaseResults \cup ErrorResults
    BY Zenon DEF ErrorResults
  <2>2. Answer(c, n, "NO_MEMORY")
    BY Zenon DEF RequestNameOom
  <2>3. QED BY <1>7, <2>1, <2>2, AnswerType, Zenon
               DEF RequestNameOom, OtherTypes, IInv, TypeOK
<1>9. connected' = connected /\ conn_state' = conn_state
  BY Zenon DEF RequestNameOom
<1>10. QED BY <1>4, <1>6, <1>8, <1>9, ShrinkPreserves, Zenon

\* ReleaseName.
LEMMA InvReleaseName ==
  ASSUME IInv, NEW c \in Conns, NEW n \in BusNames, NEW u \in BOOLEAN,
         ReleaseName(c, n, u)
  PROVE  IInv'
<1>1. connected' = connected /\ conn_state' = conn_state
  BY Zenon DEF ReleaseName
<1>2. CASE n \in Conns \/ u
  <2>1. UNCHANGED <<owners, services_owned, told, announced, coherent, unique_pid_hash>>
    BY <1>2, Zenon DEF ReleaseName
  <2>2. PICK result \in RequestResults \cup ReleaseResults \cup ErrorResults :
          Answer(c, n, result)
    BY <1>2, Zenon DEF ReleaseName, ReleaseResults, ErrorResults
  <2>3. OtherTypes'
    BY <2>1, <2>2, AnswerType, Zenon
       DEF ReleaseName, OtherTypes, IInv, TypeOK
  <2>4. QED BY <1>1, <2>1, <2>3, StatePreserves, Zenon
<1>3. CASE ~(n \in Conns \/ u)
  <2> DEFINE s == IF HasOwner(owners[n], c) THEN RemoveOwner(Service(n), c)
                                            ELSE Service(n)
  <2>1. Execute(n, s) /\ Answer(c, n, ReleaseResult(owners[n], c))
    BY <1>3, Zenon DEF ReleaseName
  <2>2. GoodService(Service(n)) /\ Service(n).q = owners[n] /\ connected \subseteq Conns
    BY ServiceGood, Zenon DEF IInv, TypeOK
  <2>3. GoodService(s) /\ \A d : HasOwner(s.q, d) => HasOwner(owners[n], d)
    <3>1. CASE HasOwner(owners[n], c)
      BY <2>2, <3>1, RemoveOwnerProps, Zenon
    <3>2. CASE ~HasOwner(owners[n], c)
      BY <2>2, <3>2, Zenon
    <3>3. QED BY <3>1, <3>2, Zenon
  <2> HIDE DEF s
  <2>4. n \in Names
    BY <1>3, Zenon DEF BusNames
  <2>5. unique_pid_hash' \in [Names -> Pids \cup {NoPid}]
    BY <1>3, <2>4, Zenon DEF ReleaseName, IInv, TypeOK
  <2>6. ReleaseResult(owners[n], c) \in RequestResults \cup ReleaseResults \cup ErrorResults
    BY Zenon DEF ReleaseResult, ReleaseResults
  <2>7. OtherTypes'
    BY <2>1, <2>5, <2>6, AnswerType, Zenon
       DEF ReleaseName, OtherTypes, IInv, TypeOK
  <2>8. QED BY <1>1, <2>1, <2>3, <2>7, ShrinkPreserves, Zenon
<1>4. QED BY <1>2, <1>3, Zenon

\* ReleaseName running out of memory.
LEMMA InvReleaseNameOom ==
  ASSUME IInv, NEW c \in Conns, NEW n \in BusNames, ReleaseNameOom(c, n)
  PROVE  IInv'
<1> DEFINE r == LeaveQueue(owners[n], c)
<1>1. /\ n \in Names /\ Cancel(n, r) /\ PrimaryOwner(owners[n]) # c
      /\ connected' = connected /\ conn_state' = conn_state
  BY Zenon DEF ReleaseNameOom
<1>2. Queue(owners[n]) /\ owners[n] \in Seq(Owner)
  BY ServiceGood, Zenon
<1>3. owners[n] # << >> => owners[n][1].conn # c
  BY <1>1, <1>2, PrimaryProps, Zenon
<1>4. Queue(r) /\ \A d : HasOwner(r, d) => HasOwner(owners[n], d)
  BY <1>2, <1>3, LeaveQueueProps, Zenon
<1>5. PrimaryOwner(r) = PrimaryOwner(owners[n])
  <2>1. CASE owners[n] = << >>
    <3>1. r = << >>
      BY <1>2, <1>3, <2>1, LeaveQueueProps, Zenon
    <3>2. QED BY <2>1, <3>1, Zenon
  <2>2. CASE owners[n] # << >>
    <3>1. r # << >> /\ r[1] = owners[n][1]
      BY <1>2, <1>3, <2>2, LeaveQueueProps, Zenon
    <3>2. QED BY <2>2, <3>1, Zenon DEF PrimaryOwner
  <2>3. QED BY <2>1, <2>2, Zenon
<1> HIDE DEF r
<1>6. PICK s : s = [Service(n) EXCEPT !.q = r]
  BY Zenon
<1>7. GoodService(s) /\ Execute(n, s) /\ s.q = r
  BY <1>1, <1>4, <1>5, <1>6, CancelIsExecute, Zenon
<1>8. OtherTypes'
  <2>1. "NO_MEMORY" \in RequestResults \cup ReleaseResults \cup ErrorResults
    BY Zenon DEF ErrorResults
  <2>2. Answer(c, n, "NO_MEMORY")
    BY Zenon DEF ReleaseNameOom
  <2>3. unique_pid_hash' \in [Names -> Pids \cup {NoPid}]
    BY Zenon DEF ReleaseNameOom, IInv, TypeOK
  <2>4. QED BY <2>1, <2>2, <2>3, AnswerType, Zenon
               DEF ReleaseNameOom, OtherTypes, IInv, TypeOK
<1>9. QED BY <1>1, <1>4, <1>7, <1>8, ShrinkPreserves, Zenon

\* One turn of the disconnect loop: services_owned names a queue c is in.
LEMMA InvDisconnectRelease ==
  ASSUME IInv, NEW c \in Conns, DisconnectRelease(c)
  PROVE  IInv'
<1> DEFINE n == GetLast(services_owned[c])
           s == RemoveOwner(Service(n), c)
<1>1. /\ services_owned[c] # << >> /\ Execute(n, s)
      /\ connected' = connected /\ conn_state' = conn_state
  BY Zenon DEF DisconnectRelease
<1>2. services_owned[c] \in Seq(BusNames) /\ connected \subseteq Conns
  BY Zenon DEF IInv, TypeOK
<1>3. n \in BusNames /\ Lists(services_owned[c], n)
  <2>1. Len(services_owned[c]) \in DOMAIN services_owned[c]
    BY <1>1, <1>2, NonEmpty, SMTT(30)
  <2>2. QED BY <1>2, <2>1, NonEmpty, Zenon DEF GetLast, Lists
<1> HIDE DEF n
<1>4. HasOwner(owners[n], c)
  BY <1>3, OwnedGood, Zenon
<1>5. GoodService(Service(n)) /\ Service(n).q = owners[n]
  BY <1>3, ServiceGood, Zenon
<1>6. GoodService(s) /\ \A d : HasOwner(s.q, d) => HasOwner(owners[n], d)
  BY <1>2, <1>4, <1>5, RemoveOwnerProps, Zenon
<1>7. OtherTypes'
  BY NoReplyType, Zenon DEF DisconnectRelease, OtherTypes, IInv, TypeOK
<1> HIDE DEF s
<1>8. QED BY <1>1, <1>3, <1>6, <1>7, ShrinkPreserves, Zenon

\* The transport closes: no more signals reach the connection.
LEMMA InvTransportClosed ==
  ASSUME IInv, NEW c \in Conns, TransportClosed(c)
  PROVE  IInv'
<1>1. TypeOK'
  BY NoReplyType, Zenon DEF TransportClosed, IInv, TypeOK
<1>2. QueueWellFormed' /\ OwnedAgrees' /\ SignalsCoherent'
  BY DEF TransportClosed, IInv, QueueWellFormed, OwnedAgrees, SignalsCoherent,
         NoDuplicates, HasOwner
<1>3. ViewsAgree'
  <2> SUFFICES ASSUME NEW n \in BusNames
               PROVE  /\ told'[n] = {PrimaryOwner(owners[n])} \cap connected'
                      /\ announced[n] = PrimaryOwner(owners[n])
    BY Zenon DEF TransportClosed, ViewsAgree, PrimaryOwner
  <2>1. told'[n] = told[n] \ {c} /\ connected' = connected \ {c}
    BY Zenon DEF TransportClosed
  <2>2. QED BY <2>1, Zenon DEF IInv, ViewsAgree
<1>4. QED BY <1>1, <1>2, <1>3, Zenon DEF IInv

\* The remaining handlers leave queues, lists and signals alone.
LEMMA InvOther ==
  ASSUME IInv,
         \/ \E c \in Conns : HelloOom(c) \/ DisconnectBegin(c) \/ DisconnectEnd(c)
         \/ \E p \in Pids : ProcessExit(p)
         \/ UNCHANGED vars
  PROVE  IInv'
<1>1. ASSUME NEW c \in Conns, HelloOom(c) PROVE IInv'
  <2>1. "NO_MEMORY" \in RequestResults \cup ReleaseResults \cup ErrorResults
    BY Zenon DEF ErrorResults
  <2>2. Answer(c, c, "NO_MEMORY") /\ c \in BusNames
    BY <1>1, Zenon DEF HelloOom, BusNames
  <2>3. OtherTypes'
    BY <1>1, <2>1, <2>2, AnswerType, Zenon
       DEF HelloOom, OtherTypes, IInv, TypeOK
  <2>4. \A d \in Conns : conn_state[d] = "active" => conn_state'[d] = "active"
    BY <1>1, Zenon DEF HelloOom, IInv, TypeOK
  <2>5. QED BY <1>1, <2>3, <2>4, StatePreserves, Zenon DEF HelloOom
<1>2. ASSUME NEW c \in Conns, DisconnectBegin(c) PROVE IInv'
  <2>1. OtherTypes'
    BY <1>2, NoReplyType, Zenon
       DEF DisconnectBegin, OtherTypes, IInv, TypeOK
  <2>2. QED BY <1>2, <2>1, StatePreserves, Zenon DEF DisconnectBegin
<1>3. ASSUME NEW c \in Conns, DisconnectEnd(c) PROVE IInv'
  <2>1. OtherTypes'
    BY <1>3, NoReplyType, Zenon DEF DisconnectEnd, OtherTypes, IInv, TypeOK
  <2>2. \A d \in Conns : conn_state[d] = "active" =>
          conn_state'[d] = "active" \/ services_owned[d] = << >>
    BY <1>3, Zenon DEF DisconnectEnd, IInv, TypeOK
  <2>3. QED BY <1>3, <2>1, <2>2, StatePreserves, Zenon DEF DisconnectEnd
<1>4. ASSUME NEW p \in Pids, ProcessExit(p) PROVE IInv'
  <2>1. OtherTypes'
    BY <1>4, NoReplyType, Zenon DEF ProcessExit, OtherTypes, IInv, TypeOK
  <2>2. QED BY <1>4, <2>1, StatePreserves, Zenon DEF ProcessExit
<1>5. ASSUME UNCHANGED vars PROVE IInv'
  <2>1. OtherTypes'
    BY <1>5, Zenon DEF vars, OtherTypes, IInv, TypeOK
  <2>2. QED BY <1>5, <2>1, StatePreserves, Zenon DEF vars
<1>6. QED BY <1>1, <1>2, <1>3, <1>4, <1>5, Zenon

\* The registry starts empty and in order.
LEMMA InvInit ==
  ASSUME Init
  PROVE  IInv
<1>1. << >> \in Seq(Owner) /\ << >> \in Seq(BusNames)
  BY EmptySeq, Zenon
<1>2. TypeOK
  BY <1>1, NoReplyType, Zenon DEF Init, TypeOK
<1>3. QueueWellFormed
  BY DEF Init, QueueWellFormed, NoDuplicates
<1>4. OwnedAgrees
  <2>1. Len(<< >>) <= MaxServices
    BY LimitAssumption, SMTT(30)
  <2>2. DOMAIN << >> = {}
    OBVIOUS
  <2>3. /\ \A n \in BusNames : owners[n] = << >>
        /\ \A c \in Conns : services_owned[c] = << >>
    BY Zenon DEF Init
  <2>4. QED BY <2>1, <2>2, <2>3, Zenon DEF OwnedAgrees, HasOwner
<1>5. ViewsAgree /\ SignalsCoherent
  BY ConnAssumption, Zenon
     DEF Init, ViewsAgree, SignalsCoherent, PrimaryOwner
<1>6. QED BY <1>2, <1>3, <1>4, <1>5, Zenon DEF IInv

\* Every step preserves the invariant.
LEMMA InvNext ==
  ASSUME IInv, [Next]_vars
  PROVE  IInv'
<1>1. ASSUME NEW c \in Conns, Hello(c) PROVE IInv'
  BY <1>1, InvHello, Zenon
<1>2. ASSUME NEW c \in Conns, TransportClosed(c) PROVE IInv'
  BY <1>2, InvTransportClosed, Zenon
<1>3. ASSUME NEW c \in Conns, DisconnectRelease(c) PROVE IInv'
  BY <1>3, InvDisconnectRelease, Zenon
<1>4. ASSUME NEW c \in Conns, NEW n \in BusNames, NEW u \in BOOLEAN, ReleaseName(c, n, u)
      PROVE  IInv'
  BY <1>4, InvReleaseName, Zenon
<1>5. ASSUME NEW c \in Conns, NEW n \in BusNames, ReleaseNameOom(c, n) PROVE IInv'
  BY <1>5, InvReleaseNameOom, Zenon
<1>6. ASSUME NEW c \in Conns, NEW n \in BusNames, NEW u \in BOOLEAN, NEW f \in Flags,
             RequestName(c, n, u, f)
      PROVE  IInv'
  BY <1>6, InvRequestName, Zenon
<1>7. ASSUME NEW c \in Conns, NEW n \in BusNames, NEW u \in BOOLEAN, NEW f \in Flags,
             RequestNameOom(c, n, u, f)
      PROVE  IInv'
  BY <1>7, InvRequestNameOom, Zenon
<1>8. QED BY <1>1, <1>2, <1>3, <1>4, <1>5, <1>6, <1>7, InvOther, Zenon
             DEF Next

-----------------------------------------------------------------------------
(***************************************************************************)
(* Theorems.                                                               *)
(***************************************************************************)

\* The invariant holds in every reachable state of the registry.
THEOREM RegistryInvariant == Spec => []IInv
<1>1. Init => IInv
  BY InvInit, Zenon
<1>2. IInv /\ [Next]_vars => IInv'
  BY InvNext, Zenon
<1>3. QED BY <1>1, <1>2, PTL DEF Spec

\* The registry's state has its type.
THEOREM TypeCorrect == Spec => []TypeOK
<1>1. IInv => TypeOK
  BY Zenon DEF IInv
<1>2. QED BY <1>1, RegistryInvariant, PTL

\* No connection is twice in a queue, only active connections are queued, and a
\* unique name has no owner but its connection.
THEOREM QueuesCorrect == Spec => []QueueWellFormed
<1>1. IInv => QueueWellFormed
  BY Zenon DEF IInv
<1>2. QED BY <1>1, RegistryInvariant, PTL

\* service->owners and services_owned agree, within the configured limit.
THEOREM OwnershipCorrect == Spec => []OwnedAgrees
<1>1. IInv => OwnedAgrees
  BY Zenon DEF IInv
<1>2. QED BY <1>1, RegistryInvariant, PTL

\* What NameAcquired, NameLost and NameOwnerChanged have told clients is the
\* registry's state.
THEOREM SignalsCorrect == Spec => []ViewsAgree
<1>1. IInv => ViewsAgree
  BY Zenon DEF IInv
<1>2. QED BY <1>1, RegistryInvariant, PTL

\* No signal contradicts an earlier one: a connection loses only names it was told
\* it had, and NameOwnerChanged names the owner it named last as the old one.
THEOREM CoherenceCorrect == Spec => []SignalsCoherent
<1>1. IInv => SignalsCoherent
  BY Zenon DEF IInv
<1>2. QED BY <1>1, RegistryInvariant, PTL

\* The answers to RequestName and ReleaseName are true when they are sent.
THEOREM RepliesCorrect == Spec => ReplyTruthful
<1>1. ASSUME NEW c \in Conns, NEW n \in BusNames, NEW result, Answer(c, n, result),
             result \in {"PRIMARY_OWNER", "ALREADY_OWNER"} =>
               PrimaryOwner(owners'[n]) = c,
             result = "IN_QUEUE" =>
               HasOwner(owners'[n], c) /\ PrimaryOwner(owners'[n]) # c,
             result = "EXISTS" => ~HasOwner(owners'[n], c) /\ owners'[n] # << >>,
             result \in {"RELEASED", "NOT_OWNER"} => ~HasOwner(owners'[n], c)
      PROVE  ReplyTrue'
  BY <1>1, Zenon DEF Answer, ReplyTrue, PrimaryOwner, HasOwner
<1>2. ASSUME reply' = NoReply PROVE ReplyTrue'
  BY <1>2, Zenon DEF NoReply, ReplyTrue
<1>3. ASSUME NEW c \in Conns, NEW n \in BusNames, NEW result \in ErrorResults,
             Answer(c, n, result)
      PROVE  ReplyTrue'
  BY <1>1, <1>3, Zenon DEF ErrorResults
<1>4. ASSUME IInv, NEW c \in Conns, NEW n \in BusNames, NEW u \in BOOLEAN, NEW f \in Flags,
             RequestName(c, n, u, f)
      PROVE  ReplyTrue'
  <2> DEFINE s == ReleaseOldService(Service(n), c, n, u)
             error == RequestError(c, n)
             t == Acquire(s, c, f)
  <2>1. GoodService(s) /\ connected \subseteq Conns
    BY <1>4, ReleaseOldProps, Zenon DEF IInv, TypeOK
  <2>2. IF error = "none"
        THEN /\ Execute(n, t)
             /\ \/ Answer(c, n, AcquireResult(s.q, c, f))
                \/ n \in AutoStarted /\ Answer(c, n, "ACCESS_DENIED")
        ELSE Execute(n, s) /\ Answer(c, n, error)
    BY <1>4, Zenon DEF RequestName
  <2> HIDE DEF s
  <2>3. /\ AcquireResult(s.q, c, f) \in {"PRIMARY_OWNER", "ALREADY_OWNER"} =>
             PrimaryOwner(t.q) = c
        /\ AcquireResult(s.q, c, f) = "IN_QUEUE" =>
             HasOwner(t.q, c) /\ PrimaryOwner(t.q) # c
        /\ AcquireResult(s.q, c, f) = "EXISTS" => ~HasOwner(t.q, c) /\ t.q # << >>
        /\ AcquireResult(s.q, c, f) \in RequestResults
    BY <2>1, AcquireProps, Zenon
  <2>4. error \in ErrorResults \cup {"none"}
    BY RequestErrorProps, Zenon
  <2> HIDE DEF t, error
  <2>5. CASE error # "none"
    BY <1>3, <2>2, <2>4, <2>5, Zenon
  <2>6. CASE error = "none"
    <3>1. owners'[n] = t.q
      BY <1>4, <2>2, <2>6, Zenon DEF Execute, IInv, TypeOK
    <3>2. CASE Answer(c, n, AcquireResult(s.q, c, f))
      <4>1. AcquireResult(s.q, c, f) \notin {"RELEASED", "NOT_OWNER"}
        BY <2>3, Zenon DEF RequestResults
      <4>2. QED BY <1>1, <2>3, <3>1, <3>2, <4>1, Zenon
    <3>3. CASE Answer(c, n, "ACCESS_DENIED")
      BY <1>3, <3>3, Zenon DEF ErrorResults
    <3>4. QED BY <2>2, <2>6, <3>2, <3>3, Zenon
  <2>7. QED BY <2>5, <2>6, Zenon
<1>5. ASSUME IInv, NEW c \in Conns, NEW n \in BusNames, NEW u \in BOOLEAN,
             ReleaseName(c, n, u)
      PROVE  ReplyTrue'
  <2>1. CASE n \in Conns \/ u
    <3>1. PICK result \in {"INVALID_ARGS", "NON_EXISTENT"} : Answer(c, n, result)
      BY <1>5, <2>1, Zenon DEF ReleaseName
    <3>2. QED BY <1>1, <3>1, Zenon
  <2>2. CASE ~(n \in Conns \/ u)
    <3> DEFINE s == IF HasOwner(owners[n], c) THEN RemoveOwner(Service(n), c)
                                              ELSE Service(n)
    <3>1. Execute(n, s) /\ Answer(c, n, ReleaseResult(owners[n], c))
      BY <1>5, <2>2, Zenon DEF ReleaseName
    <3>2. GoodService(Service(n)) /\ Service(n).q = owners[n] /\ connected \subseteq Conns
      BY <1>5, ServiceGood, Zenon DEF IInv, TypeOK
    <3>3. ~HasOwner(s.q, c)
      BY <3>2, RemoveOwnerProps, Zenon
    <3> HIDE DEF s
    <3>4. owners'[n] = s.q
      BY <1>5, <3>1, Zenon DEF Execute, IInv, TypeOK
    <3>5. ReleaseResult(owners[n], c) \in ReleaseResults
      BY Zenon DEF ReleaseResult, ReleaseResults
    <3>6. QED BY <1>1, <3>1, <3>3, <3>4, <3>5, Zenon DEF ReleaseResults
  <2>3. QED BY <2>1, <2>2, Zenon
<1>6. ASSUME IInv, Next PROVE ReplyTrue'
  <2>1. "NO_MEMORY" \in ErrorResults
    BY Zenon DEF ErrorResults
  <2>2. ASSUME NEW c \in Conns,
               Hello(c) \/ TransportClosed(c) \/ DisconnectBegin(c)
                 \/ DisconnectRelease(c) \/ DisconnectEnd(c)
        PROVE  ReplyTrue'
    BY <1>2, <2>2, Zenon
       DEF Hello, TransportClosed, DisconnectBegin, DisconnectRelease,
                      DisconnectEnd
  <2>3. ASSUME NEW c \in Conns, HelloOom(c) PROVE ReplyTrue'
    BY <1>3, <2>1, <2>3, Zenon DEF HelloOom, BusNames
  <2>4. ASSUME NEW c \in Conns, NEW n \in BusNames, ReleaseNameOom(c, n) PROVE ReplyTrue'
    BY <1>3, <2>1, <2>4, Zenon DEF ReleaseNameOom
  <2>5. ASSUME NEW c \in Conns, NEW n \in BusNames, NEW u \in BOOLEAN, NEW f \in Flags,
               RequestNameOom(c, n, u, f)
        PROVE  ReplyTrue'
    BY <1>3, <2>1, <2>5, Zenon DEF RequestNameOom
  <2>6. ASSUME NEW p \in Pids, ProcessExit(p) PROVE ReplyTrue'
    BY <1>2, <2>6, Zenon DEF ProcessExit
  <2>7. QED BY <1>4, <1>5, <1>6, <2>2, <2>3, <2>4, <2>5, <2>6, Zenon DEF Next
<1>7. IInv /\ [Next]_vars => [ReplyTrue']_vars
  BY <1>6, Zenon
<1>8. QED BY <1>7, RegistryInvariant, PTL DEF Spec, ReplyTruthful

-----------------------------------------------------------------------------
\* The clean-up after a dead process takes the first owner out, if anyone.
LEMMA ReleaseOldKept ==
  ASSUME IInv, NEW c \in Conns, NEW n \in BusNames, NEW u \in BOOLEAN,
         u => n \in UniqueNames,
         NEW s, s = ReleaseOldService(Service(n), c, n, u)
  PROVE  /\ AllKept(owners[n], s.q)
         /\ s.q # owners[n] => RecordedPidDead(n)
<1>1. GoodService(Service(n)) /\ Service(n).q = owners[n] /\ Queue(owners[n])
  BY ServiceGood, Zenon
<1>2. AllKept(owners[n], owners[n])
  BY Zenon DEF AllKept
<1>3. CASE u /\ OldPidDead(c, n) /\ Service(n).q # << >>
  <2>1. s = RemovePrimary(Service(n)) /\ connected \subseteq Conns
    BY <1>3, Zenon DEF ReleaseOldService, IInv, TypeOK
  <2>2. s.q = Tail(owners[n])
    BY <1>1, <1>3, <2>1, RemovePrimaryProps, Zenon
  <2>3. AllKept(owners[n], s.q)
    BY <1>1, <1>3, <2>2, TailKept, Zenon
  <2>4. RecordedPidDead(n)
    BY <1>3, UniqueAssumption, Zenon DEF OldPidDead, RecordedPidDead
  <2>5. QED BY <2>3, <2>4, Zenon
<1>4. CASE ~(u /\ OldPidDead(c, n) /\ Service(n).q # << >>)
  <2>1. s.q = owners[n]
    BY <1>1, <1>4, Zenon DEF ReleaseOldService
  <2>2. QED BY <1>2, <2>1, Zenon
<1>5. QED BY <1>3, <1>4, Zenon

\* Giving a name up: nobody is passed, and the next in line follows the first.
LEMMA RemoveOwnerKept ==
  ASSUME IInv, NEW n \in BusNames, NEW c \in Conns, HasOwner(owners[n], c),
         NEW r, r = RemoveOwner(Service(n), c).q
  PROVE  /\ AllKept(owners[n], r)
         /\ PrimaryOwner(r) # PrimaryOwner(owners[n]) =>
              /\ PrimaryOwner(owners[n]) = c
              /\ PrimaryOwner(r) = IF Len(owners[n]) < 2 THEN NoConn ELSE owners[n][2].conn
<1> DEFINE q == owners[n]
<1>1. /\ GoodService(Service(n)) /\ Service(n).q = q /\ Queue(q) /\ q \in Seq(Owner)
      /\ Service(n) \in ServiceType
  BY ServiceGood, Zenon DEF GoodService
<1>2. q # << >> /\ Len(q) \in Nat /\ Len(q) >= 1
  BY <1>1, NonEmpty, SMTT(30) DEF HasOwner
<1>3. connected \subseteq Conns
  BY Zenon DEF IInv, TypeOK
<1>4. CASE PrimaryOwner(q) = c
  <2>1. r = Tail(q)
    BY <1>1, <1>2, <1>3, <1>4, RemovePrimaryProps, Zenon DEF RemoveOwner
  <2>2. AllKept(q, r)
    BY <1>1, <1>2, <2>1, TailKept, Zenon
  <2>3. /\ Len(q) = 1 => Tail(q) = << >>
        /\ Len(q) # 1 => Tail(q) # << >> /\ Tail(q)[1] = q[2]
    BY <1>1, <1>2, QueueTail, Zenon
  <2>4. PrimaryOwner(r) = IF Len(q) < 2 THEN NoConn ELSE q[2].conn
    BY <1>2, <2>1, <2>3, SMTT(30) DEF PrimaryOwner
  <2>5. QED BY <1>4, <2>2, <2>4, Zenon
<1>5. CASE PrimaryOwner(q) # c
  <2> DEFINE i == OwnerLink(q, c)
             p == RemoveLink(q, i)
  <2>1. i \in 1..Len(q) /\ q[i].conn = c
    BY <1>1, LinkProps, Zenon
  <2>2. i # 1
    BY <1>2, <1>5, <2>1, Zenon DEF PrimaryOwner
  <2>3. Queue(p) /\ p # << >> /\ p[1] = q[1] /\ AllKept(q, p)
    <3>1. Queue(q) /\ i \in 1..Len(q) /\ i # 1
      BY <1>1, <2>1, <2>2, Zenon
    <3> HIDE DEF i
    <3>2. QED BY <3>1, QueueRemove, RemoveKept, Zenon
  <2>4. RemoveOwner(Service(n), c) = [Service(n) EXCEPT !.q = p]
    BY <1>1, <1>5, Zenon DEF RemoveOwner
  <2> HIDE DEF i, p
  <2>5. r = p
    BY <1>1, <2>3, <2>4, SetQueue, ZenonT(40) DEF Queue
  <2>6. PrimaryOwner(r) = PrimaryOwner(q)
    BY <1>2, <2>3, <2>5, Zenon DEF PrimaryOwner
  <2>7. QED BY <2>3, <2>5, <2>6, Zenon
<1>6. QED BY <1>4, <1>5, Zenon

-----------------------------------------------------------------------------
(***************************************************************************)
(* NameHandover and QueueOrderStable, for one name and one step.           *)
(***************************************************************************)
Handed(n) ==
  LET q == owners[n]
      old == PrimaryOwner(q)
      new == PrimaryOwner(owners'[n])
      heir == IF Len(q) < 2 THEN NoConn ELSE q[2].conn
  IN  old # new =>
        \/ old = NoConn /\ (new = reply'.conn \/ n = new)
        \/ old # NoConn /\ new = heir /\ old \in {reply'.conn, closing}
        \/ old # NoConn /\ new = reply'.conn /\ q[1].allow_replacement
        \/ RecordedPidDead(n)

Ordered(n) ==
  \A a, b \in Conns :
    Ahead(owners[n], a, b) /\ Ahead(owners'[n], b, a) =>
      reply'.name = n /\ reply'.conn \in {a, b}

\* A step in which at most the requester moves is in order.
LEMMA KeptOrdered ==
  ASSUME IInv, NEW n \in BusNames
  PROVE  /\ AllKept(owners[n], owners'[n]) => Ordered(n)
         /\ \A c : Kept(owners[n], owners'[n], c) /\ reply'.name = n /\ reply'.conn = c =>
              Ordered(n)
<1>1. Queue(owners[n])
  BY ServiceGood, Zenon
<1>2. \A a, b : ~(Ahead(owners[n], a, b) /\ Ahead(owners[n], b, a))
  BY <1>1, AheadOnce, Zenon
<1>3. QED BY <1>2, Zenon DEF AllKept, Kept, Ordered

\* A step that edits one queue.
LEMMA OneQueue ==
  ASSUME IInv, NEW m \in BusNames, NEW r, owners' = [owners EXCEPT ![m] = r],
         Handed(m), Ordered(m)
  PROVE  \A n \in BusNames : Handed(n) /\ Ordered(n)
<1> SUFFICES ASSUME NEW n \in BusNames, n # m PROVE Handed(n) /\ Ordered(n)
  BY Zenon
<1>1. owners'[n] = owners[n]
  BY Zenon DEF IInv, TypeOK
<1>2. Handed(n)
  BY <1>1, Zenon DEF Handed
<1>3. AllKept(owners[n], owners'[n])
  BY <1>1, Zenon DEF AllKept
<1>4. QED BY <1>2, <1>3, KeptOrdered, Zenon

\* What Execute makes of the queue.
LEMMA ExecuteQueue ==
  ASSUME IInv, NEW n \in BusNames, NEW s, Execute(n, s)
  PROVE  owners' = [owners EXCEPT ![n] = s.q] /\ owners'[n] = s.q
  BY Zenon DEF Execute, IInv, TypeOK

\* RequestName.
LEMMA RequestHands ==
  ASSUME IInv, NEW c \in Conns, NEW n \in BusNames, NEW u \in BOOLEAN, NEW f \in Flags,
         RequestName(c, n, u, f)
  PROVE  \A m \in BusNames : Handed(m) /\ Ordered(m)
<1> DEFINE s == ReleaseOldService(Service(n), c, n, u)
           t == Acquire(s, c, f)
<1>1. /\ u => n \in UniqueNames
      /\ Execute(n, t) \/ Execute(n, s)
      /\ reply'.conn = c /\ reply'.name = n
  BY SMTT(30), ZenonT(60) DEF RequestName, Answer
<1>2. GoodService(s)
  BY ReleaseOldProps, Zenon
<1>3. AllKept(owners[n], s.q) /\ (s.q # owners[n] => RecordedPidDead(n))
  BY <1>1, ReleaseOldKept, Zenon
<1>4. owners[n] \in Seq(Owner) /\ connected \subseteq Conns
  BY Zenon DEF IInv, TypeOK
<1> HIDE DEF s
<1>5. /\ Kept(s.q, t.q, c)
      /\ PrimaryOwner(t.q) # PrimaryOwner(s.q) =>
           PrimaryOwner(t.q) = c /\ (s.q # << >> => s.q[1].allow_replacement)
  BY <1>2, <1>4, AcquireKept, Zenon
<1> HIDE DEF t
<1>6. PICK r : owners' = [owners EXCEPT ![n] = r.q] /\ owners'[n] = r.q /\ r \in {s, t}
  BY <1>1, ExecuteQueue, Zenon
<1>7. Kept(owners[n], owners'[n], c)
  <2>1. Kept(owners[n], s.q, c)
    BY <1>3, KeptTwice, Zenon
  <2>2. QED BY <1>5, <1>6, <2>1, KeptTwice, Zenon
<1>8. Ordered(n)
  BY <1>1, <1>7, KeptOrdered, Zenon
<1>9. Handed(n)
  <2>1. CASE s.q # owners[n]
    BY <1>3, <2>1, Zenon DEF Handed
  <2>2. CASE s.q = owners[n]
    <3>1. owners[n] = << >> <=> PrimaryOwner(owners[n]) = NoConn
      BY <1>4, PrimaryProps, ConnAssumption, Zenon
    <3>2. QED BY <1>1, <1>5, <1>6, <2>2, <3>1, Zenon DEF Handed
  <2>3. QED BY <2>1, <2>2, Zenon
<1>10. QED BY <1>6, <1>8, <1>9, OneQueue, Zenon

\* RequestName and ReleaseName out of memory: the first owner stays.
LEMMA CancelHands ==
  ASSUME IInv, NEW c \in Conns, NEW n \in BusNames, NEW u \in BOOLEAN, NEW f \in Flags,
         RequestNameOom(c, n, u, f) \/ ReleaseNameOom(c, n)
  PROVE  \A m \in BusNames : Handed(m) /\ Ordered(m)
<1>1. reply'.conn = c /\ reply'.name = n
  BY DEF RequestNameOom, ReleaseNameOom, Answer
<1>2. Queue(owners[n]) /\ owners[n] \in Seq(Owner)
  BY ServiceGood, Zenon
<1>3. PICK r : /\ owners' = [owners EXCEPT ![n] = r]
               /\ Kept(owners[n], r, c) /\ PrimaryOwner(r) = PrimaryOwner(owners[n])
  <2>1. CASE RequestNameOom(c, n, u, f)
    <3>1. PICK r \in {owners[n], Unhooked(owners[n], c, f)} : Cancel(n, r)
      BY <2>1, Zenon DEF RequestNameOom
    <3>2. Kept(owners[n], r, c) /\ PrimaryOwner(r) = PrimaryOwner(owners[n])
      <4>1. Kept(owners[n], owners[n], c)
        BY Zenon DEF Kept
      <4>2. QED BY <1>2, <3>1, <4>1, UnhookedKept, UnhookedProps, Zenon
    <3>3. QED BY <3>1, <3>2, Zenon DEF Cancel
  <2>2. CASE ReleaseNameOom(c, n)
    <3> DEFINE r == LeaveQueue(owners[n], c)
    <3>1. Cancel(n, r) /\ PrimaryOwner(owners[n]) # c
      BY <2>2, Zenon DEF ReleaseNameOom
    <3>2. owners[n] # << >> => owners[n][1].conn # c
      BY <1>2, <3>1, PrimaryProps, Zenon
    <3>3. /\ owners[n] # << >> => r # << >> /\ r[1] = owners[n][1]
          /\ owners[n] = << >> => r = << >>
      BY <1>2, <3>2, LeaveQueueProps, Zenon
    <3>4. Kept(owners[n], r, c)
      BY <1>2, LeaveQueueKept, KeptTwice, Zenon
    <3> HIDE DEF r
    <3>5. PrimaryOwner(r) = PrimaryOwner(owners[n])
      BY <3>3, Zenon DEF PrimaryOwner
    <3>6. QED BY <3>1, <3>4, <3>5, Zenon DEF Cancel
  <2>3. QED BY <2>1, <2>2, Zenon
<1>4. owners'[n] = r
  BY <1>3, Zenon DEF IInv, TypeOK
<1>5. Ordered(n)
  BY <1>1, <1>3, <1>4, KeptOrdered, Zenon
<1>6. Handed(n)
  BY <1>3, <1>4, Zenon DEF Handed
<1>7. QED BY <1>3, <1>5, <1>6, OneQueue, Zenon

\* A name is given up, by ReleaseName or by the disconnect loop.
LEMMA GivingHands ==
  ASSUME IInv, NEW c \in Conns, NEW n \in BusNames, HasOwner(owners[n], c),
         Execute(n, RemoveOwner(Service(n), c)), c \in {reply'.conn, closing}
  PROVE  \A m \in BusNames : Handed(m) /\ Ordered(m)
<1> DEFINE r == RemoveOwner(Service(n), c).q
<1>1. owners' = [owners EXCEPT ![n] = r] /\ owners'[n] = r
  BY ExecuteQueue, Zenon
<1>2. /\ AllKept(owners[n], r)
      /\ PrimaryOwner(r) # PrimaryOwner(owners[n]) =>
           /\ PrimaryOwner(owners[n]) = c
           /\ PrimaryOwner(r) = IF Len(owners[n]) < 2 THEN NoConn ELSE owners[n][2].conn
  BY RemoveOwnerKept, Zenon
<1> HIDE DEF r
<1>3. Ordered(n)
  BY <1>1, <1>2, KeptOrdered, Zenon
<1>4. Handed(n)
  BY <1>1, <1>2, ConnAssumption, Zenon DEF Handed
<1>5. QED BY <1>1, <1>3, <1>4, OneQueue, Zenon

\* Every step hands names over and keeps queues as the bus promises.
LEMMA StepHands ==
  ASSUME IInv, Next
  PROVE  \A m \in BusNames : Handed(m) /\ Ordered(m)
<1>1. ASSUME UNCHANGED owners PROVE \A m \in BusNames : Handed(m) /\ Ordered(m)
  <2>1. \A m \in BusNames : AllKept(owners[m], owners'[m])
    BY <1>1, Zenon DEF AllKept
  <2>2. QED BY <1>1, <2>1, KeptOrdered, Zenon DEF Handed
<1>2. ASSUME NEW c \in Conns, Hello(c) PROVE \A m \in BusNames : Handed(m) /\ Ordered(m)
  <2> DEFINE s == Ensure(Service(c), c, {})
  <2>1. c \in BusNames /\ connected \subseteq Conns /\ conn_state[c] # "active"
    BY <1>2, Zenon DEF BusNames, IInv, TypeOK, Hello
  <2>2. owners[c] = << >>
    BY <2>1, IncompleteOwnsNothing, Zenon
  <2>3. GoodService(Service(c)) /\ Service(c).q = << >>
    BY <2>1, <2>2, ServiceGood, Zenon
  <2>4. s.q # << >> /\ s.q[1].conn = c
    BY <2>1, <2>3, EnsureProps, SMTT(30)
  <2>5. owners' = [owners EXCEPT ![c] = s.q] /\ owners'[c] = s.q
    BY <1>2, <2>1, ExecuteQueue, Zenon DEF Hello
  <2> HIDE DEF s
  <2>6. Handed(c)
    BY <2>2, <2>4, <2>5, Zenon DEF Handed, PrimaryOwner
  <2>7. Ordered(c)
    BY <2>2, SMTT(30) DEF Ordered, Ahead
  <2>8. QED BY <2>1, <2>5, <2>6, <2>7, OneQueue, Zenon
<1>3. ASSUME NEW c \in Conns, DisconnectRelease(c)
      PROVE  \A m \in BusNames : Handed(m) /\ Ordered(m)
  <2> DEFINE n == GetLast(services_owned[c])
  <2>1. /\ services_owned[c] # << >> /\ Execute(n, RemoveOwner(Service(n), c))
        /\ closing = c /\ services_owned[c] \in Seq(BusNames)
    BY <1>3, Zenon DEF DisconnectRelease, IInv, TypeOK
  <2>2. Len(services_owned[c]) \in DOMAIN services_owned[c]
    BY <2>1, NonEmpty, SMTT(30)
  <2>3. n \in BusNames /\ Lists(services_owned[c], n)
    BY <2>1, <2>2, NonEmpty, Zenon DEF GetLast, Lists
  <2> HIDE DEF n
  <2>4. HasOwner(owners[n], c)
    BY <2>3, OwnedGood, Zenon
  <2>5. QED BY <2>1, <2>3, <2>4, GivingHands, Zenon
<1>4. ASSUME NEW c \in Conns, NEW n \in BusNames, NEW u \in BOOLEAN, ReleaseName(c, n, u)
      PROVE  \A m \in BusNames : Handed(m) /\ Ordered(m)
  <2>1. CASE n \in Conns \/ u
    BY <1>1, <1>4, <2>1, Zenon DEF ReleaseName
  <2>2. CASE ~(n \in Conns \/ u) /\ HasOwner(owners[n], c)
    <3>1. Execute(n, RemoveOwner(Service(n), c)) /\ reply'.conn = c
      BY <1>4, <2>2, SMTT(30) DEF ReleaseName, Answer
    <3>2. QED BY <2>2, <3>1, GivingHands, Zenon
  <2>3. CASE ~(n \in Conns \/ u) /\ ~HasOwner(owners[n], c)
    <3>1. Execute(n, Service(n))
      BY <1>4, <2>3, Zenon DEF ReleaseName
    <3>2. Service(n).q = owners[n] /\ owners \in [BusNames -> Seq(Owner)]
      BY Zenon DEF Service, IInv, TypeOK
    <3>3. UNCHANGED owners
      BY <3>1, <3>2, Zenon DEF Execute
    <3>4. QED BY <1>1, <3>3, Zenon
  <2>4. QED BY <2>1, <2>2, <2>3, Zenon
<1>5. ASSUME NEW c \in Conns,
             HelloOom(c) \/ TransportClosed(c) \/ DisconnectBegin(c) \/ DisconnectEnd(c)
      PROVE  UNCHANGED owners
  BY <1>5, Zenon DEF HelloOom, TransportClosed, DisconnectBegin, DisconnectEnd
<1>6. ASSUME NEW p \in Pids, ProcessExit(p) PROVE UNCHANGED owners
  BY <1>6, Zenon DEF ProcessExit
<1>7. Flags # {}
  BY Zenon DEF Flags
<1>8. QED BY <1>1, <1>2, <1>3, <1>4, <1>5, <1>6, <1>7, RequestHands, CancelHands, Zenon
             DEF Next

\* How names change hands: a free name goes to who asks for it, an owned one to
\* the next in line or, with the owner's consent, to the requester; the clean-up
\* after a dead process is the one exception.
THEOREM HandoversCorrect == Spec => NameHandover
<1>1. IInv /\ [Next]_vars => [\A n \in BusNames : Handed(n)]_vars
  BY StepHands, Zenon
<1>2. QED BY <1>1, RegistryInvariant, PTL DEF Spec, NameHandover, Handed

\* Nobody is overtaken in a queue but by a request of one of the two.
THEOREM QueueOrderCorrect == Spec => QueueOrderStable
<1>1. IInv /\ [Next]_vars => [\A n \in BusNames : Ordered(n)]_vars
  BY StepHands, Zenon
<1>2. QED BY <1>1, RegistryInvariant, PTL DEF Spec, QueueOrderStable, Ordered

-----------------------------------------------------------------------------
(***************************************************************************)
(* BaseServiceLast needs to know where the unique name is in the list.     *)
(***************************************************************************)

\* Hello puts the unique name first, and whatever comes later goes behind it.
BaseFirst == \A c \in Conns : HasOwner(owners[c], c) => services_owned[c][1] = c

\* A transaction on service n keeps unique names first, if the one it may add is
\* its connection's first service.
LEMMA BaseExecute ==
  ASSUME IInv, BaseFirst, NEW n \in BusNames, NEW s, Execute(n, s),
         n \in Conns /\ HasOwner(s.q, n) =>
           services_owned[n] = << >> \/ (HasOwner(owners[n], n) /\ ~s.fresh)
  PROVE  BaseFirst'
<1> SUFFICES ASSUME NEW c \in Conns, HasOwner(owners'[c], c)
             PROVE  services_owned'[c][1] = c
  BY Zenon DEF BaseFirst, HasOwner
<1> DEFINE o == services_owned[c]
           before == HasOwner(owners[n], c)
           after == HasOwner(s.q, c)
<1>1. /\ OwnedList(o) /\ o \in Seq(BusNames) /\ c \in BusNames
      /\ \A m \in BusNames : Lists(o, m) <=> HasOwner(owners[m], c)
  BY OwnedGood, Zenon DEF OwnedList, BusNames
<1>2. services_owned'[c] = IF ~before /\ after THEN Append(o, n)
                           ELSE IF before /\ ~after THEN Disown(o, n)
                           ELSE IF before /\ s.fresh THEN Append(Disown(o, n), n)
                           ELSE o
  BY Zenon DEF Execute, OwnedAfter
<1>3. owners'[n] = s.q /\ \A m \in BusNames : m # n => owners'[m] = owners[m]
  BY Zenon DEF Execute, IInv, TypeOK
<1>4. Len(o) \in Nat /\ DOMAIN o = 1..Len(o)
  BY <1>1, NonEmpty, Zenon
<1>5. CASE c = n
  <2>1. after
    BY <1>3, <1>5, Zenon
  <2>2. CASE o = << >>
    <3>1. ~before
      BY <1>1, <2>2, SMTT(30) DEF Lists
    <3>2. QED BY <1>2, <1>5, <2>1, <2>2, <3>1, SMTT(30)
  <2>3. CASE o # << >>
    <3>1. before /\ ~s.fresh
      BY <1>5, <2>1, <2>3, Zenon
    <3>2. services_owned'[c] = o
      BY <1>2, <2>1, <3>1, Zenon
    <3>3. QED BY <1>5, <3>1, <3>2, Zenon DEF BaseFirst
  <2>4. QED BY <2>2, <2>3, Zenon
<1>6. CASE c # n
  <2>1. HasOwner(owners[c], c)
    BY <1>1, <1>3, <1>6, Zenon
  <2>2. o[1] = c /\ Lists(o, c)
    BY <1>1, <2>1, Zenon DEF BaseFirst
  <2>3. Len(o) >= 1
    BY <1>4, <2>2, SMTT(30) DEF Lists
  <2> HIDE DEF o
  <2>4. Append(o, n)[1] = c
    BY <1>1, <1>4, <2>2, <2>3, AppendProperties, SMTT(30)
  <2>5. CASE before
    <3> DEFINE r == Disown(o, n)
    <3>1. r[1] = c /\ Len(r) >= 1 /\ r \in Seq(BusNames)
      BY <1>1, <1>6, <2>2, <2>5, DisownFirst, DisownProps, Zenon
         DEF OwnedList
    <3> HIDE DEF r
    <3>2. Append(r, n)[1] = c
      BY <3>1, AppendProperties, NonEmpty, SMTT(60)
    <3>3. QED BY <1>2, <2>2, <2>5, <3>1, <3>2, Zenon DEF r
  <2>6. CASE ~before
    BY <1>2, <2>2, <2>4, <2>6, Zenon
  <2>7. QED BY <2>5, <2>6, Zenon
<1>7. QED BY <1>5, <1>6, Zenon

\* No transaction of RequestName, or of one that is cancelled, edits the queue of
\* a unique name.
LEMMA RequestBase ==
  ASSUME IInv, NEW c \in Conns, NEW n \in BusNames, NEW u \in BOOLEAN, NEW f \in Flags,
         RequestName(c, n, u, f)
  PROVE  \E s : Execute(n, s) /\ (n \in Conns => s.q = owners[n] /\ ~s.fresh)
<1> DEFINE s == ReleaseOldService(Service(n), c, n, u)
<1>1. CASE n \in Conns
  <2>1. n \notin UniqueNames /\ RequestError(c, n) # "none"
    BY <1>1, UniqueAssumption, ConnAssumption, Zenon DEF RequestError
  <2>2. Execute(n, s) /\ u = FALSE
    BY <2>1, Zenon DEF RequestName
  <2>3. s.q = owners[n] /\ ~s.fresh
    BY <2>2, Zenon DEF ReleaseOldService, Service
  <2>4. QED BY <2>2, <2>3, Zenon
<1>2. CASE n \notin Conns
  BY <1>2, Zenon DEF RequestName
<1>3. QED BY <1>1, <1>2, Zenon

LEMMA BaseNext ==
  ASSUME IInv, BaseFirst, [Next]_vars
  PROVE  BaseFirst'
<1>1. ASSUME UNCHANGED <<owners, services_owned>> PROVE BaseFirst'
  BY <1>1, Zenon DEF BaseFirst, HasOwner
<1>2. ASSUME NEW c \in Conns, Hello(c) PROVE BaseFirst'
  <2>1. conn_state[c] # "active" /\ c \in BusNames
    BY <1>2, Zenon DEF Hello, BusNames
  <2>2. services_owned[c] = << >>
    BY <2>1, IncompleteOwnsNothing, Zenon
  <2>3. Execute(c, Ensure(Service(c), c, {}))
    BY <1>2, Zenon DEF Hello
  <2>4. QED BY <2>1, <2>2, <2>3, BaseExecute, Zenon
<1>3. ASSUME NEW c \in Conns, DisconnectRelease(c) PROVE BaseFirst'
  <2> DEFINE n == GetLast(services_owned[c])
             s == RemoveOwner(Service(n), c)
  <2>1. /\ services_owned[c] # << >> /\ Execute(n, s)
        /\ services_owned[c] \in Seq(BusNames) /\ connected \subseteq Conns
    BY <1>3, Zenon DEF DisconnectRelease, IInv, TypeOK
  <2>2. Len(services_owned[c]) \in DOMAIN services_owned[c]
    BY <2>1, NonEmpty, SMTT(30)
  <2>3. n \in BusNames /\ Lists(services_owned[c], n)
    BY <2>1, <2>2, NonEmpty, Zenon DEF GetLast, Lists
  <2> HIDE DEF n
  <2>4. HasOwner(owners[n], c)
    BY <2>3, OwnedGood, Zenon
  <2>5. GoodService(Service(n)) /\ Service(n).q = owners[n] /\ Service(n).fresh = FALSE
    BY <2>3, ServiceGood, Zenon
  <2>6. /\ s.fresh = FALSE
        /\ \A d : HasOwner(s.q, d) <=> HasOwner(owners[n], d) /\ d # c
    BY <2>1, <2>4, <2>5, RemoveOwnerProps, Zenon
  <2> HIDE DEF s
  <2>7. QED BY <2>1, <2>3, <2>6, BaseExecute, Zenon
<1>4. ASSUME NEW c \in Conns, NEW n \in BusNames, NEW u \in BOOLEAN, ReleaseName(c, n, u)
      PROVE  BaseFirst'
  <2>1. CASE n \in Conns \/ u
    BY <1>1, <1>4, <2>1, Zenon DEF ReleaseName
  <2>2. CASE ~(n \in Conns \/ u)
    <3>1. PICK s : Execute(n, s)
      BY <1>4, <2>2, Zenon DEF ReleaseName
    <3>2. QED BY <2>2, <3>1, BaseExecute, Zenon
  <2>3. QED BY <2>1, <2>2, Zenon
<1>5. ASSUME NEW c \in Conns, NEW n \in BusNames, NEW u \in BOOLEAN, NEW f \in Flags,
             RequestName(c, n, u, f)
      PROVE  BaseFirst'
  <2>1. PICK s : Execute(n, s) /\ (n \in Conns => s.q = owners[n] /\ ~s.fresh)
    BY <1>5, RequestBase, Zenon
  <2>2. QED BY <2>1, BaseExecute, Zenon
<1>6. ASSUME NEW c \in Conns, NEW n \in BusNames, NEW r, Cancel(n, r), n \in Names,
             Queue(r), PrimaryOwner(r) = PrimaryOwner(owners[n])
      PROVE  BaseFirst'
  <2>1. PICK s : s = [Service(n) EXCEPT !.q = r]
    BY Zenon
  <2>2. Execute(n, s)
    BY <1>6, <2>1, CancelIsExecute, Zenon
  <2>3. n \notin Conns
    BY <1>6, ConnAssumption, Zenon
  <2>4. QED BY <2>2, <2>3, BaseExecute, Zenon
<1>7. ASSUME NEW c \in Conns, NEW n \in BusNames, NEW u \in BOOLEAN, NEW f \in Flags,
             RequestNameOom(c, n, u, f)
      PROVE  BaseFirst'
  <2>1. PICK r \in {owners[n], Unhooked(owners[n], c, f)} : Cancel(n, r)
    BY <1>7, Zenon DEF RequestNameOom
  <2>2. n \in Names
    BY <1>7, RequestErrorProps, Zenon DEF RequestNameOom, BusNames
  <2>3. Queue(owners[n])
    BY ServiceGood, Zenon
  <2>4. Queue(r) /\ PrimaryOwner(r) = PrimaryOwner(owners[n])
    BY <2>1, <2>3, UnhookedProps, Zenon
  <2>5. QED BY <1>6, <2>1, <2>2, <2>4, Zenon
<1>8. ASSUME NEW c \in Conns, NEW n \in BusNames, ReleaseNameOom(c, n) PROVE BaseFirst'
  <2> DEFINE r == LeaveQueue(owners[n], c)
  <2>1. n \in Names /\ Cancel(n, r) /\ PrimaryOwner(owners[n]) # c
    BY <1>8, Zenon DEF ReleaseNameOom
  <2>2. Queue(owners[n]) /\ owners[n] \in Seq(Owner)
    BY ServiceGood, Zenon
  <2>3. owners[n] # << >> => owners[n][1].conn # c
    BY <2>1, <2>2, PrimaryProps, Zenon
  <2>4. /\ Queue(r)
        /\ owners[n] # << >> => r # << >> /\ r[1] = owners[n][1]
        /\ owners[n] = << >> => r = << >>
    BY <2>2, <2>3, LeaveQueueProps, Zenon
  <2> HIDE DEF r
  <2>5. PrimaryOwner(r) = PrimaryOwner(owners[n])
    BY <2>4, Zenon DEF PrimaryOwner
  <2>6. QED BY <1>6, <2>1, <2>4, <2>5, Zenon
<1>9. ASSUME NEW c \in Conns,
             HelloOom(c) \/ TransportClosed(c) \/ DisconnectBegin(c) \/ DisconnectEnd(c)
      PROVE  UNCHANGED <<owners, services_owned>>
  BY <1>9, Zenon DEF HelloOom, TransportClosed, DisconnectBegin, DisconnectEnd
<1>10. ASSUME NEW p \in Pids, ProcessExit(p) PROVE UNCHANGED <<owners, services_owned>>
  BY <1>10, Zenon DEF ProcessExit
<1>11. ASSUME UNCHANGED vars PROVE UNCHANGED <<owners, services_owned>>
  BY <1>11, Zenon DEF vars
<1>12. QED BY <1>1, <1>2, <1>3, <1>4, <1>5, <1>7, <1>8, <1>9, <1>10, <1>11, Zenon
              DEF Next

\* Only the disconnect loop gives a unique name back, when it is the only service
\* left in the list.
LEMMA BaseGiven ==
  ASSUME IInv, BaseFirst, Next, NEW c \in Conns, owners[c] # << >>, owners'[c] = << >>
  PROVE  \A n \in Names : ~HasOwner(owners[n], c)
<1>1. /\ owners \in [BusNames -> Seq(Owner)] /\ c \in BusNames /\ c \notin Names
  BY ConnAssumption, Zenon DEF IInv, TypeOK, BusNames
<1>2. ASSUME NEW n \in BusNames, NEW q, owners' = [owners EXCEPT ![n] = q], n # c \/ q # << >>
      PROVE  FALSE
  BY <1>1, <1>2, Zenon
<1>3. ASSUME NEW d \in Conns, Hello(d) PROVE FALSE
  <2>1. conn_state[d] # "active" /\ d \in BusNames
    BY <1>3, Zenon DEF Hello, BusNames
  <2>2. d # c
    BY <2>1, IncompleteOwnsNothing, Zenon
  <2>3. owners' = [owners EXCEPT ![d] = Ensure(Service(d), d, {}).q]
    BY <1>3, Zenon DEF Hello, Execute
  <2>4. QED BY <1>2, <2>1, <2>2, <2>3, Zenon
<1>4. ASSUME NEW d \in Conns, DisconnectRelease(d)
      PROVE  \A n \in Names : ~HasOwner(owners[n], c)
  <2> DEFINE o == services_owned[d]
             n == GetLast(o)
  <2>1. o # << >> /\ o \in Seq(BusNames) /\ owners' = [owners EXCEPT ![n] = RemoveOwner(Service(n), d).q]
    BY <1>4, Zenon DEF DisconnectRelease, IInv, TypeOK, Execute
  <2>2. Len(o) \in Nat /\ DOMAIN o = 1..Len(o) /\ Len(o) \in DOMAIN o
    BY <2>1, NonEmpty, SMTT(30)
  <2>3. n = o[Len(o)] /\ n \in BusNames /\ Lists(o, n)
    BY <2>1, <2>2, NonEmpty, Zenon DEF GetLast, Lists
  <2> HIDE DEF n
  <2>4. n = c
    BY <1>2, <2>1, <2>3, Zenon
  <2>5. HasOwner(owners[c], d)
    BY <2>3, <2>4, OwnedGood, Zenon
  <2>6. d = c
    BY <1>1, <2>5, QueuedActive, Zenon
  <2>7. o[1] = c /\ o[Len(o)] = c
    BY <2>3, <2>4, <2>5, <2>6, Zenon DEF BaseFirst
  <2>8. Len(o) = 1
    <3>1. \A i, j \in DOMAIN o : o[i] = o[j] => i = j
      BY OwnedGood, Zenon DEF OwnedList
    <3>2. 1 \in DOMAIN o
      BY <2>2, SMTT(30)
    <3>3. QED BY <2>2, <2>7, <3>1, <3>2, Zenon
  <2>9. \A m \in BusNames : Lists(o, m) => m = c
    BY <2>2, <2>7, <2>8, SMTT(30) DEF Lists
  <2>10. \A m \in Names : m \in BusNames /\ m # c
    BY <1>1, Zenon DEF BusNames
  <2>11. QED BY <2>6, <2>9, <2>10, OwnedGood, Zenon
<1>5. ASSUME NEW d \in Conns, NEW n \in BusNames, NEW u \in BOOLEAN, ReleaseName(d, n, u)
      PROVE  FALSE
  <2>1. CASE n \in Conns \/ u
    BY <1>5, <2>1, Zenon DEF ReleaseName
  <2>2. CASE ~(n \in Conns \/ u)
    <3>1. PICK s : Execute(n, s)
      BY <1>5, <2>2, Zenon DEF ReleaseName
    <3>2. QED BY <1>2, <2>2, <3>1, Zenon DEF Execute
  <2>3. QED BY <2>1, <2>2, Zenon
<1>6. ASSUME NEW d \in Conns, NEW n \in BusNames, NEW u \in BOOLEAN, NEW f \in Flags,
             RequestName(d, n, u, f)
      PROVE  FALSE
  <2>1. PICK s : Execute(n, s) /\ (n \in Conns => s.q = owners[n] /\ ~s.fresh)
    BY <1>6, RequestBase, Zenon
  <2>2. QED BY <1>2, <2>1, Zenon DEF Execute
<1>7. ASSUME NEW d \in Conns, NEW n \in BusNames, NEW u \in BOOLEAN, NEW f \in Flags,
             RequestNameOom(d, n, u, f)
      PROVE  FALSE
  <2>1. PICK r : Cancel(n, r)
    BY <1>7, Zenon DEF RequestNameOom
  <2>2. n \in Names
    BY <1>7, RequestErrorProps, Zenon DEF RequestNameOom, BusNames
  <2>3. QED BY <1>1, <1>2, <2>1, <2>2, Zenon DEF Cancel
<1>8. ASSUME NEW d \in Conns, NEW n \in BusNames, ReleaseNameOom(d, n) PROVE FALSE
  <2>1. n \in Names /\ Cancel(n, LeaveQueue(owners[n], d))
    BY <1>8, Zenon DEF ReleaseNameOom
  <2>2. QED BY <1>1, <1>2, <2>1, Zenon DEF Cancel
<1>9. ASSUME NEW d \in Conns,
             HelloOom(d) \/ TransportClosed(d) \/ DisconnectBegin(d) \/ DisconnectEnd(d)
      PROVE  FALSE
  BY <1>9, Zenon
     DEF HelloOom, TransportClosed, DisconnectBegin, DisconnectEnd
<1>10. ASSUME NEW p \in Pids, ProcessExit(p) PROVE FALSE
  BY <1>10, Zenon DEF ProcessExit
<1>11. QED BY <1>3, <1>4, <1>5, <1>6, <1>7, <1>8, <1>9, <1>10, Zenon DEF Next

\* A connection that is torn down gives its unique name back last.
THEOREM BaseNamesCorrect == Spec => BaseServiceLast
<1> DEFINE Given == \A c \in Conns : owners[c] # << >> /\ owners'[c] = << >> =>
                      \A n \in Names : ~HasOwner(owners[n], c)
<1>1. Init => BaseFirst
  BY DEF Init, BaseFirst, HasOwner, BusNames
<1>2. IInv /\ BaseFirst /\ [Next]_vars => BaseFirst'
  BY BaseNext, Zenon
<1>3. IInv /\ BaseFirst /\ [Next]_vars => [Given]_vars
  BY BaseGiven, Zenon
<1>4. QED BY <1>1, <1>2, <1>3, RegistryInvariant, PTL DEF Spec, BaseServiceLast
=============================================================================
