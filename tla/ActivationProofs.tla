-------------------------- MODULE ActivationProofs --------------------------
(***************************************************************************)
(* The pending activations are counted right and every request is answered *)
(* or delivered once, for any number of connections, names, requests and   *)
(* commands and any limit.                                                 *)
(***************************************************************************)
EXTENDS Activation, FiniteSetTheorems, TLAPS

\* The requests that wait are finite in number, and counted.
LEMMA WaitingFinite ==
  ASSUME ActivationsSound, NEW R \in SUBSET waiting
  PROVE  IsFiniteSet(waiting) /\ IsFiniteSet(R) /\ Cardinality(R) \in Nat
<1>1. waiting \in SUBSET Reqs /\ R \in SUBSET Reqs
  BY Zenon DEF ActivationsSound, TypeOK
<1> QED
  BY <1>1, ActivationAssumption, FS_Subset, FS_CardinalityType, Zenon

\* The part of ActivationsSound about the entries, the count and the children.
Counted ==
  /\ waiting \subseteq made
  /\ n_pending \in Nat
  /\ sitter \in [Names -> SitterStates]
  /\ n_pending = Cardinality(waiting) /\ n_pending <= MaxPending
  /\ \A n \in Names : sitter[n] # "none" => Activating(n)
  /\ \A m, n \in Names :
       sitter[m] # "none" /\ sitter[n] # "none" /\ ExecOf[m] = ExecOf[n] => m = n

\* A new entry keeps the count and the children right: a child is started only
\* for a command that nobody waits for.
LEMMA WaitCounted ==
  ASSUME ActivationsSound, NEW r \in Reqs, Request(r), MayWait(r), NEW s \in SitterStates,
         s = sitter[NameOf[r]] \/ MustSpawn(NameOf[r]), Wait(r, s)
  PROVE  Counted'
<1> DEFINE n == NameOf[r]
<1>1. n \in Names /\ r \notin waiting /\ waiting' = waiting \cup {r} /\ made' = made \cup {r}
  BY ActivationAssumption, Zenon DEF ActivationsSound, TypeOK, Request, Wait
<1>2. waiting' \subseteq made'
  BY <1>1, Zenon DEF ActivationsSound, TypeOK
<1>3. n_pending' = Cardinality(waiting')
  <2>1. IsFiniteSet(waiting)
    BY WaitingFinite, Zenon
  <2>2. Cardinality(waiting \cup {r}) = Cardinality(waiting) + 1
    BY <1>1, <2>1, FS_AddElement, Zenon
  <2> QED
    BY <1>1, <2>2, Zenon DEF ActivationsSound, Wait
<1>4. n_pending' \in Nat /\ n_pending' <= MaxPending
  BY ActivationAssumption DEF ActivationsSound, TypeOK, Wait, MayWait
<1>5. /\ sitter' \in [Names -> SitterStates] /\ sitter'[n] = s
      /\ \A m \in Names \ {n} : sitter'[m] = sitter[m]
  BY <1>1, Zenon DEF ActivationsSound, TypeOK, Wait
<1>6. \A m \in Names : sitter[m] # "none" => Activating(m)
  BY Zenon DEF ActivationsSound
<1>7. \A m \in Names : sitter'[m] # "none" => Activating(m)'
  <2> SUFFICES ASSUME NEW m \in Names, sitter'[m] # "none"
               PROVE  \E q \in waiting' : NameOf[q] = m
    BY Zenon DEF Activating, Entries
  <2>1. CASE m = n
    BY <1>1, <2>1, Zenon
  <2>2. CASE m # n
    BY <1>1, <1>5, <1>6, <2>2, Zenon DEF Activating, Entries
  <2> QED
    BY <2>1, <2>2, Zenon
<1>8. ASSUME NEW m \in Names, NEW k \in Names,
             sitter'[m] # "none", sitter'[k] # "none", ExecOf[m] = ExecOf[k]
      PROVE  m = k
  <2>1. CASE s = sitter[n]
    BY <1>5, <1>8, <2>1, Zenon DEF ActivationsSound
  <2>2. CASE MustSpawn(n)
    <3>1. \A l \in Names \ {n} : ExecOf[l] = ExecOf[n] => sitter[l] = "none"
      BY <1>6, <2>2, Zenon DEF MustSpawn, Activated
    <3> QED
      BY <1>5, <1>8, <3>1 DEF ActivationsSound
  <2> QED
    BY <2>1, <2>2, Zenon
<1> QED
  BY <1>2, <1>3, <1>4, <1>5, <1>7, <1>8, Zenon DEF Counted

\* Freeing the pending activations of some names takes off the count as many as
\* they had entries, and leaves no child behind.
LEMMA DropCounted ==
  ASSUME ActivationsSound, NEW N \in SUBSET Names, Drop(N), made \subseteq made'
  PROVE  Counted'
<1> DEFINE R == {r \in waiting : NameOf[r] \in N}
<1>1. waiting' = waiting \ R /\ R \in SUBSET waiting
  BY Zenon DEF Drop
<1>2. IsFiniteSet(waiting) /\ IsFiniteSet(R) /\ Cardinality(R) \in Nat
  BY <1>1, WaitingFinite, Zenon
<1>3. waiting \ R \in SUBSET waiting
  BY Zenon
<1>4. IsFiniteSet(waiting \ R) /\ Cardinality(waiting \ R) \in Nat
  BY <1>3, WaitingFinite, Zenon
<1>5. Cardinality((waiting \ R) \cup R)
        = Cardinality(waiting \ R) + Cardinality(R) - Cardinality((waiting \ R) \cap R)
  BY <1>2, <1>4, FS_Union, Zenon
<1>6. (waiting \ R) \cup R = waiting /\ (waiting \ R) \cap R = {}
  BY Zenon
<1>7. Cardinality(waiting) = Cardinality(waiting \ R) + Cardinality(R)
  <2>1. Cardinality({}) = 0
    BY FS_EmptySet, Zenon
  <2>2. Cardinality(waiting) = Cardinality(waiting \ R) + Cardinality(R) - 0
    BY <1>5, <1>6, <2>1, Zenon
  <2> QED
    BY <1>2, <1>4, <2>2
<1>8. n_pending = Cardinality(waiting) /\ n_pending' = n_pending - Cardinality(R)
  BY Zenon DEF ActivationsSound, Drop
<1>9. /\ n_pending' = Cardinality(waiting') /\ n_pending' \in Nat
      /\ n_pending' <= MaxPending /\ waiting' \subseteq made'
  <2>1. n_pending <= MaxPending /\ n_pending \in Nat /\ MaxPending \in Nat /\ waiting \subseteq made
    BY ActivationAssumption, Zenon DEF ActivationsSound, TypeOK
  <2> HIDE DEF R
  <2> QED
    BY <1>1, <1>2, <1>4, <1>7, <1>8, <2>1
<1>10. /\ sitter' \in [Names -> SitterStates]
       /\ \A n \in Names : sitter'[n] # "none" => n \notin N /\ sitter'[n] = sitter[n]
  BY Zenon DEF ActivationsSound, TypeOK, Drop, SitterStates
<1>11. \A n \in Names : sitter'[n] # "none" => Activating(n)'
  <2> SUFFICES ASSUME NEW n \in Names, sitter'[n] # "none"
               PROVE  \E q \in waiting' : NameOf[q] = n
    BY Zenon DEF Activating, Entries
  <2>1. n \notin N /\ Activating(n)
    BY <1>10, Zenon DEF ActivationsSound
  <2> QED
    BY <1>1, <2>1, Zenon DEF Activating, Entries
<1>12. \A m, n \in Names :
         sitter'[m] # "none" /\ sitter'[n] # "none" /\ ExecOf[m] = ExecOf[n] => m = n
  BY <1>10, Zenon DEF ActivationsSound
<1> QED
  BY <1>9, <1>10, <1>11, <1>12, Zenon DEF Counted

-----------------------------------------------------------------------------
(***************************************************************************)
(* The inductive invariant: the two properties, that a request nobody made *)
(* has no outcome, and that one which waits for a name that has an owner   *)
(* by now was answered when the name was created.                          *)
(***************************************************************************)
Inv ==
  /\ ActivationsSound
  /\ AnsweredOnce
  /\ \A r \in Reqs \ made : outcome[r] = 0
  /\ \A r \in waiting \ Automatic :
       owner[NameOf[r]] # NoConn /\ ConnOf[r] \in connected => outcome[r] > 0

\* The invariant holds when the bus starts.
LEMMA InvInit == Init => Inv
<1> SUFFICES ASSUME Init PROVE Inv
  BY Zenon
<1>1. TypeOK
  <2>1. connected \subseteq Conns /\ made \subseteq Reqs /\ waiting \subseteq made
        /\ n_pending \in Nat /\ forgotten \subseteq made /\ troubled \subseteq made
    BY Zenon DEF Init
  <2>2. owner \in [Names -> Conns \cup {NoConn}]
    BY Zenon DEF Init
  <2>3. sitter \in [Names -> SitterStates]
    BY Zenon DEF Init, SitterStates
  <2>4. outcome \in [Reqs -> 0..2]
    BY DEF Init
  <2> QED
    BY <2>1, <2>2, <2>3, <2>4, Zenon DEF TypeOK
<1>2. n_pending = Cardinality(waiting) /\ n_pending <= MaxPending
  BY ActivationAssumption, FS_EmptySet DEF Init
<1>3. \A n \in Names : sitter[n] = "none"
  BY Zenon DEF Init
<1>4. AnsweredOnce
  BY DEF Init, AnsweredOnce
<1>5. \A r \in Reqs \ made : outcome[r] = 0
  BY Zenon DEF Init
<1>6. \A r \in waiting \ Automatic :
        owner[NameOf[r]] # NoConn /\ ConnOf[r] \in connected => outcome[r] > 0
  BY Zenon DEF Init
<1>7. ActivationsSound
  BY <1>1, <1>2, <1>3, Zenon DEF ActivationsSound
<1> QED
  BY <1>4, <1>5, <1>6, <1>7, Zenon DEF Inv

\* What an answer or a delivery does to the outcome of a request.
LEMMA Concluded ==
  ASSUME TypeOK, NEW R, Conclude(R)
  PROVE  /\ outcome' \in [Reqs -> 0..2]
         /\ \A r \in Reqs :
              /\ r \notin R => outcome'[r] = outcome[r]
              /\ outcome'[r] <= outcome[r] + 1 /\ outcome'[r] >= outcome[r]
              /\ r \in R /\ ConnOf[r] \in connected => outcome'[r] > 0
<1>1. outcome' = [r \in Reqs |-> IF r \in R /\ ConnOf[r] \in connected /\ outcome[r] < 2
                                 THEN outcome[r] + 1 ELSE outcome[r]]
  BY Zenon DEF Conclude
<1>2. \A r \in Reqs : outcome[r] \in 0..2
  BY Zenon DEF TypeOK
<1>3. ASSUME NEW r \in Reqs
      PROVE  /\ outcome'[r] \in 0..2
             /\ r \notin R => outcome'[r] = outcome[r]
             /\ outcome'[r] <= outcome[r] + 1 /\ outcome'[r] >= outcome[r]
             /\ r \in R /\ ConnOf[r] \in connected => outcome'[r] > 0
  BY <1>1, <1>2
<1>4. outcome' \in [Reqs -> 0..2]
  BY <1>1, <1>3, Zenon
<1> QED
  BY <1>3, <1>4, Zenon

\* A sound state is one with its types and its counts.
LEMMA SoundParts ==
  /\ ActivationsSound => Counted
  /\ TypeOK' /\ Counted' => ActivationsSound'
  BY Zenon DEF ActivationsSound, Counted, TypeOK

\* What is said of the outcomes, the answers to requests and the waiting ones.
Answers ==
  /\ AnsweredOnce
  /\ \A r \in Reqs \ made : outcome[r] = 0
  /\ \A r \in waiting \ Automatic :
       owner[NameOf[r]] # NoConn /\ ConnOf[r] \in connected => outcome[r] > 0

\* A request that is made keeps the invariant, whatever becomes of it.
LEMMA RequestKeeps ==
  ASSUME Inv, NEW r \in Reqs,
         \/ ActivateAnswered(r) \/ ActivateJoin(r) \/ ActivateSpawn(r)
         \/ ActivateSpawnFails(r) \/ ActivateJoinOom(r) \/ ActivateGoneOom(r)
  PROVE  Inv'
<1>1. /\ ActivationsSound /\ TypeOK /\ Answers /\ outcome[r] = 0 /\ r \notin waiting
      /\ r \notin forgotten /\ r \notin troubled /\ NameOf[r] \in Names /\ Request(r)
  <2>1. Request(r)
    BY Zenon DEF ActivateAnswered, ActivateJoin, ActivateSpawn, ActivateSpawnFails,
           ActivateJoinOom, ActivateGoneOom
  <2> QED
    BY <2>1, ActivationAssumption, Zenon DEF Inv, Answers, ActivationsSound, TypeOK, Request
<1>2. /\ connected' = connected /\ owner' = owner /\ made' = made \cup {r} /\ r \notin made
      /\ r \in Automatic => owner[NameOf[r]] = NoConn
  BY <1>1, Zenon DEF Request
<1>3. ASSUME Conclude({r})
      PROVE  outcome' \in [Reqs -> 0..2]
  BY <1>1, <1>3, Concluded, Zenon
<1>4. ASSUME Counted', outcome' \in [Reqs -> 0..2], forgotten' \subseteq made', troubled' \subseteq made'
      PROVE  ActivationsSound'
  <2>1. TypeOK'
    BY <1>1, <1>2, <1>4, Zenon DEF TypeOK, Counted
  <2> QED
    BY <1>4, <2>1, SoundParts, Zenon
<1>5. CASE ActivateAnswered(r)
  <2>1. UNCHANGED <<waiting, n_pending, sitter, forgotten, troubled>> /\ Conclude({r})
    BY <1>5, Zenon DEF ActivateAnswered
  <2>2. Counted'
    BY <1>1, <1>2, <2>1, SoundParts, Zenon DEF Counted, Activating, Entries
  <2>3. outcome' \in [Reqs -> 0..2]
    BY <1>3, <2>1, Zenon
  <2>4. ActivationsSound'
    BY <1>1, <1>2, <1>4, <2>1, <2>2, <2>3, Zenon DEF TypeOK
  <2>5. /\ \A q \in Reqs \ {r} : outcome'[q] = outcome[q]
        /\ outcome'[r] <= 1 /\ (ConnOf[r] \in connected => outcome'[r] > 0)
    BY <1>1, <2>1, Concluded
  <2>6. AnsweredOnce'
    BY <1>1, <1>2, <2>1, <2>5, Zenon DEF AnsweredOnce, Answers, TypeOK
  <2> QED
    BY <1>1, <1>2, <2>1, <2>4, <2>5, <2>6, Zenon DEF Inv, Answers, TypeOK
<1>6. CASE ActivateJoin(r) \/ ActivateSpawn(r) \/ ActivateGoneOom(r)
  <2>1. PICK s \in SitterStates : Wait(r, s) /\ (s = sitter[NameOf[r]] \/ MustSpawn(NameOf[r]))
    <3>1. sitter[NameOf[r]] \in SitterStates /\ {"none", "running"} \subseteq SitterStates
      BY <1>1, Zenon DEF TypeOK, SitterStates
    <3> QED
      BY <1>6, <3>1, Zenon DEF ActivateJoin, ActivateSpawn, ActivateGoneOom
  <2>2. MayWait(r) /\ UNCHANGED <<outcome, forgotten, troubled>>
    BY <1>6, Zenon DEF ActivateJoin, ActivateSpawn, ActivateGoneOom
  <2>3. Counted'
    BY <1>1, <2>1, <2>2, WaitCounted, Zenon
  <2>4. waiting' = waiting \cup {r}
    BY <2>1, Zenon DEF Wait
  <2>5. ActivationsSound'
    BY <1>1, <1>2, <1>4, <2>2, <2>3, Zenon DEF TypeOK
  <2>6. AnsweredOnce'
    <3>1. ASSUME NEW q \in Reqs \ troubled
          PROVE  outcome[q] <= (IF q \in waiting' THEN 0 ELSE 1)
      BY <1>1, <2>4 DEF AnsweredOnce, Answers
    <3>2. ASSUME NEW q \in made', ConnOf[q] \in connected, q \notin waiting' \cup forgotten
          PROVE  outcome[q] > 0
      BY <1>1, <1>2, <2>4, <3>2, Zenon DEF AnsweredOnce, Answers
    <3> QED
      BY <1>2, <2>2, <3>1, <3>2, Zenon DEF AnsweredOnce
  <2>7. r \notin Automatic => owner[NameOf[r]] = NoConn
    BY <2>2, Zenon DEF MayWait
  <2> QED
    BY <1>1, <1>2, <2>2, <2>4, <2>5, <2>6, <2>7, Zenon DEF Inv, Answers
<1>7. CASE ActivateSpawnFails(r)
  <2>1. /\ Wait(r, "none") /\ MustSpawn(NameOf[r]) /\ MayWait(r) /\ Conclude({r})
        /\ troubled' = troubled \cup {r} /\ forgotten' = forgotten
    BY <1>7, Zenon DEF ActivateSpawnFails
  <2>2. Counted'
    BY <1>1, <2>1, WaitCounted, Zenon DEF SitterStates
  <2>3. waiting' = waiting \cup {r}
    BY <2>1, Zenon DEF Wait
  <2>4. outcome' \in [Reqs -> 0..2]
    BY <1>3, <2>1, Zenon
  <2>5. ActivationsSound'
    BY <1>1, <1>2, <1>4, <2>1, <2>2, <2>4, Zenon DEF TypeOK
  <2>6. \A q \in Reqs : q \notin {r} => outcome'[q] = outcome[q]
    BY <1>1, <2>1, Concluded, Zenon
  <2>7. AnsweredOnce'
    BY <1>1, <1>2, <2>1, <2>3, <2>6, Zenon DEF AnsweredOnce, Answers, TypeOK
  <2>8. owner[NameOf[r]] = NoConn
    BY <1>2, <2>1, Zenon DEF MayWait
  <2> QED
    BY <1>1, <1>2, <2>1, <2>3, <2>5, <2>6, <2>7, <2>8, Zenon DEF Inv, Answers, TypeOK
<1>8. CASE ActivateJoinOom(r)
  <2>1. /\ Drop({NameOf[r]}) /\ Conclude({r}) /\ troubled' = troubled
        /\ forgotten' = forgotten \cup Entries(NameOf[r])
    BY <1>8, Zenon DEF ActivateJoinOom
  <2>2. Counted'
    BY <1>1, <1>2, <2>1, DropCounted, Zenon
  <2>3. waiting' = {q \in waiting : NameOf[q] # NameOf[r]}
    BY <2>1, Zenon DEF Drop
  <2>4. outcome' \in [Reqs -> 0..2]
    BY <1>3, <2>1, Zenon
  <2>5. ActivationsSound'
    BY <1>1, <1>2, <1>4, <2>1, <2>2, <2>4, Zenon DEF TypeOK, Entries
  <2>6. /\ \A q \in Reqs \ {r} : outcome'[q] = outcome[q]
        /\ outcome'[r] <= 1 /\ (ConnOf[r] \in connected => outcome'[r] > 0)
    BY <1>1, <2>1, Concluded
  <2>7. AnsweredOnce'
    <3>1. ASSUME NEW q \in Reqs \ troubled
          PROVE  outcome'[q] <= (IF q \in waiting' THEN 0 ELSE 1)
      BY <1>1, <2>3, <2>6 DEF AnsweredOnce, Answers, TypeOK
    <3>2. ASSUME NEW q \in made', ConnOf[q] \in connected, q \notin waiting' \cup forgotten'
          PROVE  outcome'[q] > 0
      BY <1>1, <1>2, <2>1, <2>3, <2>6, <3>2, Zenon
         DEF AnsweredOnce, Answers, TypeOK, Entries
    <3> QED
      BY <1>2, <2>1, <3>1, <3>2, Zenon DEF AnsweredOnce
  <2> QED
    BY <1>1, <1>2, <2>3, <2>5, <2>6, <2>7, Zenon DEF Inv, Answers, TypeOK
<1> QED
  BY <1>5, <1>6, <1>7, <1>8, Zenon

\* The name appears: every entry is answered or delivered, but for those that were
\* answered when an earlier owner of the name appeared.
LEMMA AcquireKeeps ==
  ASSUME Inv, NEW c \in Conns, NEW n \in Names,
         AcquireName(c, n) \/ AcquireNameRefused(c, n)
  PROVE  Inv'
<1>1. ActivationsSound /\ TypeOK /\ Answers /\ NoConn \notin Conns
  BY ActivationAssumption, Zenon DEF Inv, Answers, ActivationsSound
<1>2. /\ connected' = connected /\ made' = made /\ forgotten' = forgotten
      /\ owner' = [owner EXCEPT ![n] = IF @ = NoConn THEN c ELSE @]
  BY Zenon DEF AcquireName, AcquireNameRefused
<1>3. /\ owner' \in [Names -> Conns \cup {NoConn}]
      /\ \A m \in Names : m # n => owner'[m] = owner[m]
  BY <1>1, <1>2, Zenon DEF TypeOK
<1>4. \A r \in waiting : r \in Reqs /\ NameOf[r] \in Names /\ r \in made
  BY <1>1, ActivationAssumption, Zenon DEF TypeOK
<1>5. CASE AcquireName(c, n)
  <2> DEFINE R == Created(n) \cup (Entries(n) \cap Automatic)
  <2>1. Conclude(R) /\ Drop({n}) /\ troubled' = troubled
    BY <1>5, Zenon DEF AcquireName
  <2>2. R \subseteq Entries(n)
    BY Zenon DEF Created
  <2>3. Counted'
    BY <1>1, <1>2, <2>1, DropCounted, Zenon
  <2>4. /\ outcome' \in [Reqs -> 0..2]
        /\ \A r \in Reqs : /\ r \notin R => outcome'[r] = outcome[r]
                           /\ outcome'[r] <= outcome[r] + 1 /\ outcome'[r] >= outcome[r]
                           /\ r \in R /\ ConnOf[r] \in connected => outcome'[r] > 0
    <3> HIDE DEF R
    <3> QED
      BY <1>1, <2>1, Concluded, Zenon
  <2>5. ActivationsSound'
    <3>1. TypeOK'
      BY <1>1, <1>2, <1>3, <2>1, <2>3, <2>4, Zenon DEF TypeOK, Counted
    <3> QED
      BY <2>3, <3>1, SoundParts, Zenon
  <2>6. waiting' = waiting \ Entries(n)
    BY <2>1, Zenon DEF Drop, Entries
  <2>7. ASSUME NEW r \in Entries(n), ConnOf[r] \in connected
        PROVE  outcome'[r] > 0
    <3>1. r \in waiting /\ r \in Reqs /\ NameOf[r] = n /\ outcome[r] \in 0..2 /\ outcome'[r] \in 0..2
      BY <1>1, <1>4, <2>4, Zenon DEF Entries, TypeOK
    <3>2. CASE r \in R
      BY <2>4, <2>7, <3>1, <3>2, Zenon
    <3>3. CASE r \notin R
      <4>1. r \notin Automatic /\ owner[n] # NoConn
        BY <3>3, Zenon DEF Created
      <4>2. outcome[r] > 0
        BY <1>1, <2>7, <3>1, <4>1, Zenon DEF Answers
      <4> QED
        BY <2>4, <3>1, <3>3, <4>2, Zenon
    <3> QED
      BY <3>2, <3>3, Zenon
  <2> HIDE DEF R
  <2>8. ASSUME NEW r \in Reqs \ troubled
        PROVE  outcome'[r] <= (IF r \in waiting' THEN 0 ELSE 1)
    <3>1. outcome[r] <= (IF r \in waiting THEN 0 ELSE 1) /\ outcome[r] \in 0..2 /\ outcome'[r] \in 0..2
      BY <1>1, <2>4, Zenon DEF Answers, AnsweredOnce, TypeOK
    <3>2. CASE r \in Entries(n)
      <4>1. r \in waiting /\ r \notin waiting' /\ outcome'[r] <= outcome[r] + 1
        BY <2>4, <2>6, <3>2, Zenon DEF Entries
      <4> QED
        BY <3>1, <4>1
    <3>3. CASE r \notin Entries(n)
      <4>1. outcome'[r] = outcome[r] /\ (r \in waiting' <=> r \in waiting)
        BY <2>2, <2>4, <2>6, <3>3, Zenon
      <4> QED
        BY <3>1, <4>1, Zenon
    <3> QED
      BY <3>2, <3>3, Zenon
  <2>9. ASSUME NEW r \in made, ConnOf[r] \in connected, r \notin waiting' \cup forgotten
        PROVE  outcome'[r] > 0
    <3>1. CASE r \in Entries(n)
      BY <2>7, <2>9, <3>1, Zenon
    <3>2. CASE r \notin Entries(n)
      BY <1>1, <2>2, <2>4, <2>6, <2>9, <3>2, Zenon DEF Answers, AnsweredOnce, TypeOK
    <3> QED
      BY <3>1, <3>2, Zenon
  <2>10. AnsweredOnce'
    BY <1>2, <2>1, <2>8, <2>9, Zenon DEF AnsweredOnce
  <2>11. ASSUME NEW r \in Reqs \ made PROVE outcome'[r] = 0
    BY <1>1, <1>4, <2>2, <2>4, Zenon DEF Answers, Entries
  <2>12. ASSUME NEW r \in waiting' \ Automatic, owner'[NameOf[r]] # NoConn, ConnOf[r] \in connected
         PROVE  outcome'[r] > 0
    <3>1. r \in waiting /\ NameOf[r] # n /\ r \in Reqs /\ NameOf[r] \in Names /\ r \notin R
      BY <1>4, <2>2, <2>6, Zenon DEF Entries
    <3> QED
      BY <1>1, <1>3, <2>4, <2>12, <3>1, Zenon DEF Answers
  <2> QED
    BY <1>2, <2>5, <2>10, <2>11, <2>12, Zenon DEF Inv
<1>6. CASE AcquireNameRefused(c, n)
  <2>1. PICK before \in SUBSET (Entries(n) \cap Automatic) : Conclude(Created(n) \cup before)
    BY <1>6, Zenon DEF AcquireNameRefused
  <2> DEFINE R == Created(n) \cup before
  <2>2. UNCHANGED <<waiting, n_pending, sitter>> /\ troubled' = troubled \cup Entries(n)
    BY <1>6, Zenon DEF AcquireNameRefused
  <2>3. R \subseteq Entries(n)
    BY Zenon DEF Created
  <2>4. /\ outcome' \in [Reqs -> 0..2]
        /\ \A r \in Reqs : /\ r \notin R => outcome'[r] = outcome[r]
                           /\ outcome'[r] <= outcome[r] + 1 /\ outcome'[r] >= outcome[r]
                           /\ r \in R /\ ConnOf[r] \in connected => outcome'[r] > 0
    <3>1. Conclude(R)
      BY <2>1, Zenon
    <3> HIDE DEF R
    <3> QED
      BY <1>1, <3>1, Concluded, Zenon
  <2>5. ActivationsSound'
    <3>1. Counted'
      BY <1>1, <1>2, <2>2, SoundParts, Zenon DEF Counted, Activating, Entries
    <3>2. TypeOK'
      BY <1>1, <1>2, <1>3, <1>4, <2>2, <2>4, Zenon DEF TypeOK, Entries
    <3> QED
      BY <3>1, <3>2, SoundParts, Zenon
  <2>6. ASSUME NEW r \in waiting \ Automatic, owner'[NameOf[r]] # NoConn, ConnOf[r] \in connected
        PROVE  outcome'[r] > 0
    <3>1. r \in Reqs /\ NameOf[r] \in Names /\ outcome[r] \in 0..2 /\ outcome'[r] \in 0..2
      BY <1>1, <1>4, <2>4, Zenon DEF TypeOK
    <3>2. CASE owner[NameOf[r]] # NoConn
      <4>1. outcome[r] > 0
        BY <1>1, <2>6, <3>2, Zenon DEF Answers
      <4>2. outcome'[r] >= outcome[r]
        BY <2>4, <3>1, Zenon
      <4> QED
        BY <3>1, <4>1, <4>2
    <3>3. CASE owner[NameOf[r]] = NoConn
      <4>1. NameOf[r] = n
        BY <1>3, <2>6, <3>1, <3>3, Zenon
      <4>2. r \in R
        BY <3>3, <4>1, Zenon DEF Created, Entries
      <4> QED
        BY <2>4, <2>6, <3>1, <4>2, Zenon
    <3> QED
      BY <3>2, <3>3, Zenon
  <2> HIDE DEF R
  <2>7. ASSUME NEW r \in Reqs \ troubled'
        PROVE  outcome'[r] <= (IF r \in waiting THEN 0 ELSE 1)
    <3>1. r \notin troubled /\ r \notin R
      BY <2>2, <2>3, Zenon
    <3> QED
      BY <1>1, <2>4, <3>1, Zenon DEF Answers, AnsweredOnce
  <2>8. ASSUME NEW r \in made, ConnOf[r] \in connected, r \notin waiting \cup forgotten
        PROVE  outcome'[r] > 0
    <3>1. r \in Reqs /\ r \notin R
      BY <1>1, <2>3, <2>8, Zenon DEF TypeOK, Entries
    <3> QED
      BY <1>1, <2>4, <2>8, <3>1, Zenon DEF Answers, AnsweredOnce
  <2>9. AnsweredOnce'
    BY <1>2, <2>2, <2>7, <2>8, Zenon DEF AnsweredOnce
  <2>10. ASSUME NEW r \in Reqs \ made PROVE outcome'[r] = 0
    BY <1>1, <1>4, <2>3, <2>4, Zenon DEF Answers, Entries
  <2> QED
    BY <1>2, <2>2, <2>5, <2>6, <2>9, <2>10, Zenon DEF Inv
<1> QED
  BY <1>5, <1>6, Zenon

\* The command fails or time is up: every entry is answered with an error.
LEMMA FailKeeps ==
  ASSUME Inv, NEW N \in SUBSET Names, Fail(N)
  PROVE  Inv'
<1> DEFINE R == {r \in waiting : NameOf[r] \in N}
<1>1. ActivationsSound /\ TypeOK /\ Answers
  BY Zenon DEF Inv, Answers, ActivationsSound
<1>2. Conclude(R) /\ Drop(N) /\ UNCHANGED <<connected, owner, made, forgotten, troubled>>
  BY Zenon DEF Fail
<1>3. R \subseteq waiting /\ R \subseteq Reqs /\ waiting' = waiting \ R
  BY <1>1, <1>2, Zenon DEF Drop, TypeOK
<1> HIDE DEF R
<1>4. /\ outcome' \in [Reqs -> 0..2]
      /\ \A r \in Reqs : /\ r \notin R => outcome'[r] = outcome[r]
                         /\ outcome'[r] <= outcome[r] + 1 /\ outcome'[r] >= outcome[r]
                         /\ r \in R /\ ConnOf[r] \in connected => outcome'[r] > 0
  BY <1>1, <1>2, Concluded, Zenon
<1>5. ActivationsSound'
  <2>1. Counted'
    BY <1>1, <1>2, DropCounted, Zenon
  <2>2. TypeOK'
    BY <1>1, <1>2, <1>4, <2>1, Zenon DEF TypeOK, Counted
  <2> QED
    BY <2>1, <2>2, SoundParts, Zenon
<1>6. ASSUME NEW r \in Reqs \ troubled
      PROVE  outcome'[r] <= (IF r \in waiting' THEN 0 ELSE 1)
  <2>1. outcome[r] <= (IF r \in waiting THEN 0 ELSE 1) /\ outcome[r] \in 0..2 /\ outcome'[r] \in 0..2
    BY <1>1, <1>4, Zenon DEF Answers, AnsweredOnce, TypeOK
  <2>2. CASE r \in R
    <3>1. r \in waiting /\ r \notin waiting' /\ outcome'[r] <= outcome[r] + 1
      BY <1>3, <1>4, <2>2, Zenon
    <3> QED
      BY <2>1, <3>1
  <2>3. CASE r \notin R
    BY <1>3, <1>4, <2>1, <2>3, Zenon
  <2> QED
    BY <2>2, <2>3, Zenon
<1>7. ASSUME NEW r \in made, ConnOf[r] \in connected, r \notin waiting' \cup forgotten
      PROVE  outcome'[r] > 0
  <2>1. CASE r \in R
    BY <1>3, <1>4, <1>7, <2>1, Zenon
  <2>2. CASE r \notin R
    BY <1>1, <1>3, <1>4, <1>7, <2>2, Zenon DEF Answers, AnsweredOnce, TypeOK
  <2> QED
    BY <2>1, <2>2, Zenon
<1>8. AnsweredOnce'
  BY <1>2, <1>6, <1>7, Zenon DEF AnsweredOnce
<1>9. ASSUME NEW r \in Reqs \ made PROVE outcome'[r] = 0
  BY <1>1, <1>3, <1>4, Zenon DEF Answers, TypeOK
<1>10. ASSUME NEW r \in waiting' \ Automatic, owner[NameOf[r]] # NoConn, ConnOf[r] \in connected
       PROVE  outcome'[r] > 0
  <2>1. r \in waiting /\ r \notin R /\ r \in Reqs
    BY <1>1, <1>3, Zenon DEF TypeOK
  <2> QED
    BY <1>1, <1>4, <1>10, <2>1, Zenon DEF Answers
<1> QED
  BY <1>2, <1>5, <1>8, <1>9, <1>10, Zenon DEF Inv

\* A reload throws all entries away.
LEMMA ReloadKeeps ==
  ASSUME Inv, Reload
  PROVE  Inv'
<1>1. ActivationsSound /\ TypeOK /\ Answers
  BY Zenon DEF Inv, Answers, ActivationsSound
<1>2. /\ Drop(Names) /\ forgotten' = forgotten \cup waiting
      /\ UNCHANGED <<connected, owner, made, outcome, troubled>>
  BY Zenon DEF Reload
<1>3. waiting' \subseteq waiting
  BY <1>2, Zenon DEF Drop
<1>4. ActivationsSound'
  <2>1. Counted'
    BY <1>1, <1>2, DropCounted, Zenon
  <2>2. TypeOK'
    BY <1>1, <1>2, <2>1, Zenon DEF TypeOK, Counted
  <2> QED
    BY <2>1, <2>2, SoundParts, Zenon
<1>5. ASSUME NEW r \in Reqs \ troubled
      PROVE  outcome[r] <= (IF r \in waiting' THEN 0 ELSE 1)
  <2>1. outcome[r] <= (IF r \in waiting THEN 0 ELSE 1) /\ outcome[r] \in 0..2
    BY <1>1, Zenon DEF Answers, AnsweredOnce, TypeOK
  <2> QED
    BY <1>3, <2>1
<1>6. AnsweredOnce'
  BY <1>1, <1>2, <1>5, Zenon DEF Answers, AnsweredOnce
<1> QED
  BY <1>1, <1>2, <1>3, <1>4, <1>6, Zenon DEF Inv, Answers

\* Names and connections that go away and children that exit settle nothing.
LEMMA LossKeeps ==
  ASSUME Inv,
         \/ \E n \in Names : LoseName(n) \/ ChildExits(n)
         \/ \E c \in Conns : Disconnect(c)
         \/ UNCHANGED vars
  PROVE  Inv'
<1>1. ActivationsSound /\ TypeOK /\ Answers
  BY Zenon DEF Inv, Answers, ActivationsSound
<1>2. UNCHANGED <<made, waiting, n_pending, outcome, forgotten, troubled>>
  BY Zenon DEF LoseName, ChildExits, Disconnect, vars
<1>3. /\ connected' \subseteq connected /\ owner' \in [Names -> Conns \cup {NoConn}]
      /\ \A n \in Names : owner'[n] # NoConn => owner'[n] = owner[n]
  BY <1>1, ActivationAssumption, Zenon DEF LoseName, ChildExits, Disconnect, vars, TypeOK
<1>4. /\ sitter' \in [Names -> SitterStates]
      /\ \A n \in Names : sitter'[n] # "none" => sitter[n] # "none"
  BY <1>1, Zenon DEF LoseName, ChildExits, Disconnect, vars, TypeOK, SitterStates
<1>5. ActivationsSound'
  <2>1. Counted'
    BY <1>1, <1>2, <1>4, SoundParts, Zenon DEF Counted, Activating, Entries
  <2>2. TypeOK'
    BY <1>1, <1>2, <1>3, <1>4, Zenon DEF TypeOK
  <2> QED
    BY <2>1, <2>2, SoundParts, Zenon
<1>6. AnsweredOnce'
  BY <1>1, <1>2, <1>3, Zenon DEF Answers, AnsweredOnce
<1>7. \A r \in waiting : NameOf[r] \in Names
  BY <1>1, ActivationAssumption, Zenon DEF TypeOK
<1> QED
  BY <1>1, <1>2, <1>3, <1>5, <1>6, <1>7, Zenon DEF Inv, Answers

\* The invariant is inductive.
LEMMA InvNext == Inv /\ [Next]_vars => Inv'
<1> SUFFICES ASSUME Inv, [Next]_vars PROVE Inv'
  BY Zenon
<1>1. ASSUME NEW n \in Names, Babysitter(n) \/ TimedOut(n)
      PROVE  \E N \in SUBSET Names : Fail(N)
  BY <1>1, Zenon DEF Babysitter, TimedOut
<1>2. CASE Next
  BY <1>1, <1>2, RequestKeeps, AcquireKeeps, FailKeeps, ReloadKeeps, LossKeeps, Zenon
     DEF Next
<1> QED
  BY <1>2, LossKeeps, Zenon

\* n_pending_activations counts the waiting requests and respects its limit, and
\* there is at most one supervised child per command line, in every behaviour.
THEOREM ActivationsCorrect == Spec => []ActivationsSound
<1>1. Inv => ActivationsSound
  BY Zenon DEF Inv
<1> QED
  BY <1>1, InvInit, InvNext, PTL DEF Spec

\* No request is answered twice or left without its answer, but for the errors of
\* bus_activation_activate_service and refused messages that AnsweredOnce names.
THEOREM RequestsAnswered == Spec => []AnsweredOnce
<1>1. Inv => AnsweredOnce
  BY Zenon DEF Inv
<1> QED
  BY <1>1, InvInit, InvNext, PTL DEF Spec
=============================================================================
