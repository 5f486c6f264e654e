---------------------------- MODULE PeersProofs -----------------------------
(***************************************************************************)
(* The counts of connections and of match rules are exact, and a message   *)
(* is routed to whom it should be, for any number of connections, users    *)
(* and rules and any limits.                                               *)
(***************************************************************************)
EXTENDS Peers, FiniteSetTheorems, WellFoundedInduction, NaturalsInduction, TLAPS

(***************************************************************************)
(* Loops.                                                                  *)
(***************************************************************************)

\* What holds before a loop and is kept by its steps holds after each.
LEMMA Upto ==
  ASSUME NEW n \in Nat, NEW S \in SUBSET (0..n), 0 \in S, \A i \in S : i < n => i + 1 \in S
  PROVE  \A i \in 0..n : i \in S
<1> SUFFICES ASSUME (0..n) \ S # {} PROVE FALSE
  BY Zenon
<1>1. (0..n) \ S \subseteq Nat
  OBVIOUS
<1>2. PICK m \in (0..n) \ S : \A y \in (0..n) \ S : ~(<<y, m>> \in OpToRel(<, Nat))
  BY <1>1, WFMin, NatLessThanWellFounded, Zenon
<1>3. m \in Nat /\ m # 0 /\ m <= n /\ m \notin S
  OBVIOUS
<1>4. m - 1 \in 0..n /\ m - 1 \in Nat /\ m - 1 < m
  BY <1>3
<1>5. m - 1 \in S
  BY <1>2, <1>3, <1>4, Zenon DEF OpToRel
<1>6. (m - 1) + 1 \in S
  BY <1>3, <1>4, <1>5
<1> QED
  BY <1>3, <1>6

\* The steps of a loop, and the values it goes through.
Steps(n, D) == [(1..n) \X D -> D]
Run(n, D, a, g, h) == h \in [0..n -> D] /\ h[0] = a /\ \A i \in 1..n : h[i] = g[<<i, h[i - 1]>>]

\* A loop that takes a value to the next one, n times, goes through some values.
LEMMA LoopRuns ==
  ASSUME NEW n \in Nat, NEW D, NEW a \in D, NEW g \in Steps(n, D)
  PROVE  \E h : Run(n, D, a, g, h)
<1> USE DEF Steps
<1> DEFINE Runs(m) == \E h \in [0..m -> D] : h[0] = a /\ \A i \in 1..m : h[i] = g[<<i, h[i - 1]>>]
           S == {m \in 0..n : Runs(m)}
<1>1. 0 \in S
  <2> DEFINE k == [i \in 0..0 |-> a]
  <2>1. k \in [0..0 -> D] /\ k[0] = a /\ 1..0 = {}
    OBVIOUS
  <2> HIDE DEF k
  <2>2. Runs(0)
    BY <2>1, Zenon
  <2> QED
    BY <2>2
<1>2. ASSUME NEW m \in S, m < n PROVE m + 1 \in S
  <2>1. PICK h \in [0..m -> D] : h[0] = a /\ \A i \in 1..m : h[i] = g[<<i, h[i - 1]>>]
    BY Zenon
  <2> DEFINE k == [i \in 0..(m + 1) |-> IF i = m + 1 THEN g[<<m + 1, h[m]>>] ELSE h[i]]
  <2>2. g[<<m + 1, h[m]>>] \in D
    BY <1>2
  <2>3. k \in [0..(m + 1) -> D]
    BY <1>2, <2>2
  <2>4. k[0] = a
    BY <2>1
  <2>5. ASSUME NEW i \in 1..(m + 1) PROVE k[i] = g[<<i, k[i - 1]>>]
    <3>1. CASE i = m + 1
      <4>1. k[i - 1] = h[m] /\ k[i] = g[<<m + 1, h[m]>>]
        BY <1>2, <3>1
      <4> QED
        BY <3>1, <4>1, Zenon
    <3>2. CASE i # m + 1
      <4>1. i \in 1..m /\ k[i] = h[i] /\ k[i - 1] = h[i - 1]
        BY <1>2, <3>2
      <4> QED
        BY <2>1, <4>1, Zenon
    <3> QED
      BY <3>1, <3>2, Zenon
  <2> HIDE DEF k
  <2>6. Runs(m + 1)
    BY <2>3, <2>4, <2>5, Zenon
  <2> QED
    BY <1>2, <2>6, SMTT(30)
<1> HIDE DEF Runs
<1>3. S \in SUBSET (0..n)
  BY Zenon
<1> HIDE DEF S
<1>4. n \in S
  BY <1>1, <1>2, <1>3, Upto
<1> QED
  BY <1>4, Zenon DEF S, Runs, Run

\* h holds what the loop of Kept has kept after each of its steps.
KeptBy(h, R, list, positions) ==
  /\ h \in [0..Len(list) -> Seq(R)]
  /\ h[0] = <<>> /\ Kept(list, positions) = h[Len(list)]
  /\ \A i \in 1..Len(list) :
       h[i] = IF i \in positions THEN Append(h[i - 1], list[i]) ELSE h[i - 1]

\* The steps of the loop of Kept.
LEMMA KeptLoop ==
  ASSUME NEW R, NEW list \in Seq(R), NEW positions
  PROVE  \E h : KeptBy(h, R, list, positions)
<1> DEFINE n == Len(list)
           Body(h) == [i \in 0..n |->
                         IF i = 0 THEN <<>>
                         ELSE IF i \in positions THEN Append(h[i - 1], list[i]) ELSE h[i - 1]]
           f == CHOOSE h : h = Body(h)
           g == [w \in (1..n) \X Seq(R) |->
                   IF w[1] \in positions THEN Append(w[2], list[w[1]]) ELSE w[2]]
<1>1. n \in Nat /\ \A i \in 1..n : list[i] \in R
  OBVIOUS
<1>2. g \in Steps(n, Seq(R))
  BY <1>1 DEF Steps
<1> HIDE DEF g, n
<1>3. PICK h : Run(n, Seq(R), <<>>, g, h)
  <2>1. <<>> \in Seq(R)
    OBVIOUS
  <2> QED
    BY <1>1, <1>2, <2>1, LoopRuns, Zenon
<1>4. h \in [0..n -> Seq(R)] /\ h[0] = <<>> /\ \A i \in 1..n : h[i] = g[<<i, h[i - 1]>>]
  BY <1>3, Zenon DEF Run
<1> USE DEF n
<1>5. ASSUME NEW i \in 1..n
      PROVE  h[i] = IF i \in positions THEN Append(h[i - 1], list[i]) ELSE h[i - 1]
  <2>1. i - 1 \in 0..n
    BY <1>1
  <2>2. h[i - 1] \in Seq(R)
    BY <1>4, <2>1, Zenon
  <2>3. <<i, h[i - 1]>> \in (1..n) \X Seq(R)
    BY <2>2, Zenon
  <2>4. h[i] = g[<<i, h[i - 1]>>]
    BY <1>4, Zenon
  <2> QED
    BY <2>3, <2>4, Zenon DEF g
<1>6. h = Body(h)
  <2>1. \A i \in 0..n : i = 0 \/ i \in 1..n
    BY <1>1
  <2>2. h[0] = <<>>
    BY <1>4, Zenon
  <2> QED
    BY <1>4, <1>5, <2>1, <2>2, Zenon
<1>7. f = Body(f)
  <2> HIDE DEF Body
  <2> QED
    BY <1>6, Zenon
<1>8. Kept(list, positions) = f[n]
  BY Zenon DEF Kept
<1> HIDE DEF f
<1>9. f \in [0..n -> Seq(R)]
  <2> DEFINE S == {i \in 0..n : f[i] \in Seq(R)}
  <2>1. 0 \in S
    BY <1>1, <1>7
  <2>2. ASSUME NEW i \in S, i < n PROVE i + 1 \in S
    <3>1. i + 1 \in 1..n /\ (i + 1) - 1 = i /\ i + 1 \in 0..n
      BY <1>1, <2>2
    <3>2. f[i + 1] = IF i + 1 \in positions THEN Append(f[i], list[i + 1]) ELSE f[i]
      <4>1. i + 1 # 0
        BY <1>1, <3>1
      <4> QED
        BY <1>7, <3>1, <4>1, Zenon
    <3>3. list[i + 1] \in R /\ f[i] \in Seq(R)
      BY <1>1, <3>1, Zenon
    <3>4. f[i + 1] \in Seq(R)
      <4>1. Append(f[i], list[i + 1]) \in Seq(R)
        BY <3>3
      <4> QED
        BY <3>2, <3>3, <4>1, Zenon
    <3> QED
      BY <3>1, <3>4, Zenon
  <2>3. \A i \in 0..n : f[i] \in Seq(R)
    <3>1. S \in SUBSET (0..n)
      BY Zenon
    <3> HIDE DEF S
    <3>2. \A i \in 0..n : i \in S
      BY <1>1, <2>1, <2>2, <3>1, Upto, Zenon
    <3> QED
      BY <3>2, Zenon DEF S
  <2> QED
    BY <1>7, <2>3, Zenon
<1>10. \A i \in 1..n : f[i] = IF i \in positions THEN Append(f[i - 1], list[i]) ELSE f[i - 1]
  <2>1. \A i \in 1..n : i \in 0..n /\ i # 0
    BY <1>1
  <2> QED
    BY <1>7, <2>1, Zenon
<1>11. f[0] = <<>>
  BY <1>1, <1>7
<1>12. KeptBy(f, R, list, positions)
  BY <1>8, <1>9, <1>10, <1>11, Zenon DEF KeptBy
<1> QED
  BY <1>12, Zenon

\* Who is marked first, and when a rule makes its connection a recipient.
First(d) == IF d \in Conns THEN <<d>> ELSE <<>>
Finds(rule, s, d, content, marked) == Matches(rule, s, d, content) /\ rule.go_to \notin Members(marked)

\* A rule goes to a connection.
LEMMA GoTo ==
  ASSUME NEW rule \in Rules
  PROVE  rule.go_to \in Conns
  BY PeersAssumption, Zenon

\* The steps of the loop of bus_matchmaker_get_recipients.
LEMMA RecipientsLoop ==
  ASSUME all_rules \in Seq(Rules), NEW s, NEW d, NEW content
  PROVE  \E h \in [0..Len(all_rules) -> Seq(Conns)] :
           /\ h[0] = First(d) /\ GetRecipients(s, d, content) = h[Len(all_rules)]
           /\ \A i \in 1..Len(all_rules) :
                h[i] = IF Finds(all_rules[i], s, d, content, h[i - 1]) THEN Append(h[i - 1], all_rules[i].go_to) ELSE h[i - 1]
<1> DEFINE n == Len(all_rules)
           Body(h) == [i \in 0..n |->
                         IF i = 0 THEN First(d)
                         ELSE IF Finds(all_rules[i], s, d, content, h[i - 1]) THEN Append(h[i - 1], all_rules[i].go_to) ELSE h[i - 1]]
           f == CHOOSE h : h = Body(h)
           g == [w \in (1..n) \X Seq(Conns) |->
                   IF Finds(all_rules[w[1]], s, d, content, w[2]) THEN Append(w[2], all_rules[w[1]].go_to) ELSE w[2]]
<1>1. n \in Nat /\ \A i \in 1..n : all_rules[i].go_to \in Conns
  <2>1. n \in Nat /\ \A i \in 1..n : all_rules[i] \in Rules
    OBVIOUS
  <2> QED
    BY <2>1, GoTo, Zenon
<1>0. First(d) \in Seq(Conns)
  <2>1. CASE d \in Conns
    BY <2>1 DEF First
  <2>2. CASE d \notin Conns
    BY <2>2 DEF First
  <2> QED
    BY <2>1, <2>2, Zenon
<1>2. g \in Steps(n, Seq(Conns))
  BY <1>1 DEF Steps
<1> HIDE DEF g, n
<1>3. PICK h : Run(n, Seq(Conns), First(d), g, h)
  BY <1>0, <1>1, <1>2, LoopRuns, Zenon
<1>4. h \in [0..n -> Seq(Conns)] /\ h[0] = First(d) /\ \A i \in 1..n : h[i] = g[<<i, h[i - 1]>>]
  BY <1>3, Zenon DEF Run
<1> USE DEF n
<1>5. ASSUME NEW i \in 1..n
      PROVE  h[i] = IF Finds(all_rules[i], s, d, content, h[i - 1]) THEN Append(h[i - 1], all_rules[i].go_to) ELSE h[i - 1]
  <2>1. i - 1 \in 0..n
    BY <1>1
  <2>2. h[i - 1] \in Seq(Conns)
    BY <1>4, <2>1, Zenon
  <2>3. <<i, h[i - 1]>> \in (1..n) \X Seq(Conns)
    BY <2>2, Zenon
  <2>4. h[i] = g[<<i, h[i - 1]>>]
    BY <1>4, Zenon
  <2> QED
    BY <2>3, <2>4, Zenon DEF g
<1>6. h = Body(h)
  <2>1. \A i \in 0..n : i = 0 \/ i \in 1..n
    BY <1>1
  <2>2. h[0] = First(d)
    BY <1>4, Zenon
  <2> QED
    BY <1>4, <1>5, <2>1, <2>2, Zenon
<1>7. f = Body(f)
  <2> HIDE DEF Body
  <2> QED
    BY <1>6, Zenon
<1>8. GetRecipients(s, d, content) = f[n]
  BY Zenon DEF GetRecipients, First, Finds
<1> HIDE DEF f
<1>9. f \in [0..n -> Seq(Conns)]
  <2> DEFINE S == {i \in 0..n : f[i] \in Seq(Conns)}
  <2>1. 0 \in S
    BY <1>0, <1>1, <1>7
  <2>2. ASSUME NEW i \in S, i < n PROVE i + 1 \in S
    <3>1. i + 1 \in 1..n /\ (i + 1) - 1 = i /\ i + 1 \in 0..n
      BY <1>1, <2>2
    <3>2. f[i + 1] = IF Finds(all_rules[i + 1], s, d, content, f[i]) THEN Append(f[i], all_rules[i + 1].go_to) ELSE f[i]
      <4>1. i + 1 # 0
        BY <1>1, <3>1
      <4> QED
        BY <1>7, <3>1, <4>1, Zenon
    <3>3. all_rules[i + 1].go_to \in Conns /\ f[i] \in Seq(Conns)
      BY <1>1, <3>1, Zenon
    <3>4. f[i + 1] \in Seq(Conns)
      <4>1. Append(f[i], all_rules[i + 1].go_to) \in Seq(Conns)
        BY <3>3
      <4> QED
        BY <3>2, <3>3, <4>1, Zenon
    <3> QED
      BY <3>1, <3>4, Zenon
  <2>3. \A i \in 0..n : f[i] \in Seq(Conns)
    <3>1. S \in SUBSET (0..n)
      BY Zenon
    <3> HIDE DEF S
    <3>2. \A i \in 0..n : i \in S
      BY <1>1, <2>1, <2>2, <3>1, Upto, Zenon
    <3> QED
      BY <3>2, Zenon DEF S
  <2> QED
    BY <1>7, <2>3, Zenon
<1>10. \A i \in 1..n : f[i] = IF Finds(all_rules[i], s, d, content, f[i - 1]) THEN Append(f[i - 1], all_rules[i].go_to) ELSE f[i - 1]
  <2>1. \A i \in 1..n : i \in 0..n /\ i # 0
    BY <1>1
  <2> QED
    BY <1>7, <2>1, Zenon
<1>11. f[0] = First(d)
  BY <1>1, <1>7
<1> QED
  BY <1>8, <1>9, <1>10, <1>11, Zenon
\* The positions of a list that hold elements of P.
Hits(list, P) == {i \in DOMAIN list : list[i] \in P}

\* A list has finitely many positions.
LEMMA HitsFinite ==
  ASSUME NEW R, NEW list \in Seq(R), NEW P
  PROVE  IsFiniteSet(Hits(list, P)) /\ Cardinality(Hits(list, P)) \in Nat
<1>1. Len(list) \in Nat /\ DOMAIN list = 1..Len(list)
  OBVIOUS
<1>2. IsFiniteSet(1..Len(list))
  BY <1>1, FS_Interval
<1>3. Hits(list, P) \subseteq 1..Len(list)
  BY <1>1, Zenon DEF Hits
<1> QED
  BY <1>2, <1>3, FS_Subset, FS_CardinalityType, Zenon

\* Appending an element adds its position.
LEMMA HitsAppend ==
  ASSUME NEW R, NEW list \in Seq(R), NEW x \in R, NEW P
  PROVE  Cardinality(Hits(Append(list, x), P))
           = IF x \in P THEN Cardinality(Hits(list, P)) + 1 ELSE Cardinality(Hits(list, P))
<1> DEFINE n == Len(list)
           s == Append(list, x)
<1>1. /\ n \in Nat /\ DOMAIN list = 1..n
      /\ DOMAIN s = 1..(n + 1) /\ s[n + 1] = x /\ \A i \in 1..n : s[i] = list[i]
  OBVIOUS
<1> HIDE DEF n, s
<1>2. 1..(n + 1) = (1..n) \cup {n + 1} /\ n + 1 \notin 1..n
  BY <1>1
<1>3. CASE x \in P
  <2>1. Hits(s, P) = Hits(list, P) \cup {n + 1} /\ n + 1 \notin Hits(list, P)
    BY <1>1, <1>2, <1>3, Zenon DEF Hits
  <2>2. IsFiniteSet(Hits(list, P))
    BY HitsFinite, Zenon
  <2>3. Cardinality(Hits(s, P)) = Cardinality(Hits(list, P)) + 1
    BY <2>1, <2>2, FS_AddElement, Zenon
  <2> QED
    BY <1>3, <2>3, Zenon DEF s
<1>4. CASE x \notin P
  <2>1. Hits(s, P) = Hits(list, P)
    BY <1>1, <1>2, <1>4 DEF Hits
  <2> QED
    BY <1>4, <2>1, Zenon DEF s
<1> QED
  BY <1>3, <1>4, Zenon

\* The positions among the first m of a list that are kept and hold elements of P.
Chosen(list, positions, P, m) == {i \in 1..m : i \in positions /\ list[i] \in P}

\* They grow with the list.
LEMMA ChosenGrows ==
  ASSUME NEW list, NEW positions, NEW P, NEW m \in Nat
  PROVE  /\ Chosen(list, positions, P, 0) = {}
         /\ Cardinality(Chosen(list, positions, P, m + 1))
              = IF m + 1 \in positions /\ list[m + 1] \in P
                THEN Cardinality(Chosen(list, positions, P, m)) + 1
                ELSE Cardinality(Chosen(list, positions, P, m))
<1> DEFINE C(k) == Chosen(list, positions, P, k)
<1>1. C(0) = {}
  BY DEF Chosen
<1>2. 1..(m + 1) = (1..m) \cup {m + 1} /\ m + 1 \notin 1..m
  OBVIOUS
<1>3. CASE m + 1 \in positions /\ list[m + 1] \in P
  <2>1. C(m + 1) = C(m) \cup {m + 1} /\ m + 1 \notin C(m)
    BY <1>2, <1>3, Zenon DEF Chosen
  <2>2. IsFiniteSet(C(m))
    <3>1. IsFiniteSet(1..m) /\ C(m) \subseteq 1..m
      BY FS_Interval DEF Chosen
    <3> QED
      BY <3>1, FS_Subset, Zenon
  <2> HIDE DEF C
  <2>3. Cardinality(C(m + 1)) = Cardinality(C(m)) + 1
    BY <2>1, <2>2, FS_AddElement, Zenon
  <2> QED
    BY <1>1, <1>3, <2>3, Zenon DEF C
<1>4. CASE ~(m + 1 \in positions /\ list[m + 1] \in P)
  <2>1. C(m + 1) = C(m)
    BY <1>2, <1>4, Zenon DEF Chosen
  <2> HIDE DEF C
  <2> QED
    BY <1>1, <1>4, <2>1, Zenon DEF C
<1> QED
  BY <1>3, <1>4, Zenon

\* Kept has an element for each position that is kept, and no other.
LEMMA KeptCount ==
  ASSUME NEW R, NEW list \in Seq(R), NEW positions, NEW P
  PROVE  /\ Kept(list, positions) \in Seq(R)
         /\ Cardinality(Hits(Kept(list, positions), P))
              = Cardinality(Chosen(list, positions, P, Len(list)))
<1> DEFINE n == Len(list)
           C(m) == Cardinality(Chosen(list, positions, P, m))
<1>1. n \in Nat /\ \A i \in 1..n : list[i] \in R
  OBVIOUS
<1>0. PICK h : KeptBy(h, R, list, positions)
  BY KeptLoop, Zenon
<1>2. /\ h \in [0..n -> Seq(R)] /\ h[0] = <<>> /\ Kept(list, positions) = h[n]
      /\ \A i \in 1..n : h[i] = IF i \in positions THEN Append(h[i - 1], list[i]) ELSE h[i - 1]
  BY <1>0, Zenon DEF KeptBy
<1> HIDE DEF n
<1> DEFINE S == {i \in 0..n : Cardinality(Hits(h[i], P)) = C(i)}
<1>3. 0 \in S
  <2>1. Hits(<<>>, P) = {}
    BY DEF Hits
  <2>2. Cardinality(Hits(h[0], P)) = C(0)
    BY <1>2, <2>1, ChosenGrows, Zenon
  <2> QED
    BY <1>1, <2>2
<1>4. ASSUME NEW i \in S, i < n PROVE i + 1 \in S
  <2>1. i \in Nat /\ i + 1 \in 1..n /\ (i + 1) - 1 = i /\ i + 1 \in 0..n /\ i \in 0..n
    BY <1>1, <1>4
  <2>2. h[i] \in Seq(R) /\ list[i + 1] \in R /\ Cardinality(Hits(h[i], P)) = C(i)
    BY <1>1, <1>2, <2>1, Zenon
  <2>3. h[i + 1] = IF i + 1 \in positions THEN Append(h[i], list[i + 1]) ELSE h[i]
    BY <1>2, <2>1, Zenon
  <2>4. C(i + 1) = IF i + 1 \in positions /\ list[i + 1] \in P THEN C(i) + 1 ELSE C(i)
    BY <2>1, ChosenGrows
  <2> HIDE DEF C
  <2>5. CASE i + 1 \in positions
    <3>1. Cardinality(Hits(h[i + 1], P)) = IF list[i + 1] \in P THEN C(i) + 1 ELSE C(i)
      BY <2>2, <2>3, <2>5, HitsAppend
    <3> QED
      BY <2>1, <2>4, <2>5, <3>1, Zenon
  <2>6. CASE i + 1 \notin positions
    BY <2>1, <2>2, <2>3, <2>4, <2>6, Zenon
  <2> QED
    BY <2>5, <2>6, Zenon
<1>5. n \in S
  <2>1. S \in SUBSET (0..n) /\ n \in 0..n
    BY <1>1
  <2> HIDE DEF S
  <2> QED
    BY <1>1, <1>3, <1>4, <2>1, Upto, Zenon
<1> QED
  BY <1>1, <1>2, <1>5, Zenon DEF n
\* A list without its i-th link.
LEMMA LinkRemoved ==
  ASSUME NEW R, NEW list \in Seq(R), NEW i \in DOMAIN list
  PROVE  LET r == RemoveLink(list, i)
         IN /\ r \in Seq(R) /\ Len(r) = Len(list) - 1
            /\ \A j \in 1..(Len(list) - 1) : r[j] = IF j < i THEN list[j] ELSE list[j + 1]
<1> DEFINE n == Len(list)
           a == SubSeq(list, 1, i - 1)
           b == SubSeq(list, i + 1, n)
<1>1. n \in Nat /\ i \in 1..n /\ \A j \in 1..n : list[j] \in R
  OBVIOUS
<1>2. a \in Seq(R) /\ Len(a) = i - 1 /\ \A j \in 1..(i - 1) : a[j] = list[j]
  BY <1>1
<1>3. b \in Seq(R) /\ Len(b) = n - i /\ \A j \in 1..(n - i) : b[j] = list[i + j]
  BY <1>1
<1>4. RemoveLink(list, i) = a \o b
  BY Zenon DEF RemoveLink
<1> HIDE DEF a, b, n
<1>5. /\ a \o b \in Seq(R) /\ Len(a \o b) = n - 1
      /\ \A j \in 1..(n - 1) : (a \o b)[j] = IF j <= i - 1 THEN a[j] ELSE b[j - (i - 1)]
  <2>1. a \o b \in Seq(R) /\ Len(a \o b) = Len(a) + Len(b)
    <3>1. a \in Seq(R) /\ b \in Seq(R)
      BY <1>2, <1>3, Zenon
    <3> QED
      BY <3>1
  <2>2. \A j \in 1..(Len(a) + Len(b)) : (a \o b)[j] = IF j <= Len(a) THEN a[j] ELSE b[j - Len(a)]
    BY <1>2, <1>3, SMTT(30)
  <2>3. Len(a) + Len(b) = n - 1
    BY <1>1, <1>2, <1>3
  <2> QED
    BY <1>2, <2>1, <2>2, <2>3, Zenon
<1>6. ASSUME NEW j \in 1..(n - 1) PROVE (a \o b)[j] = IF j < i THEN list[j] ELSE list[j + 1]
  <2>1. CASE j < i
    BY <1>1, <1>2, <1>5, <2>1
  <2>2. CASE ~(j < i)
    <3>1. j - (i - 1) \in 1..(n - i) /\ i + (j - (i - 1)) = j + 1 /\ ~(j <= i - 1)
      BY <1>1, <2>2
    <3> QED
      BY <1>3, <1>5, <2>2, <3>1, Zenon
  <2> QED
    BY <2>1, <2>2, Zenon
<1> QED
  BY <1>4, <1>5, <1>6, Zenon DEF n

\* Removing a link removes one hit or none.
LEMMA HitsRemoved ==
  ASSUME NEW R, NEW list \in Seq(R), NEW i \in DOMAIN list, NEW P
  PROVE  Cardinality(Hits(RemoveLink(list, i), P))
           = IF list[i] \in P THEN Cardinality(Hits(list, P)) - 1 ELSE Cardinality(Hits(list, P))
<1> DEFINE n == Len(list)
           r == RemoveLink(list, i)
           H == Hits(r, P)
           T == Hits(list, P) \ {i}
           f == [j \in H |-> IF j < i THEN j ELSE j + 1]
<1>1. n \in Nat /\ i \in 1..n /\ DOMAIN list = 1..n
  OBVIOUS
<1>2. /\ r \in Seq(R) /\ Len(r) = n - 1
      /\ \A j \in 1..(n - 1) : r[j] = IF j < i THEN list[j] ELSE list[j + 1]
  BY LinkRemoved, Zenon
<1> HIDE DEF n, r
<1>3. DOMAIN r = 1..(n - 1)
  BY <1>2
<1>4. \A j : j \in H <=> j \in 1..(n - 1) /\ r[j] \in P
  BY <1>3, Zenon DEF Hits
<1>5. \A j : j \in T <=> j \in 1..n /\ list[j] \in P /\ j # i
  BY <1>1, Zenon DEF Hits
<1> HIDE DEF H, T
<1>6. ASSUME NEW j \in H PROVE f[j] \in T
  <2>1. j \in 1..(n - 1) /\ r[j] \in P
    BY <1>4, Zenon
  <2>2. CASE j < i
    <3>1. j \in 1..n /\ j # i /\ list[j] \in P
      BY <1>1, <1>2, <2>1, <2>2
    <3> QED
      BY <1>5, <2>2, <3>1, Zenon
  <2>3. CASE ~ (j < i)
    <3>1. j + 1 \in 1..n /\ j + 1 # i /\ list[j + 1] \in P
      BY <1>1, <1>2, <2>1, <2>3
    <3> QED
      BY <1>5, <2>3, <3>1, Zenon
  <2> QED
    BY <2>2, <2>3, Zenon
<1>7. ASSUME NEW j \in H, NEW k \in H, f[j] = f[k] PROVE j = k
  BY <1>1, <1>4, <1>7
<1>8. ASSUME NEW k \in T PROVE \E j \in H : f[j] = k
  <2>1. CASE k < i
    <3>1. k \in H
      BY <1>1, <1>2, <1>4, <1>5, <2>1
    <3> QED
      BY <2>1, <3>1, Zenon
  <2>2. CASE ~(k < i)
    <3>1. k - 1 \in 1..(n - 1) /\ ~(k - 1 < i) /\ (k - 1) + 1 = k
      BY <1>1, <1>5, <2>2
    <3>2. k - 1 \in H
      BY <1>1, <1>2, <1>4, <1>5, <3>1, Zenon
    <3> QED
      BY <3>1, <3>2, Zenon
  <2> QED
    BY <2>1, <2>2, Zenon
<1>9. f \in Bijection(H, T)
  <2>1. f \in [H -> T]
    BY <1>6, Zenon
  <2> HIDE DEF f
  <2> QED
    BY <1>7, <1>8, <2>1, Zenon DEF Bijection, Injection, Surjection, IsInjective
<1>10. IsFiniteSet(H) /\ IsFiniteSet(Hits(list, P))
  BY <1>2, HitsFinite, Zenon DEF H
<1>11. Cardinality(T) = Cardinality(H)
  BY <1>9, <1>10, FS_Bijection, Zenon DEF ExistsBijection
<1>12. Cardinality(T) = IF i \in Hits(list, P) THEN Cardinality(Hits(list, P)) - 1
                                              ELSE Cardinality(Hits(list, P))
  BY <1>10, FS_RemoveElement, Zenon DEF T
<1>13. i \in Hits(list, P) <=> list[i] \in P
  BY Zenon DEF Hits
<1> QED
  BY <1>11, <1>12, <1>13, Zenon DEF H, r

\* No element is twice in the list.
Once(list) == \A i, j \in DOMAIN list : list[i] = list[j] => i = j

\* A connection leaves a list that holds it once.
LEMMA Unlinked ==
  ASSUME incomplete \in Seq(Conns), Once(incomplete), NEW c \in Members(incomplete)
  PROVE  /\ Unlink(c) \in Seq(Conns) /\ Once(Unlink(c))
         /\ Len(Unlink(c)) = Len(incomplete) - 1
         /\ Members(Unlink(c)) = Members(incomplete) \ {c}
<1> DEFINE i == CHOOSE k \in DOMAIN incomplete : incomplete[k] = c
           n == Len(incomplete)
           r == RemoveLink(incomplete, i)
<1>1. i \in DOMAIN incomplete /\ incomplete[i] = c
  BY Zenon DEF Members
<1>2. Unlink(c) = r
  BY Zenon DEF Unlink
<1> HIDE DEF i
<1>3. n \in Nat /\ DOMAIN incomplete = 1..n /\ i \in 1..n
  BY <1>1
<1>4. /\ r \in Seq(Conns) /\ Len(r) = n - 1
      /\ \A j \in 1..(n - 1) : r[j] = IF j < i THEN incomplete[j] ELSE incomplete[j + 1]
  BY <1>1, LinkRemoved, Zenon
<1> HIDE DEF r, n
<1>5. DOMAIN r = 1..(n - 1)
  BY <1>4
<1>6. ASSUME NEW j \in 1..(n - 1), NEW k \in 1..(n - 1), r[j] = r[k] PROVE j = k
  <2> DEFINE at(m) == IF m < i THEN m ELSE m + 1
  <2>1. \A m \in 1..(n - 1) : at(m) \in 1..n /\ r[m] = incomplete[at(m)]
    BY <1>3, <1>4
  <2>2. at(j) = at(k)
    <3> HIDE DEF at
    <3> QED
      BY <1>3, <1>6, <2>1, Zenon DEF Once
  <2> QED
    BY <1>3, <2>2
<1>7. ASSUME NEW j \in 1..(n - 1) PROVE r[j] \in Members(incomplete) /\ r[j] # c
  <2>1. PICK k \in 1..n : r[j] = incomplete[k] /\ k # i
    BY <1>3, <1>4
  <2> QED
    BY <1>1, <1>3, <2>1, Zenon DEF Once, Members
<1>8. ASSUME NEW x \in Members(incomplete), x # c PROVE \E j \in 1..(n - 1) : r[j] = x
  <2>1. PICK k \in 1..n : incomplete[k] = x
    BY <1>3, Zenon DEF Members
  <2>2. CASE k < i
    BY <1>3, <1>4, <2>1, <2>2
  <2>3. CASE ~(k < i)
    <3>1. k - 1 \in 1..(n - 1) /\ ~(k - 1 < i) /\ (k - 1) + 1 = k
      BY <1>1, <1>3, <1>8, <2>1, <2>3
    <3> QED
      BY <1>4, <2>1, <3>1, Zenon
  <2> QED
    BY <2>2, <2>3, Zenon
<1>9. Members(r) = Members(incomplete) \ {c}
  <2>1. Members(r) = {r[j] : j \in 1..(n - 1)}
    BY <1>5, Zenon DEF Members
  <2> QED
    BY <1>7, <1>8, <2>1, Zenon
<1> QED
  BY <1>2, <1>4, <1>5, <1>6, <1>9, Zenon DEF Once, n
-----------------------------------------------------------------------------
(***************************************************************************)
(* The counts of connections.                                              *)
(***************************************************************************)
Stages == {"new", "incomplete", "active", "gone"}
InStage(x) == {c \in Conns : stage[c] = x}

\* What CountsExact says, over lists, with what the actions need to keep it.
ConnInv ==
  /\ stage \in [Conns -> Stages]
  /\ open \subseteq Conns /\ overdue \subseteq Conns /\ timer \in BOOLEAN
  /\ by_user \in [Users -> Nat] /\ leaked \in [Users -> Nat]
  /\ incomplete \in Seq(Conns) /\ Once(incomplete)
  /\ Members(incomplete) = InStage("incomplete")
  /\ n_incomplete = Len(incomplete) /\ n_incomplete = Cardinality(InStage("incomplete"))
  /\ n_completed = Cardinality(InStage("active")) /\ n_completed <= MaxCompleted
  /\ \A u \in Users : by_user[u] = Cardinality(OfUser(u)) + leaked[u] /\ by_user[u] <= MaxPerUser

\* Sets of connections are finite.
LEMMA ConnsFinite ==
  ASSUME NEW S, S \subseteq Conns
  PROVE  IsFiniteSet(S) /\ Cardinality(S) \in Nat
  BY PeersAssumption, FS_Subset, FS_CardinalityType, Zenon

\* A connection goes from one stage to another: the counts follow.
LEMMA StageMoves ==
  ASSUME stage \in [Conns -> Stages], NEW c \in Conns, NEW b \in Stages,
         stage' = [stage EXCEPT ![c] = b], stage[c] # b
  PROVE  /\ stage' \in [Conns -> Stages]
         /\ \A x \in Stages :
              /\ InStage(x)' = IF x = stage[c] THEN InStage(x) \ {c}
                               ELSE IF x = b THEN InStage(x) \cup {c} ELSE InStage(x)
              /\ Cardinality(InStage(x)') = IF x = stage[c] THEN Cardinality(InStage(x)) - 1
                                            ELSE IF x = b THEN Cardinality(InStage(x)) + 1
                                            ELSE Cardinality(InStage(x))
         /\ \A u \in Users :
              Cardinality(OfUser(u)') = IF UserOf[c] # u THEN Cardinality(OfUser(u))
                                        ELSE IF stage[c] = "active" THEN Cardinality(OfUser(u)) - 1
                                        ELSE IF b = "active" THEN Cardinality(OfUser(u)) + 1
                                        ELSE Cardinality(OfUser(u))
<1>1. stage' \in [Conns -> Stages] /\ stage'[c] = b /\ \A d \in Conns \ {c} : stage'[d] = stage[d]
  BY Zenon
<1>2. ASSUME NEW x \in Stages
      PROVE  /\ InStage(x)' = IF x = stage[c] THEN InStage(x) \ {c}
                              ELSE IF x = b THEN InStage(x) \cup {c} ELSE InStage(x)
             /\ Cardinality(InStage(x)') = IF x = stage[c] THEN Cardinality(InStage(x)) - 1
                                           ELSE IF x = b THEN Cardinality(InStage(x)) + 1
                                           ELSE Cardinality(InStage(x))
  <2>1. IsFiniteSet(InStage(x))
    BY ConnsFinite, Zenon DEF InStage
  <2>2. CASE x = stage[c]
    <3>1. InStage(x)' = InStage(x) \ {c} /\ c \in InStage(x)
      BY <1>1, <2>2, Zenon DEF InStage
    <3>2. Cardinality(InStage(x) \ {c}) = Cardinality(InStage(x)) - 1
      BY <2>1, <3>1, FS_RemoveElement, Zenon
    <3> QED
      BY <2>2, <3>1, <3>2, Zenon
  <2>3. CASE x # stage[c] /\ x = b
    <3>1. InStage(x)' = InStage(x) \cup {c} /\ c \notin InStage(x)
      BY <1>1, <2>3, Zenon DEF InStage
    <3>2. Cardinality(InStage(x) \cup {c}) = Cardinality(InStage(x)) + 1
      BY <2>1, <3>1, FS_AddElement, Zenon
    <3> QED
      BY <2>3, <3>1, <3>2, Zenon
  <2>4. CASE x # stage[c] /\ x # b
    <3>1. InStage(x)' = InStage(x)
      BY <1>1, <2>4, Zenon DEF InStage
    <3> QED
      BY <2>4, <3>1, Zenon
  <2> QED
    BY <2>2, <2>3, <2>4, Zenon
<1>3. ASSUME NEW u \in Users
      PROVE  Cardinality(OfUser(u)') = IF UserOf[c] # u THEN Cardinality(OfUser(u))
                                       ELSE IF stage[c] = "active" THEN Cardinality(OfUser(u)) - 1
                                       ELSE IF b = "active" THEN Cardinality(OfUser(u)) + 1
                                       ELSE Cardinality(OfUser(u))
  <2>1. IsFiniteSet(OfUser(u))
    BY ConnsFinite, Zenon DEF OfUser
  <2>2. CASE UserOf[c] = u /\ stage[c] = "active"
    <3>1. OfUser(u)' = OfUser(u) \ {c} /\ c \in OfUser(u)
      BY <1>1, <2>2, Zenon DEF OfUser
    <3>2. Cardinality(OfUser(u) \ {c}) = Cardinality(OfUser(u)) - 1
      BY <2>1, <3>1, FS_RemoveElement, Zenon
    <3> QED
      BY <2>2, <3>1, <3>2, Zenon
  <2>3. CASE UserOf[c] = u /\ stage[c] # "active" /\ b = "active"
    <3>1. OfUser(u)' = OfUser(u) \cup {c} /\ c \notin OfUser(u)
      BY <1>1, <2>3, Zenon DEF OfUser
    <3>2. Cardinality(OfUser(u) \cup {c}) = Cardinality(OfUser(u)) + 1
      BY <2>1, <3>1, FS_AddElement, Zenon
    <3> QED
      BY <2>3, <3>1, <3>2, Zenon
  <2>4. CASE UserOf[c] # u \/ (stage[c] # "active" /\ b # "active")
    <3>1. OfUser(u)' = OfUser(u)
      BY <1>1, <2>4, Zenon DEF OfUser
    <3> QED
      BY <2>4, <3>1, Zenon
  <2> QED
    BY <2>2, <2>3, <2>4, Zenon
<1> QED
  BY <1>1, <1>2, <1>3, Zenon
\* bus_connections_expire_incomplete closes connections and sets the timeout.
LEMMA ExpireTyped ==
  ASSUME NEW list, NEW conns, conns \subseteq Conns, ExpireIncomplete(list, conns)
  PROVE  open' \subseteq Conns /\ timer' \in BOOLEAN
  BY Zenon DEF ExpireIncomplete

\* Opening, closing and running out of time count nothing.
LEMMA ConnStays ==
  ASSUME ConnInv, UNCHANGED <<stage, incomplete, n_incomplete, n_completed, by_user, leaked>>,
         open' \subseteq Conns, overdue' \subseteq Conns, timer' \in BOOLEAN
  PROVE  ConnInv'
  BY Zenon DEF ConnInv, InStage, OfUser

\* A new connection is incomplete.
LEMMA AcceptCounts ==
  ASSUME ConnInv, NEW c \in Conns, Accept(c)
  PROVE  ConnInv'
<1> DEFINE s == Append(incomplete, c)
           n == Len(incomplete)
<1>1. /\ stage \in [Conns -> Stages] /\ stage[c] # "incomplete" /\ "incomplete" \in Stages
      /\ stage' = [stage EXCEPT ![c] = "incomplete"] /\ stage[c] = "new"
  BY Zenon DEF ConnInv, Accept, Stages
<1>2. /\ incomplete \in Seq(Conns) /\ Once(incomplete) /\ Members(incomplete) = InStage("incomplete")
      /\ n_incomplete = n /\ n_incomplete = Cardinality(InStage("incomplete"))
  BY Zenon DEF ConnInv
<1>3. c \notin Members(incomplete)
  BY <1>1, <1>2, Zenon DEF InStage
<1>4. /\ n \in Nat /\ DOMAIN incomplete = 1..n
      /\ s \in Seq(Conns) /\ Len(s) = n + 1 /\ DOMAIN s = 1..(n + 1)
      /\ s[n + 1] = c /\ \A i \in 1..n : s[i] = incomplete[i]
  <2>1. incomplete \in Seq(Conns)
    BY <1>2, Zenon
  <2> QED
    BY <2>1
<1> HIDE DEF s, n
<1>5. 1..(n + 1) = (1..n) \cup {n + 1} /\ n + 1 \notin 1..n
  BY <1>4
<1>6. Members(s) = Members(incomplete) \cup {c}
  BY <1>4, <1>5 DEF Members
<1>7. Once(s)
  <2>1. \A i \in 1..n : s[i] # s[n + 1]
    BY <1>3, <1>4, Zenon DEF Members
  <2>2. \A i, j \in 1..n : s[i] = s[j] => i = j
    BY <1>2, <1>4, Zenon DEF Once
  <2>3. \A i \in DOMAIN s : i \in 1..n \/ i = n + 1
    BY <1>4, <1>5
  <2> QED
    BY <2>1, <2>2, <2>3, Zenon DEF Once
<1>8. incomplete' = s /\ n_incomplete' = n_incomplete + 1
  BY Zenon DEF Accept, s
<1>9. /\ stage' \in [Conns -> Stages]
      /\ InStage("incomplete")' = InStage("incomplete") \cup {c}
      /\ Cardinality(InStage("incomplete")') = Cardinality(InStage("incomplete")) + 1
      /\ Cardinality(InStage("active")') = Cardinality(InStage("active"))
      /\ \A u \in Users : Cardinality(OfUser(u)') = Cardinality(OfUser(u))
  <2>1. "active" \in Stages /\ stage[c] # "active" /\ "active" # "incomplete"
    BY <1>1, Zenon DEF Stages
  <2> QED
    <3>1. stage' \in [Conns -> Stages]
      BY <1>1, StageMoves, Zenon
    <3>2. ASSUME NEW u \in Users PROVE Cardinality(OfUser(u)') = Cardinality(OfUser(u))
      <4>1. Cardinality(OfUser(u)') = IF UserOf[c] # u THEN Cardinality(OfUser(u))
                                      ELSE IF stage[c] = "active" THEN Cardinality(OfUser(u)) - 1
                                      ELSE IF "incomplete" = "active" THEN Cardinality(OfUser(u)) + 1
                                      ELSE Cardinality(OfUser(u))
        BY <1>1, StageMoves, Zenon
      <4> QED
        BY <2>1, <4>1, Zenon
    <3>3. /\ InStage("incomplete")' = InStage("incomplete") \cup {c}
          /\ Cardinality(InStage("incomplete")') = Cardinality(InStage("incomplete")) + 1
      BY <1>1, StageMoves, Zenon
    <3>4. Cardinality(InStage("active")') = Cardinality(InStage("active"))
      <4>1. Cardinality(InStage("active")') = IF "active" = stage[c] THEN Cardinality(InStage("active")) - 1
                                              ELSE IF "active" = "incomplete"
                                              THEN Cardinality(InStage("active")) + 1
                                              ELSE Cardinality(InStage("active"))
        BY <1>1, <2>1, StageMoves, ZenonT(40)
      <4> QED
        BY <2>1, <4>1, Zenon
    <3> QED
      BY <3>1, <3>2, <3>3, <3>4, Zenon
<1>10. open' \subseteq Conns /\ timer' \in BOOLEAN
  <2> DEFINE conns == open \cup {c}
             left == IF n_incomplete' > MaxIncomplete THEN conns \ {incomplete'[1]} ELSE conns
  <2>1. left \subseteq Conns
    BY Zenon DEF ConnInv
  <2>2. ExpireIncomplete(incomplete', left)
    BY Zenon DEF Accept
  <2> HIDE DEF left
  <2> QED
    BY <2>1, <2>2, ExpireTyped, Zenon
<1>11. /\ UNCHANGED <<n_completed, by_user, leaked, overdue>>
  BY Zenon DEF Accept
<1>12. /\ incomplete' \in Seq(Conns) /\ Once(incomplete)' /\ Members(incomplete)' = InStage("incomplete")'
       /\ n_incomplete' = Len(incomplete') /\ n_incomplete' = Cardinality(InStage("incomplete")')
  BY <1>2, <1>4, <1>6, <1>7, <1>8, <1>9, Zenon
<1> QED
  BY <1>9, <1>10, <1>11, <1>12, Zenon DEF ConnInv

\* A connection leaves the list of incomplete ones.
LEMMA LeavesList ==
  ASSUME ConnInv, NEW c \in Conns, NEW b \in {"active", "gone"}, stage[c] = "incomplete",
         stage' = [stage EXCEPT ![c] = b], incomplete' = Unlink(c), n_incomplete' = n_incomplete - 1
  PROVE  /\ incomplete' \in Seq(Conns) /\ Once(incomplete)'
         /\ Members(incomplete)' = InStage("incomplete")'
         /\ n_incomplete' = Len(incomplete') /\ n_incomplete' = Cardinality(InStage("incomplete")')
<1>1. /\ stage \in [Conns -> Stages] /\ stage[c] # b /\ b \in Stages /\ "incomplete" \in Stages
  BY Zenon DEF ConnInv, Stages
<1>2. /\ incomplete \in Seq(Conns) /\ Once(incomplete) /\ Members(incomplete) = InStage("incomplete")
      /\ n_incomplete = Len(incomplete) /\ n_incomplete = Cardinality(InStage("incomplete"))
  BY Zenon DEF ConnInv
<1>3. c \in Members(incomplete)
  BY <1>2, Zenon DEF InStage
<1>4. /\ InStage("incomplete")' = InStage("incomplete") \ {c}
      /\ Cardinality(InStage("incomplete")') = Cardinality(InStage("incomplete")) - 1
  BY <1>1, StageMoves, Zenon
<1>5. /\ Unlink(c) \in Seq(Conns) /\ Once(Unlink(c))
      /\ Len(Unlink(c)) = Len(incomplete) - 1
      /\ Members(Unlink(c)) = Members(incomplete) \ {c}
  BY <1>2, <1>3, Unlinked, Zenon
<1>6. /\ incomplete' \in Seq(Conns) /\ Once(incomplete)'
      /\ Len(incomplete') = Len(incomplete) - 1
      /\ Members(incomplete)' = Members(incomplete) \ {c}
  BY <1>5, Zenon
<1> QED
  BY <1>2, <1>4, <1>6, Zenon

\* No user is NoConn.
LEMMA UserKnown ==
  ASSUME NEW c \in Conns
  PROVE  NoConn \notin Users /\ UserOf[c] \in Users \cup {NoConn}
  BY PeersAssumption, Zenon

\* Hello counts the connection among the completed ones and for its user.
LEMMA CompleteCounts ==
  ASSUME ConnInv, NEW c \in Conns, Complete(c)
  PROVE  ConnInv'
<1>1. /\ stage \in [Conns -> Stages] /\ stage[c] = "incomplete" /\ stage[c] # "active"
      /\ "active" \in Stages /\ stage' = [stage EXCEPT ![c] = "active"]
  BY Zenon DEF ConnInv, Complete, Stages
<1>2. /\ incomplete' \in Seq(Conns) /\ Once(incomplete)' /\ Members(incomplete)' = InStage("incomplete")'
      /\ n_incomplete' = Len(incomplete') /\ n_incomplete' = Cardinality(InStage("incomplete")')
  BY <1>1, LeavesList, Zenon DEF Complete
<1>3. /\ stage' \in [Conns -> Stages]
      /\ Cardinality(InStage("active")') = Cardinality(InStage("active")) + 1
      /\ \A u \in Users : Cardinality(OfUser(u)') = IF UserOf[c] # u THEN Cardinality(OfUser(u))
                                                   ELSE Cardinality(OfUser(u)) + 1
  BY <1>1, StageMoves, Zenon
<1>4. n_completed' = Cardinality(InStage("active")') /\ n_completed' <= MaxCompleted
  <2>1. Cardinality(InStage("active")) \in Nat /\ MaxCompleted \in Nat
    BY ConnsFinite, PeersAssumption, Zenon DEF InStage
  <2>2. n_completed = Cardinality(InStage("active")) /\ n_completed < MaxCompleted
        /\ n_completed' = n_completed + 1
    BY Zenon DEF ConnInv, Complete, CheckLimits
  <2> QED
    BY <1>3, <2>1, <2>2
<1>5. /\ by_user' \in [Users -> Nat]
      /\ \A u \in Users : by_user'[u] = Cardinality(OfUser(u)') + leaked[u] /\ by_user'[u] <= MaxPerUser
  <2>1. /\ by_user \in [Users -> Nat] /\ leaked \in [Users -> Nat] /\ MaxPerUser \in Nat
        /\ \A u \in Users : by_user[u] = Cardinality(OfUser(u)) + leaked[u] /\ by_user[u] <= MaxPerUser
    BY PeersAssumption, Zenon DEF ConnInv
  <2>2. \A u \in Users : Cardinality(OfUser(u)) \in Nat
    BY ConnsFinite, Zenon DEF OfUser
  <2>3. CASE UserOf[c] = NoConn
    <3>1. by_user' = by_user
      BY <2>3, Zenon DEF Complete, AdjustForUser
    <3> QED
      BY <1>3, <2>1, <2>3, <3>1, UserKnown, Zenon
  <2>4. CASE UserOf[c] # NoConn
    <3>1. UserOf[c] \in Users /\ by_user[UserOf[c]] < MaxPerUser
          /\ by_user' = [by_user EXCEPT ![UserOf[c]] = @ + 1]
      BY <2>4, UserKnown, Zenon DEF Complete, CheckLimits, AdjustForUser
    <3> QED
      BY <1>3, <2>1, <2>2, <3>1
  <2> QED
    BY <2>3, <2>4, Zenon
<1>6. open' \subseteq Conns /\ timer' \in BOOLEAN
  BY ExpireTyped, Zenon DEF Complete, ConnInv
<1>7. leaked' = leaked /\ overdue' \subseteq Conns
  BY Zenon DEF Complete, ConnInv
<1>8. leaked' \in [Users -> Nat]
  BY <1>7, Zenon DEF ConnInv
<1> QED
  BY <1>2, <1>3, <1>4, <1>5, <1>6, <1>7, <1>8, Zenon DEF ConnInv
\* A connection for which there is no memory was never counted.
LEMMA AcceptOomCounts ==
  ASSUME ConnInv, NEW c \in Conns, AcceptOom(c)
  PROVE  ConnInv'
<1>1. /\ stage \in [Conns -> Stages] /\ stage[c] = "new" /\ stage' = [stage EXCEPT ![c] = "gone"]
      /\ UNCHANGED <<open, incomplete, n_incomplete, n_completed, by_user, leaked, overdue, timer>>
  BY Zenon DEF ConnInv, AcceptOom
<1>2. /\ stage'[c] = "gone" /\ \A d \in Conns \ {c} : stage'[d] = stage[d]
      /\ stage' \in [Conns -> Stages]
  BY <1>1, Zenon DEF Stages
<1>3. InStage("incomplete")' = InStage("incomplete") /\ InStage("active")' = InStage("active")
  BY <1>1, <1>2, Zenon DEF InStage
<1>4. \A u \in Users : OfUser(u)' = OfUser(u)
  BY <1>1, <1>2, Zenon DEF OfUser
<1>5. Once(incomplete)' /\ Members(incomplete)' = Members(incomplete)
  BY <1>1, Zenon DEF ConnInv, Once, Members
<1> QED
  BY <1>1, <1>2, <1>3, <1>4, <1>5, Zenon DEF ConnInv

\* A failed Hello raises the count of the user, and that is all.
LEMMA CompleteOomCounts ==
  ASSUME ConnInv, NEW c \in Conns, CompleteOom(c)
  PROVE  ConnInv'
<1>1. /\ UserOf[c] \in Users /\ by_user[UserOf[c]] < MaxPerUser
      /\ by_user' = [by_user EXCEPT ![UserOf[c]] = @ + 1]
      /\ leaked' = [leaked EXCEPT ![UserOf[c]] = @ + 1]
      /\ UNCHANGED <<stage, open, incomplete, n_incomplete, n_completed, overdue, timer>>
  BY UserKnown, Zenon DEF CompleteOom, CheckLimits, AdjustForUser
<1>2. /\ by_user \in [Users -> Nat] /\ leaked \in [Users -> Nat] /\ MaxPerUser \in Nat
      /\ \A u \in Users : by_user[u] = Cardinality(OfUser(u)) + leaked[u] /\ by_user[u] <= MaxPerUser
  BY PeersAssumption, Zenon DEF ConnInv
<1>3. \A u \in Users : Cardinality(OfUser(u)) \in Nat
  BY ConnsFinite, Zenon DEF OfUser
<1>4. /\ by_user' \in [Users -> Nat] /\ leaked' \in [Users -> Nat]
      /\ \A u \in Users : by_user'[u] = Cardinality(OfUser(u)) + leaked'[u] /\ by_user'[u] <= MaxPerUser
  BY <1>1, <1>2, <1>3
<1>5. \A u \in Users : OfUser(u)' = OfUser(u)
  BY <1>1, Zenon DEF OfUser
<1>6. InStage("incomplete")' = InStage("incomplete") /\ InStage("active")' = InStage("active")
  BY <1>1, Zenon DEF InStage
<1>7. Once(incomplete)' /\ Members(incomplete)' = Members(incomplete)
  BY <1>1, Zenon DEF ConnInv, Once, Members
<1> QED
  BY <1>1, <1>4, <1>5, <1>6, <1>7, Zenon DEF ConnInv

\* The end of a connection gives back what it counted for.
LEMMA DisconnectedCounts ==
  ASSUME ConnInv, NEW c \in Conns, Disconnected(c)
  PROVE  ConnInv'
<1>1. /\ stage \in [Conns -> Stages] /\ stage[c] # "gone" /\ "gone" \in Stages
      /\ stage' = [stage EXCEPT ![c] = "gone"] /\ UNCHANGED <<open, leaked, timer>>
      /\ "active" \in Stages /\ "incomplete" \in Stages
  BY Zenon DEF ConnInv, Disconnected, Stages
<1>2. stage' \in [Conns -> Stages]
  BY <1>1, Zenon
<1>3. \A u \in Users : Cardinality(OfUser(u)) \in Nat
  BY ConnsFinite, Zenon DEF OfUser
<1>4. \A u \in Users : Cardinality(OfUser(u)') \in Nat
  <2>1. ASSUME NEW u \in Users PROVE OfUser(u)' \subseteq Conns
    BY Zenon DEF OfUser
  <2> QED
    BY <2>1, ConnsFinite, Zenon
<1>5. Cardinality(InStage("active")) \in Nat /\ MaxCompleted \in Nat /\ MaxPerUser \in Nat
  BY ConnsFinite, PeersAssumption, Zenon DEF InStage
<1>6. /\ by_user \in [Users -> Nat] /\ leaked \in [Users -> Nat]
      /\ \A u \in Users : by_user[u] = Cardinality(OfUser(u)) + leaked[u] /\ by_user[u] <= MaxPerUser
      /\ n_completed = Cardinality(InStage("active")) /\ n_completed <= MaxCompleted
      /\ incomplete \in Seq(Conns) /\ Once(incomplete) /\ Members(incomplete) = InStage("incomplete")
      /\ n_incomplete = Len(incomplete) /\ n_incomplete = Cardinality(InStage("incomplete"))
      /\ open \subseteq Conns /\ overdue \subseteq Conns /\ timer \in BOOLEAN
  BY Zenon DEF ConnInv
<1>7. CASE stage[c] = "active"
  <2>1. /\ n_completed' = n_completed - 1 /\ AdjustForUser(c, -1)
        /\ UNCHANGED <<incomplete, n_incomplete, overdue>>
    BY <1>7, Zenon DEF Disconnected
  <2>2. InStage("incomplete")' = InStage("incomplete")
    BY <1>1, <1>7, Zenon DEF InStage
  <2>3. Cardinality(InStage("active")') = Cardinality(InStage("active")) - 1
    BY <1>1, <1>7, StageMoves, Zenon
  <2>4. \A u \in Users : Cardinality(OfUser(u)') = IF UserOf[c] # u THEN Cardinality(OfUser(u))
                                                  ELSE Cardinality(OfUser(u)) - 1
    BY <1>1, <1>7, StageMoves, Zenon
  <2>5. /\ by_user' \in [Users -> Nat]
        /\ \A u \in Users : by_user'[u] = Cardinality(OfUser(u)') + leaked[u] /\ by_user'[u] <= MaxPerUser
    <3>1. CASE UserOf[c] = NoConn
      <4>1. by_user' = by_user
        BY <2>1, <3>1, Zenon DEF AdjustForUser
      <4>2. \A u \in Users : UserOf[c] # u
        BY <3>1, UserKnown, Zenon
      <4> QED
        BY <1>6, <2>4, <4>1, <4>2, Zenon
    <3>2. CASE UserOf[c] # NoConn
      <4>1. UserOf[c] \in Users /\ by_user' = [by_user EXCEPT ![UserOf[c]] = @ + (-1)]
        BY <2>1, <3>2, UserKnown, Zenon DEF AdjustForUser
      <4>2. \A u \in Users : by_user'[u] = IF UserOf[c] # u THEN by_user[u] ELSE by_user[u] + (-1)
        BY <1>6, <4>1, Zenon
      <4>3. ASSUME NEW u \in Users
            PROVE  by_user'[u] = Cardinality(OfUser(u)') + leaked[u] /\ by_user'[u] <= MaxPerUser
        <5>1. PICK x : x = Cardinality(OfUser(u))
          BY Zenon
        <5>2. PICK y : y = Cardinality(OfUser(u)')
          BY Zenon
        <5>3. /\ x \in Nat /\ leaked[u] \in Nat /\ by_user[u] \in Nat
              /\ by_user[u] = x + leaked[u] /\ by_user[u] <= MaxPerUser
              /\ y = IF UserOf[c] # u THEN x ELSE x - 1
          BY <1>3, <1>6, <2>4, <5>1, <5>2, Zenon
        <5>4. by_user'[u] = y + leaked[u] /\ by_user'[u] <= MaxPerUser
          BY <1>5, <4>2, <5>3
        <5> QED
          BY <5>2, <5>4, Zenon
      <4>4. \A u \in Users : by_user'[u] \in Nat
        BY <1>4, <1>6, <4>3
      <4> QED
        BY <1>6, <4>1, <4>3, <4>4, Zenon
    <3> QED
      BY <3>1, <3>2, Zenon
  <2>6. n_completed' = Cardinality(InStage("active")') /\ n_completed' <= MaxCompleted
    BY <1>5, <1>6, <2>1, <2>3
  <2>7. Once(incomplete)' /\ Members(incomplete)' = Members(incomplete)
    BY <1>6, <2>1, Zenon DEF Once, Members
  <2> QED
    BY <1>1, <1>2, <1>6, <2>1, <2>2, <2>5, <2>6, <2>7, Zenon DEF ConnInv
<1>8. CASE stage[c] = "incomplete"
  <2>1. /\ n_incomplete' = n_incomplete - 1 /\ incomplete' = Unlink(c) /\ overdue' = overdue \ {c}
        /\ UNCHANGED <<n_completed, by_user>>
    BY <1>8, Zenon DEF Disconnected
  <2>2. /\ incomplete' \in Seq(Conns) /\ Once(incomplete)'
        /\ Members(incomplete)' = InStage("incomplete")'
        /\ n_incomplete' = Len(incomplete') /\ n_incomplete' = Cardinality(InStage("incomplete")')
    BY <1>1, <1>8, <2>1, LeavesList, Zenon
  <2>3. InStage("active")' = InStage("active") /\ \A u \in Users : OfUser(u)' = OfUser(u)
    BY <1>1, <1>8, Zenon DEF InStage, OfUser
  <2> QED
    BY <1>1, <1>2, <1>6, <2>1, <2>2, <2>3, Zenon DEF ConnInv
<1> QED
  BY <1>7, <1>8, Zenon DEF Disconnected
-----------------------------------------------------------------------------
(***************************************************************************)
(* The match rules.                                                        *)
(***************************************************************************)
Of(c) == {rule \in Rules : rule.go_to = c}

RuleInv == all_rules \in Seq(Rules) /\ n_match_rules \in [Conns -> Nat] /\ RulesExact

\* The rules of a connection, as positions that hold one.
LEMMA OwnedHits ==
  ASSUME NEW list \in Seq(Rules), NEW c
  PROVE  Owned(list, c) = Hits(list, Of(c))
<1>1. \A i \in DOMAIN list : list[i] \in Rules
  OBVIOUS
<1> QED
  BY <1>1, Zenon DEF Owned, Hits, Of

\* Rules and stages stay, or nobody with rules leaves the active stage.
LEMMA RulesStay ==
  ASSUME RuleInv, Quiet, \A c \in Conns : stage[c] = "active" => stage'[c] = "active"
  PROVE  RuleInv'
<1>1. all_rules' = all_rules /\ n_match_rules' = n_match_rules
  BY Zenon DEF Quiet
<1>2. \A i \in DOMAIN all_rules : all_rules[i].go_to \in Conns /\ stage[all_rules[i].go_to] = "active"
  <2>1. \A i \in DOMAIN all_rules : all_rules[i] \in Rules
    BY DEF RuleInv
  <2> QED
    BY <2>1, GoTo, Zenon DEF RuleInv, RulesExact
<1>3. \A c \in Conns : n_match_rules[c] = Cardinality(Owned(all_rules, c)) /\ n_match_rules[c] <= MaxMatches
  BY Zenon DEF RuleInv, RulesExact
<1>4. RulesExact'
  BY <1>1, <1>2, <1>3, Zenon DEF RulesExact, Owned
<1> QED
  BY <1>1, <1>4, Zenon DEF RuleInv

\* AddMatch counts one rule more.
LEMMA AddMatchExact ==
  ASSUME RuleInv, NEW rule \in Rules, AddMatch(rule.go_to, rule)
  PROVE  RuleInv'
<1> DEFINE s == Append(all_rules, rule)
           n == Len(all_rules)
<1>1. PICK c \in Conns : c = rule.go_to
  BY GoTo, Zenon
<1>2. /\ all_rules \in Seq(Rules) /\ n_match_rules \in [Conns -> Nat] /\ MaxMatches \in Nat
      /\ \A i \in DOMAIN all_rules : stage[all_rules[i].go_to] = "active"
      /\ \A d \in Conns : n_match_rules[d] = Cardinality(Owned(all_rules, d)) /\ n_match_rules[d] <= MaxMatches
  BY PeersAssumption, Zenon DEF RuleInv, RulesExact
<1>3. /\ stage[c] = "active" /\ n_match_rules[c] < MaxMatches /\ all_rules' = s /\ stage' = stage
      /\ n_match_rules' = [n_match_rules EXCEPT ![c] = @ + 1]
  BY <1>1, Zenon DEF AddMatch, connVars
<1>4. /\ s \in Seq(Rules) /\ n \in Nat /\ DOMAIN s = 1..(n + 1) /\ s[n + 1] = rule
      /\ DOMAIN all_rules = 1..n /\ \A i \in 1..n : s[i] = all_rules[i]
  <2>1. all_rules \in Seq(Rules)
    BY <1>2, Zenon
  <2> QED
    BY <2>1
<1>5. ASSUME NEW d \in Conns
      PROVE  Cardinality(Owned(s, d)) = IF d = c THEN Cardinality(Owned(all_rules, d)) + 1
                                        ELSE Cardinality(Owned(all_rules, d))
  <2>1. Owned(s, d) = Hits(s, Of(d)) /\ Owned(all_rules, d) = Hits(all_rules, Of(d))
    BY <1>2, <1>4, OwnedHits, Zenon
  <2>2. rule \in Of(d) <=> d = c
    BY <1>1, Zenon DEF Of
  <2>3. Cardinality(Hits(s, Of(d))) = IF rule \in Of(d) THEN Cardinality(Hits(all_rules, Of(d))) + 1
                                      ELSE Cardinality(Hits(all_rules, Of(d)))
    BY <1>2, HitsAppend, ZenonT(40)
  <2> QED
    BY <2>1, <2>2, <2>3, Zenon
<1> HIDE DEF s, n
<1>6. n_match_rules' \in [Conns -> Nat]
  BY <1>2, <1>3
<1>7. \A i \in DOMAIN s : stage[s[i].go_to] = "active"
  <2>1. \A i \in DOMAIN s : i \in 1..n \/ i = n + 1
    BY <1>4
  <2> QED
    BY <1>1, <1>2, <1>3, <1>4, <2>1, Zenon
<1>8. ASSUME NEW d \in Conns
      PROVE  n_match_rules'[d] = Cardinality(Owned(s, d)) /\ n_match_rules'[d] <= MaxMatches
  <2>1. CASE d = c
    BY <1>2, <1>3, <1>5, <2>1
  <2>2. CASE d # c
    BY <1>2, <1>3, <1>5, <2>2, Zenon
  <2> QED
    BY <2>1, <2>2, Zenon
<1>9. RulesExact'
  BY <1>3, <1>7, <1>8, Zenon DEF RulesExact, Owned
<1> QED
  BY <1>3, <1>4, <1>6, <1>9, Zenon DEF RuleInv

\* RemoveMatch counts one rule less.
LEMMA RemoveMatchExact ==
  ASSUME RuleInv, NEW rule \in Rules, RemoveMatch(rule.go_to, rule)
  PROVE  RuleInv'
<1>1. PICK c \in Conns : c = rule.go_to
  BY GoTo, Zenon
<1>2. PICK i \in DOMAIN all_rules : all_rules[i] = rule /\ all_rules' = RemoveLink(all_rules, i)
  BY Zenon DEF RemoveMatch
<1> DEFINE s == RemoveLink(all_rules, i)
           n == Len(all_rules)
<1>3. /\ all_rules \in Seq(Rules) /\ n_match_rules \in [Conns -> Nat] /\ MaxMatches \in Nat
      /\ \A j \in DOMAIN all_rules : stage[all_rules[j].go_to] = "active"
      /\ \A d \in Conns : n_match_rules[d] = Cardinality(Owned(all_rules, d)) /\ n_match_rules[d] <= MaxMatches
  BY PeersAssumption, Zenon DEF RuleInv, RulesExact
<1>4. stage' = stage /\ n_match_rules' = [n_match_rules EXCEPT ![c] = @ - 1]
  BY <1>1, Zenon DEF RemoveMatch, connVars
<1>5. /\ s \in Seq(Rules) /\ Len(s) = n - 1
      /\ \A j \in 1..(n - 1) : s[j] = IF j < i THEN all_rules[j] ELSE all_rules[j + 1]
  BY <1>3, LinkRemoved, Zenon
<1>6. ASSUME NEW d \in Conns
      PROVE  /\ Cardinality(Owned(s, d)) = IF d = c THEN Cardinality(Owned(all_rules, d)) - 1
                                           ELSE Cardinality(Owned(all_rules, d))
             /\ Cardinality(Owned(s, d)) \in Nat
  <2>1. Owned(s, d) = Hits(s, Of(d)) /\ Owned(all_rules, d) = Hits(all_rules, Of(d))
    BY <1>3, <1>5, OwnedHits, Zenon
  <2>2. all_rules[i] \in Of(d) <=> d = c
    BY <1>1, <1>2, Zenon DEF Of
  <2>3. Cardinality(Hits(s, Of(d))) = IF all_rules[i] \in Of(d) THEN Cardinality(Hits(all_rules, Of(d))) - 1
                                      ELSE Cardinality(Hits(all_rules, Of(d)))
    BY <1>3, HitsRemoved
  <2>4. Cardinality(Hits(s, Of(d))) \in Nat
    BY <1>5, HitsFinite, Zenon
  <2> QED
    BY <2>1, <2>2, <2>3, <2>4, Zenon
<1>7. n \in Nat /\ i \in 1..n /\ DOMAIN all_rules = 1..n /\ DOMAIN s = 1..(n - 1)
  <2>1. all_rules \in Seq(Rules)
    BY <1>3, Zenon
  <2>2. s \in Seq(Rules) /\ Len(s) = n - 1
    BY <1>5, Zenon
  <2> HIDE DEF s
  <2> QED
    BY <1>2, <2>1, <2>2
<1> HIDE DEF s, n
<1>8. ASSUME NEW j \in DOMAIN s PROVE stage[s[j].go_to] = "active"
  <2>1. PICK k \in DOMAIN all_rules : s[j] = all_rules[k]
    <3>1. j \in DOMAIN all_rules /\ j + 1 \in DOMAIN all_rules
      BY <1>7
    <3> QED
      BY <1>5, <1>7, <3>1, Zenon
  <2> QED
    BY <1>3, <2>1, Zenon
<1>9. ASSUME NEW d \in Conns
      PROVE  /\ n_match_rules'[d] = Cardinality(Owned(s, d)) /\ n_match_rules'[d] <= MaxMatches
             /\ n_match_rules'[d] \in Nat
  <2>1. CASE d = c
    BY <1>3, <1>4, <1>6, <2>1, SMTT(30)
  <2>2. CASE d # c
    BY <1>3, <1>4, <1>6, <2>2, Zenon
  <2> QED
    BY <2>1, <2>2, Zenon
<1>10. all_rules' = s
  BY <1>2, Zenon DEF s
<1>11. n_match_rules' \in [Conns -> Nat]
  BY <1>3, <1>4, <1>9, Zenon
<1>12. RulesExact'
  BY <1>4, <1>8, <1>9, <1>10, Zenon DEF RulesExact, Owned
<1> QED
  BY <1>5, <1>10, <1>11, <1>12, Zenon DEF RuleInv
\* bus_matchmaker_disconnected removes the rules that concern the connection and
\* tells the connections they go to.
LEMMA MatchmakerExact ==
  ASSUME RuleInv, NEW c \in Conns, MatchmakerDisconnected(c), stage' = [stage EXCEPT ![c] = "gone"],
         stage \in [Conns -> Stages]
  PROVE  RuleInv'
<1> DEFINE positions == DOMAIN all_rules \ Concerning(c)
           s == Kept(all_rules, positions)
           n == Len(all_rules)
<1>1. /\ all_rules \in Seq(Rules) /\ n_match_rules \in [Conns -> Nat] /\ MaxMatches \in Nat
      /\ \A j \in DOMAIN all_rules : stage[all_rules[j].go_to] = "active"
      /\ \A d \in Conns : n_match_rules[d] = Cardinality(Owned(all_rules, d)) /\ n_match_rules[d] <= MaxMatches
  BY PeersAssumption, Zenon DEF RuleInv, RulesExact
<1>2. n \in Nat /\ DOMAIN all_rules = 1..n
  <2>1. all_rules \in Seq(Rules)
    BY <1>1, Zenon
  <2> QED
    BY <2>1
<1>3. all_rules' = s /\ n_match_rules' = [d \in Conns |-> n_match_rules[d] - Cardinality(GoneOf(c, d))]
  BY Zenon DEF MatchmakerDisconnected
<1>4. s \in Seq(Rules)
  BY <1>1, KeptCount, Zenon
<1>5. ASSUME NEW d \in Conns
      PROVE  /\ Cardinality(Owned(s, d)) = Cardinality(Owned(all_rules, d)) - Cardinality(GoneOf(c, d))
             /\ Cardinality(Owned(s, d)) \in Nat /\ Cardinality(GoneOf(c, d)) \in Nat
  <2> DEFINE O == Owned(all_rules, d)
             G == GoneOf(c, d)
  <2>1. Owned(s, d) = Hits(s, Of(d)) /\ O = Hits(all_rules, Of(d))
    BY <1>1, <1>4, OwnedHits, Zenon
  <2>2. Cardinality(Hits(s, Of(d))) = Cardinality(Chosen(all_rules, positions, Of(d), n))
    BY <1>1, KeptCount, Zenon
  <2>3. \A i \in 1..n : all_rules[i] \in Of(d) <=> i \in O
    BY <1>1, <1>2, <2>1, Zenon DEF Hits
  <2>4. O \subseteq 1..n /\ G = Concerning(c) \cap O
    BY <1>2, Zenon DEF Owned, GoneOf
  <2>5. Chosen(all_rules, positions, Of(d), n) = O \ G
    BY <1>2, <2>3, <2>4, Zenon DEF Chosen
  <2>6. IsFiniteSet(O) /\ Cardinality(O) \in Nat
    BY <1>1, <2>1, HitsFinite, Zenon
  <2> HIDE DEF O, G
  <2>7. G \subseteq O
    BY <2>4, Zenon
  <2>8. IsFiniteSet(G) /\ Cardinality(G) \in Nat /\ IsFiniteSet(O \ G) /\ Cardinality(O \ G) \in Nat
    BY <2>6, <2>7, FS_Subset, FS_CardinalityType, Zenon
  <2>9. Cardinality(O \ G) = Cardinality(O) - Cardinality(G)
    <3>1. Cardinality(O \ G) = Cardinality(O) - Cardinality(O \cap G)
      BY <2>6, FS_Difference, Zenon
    <3>2. O \cap G = G
      BY <2>7, Zenon
    <3> QED
      BY <3>1, <3>2, Zenon
  <2> QED
    BY <2>1, <2>2, <2>5, <2>8, <2>9, Zenon DEF O, G
<1>6. ASSUME NEW i \in DOMAIN s PROVE stage'[s[i].go_to] = "active"
  <2>1. s[i] \in Rules
    BY <1>4
  <2>2. i \in Hits(s, {s[i]})
    BY Zenon DEF Hits
  <2>3. IsFiniteSet(Hits(s, {s[i]})) /\ Cardinality(Hits(s, {s[i]})) # 0
    BY <1>4, <2>2, HitsFinite, FS_EmptySet, Zenon
  <2>4. Cardinality(Chosen(all_rules, positions, {s[i]}, n)) # 0
    BY <1>1, <2>3, KeptCount, Zenon
  <2>5. PICK j \in Chosen(all_rules, positions, {s[i]}, n) : TRUE
    BY <2>4, FS_EmptySet, Zenon
  <2>6. j \in DOMAIN all_rules /\ j \notin Concerning(c) /\ all_rules[j] = s[i]
    BY <1>2, <2>5, Zenon DEF Chosen
  <2>7. s[i].go_to # c /\ stage[s[i].go_to] = "active"
    BY <1>1, <2>6, Zenon DEF Concerning, Concerns
  <2>8. s[i].go_to \in Conns
    BY <2>1, GoTo, Zenon
  <2> HIDE DEF s
  <2> QED
    BY <2>7, <2>8, Zenon
<1> HIDE DEF s
<1>7. ASSUME NEW d \in Conns
      PROVE  /\ n_match_rules'[d] = Cardinality(Owned(s, d)) /\ n_match_rules'[d] <= MaxMatches
             /\ n_match_rules'[d] \in Nat
  <2>1. PICK x : x = Cardinality(Owned(s, d))
    BY Zenon
  <2>2. PICK y : y = Cardinality(GoneOf(c, d))
    BY Zenon
  <2>3. /\ n_match_rules[d] \in Nat /\ n_match_rules[d] <= MaxMatches /\ x \in Nat /\ y \in Nat
        /\ x = n_match_rules[d] - y
    BY <1>1, <1>5, <2>1, <2>2, Zenon
  <2>4. n_match_rules'[d] = n_match_rules[d] - y
    BY <1>3, <2>2, Zenon
  <2>5. n_match_rules'[d] = x /\ x <= MaxMatches
    BY <1>1, <2>3, <2>4
  <2> QED
    BY <2>1, <2>3, <2>5, Zenon
<1>8. n_match_rules' \in [Conns -> Nat]
  BY <1>3, <1>7, Zenon
<1>9. RulesExact'
  BY <1>3, <1>6, <1>7, Zenon DEF RulesExact, Owned
<1> QED
  BY <1>3, <1>4, <1>8, <1>9, Zenon DEF RuleInv

\* When a connection ends no rule goes to it any more.
LEMMA DisconnectedExact ==
  ASSUME ConnInv, RuleInv, NEW c \in Conns, Disconnected(c)
  PROVE  RuleInv'
<1>1. stage \in [Conns -> Stages] /\ stage' = [stage EXCEPT ![c] = "gone"]
  BY Zenon DEF ConnInv, Disconnected
<1>2. CASE n_match_rules[c] > 0
  BY <1>1, <1>2, MatchmakerExact, Zenon DEF Disconnected
<1>3. CASE ~(n_match_rules[c] > 0)
  <2>1. /\ all_rules \in Seq(Rules) /\ n_match_rules \in [Conns -> Nat]
        /\ \A j \in DOMAIN all_rules : stage[all_rules[j].go_to] = "active"
        /\ \A d \in Conns : n_match_rules[d] = Cardinality(Owned(all_rules, d)) /\ n_match_rules[d] <= MaxMatches
    BY Zenon DEF RuleInv, RulesExact
  <2>2. all_rules' = all_rules /\ n_match_rules' = n_match_rules
    BY <1>3, Zenon DEF Disconnected
  <2>3. n_match_rules[c] = 0
    BY <1>3, <2>1, SMTT(30)
  <2>4. Owned(all_rules, c) = {}
    <3>1. Owned(all_rules, c) = Hits(all_rules, Of(c)) /\ IsFiniteSet(Hits(all_rules, Of(c)))
      BY <2>1, OwnedHits, HitsFinite, Zenon
    <3> QED
      BY <2>1, <2>3, <3>1, FS_EmptySet, Zenon
  <2>5. ASSUME NEW j \in DOMAIN all_rules PROVE stage'[all_rules[j].go_to] = "active"
    <3>1. all_rules[j] \in Rules
      BY <2>1
    <3>2. all_rules[j].go_to \in Conns \ {c}
      BY <2>4, <3>1, GoTo, Zenon DEF Owned
    <3> QED
      BY <1>1, <2>1, <3>2, Zenon
  <2>6. RulesExact'
    BY <2>1, <2>2, <2>5, Zenon DEF RulesExact, Owned
  <2> QED
    BY <2>1, <2>2, <2>6, Zenon DEF RuleInv
<1> QED
  BY <1>2, <1>3, Zenon
-----------------------------------------------------------------------------
(***************************************************************************)
(* Routing.                                                                *)
(***************************************************************************)

\* The connection is the destination, or one of the first m rules asks for it.
Asked(c, s, d, content, m) ==
  c = d \/ \E i \in 1..m : all_rules[i].go_to = c /\ Matches(all_rules[i], s, d, content)

\* The members of a list are what is hit.
LEMMA MemberHit ==
  ASSUME NEW R, NEW list \in Seq(R), NEW x
  PROVE  x \in Members(list) <=> Cardinality(Hits(list, {x})) # 0
<1>1. x \in Members(list) <=> Hits(list, {x}) # {}
  BY Zenon DEF Members, Hits
<1>2. IsFiniteSet(Hits(list, {x}))
  BY HitsFinite, Zenon
<1> QED
  BY <1>1, <1>2, FS_EmptySet, Zenon

\* bus_matchmaker_get_recipients finds each connection that is asked for once.
LEMMA RecipientsCount ==
  ASSUME all_rules \in Seq(Rules), NEW s, NEW d, NEW content, NEW c \in Conns
  PROVE  /\ GetRecipients(s, d, content) \in Seq(Conns)
         /\ Cardinality(Hits(GetRecipients(s, d, content), {c}))
              = IF Asked(c, s, d, content, Len(all_rules)) THEN 1 ELSE 0
<1> DEFINE n == Len(all_rules)
           N(list) == Cardinality(Hits(list, {c}))
           A(m) == Asked(c, s, d, content, m)
<1>1. n \in Nat /\ \A i \in 1..n : all_rules[i].go_to \in Conns
  <2>1. n \in Nat /\ \A i \in 1..n : all_rules[i] \in Rules
    OBVIOUS
  <2> QED
    BY <2>1, GoTo, Zenon
<1>2. PICK h \in [0..n -> Seq(Conns)] :
        /\ h[0] = First(d) /\ GetRecipients(s, d, content) = h[n]
        /\ \A i \in 1..n : h[i] = IF Finds(all_rules[i], s, d, content, h[i - 1])
                                  THEN Append(h[i - 1], all_rules[i].go_to) ELSE h[i - 1]
  BY RecipientsLoop
<1> HIDE DEF n
<1> DEFINE S == {i \in 0..n : N(h[i]) = IF A(i) THEN 1 ELSE 0}
<1>3. 0 \in S
  <2>1. A(0) <=> c = d
    BY DEF Asked
  <2>2. N(First(d)) = IF c = d THEN 1 ELSE 0
    <3>1. CASE c = d
      <4>1. Hits(First(d), {c}) = {1}
        BY <3>1 DEF First, Hits
      <4> QED
        BY <3>1, <4>1, FS_Singleton, Zenon
    <3>2. CASE c # d
      <4>1. Hits(First(d), {c}) = {}
        BY <3>2 DEF First, Hits
      <4> QED
        BY <3>2, <4>1, FS_EmptySet, Zenon
    <3> QED
      BY <3>1, <3>2, Zenon
  <2> HIDE DEF A, N
  <2> QED
    BY <1>1, <1>2, <2>1, <2>2
<1>4. ASSUME NEW i \in S, i < n PROVE i + 1 \in S
  <2>1. i \in Nat /\ i + 1 \in 1..n /\ (i + 1) - 1 = i /\ i + 1 \in 0..n /\ i \in 0..n
    BY <1>1, <1>4
  <2>2. PICK x \in Conns : x = all_rules[i + 1].go_to
    BY <1>1, <2>1, Zenon
  <2>3. h[i] \in Seq(Conns) /\ N(h[i]) = IF A(i) THEN 1 ELSE 0
    BY <1>2, <2>1, Zenon
  <2>4. h[i + 1] = IF Finds(all_rules[i + 1], s, d, content, h[i]) THEN Append(h[i], x) ELSE h[i]
    BY <1>2, <2>1, <2>2, Zenon
  <2>5. A(i + 1) <=> A(i) \/ (x = c /\ Matches(all_rules[i + 1], s, d, content))
    <3>1. 1..(i + 1) = (1..i) \cup {i + 1}
      BY <2>1
    <3> QED
      BY <2>2, <3>1, Zenon DEF Asked
  <2>6. N(Append(h[i], x)) = IF x = c THEN N(h[i]) + 1 ELSE N(h[i])
    <3>1. x \in {c} <=> x = c
      BY Zenon
    <3> QED
      BY <2>3, <3>1, HitsAppend
  <2>7. c \in Members(h[i]) <=> N(h[i]) # 0
    BY <2>3, MemberHit, Zenon
  <2> HIDE DEF A, N
  <2>8. N(h[i + 1]) = IF A(i + 1) THEN 1 ELSE 0
    <3>1. CASE x = c /\ Matches(all_rules[i + 1], s, d, content)
      <4>1. Finds(all_rules[i + 1], s, d, content, h[i]) <=> c \notin Members(h[i])
        BY <2>2, <3>1, Zenon DEF Finds
      <4>2. CASE A(i)
        BY <2>3, <2>4, <2>5, <2>7, <4>1, <4>2, SMTT(30)
      <4>3. CASE ~A(i)
        <5>1. N(h[i]) = 0 /\ h[i + 1] = Append(h[i], x)
          BY <2>3, <2>4, <2>7, <4>1, <4>3, Zenon
        <5> QED
          BY <2>5, <2>6, <3>1, <5>1, SMTT(30)
      <4> QED
        BY <4>2, <4>3, Zenon
    <3>2. CASE ~(x = c /\ Matches(all_rules[i + 1], s, d, content))
      <4>1. A(i + 1) <=> A(i)
        BY <2>5, <3>2, Zenon
      <4>2. N(h[i + 1]) = N(h[i])
        <5>1. CASE Finds(all_rules[i + 1], s, d, content, h[i])
          <6>1. x # c
            BY <3>2, <5>1, Zenon DEF Finds
          <6> QED
            BY <2>4, <2>6, <5>1, <6>1, Zenon
        <5>2. CASE ~Finds(all_rules[i + 1], s, d, content, h[i])
          BY <2>4, <5>2, Zenon
        <5> QED
          BY <5>1, <5>2, Zenon
      <4> QED
        BY <2>3, <4>1, <4>2, Zenon
    <3> QED
      BY <3>1, <3>2, Zenon
  <2> QED
    BY <2>1, <2>8, Zenon
<1>5. n \in S
  <2>1. S \in SUBSET (0..n) /\ n \in 0..n
    BY <1>1
  <2> HIDE DEF S
  <2> QED
    BY <1>1, <1>3, <1>4, <2>1, Upto, Zenon
<1>6. h[n] \in Seq(Conns)
  BY <1>1, <1>2
<1> QED
  BY <1>2, <1>5, <1>6, Zenon DEF n

\* bus_dispatch_matches sends to each of them whom the policy permits, once.
LEMMA Routed ==
  ASSUME all_rules \in Seq(Rules), NEW s, NEW d, NEW content, NEW c \in Conns
  PROVE  Cardinality(Hits(DispatchMatches(s, d, content), {c}))
           = IF Asked(c, s, d, content, Len(all_rules)) /\ <<s, c>> \notin Refused THEN 1 ELSE 0
<1> DEFINE g == GetRecipients(s, d, content)
           positions == {i \in DOMAIN g : <<s, g[i]>> \notin Refused}
<1>1. /\ g \in Seq(Conns)
      /\ Cardinality(Hits(g, {c})) = IF Asked(c, s, d, content, Len(all_rules)) THEN 1 ELSE 0
  BY RecipientsCount, Zenon
<1>2. DispatchMatches(s, d, content) = Kept(g, positions)
  BY Zenon DEF DispatchMatches
<1> HIDE DEF g
<1>3. DOMAIN g = 1..Len(g)
  BY <1>1
<1>4. Cardinality(Hits(Kept(g, positions), {c})) = Cardinality(Chosen(g, positions, {c}, Len(g)))
  BY <1>1, KeptCount, Zenon
<1>5. CASE <<s, c>> \notin Refused
  <2>1. Chosen(g, positions, {c}, Len(g)) = Hits(g, {c})
    BY <1>3, <1>5, Zenon DEF Chosen, Hits
  <2> QED
    BY <1>1, <1>2, <1>4, <1>5, <2>1, Zenon
<1>6. CASE <<s, c>> \in Refused
  <2>1. Chosen(g, positions, {c}, Len(g)) = {}
    BY <1>3, <1>6, Zenon DEF Chosen
  <2> QED
    BY <1>2, <1>4, <1>6, <2>1, FS_EmptySet, Zenon
<1> QED
  BY <1>5, <1>6, Zenon
-----------------------------------------------------------------------------
(***************************************************************************)
(* The theorems.                                                           *)
(***************************************************************************)
Inv == ConnInv /\ RuleInv

\* There is nothing to count at first.
LEMMA InvInit ==
  ASSUME Init
  PROVE  Inv
<1>1. /\ <<>> \in Seq(Conns) /\ <<>> \in Seq(Rules) /\ DOMAIN <<>> = {} /\ Len(<<>>) = 0
  OBVIOUS
<1>2. InStage("incomplete") = {} /\ InStage("active") = {} /\ \A u \in Users : OfUser(u) = {}
  BY Zenon DEF Init, InStage, OfUser
<1>3. Members(incomplete) = {} /\ Once(incomplete)
  BY <1>1, Zenon DEF Init, Members, Once
<1>4. Cardinality({}) = 0
  BY FS_EmptySet, Zenon
<1>5. ConnInv
  <2>1. /\ stage \in [Conns -> Stages] /\ open = {} /\ overdue = {} /\ timer = FALSE
        /\ by_user = [u \in Users |-> 0] /\ leaked = [u \in Users |-> 0]
        /\ incomplete = <<>> /\ n_incomplete = 0 /\ n_completed = 0
    BY Zenon DEF Init, Stages
  <2>2. MaxCompleted \in Nat /\ MaxPerUser \in Nat
    BY PeersAssumption, Zenon
  <2> QED
    <3>1. \A u \in Users : by_user[u] = Cardinality(OfUser(u)) + leaked[u] /\ by_user[u] <= MaxPerUser
      BY <1>2, <1>4, <2>1, <2>2, SMTT(30)
    <3>2. by_user \in [Users -> Nat] /\ leaked \in [Users -> Nat]
      BY <2>1, Zenon
    <3>3. /\ n_incomplete = Cardinality(InStage("incomplete"))
          /\ n_completed = Cardinality(InStage("active")) /\ n_completed <= MaxCompleted
      <4>1. n_incomplete = Cardinality(InStage("incomplete")) /\ n_completed = Cardinality(InStage("active"))
        BY <1>2, <1>4, <2>1, Zenon
      <4>2. n_completed <= MaxCompleted
        BY <2>1, <2>2
      <4> QED
        BY <4>1, <4>2, Zenon
    <3>4. n_incomplete = Len(incomplete) /\ incomplete \in Seq(Conns)
      BY <1>1, <2>1, Zenon
    <3> QED
      BY <1>2, <1>3, <2>1, <3>1, <3>2, <3>3, <3>4, Zenon DEF ConnInv
<1>6. RuleInv
  <2>1. all_rules = <<>> /\ n_match_rules = [c \in Conns |-> 0] /\ MaxMatches \in Nat
    BY PeersAssumption, Zenon DEF Init
  <2>2. \A c \in Conns : Owned(all_rules, c) = {}
    BY <1>1, <2>1, Zenon DEF Owned
  <2> QED
    BY <1>1, <1>4, <2>1, <2>2, SMTT(30) DEF RuleInv, RulesExact
<1> QED
  BY <1>5, <1>6, Zenon DEF Inv

\* Every action keeps the counts of connections and of rules.
LEMMA InvNext ==
  ASSUME Inv, [Next]_vars
  PROVE  Inv'
<1> USE DEF Inv
<1>1. ASSUME NEW c \in Conns, Accept(c) PROVE Inv'
  <2>1. \A d \in Conns : stage[d] = "active" => stage'[d] = "active"
    BY <1>1, Zenon DEF Accept, ConnInv
  <2> QED
    BY <1>1, <2>1, AcceptCounts, RulesStay, Zenon DEF Accept
<1>2. ASSUME NEW c \in Conns, AcceptOom(c) PROVE Inv'
  <2>1. \A d \in Conns : stage[d] = "active" => stage'[d] = "active"
    BY <1>2, Zenon DEF AcceptOom, ConnInv
  <2> QED
    BY <1>2, <2>1, AcceptOomCounts, RulesStay, Zenon DEF AcceptOom
<1>3. ASSUME NEW c \in Conns, TimePasses(c) PROVE Inv'
  <2>1. open' \subseteq Conns /\ overdue' \subseteq Conns /\ timer' \in BOOLEAN
    BY <1>3, Zenon DEF TimePasses, ConnInv
  <2> QED
    BY <1>3, <2>1, ConnStays, RulesStay, Zenon DEF TimePasses
<1>4. ASSUME NEW c \in Conns, Close(c) PROVE Inv'
  <2>1. open' \subseteq Conns /\ overdue' \subseteq Conns /\ timer' \in BOOLEAN
    BY <1>4, Zenon DEF Close, ConnInv
  <2> QED
    BY <1>4, <2>1, ConnStays, RulesStay, Zenon DEF Close
<1>5. ASSUME NEW c \in Conns, Complete(c) PROVE Inv'
  <2>1. \A d \in Conns : stage[d] = "active" => stage'[d] = "active"
    BY <1>5, Zenon DEF Complete, ConnInv
  <2> QED
    BY <1>5, <2>1, CompleteCounts, RulesStay, Zenon DEF Complete
<1>6. ASSUME NEW c \in Conns, CompleteOom(c) PROVE Inv'
  BY <1>6, CompleteOomCounts, RulesStay, Zenon DEF CompleteOom
<1>7. ASSUME NEW c \in Conns, Disconnected(c) PROVE Inv'
  BY <1>7, DisconnectedCounts, DisconnectedExact, Zenon
<1>8. ASSUME UNCHANGED connVars PROVE ConnInv'
  BY <1>8, ConnStays, Zenon DEF connVars, ConnInv
<1>9. ASSUME UNCHANGED <<connVars, all_rules, n_match_rules>> PROVE Inv'
  BY <1>8, <1>9, RulesStay, Zenon DEF connVars, Quiet
<1>10. ASSUME NEW rule \in Rules, AddMatch(rule.go_to, rule) PROVE Inv'
  BY <1>8, <1>10, AddMatchExact, Zenon DEF AddMatch
<1>11. ASSUME NEW rule \in Rules, RemoveMatch(rule.go_to, rule) PROVE Inv'
  BY <1>8, <1>11, RemoveMatchExact, Zenon DEF RemoveMatch
<1>12. ASSUME ExpireTimeout PROVE Inv'
  <2>1. open' \subseteq Conns /\ overdue' \subseteq Conns /\ timer' \in BOOLEAN
    BY <1>12, ExpireTyped, Zenon DEF ExpireTimeout, ConnInv
  <2> QED
    BY <1>12, <2>1, ConnStays, RulesStay, Zenon DEF ExpireTimeout
<1>13. CASE \E c \in Conns : AddMatchFails(c)
  BY <1>9, <1>13, Zenon DEF AddMatchFails
<1>14. CASE \E rule \in Rules : RemoveMatchMissing(rule.go_to, rule)
  BY <1>9, <1>14, Zenon DEF RemoveMatchMissing
<1>15. CASE UNCHANGED vars
  BY <1>9, <1>15, Zenon DEF vars
<1> HIDE DEF Inv
<1> QED
  BY <1>1, <1>2, <1>3, <1>4, <1>5, <1>6, <1>7, <1>10, <1>11, <1>12, <1>13, <1>14, <1>15,
     Zenon DEF Next

\* The invariant holds in every reachable state.
LEMMA InvAlways == Spec => []Inv
<1>1. Init => Inv
  BY InvInit, Zenon
<1>2. Inv /\ [Next]_vars => Inv'
  BY InvNext, Zenon
<1> QED
  BY <1>1, <1>2, PTL DEF Spec

\* The counts that the limits on connections are checked against are exact in every
\* order of bus_connections_setup_connection, Hello, timeouts and disconnections.
THEOREM CountsCorrect == Spec => []CountsExact
<1>1. ASSUME Inv PROVE CountsExact
  <2>1. /\ InStage("incomplete") = {c \in Conns : stage[c] = "incomplete"}
        /\ InStage("active") = {c \in Conns : stage[c] = "active"}
    BY Zenon DEF InStage
  <2>2. Cardinality(InStage("active")) \in Nat /\ Cardinality(InStage("incomplete")) \in Nat
    BY ConnsFinite, Zenon DEF InStage
  <2>3. Members(incomplete) \subseteq Conns
    BY <1>1, Zenon DEF Inv, ConnInv, InStage
  <2>4. Members(all_rules) \subseteq Rules
    <3>1. all_rules \in Seq(Rules)
      BY <1>1, Zenon DEF Inv, RuleInv
    <3> QED
      BY <3>1 DEF Members
  <2>5. TypeOK
    BY <1>1, <2>2, <2>3, <2>4, Zenon DEF TypeOK, Inv, ConnInv, RuleInv, Stages
  <2> QED
    BY <1>1, <2>1, <2>5, Zenon DEF CountsExact, Inv, ConnInv
<1> QED
  BY <1>1, InvAlways, PTL

\* Match rules go to active connections, and n_match_rules counts those of each,
\* also after bus_matchmaker_disconnected removed rules of others.
THEOREM RulesCorrect == Spec => []RulesExact
<1>1. Inv => RulesExact
  BY Zenon DEF Inv, RuleInv
<1> QED
  BY <1>1, InvAlways, PTL

\* A message goes once to its destination and to each connection with a matching
\* rule whom the policy permits, and to nobody else (bus_dispatch_matches).
THEOREM RoutingCorrect == Spec => []RoutedExactly
<1>1. ASSUME Inv PROVE RoutedExactly
  <2>1. all_rules \in Seq(Rules)
    BY <1>1, Zenon DEF Inv, RuleInv
  <2>2. DOMAIN all_rules = 1..Len(all_rules)
    BY <2>1
  <2> SUFFICES ASSUME NEW s \in Conns \cup {Driver}, NEW d \in Peer, NEW content \in Contents,
                      NEW c \in Conns
               PROVE  LET to == DispatchMatches(s, d, content)
                          Wants(e) == e = d \/ \E i \in Owned(all_rules, e) :
                                                 Matches(all_rules[i], s, d, content)
                      IN  Cardinality({i \in DOMAIN to : to[i] = c})
                            = IF Wants(c) /\ <<s, c>> \notin Refused THEN 1 ELSE 0
    BY Zenon DEF RoutedExactly
  <2> DEFINE to == DispatchMatches(s, d, content)
  <2>3. Hits(to, {c}) = {i \in DOMAIN to : to[i] = c}
    BY Zenon DEF Hits
  <2>4. Asked(c, s, d, content, Len(all_rules))
          <=> (c = d \/ \E i \in Owned(all_rules, c) : Matches(all_rules[i], s, d, content))
    BY <2>2, Zenon DEF Asked, Owned
  <2>5. Cardinality(Hits(to, {c}))
          = IF Asked(c, s, d, content, Len(all_rules)) /\ <<s, c>> \notin Refused THEN 1 ELSE 0
    BY <2>1, Routed, Zenon
  <2> HIDE DEF to
  <2> QED
    BY <2>3, <2>4, <2>5, Zenon DEF to
<1> QED
  BY <1>1, InvAlways, PTL
=============================================================================
