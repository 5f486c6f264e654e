---------------------------- MODULE PolicyProofs ----------------------------
(***************************************************************************)
(* The optimiser of client policies changes no answer to a plain query,    *)
(* and mandatory rules have the last word, for rule lists of any length,   *)
(* any configuration and any query.                                        *)
(***************************************************************************)
EXTENDS Policy, WellFoundedInduction, NaturalsInduction, TLAPS

\* A set of positions of a list that is not empty has a last one: the rule that
\* check_can_send, check_can_receive and check_can_own end up with exists.
LEMMA LastExists ==
  ASSUME NEW n \in Nat, NEW T \in SUBSET (1..n), T # {}
  PROVE  \E x \in T : \A y \in T : y <= x
<1> DEFINE S == {n - x : x \in T}
<1>1. S \subseteq Nat /\ S # {}
  <2>1. PICK x \in T : TRUE
    BY Zenon
  <2>2. n - x \in S
    BY <2>1, Zenon
  <2>3. S \subseteq Nat
    OBVIOUS
  <2> QED
    BY <2>2, <2>3, Zenon
<1>2. PICK m \in S : \A y \in S : ~(<<y, m>> \in OpToRel(<, Nat))
  BY <1>1, WFMin, NatLessThanWellFounded, Zenon
<1>3. PICK x \in T : m = n - x
  BY Zenon
<1>4. ASSUME NEW y \in T PROVE y <= x
  <2>1. n - y \in S /\ n - y \in Nat /\ m \in Nat
    BY <1>1, Zenon
  <2>2. ~(n - y < m)
    BY <1>2, <2>1, Zenon DEF OpToRel
  <2> QED
    BY <1>3, <2>2
<1> QED
  BY <1>4, Zenon

\* What the optimiser removes is followed by a rule it keeps that applies as well.
LEMMA RemovedIsOverridden ==
  ASSUME NEW n \in Nat, NEW rules, DOMAIN rules = 1..n, NEW q, Plain(rules, q),
         NEW i \in DOMAIN rules, i \notin Optimize(rules), Applies(rules[i], q)
  PROVE  \E j \in Optimize(rules) : j > i /\ Applies(rules[j], q)
<1> DEFINE T == {j \in DOMAIN rules : j > i /\ rules[j].type = rules[i].type /\ Overrides(rules[j])}
<1>1. T # {} /\ T \in SUBSET (1..n)
  BY Zenon DEF Optimize
<1>2. PICK j \in T : \A k \in T : k <= j
  BY <1>1, LastExists, Zenon
<1>3. j \in Optimize(rules)
  BY <1>2 DEF Optimize
<1>4. Applies(rules[j], q)
  BY <1>2, Zenon DEF Plain, Applies
<1> QED
  BY <1>2, <1>3, <1>4, Zenon

\* bus_client_policy_optimize preserves the answers of a policy: for every list of
\* rules and every query that the overriding rules apply to, the rules that remain
\* allow what all of them allow.
THEOREM OptimizerSound ==
  ASSUME NEW n \in Nat, NEW rules, DOMAIN rules = 1..n, NEW q, Plain(rules, q)
  PROVE  Sound(rules, q)
<1> DEFINE K == Optimize(rules)
<1>1. K \subseteq DOMAIN rules /\ DOMAIN rules \subseteq Int
  BY DEF Optimize
<1>2. \A i \in DOMAIN rules \ K : Applies(rules[i], q) => \E j \in K : j > i /\ Applies(rules[j], q)
  BY RemovedIsOverridden, Zenon
<1>3. ASSUME Allowed(rules, K, q) PROVE Allowed(rules, DOMAIN rules, q)
  <2>1. PICK i \in K : /\ Applies(rules[i], q) /\ rules[i].allow
                       /\ \A j \in K : j > i => ~Applies(rules[j], q)
    BY <1>3, Zenon DEF Allowed
  <2>2. ASSUME NEW j \in DOMAIN rules, j > i, Applies(rules[j], q) PROVE FALSE
    <3>1. PICK k \in K : k >= j /\ Applies(rules[k], q)
      BY <1>1, <1>2, <2>2
    <3> QED
      BY <1>1, <2>1, <2>2, <3>1
  <2> QED
    BY <1>1, <2>1, <2>2, Zenon DEF Allowed
<1>4. ASSUME Allowed(rules, DOMAIN rules, q) PROVE Allowed(rules, K, q)
  <2>1. PICK i \in DOMAIN rules : /\ Applies(rules[i], q) /\ rules[i].allow
                                  /\ \A j \in DOMAIN rules : j > i => ~Applies(rules[j], q)
    BY <1>4, Zenon DEF Allowed
  <2>2. i \in K
    BY <1>1, <1>2, <2>1, Zenon
  <2> QED
    BY <1>1, <2>1, <2>2, Zenon DEF Allowed
<1> QED
  BY <1>3, <1>4, Zenon DEF Sound, Allowed

-----------------------------------------------------------------------------
(***************************************************************************)
(* Loops.                                                                  *)
(***************************************************************************)

\* What holds before a loop and is kept by its steps holds after each.
LEMMA Upto ==
  ASSUME NEW n \in Nat, NEW S \in SUBSET (0..n), 0 \in S, \A i \in S : i < n => i + 1 \in S
  PROVE  \A i \in 0..n : i \in S
<1> SUFFICES ASSUME (0..n) \ S # {} PROVE FALSE
  BY Zenon
<1>1. (0..n) \ S \subseteq Nat
  OBVIOUS
<1>2. PICK m \in (0..n) \ S : \A y \in (0..n) \ S : ~(<<y, m>> \in OpToRel(<, Nat))
  BY <1>1, WFMin, NatLessThanWellFounded, Zenon
<1>3. m \in Nat /\ m # 0 /\ m <= n /\ m \notin S
  OBVIOUS
<1>4. m - 1 \in 0..n /\ m - 1 \in Nat /\ m - 1 < m
  BY <1>3
<1>5. m - 1 \in S
  BY <1>2, <1>3, <1>4, Zenon DEF OpToRel
<1>6. (m - 1) + 1 \in S
  BY <1>3, <1>4, <1>5
<1> QED
  BY <1>3, <1>6

\* The steps of a loop, and the values it goes through.
Steps(n, D) == [(1..n) \X D -> D]
Run(n, D, a, g, h) == h \in [0..n -> D] /\ h[0] = a /\ \A i \in 1..n : h[i] = g[<<i, h[i - 1]>>]

\* A loop that takes a value to the next one, n times, goes through some values.
LEMMA LoopRuns ==
  ASSUME NEW n \in Nat, NEW D, NEW a \in D, NEW g \in Steps(n, D)
  PROVE  \E h : Run(n, D, a, g, h)
<1> USE DEF Steps
<1> DEFINE Runs(m) == \E h \in [0..m -> D] : h[0] = a /\ \A i \in 1..m : h[i] = g[<<i, h[i - 1]>>]
           S == {m \in 0..n : Runs(m)}
<1>1. 0 \in S
  <2> DEFINE k == [i \in 0..0 |-> a]
  <2>1. k \in [0..0 -> D] /\ k[0] = a /\ 1..0 = {}
    OBVIOUS
  <2> HIDE DEF k
  <2>2. Runs(0)
    BY <2>1, Zenon
  <2> QED
    BY <2>2
<1>2. ASSUME NEW m \in S, m < n PROVE m + 1 \in S
  <2>1. PICK h \in [0..m -> D] : h[0] = a /\ \A i \in 1..m : h[i] = g[<<i, h[i - 1]>>]
    BY Zenon
  <2> DEFINE k == [i \in 0..(m + 1) |-> IF i = m + 1 THEN g[<<m + 1, h[m]>>] ELSE h[i]]
  <2>2. g[<<m + 1, h[m]>>] \in D
    BY <1>2
  <2>3. k \in [0..(m + 1) -> D]
    BY <1>2, <2>2
  <2>4. k[0] = a
    BY <2>1
  <2>5. ASSUME NEW i \in 1..(m + 1) PROVE k[i] = g[<<i, k[i - 1]>>]
    <3>1. CASE i = m + 1
      <4>1. k[i - 1] = h[m] /\ k[i] = g[<<m + 1, h[m]>>]
        BY <1>2, <3>1
      <4> QED
        BY <3>1, <4>1, Zenon
    <3>2. CASE i # m + 1
      <4>1. i \in 1..m /\ k[i] = h[i] /\ k[i - 1] = h[i - 1]
        BY <1>2, <3>2
      <4> QED
        BY <2>1, <4>1, Zenon
    <3> QED
      BY <3>1, <3>2, Zenon
  <2> HIDE DEF k
  <2>6. Runs(m + 1)
    BY <2>3, <2>4, <2>5, Zenon
  <2> QED
    BY <1>2, <2>6
<1> HIDE DEF Runs
<1>3. S \in SUBSET (0..n)
  BY Zenon
<1> HIDE DEF S
<1>4. n \in S
  BY <1>1, <1>2, <1>3, Upto
<1> QED
  BY <1>4, Zenon DEF S, Runs, Run

\* add_list_to_client appends the rules of the list that are per client, in order.
LEMMA AddLoop ==
  ASSUME NEW R, NEW rules \in Seq(R), NEW list \in Seq(R)
  PROVE  \E h \in [0..Len(list) -> Seq(R)] :
           /\ h[0] = rules /\ AddListToClient(rules, list) = h[Len(list)]
           /\ \A i \in 1..Len(list) :
                h[i] = IF PerClient(list[i]) THEN Append(h[i - 1], list[i]) ELSE h[i - 1]
<1> DEFINE n == Len(list)
           Body(h) == [i \in 0..n |->
                         IF i = 0 THEN rules
                         ELSE IF PerClient(list[i]) THEN Append(h[i - 1], list[i]) ELSE h[i - 1]]
           f == CHOOSE h : h = Body(h)
           g == [w \in (1..n) \X Seq(R) |->
                   IF PerClient(list[w[1]]) THEN Append(w[2], list[w[1]]) ELSE w[2]]
<1>1. n \in Nat /\ \A i \in 1..n : list[i] \in R
  OBVIOUS
<1>2. g \in Steps(n, Seq(R))
  BY <1>1 DEF Steps
<1> HIDE DEF g, n
<1>3. PICK h : Run(n, Seq(R), rules, g, h)
  BY <1>1, <1>2, LoopRuns, Zenon
<1>4. h \in [0..n -> Seq(R)] /\ h[0] = rules /\ \A i \in 1..n : h[i] = g[<<i, h[i - 1]>>]
  BY <1>3, Zenon DEF Run
<1> USE DEF n
<1>5. ASSUME NEW i \in 1..n
      PROVE  h[i] = IF PerClient(list[i]) THEN Append(h[i - 1], list[i]) ELSE h[i - 1]
  <2>1. i - 1 \in 0..n
    BY <1>1
  <2>2. h[i - 1] \in Seq(R)
    BY <1>4, <2>1, Zenon
  <2>3. <<i, h[i - 1]>> \in (1..n) \X Seq(R)
    BY <2>2, Zenon
  <2>4. h[i] = g[<<i, h[i - 1]>>]
    BY <1>4, Zenon
  <2> QED
    BY <2>3, <2>4, Zenon DEF g
<1>6. h = Body(h)
  <2>1. \A i \in 0..n : i = 0 \/ i \in 1..n
    BY <1>1
  <2>2. h[0] = rules
    BY <1>4, Zenon
  <2> QED
    BY <1>4, <1>5, <2>1, <2>2, Zenon
<1>7. f = Body(f)
  <2> HIDE DEF Body
  <2> QED
    BY <1>6, Zenon
<1>8. AddListToClient(rules, list) = f[n]
  BY Zenon DEF AddListToClient
<1> HIDE DEF f
<1>9. f \in [0..n -> Seq(R)]
  <2> DEFINE S == {i \in 0..n : f[i] \in Seq(R)}
  <2>1. 0 \in S
    BY <1>1, <1>7
  <2>2. ASSUME NEW i \in S, i < n PROVE i + 1 \in S
    <3>1. i + 1 \in 1..n /\ (i + 1) - 1 = i /\ i + 1 \in 0..n
      BY <1>1, <2>2
    <3>2. f[i + 1] = IF PerClient(list[i + 1]) THEN Append(f[i], list[i + 1]) ELSE f[i]
      <4>1. i + 1 # 0
        BY <1>1, <3>1
      <4> QED
        BY <1>7, <3>1, <4>1, Zenon
    <3>3. list[i + 1] \in R /\ f[i] \in Seq(R)
      BY <1>1, <3>1, Zenon
    <3>4. f[i + 1] \in Seq(R)
      <4>1. Append(f[i], list[i + 1]) \in Seq(R)
        BY <3>3
      <4> QED
        BY <3>2, <3>3, <4>1, Zenon
    <3> QED
      BY <3>1, <3>4, Zenon
  <2>3. \A i \in 0..n : f[i] \in Seq(R)
    <3>1. S \in SUBSET (0..n)
      BY Zenon
    <3> HIDE DEF S
    <3>2. \A i \in 0..n : i \in S
      BY <1>1, <2>1, <2>2, <3>1, Upto, Zenon
    <3> QED
      BY <3>2, Zenon DEF S
  <2> QED
    BY <1>7, <2>3, Zenon
<1>10. \A i \in 1..n : f[i] = IF PerClient(list[i]) THEN Append(f[i - 1], list[i]) ELSE f[i - 1]
  <2>1. \A i \in 1..n : i \in 0..n /\ i # 0
    BY <1>1
  <2> QED
    BY <1>7, <2>1, Zenon
<1>11. f[0] = rules
  BY <1>1, <1>7
<1> QED
  BY <1>8, <1>9, <1>10, <1>11, Zenon

\* add_list_to_client makes a list of rules of lists of rules.
LEMMA AddType ==
  ASSUME NEW R, NEW rules \in Seq(R), NEW list \in Seq(R)
  PROVE  AddListToClient(rules, list) \in Seq(R)
<1>1. Len(list) \in Nat /\ Len(list) \in 0..Len(list)
  OBVIOUS
<1>2. PICK h \in [0..Len(list) -> Seq(R)] : AddListToClient(rules, list) = h[Len(list)]
  BY AddLoop
<1> QED
  BY <1>1, <1>2, Zenon

\* The empty list is one of any kind.
LEMMA EmptyType ==
  ASSUME NEW R
  PROVE  <<>> \in Seq(R)
  OBVIOUS

\* The rules of the contexts, joined step by step.
Rulings(p, R) == p \in [Contexts -> Seq(R)]
Joins(p, contexts, R) ==
  \E h \in [0..Len(contexts) -> Seq(R)] :
    /\ h[0] = <<>> /\ Joined(p, contexts) = h[Len(contexts)]
    /\ \A i \in 1..Len(contexts) : h[i] = AddListToClient(h[i - 1], p[contexts[i]])

\* The lists of the contexts of a connection are added one after the other.
LEMMA JoinLoop ==
  ASSUME NEW R, NEW p, Rulings(p, R), NEW contexts \in Seq(Contexts)
  PROVE  Joins(p, contexts, R)
<1> DEFINE n == Len(contexts)
           Body(h) == [i \in 0..n |->
                         IF i = 0 THEN <<>> ELSE AddListToClient(h[i - 1], p[contexts[i]])]
           f == CHOOSE h : h = Body(h)
           g == [w \in (1..n) \X Seq(R) |->
                   AddListToClient(w[2], p[contexts[w[1]]])]
<1>1. n \in Nat /\ \A i \in 1..n : p[contexts[i]] \in Seq(R)
  BY DEF Rulings
<1>2. g \in Steps(n, Seq(R))
  BY <1>1, AddType, Zenon DEF Steps
<1> HIDE DEF g, n
<1>3. PICK h : Run(n, Seq(R), <<>>, g, h)
  BY <1>1, <1>2, EmptyType, LoopRuns, Zenon
<1>4. h \in [0..n -> Seq(R)] /\ h[0] = <<>> /\ \A i \in 1..n : h[i] = g[<<i, h[i - 1]>>]
  BY <1>3, Zenon DEF Run
<1> USE DEF n
<1>5. ASSUME NEW i \in 1..n
      PROVE  h[i] = AddListToClient(h[i - 1], p[contexts[i]])
  <2>1. i - 1 \in 0..n
    BY <1>1
  <2>2. h[i - 1] \in Seq(R)
    BY <1>4, <2>1, Zenon
  <2>3. <<i, h[i - 1]>> \in (1..n) \X Seq(R)
    BY <2>2, Zenon
  <2>4. h[i] = g[<<i, h[i - 1]>>]
    BY <1>4, Zenon
  <2> QED
    BY <2>3, <2>4, Zenon DEF g
<1>6. h = Body(h)
  <2>1. \A i \in 0..n : i = 0 \/ i \in 1..n
    BY <1>1
  <2>2. h[0] = <<>>
    BY <1>4, Zenon
  <2> QED
    BY <1>4, <1>5, <2>1, <2>2, Zenon
<1>7. f = Body(f)
  <2> HIDE DEF Body
  <2> QED
    BY <1>6, Zenon
<1>8. Joined(p, contexts) = f[n]
  BY Zenon DEF Joined
<1> HIDE DEF f
<1>9. f \in [0..n -> Seq(R)]
  <2> DEFINE S == {i \in 0..n : f[i] \in Seq(R)}
  <2>1. 0 \in S
    BY <1>1, <1>7
  <2>2. ASSUME NEW i \in S, i < n PROVE i + 1 \in S
    <3>1. i + 1 \in 1..n /\ (i + 1) - 1 = i /\ i + 1 \in 0..n
      BY <1>1, <2>2
    <3>2. f[i + 1] = AddListToClient(f[i], p[contexts[i + 1]])
      <4>1. i + 1 # 0
        BY <1>1, <3>1
      <4> QED
        BY <1>7, <3>1, <4>1, Zenon
    <3>3. p[contexts[i + 1]] \in Seq(R) /\ f[i] \in Seq(R)
      BY <1>1, <3>1, Zenon
    <3>4. f[i + 1] \in Seq(R)
      BY <3>2, <3>3, AddType, Zenon
    <3> QED
      BY <3>1, <3>4, Zenon
  <2>3. \A i \in 0..n : f[i] \in Seq(R)
    <3>1. S \in SUBSET (0..n)
      BY Zenon
    <3> HIDE DEF S
    <3>2. \A i \in 0..n : i \in S
      BY <1>1, <2>1, <2>2, <3>1, Upto, Zenon
    <3> QED
      BY <3>2, Zenon DEF S
  <2> QED
    BY <1>7, <2>3, Zenon
<1>10. \A i \in 1..n : f[i] = AddListToClient(f[i - 1], p[contexts[i]])
  <2>1. \A i \in 1..n : i \in 0..n /\ i # 0
    BY <1>1
  <2> QED
    BY <1>7, <2>1, Zenon
<1>11. f[0] = <<>>
  BY <1>1, <1>7
<1> QED
  BY <1>8, <1>9, <1>10, <1>11, Zenon DEF Joins

\* The rules that come from the elements of configuration files.
RuleSet == {RuleOf(e) : e \in Elements}

\* The rules of a configuration go to the end of the list of their context.
LEMMA ListLoop ==
  ASSUME NEW k \in Nat, NEW config \in [1..k -> Contexts \X Elements], NEW x
  PROVE  \E h \in [0..Len(config) -> Seq(RuleSet)] :
           /\ h[0] = <<>> /\ ListOf(config, x) = h[Len(config)]
           /\ \A i \in 1..Len(config) :
                h[i] = IF config[i][1] = x THEN Append(h[i - 1], RuleOf(config[i][2])) ELSE h[i - 1]
<1> DEFINE n == Len(config)
           Body(h) == [i \in 0..n |->
                         IF i = 0 THEN <<>>
                         ELSE IF config[i][1] = x THEN Append(h[i - 1], RuleOf(config[i][2])) ELSE h[i - 1]]
           f == CHOOSE h : h = Body(h)
           g == [w \in (1..n) \X Seq(RuleSet) |->
                   IF config[w[1]][1] = x THEN Append(w[2], RuleOf(config[w[1]][2])) ELSE w[2]]
<1>1. n \in Nat /\ \A i \in 1..n : RuleOf(config[i][2]) \in RuleSet
  BY DEF RuleSet
<1>2. g \in Steps(n, Seq(RuleSet))
  BY <1>1 DEF Steps
<1> HIDE DEF g, n
<1>3. PICK h : Run(n, Seq(RuleSet), <<>>, g, h)
  BY <1>1, <1>2, EmptyType, LoopRuns, Zenon
<1>4. h \in [0..n -> Seq(RuleSet)] /\ h[0] = <<>> /\ \A i \in 1..n : h[i] = g[<<i, h[i - 1]>>]
  BY <1>3, Zenon DEF Run
<1> USE DEF n
<1>5. ASSUME NEW i \in 1..n
      PROVE  h[i] = IF config[i][1] = x THEN Append(h[i - 1], RuleOf(config[i][2])) ELSE h[i - 1]
  <2>1. i - 1 \in 0..n
    BY <1>1
  <2>2. h[i - 1] \in Seq(RuleSet)
    BY <1>4, <2>1, Zenon
  <2>3. <<i, h[i - 1]>> \in (1..n) \X Seq(RuleSet)
    BY <2>2, Zenon
  <2>4. h[i] = g[<<i, h[i - 1]>>]
    BY <1>4, Zenon
  <2> QED
    BY <2>3, <2>4, Zenon DEF g
<1>6. h = Body(h)
  <2>1. \A i \in 0..n : i = 0 \/ i \in 1..n
    BY <1>1
  <2>2. h[0] = <<>>
    BY <1>4, Zenon
  <2> QED
    BY <1>4, <1>5, <2>1, <2>2, Zenon
<1>7. f = Body(f)
  <2> HIDE DEF Body
  <2> QED
    BY <1>6, Zenon
<1>8. ListOf(config, x) = f[n]
  BY Zenon DEF ListOf
<1> HIDE DEF f
<1>9. f \in [0..n -> Seq(RuleSet)]
  <2> DEFINE S == {i \in 0..n : f[i] \in Seq(RuleSet)}
  <2>1. 0 \in S
    BY <1>1, <1>7
  <2>2. ASSUME NEW i \in S, i < n PROVE i + 1 \in S
    <3>1. i + 1 \in 1..n /\ (i + 1) - 1 = i /\ i + 1 \in 0..n
      BY <1>1, <2>2
    <3>2. f[i + 1] = IF config[i + 1][1] = x THEN Append(f[i], RuleOf(config[i + 1][2])) ELSE f[i]
      <4>1. i + 1 # 0
        BY <1>1, <3>1
      <4> QED
        BY <1>7, <3>1, <4>1, Zenon
    <3>3. RuleOf(config[i + 1][2]) \in RuleSet /\ f[i] \in Seq(RuleSet)
      BY <1>1, <3>1, Zenon
    <3>4. f[i + 1] \in Seq(RuleSet)
      <4>1. Append(f[i], RuleOf(config[i + 1][2])) \in Seq(RuleSet)
        BY <3>3
      <4> QED
        BY <3>2, <3>3, <4>1, Zenon
    <3> QED
      BY <3>1, <3>4, Zenon
  <2>3. \A i \in 0..n : f[i] \in Seq(RuleSet)
    <3>1. S \in SUBSET (0..n)
      BY Zenon
    <3> HIDE DEF S
    <3>2. \A i \in 0..n : i \in S
      BY <1>1, <2>1, <2>2, <3>1, Upto, Zenon
    <3> QED
      BY <3>2, Zenon DEF S
  <2> QED
    BY <1>7, <2>3, Zenon
<1>10. \A i \in 1..n : f[i] = IF config[i][1] = x THEN Append(f[i - 1], RuleOf(config[i][2])) ELSE f[i - 1]
  <2>1. \A i \in 1..n : i \in 0..n /\ i # 0
    BY <1>1
  <2> QED
    BY <1>7, <2>1, Zenon
<1>11. f[0] = <<>>
  BY <1>1, <1>7
<1> QED
  BY <1>8, <1>9, <1>10, <1>11, Zenon

-----------------------------------------------------------------------------
(***************************************************************************)
(* The last list has the last word.                                        *)
(***************************************************************************)

\* One more rule at the end decides if it applies, and changes nothing if not.
LEMMA LastDecides ==
  ASSUME NEW n \in Nat, NEW s, NEW q
  PROVE  /\ Applies(s[n + 1], q) => (Allowed(s, 1..(n + 1), q) <=> s[n + 1].allow)
         /\ ~Applies(s[n + 1], q) => (Allowed(s, 1..(n + 1), q) <=> Allowed(s, 1..n, q))
<1>1. /\ \A i \in 1..(n + 1) : i \in 1..n \/ i = n + 1
      /\ \A i \in 1..n : i \in 1..(n + 1) /\ n + 1 > i /\ i # n + 1
      /\ n + 1 \in 1..(n + 1) /\ \A j \in 1..(n + 1) : ~(j > n + 1)
  OBVIOUS
<1>2. ASSUME Applies(s[n + 1], q) PROVE Allowed(s, 1..(n + 1), q) <=> s[n + 1].allow
  BY <1>1, <1>2, Zenon DEF Allowed
<1>3. ASSUME ~Applies(s[n + 1], q) PROVE Allowed(s, 1..(n + 1), q) <=> Allowed(s, 1..n, q)
  BY <1>1, <1>3, Zenon DEF Allowed
<1> QED
  BY <1>2, <1>3, Zenon

\* The answer depends on the rules looked at only.
LEMMA SameRules ==
  ASSUME NEW n \in Nat, NEW s, NEW r, \A i \in 1..n : s[i] = r[i], NEW q
  PROVE  Allowed(s, 1..n, q) <=> Allowed(r, 1..n, q)
  BY Zenon DEF Allowed

\* When a rule of the list that is added last applies, that list decides.
LEMMA LastListDecides ==
  ASSUME NEW R, NEW rules \in Seq(R), NEW list \in Seq(R), NEW q \in Queries,
         \E k \in DOMAIN list : Applies(list[k], q)
  PROVE  LET all == AddListToClient(rules, list)
         IN Allowed(all, DOMAIN all, q) <=> Allowed(list, DOMAIN list, q)
<1> DEFINE n == Len(list)
<1>1. n \in Nat /\ DOMAIN list = 1..n /\ \A i \in 1..n : list[i] \in R
  OBVIOUS
<1>2. PICK h \in [0..n -> Seq(R)] :
        /\ h[0] = rules /\ AddListToClient(rules, list) = h[n]
        /\ \A i \in 1..n : h[i] = IF PerClient(list[i]) THEN Append(h[i - 1], list[i]) ELSE h[i - 1]
  BY AddLoop
<1>3. q.check \in {"send", "receive", "own"}
  BY PolicyAssumption, Zenon
<1> DEFINE Agree(i) == Allowed(h[i], 1..Len(h[i]), q) <=> Allowed(list, 1..i, q)
           S == {i \in 0..n : (\E k \in 1..i : Applies(list[k], q)) => Agree(i)}
<1> HIDE DEF n
<1>4. 0 \in S
  BY <1>1
<1>5. ASSUME NEW i \in S, i < n PROVE i + 1 \in S
  <2>1. /\ i \in Nat /\ i + 1 \in 1..n /\ i + 1 \in 0..n /\ (i + 1) - 1 = i /\ i \in 0..n
        /\ \A k \in 1..(i + 1) : k \in 1..i \/ k = i + 1
    BY <1>1, <1>5
  <2>2. h[i] \in Seq(R) /\ Len(h[i]) \in Nat /\ list[i + 1] \in R
    BY <1>1, <1>2, <2>1
  <2>3. h[i + 1] = IF PerClient(list[i + 1]) THEN Append(h[i], list[i + 1]) ELSE h[i]
    BY <1>2, <2>1, Zenon
  <2> DEFINE m == Len(h[i])
             r == list[i + 1]
  <2>4. CASE PerClient(r)
    <3>1. h[i + 1] = Append(h[i], r)
      BY <2>3, <2>4, Zenon
    <3>2. /\ Len(h[i + 1]) = m + 1 /\ h[i + 1][m + 1] = r
          /\ \A k \in 1..m : h[i + 1][k] = h[i][k]
      BY <2>2, <3>1
    <3>3. Allowed(h[i + 1], 1..m, q) <=> Allowed(h[i], 1..m, q)
      BY <2>2, <3>2, SameRules, Zenon
    <3>4. CASE Applies(r, q)
      <4>1. Allowed(h[i + 1], 1..(m + 1), q) <=> r.allow
        BY <2>2, <3>2, <3>4, LastDecides, Zenon
      <4>2. Allowed(list, 1..(i + 1), q) <=> r.allow
        BY <2>1, <3>4, LastDecides, Zenon
      <4> QED
        BY <2>1, <3>2, <4>1, <4>2, Zenon
    <3>5. CASE ~Applies(r, q)
      <4>1. Allowed(h[i + 1], 1..(m + 1), q) <=> Allowed(h[i], 1..m, q)
        BY <2>2, <3>2, <3>3, <3>5, LastDecides, Zenon
      <4>2. Allowed(list, 1..(i + 1), q) <=> Allowed(list, 1..i, q)
        BY <2>1, <3>5, LastDecides, Zenon
      <4>3. (\E k \in 1..(i + 1) : Applies(list[k], q)) => (\E k \in 1..i : Applies(list[k], q))
        BY <2>1, <3>5, Zenon
      <4>4. (\E k \in 1..i : Applies(list[k], q)) => Agree(i)
        BY Zenon
      <4>5. Agree(i) => Agree(i + 1)
        BY <3>2, <4>1, <4>2, Zenon
      <4> QED
        BY <2>1, <4>3, <4>4, <4>5, Zenon
    <3> QED
      BY <3>4, <3>5, Zenon
  <2>5. CASE ~PerClient(r)
    <3>1. h[i + 1] = h[i]
      BY <2>3, <2>5, Zenon
    <3>2. ~Applies(r, q)
      BY <1>3, <2>5, Zenon DEF PerClient, Applies
    <3>3. Allowed(list, 1..(i + 1), q) <=> Allowed(list, 1..i, q)
      BY <2>1, <3>2, LastDecides, Zenon
    <3>4. (\E k \in 1..(i + 1) : Applies(list[k], q)) => (\E k \in 1..i : Applies(list[k], q))
      BY <2>1, <3>2, Zenon
    <3>5. (\E k \in 1..i : Applies(list[k], q)) => Agree(i)
      BY Zenon
    <3>6. Agree(i) => Agree(i + 1)
      BY <3>1, <3>3, Zenon
    <3> QED
      BY <2>1, <3>4, <3>5, <3>6, Zenon
  <2> QED
    BY <2>4, <2>5, Zenon
<1>6. S \in SUBSET (0..n)
  BY Zenon
<1>7. n \in S
  <2> HIDE DEF S
  <2>1. \A i \in 0..n : i \in S
    BY <1>1, <1>4, <1>5, <1>6, Upto, Zenon
  <2> QED
    BY <1>1, <2>1
<1>8. Agree(n)
  BY <1>1, <1>7, Zenon
<1>9. h[n] \in Seq(R)
  BY <1>1, <1>2
<1>10. DOMAIN h[n] = 1..Len(h[n])
  BY <1>9
<1> QED
  BY <1>1, <1>2, <1>8, <1>10, Zenon

-----------------------------------------------------------------------------
(***************************************************************************)
(* The policies of connections.                                            *)
(***************************************************************************)

\* The policy of a connection is made of some rules, then of the mandatory ones,
\* and optimised.
Made(p) ==
  /\ p.rules \in Seq(RuleSet) /\ p.mandatory \in Seq(RuleSet)
  /\ p.kept = Optimize(p.rules)
  /\ \E rules \in Seq(RuleSet) : p.rules = AddListToClient(rules, p.mandatory)

Inv ==
  /\ policy \in [Contexts -> Seq(RuleSet)]
  /\ DOMAIN client = Conns
  /\ \A c \in Conns : client[c] # Null => Made(client[c])

\* The contexts of a connection are contexts of the policy, the mandatory one last.
LEMMA ContextsEnd ==
  ASSUME NEW c \in Conns
  PROVE  /\ ContextsOf(c) \in Seq(Contexts)
         /\ Len(ContextsOf(c)) > 0
         /\ ContextsOf(c)[Len(ContextsOf(c))] = <<"mandatory">>
<1>1. <<"default">> \in Contexts /\ <<"mandatory">> \in Contexts
  BY Zenon DEF Contexts
<1>2. GroupContexts(c) \in Seq(Contexts)
  <2> DEFINE All == UNION {{Groups[d][i] : i \in DOMAIN Groups[d]} : d \in Conns}
  <2>0. Groups \in [Conns -> Seq(All)]
    BY PolicyAssumption, Zenon
  <2> HIDE DEF All
  <2>1. PICK n \in Nat : DOMAIN Groups[c] = 1..n
    BY <2>0
  <2>2. ASSUME NEW i \in DOMAIN Groups[c] PROVE <<"group", Groups[c][i]>> \in Contexts
    <3>1. <<"group", Groups[c][i]>> \in {<<"group", Groups[c][j]>> : j \in DOMAIN Groups[c]}
      BY Zenon
    <3> QED
      BY <3>1, Zenon DEF Contexts
  <2>3. GroupContexts(c) = [i \in 1..n |-> <<"group", Groups[c][i]>>]
    BY <2>1, Zenon DEF GroupContexts
  <2>4. \A i \in 1..n : <<"group", Groups[c][i]>> \in Contexts
    BY <2>1, <2>2, Zenon
  <2> QED
    BY <2>3, <2>4
<1>3. UserContexts(c) \in Seq(Contexts)
  <2>1. CASE Uid[c] = Null
    BY <2>1 DEF UserContexts
  <2>2. CASE Uid[c] # Null
    <3>1. <<"user", Uid[c]>> \in Contexts
      BY <2>2, Zenon DEF Contexts
    <3>2. <<"console", Console[c]>> \in Contexts
      <4>1. Console[c] = TRUE \/ Console[c] = FALSE
        BY PolicyAssumption, Zenon
      <4> QED
        BY <4>1, Zenon DEF Contexts
    <3>3. UserContexts(c) = <<<<"user", Uid[c]>>, <<"console", Console[c]>>>>
      BY <2>2, Zenon DEF UserContexts
    <3> QED
      BY <3>1, <3>2, <3>3
  <2> QED
    BY <2>1, <2>2, Zenon
<1> DEFINE X == <<<<"default">>>> \o GroupContexts(c) \o UserContexts(c)
<1>4. X \in Seq(Contexts)
  <2>1. <<<<"default">>>> \in Seq(Contexts)
    BY <1>1
  <2>2. <<<<"default">>>> \o GroupContexts(c) \in Seq(Contexts)
    BY <1>2, <2>1
  <2> QED
    BY <1>3, <2>2
<1>5. ContextsOf(c) = X \o <<<<"mandatory">>>>
  BY Zenon DEF ContextsOf
<1> HIDE DEF X
<1>6. <<<<"mandatory">>>> \in Seq(Contexts) /\ Len(<<<<"mandatory">>>>) = 1
  BY <1>1
<1>7. Len(X) \in Nat /\ Len(X \o <<<<"mandatory">>>>) = Len(X) + 1
  BY <1>4, <1>6
<1> QED
  BY <1>4, <1>5, <1>6, <1>7

\* bus_policy_create_client_policy makes a policy from the rules in effect.
LEMMA CreateMakes ==
  ASSUME policy \in [Contexts -> Seq(RuleSet)], NEW c \in Conns
  PROVE  LET rules == Joined(policy, ContextsOf(c))
         IN Made([rules |-> rules, kept |-> Optimize(rules), mandatory |-> policy[<<"mandatory">>]])
<1> DEFINE x == ContextsOf(c)
           n == Len(x)
           rules == Joined(policy, x)
<1>1. x \in Seq(Contexts) /\ n > 0 /\ x[n] = <<"mandatory">> /\ n \in Nat
  BY ContextsEnd
<1>2. <<"mandatory">> \in Contexts
  BY Zenon DEF Contexts
<1> HIDE DEF x
<1>3. PICK h \in [0..Len(x) -> Seq(RuleSet)] :
        /\ rules = h[Len(x)]
        /\ \A i \in 1..Len(x) : h[i] = AddListToClient(h[i - 1], policy[x[i]])
  <2>1. Rulings(policy, RuleSet)
    BY Zenon DEF Rulings
  <2>2. Joins(policy, x, RuleSet)
    BY <1>1, <2>1, JoinLoop, Zenon
  <2> QED
    BY <2>2, Zenon DEF Joins
<1>4. n \in 1..n /\ n \in 0..n /\ n - 1 \in 0..n
  BY <1>1
<1>5. rules \in Seq(RuleSet) /\ h[n - 1] \in Seq(RuleSet)
  BY <1>3, <1>4, Zenon
<1>6. rules = AddListToClient(h[n - 1], policy[<<"mandatory">>])
  BY <1>1, <1>3, <1>4, Zenon
<1>7. policy[<<"mandatory">>] \in Seq(RuleSet)
  BY <1>2, Zenon
<1> HIDE DEF rules
<1>8. Made([rules |-> rules, kept |-> Optimize(rules), mandatory |-> policy[<<"mandatory">>]])
  BY <1>5, <1>6, <1>7, Zenon DEF Made
<1> QED
  BY <1>8, Zenon DEF rules, x

\* Loading, completing and disconnecting keep the invariant.
LEMMA InvAlways == Spec => []Inv
<1>1. ASSUME Init PROVE Inv
  <2>1. policy \in [Contexts -> Seq(RuleSet)]
    BY <1>1, EmptyType, Zenon DEF Init, NoRules
  <2> QED
    BY <1>1, <2>1, Zenon DEF Init, Inv
<1>2. ASSUME Inv, [Next]_vars PROVE Inv'
  <2>1. ASSUME NEW config \in Configurations(MaxRules - n_read), Load(config) PROVE Inv'
    <3>1. PICK k \in Nat : config \in [1..k -> Contexts \X Elements]
      <4>1. PICK k \in 0..(MaxRules - n_read) : config \in [1..k -> Contexts \X Elements]
        BY <2>1, Zenon DEF Configurations
      <4> QED
        BY <4>1
    <3>2. ASSUME NEW x PROVE ListOf(config, x) \in Seq(RuleSet)
      <4>1. Len(config) = k
        BY <3>1
      <4>2. PICK h \in [0..Len(config) -> Seq(RuleSet)] : ListOf(config, x) = h[Len(config)]
        BY <3>1, ListLoop, ZenonT(40)
      <4> QED
        BY <4>1, <4>2
    <3>3. policy' = [x \in Contexts |-> ListOf(config, x)] /\ client' = client
      BY <2>1, Zenon DEF Load
    <3>4. Contexts' = Contexts
      BY Zenon DEF Contexts
    <3> QED
      BY <1>2, <3>2, <3>3, Zenon DEF Inv
  <2>2. ASSUME NEW c \in Conns, NEW owner \in BOOLEAN, Authenticate(c, owner) PROVE Inv'
    BY <1>2, <2>2, Zenon DEF Inv, Authenticate
  <2>3. ASSUME NEW c \in Conns, Complete(c) PROVE Inv'
    <3> DEFINE rules == Joined(policy, ContextsOf(c))
               p == [rules |-> rules, kept |-> Optimize(rules), mandatory |-> policy[<<"mandatory">>]]
    <3>1. Made(p)
      BY <1>2, CreateMakes, Zenon DEF Inv
    <3>2. client' = [client EXCEPT ![c] = p] /\ policy' = policy
      BY <2>3, Zenon DEF Complete
    <3> HIDE DEF p
    <3> QED
      BY <1>2, <3>1, <3>2, Zenon DEF Inv
  <2>4. ASSUME NEW c \in Conns, Disconnect(c) PROVE Inv'
    BY <1>2, <2>4, Zenon DEF Inv, Disconnect
  <2>5. CASE UNCHANGED vars
    BY <1>2, <2>5, Zenon DEF Inv, vars
  <2> QED
    BY <1>2, <2>1, <2>2, <2>3, <2>4, <2>5, Zenon DEF Next
<1> QED
  BY <1>1, <1>2, PTL DEF Spec

\* The optimised policy of every connection gives the answers of all its rules, for
\* every message that the overriding rules apply to (bus_client_policy_optimize).
THEOREM OptimizedPoliciesSound == Spec => []OptimizeSound
<1>1. ASSUME Inv PROVE OptimizeSound
  <2> SUFFICES ASSUME NEW c \in Conns, client[c] # Null, NEW q \in Queries, Plain(client[c].rules, q)
               PROVE  Allowed(client[c].rules, client[c].kept, q)
                        = Allowed(client[c].rules, DOMAIN client[c].rules, q)
    BY Zenon DEF OptimizeSound
  <2>1. Made(client[c])
    BY <1>1, Zenon DEF Inv
  <2>2. PICK n \in Nat : DOMAIN client[c].rules = 1..n
    BY <2>1 DEF Made
  <2>3. Sound(client[c].rules, q)
    BY <2>2, OptimizerSound, Zenon
  <2> QED
    BY <2>1, <2>3, Zenon DEF Sound, Made
<1> QED
  BY <1>1, InvAlways, PTL

\* When a mandatory rule applies to a message, the mandatory rules decide, whatever
\* the other contexts say and the optimiser removes: bus_policy_create_client_policy
\* adds them last.
THEOREM MandatoryRulesFinal == Spec => []MandatoryFinal
<1>1. ASSUME Inv PROVE MandatoryFinal
  <2> SUFFICES ASSUME NEW c \in Conns, client[c] # Null, NEW q \in Queries,
                      Plain(client[c].rules, q),
                      \E i \in DOMAIN client[c].mandatory : Applies(client[c].mandatory[i], q)
               PROVE  Allowed(client[c].rules, client[c].kept, q)
                        = Allowed(client[c].mandatory, DOMAIN client[c].mandatory, q)
    BY Zenon DEF MandatoryFinal
  <2>1. Made(client[c])
    BY <1>1, Zenon DEF Inv
  <2>2. PICK n \in Nat : DOMAIN client[c].rules = 1..n
    BY <2>1 DEF Made
  <2>3. Sound(client[c].rules, q)
    BY <2>2, OptimizerSound, Zenon
  <2>4. PICK rules \in Seq(RuleSet) : client[c].rules = AddListToClient(rules, client[c].mandatory)
    BY <2>1, Zenon DEF Made
  <2>5. client[c].mandatory \in Seq(RuleSet)
    BY <2>1, Zenon DEF Made
  <2>6. Allowed(client[c].rules, DOMAIN client[c].rules, q)
          <=> Allowed(client[c].mandatory, DOMAIN client[c].mandatory, q)
    BY <2>4, <2>5, LastListDecides, ZenonT(40)
  <2>7. Allowed(client[c].rules, DOMAIN client[c].rules, q)
          = Allowed(client[c].mandatory, DOMAIN client[c].mandatory, q)
    BY <2>6, Zenon DEF Allowed
  <2> QED
    BY <2>1, <2>3, <2>7, Zenon DEF Sound, Made
<1> QED
  BY <1>1, InvAlways, PTL
=============================================================================
