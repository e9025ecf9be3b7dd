-------------------------- MODULE Dependencies_proofs --------------------------
(***************************************************************************)
(* Proofs about Dependencies: what a recursive definition over the tenant's*)
(* answer computes for every answer, and with it which views are kept for  *)
(* which model and in which order.                                         *)
(***************************************************************************)
EXTENDS Dependencies, FiniteSetTheorems, SequenceTheorems, WellFoundedInduction,
        TLAPS

(***************************************************************************)
(* Recursion.  A recursive function is CHOOSE f : f = [x \in S |-> ...],   *)
(* so that something has to satisfy the equation.  Something does when     *)
(* every nonempty set of arguments has one that depends on none of them.   *)
(***************************************************************************)
Grounded(E, dep) ==
  \A some \in SUBSET E : some # {} => \E e \in some : dep[e] \cap some = {}

(* f is defined on D and on what its members depend on, and follows the    *)
(* rule there: rule[e][g] is the value for e, if g has the values for what *)
(* it depends on.                                                          *)
Solution(f, D, E, V, dep, rule) ==
  /\ D \subseteq E
  /\ f \in [D -> V]
  /\ \A e \in D : /\ dep[e] \subseteq D
                  /\ f[e] = rule[e][[x \in dep[e] |-> f[x]]]

WellTyped(E, V, dep, rule) ==
  \A e \in E : \A g \in [dep[e] -> V] : rule[e][g] \in V

(* Two solutions agree where both are defined.                             *)
LEMMA SolutionsAgree ==
  ASSUME NEW E, NEW V, NEW rule, NEW dep, Grounded(E, dep),
         NEW D1, NEW f, Solution(f, D1, E, V, dep, rule),
         NEW D2, NEW g, Solution(g, D2, E, V, dep, rule)
  PROVE  \A e \in D1 \cap D2 : f[e] = g[e]
<1> DEFINE differ == {e \in D1 \cap D2 : f[e] # g[e]}
<1>1. SUFFICES ASSUME differ # {} PROVE FALSE
  OBVIOUS
<1>2. PICK e \in differ : dep[e] \cap differ = {}
  BY <1>1 DEF Grounded, Solution
<1>3. /\ dep[e] \subseteq D1 \cap D2
      /\ f[e] = rule[e][[x \in dep[e] |-> f[x]]]
      /\ g[e] = rule[e][[x \in dep[e] |-> g[x]]]
  BY DEF Solution
<1>4. \A x \in dep[e] : f[x] = g[x]
  BY <1>2, <1>3
<1>5. [x \in dep[e] |-> f[x]] = [x \in dep[e] |-> g[x]]
  BY <1>4
<1> QED BY <1>3, <1>5

(* There is a solution on the whole set: where the solutions that exist    *)
(* are defined, put together, leaves nothing out.                          *)
LEMMA Recursion ==
  ASSUME NEW E, NEW V, NEW rule, NEW dep \in [E -> SUBSET E], Grounded(E, dep),
         WellTyped(E, V, dep, rule)
  PROVE  \E f : Solution(f, E, E, V, dep, rule)
<1> DEFINE
      Is(e, v) ==
        \E D, f : Solution(f, D, E, V, dep, rule) /\ e \in D /\ f[e] = v
      U == {e \in E : \E v \in V : Is(e, v)}
      h == [e \in U |-> CHOOSE v \in V : Is(e, v)]
<1>1. ASSUME NEW D, NEW f, Solution(f, D, E, V, dep, rule), NEW e \in D
      PROVE  e \in U /\ h[e] = f[e]
  <2>1. Is(e, f[e]) /\ f[e] \in V /\ e \in E
    BY <1>1 DEF Solution
  <2>2. e \in U
    BY <2>1
  <2>3. PICK v \in V : v = h[e] /\ Is(e, v)
    BY <2>1, <2>2
  <2>4. PICK D2, g : Solution(g, D2, E, V, dep, rule) /\ e \in D2 /\ g[e] = v
    BY <2>3
  <2>5. f[e] = g[e]
    <3> HIDE DEF Is, U, h
    <3>1. /\ Grounded(E, dep) /\ e \in D \cap D2
          /\ Solution(f, D, E, V, dep, rule) /\ Solution(g, D2, E, V, dep, rule)
      BY <1>1, <2>4
    <3> QED BY <3>1, SolutionsAgree
  <2> QED BY <2>2, <2>3, <2>4, <2>5
<1>2. h \in [U -> V] /\ U \subseteq E
  BY DEF h
<1>3. Solution(h, U, E, V, dep, rule)
  <2> SUFFICES ASSUME NEW e \in U
               PROVE  /\ dep[e] \subseteq U
                      /\ h[e] = rule[e][[x \in dep[e] |-> h[x]]]
    BY <1>2 DEF Solution
  <2>1. PICK D, f : Solution(f, D, E, V, dep, rule) /\ e \in D
    OBVIOUS
  <2>2. dep[e] \subseteq D /\ f[e] = rule[e][[x \in dep[e] |-> f[x]]]
    BY <2>1 DEF Solution
  <2>3. \A x \in dep[e] : x \in U /\ h[x] = f[x]
    BY <1>1, <2>1, <2>2
  <2>4. [x \in dep[e] |-> h[x]] = [x \in dep[e] |-> f[x]]
    BY <2>3
  <2> HIDE DEF Is, U, h
  <2>5. h[e] = f[e]
    BY <1>1, <2>1
  <2> QED BY <2>2, <2>3, <2>4, <2>5
<1> HIDE DEF Is, U, h
<1>4. U = E
  <2>1. SUFFICES ASSUME U # E PROVE FALSE
    OBVIOUS
  <2>2. PICK e \in E \ U : dep[e] \cap (E \ U) = {}
    BY <1>2, <2>1 DEF Grounded
  <2>3. dep[e] \subseteq U /\ e \notin dep[e]
    BY <2>2
  <2> DEFINE D == U \cup {e}
             g == [x \in D |-> IF x = e THEN rule[e][[y \in dep[e] |-> h[y]]]
                               ELSE h[x]]
  <2>4. D \subseteq E /\ e \in D
    BY <1>2
  <2>5. [y \in dep[e] |-> h[y]] \in [dep[e] -> V]
    BY <1>2, <2>3
  <2>6. g \in [D -> V]
    BY <1>2, <2>5 DEF WellTyped
  <2>7. \A x \in U : g[x] = h[x]
    BY <2>2
  <2>8. g[e] = rule[e][[y \in dep[e] |-> h[y]]]
    BY <2>4
  <2>9. Solution(g, D, E, V, dep, rule)
    <3> SUFFICES ASSUME NEW x \in D
                 PROVE  /\ dep[x] \subseteq D
                        /\ g[x] = rule[x][[y \in dep[x] |-> g[y]]]
      BY <2>4, <2>6 DEF Solution
    <3>1. dep[x] \subseteq U
      BY <1>3, <2>3 DEF Solution
    <3>2. [y \in dep[x] |-> g[y]] = [y \in dep[x] |-> h[y]]
      BY <3>1, <2>7
    <3> HIDE DEF g
    <3>3. CASE x \in U
      BY <1>3, <2>7, <3>1, <3>2, <3>3 DEF Solution
    <3>4. CASE x = e
      BY <2>8, <3>1, <3>2, <3>4
    <3> QED BY <3>1, <3>3, <3>4
  <2> HIDE DEF g, D
  <2>10. e \in U
    BY <1>1, <2>4, <2>9
  <2> QED BY <2>2, <2>10
<1> QED BY <1>3, <1>4

(***************************************************************************)
(* Numbers and sequences.                                                  *)
(***************************************************************************)
LEMMA LeastNumber ==
  ASSUME NEW T \in SUBSET Nat, T # {}
  PROVE  \E n \in T : \A m \in T : n <= m
<1>1. IsWellFoundedOn(OpToRel(<, Nat), Nat)
  BY NatLessThanWellFounded
<1>2. PICK n \in T : \A m \in T : ~(<<m, n>> \in OpToRel(<, Nat))
  BY <1>1, WFMin
<1>3. ASSUME NEW m \in T PROVE n <= m
  <2>1. ~(<<m, n>> \in OpToRel(<, Nat))
    BY <1>2
  <2>2. ~(m < n)
    BY <2>1 DEF OpToRel
  <2> QED BY <2>2
<1> QED BY <1>2, <1>3

(* Induction up to a bound, for a set of numbers.                          *)
LEMMA UpTo ==
  ASSUME NEW T, NEW low \in Nat, NEW n \in Nat, low \in T,
         \A i \in low..(n - 1) : i \in T => i + 1 \in T
  PROVE  low..n \subseteq T
<1> DEFINE missing == low..n \ T
<1>1. SUFFICES ASSUME missing # {} PROVE FALSE
  OBVIOUS
<1>2. PICK i \in missing : \A j \in missing : i <= j
  <2>1. missing \in SUBSET Nat
    OBVIOUS
  <2> HIDE DEF missing
  <2> QED BY <1>1, <2>1, LeastNumber
<1>3. i - 1 \in low..(n - 1) /\ i - 1 \notin missing
  BY <1>2
<1> QED BY <1>3

(* Every w that is related to a member of s comes later in s.              *)
Follows(s, R) ==
  \A p \in DOMAIN s : \A w : <<s[p], w>> \in R =>
    \E q \in DOMAIN s : p < q /\ s[q] = w

(* Every w that is related to a member of s comes before it in s, but for  *)
(* those left out.                                                         *)
Precedes(s, R, out) ==
  \A p \in DOMAIN s : \A w : <<s[p], w>> \in R /\ w \notin out =>
    \E q \in DOMAIN s : q < p /\ s[q] = w

(* Every w that is related to a member of s comes later in s, or in t.     *)
FollowsWith(s, t, R) ==
  \A p \in DOMAIN s : \A w : <<s[p], w>> \in R =>
    w \in ToSet(t) \/ \E q \in DOMAIN s : p < q /\ s[q] = w

LEMMA JoinedFollow ==
  ASSUME NEW S, NEW R, NEW s \in Seq(S), NEW t \in Seq(S), FollowsWith(s, t, R), Follows(t, R)
  PROVE  /\ s \o t \in Seq(S)
         /\ ToSet(s \o t) = ToSet(s) \cup ToSet(t)
         /\ Follows(s \o t, R)
<1>1. /\ s \o t \in Seq(S) /\ DOMAIN (s \o t) = 1..(Len(s) + Len(t))
      /\ DOMAIN s = 1..Len(s) /\ DOMAIN t = 1..Len(t)
      /\ Len(s) \in Nat /\ Len(t) \in Nat
  OBVIOUS
<1>2. \A p \in 1..Len(s) : (s \o t)[p] = s[p] /\ p \in DOMAIN (s \o t)
  BY <1>1
<1>3. \A p \in 1..Len(t) :
        (s \o t)[p + Len(s)] = t[p] /\ p + Len(s) \in DOMAIN (s \o t)
  BY <1>1
<1>4. \A p \in DOMAIN (s \o t) :
        p \in 1..Len(s) \/ \E q \in 1..Len(t) : p = q + Len(s)
  <2> TAKE p \in DOMAIN (s \o t)
  <2>1. CASE p > Len(s)
    <3>1. p - Len(s) \in 1..Len(t) /\ p = (p - Len(s)) + Len(s)
      BY <1>1, <2>1
    <3> QED BY <3>1
  <2>2. CASE ~(p > Len(s))
    BY <1>1, <2>2
  <2> QED BY <2>1, <2>2
<1> DEFINE u == s \o t
<1>5. /\ \A p \in DOMAIN s : p \in DOMAIN u /\ u[p] = s[p]
      /\ \A p \in DOMAIN t : p + Len(s) \in DOMAIN u /\ u[p + Len(s)] = t[p]
      /\ \A p \in DOMAIN u : p \in DOMAIN s \/ \E q \in DOMAIN t : p = q + Len(s)
  BY <1>1, <1>2, <1>3, <1>4
<1> HIDE DEF u
<1>6. ToSet(u) = ToSet(s) \cup ToSet(t)
  BY <1>5 DEF ToSet
<1>7. Follows(u, R)
  <2> SUFFICES ASSUME NEW p \in DOMAIN u, NEW w, <<u[p], w>> \in R
               PROVE  \E q \in DOMAIN u : p < q /\ u[q] = w
    BY DEF Follows
  <2>1. CASE p \in DOMAIN s
    <3>1. CASE \E q \in DOMAIN s : p < q /\ s[q] = w
      BY <1>5, <3>1
    <3>2. CASE w \in ToSet(t)
      <4>1. PICK q \in DOMAIN t : t[q] = w
        BY <3>2 DEF ToSet
      <4>2. p < q + Len(s)
        BY <1>1, <2>1, <4>1
      <4> QED BY <1>5, <4>1, <4>2
    <3>3. <<s[p], w>> \in R
      BY <1>5, <2>1
    <3> QED BY <2>1, <3>1, <3>2, <3>3 DEF FollowsWith
  <2>2. CASE \E p2 \in DOMAIN t : p = p2 + Len(s)
    <3>1. PICK p2 \in DOMAIN t : p = p2 + Len(s)
      BY <2>2
    <3>2. PICK q \in DOMAIN t : p2 < q /\ t[q] = w
      BY <1>5, <3>1 DEF Follows
    <3>3. p < q + Len(s)
      BY <1>1, <3>1, <3>2
    <3> QED BY <1>5, <3>2, <3>3
  <2> QED BY <1>5, <2>1, <2>2
<1> QED BY <1>1, <1>6, <1>7 DEF u

LEMMA FlattenIs ==
  ASSUME NEW S, NEW ss \in Seq(Seq(S)), ss # <<>>
  PROVE  \E f \in [1..Len(ss) -> Seq(S)] :
           /\ FlattenSeq(ss) = f[Len(ss)]
           /\ f[1] = ss[1]
           /\ \A i \in 1..(Len(ss) - 1) : f[i + 1] = f[i] \o ss[i + 1]
<1> DEFINE n == Len(ss)
           E == 1..n
           dep == [i \in E |-> IF i = 1 THEN {} ELSE {i - 1}]
           rule == [i \in E |-> [g \in [dep[i] -> Seq(S)] |->
                      IF i = 1 THEN ss[i] ELSE g[i - 1] \o ss[i]]]
<1>1. n \in Nat \ {0} /\ \A i \in E : ss[i] \in Seq(S) /\ i \in Nat
  OBVIOUS
<1>2. dep \in [E -> SUBSET E]
  BY <1>1
<1>3. Grounded(E, dep)
  <2> SUFFICES ASSUME NEW some \in SUBSET E, some # {}
               PROVE  \E e \in some : dep[e] \cap some = {}
    BY DEF Grounded
  <2>1. PICK i \in some : \A j \in some : i <= j
    <3>1. some \in SUBSET Nat
      BY <1>1
    <3> QED BY <3>1, LeastNumber
  <2>2. i - 1 \notin some
    BY <1>1, <2>1
  <2> QED BY <2>2
<1>4. WellTyped(E, Seq(S), dep, rule)
  BY <1>1 DEF WellTyped
<1>5. PICK f : Solution(f, E, E, Seq(S), dep, rule)
  <2> HIDE DEF E, dep, rule
  <2> QED BY <1>2, <1>3, <1>4, Recursion
<1>6. f = [i \in E |-> IF i = 1 THEN ss[i] ELSE f[i - 1] \o ss[i]]
  <2>1. ASSUME NEW i \in E
        PROVE  f[i] = IF i = 1 THEN ss[i] ELSE f[i - 1] \o ss[i]
    <3>1. [x \in dep[i] |-> f[x]] \in [dep[i] -> Seq(S)]
      BY <1>2, <1>5 DEF Solution
    <3>2. i # 1 => [x \in dep[i] |-> f[x]][i - 1] = f[i - 1]
      OBVIOUS
    <3>3. f[i] = rule[i][[x \in dep[i] |-> f[x]]]
      BY <1>5 DEF Solution
    <3> QED BY <3>1, <3>2, <3>3
  <2> QED BY <1>5, <2>1 DEF Solution
<1>7. PICK flatten :
        /\ flatten = [i \in E |-> IF i = 1 THEN ss[i] ELSE flatten[i - 1] \o ss[i]]
        /\ FlattenSeq(ss) = flatten[n]
  BY <1>1, <1>6 DEF FlattenSeq
<1>8. \A i \in E : flatten[i] = IF i = 1 THEN ss[i] ELSE flatten[i - 1] \o ss[i]
  BY <1>7
<1>9. \A i \in E : flatten[i] \in Seq(S)
  <2> DEFINE T == {i \in E : flatten[i] \in Seq(S)}
  <2>1. 1 \in T
    BY <1>1, <1>8
  <2>2. ASSUME NEW i \in 1..(n - 1), i \in T PROVE i + 1 \in T
    <3>1. i + 1 \in E /\ i + 1 # 1 /\ (i + 1) - 1 = i
      BY <1>1
    <3>2. flatten[i + 1] = flatten[i] \o ss[i + 1]
      BY <1>8, <3>1
    <3>3. flatten[i] \in Seq(S) /\ ss[i + 1] \in Seq(S)
      BY <1>1, <2>2, <3>1
    <3>4. flatten[i] \o ss[i + 1] \in Seq(S)
      BY <3>3, ConcatProperties
    <3> QED BY <3>1, <3>2, <3>4
  <2>3. 1..n \subseteq T
    <3> HIDE DEF T
    <3> QED BY <1>1, <2>1, <2>2, UpTo
  <2> QED BY <2>3
<1>10. flatten \in [E -> Seq(S)]
  BY <1>7, <1>9
<1>11. flatten[1] = ss[1]
  BY <1>1, <1>8
<1>12. ASSUME NEW i \in 1..(n - 1) PROVE flatten[i + 1] = flatten[i] \o ss[i + 1]
  <2>1. i + 1 \in E /\ i + 1 # 1 /\ (i + 1) - 1 = i
    BY <1>1
  <2> QED BY <1>8, <2>1
<1> QED BY <1>7, <1>10, <1>11, <1>12

(* What FlattenSeq returns: all members, and nothing that followed a member*)
(* of one of the sequences comes before it in the result.                  *)
LEMMA FlattenFollows ==
  ASSUME NEW S, NEW R, NEW ss \in Seq(Seq(S)), \A k \in DOMAIN ss : Follows(ss[k], R)
  PROVE  /\ FlattenSeq(ss) \in Seq(S)
         /\ ToSet(FlattenSeq(ss)) = UNION {ToSet(ss[k]) : k \in DOMAIN ss}
         /\ Follows(FlattenSeq(ss), R)
<1> DEFINE n == Len(ss)
<1>1. CASE ss = <<>>
  <2>1. FlattenSeq(ss) = <<>> /\ DOMAIN ss = {} /\ <<>> \in Seq(S)
    BY <1>1 DEF FlattenSeq
  <2>2. ToSet(<<>>) = {} /\ UNION {ToSet(ss[k]) : k \in DOMAIN ss} = {}
    BY <2>1 DEF ToSet
  <2>3. Follows(<<>>, R)
    BY DEF Follows
  <2> QED BY <2>1, <2>2, <2>3
<1>2. CASE ss # <<>>
  <2>1. PICK f \in [1..n -> Seq(S)] :
          /\ FlattenSeq(ss) = f[n] /\ f[1] = ss[1]
          /\ \A i \in 1..(n - 1) : f[i + 1] = f[i] \o ss[i + 1]
    BY <1>2, FlattenIs
  <2>2. n \in Nat \ {0} /\ DOMAIN ss = 1..n /\ \A i \in 1..n : ss[i] \in Seq(S)
    BY <1>2
  <2> DEFINE Members(i) == UNION {ToSet(ss[k]) : k \in 1..i}
             Good(i) == ToSet(f[i]) = Members(i) /\ Follows(f[i], R)
             T == {i \in 1..n : Good(i)}
  <2> HIDE DEF n
  <2>3. Good(1)
    <3>1. Members(1) = ToSet(ss[1])
      OBVIOUS
    <3> QED BY <2>1, <2>2, <3>1
  <2>4. ASSUME NEW i \in 1..(n - 1), Good(i) PROVE Good(i + 1)
    <3>1. i \in 1..n /\ i + 1 \in 1..n
      BY <2>2
    <3>2. /\ f[i] \in Seq(S) /\ ss[i + 1] \in Seq(S)
          /\ f[i + 1] = f[i] \o ss[i + 1]
          /\ Follows(f[i], R) /\ Follows(ss[i + 1], R)
      BY <2>1, <2>2, <2>4, <3>1
    <3>3. /\ ToSet(f[i + 1]) = ToSet(f[i]) \cup ToSet(ss[i + 1])
          /\ Follows(f[i + 1], R)
      <4>1. PICK s, t : s = f[i] /\ t = ss[i + 1]
        OBVIOUS
      <4>2. s \in Seq(S) /\ t \in Seq(S) /\ FollowsWith(s, t, R) /\ Follows(t, R)
        BY <3>2, <4>1 DEF Follows, FollowsWith
      <4>3. ToSet(s \o t) = ToSet(s) \cup ToSet(t) /\ Follows(s \o t, R)
        BY <4>2, JoinedFollow
      <4> QED BY <3>2, <4>1, <4>3
    <3>4. Members(i + 1) = Members(i) \cup ToSet(ss[i + 1])
      <4>1. 1..(i + 1) = 1..i \cup {i + 1}
        BY <2>2
      <4> QED BY <4>1
    <3> HIDE DEF Members
    <3> QED BY <2>4, <3>3, <3>4
  <2> HIDE DEF Good
  <2>5. Good(n)
    <3>1. 1 \in T /\ 1 \in Nat
      BY <2>2, <2>3
    <3>2. \A i \in 1..(n - 1) : i \in T => i + 1 \in T
      BY <2>2, <2>4
    <3>3. 1..n \subseteq T
      <4> HIDE DEF T
      <4> QED BY <2>2, <3>1, <3>2, UpTo
    <3>4. n \in 1..n
      BY <2>2
    <3> QED BY <3>3, <3>4
  <2>6. f[n] \in Seq(S)
    BY <2>1, <2>2
  <2>7. UNION {ToSet(ss[k]) : k \in DOMAIN ss} = Members(n)
    BY <2>2
  <2> QED BY <2>1, <2>5, <2>6, <2>7 DEF Good
<1> QED BY <1>1, <1>2

(***************************************************************************)
(* The fold behind Distinct.                                               *)
(***************************************************************************)
LEMMA GreatestIs ==
  ASSUME NEW n \in Nat, NEW A \in SUBSET (1..n), A # {}
  PROVE  Max(A) \in A /\ \A m \in A : m <= Max(A)
<1> DEFINE T == {n - m : m \in A}
<1>1. T \in SUBSET Nat /\ T # {}
  <2>1. \A m \in A : n - m \in Nat
    OBVIOUS
  <2> QED BY <2>1
<1>2. PICK t \in T : \A u \in T : t <= u
  <2> HIDE DEF T
  <2> QED BY <1>1, LeastNumber
<1>3. PICK m \in A : t = n - m
  BY <1>2
<1>4. ASSUME NEW k \in A PROVE m >= k
  <2>1. n - m <= n - k
    BY <1>2, <1>3
  <2> QED BY <2>1
<1>5. \E x \in A : \A y \in A : x >= y
  BY <1>4
<1>6. Max(A) \in A /\ \A y \in A : Max(A) >= y
  BY <1>5 DEF Max
<1> QED BY <1>6

(* What Distinct does with one more member of the list.                    *)
Step(list, v, seen) ==
  IF v \in seen \cup ToSet(list) THEN list ELSE Append(list, v)

LEMMA StepType ==
  ASSUME NEW S, NEW list \in Seq(S), NEW v \in S, NEW seen
  PROVE  Step(list, v, seen) \in Seq(S)
BY DEF Step

LEMMA FoldIs ==
  ASSUME NEW S, NEW s \in Seq(S), NEW seen
  PROVE  \E iter :
           /\ iter = [A \in SUBSET (1..Len(s)) |->
                        IF A = {} THEN <<>>
                        ELSE Step(iter[A \ {Max(A)}], s[Max(A)], seen)]
           /\ Distinct(s, seen) = iter[1..Len(s)]
<1> DEFINE n == Len(s)
           E == SUBSET (1..n)
           dep == [A \in E |-> IF A = {} THEN {} ELSE {A \ {Max(A)}}]
           rule == [A \in E |-> [g \in [dep[A] -> Seq(S)] |->
                      IF A = {} THEN <<>>
                      ELSE Step(g[A \ {Max(A)}], s[Max(A)], seen)]]
<1>1. n \in Nat /\ DOMAIN s = 1..n /\ \A i \in 1..n : s[i] \in S
  OBVIOUS
<1>2. dep \in [E -> SUBSET E]
  OBVIOUS
<1>3. \A A \in E : A # {} => Max(A) \in A
  BY <1>1, GreatestIs
<1>4. Grounded(E, dep)
  <2> SUFFICES ASSUME NEW some \in SUBSET E, some # {}
               PROVE  \E A \in some : dep[A] \cap some = {}
    BY DEF Grounded
  <2>1. IsWellFoundedOn(StrictSubsetOrdering(1..n), E)
    <3>1. IsFiniteSet(1..n)
      BY <1>1, FS_Interval
    <3> QED BY <3>1, FS_StrictSubsetOrderingWellFounded, FS_FiniteSubsetsOfFinite
  <2>2. PICK A \in some : \A B \in some : ~(<<B, A>> \in StrictSubsetOrdering(1..n))
    <3> HIDE DEF E
    <3> QED BY <2>1, WFMin
  <2>3. A # {} => A \ {Max(A)} \notin some
    BY <1>3, <2>2 DEF StrictSubsetOrdering
  <2> QED BY <2>3
<1>5. WellTyped(E, Seq(S), dep, rule)
  <2> SUFFICES ASSUME NEW A \in E, NEW g \in [dep[A] -> Seq(S)]
               PROVE  rule[A][g] \in Seq(S)
    BY DEF WellTyped
  <2>1. CASE A = {}
    BY <2>1
  <2>2. CASE A # {}
    <3>1. g[A \ {Max(A)}] \in Seq(S) /\ s[Max(A)] \in S
      BY <1>1, <1>3, <2>2
    <3> QED BY <2>2, <3>1, StepType
  <2> QED BY <2>1, <2>2
<1>6. PICK f : Solution(f, E, E, Seq(S), dep, rule)
  <2> HIDE DEF E, dep, rule
  <2> QED BY <1>2, <1>4, <1>5, Recursion
<1>7. f = [A \in E |-> IF A = {} THEN <<>>
                      ELSE Step(f[A \ {Max(A)}], s[Max(A)], seen)]
  <2>1. ASSUME NEW A \in E
        PROVE  f[A] = IF A = {} THEN <<>>
                      ELSE Step(f[A \ {Max(A)}], s[Max(A)], seen)
    <3>1. [x \in dep[A] |-> f[x]] \in [dep[A] -> Seq(S)]
      BY <1>2, <1>6 DEF Solution
    <3>2. A # {} => [x \in dep[A] |-> f[x]][A \ {Max(A)}] = f[A \ {Max(A)}]
      OBVIOUS
    <3>3. f[A] = rule[A][[x \in dep[A] |-> f[x]]]
      BY <1>6 DEF Solution
    <3> QED BY <3>1, <3>2, <3>3
  <2> QED BY <1>6, <2>1 DEF Solution
<1> QED BY <1>1, <1>7 DEF Distinct, FoldLeft, MapThenFoldSet, Step

LEMMA DistinctUnrolls ==
  ASSUME NEW S, NEW s \in Seq(S), NEW seen
  PROVE  \E f \in [0..Len(s) -> Seq(S)] :
           /\ f[0] = <<>>
           /\ \A i \in 0..(Len(s) - 1) : f[i + 1] = Step(f[i], s[i + 1], seen)
           /\ Distinct(s, seen) = f[Len(s)]
<1> DEFINE n == Len(s)
<1>1. n \in Nat /\ DOMAIN s = 1..n /\ \A i \in 1..n : s[i] \in S
  OBVIOUS
<1>2. PICK iter :
        /\ iter = [A \in SUBSET (1..n) |->
                     IF A = {} THEN <<>>
                     ELSE Step(iter[A \ {Max(A)}], s[Max(A)], seen)]
        /\ Distinct(s, seen) = iter[1..n]
  BY FoldIs
<1> DEFINE f == [i \in 0..n |-> iter[1..i]]
<1> HIDE DEF n
<1>3. f[0] = <<>>
  <2>1. 1..0 = {} /\ 0 \in 0..n /\ {} \in SUBSET (1..n)
    BY <1>1
  <2> QED BY <1>2, <2>1
<1>4. ASSUME NEW i \in 0..(n - 1) PROVE f[i + 1] = Step(f[i], s[i + 1], seen)
  <2> DEFINE A == 1..(i + 1)
  <2>1. /\ i \in 0..n /\ i + 1 \in 0..n /\ A \in SUBSET (1..n) /\ i + 1 \in A
        /\ A # {}
    BY <1>1
  <2>2. Max(A) = i + 1
    <3>1. Max(A) \in A /\ i + 1 <= Max(A)
      BY <1>1, <2>1, GreatestIs
    <3> QED BY <2>1, <3>1
  <2>3. A \ {i + 1} = 1..i
    BY <2>1
  <2>4. iter[A] = Step(iter[A \ {Max(A)}], s[Max(A)], seen)
    <3> HIDE DEF A
    <3> QED BY <1>2, <2>1
  <2> QED BY <2>1, <2>2, <2>3, <2>4
<1>5. f \in [0..n -> Seq(S)]
  <2> DEFINE T == {i \in 0..n : f[i] \in Seq(S)}
  <2>1. 0 \in T
    <3>1. 0 \in 0..n /\ <<>> \in Seq(S)
      BY <1>1
    <3> HIDE DEF f
    <3> QED BY <1>3, <3>1
  <2>2. ASSUME NEW i \in 0..(n - 1), i \in T PROVE i + 1 \in T
    <3>1. i + 1 \in 0..n /\ f[i] \in Seq(S) /\ s[i + 1] \in S
      BY <1>1, <2>2
    <3> HIDE DEF f
    <3>2. f[i + 1] \in Seq(S)
      BY <1>4, <3>1, StepType
    <3> QED BY <3>1, <3>2
  <2>3. 0..n \subseteq T
    <3> HIDE DEF T
    <3> QED BY <1>1, <2>1, <2>2, UpTo
  <2> QED BY <2>3
<1>6. Distinct(s, seen) = f[n]
  <2>1. n \in 0..n
    BY <1>1
  <2>2. f[n] = iter[1..n]
    BY <2>1
  <2> QED BY <1>2, <2>2
<1> HIDE DEF f
<1> QED BY <1>3, <1>4, <1>5, <1>6 DEF n

(* What is known of the list after some members of s.                      *)
DistinctSoFar(list, i, s, seen, R) ==
  /\ ToSet(list) = {s[p] : p \in 1..i} \ seen
  /\ \A k, l \in DOMAIN list : k # l => list[k] # list[l]
  /\ Precedes(list, R, seen)

LEMMA StepIsDistinct ==
  ASSUME NEW S, NEW R, NEW s \in Seq(S), NEW seen, Precedes(s, R, seen),
         NEW i \in 0..(Len(s) - 1), NEW list \in Seq(S),
         DistinctSoFar(list, i, s, seen, R)
  PROVE  DistinctSoFar(Step(list, s[i + 1], seen), i + 1, s, seen, R)
<1> DEFINE v == s[i + 1]
           next == Append(list, v)
           Members(j) == {s[p] : p \in 1..j}
<1>1. /\ i \in Nat /\ i + 1 \in DOMAIN s /\ v \in S /\ DOMAIN s = 1..Len(s)
      /\ 1..(i + 1) = 1..i \cup {i + 1} /\ Len(s) \in Nat
  OBVIOUS
<1>2. Members(i + 1) = Members(i) \cup {v}
  BY <1>1
<1>3. CASE v \in seen \cup ToSet(list)
  <2>1. Members(i + 1) \ seen = Members(i) \ seen
    BY <1>2, <1>3 DEF DistinctSoFar
  <2> QED BY <1>3, <2>1 DEF Step, DistinctSoFar
<1>4. CASE v \notin seen \cup ToSet(list)
  <2>1. Step(list, v, seen) = next
    BY <1>4 DEF Step
  <2> DEFINE n == Len(list)
  <2>2. /\ n \in Nat /\ DOMAIN list = 1..n /\ DOMAIN next = 1..(n + 1)
        /\ \A k \in 1..n : next[k] = list[k]
        /\ next[n + 1] = v
    BY <1>1
  <2> HIDE DEF n, next, v
  <2>3. ToSet(next) = ToSet(list) \cup {v}
    <3>1. 1..(n + 1) = 1..n \cup {n + 1}
      BY <2>2
    <3> QED BY <2>2, <3>1 DEF ToSet
  <2>4. ToSet(next) = Members(i + 1) \ seen
    BY <1>2, <1>4, <2>3 DEF DistinctSoFar
  <2>5. ASSUME NEW k \in DOMAIN next, NEW l \in DOMAIN next, k # l
        PROVE  next[k] # next[l]
    <3>1. \A j \in 1..n : list[j] # v
      BY <1>4, <2>2 DEF ToSet
    <3> QED BY <2>2, <2>5, <3>1 DEF DistinctSoFar
  <2>6. Precedes(next, R, seen)
    <3> SUFFICES ASSUME NEW k \in DOMAIN next, NEW w, <<next[k], w>> \in R, w \notin seen
                 PROVE  \E l \in DOMAIN next : l < k /\ next[l] = w
      BY DEF Precedes
    <3>1. CASE k \in 1..n
      <4>1. PICK l \in DOMAIN list : l < k /\ list[l] = w
        BY <2>2, <3>1 DEF DistinctSoFar, Precedes
      <4> QED BY <2>2, <4>1
    <3>2. CASE k = n + 1
      <4>1. PICK p \in DOMAIN s : p < i + 1 /\ s[p] = w
        BY <1>1, <2>2, <3>2 DEF Precedes, v
      <4>2. w \in Members(i)
        BY <1>1, <4>1
      <4>3. w \in ToSet(list)
        BY <4>2 DEF DistinctSoFar
      <4>4. PICK l \in DOMAIN list : list[l] = w
        BY <4>3 DEF ToSet
      <4> QED BY <2>2, <3>2, <4>4
    <3> QED BY <2>2, <3>1, <3>2
  <2> QED BY <2>1, <2>4, <2>5, <2>6 DEF DistinctSoFar, v
<1> QED BY <1>3, <1>4

(* The members of s that were not seen, each of them once, and in an order *)
(* in which nothing comes before what came before it in s.                 *)
IsDistinct(list, s, seen, S, R) ==
  /\ list \in Seq(S)
  /\ ToSet(list) = ToSet(s) \ seen
  /\ \A k, l \in DOMAIN list : k # l => list[k] # list[l]
  /\ Precedes(list, R, seen)

(* What Distinct returns.                                                  *)
LEMMA DistinctIs ==
  ASSUME NEW S, NEW R, NEW s \in Seq(S), NEW seen, Precedes(s, R, seen)
  PROVE  IsDistinct(Distinct(s, seen), s, seen, S, R)
<1> DEFINE n == Len(s)
<1>1. n \in Nat /\ DOMAIN s = 1..n
  OBVIOUS
<1>2. PICK f \in [0..n -> Seq(S)] :
        /\ f[0] = <<>>
        /\ \A i \in 0..(n - 1) : f[i + 1] = Step(f[i], s[i + 1], seen)
        /\ Distinct(s, seen) = f[n]
  BY DistinctUnrolls
<1> DEFINE T == {i \in 0..n : DistinctSoFar(f[i], i, s, seen, R)}
<1>3. 0 \in T
  <2>1. {s[p] : p \in 1..0} = {} /\ ToSet(<<>>) = {} /\ DOMAIN <<>> = {}
    BY DEF ToSet
  <2>2. DistinctSoFar(<<>>, 0, s, seen, R)
    BY <2>1 DEF DistinctSoFar, Precedes
  <2> QED BY <1>1, <1>2, <2>2
<1>4. ASSUME NEW i \in 0..(n - 1), i \in T PROVE i + 1 \in T
  <2>1. i + 1 \in 0..n /\ f[i] \in Seq(S) /\ f[i + 1] = Step(f[i], s[i + 1], seen)
    BY <1>1, <1>2
  <2>2. DistinctSoFar(Step(f[i], s[i + 1], seen), i + 1, s, seen, R)
    BY <1>4, <2>1, StepIsDistinct
  <2> QED BY <2>1, <2>2
<1>5. 0..n \subseteq T
  <2> HIDE DEF T, n
  <2> QED BY <1>1, <1>3, <1>4, UpTo
<1>6. n \in 0..n
  BY <1>1
<1>7. DistinctSoFar(f[n], n, s, seen, R)
  BY <1>5, <1>6
<1>8. ToSet(s) = {s[p] : p \in 1..n}
  BY <1>1 DEF ToSet
<1> HIDE DEF n, T
<1> QED BY <1>2, <1>6, <1>7, <1>8 DEF DistinctSoFar, IsDistinct

(***************************************************************************)
(* The tenant's answer.                                                    *)
(***************************************************************************)
Direct == [e \in Entities |-> ToSet(lineage[e])]

LEMMA AnswersAreGrounded ==
  ASSUME lineage \in Lineages
  PROVE  /\ lineage \in [Entities -> Seq(Entities)]
         /\ Direct \in [Entities -> SUBSET Entities]
         /\ Grounded(Entities, Direct)
<1>1. lineage \in [Entities -> Seq(Entities)]
  BY LineageAssumption
<1>2. Direct \in [Entities -> SUBSET Entities]
  BY <1>1 DEF Direct, ToSet
<1>3. Grounded(Entities, Direct)
  <2> SUFFICES ASSUME NEW some \in SUBSET Entities, some # {}
               PROVE  \E e \in some : Direct[e] \cap some = {}
    BY DEF Grounded
  <2>1. PICK e \in some : ToSet(lineage[e]) \cap some = {}
    BY LineageAssumption
  <2> QED BY <2>1 DEF Direct
<1> QED BY <1>1, <1>2, <1>3

LEMMA TreeIs ==
  ASSUME lineage \in Lineages, NEW e \in Entities
  PROVE  /\ Tree(e) \subseteq Entities
         /\ Tree(e) = {e} \cup Below(e)
<1> DEFINE rule == [x \in Entities |-> [g \in [Direct[x] -> SUBSET Entities] |->
                      {x} \cup UNION {g[y] : y \in Direct[x]}]]
<1>1. /\ Direct \in [Entities -> SUBSET Entities] /\ Grounded(Entities, Direct)
      /\ \A x \in Entities : Direct[x] = ToSet(lineage[x])
  BY AnswersAreGrounded DEF Direct
<1>2. WellTyped(Entities, SUBSET Entities, Direct, rule)
  <2> SUFFICES ASSUME NEW x \in Entities, NEW g \in [Direct[x] -> SUBSET Entities]
               PROVE  rule[x][g] \in SUBSET Entities
    BY DEF WellTyped
  <2>1. rule[x][g] = {x} \cup UNION {g[y] : y \in Direct[x]}
    OBVIOUS
  <2> QED BY <2>1
<1>3. PICK f : Solution(f, Entities, Entities, SUBSET Entities, Direct, rule)
  <2> HIDE DEF rule
  <2> QED BY <1>1, <1>2, Recursion
<1>4. f = [x \in Entities |-> {x} \cup UNION {f[y] : y \in ToSet(lineage[x])}]
  <2>1. ASSUME NEW x \in Entities
        PROVE  f[x] = {x} \cup UNION {f[y] : y \in ToSet(lineage[x])}
    <3> DEFINE g == [y \in Direct[x] |-> f[y]]
    <3>1. g \in [Direct[x] -> SUBSET Entities]
      BY <1>1, <1>3 DEF Solution
    <3>2. f[x] = rule[x][g]
      BY <1>3 DEF Solution
    <3>3. rule[x][g] = {x} \cup UNION {g[y] : y \in Direct[x]}
      <4> HIDE DEF g
      <4> QED BY <3>1
    <3>4. {g[y] : y \in Direct[x]} = {f[y] : y \in ToSet(lineage[x])}
      BY <1>1
    <3> QED BY <3>2, <3>3, <3>4
  <2> QED BY <1>3, <2>1 DEF Solution
<1>5. PICK tree :
        /\ tree = [x \in Entities |-> {x} \cup UNION {tree[y] : y \in ToSet(lineage[x])}]
        /\ \A x : Tree(x) = tree[x]
  BY <1>4 DEF Tree
<1>6. ASSUME NEW x \in Entities PROVE Tree(x) = {x} \cup Below(x)
  <2>1. tree[x] = {x} \cup UNION {tree[y] : y \in ToSet(lineage[x])}
    BY <1>5
  <2>2. {tree[y] : y \in ToSet(lineage[x])} = {Tree(y) : y \in ToSet(lineage[x])}
    BY <1>5
  <2> QED BY <1>5, <2>1, <2>2 DEF Below
<1>7. \A x \in Entities : Tree(x) \subseteq Entities
  <2> DEFINE outside == {x \in Entities : ~(Tree(x) \subseteq Entities)}
  <2>1. SUFFICES ASSUME outside # {} PROVE FALSE
    OBVIOUS
  <2>2. PICK x \in outside : Direct[x] \cap outside = {}
    BY <1>1, <2>1 DEF Grounded
  <2>3. \A y \in ToSet(lineage[x]) : Tree(y) \subseteq Entities
    BY <1>1, <2>2
  <2>4. Tree(x) \subseteq Entities
    BY <1>6, <2>3 DEF Below
  <2> QED BY <2>4
<1> QED BY <1>6, <1>7

(* What an entity of a tree depends on is in the tree.                     *)
LEMMA TreesAreClosed ==
  ASSUME lineage \in Lineages, NEW e \in Entities, NEW v \in Tree(e)
  PROVE  v \in Entities /\ Below(v) \subseteq Tree(e)
<1> DEFINE open == {x \in Entities : \E u \in Tree(x) : ~(Below(u) \subseteq Tree(x))}
<1>1. /\ Direct \in [Entities -> SUBSET Entities] /\ Grounded(Entities, Direct)
      /\ \A x \in Entities : Direct[x] = ToSet(lineage[x])
  BY AnswersAreGrounded DEF Direct
<1>2. open = {}
  <2>1. SUFFICES ASSUME open # {} PROVE FALSE
    OBVIOUS
  <2>2. PICK x \in open : Direct[x] \cap open = {}
    BY <1>1, <2>1 DEF Grounded
  <2>3. ASSUME NEW u \in Tree(x) PROVE Below(u) \subseteq Tree(x)
    <3>1. Tree(x) = {x} \cup Below(x)
      BY TreeIs
    <3>2. CASE u = x
      BY <3>1, <3>2
    <3>3. CASE u # x
      <4>1. PICK y \in ToSet(lineage[x]) : u \in Tree(y)
        BY <2>3, <3>1, <3>3 DEF Below
      <4>2. y \in Entities /\ y \notin open
        BY <1>1, <2>2, <4>1
      <4>3. Below(u) \subseteq Tree(y)
        BY <4>1, <4>2
      <4>4. Tree(y) \subseteq Below(x)
        BY <4>1 DEF Below
      <4> QED BY <3>1, <4>3, <4>4
    <3> QED BY <3>2, <3>3
  <2> QED BY <2>3
<1> QED BY <1>2, TreeIs

(* Views, each with one that it depends on.                                *)
Needed == {pair \in Entities \X ViewEntities : pair[2] \in Below(pair[1])}

CollectsRight(list, e) ==
  /\ list \in Seq(ViewEntities)
  /\ ToSet(list) = Tree(e) \cap ViewEntities
  /\ Follows(list, Needed)

LEMMA CollectUnrolls ==
  ASSUME lineage \in Lineages, NEW e \in Entities
  PROVE  CollectViews(e) =
           (IF e \in ViewEntities THEN <<e>> ELSE <<>>)
             \o FlattenSeq([k \in DOMAIN lineage[e] |-> CollectViews(lineage[e][k])])
<1> DEFINE Own(x) == IF x \in ViewEntities THEN <<x>> ELSE <<>>
           Lists == Seq(ViewEntities)
           rule == [x \in Entities |-> [g \in [Direct[x] -> Lists] |->
                      Own(x) \o FlattenSeq([k \in DOMAIN lineage[x] |-> g[lineage[x][k]]])]]
<1>1. /\ Direct \in [Entities -> SUBSET Entities] /\ Grounded(Entities, Direct)
      /\ \A x \in Entities : Direct[x] = ToSet(lineage[x])
      /\ \A x \in Entities : lineage[x] \in Seq(Entities)
  BY AnswersAreGrounded DEF Direct
<1>2. \A x \in Entities : \A k \in DOMAIN lineage[x] : lineage[x][k] \in Direct[x]
  BY <1>1 DEF ToSet
<1>3. WellTyped(Entities, Lists, Direct, rule)
  <2> SUFFICES ASSUME NEW x \in Entities, NEW g \in [Direct[x] -> Lists]
               PROVE  rule[x][g] \in Lists
    BY DEF WellTyped
  <2> DEFINE ss == [k \in DOMAIN lineage[x] |-> g[lineage[x][k]]]
  <2>1. ss \in Seq(Lists)
    <3>1. /\ DOMAIN lineage[x] = 1..Len(lineage[x]) /\ Len(lineage[x]) \in Nat
          /\ \A k \in DOMAIN lineage[x] : g[lineage[x][k]] \in Lists
      BY <1>1, <1>2
    <3> HIDE DEF Lists
    <3> QED BY <3>1
  <2>2. \A k \in DOMAIN ss : Follows(ss[k], {})
    BY DEF Follows
  <2>3. FlattenSeq(ss) \in Lists
    <3> HIDE DEF ss
    <3> QED BY <2>1, <2>2, FlattenFollows
  <2>4. Own(x) \in Lists
    OBVIOUS
  <2>5. Own(x) \o FlattenSeq(ss) \in Lists
    <3> HIDE DEF ss, Own
    <3> QED BY <2>3, <2>4, ConcatProperties
  <2>6. rule[x][g] = Own(x) \o FlattenSeq(ss)
    OBVIOUS
  <2> QED BY <2>5, <2>6
<1>4. PICK f : Solution(f, Entities, Entities, Lists, Direct, rule)
  <2> HIDE DEF rule, Lists
  <2> QED BY <1>1, <1>3, Recursion
<1> DEFINE Unrolled(h, x) ==
      Own(x) \o FlattenSeq([k \in DOMAIN lineage[x] |-> h[lineage[x][k]]])
<1>5. f = [x \in Entities |-> Unrolled(f, x)]
  <2>1. ASSUME NEW x \in Entities PROVE f[x] = Unrolled(f, x)
    <3> DEFINE g == [y \in Direct[x] |-> f[y]]
    <3>1. g \in [Direct[x] -> Lists]
      BY <1>1, <1>4 DEF Solution
    <3>2. f[x] = rule[x][g]
      BY <1>4 DEF Solution
    <3>3. rule[x][g] = Own(x) \o FlattenSeq([k \in DOMAIN lineage[x] |-> g[lineage[x][k]]])
      <4> HIDE DEF g
      <4> QED BY <3>1
    <3>4. [k \in DOMAIN lineage[x] |-> g[lineage[x][k]]]
            = [k \in DOMAIN lineage[x] |-> f[lineage[x][k]]]
      BY <1>2
    <3> QED BY <3>2, <3>3, <3>4
  <2> QED BY <1>4, <2>1 DEF Solution
<1>6. PICK collected :
        /\ collected = [x \in Entities |-> Unrolled(collected, x)]
        /\ \A x : CollectViews(x) = collected[x]
  BY <1>5 DEF CollectViews
<1>7. collected[e] = Unrolled(collected, e)
  BY <1>6
<1>8. [k \in DOMAIN lineage[e] |-> collected[lineage[e][k]]]
        = [k \in DOMAIN lineage[e] |-> CollectViews(lineage[e][k])]
  BY <1>6
<1> QED BY <1>6, <1>7, <1>8

(* The views of a tree, each before those it depends on.                   *)
LEMMA CollectIs ==
  ASSUME lineage \in Lineages, NEW e \in Entities
  PROVE  CollectsRight(CollectViews(e), e)
<1> DEFINE wrong == {x \in Entities : ~CollectsRight(CollectViews(x), x)}
<1>1. /\ Direct \in [Entities -> SUBSET Entities] /\ Grounded(Entities, Direct)
      /\ \A x \in Entities : Direct[x] = ToSet(lineage[x])
      /\ \A x \in Entities : lineage[x] \in Seq(Entities)
  BY AnswersAreGrounded DEF Direct
<1>2. SUFFICES ASSUME wrong # {} PROVE FALSE
  OBVIOUS
<1>3. PICK x \in wrong : Direct[x] \cap wrong = {}
  BY <1>1, <1>2 DEF Grounded
<1> DEFINE own == IF x \in ViewEntities THEN <<x>> ELSE <<>>
           ss == [k \in DOMAIN lineage[x] |-> CollectViews(lineage[x][k])]
           rest == FlattenSeq(ss)
<1>4. CollectViews(x) = own \o rest
  BY CollectUnrolls
<1>5. \A k \in DOMAIN lineage[x] :
        /\ lineage[x][k] \in ToSet(lineage[x])
        /\ CollectsRight(CollectViews(lineage[x][k]), lineage[x][k])
  <2> TAKE k \in DOMAIN lineage[x]
  <2>1. lineage[x][k] \in ToSet(lineage[x])
    BY DEF ToSet
  <2> QED BY <1>1, <1>3, <2>1
<1>6. ss \in Seq(Seq(ViewEntities))
  <2>1. /\ DOMAIN lineage[x] = 1..Len(lineage[x]) /\ Len(lineage[x]) \in Nat
    BY <1>1
  <2>2. \A k \in DOMAIN lineage[x] : CollectViews(lineage[x][k]) \in Seq(ViewEntities)
    BY <1>5 DEF CollectsRight
  <2> QED BY <2>1, <2>2
<1>7. \A k \in DOMAIN ss : Follows(ss[k], Needed)
  BY <1>5 DEF CollectsRight
<1>8. /\ rest \in Seq(ViewEntities)
      /\ ToSet(rest) = UNION {ToSet(ss[k]) : k \in DOMAIN ss}
      /\ Follows(rest, Needed)
  <2> HIDE DEF ss
  <2> QED BY <1>6, <1>7, FlattenFollows
<1>9. ToSet(rest) = Below(x) \cap ViewEntities
  <2>1. \A k \in DOMAIN ss : ToSet(ss[k]) = Tree(lineage[x][k]) \cap ViewEntities
    BY <1>5 DEF CollectsRight
  <2>2. \A y \in ToSet(lineage[x]) : \E k \in DOMAIN ss : y = lineage[x][k]
    BY DEF ToSet
  <2>3. \A v \in ToSet(rest) : v \in Below(x) \cap ViewEntities
    <3> TAKE v \in ToSet(rest)
    <3>1. PICK k \in DOMAIN ss : v \in ToSet(ss[k])
      <4> HIDE DEF ss, rest
      <4> QED BY <1>8
    <3> QED BY <1>5, <2>1, <3>1 DEF Below
  <2>4. \A v \in Below(x) \cap ViewEntities : v \in ToSet(rest)
    <3> TAKE v \in Below(x) \cap ViewEntities
    <3>1. PICK y \in ToSet(lineage[x]) : v \in Tree(y)
      BY DEF Below
    <3>2. PICK k \in DOMAIN ss : y = lineage[x][k]
      BY <2>2
    <3>3. v \in ToSet(ss[k])
      BY <2>1, <3>1, <3>2
    <3> HIDE DEF ss, rest
    <3> QED BY <1>8, <3>2, <3>3
  <2> QED BY <2>3, <2>4
<1>10. /\ own \in Seq(ViewEntities) /\ ToSet(own) = {x} \cap ViewEntities
       /\ FollowsWith(own, rest, Needed)
  <2>1. CASE x \in ViewEntities
    <3>1. own = <<x>> /\ DOMAIN own = {1} /\ own[1] = x /\ own \in Seq(ViewEntities)
      BY <2>1
    <3>2. \A w : <<x, w>> \in Needed => w \in ToSet(rest)
      BY <1>9 DEF Needed
    <3> HIDE DEF own, rest
    <3> QED BY <2>1, <3>1, <3>2 DEF ToSet, FollowsWith
  <2>2. CASE x \notin ViewEntities
    <3>1. own = <<>> /\ DOMAIN own = {} /\ own \in Seq(ViewEntities)
      BY <2>2
    <3> HIDE DEF own, rest
    <3> QED BY <2>2, <3>1 DEF ToSet, FollowsWith
  <2> QED BY <2>1, <2>2
<1>11. Tree(x) = {x} \cup Below(x)
  BY TreeIs
<1> HIDE DEF own, rest
<1>12. /\ own \o rest \in Seq(ViewEntities)
       /\ ToSet(own \o rest) = ToSet(own) \cup ToSet(rest)
       /\ Follows(own \o rest, Needed)
  BY <1>8, <1>10, JoinedFollow
<1>13. CollectsRight(CollectViews(x), x)
  BY <1>4, <1>9, <1>10, <1>11, <1>12 DEF CollectsRight
<1> QED BY <1>13

LEMMA ReversedPrecede ==
  ASSUME NEW S, NEW R, NEW s \in Seq(S), Follows(s, R), NEW out
  PROVE  /\ Reverse(s) \in Seq(S)
         /\ ToSet(Reverse(s)) = ToSet(s)
         /\ Precedes(Reverse(s), R, out)
<1> DEFINE n == Len(s)
           r == Reverse(s)
<1>1. n \in Nat /\ DOMAIN s = 1..n /\ \A i \in 1..n : s[i] \in S
  OBVIOUS
<1>2. r = [i \in 1..n |-> s[(n - i) + 1]]
  BY DEF Reverse
<1>3. \A i \in 1..n : (n - i) + 1 \in 1..n /\ (n - ((n - i) + 1)) + 1 = i
  BY <1>1
<1>4. /\ DOMAIN r = 1..n
      /\ \A i \in 1..n : r[i] = s[(n - i) + 1] /\ s[i] = r[(n - i) + 1]
  BY <1>2, <1>3
<1>5. r \in Seq(S)
  BY <1>1, <1>2, <1>3
<1> HIDE DEF r, n
<1>6. ToSet(r) = ToSet(s)
  BY <1>1, <1>3, <1>4 DEF ToSet
<1>7. Precedes(r, R, out)
  <2> SUFFICES ASSUME NEW p \in 1..n, NEW w, <<r[p], w>> \in R
               PROVE  \E q \in DOMAIN r : q < p /\ r[q] = w
    BY <1>4 DEF Precedes
  <2>1. PICK q \in 1..n : (n - p) + 1 < q /\ s[q] = w
    BY <1>1, <1>3, <1>4 DEF Follows
  <2>2. (n - q) + 1 \in 1..n /\ (n - q) + 1 < p
    BY <1>1, <2>1
  <2> QED BY <1>4, <2>1, <2>2
<1> QED BY <1>5, <1>6, <1>7 DEF r

(* The views a model is built on, each of them once and after all it       *)
(* depends on, however its tree is made.                                   *)
BottomUpIs ==
  \A m \in Entities :
    /\ BottomUp(m) \in Seq(ViewEntities)
    /\ ToSet(BottomUp(m)) = Tree(m) \cap ViewEntities
    /\ \A k, l \in DOMAIN BottomUp(m) : k # l => BottomUp(m)[k] # BottomUp(m)[l]
    /\ Precedes(BottomUp(m), Needed, {})

LEMMA BottomUpHolds == lineage \in Lineages => BottomUpIs
<1> SUFFICES ASSUME lineage \in Lineages, NEW m \in Entities
             PROVE  /\ BottomUp(m) \in Seq(ViewEntities)
                    /\ ToSet(BottomUp(m)) = Tree(m) \cap ViewEntities
                    /\ \A k, l \in DOMAIN BottomUp(m) :
                         k # l => BottomUp(m)[k] # BottomUp(m)[l]
                    /\ Precedes(BottomUp(m), Needed, {})
  BY DEF BottomUpIs
<1> DEFINE list == CollectViews(m)
<1>1. /\ list \in Seq(ViewEntities) /\ Follows(list, Needed)
      /\ ToSet(list) = Tree(m) \cap ViewEntities
  BY CollectIs DEF CollectsRight
<1> HIDE DEF list
<1>2. /\ Reverse(list) \in Seq(ViewEntities) /\ ToSet(Reverse(list)) = ToSet(list)
      /\ Precedes(Reverse(list), Needed, {})
  BY <1>1, ReversedPrecede
<1> DEFINE found == Distinct(Reverse(list), {})
<1>3. IsDistinct(found, Reverse(list), {}, ViewEntities, Needed)
  BY <1>2, DistinctIs
<1>4. BottomUp(m) = found
  BY DEF BottomUp, list
<1> HIDE DEF found
<1> QED BY <1>1, <1>2, <1>3, <1>4 DEF IsDistinct

(***************************************************************************)
(* The command.  What it has taken was resolved, and what it has reported  *)
(* was taken.                                                              *)
(***************************************************************************)
Loaded == {"awaiting", "reporting", "draining", "returned"}

(* Where the command is, and what that says of searches and tasks.         *)
DepStages ==
  /\ stage \in {"searching", "drainingSearch", "raised"} \cup Loaded
  /\ stage \in {"searching", "drainingSearch"} => DOMAIN resolving = {}
  /\ stage \in Loaded =>
       /\ \A s \in Searches : search[s] = "answered"
       /\ DOMAIN resolving = Indexes
  /\ stage = "raised" =>
       /\ \A s \in Searches : search[s] # "running"
       /\ \A i \in DOMAIN resolving : resolving[i] \in Over

(* What was taken, and reported, so far: nothing before the tasks exist.   *)
DepCounts ==
  /\ selected \in Seq(Models)
  /\ Len(kept) \in Nat /\ Len(kept) <= Len(selected)
  /\ stage \in {"searching", "drainingSearch"} => Len(kept) = 0
  /\ stage \in {"awaiting", "reporting", "returned"} =>
       \A i \in 1..Len(kept) : resolving[i] = "resolved"
  /\ stage = "reporting" => Len(kept) > 0
  /\ stage = "returned" => Len(kept) = Len(selected)

DepReports ==
  /\ reportedAt \in Seq(Nat) /\ \A k \in 1..Len(reportedAt) : reportedAt[k] = k
  /\ stage \in {"searching", "drainingSearch", "awaiting", "returned"} =>
       Len(reportedAt) = Len(kept)
  /\ stage = "reporting" => Len(reportedAt) = Len(kept) - 1

LEMMA DepInvHolds == DepSpec => [](DepStages /\ DepCounts /\ DepReports)
<1>1. DepInit => DepStages /\ DepCounts /\ DepReports
  <2> SUFFICES ASSUME DepInit PROVE DepStages /\ DepCounts /\ DepReports
    OBVIOUS
  <2>1. /\ selected \in Seq(Models) /\ stage = "searching" /\ kept = <<>>
        /\ reportedAt = <<>> /\ resolving = <<>>
    BY SelectedAssumption DEF DepInit
  <2>2. reportedAt \in Seq(Nat) /\ Len(reportedAt) = 0 /\ Len(kept) = 0
    BY <2>1
  <2> QED BY <2>1, <2>2 DEF DepStages, DepCounts, DepReports, Loaded
<1>2. ASSUME DepStages, DepCounts, DepReports, [DepNext]_depVars
      PROVE  (DepStages /\ DepCounts /\ DepReports)'
  <2> USE <1>2
  <2>0. Len(selected) \in Nat
    BY DEF DepCounts
  <2>1. CASE UNCHANGED depVars
    BY <2>1 DEF depVars, tenantAnswers, DepStages, DepCounts, DepReports, Indexes
  <2>2. ASSUME NEW s \in Searches, SearchAnswered(s) \/ SearchCancelled(s)
        PROVE  (DepStages /\ DepCounts /\ DepReports)'
    <3>1. /\ stage \in {"searching", "drainingSearch"}
          /\ UNCHANGED <<selected, stage, resolving, kept, reportedAt>>
      BY <2>2 DEF SearchAnswered, SearchCancelled, tenantAnswers
    <3> QED BY <3>1 DEF DepStages, DepCounts, DepReports, Loaded
  <2>3. CASE SearchFails
    BY <2>3 DEF SearchFails, tenantAnswers, DepStages, DepCounts, DepReports, Loaded
  <2>4. CASE SearchDrained
    BY <2>4 DEF SearchDrained, tenantAnswers, DepStages, DepCounts, DepReports, Loaded
  <2>5. CASE ContextLoaded
    <3>1. /\ stage = "searching" /\ stage' = "awaiting"
          /\ \A s \in Searches : search'[s] = "answered"
          /\ DOMAIN resolving' = Indexes' /\ Len(kept) = 0
          /\ UNCHANGED <<selected, kept, reportedAt>>
      BY <2>5 DEF ContextLoaded, tenantAnswers, Indexes, DepCounts
    <3> QED BY <3>1 DEF DepStages, DepCounts, DepReports, Loaded
  <2>6. ASSUME NEW i \in DOMAIN resolving,
               \/ AdmitResolution(i) \/ Resolved(i) \/ ResolutionFails(i)
               \/ TaskCancelled(i)
        PROVE  (DepStages /\ DepCounts /\ DepReports)'
    <3>1. /\ \E x : resolving' = [resolving EXCEPT ![i] = x]
          /\ stage \in {"awaiting", "reporting", "draining"}
          /\ resolving[i] # "resolved"
          /\ UNCHANGED <<selected, stage, search, kept, reportedAt>>
      BY <2>6 DEF AdmitResolution, Resolved, ResolutionFails, TaskCancelled, Moves,
                  tenantAnswers, Over
    <3>2. /\ DOMAIN resolving' = DOMAIN resolving
          /\ \A j \in DOMAIN resolving : j # i => resolving'[j] = resolving[j]
      BY <3>1
    <3>3. \A j \in 1..Len(kept) : j \in Indexes
      BY <2>0 DEF DepCounts, Indexes
    <3>4. DepStages'
      BY <3>1, <3>2 DEF DepStages, Loaded, Indexes
    <3>5. DepCounts'
      BY <3>1, <3>2, <3>3 DEF DepCounts, DepStages, Loaded
    <3> QED BY <3>1, <3>4, <3>5 DEF DepReports
  <2>7. CASE TakeNext
    <3> DEFINE n == Len(kept)
    <3>1. /\ stage = "awaiting" /\ stage' = "reporting" /\ n + 1 <= Len(selected)
          /\ resolving[n + 1] = "resolved"
          /\ kept' = Append(kept, Deduplicated(n + 1))
          /\ UNCHANGED <<selected, search, resolving, reportedAt>>
      BY <2>7, <2>0 DEF TakeNext, tenantAnswers, Indexes, DepCounts
    <3>2. Len(kept') = n + 1 /\ n \in Nat
      BY <3>1 DEF DepCounts
    <3>3. \A i \in 1..(n + 1) : resolving[i] = "resolved"
      BY <3>1, <3>2 DEF DepCounts
    <3> QED BY <2>0, <3>1, <3>2, <3>3
            DEF DepStages, DepCounts, DepReports, Loaded, Indexes
  <2>8. CASE Reported
    <3> DEFINE n == Len(reportedAt)
    <3>1. /\ stage = "reporting" /\ stage' = "awaiting" /\ n = Len(kept) - 1
          /\ reportedAt' = Append(reportedAt, Len(kept)) /\ n \in Nat
          /\ UNCHANGED <<selected, search, resolving, kept>>
      BY <2>8 DEF Reported, tenantAnswers, DepReports
    <3>2. /\ reportedAt' \in Seq(Nat) /\ Len(reportedAt') = n + 1
          /\ \A k \in 1..(n + 1) : reportedAt'[k] = k
      BY <3>1 DEF DepReports, DepCounts
    <3>3. DepReports'
      BY <3>1, <3>2 DEF DepReports, DepCounts
    <3> QED BY <3>1, <3>3 DEF DepStages, DepCounts, Loaded, Indexes
  <2>9. CASE ResolvingStops
    BY <2>9 DEF ResolvingStops, tenantAnswers, DepStages, DepCounts, DepReports, Loaded,
                Indexes
  <2>10. CASE DependenciesRaised
    BY <2>10 DEF DependenciesRaised, tenantAnswers, DepStages, DepCounts, DepReports,
                 Loaded, Indexes
  <2>11. CASE DependenciesReturned
    BY <2>11 DEF DependenciesReturned, tenantAnswers, DepStages, DepCounts, DepReports,
                 Loaded, Indexes
  <2> QED BY <2>1, <2>2, <2>3, <2>4, <2>5, <2>6, <2>7, <2>8, <2>9, <2>10, <2>11
          DEF DepNext
<1> QED BY <1>1, <1>2, PTL DEF DepSpec

(* When the command has ended its searches and tasks have, and what it     *)
(* returns was reported, in the order of the input.                        *)
THEOREM NothingOutlivesResolution == DepSpec => []NoResolutionOutlives
<1>1. ASSUME DepStages, DepCounts, DepReports PROVE NoResolutionOutlives
  <2>1. stage = "returned" => \A i \in DOMAIN resolving : resolving[i] \in Over
    BY <1>1 DEF DepStages, DepCounts, Loaded, Indexes, Over
  <2>2. reportedAt = [k \in DOMAIN reportedAt |-> k]
    BY <1>1 DEF DepReports
  <2> QED BY <1>1, <2>1, <2>2
          DEF DepStages, DepCounts, DepReports, Loaded, NoResolutionOutlives
<1> QED BY <1>1, DepInvHolds, PTL

(***************************************************************************)
(* What is kept.                                                           *)
(***************************************************************************)
(* The tenant's answer does not change while the command runs, and what is *)
(* kept are lists of views.                                                *)
DepData ==
  /\ lineage \in Lineages /\ selected \in Seq(Models)
  /\ kept \in Seq(Seq(ViewEntities)) /\ Len(kept) <= Len(selected)

(* Views that an earlier reference needs were seen if they have a space.   *)
LEMMA SeenIs ==
  ASSUME kept \in Seq(Seq(ViewEntities)), KeptOnceBottomUp
  PROVE  Seen = {v \in foundViews : \E j \in 1..Len(kept) : v \in Needs(j)}
<1>1. DOMAIN kept = 1..Len(kept) /\ Len(kept) \in Nat
  OBVIOUS
<1>2. \A j \in 1..Len(kept) :
        ToSet(kept[j]) = {v \in Needs(j) : v \in foundViews =>
                                            \A i \in 1..(j - 1) : v \notin Needs(i)}
  BY <1>1 DEF KeptOnceBottomUp
<1>3. ASSUME NEW v \in Seen
      PROVE  v \in foundViews /\ \E j \in 1..Len(kept) : v \in Needs(j)
  <2>1. PICK j \in 1..Len(kept) : v \in ToSet(kept[j])
    BY <1>1, <1>3 DEF Seen
  <2> QED BY <1>2, <1>3, <2>1 DEF Seen
<1>4. ASSUME NEW v \in foundViews, NEW j \in 1..Len(kept), v \in Needs(j)
      PROVE  v \in Seen
  <2> DEFINE T == {i \in 1..Len(kept) : v \in Needs(i)}
  <2>1. T \in SUBSET Nat /\ T # {}
    <3>1. j \in T
      BY <1>4
    <3>2. \A i \in T : i \in Nat
      BY <1>1
    <3> HIDE DEF T
    <3> QED BY <3>1, <3>2
  <2>2. PICK i \in T : \A k \in T : i <= k
    <3> HIDE DEF T
    <3> QED BY <2>1, LeastNumber
  <2>3. \A k \in 1..(i - 1) : v \notin Needs(k)
    BY <1>1, <2>2
  <2>4. v \in ToSet(kept[i])
    BY <1>2, <2>2, <2>3
  <2> QED BY <1>1, <2>2, <2>4 DEF Seen
<1> QED BY <1>3, <1>4

(* What Deduplicated takes for the next reference.                         *)
LEMMA DeduplicatedIs ==
  ASSUME DepData, KeptOnceBottomUp, NEW i \in 1..Len(selected), i = Len(kept) + 1
  PROVE  /\ Deduplicated(i) \in Seq(ViewEntities)
         /\ ToSet(Deduplicated(i)) =
              {v \in Needs(i) : v \in foundViews =>
                                  \A j \in 1..(i - 1) : v \notin Needs(j)}
         /\ \A k, l \in DOMAIN Deduplicated(i) :
              /\ k # l => Deduplicated(i)[k] # Deduplicated(i)[l]
              /\ Deduplicated(i)[l] \in Below(Deduplicated(i)[k]) => l < k
<1> DEFINE list == Resolution(i)
           new == Deduplicated(i)
<1>1. /\ list \in Seq(ViewEntities) /\ ToSet(list) = Needs(i)
      /\ Precedes(list, Needed, Seen)
  <2>1. CASE selected[i] \in foundModels
    <3>1. selected[i] \in Entities
      BY DEF DepData, Entities
    <3>2. list = BottomUp(selected[i])
      BY <2>1 DEF Resolution
    <3>3. /\ BottomUp(selected[i]) \in Seq(ViewEntities)
          /\ ToSet(BottomUp(selected[i])) = Tree(selected[i]) \cap ViewEntities
          /\ Precedes(BottomUp(selected[i]), Needed, {})
      BY <3>1, BottomUpHolds DEF BottomUpIs, DepData
    <3> HIDE DEF list
    <3> QED BY <2>1, <3>2, <3>3 DEF Needs, Precedes
  <2>2. CASE selected[i] \notin foundModels
    <3>1. list = <<>> /\ Needs(i) = {}
      BY <2>2 DEF Resolution, Needs
    <3>2. <<>> \in Seq(ViewEntities) /\ ToSet(<<>>) = {}
      BY DEF ToSet
    <3>3. Precedes(<<>>, Needed, Seen)
      BY DEF Precedes
    <3> QED BY <3>1, <3>2, <3>3
  <2> QED BY <2>1, <2>2
<1>2. /\ new \in Seq(ViewEntities) /\ ToSet(new) = ToSet(list) \ Seen
      /\ \A k, l \in DOMAIN new : k # l => new[k] # new[l]
      /\ Precedes(new, Needed, Seen)
  <2> HIDE DEF list, new
  <2>1. new = Distinct(list, Seen)
    BY DEF Deduplicated, list, new
  <2>2. IsDistinct(Distinct(list, Seen), list, Seen, ViewEntities, Needed)
    BY <1>1, DistinctIs
  <2> QED BY <2>1, <2>2 DEF IsDistinct
<1> HIDE DEF new, list
<1>3. ToSet(new) = {v \in Needs(i) : v \in foundViews =>
                                       \A j \in 1..(i - 1) : v \notin Needs(j)}
  <2>1. Seen = {v \in foundViews : \E j \in 1..(i - 1) : v \in Needs(j)}
    BY SeenIs DEF DepData
  <2> QED BY <1>1, <1>2, <2>1
<1>4. ASSUME NEW k \in DOMAIN new, NEW l \in DOMAIN new, new[l] \in Below(new[k])
      PROVE  l < k
  <2>1. /\ DOMAIN new \subseteq Nat
        /\ new[k] \in ViewEntities /\ new[l] \in ViewEntities
    BY <1>2
  <2>2. new[l] \in ToSet(new)
    BY DEF ToSet
  <2>3. <<new[k], new[l]>> \in Needed /\ new[l] \notin Seen
    BY <1>2, <1>4, <2>1, <2>2 DEF Needed, Entities
  <2>4. PICK m \in DOMAIN new : m < k /\ new[m] = new[l]
    BY <1>2, <2>3 DEF Precedes
  <2>5. m = l
    BY <1>2, <2>4
  <2> QED BY <2>4, <2>5
<1> QED BY <1>2, <1>3, <1>4 DEF new

(* Nothing that a definition of KeptOnceBottomUp reads changes, but for    *)
(* what is kept.                                                           *)
LEMMA AnswersStay ==
  ASSUME UNCHANGED tenantAnswers
  PROVE  /\ \A e : Below(e)' = Below(e)
         /\ \A j : Needs(j)' = Needs(j)
<1>1. ASSUME NEW e PROVE Tree(e)' = Tree(e)
  BY DEF Tree, tenantAnswers
<1>2. ASSUME NEW e PROVE Below(e)' = Below(e)
  BY DEF Below, Tree, tenantAnswers
<1>3. ASSUME NEW j PROVE Needs(j)' = Needs(j)
  BY DEF Needs, Tree, tenantAnswers
<1> QED BY <1>2, <1>3

(* What is right for one of the references taken.                          *)
KeptRight(i) ==
  /\ ToSet(kept[i]) = {v \in Needs(i) : v \in foundViews =>
                                          \A j \in 1..(i - 1) : v \notin Needs(j)}
  /\ \A k, l \in DOMAIN kept[i] :
       /\ k # l => kept[i][k] # kept[i][l]
       /\ kept[i][l] \in Below(kept[i][k]) => l < k

(* That no view comes before one it depends on across models follows: a    *)
(* model that needs a view needs all that is below it.                     *)
LEMMA AcrossModels ==
  ASSUME DepData, \A i \in DOMAIN kept : KeptRight(i)
  PROVE  KeptOnceBottomUp
<1>1. DOMAIN kept = 1..Len(kept) /\ Len(kept) \in Nat
  BY DEF DepData
<1> SUFFICES ASSUME NEW i \in DOMAIN kept, NEW j \in 1..(i - 1),
                    NEW v \in ToSet(kept[j]), NEW w \in ToSet(kept[i]),
                    w \in Below(v), w \in foundViews
             PROVE  FALSE
  BY <1>1 DEF KeptOnceBottomUp, KeptRight
<1>2. j \in DOMAIN kept
  BY <1>1
<1>3. v \in Needs(j) /\ w \in Needs(i) /\ w \notin Needs(j)
  BY <1>2 DEF KeptRight
<1>4. selected[j] \in foundModels /\ v \in Tree(selected[j]) /\ w \in ViewEntities
  BY <1>3 DEF Needs
<1>5. selected[j] \in Entities
  BY <1>1, <1>2 DEF DepData, Entities
<1>6. lineage \in Lineages
  BY DEF DepData
<1>7. w \in Tree(selected[j])
  BY <1>4, <1>5, <1>6, TreesAreClosed
<1> QED BY <1>3, <1>4, <1>7 DEF Needs

LEMMA OneActionKeeps ==
  ASSUME [DepNext]_depVars
  PROVE  UNCHANGED tenantAnswers /\ (kept' = kept \/ TakeNext)
<1>1. CASE UNCHANGED depVars
  BY <1>1 DEF depVars
<1>2. CASE DepNext
  BY <1>2 DEF DepNext, SearchAnswered, SearchCancelled, SearchFails, SearchDrained,
              ContextLoaded, AdmitResolution, Resolved, ResolutionFails, TaskCancelled,
              Moves, TakeNext, Reported, ResolvingStops, DependenciesRaised,
              DependenciesReturned
<1> QED BY <1>1, <1>2

DepKept == DepData /\ \A i \in DOMAIN kept : KeptRight(i)

LEMMA DepKeptHolds == DepSpec => []DepKept
<1>1. DepInit => DepKept
  <2> SUFFICES ASSUME DepInit PROVE DepKept
    OBVIOUS
  <2>1. kept = <<>> /\ lineage \in Lineages /\ selected \in Seq(Models)
    BY SelectedAssumption DEF DepInit
  <2>2. kept \in Seq(Seq(ViewEntities)) /\ Len(kept) <= Len(selected) /\ DOMAIN kept = {}
    BY <2>1
  <2> QED BY <2>1, <2>2 DEF DepKept, DepData
<1>2. ASSUME DepKept, [DepNext]_depVars PROVE DepKept'
  <2>1. UNCHANGED tenantAnswers /\ (kept' = kept \/ TakeNext)
    BY <1>2, OneActionKeeps
  <2>2. /\ lineage' = lineage /\ selected' = selected /\ foundViews' = foundViews
    BY <2>1 DEF tenantAnswers
  <2>3. (\A e : Below(e)' = Below(e)) /\ (\A j : Needs(j)' = Needs(j))
    BY <2>1, AnswersStay
  <2>4. CASE kept' = kept
    <3>1. DepData'
      BY <1>2, <2>2, <2>4 DEF DepKept, DepData
    <3>2. ASSUME NEW i \in DOMAIN kept PROVE KeptRight(i)'
      <4>1. KeptRight(i)
        BY <1>2 DEF DepKept
      <4> QED BY <4>1, <2>2, <2>3, <2>4 DEF KeptRight
    <3> QED BY <2>4, <3>1, <3>2 DEF DepKept
  <2>5. CASE TakeNext
    <3>0. PICK n : n = Len(kept)
      OBVIOUS
    <3> DEFINE new == Deduplicated(n + 1)
    <3>1. /\ n \in Nat /\ n + 1 \in 1..Len(selected) /\ kept' = Append(kept, new)
          /\ DepData /\ DOMAIN kept = 1..n
      BY <1>2, <2>5, <3>0 DEF TakeNext, Indexes, DepKept, DepData
    <3>2. KeptOnceBottomUp
      BY <1>2, AcrossModels DEF DepKept
    <3>3. /\ new \in Seq(ViewEntities)
          /\ ToSet(new) = {v \in Needs(n + 1) : v \in foundViews =>
                                \A j \in 1..((n + 1) - 1) : v \notin Needs(j)}
          /\ \A k, l \in DOMAIN new :
               /\ k # l => new[k] # new[l]
               /\ new[l] \in Below(new[k]) => l < k
      BY <3>0, <3>1, <3>2, DeduplicatedIs
    <3> HIDE DEF new
    <3>4. /\ kept' \in Seq(Seq(ViewEntities)) /\ Len(kept') = n + 1
          /\ DOMAIN kept' = 1..(n + 1)
          /\ \A i \in 1..n : kept'[i] = kept[i]
          /\ kept'[n + 1] = new
      BY <3>0, <3>1, <3>3 DEF DepData
    <3>5. DepData'
      BY <2>2, <3>0, <3>1, <3>4 DEF DepData
    <3>6. ASSUME NEW i \in 1..n PROVE KeptRight(i)'
      <4>1. KeptRight(i) /\ kept'[i] = kept[i]
        BY <1>2, <3>1, <3>4 DEF DepKept
      <4> QED BY <4>1, <2>2, <2>3 DEF KeptRight
    <3>7. KeptRight(n + 1)'
      BY <2>2, <2>3, <3>3, <3>4 DEF KeptRight
    <3>8. \A i \in DOMAIN kept' : i \in 1..n \/ i = n + 1
      BY <3>1, <3>4
    <3> QED BY <3>5, <3>6, <3>7, <3>8 DEF DepKept
  <2> QED BY <2>1, <2>4, <2>5
<1> QED BY <1>1, <1>2, PTL DEF DepSpec

(* In whatever order the tasks of a command end, and whatever the tenant   *)
(* answers: every view a model is built on that has a space is kept for    *)
(* exactly the first model of the input that needs it, each once, and none *)
(* before a view it depends on, neither in its model nor across models.    *)
THEOREM ViewsKeptOnceBottomUp == DepSpec => []KeptOnceBottomUp
<1>1. DepKept => KeptOnceBottomUp
  BY AcrossModels DEF DepKept
<1> QED BY <1>1, DepKeptHolds, PTL

(* Every variable of the command keeps its type.                           *)
THEOREM DependenciesTypeCorrect == DepSpec => []DepTypeOK
<1>1. DepInit => DepTypeOK
  <2> SUFFICES ASSUME DepInit PROVE DepTypeOK
    OBVIOUS
  <2>1. /\ kept = <<>> /\ selected \in Seq(Models) /\ resolving = <<>>
        /\ stage = "searching" /\ search = [s \in Searches |-> "running"]
    BY SelectedAssumption DEF DepInit
  <2>2. Len(kept) <= Len(selected) /\ DOMAIN kept = {} /\ DOMAIN resolving = {}
    BY <2>1
  <2> QED BY <2>1, <2>2 DEF DepTypeOK
<1>2. ASSUME DepTypeOK, DepKept, DepKept', [DepNext]_depVars PROVE DepTypeOK'
  <2> USE <1>2 DEF DepTypeOK
  <2>0. Len(kept') <= Len(selected') /\ \A i \in DOMAIN kept' : kept'[i] \in Seq(ViewEntities)
    BY DEF DepKept, DepData
  <2>1. CASE UNCHANGED depVars
    BY <2>0, <2>1 DEF depVars
  <2>2. ASSUME NEW s \in Searches, SearchAnswered(s) \/ SearchCancelled(s)
        PROVE  DepTypeOK'
    BY <2>0, <2>2 DEF SearchAnswered, SearchCancelled
  <2>3. CASE SearchFails \/ SearchDrained \/ Reported \/ ResolvingStops \/
             DependenciesRaised \/ DependenciesReturned \/ TakeNext
    BY <2>0, <2>3 DEF SearchFails, SearchDrained, Reported, ResolvingStops,
                      DependenciesRaised, DependenciesReturned, TakeNext
  <2>4. CASE ContextLoaded
    BY <2>0, <2>4 DEF ContextLoaded
  <2>5. ASSUME NEW i \in DOMAIN resolving,
               \/ AdmitResolution(i) \/ Resolved(i) \/ ResolutionFails(i)
               \/ TaskCancelled(i)
        PROVE  DepTypeOK'
    <3>1. /\ \E x \in {"running"} \cup Over : resolving' = [resolving EXCEPT ![i] = x]
          /\ UNCHANGED <<stage, search>>
      BY <2>5 DEF AdmitResolution, Resolved, ResolutionFails, TaskCancelled, Moves, Over
    <3> QED BY <2>0, <3>1
  <2> QED BY <2>1, <2>2, <2>3, <2>4, <2>5 DEF DepNext
<1> QED BY <1>1, <1>2, DepKeptHolds, PTL DEF DepSpec

=============================================================================
