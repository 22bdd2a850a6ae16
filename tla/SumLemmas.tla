------------------------------ MODULE SumLemmas ------------------------------
(***************************************************************************)
(* Sums of natural numbers over finite sets, as the ledgers add up what is *)
(* spent: what SumFunction returns, for every finite set.                  *)
(*                                                                         *)
(* The provers cannot use an induction theorem whose parameter is an       *)
(* operator, so induction is over a set of numbers here: the least number  *)
(* outside the set would follow one inside it.                             *)
(***************************************************************************)
EXTENDS Naturals, Functions, FiniteSets, FiniteSetTheorems,
        WellFoundedInduction, TLAPS

\* A set of naturals that is not empty has a least element.
LEMMA LeastNatural ==
  ASSUME NEW T, T \subseteq Nat, T # {}
  PROVE  \E x \in T : \A y \in T : x <= y
<1>1. IsWellFoundedOn(OpToRel(<, Nat), Nat)
  BY NatLessThanWellFounded
<1>2. PICK x \in T : \A y \in T : ~(<<y, x>> \in OpToRel(<, Nat))
  BY <1>1, WFMin
<1>3. \A y \in T : <<y, x>> \in OpToRel(<, Nat) <=> y < x
  BY DEF OpToRel
<1>4. \A y \in T : ~(y < x)
  BY <1>2, <1>3
<1>5. \A y \in T : x <= y
  BY <1>4
<1> QED BY <1>5

\* Induction: a set that has 0 and every successor of its numbers has them all.
LEMMA InductiveSet ==
  ASSUME NEW S, 0 \in S, \A n \in Nat : n \in S => n + 1 \in S
  PROVE  \A n \in Nat : n \in S
<1> DEFINE T == {n \in Nat : n \notin S}
<1>1. SUFFICES ASSUME T # {} PROVE FALSE
  OBVIOUS
<1>2. T \subseteq Nat
  OBVIOUS
<1>3. PICK x \in T : \A y \in T : x <= y
  <2> HIDE DEF T
  <2> QED BY <1>1, <1>2, LeastNatural
<1>4. x # 0
  OBVIOUS
<1>5. x - 1 \in Nat /\ x - 1 \in S
  BY <1>3, <1>4
<1> QED BY <1>5

-----------------------------------------------------------------------------
\* The element the fold takes first.
Pick(s) == CHOOSE x \in s : TRUE

\* it is the fold's table: the sum of each subset of D.
IsTable(it, w, D) ==
  it = [s \in D |-> IF s = {} THEN 0 ELSE w[Pick(s)] + it[s \ {Pick(s)}]]

\* The subsets of S that have at most n elements.
Small(S, n) == {s \in SUBSET S : Cardinality(s) <= n}

\* Taking an element out of a set makes it smaller.
LEMMA RemoveSmaller ==
  ASSUME NEW S, IsFiniteSet(S), NEW n \in Nat, NEW s \in Small(S, n + 1), NEW x \in s
  PROVE  s \ {x} \in Small(S, n)
<1>1. IsFiniteSet(s) /\ Cardinality(s) \in Nat /\ s \in SUBSET S
  BY FS_Subset, FS_CardinalityType DEF Small
<1>2. Cardinality(s \ {x}) = Cardinality(s) - 1
  BY <1>1, FS_RemoveElement
<1>3. Cardinality(s) <= n + 1
  BY DEF Small
<1>4. Cardinality(s \ {x}) <= n
  BY <1>1, <1>2, <1>3
<1> QED BY <1>1, <1>4 DEF Small

\* So does the fold, as long as there is an element.
LEMMA PickSmaller ==
  ASSUME NEW S, IsFiniteSet(S), NEW n \in Nat, NEW s \in Small(S, n + 1), s # {}
  PROVE  Pick(s) \in s /\ s \ {Pick(s)} \in Small(S, n)
<1>1. Pick(s) \in s
  BY DEF Pick
<1> QED BY <1>1, RemoveSmaller

\* Only the empty set has no elements, and the whole set is small enough.
LEMMA SmallEnds ==
  ASSUME NEW S, IsFiniteSet(S)
  PROVE  /\ Small(S, 0) = {{}}
         /\ Cardinality(S) \in Nat
         /\ Small(S, Cardinality(S)) = SUBSET S
         /\ \A n \in Nat : Small(S, n) \subseteq Small(S, n + 1) /\ {} \in Small(S, n)
<1>1. Cardinality(S) \in Nat
  BY FS_CardinalityType
<1>2. \A s \in SUBSET S : IsFiniteSet(s) /\ Cardinality(s) \in Nat
                          /\ Cardinality(s) <= Cardinality(S)
  BY FS_Subset, FS_CardinalityType
<1>3. \A s \in SUBSET S : Cardinality(s) <= 0 <=> s = {}
  BY <1>2, FS_EmptySet
<1>4. Small(S, 0) = {{}}
  BY <1>3 DEF Small
<1>5. Small(S, Cardinality(S)) = SUBSET S
  BY <1>2 DEF Small
<1>6. \A n \in Nat : Small(S, n) \subseteq Small(S, n + 1)
  BY <1>2 DEF Small
<1>7. \A n \in Nat : {} \in Small(S, n)
  BY FS_EmptySet DEF Small
<1> QED BY <1>1, <1>4, <1>5, <1>6, <1>7

\* The fold's table exists and has natural numbers.
LEMMA TableExists ==
  ASSUME NEW S, IsFiniteSet(S), NEW w \in [S -> Nat]
  PROVE  \E it \in [SUBSET S -> Nat] : IsTable(it, w, SUBSET S)
<1> DEFINE N == {n \in Nat : \E it \in [Small(S, n) -> Nat] : IsTable(it, w, Small(S, n))}
<1>1. 0 \in N
  <2> DEFINE it == [s \in Small(S, 0) |-> 0]
  <2>1. Small(S, 0) = {{}}
    BY SmallEnds
  <2>2. it \in [Small(S, 0) -> Nat]
    OBVIOUS
  <2>3. IsTable(it, w, Small(S, 0))
    BY <2>1 DEF IsTable
  <2> QED BY <2>2, <2>3
<1>2. ASSUME NEW n \in Nat, n \in N PROVE n + 1 \in N
  <2>1. PICK it \in [Small(S, n) -> Nat] : IsTable(it, w, Small(S, n))
    BY <1>2
  <2> DEFINE C(s) == IF s = {} THEN 0 ELSE w[Pick(s)] + it[s \ {Pick(s)}]
             jt == [s \in Small(S, n + 1) |-> C(s)]
  <2>2. \A s \in Small(S, n + 1) : s # {} =>
           Pick(s) \in S /\ s \ {Pick(s)} \in Small(S, n)
    BY PickSmaller DEF Small
  <2>3. \A s \in Small(S, n + 1) : C(s) \in Nat
    BY <2>2
  <2>4. jt \in [Small(S, n + 1) -> Nat]
    BY <2>3
  <2>5. \A s \in Small(S, n) : jt[s] = it[s]
    <3>1. \A s \in Small(S, n) : it[s] = C(s)
      BY <2>1 DEF IsTable
    <3>2. \A s \in Small(S, n) : jt[s] = C(s)
      BY SmallEnds
    <3> HIDE DEF C, jt
    <3> QED BY <3>1, <3>2
  <2>6. \A s \in Small(S, n + 1) :
           C(s) = IF s = {} THEN 0 ELSE w[Pick(s)] + jt[s \ {Pick(s)}]
    <3> HIDE DEF jt
    <3> QED BY <2>2, <2>5
  <2>7. IsTable(jt, w, Small(S, n + 1))
    <3>1. jt = [s \in Small(S, n + 1) |-> IF s = {} THEN 0 ELSE w[Pick(s)] + jt[s \ {Pick(s)}]]
      <4>1. jt = [s \in Small(S, n + 1) |-> C(s)]
        OBVIOUS
      <4> HIDE DEF jt, C
      <4> QED BY <2>6, <4>1
    <3> HIDE DEF jt
    <3> QED BY <3>1 DEF IsTable
  <2> HIDE DEF jt
  <2> QED BY <2>4, <2>7
<1>3. \A n \in Nat : n \in N
  <2> HIDE DEF N
  <2> QED BY <1>1, <1>2, InductiveSet
<1>4. Cardinality(S) \in N /\ Small(S, Cardinality(S)) = SUBSET S
  BY <1>3, SmallEnds
<1> QED BY <1>4

\* Tables agree wherever they are both defined.
LEMMA TablesAgree ==
  ASSUME NEW S, IsFiniteSet(S), NEW w, NEW D \in SUBSET S, NEW it, NEW jt,
         IsTable(it, w, SUBSET S), IsTable(jt, w, SUBSET D)
  PROVE  jt[D] = it[D]
<1> DEFINE N == {n \in Nat : \A s \in Small(D, n) : jt[s] = it[s]}
<1>1. IsFiniteSet(D)
  BY FS_Subset
<1>2. /\ \A s \in SUBSET S : it[s] = IF s = {} THEN 0 ELSE w[Pick(s)] + it[s \ {Pick(s)}]
      /\ \A s \in SUBSET D : jt[s] = IF s = {} THEN 0 ELSE w[Pick(s)] + jt[s \ {Pick(s)}]
  BY DEF IsTable
<1>3. 0 \in N
  BY <1>1, <1>2, SmallEnds
<1>4. ASSUME NEW n \in Nat, n \in N PROVE n + 1 \in N
  <2> SUFFICES ASSUME NEW s \in Small(D, n + 1) PROVE jt[s] = it[s]
    OBVIOUS
  <2>1. s \in SUBSET D /\ s \in SUBSET S
    BY DEF Small
  <2>2. s # {} => s \ {Pick(s)} \in Small(D, n)
    BY <1>1, PickSmaller
  <2>3. s # {} => jt[s \ {Pick(s)}] = it[s \ {Pick(s)}]
    BY <1>4, <2>2
  <2> QED BY <1>2, <2>1, <2>3
<1>5. \A n \in Nat : n \in N
  <2> HIDE DEF N
  <2> QED BY <1>3, <1>4, InductiveSet
<1>6. Cardinality(D) \in N /\ D \in Small(D, Cardinality(D))
  BY <1>1, <1>5, SmallEnds
<1> QED BY <1>6

\* What the fold returns for each subset of S is what the table has.
Tabulates(it, w, S) == \A D \in SUBSET S : SumFunctionOnSet(w, D) = it[D]

\* SumFunctionOnSet reads the table of the set it sums over.
LEMMA SumIsTable ==
  ASSUME NEW S, IsFiniteSet(S), NEW w \in [S -> Nat]
  PROVE  \E it \in [SUBSET S -> Nat] : IsTable(it, w, SUBSET S) /\ Tabulates(it, w, S)
<1>1. PICK it \in [SUBSET S -> Nat] : IsTable(it, w, SUBSET S)
  BY TableExists
<1>2. ASSUME NEW D \in SUBSET S PROVE SumFunctionOnSet(w, D) = it[D]
  <2> DEFINE v == [x \in D |-> w[x]]
             jt == CHOOSE f : IsTable(f, w, SUBSET D)
  <2>1. IsFiniteSet(D) /\ v \in [D -> Nat]
    BY FS_Subset
  <2>2. PICK kt \in [SUBSET D -> Nat] : IsTable(kt, v, SUBSET D)
    <3> HIDE DEF v
    <3> QED BY <2>1, TableExists
  <2>3. IsTable(kt, w, SUBSET D)
    <3>1. \A s \in SUBSET D : s # {} => w[Pick(s)] = v[Pick(s)]
      BY DEF Pick
    <3>2. \A s \in SUBSET D :
            (IF s = {} THEN 0 ELSE w[Pick(s)] + kt[s \ {Pick(s)}])
            = (IF s = {} THEN 0 ELSE v[Pick(s)] + kt[s \ {Pick(s)}])
      BY <3>1
    <3> HIDE DEF v
    <3> QED BY <2>2, <3>2 DEF IsTable
  <2>4. IsTable(jt, w, SUBSET D)
    BY <2>3
  <2>5. SumFunctionOnSet(w, D) = jt[D]
    BY DEF SumFunctionOnSet, FoldFunctionOnSet, MapThenFoldSet, IsTable, Pick
  <2> HIDE DEF jt
  <2>6. jt[D] = it[D]
    BY <1>1, <2>4, TablesAgree
  <2> QED BY <2>5, <2>6
<1>3. Tabulates(it, w, S)
  BY <1>2 DEF Tabulates
<1> QED BY <1>1, <1>3

-----------------------------------------------------------------------------
(* What is proved about sums elsewhere follows from these. *)

\* The order of summation does not matter: any element can be taken out first.
LEMMA SumSplit ==
  ASSUME NEW S, IsFiniteSet(S), NEW w \in [S -> Nat]
  PROVE  /\ SumFunctionOnSet(w, {}) = 0
         /\ \A D \in SUBSET S :
              /\ SumFunctionOnSet(w, D) \in Nat
              /\ \A x \in D : SumFunctionOnSet(w, D) = w[x] + SumFunctionOnSet(w, D \ {x})
<1>1. PICK it \in [SUBSET S -> Nat] : IsTable(it, w, SUBSET S) /\ Tabulates(it, w, S)
  BY SumIsTable
<1>2. \A s \in SUBSET S : it[s] = IF s = {} THEN 0 ELSE w[Pick(s)] + it[s \ {Pick(s)}]
  BY <1>1 DEF IsTable
<1> DEFINE Eq(D, x) == it[D] = w[x] + it[D \ {x}]
           N == {n \in Nat : \A D \in Small(S, n) : \A x \in D : Eq(D, x)}
<1>3. 0 \in N
  <2> HIDE DEF Eq
  <2> QED BY SmallEnds
<1>4. ASSUME NEW n \in Nat, n \in N, NEW D \in Small(S, n + 1), NEW x \in D
      PROVE  Eq(D, x)
  <2> DEFINE p == Pick(D)
  <2>1. D \in SUBSET S /\ D # {} /\ p \in D
    BY DEF Small, Pick
  <2>2. it[D] = w[p] + it[D \ {p}]
    BY <1>2, <2>1
  <2> HIDE DEF p
  <2>3. D \ {p} \in Small(S, n) /\ D \ {x} \in Small(S, n)
    BY <2>1, RemoveSmaller
  <2>4. CASE x = p
    BY <2>2, <2>4
  <2>5. CASE x # p
    <3>1. Eq(D \ {p}, x) /\ Eq(D \ {x}, p)
      <4> HIDE DEF Eq
      <4> QED BY <1>4, <2>1, <2>3, <2>5
    <3>2. /\ it[D \ {p}] = w[x] + it[(D \ {p}) \ {x}]
          /\ it[D \ {x}] = w[p] + it[(D \ {x}) \ {p}]
      BY <3>1
    <3>3. (D \ {p}) \ {x} = (D \ {x}) \ {p} /\ (D \ {p}) \ {x} \in SUBSET S
      BY <2>1
    <3>4. it[(D \ {p}) \ {x}] \in Nat /\ w[x] \in Nat /\ w[p] \in Nat
      BY <2>1, <3>3
    <3>5. it[D] = w[p] + (w[x] + it[(D \ {p}) \ {x}])
      BY <2>2, <3>2
    <3>6. it[D \ {x}] = w[p] + it[(D \ {p}) \ {x}]
      BY <3>2, <3>3
    <3>7. it[D] = w[x] + it[D \ {x}]
      BY <3>4, <3>5, <3>6
    <3> QED BY <3>7
  <2> QED BY <2>4, <2>5
<1>5. \A n \in Nat : n \in N
  <2>1. \A n \in Nat : n \in N => n + 1 \in N
    <3> HIDE DEF Eq
    <3> QED BY <1>4
  <2> HIDE DEF N
  <2> QED BY <1>3, <2>1, InductiveSet
<1>6. Cardinality(S) \in N /\ Small(S, Cardinality(S)) = SUBSET S
  BY <1>5, SmallEnds
<1>7. \A D \in SUBSET S : \A x \in D : it[D] = w[x] + it[D \ {x}]
  <2>1. \A D \in SUBSET S : \A x \in D : Eq(D, x)
    <3> HIDE DEF Eq
    <3> QED BY <1>6
  <2> QED BY <2>1
<1>8. ASSUME NEW D \in SUBSET S
      PROVE  /\ SumFunctionOnSet(w, D) \in Nat
             /\ \A x \in D : SumFunctionOnSet(w, D) = w[x] + SumFunctionOnSet(w, D \ {x})
  BY <1>1, <1>7 DEF Tabulates
<1>9. SumFunctionOnSet(w, {}) = 0
  BY <1>1, <1>2 DEF Tabulates
<1> QED BY <1>8, <1>9

\* A sum is a natural number.
LEMMA SumType ==
  ASSUME NEW S, IsFiniteSet(S), NEW w \in [S -> Nat]
  PROVE  SumFunction(w) \in Nat
<1>1. DOMAIN w = S
  OBVIOUS
<1> QED BY <1>1, SumSplit DEF SumFunction

\* A sum grows with its terms, and with the set.
LEMMA SumOnSetMonotone ==
  ASSUME NEW S, IsFiniteSet(S), NEW T, IsFiniteSet(T),
         NEW u \in [T -> Nat], NEW v \in [S -> Nat],
         NEW D \in SUBSET T, NEW E \in SUBSET S, D \subseteq E,
         \A x \in D : u[x] <= v[x]
  PROVE  SumFunctionOnSet(u, D) <= SumFunctionOnSet(v, E)
<1>1. /\ SumFunctionOnSet(u, {}) = 0
      /\ \A F \in SUBSET T :
           /\ SumFunctionOnSet(u, F) \in Nat
           /\ \A x \in F : SumFunctionOnSet(u, F) = u[x] + SumFunctionOnSet(u, F \ {x})
  BY SumSplit
<1>2. \A F \in SUBSET S :
           /\ SumFunctionOnSet(v, F) \in Nat
           /\ \A x \in F : SumFunctionOnSet(v, F) = v[x] + SumFunctionOnSet(v, F \ {x})
  BY SumSplit
<1> DEFINE Le(F) == SumFunctionOnSet(u, F \cap D) <= SumFunctionOnSet(v, F)
           N == {n \in Nat : \A F \in Small(S, n) : Le(F)}
<1>3. Le({})
  <2>1. {} \cap D = {} /\ {} \in SUBSET S
    OBVIOUS
  <2>2. SumFunctionOnSet(v, {}) \in Nat
    BY <1>2, <2>1
  <2> QED BY <1>1, <2>1, <2>2
<1>4. 0 \in N
  BY <1>3, SmallEnds
<1>5. ASSUME NEW n \in Nat, n \in N, NEW F \in Small(S, n + 1) PROVE Le(F)
  <2>1. CASE F = {}
    BY <1>3, <2>1
  <2>2. CASE F # {}
    <3>1. PICK x \in F : TRUE
      BY <2>2
    <3>2. F \in SUBSET S /\ F \ {x} \in SUBSET S /\ F \ {x} \in Small(S, n)
      BY RemoveSmaller DEF Small
    <3>3. SumFunctionOnSet(u, (F \ {x}) \cap D) <= SumFunctionOnSet(v, F \ {x})
      BY <1>5, <3>2
    <3>4. /\ SumFunctionOnSet(v, F) = v[x] + SumFunctionOnSet(v, F \ {x})
          /\ SumFunctionOnSet(v, F \ {x}) \in Nat /\ v[x] \in Nat
      BY <1>2, <3>2
    <3>5. CASE x \notin D
      <4>1. (F \ {x}) \cap D = F \cap D /\ F \cap D \in SUBSET T
        BY <3>5
      <4>2. SumFunctionOnSet(u, F \cap D) \in Nat
        BY <1>1, <4>1
      <4> QED BY <3>3, <3>4, <4>1, <4>2
    <3>6. CASE x \in D
      <4>1. (F \ {x}) \cap D = (F \cap D) \ {x} /\ F \cap D \in SUBSET T
            /\ (F \cap D) \ {x} \in SUBSET T /\ x \in F \cap D
        BY <3>6
      <4>2. /\ SumFunctionOnSet(u, F \cap D) = u[x] + SumFunctionOnSet(u, (F \cap D) \ {x})
            /\ SumFunctionOnSet(u, (F \cap D) \ {x}) \in Nat
        BY <1>1, <4>1
      <4>3. u[x] \in Nat /\ u[x] <= v[x]
        BY <3>6
      <4> QED BY <3>3, <3>4, <4>1, <4>2, <4>3
    <3> QED BY <3>5, <3>6
  <2> QED BY <2>1, <2>2
<1>6. \A n \in Nat : n \in N
  <2>1. \A n \in Nat : n \in N => n + 1 \in N
    <3> HIDE DEF Le
    <3> QED BY <1>5
  <2> HIDE DEF N
  <2> QED BY <1>4, <2>1, InductiveSet
<1>7. Cardinality(S) \in N /\ E \in Small(S, Cardinality(S)) /\ E \cap D = D
  BY <1>6, SmallEnds
<1>8. Le(E)
  <2> HIDE DEF Le
  <2> QED BY <1>7
<1> QED BY <1>7, <1>8

\* The same for whole functions.
LEMMA SumMonotone ==
  ASSUME NEW S, IsFiniteSet(S), NEW T \in SUBSET S,
         NEW u \in [T -> Nat], NEW v \in [S -> Nat], \A x \in T : u[x] <= v[x]
  PROVE  SumFunction(u) <= SumFunction(v)
<1>1. IsFiniteSet(T) /\ DOMAIN u = T /\ DOMAIN v = S
  BY FS_Subset
<1>2. SumFunctionOnSet(u, T) <= SumFunctionOnSet(v, S)
  BY <1>1, SumOnSetMonotone
<1> QED BY <1>1, <1>2 DEF SumFunction

\* Sums add up term by term.
LEMMA SumOfSums ==
  ASSUME NEW S, IsFiniteSet(S), NEW u \in [S -> Nat], NEW v \in [S -> Nat],
         NEW w \in [S -> Nat], \A x \in S : w[x] = u[x] + v[x]
  PROVE  SumFunction(w) = SumFunction(u) + SumFunction(v)
<1> DEFINE Eq(D) == SumFunctionOnSet(w, D) = SumFunctionOnSet(u, D) + SumFunctionOnSet(v, D)
           N == {n \in Nat : \A D \in Small(S, n) : Eq(D)}
<1>1. \A f \in {u, v, w} :
        /\ SumFunctionOnSet(f, {}) = 0
        /\ \A D \in SUBSET S :
             /\ SumFunctionOnSet(f, D) \in Nat
             /\ \A x \in D : SumFunctionOnSet(f, D) = f[x] + SumFunctionOnSet(f, D \ {x})
  BY SumSplit
<1>2. Eq({})
  <2>1. u \in {u, v, w} /\ v \in {u, v, w} /\ w \in {u, v, w}
    OBVIOUS
  <2>2. SumFunctionOnSet(u, {}) = 0 /\ SumFunctionOnSet(v, {}) = 0
        /\ SumFunctionOnSet(w, {}) = 0
    BY <1>1, <2>1
  <2> QED BY <2>2
<1>3. ASSUME NEW n \in Nat, n \in N, NEW D \in Small(S, n + 1) PROVE Eq(D)
  <2>1. CASE D = {}
    BY <1>2, <2>1
  <2>2. CASE D # {}
    <3>1. PICK x \in D : TRUE
      BY <2>2
    <3>2. D \in SUBSET S /\ D \ {x} \in SUBSET S /\ D \ {x} \in Small(S, n) /\ x \in S
      BY RemoveSmaller DEF Small
    <3>3. Eq(D \ {x})
      <4> HIDE DEF Eq
      <4> QED BY <1>3, <3>2
    <3>4. \A f \in {u, v, w} : SumFunctionOnSet(f, D) = f[x] + SumFunctionOnSet(f, D \ {x})
                               /\ SumFunctionOnSet(f, D \ {x}) \in Nat
      BY <1>1, <3>2
    <3>5. w[x] = u[x] + v[x] /\ u[x] \in Nat /\ v[x] \in Nat
      BY <3>2
    <3> QED BY <3>3, <3>4, <3>5
  <2> QED BY <2>1, <2>2
<1>4. \A n \in Nat : n \in N
  <2> HIDE DEF Eq
  <2>1. 0 \in N
    BY <1>2, SmallEnds
  <2>2. \A n \in Nat : n \in N => n + 1 \in N
    BY <1>3
  <2> HIDE DEF N
  <2> QED BY <2>1, <2>2, InductiveSet
<1>5. Cardinality(S) \in N /\ S \in Small(S, Cardinality(S))
  BY <1>4, SmallEnds
<1>6. DOMAIN u = S /\ DOMAIN v = S /\ DOMAIN w = S
  OBVIOUS
<1> QED BY <1>5, <1>6 DEF SumFunction

\* One term more: the sum grows by no more than that term.
LEMMA SumOneMore ==
  ASSUME NEW S, IsFiniteSet(S), NEW T, IsFiniteSet(T), NEW x, S \subseteq T \cup {x},
         NEW u \in [T -> Nat], NEW v \in [S -> Nat], NEW c \in Nat,
         x \in S => v[x] <= c, \A y \in S \ {x} : v[y] <= u[y]
  PROVE  SumFunction(v) <= SumFunction(u) + c
<1>1. /\ SumFunctionOnSet(v, S) \in Nat
      /\ x \in S => /\ SumFunctionOnSet(v, S) = v[x] + SumFunctionOnSet(v, S \ {x})
                    /\ v[x] \in Nat
      /\ SumFunctionOnSet(v, S \ {x}) \in Nat
  BY SumSplit
<1>2. SumFunctionOnSet(u, T) \in Nat
  BY SumSplit
<1>3. SumFunctionOnSet(v, S \ {x}) <= SumFunctionOnSet(u, T)
  <2>1. S \ {x} \in SUBSET S /\ T \in SUBSET T /\ S \ {x} \subseteq T
    OBVIOUS
  <2> QED BY <2>1, SumOnSetMonotone
<1>4. SumFunctionOnSet(v, S) <= SumFunctionOnSet(u, T) + c
  <2>1. CASE x \in S
    BY <1>1, <1>2, <1>3, <2>1
  <2>2. CASE x \notin S
    <3>1. S \ {x} = S
      BY <2>2
    <3>2. SumFunctionOnSet(v, S) <= SumFunctionOnSet(u, T)
      BY <1>3, <3>1
    <3> QED BY <1>1, <1>2, <3>2
  <2> QED BY <2>1, <2>2
<1> QED BY <1>4 DEF SumFunction

\* Equal terms add up to a product.
LEMMA SumOfConstants ==
  ASSUME NEW S, IsFiniteSet(S), NEW c \in Nat
  PROVE  SumFunction([x \in S |-> c]) = c * Cardinality(S)
<1> DEFINE w == [x \in S |-> c]
           Eq(D) == SumFunctionOnSet(w, D) = c * Cardinality(D)
           N == {n \in Nat : \A D \in Small(S, n) : Eq(D)}
<1>0. w \in [S -> Nat] /\ \A x \in S : w[x] = c
  OBVIOUS
<1>1. /\ SumFunctionOnSet(w, {}) = 0
      /\ \A D \in SUBSET S :
           /\ SumFunctionOnSet(w, D) \in Nat
           /\ \A x \in D : SumFunctionOnSet(w, D) = w[x] + SumFunctionOnSet(w, D \ {x})
  <2> HIDE DEF w
  <2> QED BY <1>0, SumSplit
<1> HIDE DEF w
<1>2. Eq({})
  BY <1>1, FS_EmptySet
<1>3. ASSUME NEW n \in Nat, n \in N, NEW D \in Small(S, n + 1) PROVE Eq(D)
  <2>1. CASE D = {}
    BY <1>2, <2>1
  <2>2. CASE D # {}
    <3>1. PICK x \in D : TRUE
      BY <2>2
    <3>2. D \in SUBSET S /\ D \ {x} \in SUBSET S /\ D \ {x} \in Small(S, n) /\ x \in S
      BY RemoveSmaller DEF Small
    <3>3. Eq(D \ {x})
      <4> HIDE DEF Eq
      <4> QED BY <1>3, <3>2
    <3>4. SumFunctionOnSet(w, D) = c + SumFunctionOnSet(w, D \ {x})
      BY <1>0, <1>1, <3>2
    <3>5. IsFiniteSet(D) /\ Cardinality(D) \in Nat
      BY <3>2, FS_Subset, FS_CardinalityType
    <3>6. Cardinality(D \ {x}) = Cardinality(D) - 1
      BY <3>5, FS_RemoveElement
    <3>7. c + c * (Cardinality(D) - 1) = c * Cardinality(D)
      <4> DEFINE k == Cardinality(D)
      <4>1. k \in Nat
        BY <3>5
      <4> HIDE DEF k
      <4>2. c + c * (k - 1) = c * k
        BY <4>1
      <4> QED BY <4>2 DEF k
    <3> QED BY <3>3, <3>4, <3>6, <3>7
  <2> QED BY <2>1, <2>2
<1>4. \A n \in Nat : n \in N
  <2> HIDE DEF Eq
  <2>1. 0 \in N
    BY <1>2, SmallEnds
  <2>2. \A n \in Nat : n \in N => n + 1 \in N
    BY <1>3
  <2> HIDE DEF N
  <2> QED BY <2>1, <2>2, InductiveSet
<1>5. Eq(S)
  <2>1. Cardinality(S) \in N /\ S \in Small(S, Cardinality(S))
    BY <1>4, SmallEnds
  <2> HIDE DEF Eq
  <2> QED BY <2>1
<1>6. SumFunction(w) = SumFunctionOnSet(w, S)
  BY DEF SumFunction, w
<1> QED BY <1>5, <1>6 DEF w

\* A sum is the sum over a part and over the rest.
LEMMA SumParts ==
  ASSUME NEW S, IsFiniteSet(S), NEW w \in [S -> Nat], NEW A
  PROVE  SumFunctionOnSet(w, S) = SumFunctionOnSet(w, S \cap A) + SumFunctionOnSet(w, S \ A)
<1> DEFINE Eq(D) == SumFunctionOnSet(w, D)
                    = SumFunctionOnSet(w, D \cap A) + SumFunctionOnSet(w, D \ A)
           N == {n \in Nat : \A D \in Small(S, n) : Eq(D)}
<1>1. /\ SumFunctionOnSet(w, {}) = 0
      /\ \A D \in SUBSET S :
           /\ SumFunctionOnSet(w, D) \in Nat
           /\ \A x \in D : SumFunctionOnSet(w, D) = w[x] + SumFunctionOnSet(w, D \ {x})
  BY SumSplit
<1>2. Eq({})
  <2>1. {} \cap A = {} /\ {} \ A = {}
    OBVIOUS
  <2> QED BY <1>1, <2>1
<1>3. ASSUME NEW n \in Nat, n \in N, NEW D \in Small(S, n + 1) PROVE Eq(D)
  <2>1. CASE D = {}
    BY <1>2, <2>1
  <2>2. CASE D # {}
    <3>1. PICK x \in D : TRUE
      BY <2>2
    <3>2. D \in SUBSET S /\ D \ {x} \in SUBSET S /\ D \ {x} \in Small(S, n) /\ x \in S
      BY RemoveSmaller DEF Small
    <3>3. Eq(D \ {x})
      <4> HIDE DEF Eq
      <4> QED BY <1>3, <3>2
    <3>4. SumFunctionOnSet(w, D) = w[x] + SumFunctionOnSet(w, D \ {x}) /\ w[x] \in Nat
      BY <1>1, <3>2
    <3>5. \A F \in SUBSET S : SumFunctionOnSet(w, F) \in Nat
      BY <1>1
    <3>6. D \cap A \in SUBSET S /\ D \ A \in SUBSET S
          /\ (D \cap A) \ {x} \in SUBSET S /\ (D \ A) \ {x} \in SUBSET S
      BY <3>2
    <3>7. CASE x \in A
      <4>1. /\ (D \ {x}) \cap A = (D \cap A) \ {x} /\ (D \ {x}) \ A = D \ A
            /\ x \in D \cap A
        BY <3>7
      <4>2. SumFunctionOnSet(w, D \cap A) = w[x] + SumFunctionOnSet(w, (D \cap A) \ {x})
        BY <1>1, <3>6, <4>1
      <4>3. SumFunctionOnSet(w, (D \cap A) \ {x}) \in Nat /\ SumFunctionOnSet(w, D \ A) \in Nat
        BY <3>5, <3>6
      <4>4. SumFunctionOnSet(w, D \ {x})
            = SumFunctionOnSet(w, (D \cap A) \ {x}) + SumFunctionOnSet(w, D \ A)
        BY <3>3, <4>1
      <4>5. SumFunctionOnSet(w, D) = SumFunctionOnSet(w, D \cap A) + SumFunctionOnSet(w, D \ A)
        BY <3>4, <4>2, <4>3, <4>4
      <4> QED BY <4>5
    <3>8. CASE x \notin A
      <4>1. /\ (D \ {x}) \cap A = D \cap A /\ (D \ {x}) \ A = (D \ A) \ {x}
            /\ x \in D \ A
        BY <3>8
      <4>2. SumFunctionOnSet(w, D \ A) = w[x] + SumFunctionOnSet(w, (D \ A) \ {x})
        BY <1>1, <3>6, <4>1
      <4>3. SumFunctionOnSet(w, D \cap A) \in Nat /\ SumFunctionOnSet(w, (D \ A) \ {x}) \in Nat
        BY <3>5, <3>6
      <4>4. SumFunctionOnSet(w, D \ {x})
            = SumFunctionOnSet(w, D \cap A) + SumFunctionOnSet(w, (D \ A) \ {x})
        BY <3>3, <4>1
      <4>5. SumFunctionOnSet(w, D) = SumFunctionOnSet(w, D \cap A) + SumFunctionOnSet(w, D \ A)
        BY <3>4, <4>2, <4>3, <4>4
      <4> QED BY <4>5
    <3> QED BY <3>7, <3>8
  <2> QED BY <2>1, <2>2
<1>4. \A n \in Nat : n \in N
  <2> HIDE DEF Eq
  <2>1. 0 \in N
    BY <1>2, SmallEnds
  <2>2. \A n \in Nat : n \in N => n + 1 \in N
    BY <1>3
  <2> HIDE DEF N
  <2> QED BY <2>1, <2>2, InductiveSet
<1>5. Eq(S)
  <2>1. Cardinality(S) \in N /\ S \in Small(S, Cardinality(S))
    BY <1>4, SmallEnds
  <2> HIDE DEF Eq
  <2> QED BY <2>1
<1> QED BY <1>5

\* Each term is covered by one of two other sums.
LEMMA SumCovered ==
  ASSUME NEW S, IsFiniteSet(S), NEW T, IsFiniteSet(T), NEW R, IsFiniteSet(R),
         NEW w \in [S -> Nat], NEW u \in [T -> Nat], NEW v \in [R -> Nat],
         \A x \in S : (x \in T /\ w[x] <= u[x]) \/ (x \in R /\ w[x] <= v[x])
  PROVE  SumFunction(w) <= SumFunction(u) + SumFunction(v)
<1> DEFINE A == {x \in S : x \in T /\ w[x] <= u[x]}
<1>1. SumFunctionOnSet(w, S) = SumFunctionOnSet(w, S \cap A) + SumFunctionOnSet(w, S \ A)
  BY SumParts
<1>2. S \cap A \in SUBSET S /\ S \cap A \subseteq T /\ T \in SUBSET T
      /\ \A x \in S \cap A : w[x] <= u[x]
  OBVIOUS
<1>3. S \ A \in SUBSET S /\ S \ A \subseteq R /\ R \in SUBSET R
      /\ \A x \in S \ A : w[x] <= v[x]
  OBVIOUS
<1> HIDE DEF A
<1>4. SumFunctionOnSet(w, S \cap A) <= SumFunctionOnSet(u, T)
  BY <1>2, SumOnSetMonotone
<1>5. SumFunctionOnSet(w, S \ A) <= SumFunctionOnSet(v, R)
  BY <1>3, SumOnSetMonotone
<1>6. SumFunctionOnSet(w, S \cap A) \in Nat /\ SumFunctionOnSet(w, S \ A) \in Nat
  BY <1>2, <1>3, SumSplit
<1>7. SumFunctionOnSet(u, T) \in Nat /\ SumFunctionOnSet(v, R) \in Nat
  BY <1>2, <1>3, SumSplit
<1>8. SumFunctionOnSet(w, S) <= SumFunctionOnSet(u, T) + SumFunctionOnSet(v, R)
  BY <1>1, <1>4, <1>5, <1>6, <1>7
<1>9. DOMAIN w = S /\ DOMAIN u = T /\ DOMAIN v = R
  OBVIOUS
<1> QED BY <1>8, <1>9 DEF SumFunction
=============================================================================
