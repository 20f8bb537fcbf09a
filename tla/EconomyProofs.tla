--------------------------- MODULE EconomyProofs ---------------------------
(***************************************************************************)
(* Proofs about Economy, for every set of accounts, companies, goods and   *)
(* residents and all rates, prices, orders and batches:                    *)
(*   Solvency             Spec => []WithinOverdraft                        *)
(*   EverySaleIsPaid      Spec => GoodsArePaid                             *)
(*   BooksAreBalanced     Spec => []BooksBalance                           *)
(*   LoansArePaidOut      Spec => LoanPaidOut                              *)
(*   WoundUpWithoutCash   Spec => BankruptHasNoCash                        *)
(*   HouseholdsAreDrained Spec => HouseholdsOnlyPay                        *)
(*   TypeCorrect          Spec => []TypeOK                                 *)
(* All rest on IInv.  WithinOverdraft is not inductive: founding a company *)
(* sets its overdraft anew, which is harmless only because nothing has     *)
(* ever been taken from its account, and the three transfers of a purchase *)
(* are amounts only because what it divides by is more than the purse.     *)
(* BooksBalance needs, beside it, that every step only moves money         *)
(* (Moved), that debts are the sums of the loans (DebtInv), and how far    *)
(* the weighing and the paying of producers have come (ShareInv).          *)
(*                                                                         *)
(* And about Genesis, whose companies, cohorts, residents, homes and       *)
(* discoveries may be any, which adds up the same sums:                    *)
(*   WorldsTyped          GenesisSpec => []GenesisTypeOK                   *)
(*   WorldsOpenSound      GenesisSpec => []OpensSound                      *)
(* OpensSound says nothing until a world is sealed.  What it is when it is *)
(* follows from GenesisInv: residents and households are numbered without  *)
(* a gap (BuiltInv), nobody has a job early and only a chief is on two     *)
(* lists (EmployedInv), no company has more than it wants and its chief    *)
(* (VacanciesInv), each building counts those who live there (HomesInv),   *)
(* there are the accounts of those who are there and no others (MoneyInv), *)
(* and projects are shared only when all are taken (ResearchInv).          *)
(***************************************************************************)
EXTENDS Economy, Genesis, FiniteSetTheorems, SequenceTheorems, WellFoundedInduction, TLAPS

-----------------------------------------------------------------------------
(* Sums over finite sets.  The model adds up balances and loans with           *)
(* MapThenSumSet, whose definition picks the elements one by one in an order     *)
(* nobody knows: the order does not matter, and a sum changes with its terms.   *)

\* Induction on the natural numbers, for a set: the theorems of the library take a
\* predicate as a parameter.
LEMMA SetInduction ==
    ASSUME NEW T, 0 \in T, \A n \in Nat : n \in T => n + 1 \in T
    PROVE  Nat \subseteq T
<1>1. SUFFICES ASSUME Nat \ T # {} PROVE FALSE
  OBVIOUS
<1> DEFINE Below == OpToRel(<, Nat)
<1>2. IsWellFoundedOn(Below, Nat)
  BY NatLessThanWellFounded
<1>3. \A i, j : <<i, j>> \in Below <=> i \in Nat /\ j \in Nat /\ i < j
  BY DEF OpToRel
<1> HIDE DEF Below
<1>4. Nat \ T \subseteq Nat /\ Nat \ T # {}
  BY <1>1
<1>5. \E m \in Nat \ T : \A k \in Nat \ T : ~ (<<k, m>> \in Below)
  BY <1>2, <1>4, WFMin, Zenon
<1>6. PICK m \in Nat \ T : \A k \in Nat \ T : ~ (<<k, m>> \in Below)
  BY <1>5
<1>7. m # 0 /\ m - 1 \in Nat /\ (m - 1) + 1 = m /\ m - 1 < m
  OBVIOUS
<1>8. m - 1 \in T
  BY <1>3, <1>6, <1>7
<1> QED
  BY <1>6, <1>7, <1>8

\* Induction on the subsets of a finite set: from the empty set, one element at
\* a time.
LEMMA SubsetInduction ==
  ASSUME NEW S, IsFiniteSet(S), NEW T, {} \in T,
         \A s \in SUBSET S : s \in T => \A x \in S \ s : s \cup {x} \in T
  PROVE  \A s \in SUBSET S : s \in T
<1>. DEFINE N == {n \in Nat : \A s \in SUBSET S : Cardinality(s) = n => s \in T}
<1>1. 0 \in N
  <2>1. \A s \in SUBSET S : Cardinality(s) = 0 => s = {}
    BY FS_Subset, FS_EmptySet
  <2>. QED BY <2>1
<1>2. \A n \in Nat : n \in N => n + 1 \in N
  <2>1. SUFFICES ASSUME NEW n \in Nat, n \in N,
                        NEW s \in SUBSET S, Cardinality(s) = n + 1
                 PROVE  s \in T
    OBVIOUS
  <2>2. IsFiniteSet(s)
    BY FS_Subset
  <2>3. s # {}
    BY <2>1, FS_EmptySet
  <2>4. PICK x \in s : TRUE
    BY <2>3
  <2>5. Cardinality(s \ {x}) = Cardinality(s) - 1
    BY <2>2, <2>4, FS_RemoveElement
  <2>6. Cardinality(s \ {x}) = n
    BY <2>1, <2>5
  <2>7. s \ {x} \in T /\ s \ {x} \in SUBSET S
    BY <2>1, <2>6
  <2>8. s = (s \ {x}) \cup {x} /\ x \in S \ (s \ {x})
    BY <2>4
  <2>. QED BY <2>7, <2>8
<1>. HIDE DEF N
<1>3. Nat \subseteq N
  BY <1>1, <1>2, SetInduction
<1>4. \A s \in SUBSET S : Cardinality(s) \in Nat
  BY FS_Subset, FS_CardinalityType
<1>. QED BY <1>3, <1>4 DEF N
-----------------------------------------------------------------------------

\* A sum over a set, of the values of a function.
Sum(f, S) == MapThenSumSet(LAMBDA x : f[x], S)

\* The element a sum starts with.
Pick(s) == CHOOSE x \in s : TRUE

\* The recursion by which a sum is computed ...
Folds(g, f, S) ==
    g = [s \in SUBSET S |-> IF s = {} THEN 0 ELSE f[Pick(s)] + g[s \ {Pick(s)}]]

\* ... and what it comes to: any element may be the first.
Adds(g, f, S) ==
    /\ DOMAIN g = SUBSET S
    /\ g[{}] = 0
    /\ \A s \in SUBSET S : \A x \in s : g[s] = f[x] + g[s \ {x}]

\* The same of the subsets with at most n elements.
AddsUpTo(n, g, f, S) ==
    /\ g[{}] = 0
    /\ \A s \in SUBSET S : Cardinality(s) =< n =>
          \A x \in s : g[s] = f[x] + g[s \ {x}]

Numbers(f, S) == \A x \in S : f[x] \in Int

\* What MapThenSumSet computes.
LEMMA SumFolds ==
  ASSUME NEW f, NEW S
  PROVE  Sum(f, S) = (CHOOSE g : Folds(g, f, S))[S]
BY DEF Sum, MapThenSumSet, MapThenFoldSet, Folds, Pick

\* A function that adds up the small subsets can be extended to those with one
\* element more.
LEMMA OneMoreTerm ==
  ASSUME NEW S, IsFiniteSet(S), NEW f, Numbers(f, S), NEW n \in Nat,
         NEW g \in [SUBSET S -> Int],
         AddsUpTo(n, g, f, S)
  PROVE  \E h \in [SUBSET S -> Int] : AddsUpTo(n + 1, h, f, S)
<1>. DEFINE h == [s \in SUBSET S |-> IF Cardinality(s) = n + 1
                                     THEN f[Pick(s)] + g[s \ {Pick(s)}]
                                     ELSE g[s]]
<1>1. ASSUME NEW s \in SUBSET S
      PROVE  /\ Cardinality(s) \in Nat
             /\ \A x \in s : /\ s \ {x} \in SUBSET S
                             /\ Cardinality(s \ {x}) = Cardinality(s) - 1
  BY FS_Subset, FS_CardinalityType, FS_RemoveElement
<1>2. Cardinality({}) = 0 /\ \A s \in SUBSET S : Cardinality(s) = 0 <=> s = {}
  BY FS_Subset, FS_EmptySet
<1>3. \A s : s # {} => Pick(s) \in s
  BY DEF Pick
<1>4. h \in [SUBSET S -> Int]
  <2>1. ASSUME NEW s \in SUBSET S, Cardinality(s) = n + 1
        PROVE  f[Pick(s)] + g[s \ {Pick(s)}] \in Int
    <3>1. s # {}
      BY <1>2, <2>1
    <3>2. Pick(s) \in s
      BY <3>1, <1>3
    <3>3. s \ {Pick(s)} \in SUBSET S
      BY <2>1
    <3>4. g[s \ {Pick(s)}] \in Int
      BY <3>3
    <3>5. f[Pick(s)] \in Int
      BY <3>2 DEF Numbers
    <3>. QED BY <3>4, <3>5
  <2>. QED BY <2>1
<1>5. h[{}] = 0
  BY <1>2 DEF AddsUpTo
<1>6. ASSUME NEW s \in SUBSET S, Cardinality(s) =< n + 1, NEW x \in s
      PROVE  h[s] = f[x] + h[s \ {x}]
  <2>1. h[s \ {x}] = g[s \ {x}]
    BY <1>1, <1>6
  <2>2. CASE Cardinality(s) # n + 1
    <3>1. Cardinality(s) =< n
      BY <1>1, <1>6, <2>2
    <3>. QED BY <2>1, <2>2, <3>1 DEF AddsUpTo
  <2>3. CASE Cardinality(s) = n + 1
    <3>. DEFINE p == Pick(s)
    <3>1. p \in s
      BY <1>3, <1>6
    <3>2. h[s] = f[p] + g[s \ {p}]
      BY <2>3
    <3>. HIDE DEF p
    <3>3. CASE p = x
      BY <2>1, <3>2, <3>3
    <3>4. CASE p # x
      <4>1. x \in s \ {p} /\ p \in s \ {x} /\ (s \ {p}) \ {x} = (s \ {x}) \ {p}
        BY <3>1, <3>4
      <4>2. s \ {p} \in SUBSET S /\ s \ {x} \in SUBSET S /\ (s \ {x}) \ {p} \in SUBSET S
        OBVIOUS
      <4>3. Cardinality(s \ {p}) =< n /\ Cardinality(s \ {x}) =< n
        BY <1>1, <2>3, <3>1
      <4>4. g[s \ {p}] = f[x] + g[(s \ {p}) \ {x}]
        BY <4>1, <4>2, <4>3 DEF AddsUpTo
      <4>5. g[s \ {x}] = f[p] + g[(s \ {x}) \ {p}]
        BY <4>1, <4>2, <4>3 DEF AddsUpTo
      <4>6. f[x] \in Int /\ f[p] \in Int /\ g[(s \ {x}) \ {p}] \in Int
        BY <3>1, <4>2 DEF Numbers
      <4>. HIDE DEF h
      <4>7. (f[p] + (f[x] + g[(s \ {x}) \ {p}])) = (f[x] + (f[p] + g[(s \ {x}) \ {p}]))
        BY <4>6
      <4>. QED BY <2>1, <3>2, <4>1, <4>4, <4>5, <4>7
    <3>. QED BY <3>3, <3>4
  <2>. QED BY <2>2, <2>3
<1>. HIDE DEF h
<1>7. AddsUpTo(n + 1, h, f, S)
  BY <1>5, <1>6 DEF AddsUpTo
<1>. QED BY <1>4, <1>7

\* There is a function that adds up every subset of a finite set.
LEMMA SomethingAdds ==
  ASSUME NEW S, IsFiniteSet(S), NEW f, Numbers(f, S)
  PROVE  \E g \in [SUBSET S -> Int] : Adds(g, f, S)
<1>. DEFINE N == {n \in Nat : \E g \in [SUBSET S -> Int] : AddsUpTo(n, g, f, S)}
<1>1. \A s \in SUBSET S : /\ Cardinality(s) \in Nat
                          /\ Cardinality(s) = 0 <=> s = {}
                          /\ Cardinality(s) =< Cardinality(S)
  BY FS_Subset, FS_CardinalityType, FS_EmptySet
<1>2. 0 \in N
  <2>. DEFINE z == [s \in SUBSET S |-> 0]
  <2>1. z \in [SUBSET S -> Int] /\ z[{}] = 0
    OBVIOUS
  <2>2. \A s \in SUBSET S : Cardinality(s) =< 0 => s = {}
    BY <1>1
  <2>. QED BY <2>1, <2>2 DEF AddsUpTo
<1>3. \A n \in Nat : n \in N => n + 1 \in N
  <2>1. SUFFICES ASSUME NEW n \in Nat, n \in N PROVE n + 1 \in N
    BY Zenon
  <2>2. PICK g \in [SUBSET S -> Int] : AddsUpTo(n, g, f, S)
    BY <2>1
  <2>3. \E h \in [SUBSET S -> Int] : AddsUpTo(n + 1, h, f, S)
    BY <2>2, OneMoreTerm
  <2>. QED BY <2>3
<1>. HIDE DEF N
<1>4. Nat \subseteq N
  BY <1>2, <1>3, SetInduction
<1>5. Cardinality(S) \in N
  BY <1>4, FS_CardinalityType
<1>6. PICK g \in [SUBSET S -> Int] : AddsUpTo(Cardinality(S), g, f, S)
  BY <1>5 DEF N
<1>7. Adds(g, f, S)
  BY <1>1, <1>6 DEF Adds, AddsUpTo
<1>. QED BY <1>7

\* The recursion has a solution.
LEMMA SomethingFolds ==
  ASSUME NEW S, IsFiniteSet(S), NEW f, Numbers(f, S)
  PROVE  \E g : Folds(g, f, S)
<1>1. PICK g \in [SUBSET S -> Int] : Adds(g, f, S)
  BY SomethingAdds
<1>2. ASSUME NEW s \in SUBSET S
      PROVE  g[s] = IF s = {} THEN 0 ELSE f[Pick(s)] + g[s \ {Pick(s)}]
  BY <1>1 DEF Adds, Pick
<1>3. Folds(g, f, S)
  BY <1>2 DEF Folds
<1>. QED BY <1>3

\* Two functions that follow the recursion, for terms that are the same, agree
\* on the subsets both add up.
LEMMA FoldsAgree ==
  ASSUME NEW S, IsFiniteSet(S), NEW f, NEW g, Folds(g, f, S),
         NEW R \in SUBSET S, NEW e, NEW h, Folds(h, e, R),
         \A x \in R : f[x] = e[x]
  PROVE  \A s \in SUBSET R : g[s] = h[s]
<1>. DEFINE N == {n \in Nat : \A s \in SUBSET R : Cardinality(s) = n => g[s] = h[s]}
<1>1. ASSUME NEW s \in SUBSET R
      PROVE  /\ Cardinality(s) \in Nat
             /\ Cardinality(s) = 0 <=> s = {}
             /\ \A x \in s : /\ s \ {x} \in SUBSET R
                             /\ Cardinality(s \ {x}) = Cardinality(s) - 1
             /\ s \in SUBSET S
  <2>1. IsFiniteSet(s)
    BY FS_Subset
  <2>. QED BY <2>1, FS_CardinalityType, FS_EmptySet, FS_RemoveElement
<1>2. ASSUME NEW s \in SUBSET R
      PROVE  /\ g[s] = IF s = {} THEN 0 ELSE f[Pick(s)] + g[s \ {Pick(s)}]
             /\ h[s] = IF s = {} THEN 0 ELSE e[Pick(s)] + h[s \ {Pick(s)}]
  <2>1. g = [t \in SUBSET S |-> IF t = {} THEN 0 ELSE f[Pick(t)] + g[t \ {Pick(t)}]]
    BY DEF Folds
  <2>2. h = [t \in SUBSET R |-> IF t = {} THEN 0 ELSE e[Pick(t)] + h[t \ {Pick(t)}]]
    BY DEF Folds
  <2>3. s \in SUBSET S
    OBVIOUS
  <2>4. g[s] = IF s = {} THEN 0 ELSE f[Pick(s)] + g[s \ {Pick(s)}]
    BY <2>1, <2>3, Zenon
  <2>5. h[s] = IF s = {} THEN 0 ELSE e[Pick(s)] + h[s \ {Pick(s)}]
    BY <2>2, Zenon
  <2>. QED BY <2>4, <2>5
<1>3. 0 \in N
  BY <1>1, <1>2
<1>4. \A n \in Nat : n \in N => n + 1 \in N
  <2>1. SUFFICES ASSUME NEW n \in Nat, n \in N,
                        NEW s \in SUBSET R, Cardinality(s) = n + 1
                 PROVE  g[s] = h[s]
    OBVIOUS
  <2>2. s # {}
    BY <1>1, <2>1
  <2>3. Pick(s) \in s
    BY <2>2 DEF Pick
  <2>4. Cardinality(s \ {Pick(s)}) = n
    BY <1>1, <2>1, <2>3
  <2>5. g[s \ {Pick(s)}] = h[s \ {Pick(s)}]
    BY <1>1, <2>1, <2>3, <2>4
  <2>6. f[Pick(s)] = e[Pick(s)]
    BY <2>3
  <2>. QED BY <1>2, <2>2, <2>5, <2>6, Zenon
<1>. HIDE DEF N
<1>5. Nat \subseteq N
  BY <1>3, <1>4, SetInduction
<1>. QED BY <1>1, <1>5 DEF N

\* What follows the recursion adds up.
LEMMA FoldsAdd ==
  ASSUME NEW S, IsFiniteSet(S), NEW f, Numbers(f, S), NEW g, Folds(g, f, S)
  PROVE  g \in [SUBSET S -> Int] /\ Adds(g, f, S)
<1>1. PICK h \in [SUBSET S -> Int] : Adds(h, f, S)
  BY SomethingAdds
<1>2. ASSUME NEW s \in SUBSET S
      PROVE  h[s] = IF s = {} THEN 0 ELSE f[Pick(s)] + h[s \ {Pick(s)}]
  BY <1>1 DEF Adds, Pick
<1>3. Folds(h, f, S)
  BY <1>2 DEF Folds
<1>4. \A s \in SUBSET S : g[s] = h[s]
  BY <1>3, FoldsAgree
<1>5. DOMAIN g = SUBSET S /\ g = [s \in SUBSET S |-> g[s]]
  BY DEF Folds
<1>6. g = h
  BY <1>4, <1>5
<1>. QED BY <1>1, <1>6
-----------------------------------------------------------------------------

\* A function that says what the sums over the parts of a set are.
SaysSums(g, f, S) ==
    /\ g \in [SUBSET S -> Int]
    /\ Adds(g, f, S)
    /\ \A R \in SUBSET S : Sum(f, R) = g[R]

\* The sum over any part of a set is what one and the same function says.
LEMMA SumWitness ==
  ASSUME NEW S, IsFiniteSet(S), NEW f, Numbers(f, S)
  PROVE  \E g : SaysSums(g, f, S)
<1>1. PICK g : Folds(g, f, S)
  BY SomethingFolds
<1>2. g \in [SUBSET S -> Int] /\ Adds(g, f, S)
  BY <1>1, FoldsAdd
<1>3. ASSUME NEW R \in SUBSET S PROVE Sum(f, R) = g[R]
  <2>1. IsFiniteSet(R)
    BY FS_Subset
  <2>2. Numbers(f, R)
    BY DEF Numbers
  <2>3. \E h : Folds(h, f, R)
    BY <2>1, <2>2, SomethingFolds
  <2>. DEFINE c == CHOOSE h : Folds(h, f, R)
  <2>4. Folds(c, f, R)
    BY <2>3, Zenon
  <2>5. Sum(f, R) = c[R]
    BY SumFolds, Zenon
  <2>. HIDE DEF c
  <2>6. \A s \in SUBSET R : g[s] = c[s]
    BY <1>1, <2>4, FoldsAgree
  <2>. QED BY <2>5, <2>6
<1>. QED BY <1>2, <1>3 DEF SaysSums

\* Nothing adds up to nothing.
LEMMA SumOfNone == ASSUME NEW f PROVE Sum(f, {}) = 0
<1>1. IsFiniteSet({}) /\ Numbers(f, {})
  BY FS_EmptySet DEF Numbers
<1>2. PICK g : SaysSums(g, f, {})
  BY <1>1, SumWitness
<1>. QED BY <1>2 DEF Adds, SaysSums

\* A sum of integers is an integer.
LEMMA SumIsInt ==
  ASSUME NEW S, IsFiniteSet(S), NEW f, Numbers(f, S)
  PROVE  Sum(f, S) \in Int
<1>1. PICK g : SaysSums(g, f, S)
  BY SumWitness
<1>. QED BY <1>1 DEF SaysSums

\* Any term can be taken out of the sum.
LEMMA SumWithout ==
  ASSUME NEW S, IsFiniteSet(S), NEW f, Numbers(f, S), NEW x \in S
  PROVE  /\ Sum(f, S) = f[x] + Sum(f, S \ {x})
         /\ f[x] \in Int /\ Sum(f, S) \in Int /\ Sum(f, S \ {x}) \in Int
<1>1. PICK g : SaysSums(g, f, S)
  BY SumWitness
<1>2. S \in SUBSET S /\ S \ {x} \in SUBSET S
  OBVIOUS
<1>3. g[S] = f[x] + g[S \ {x}]
  BY <1>1, <1>2 DEF Adds, SaysSums
<1>. QED BY <1>1, <1>2, <1>3 DEF Numbers, SaysSums

\* A term can be added to the sum.
LEMMA SumWith ==
  ASSUME NEW S, IsFiniteSet(S), NEW f, NEW x, x \notin S, Numbers(f, S \cup {x})
  PROVE  /\ Sum(f, S \cup {x}) = f[x] + Sum(f, S)
         /\ f[x] \in Int /\ Sum(f, S) \in Int
<1>. DEFINE u == S \cup {x}
<1>1. u \ {x} = S /\ x \in u
  OBVIOUS
<1>2. IsFiniteSet(u) /\ Numbers(f, u)
  BY FS_AddElement
<1>. HIDE DEF u
<1>3. Sum(f, u) = f[x] + Sum(f, u \ {x}) /\ f[x] \in Int /\ Sum(f, u \ {x}) \in Int
  BY <1>1, <1>2, SumWithout
<1>. QED BY <1>1, <1>3 DEF u

\* The sum of equal terms is the same.
LEMMA SumOfSame ==
  ASSUME NEW S, IsFiniteSet(S), NEW f, Numbers(f, S), NEW e, \A x \in S : f[x] = e[x]
  PROVE  Sum(f, S) = Sum(e, S)
<1>1. Numbers(e, S)
  BY DEF Numbers
<1>2. PICK g : Folds(g, f, S) /\ Sum(f, S) = g[S]
  BY SomethingFolds, SumFolds, Zenon
<1>3. PICK h : Folds(h, e, S) /\ Sum(e, S) = h[S]
  BY <1>1, SomethingFolds, SumFolds, Zenon
<1>4. Sum(f, S) = g[S] /\ Sum(e, S) = h[S]
  BY <1>2, <1>3
<1>5. S \in SUBSET S
  OBVIOUS
<1>6. \A s \in SUBSET S : g[s] = h[s]
  BY <1>2, <1>3, <1>5, FoldsAgree
<1>. QED BY <1>4, <1>6

\* What one term gains, the sum gains.
LEMMA SumOfChanged ==
  ASSUME NEW S, IsFiniteSet(S), NEW f, Numbers(f, S), NEW e, NEW x \in S, NEW d \in Int,
         e[x] = f[x] + d, \A z \in S : z # x => e[z] = f[z]
  PROVE  /\ Sum(e, S) = Sum(f, S) + d
         /\ Sum(f, S) \in Int /\ Numbers(e, S)
<1>1. Numbers(e, S)
  BY DEF Numbers
<1>2. /\ Sum(f, S) = f[x] + Sum(f, S \ {x}) /\ f[x] \in Int
      /\ Sum(e, S) = e[x] + Sum(e, S \ {x}) /\ Sum(f, S \ {x}) \in Int
      /\ Sum(f, S) \in Int
  BY <1>1, SumWithout
<1>3. IsFiniteSet(S \ {x}) /\ Numbers(f, S \ {x}) /\ \A z \in S \ {x} : f[z] = e[z]
  BY FS_RemoveElement DEF Numbers
<1>4. Sum(f, S \ {x}) = Sum(e, S \ {x})
  BY <1>3, SumOfSame
<1>. QED BY <1>1, <1>2, <1>4

\* What one term loses and another gains leaves the sum as it is.
LEMMA SumOfMoved ==
  ASSUME NEW S, IsFiniteSet(S), NEW f, Numbers(f, S), NEW e, Numbers(e, S),
         NEW x \in S, NEW y \in S \ {x}, NEW d \in Int,
         e[x] = f[x] - d, e[y] = f[y] + d,
         \A z \in S : z # x /\ z # y => e[z] = f[z]
  PROVE  Sum(e, S) = Sum(f, S)
<1>. DEFINE R == S \ {x}
<1>1. IsFiniteSet(R) /\ Numbers(f, R) /\ Numbers(e, R) /\ y \in R
  BY FS_RemoveElement DEF Numbers
<1>2. /\ Sum(f, S) = f[x] + Sum(f, R) /\ f[x] \in Int
      /\ Sum(e, S) = e[x] + Sum(e, R)
  BY SumWithout
<1>. HIDE DEF R
<1>3. IsFiniteSet(R \ {y}) /\ Numbers(f, R \ {y})
  BY <1>1, FS_RemoveElement DEF Numbers
<1>4. /\ Sum(f, R) = f[y] + Sum(f, R \ {y}) /\ f[y] \in Int
      /\ Sum(e, R) = e[y] + Sum(e, R \ {y})
  BY <1>1, SumWithout
<1>5. \A z \in R \ {y} : f[z] = e[z]
  BY DEF R
<1>6. Sum(f, R \ {y}) = Sum(e, R \ {y}) /\ Sum(f, R \ {y}) \in Int
  BY <1>3, <1>5, SumOfSame, SumIsInt
<1>. QED BY <1>2, <1>4, <1>6

\* A sum of natural numbers is one, and is at least each of its terms.
LEMMA SumOfNaturals ==
  ASSUME NEW S, IsFiniteSet(S), NEW f, \A x \in S : f[x] \in Nat
  PROVE  Sum(f, S) \in Nat /\ \A x \in S : f[x] =< Sum(f, S)
<1>. DEFINE T == {s \in SUBSET S : Sum(f, s) \in Nat}
<1>1. {} \in T
  BY SumOfNone
<1>2. ASSUME NEW s \in SUBSET S, NEW x \in S \ s, s \in T PROVE s \cup {x} \in T
  <2>1. IsFiniteSet(s) /\ Numbers(f, s \cup {x}) /\ x \notin s
    BY FS_Subset DEF Numbers
  <2>2. Sum(f, s \cup {x}) = f[x] + Sum(f, s)
    BY <2>1, SumWith, Zenon
  <2>. QED BY <1>2, <2>2
<1>3. \A s \in SUBSET S : s \in T
  <2>. HIDE DEF T
  <2>. QED BY <1>1, <1>2, SubsetInduction
<1>4. Sum(f, S) \in Nat
  BY <1>3
<1>5. ASSUME NEW x \in S PROVE f[x] =< Sum(f, S)
  <2>1. Sum(f, S) = f[x] + Sum(f, S \ {x})
    BY SumWithout DEF Numbers
  <2>2. Sum(f, S \ {x}) \in Nat
    BY <1>3
  <2>. QED BY <2>1, <2>2
<1>. QED BY <1>4, <1>5

\* Terms can be left out of a sum of natural numbers: it gets no larger.
LEMMA SumOfPart ==
  ASSUME NEW S, IsFiniteSet(S), NEW f, \A x \in S : f[x] \in Nat, NEW R \in SUBSET S
  PROVE  Sum(f, R) =< Sum(f, S)
<1>. DEFINE T == {s \in SUBSET S : Sum(f, s \cap R) =< Sum(f, s)}
<1>1. {} \in T
  <2>1. {} \cap R = {}
    OBVIOUS
  <2>. QED BY <2>1, SumOfNone
<1>2. ASSUME NEW s \in SUBSET S, s \in T, NEW x \in S \ s PROVE s \cup {x} \in T
  <2>1. IsFiniteSet(s) /\ Numbers(f, s \cup {x}) /\ x \notin s
    BY FS_Subset DEF Numbers
  <2>2. Sum(f, s \cup {x}) = f[x] + Sum(f, s) /\ f[x] \in Int /\ Sum(f, s) \in Int
    BY <2>1, SumWith, Zenon
  <2>3. Sum(f, s \cap R) \in Int
    <3>1. IsFiniteSet(s \cap R) /\ Numbers(f, s \cap R)
      BY FS_Subset DEF Numbers
    <3>. QED BY <3>1, SumIsInt
  <2>4. CASE x \in R
    <3>1. /\ IsFiniteSet(s \cap R) /\ Numbers(f, (s \cap R) \cup {x})
          /\ x \notin s \cap R
      BY <2>4, FS_Subset DEF Numbers
    <3>2. Sum(f, (s \cap R) \cup {x}) = f[x] + Sum(f, s \cap R)
      BY <3>1, SumWith, Zenon
    <3>3. (s \cup {x}) \cap R = (s \cap R) \cup {x}
      BY <2>4
    <3>4. Sum(f, (s \cup {x}) \cap R) = f[x] + Sum(f, s \cap R)
      BY <3>2, <3>3, Zenon
    <3>. QED BY <1>2, <2>2, <2>3, <3>4
  <2>5. CASE x \notin R
    <3>1. (s \cup {x}) \cap R = s \cap R
      BY <2>5
    <3>2. Sum(f, (s \cup {x}) \cap R) = Sum(f, s \cap R)
      BY <3>1
    <3>3. f[x] \in Nat /\ Sum(f, s \cap R) =< Sum(f, s)
      BY <1>2
    <3>. QED BY <2>2, <2>3, <3>2, <3>3
  <2>. QED BY <2>4, <2>5
<1>3. \A s \in SUBSET S : s \in T
  <2>. HIDE DEF T
  <2>. QED BY <1>1, <1>2, SubsetInduction
<1>4. S \in T /\ S \cap R = R
  BY <1>3
<1>. QED BY <1>4

\* Two steps of what follows, for products.
LEMMA SharesAddUp ==
  ASSUME NEW W \in Nat, NEW P \in Nat, NEW x \in Nat, NEW y \in Nat,
         NEW a \in Nat, NEW b \in Nat, W * x =< P * a, W * y =< P * b
  PROVE  W * (x + y) =< P * (a + b)
<1>1. W * (x + y) = W * x + W * y /\ P * (a + b) = P * a + P * b
  OBVIOUS
<1>2. W * x \in Nat /\ W * y \in Nat /\ P * a \in Nat /\ P * b \in Nat
  OBVIOUS
<1>. QED BY <1>1, <1>2

\* A whole share is no more than the exact one.
LEMMA ShareIsPart ==
  ASSUME NEW W \in Nat \ {0}, NEW P \in Nat, NEW a \in Nat
  PROVE  /\ (P * a) \div W \in Nat
         /\ W * ((P * a) \div W) =< P * a
<1>1. P * a \in Nat
  OBVIOUS
<1>. DEFINE n == P * a
<1>2. n \in Nat
  BY <1>1
<1>. HIDE DEF n
<1>3. n \div W \in Nat /\ W * (n \div W) =< n
  BY <1>2
<1>. QED BY <1>3 DEF n

\* What is shared out in whole parts, by weight, is no more than there was.
LEMMA SumOfShares ==
  ASSUME NEW S, IsFiniteSet(S), NEW w \in [S -> Nat], NEW P \in Nat,
         NEW W \in Nat \ {0}, NEW D \in SUBSET S, Sum(w, D) =< W
  PROVE  LET shares == [x \in S |-> (P * w[x]) \div W] IN Sum(shares, D) =< P
<1>. DEFINE shares == [x \in S |-> (P * w[x]) \div W]
            T == {s \in SUBSET S : W * Sum(shares, s) =< P * Sum(w, s)}
<1>1. ASSUME NEW x \in S
      PROVE  /\ w[x] \in Nat /\ shares[x] \in Nat
             /\ W * shares[x] =< P * w[x]
  <2>1. w[x] \in Nat /\ shares[x] = (P * w[x]) \div W
    OBVIOUS
  <2>. HIDE DEF shares
  <2>. QED BY <2>1, ShareIsPart
<1>. HIDE DEF shares
<1>2. ASSUME NEW s \in SUBSET S
      PROVE  IsFiniteSet(s) /\ Sum(w, s) \in Nat /\ Sum(shares, s) \in Nat
  <2>1. IsFiniteSet(s) /\ (\A x \in s : w[x] \in Nat) /\ (\A x \in s : shares[x] \in Nat)
    BY <1>1, FS_Subset
  <2>. QED BY <2>1, SumOfNaturals
<1>3. {} \in T
  <2>1. Sum(shares, {}) = 0 /\ Sum(w, {}) = 0
    BY SumOfNone
  <2>. QED BY <2>1
<1>4. ASSUME NEW s \in SUBSET S, s \in T, NEW x \in S \ s PROVE s \cup {x} \in T
  <2>1. Numbers(w, s \cup {x}) /\ Numbers(shares, s \cup {x}) /\ IsFiniteSet(s) /\ x \notin s
    BY <1>1, <1>2 DEF Numbers
  <2>2. Sum(w, s \cup {x}) = w[x] + Sum(w, s)
    BY <2>1, SumWith
  <2>3. Sum(shares, s \cup {x}) = shares[x] + Sum(shares, s)
    BY <2>1, SumWith
  <2>4. W * Sum(shares, s) =< P * Sum(w, s)
    BY <1>4
  <2>5. W * shares[x] =< P * w[x] /\ w[x] \in Nat /\ shares[x] \in Nat
    BY <1>1
  <2>6. W * (shares[x] + Sum(shares, s)) =< P * (w[x] + Sum(w, s))
    BY <1>2, <2>4, <2>5, SharesAddUp
  <2>. QED BY <2>2, <2>3, <2>6
<1>5. \A s \in SUBSET S : s \in T
  <2>. HIDE DEF T
  <2>. QED BY <1>3, <1>4, SubsetInduction
<1>6. W * Sum(shares, D) =< P * Sum(w, D)
  BY <1>5
<1>7. P * Sum(w, D) =< P * W
  BY <1>2
<1>8. Sum(shares, D) \in Nat /\ Sum(w, D) \in Nat
  BY <1>2
<1>9. ASSUME NEW y \in Nat, NEW z \in Nat, W * y =< P * z, P * z =< P * W PROVE y =< P
  <2>1. W * y \in Nat /\ P * z \in Nat /\ P * W \in Nat
    OBVIOUS
  <2>2. W * y =< P * W
    BY <1>9, <2>1
  <2>3. SUFFICES ASSUME y >= P + 1 PROVE FALSE
    OBVIOUS
  <2>4. W * y >= W * (P + 1)
    BY <2>3
  <2>5. W * (P + 1) = P * W + W
    OBVIOUS
  <2>. QED BY <2>1, <2>2, <2>4, <2>5
<1>10. Sum(shares, D) =< P
  BY <1>6, <1>7, <1>8, <1>9
<1>. QED BY <1>10 DEF shares

\* A transfer leaves every account at or above the overdraft it is allowed:
\* the guard of money.transfer, on whatever two accounts.
LEMMA TransferKeepsSolvent ==
    ASSUME NEW b \in [Accounts -> Int], NEW o \in [Accounts -> Nat],
           NEW source \in Accounts, NEW payee \in Accounts,
           NEW amount \in Int, \A a \in Accounts : b[a] >= - o[a]
    PROVE  /\ Transfer(b, o, source, payee, amount) \in [Accounts -> Int]
           /\ \A a \in Accounts : Transfer(b, o, source, payee, amount)[a] >= - o[a]
           /\ \A a \in Accounts \ {source} :
                 Transfer(b, o, source, payee, amount)[a] >= b[a]
<1> DEFINE paid  == [b EXCEPT ![source] = @ - amount]
           after == [paid EXCEPT ![payee] = @ + amount]
<1>1. CASE amount > 0 /\ CanPay(b, o, source, amount)
  <2>1. Transfer(b, o, source, payee, amount) = after
    BY <1>1 DEF Transfer
  <2>2. after \in [Accounts -> Int]
    OBVIOUS
  <2>3. b[source] + o[source] >= amount
    BY <1>1 DEF CanPay, Available
  <2>4. ASSUME NEW a \in Accounts
        PROVE  /\ after[a] >= - o[a]
               /\ a # source => after[a] >= b[a]
    BY <2>3, <1>1
  <2> QED
    BY <2>1, <2>2, <2>4
<1>2. CASE ~(amount > 0 /\ CanPay(b, o, source, amount))
  BY <1>2 DEF Transfer
<1> QED
  BY <1>1, <1>2

\* The part of a that a smaller b makes of d is no more than a.
LEMMA PartOfTotal ==
    ASSUME NEW a \in Nat, NEW b \in Nat, NEW d \in Nat, b < d
    PROVE  (a * b) \div d \in Nat /\ (a * b) \div d =< a
<1>1. a * b =< a * d
  OBVIOUS
<1>2. a * b \in Nat /\ d > 0
  OBVIOUS
<1>3. (a * b) \div d \in Nat
  BY <1>2
<1>4. d * ((a * b) \div d) =< a * b
  BY <1>2
<1>5. d * ((a * b) \div d) =< a * d
  BY <1>1, <1>2, <1>3, <1>4
<1> QED
  BY <1>2, <1>3, <1>5

\* Rounding a fraction gives an integer.
LEMMA RoundType ==
    ASSUME NEW n \in Int, NEW d \in Nat \ {0}
    PROVE  Round(n, d) \in Int
  BY DEF Round

\* The inductive invariant.  Besides types and solvency: a company that has
\* not been founded owes nothing (its account gets a new overdraft on the day
\* it is founded), only founded ones have borrowed, and what is divided by
\* while producers are paid is not zero.
NotYetFounded == \A c \in Companies \ firms : balance[c] >= 0
BorrowersFounded == \A i \in DOMAIN loans : loans[i].borrower \in firms
PotKept == phase = "pay" => weight > 0

IInv ==
    /\ BooksTyped /\ FirmsTyped /\ MarketTyped /\ LoopTyped
    /\ WithinOverdraft /\ NotYetFounded /\ BorrowersFounded /\ PotKept

\* A bill is made of amounts of money, and takes no more units than there are:
\* clearing.purchase, whether or not the buyer can afford the whole.
LEMMA BillType ==
    ASSUME IInv, NEW buyer \in Accounts, NEW good \in Goods,
           NEW quantity \in Nat, NEW wanted \in Nat, NEW vat \in Nat,
           NEW mayImport \in BOOLEAN
    PROVE  LET bill == Bill(buyer, good, quantity, wanted, vat, mayImport)
           IN  /\ bill.units \in Nat /\ bill.units =< inventory[good]
               /\ bill.domestic \in Int /\ bill.foreign \in Int
               /\ bill.tax \in Int
<1> DEFINE filled   == Smaller(quantity, inventory[good])
           short    == 2 * inventory[good] < wanted
           imported == IF mayImport /\ short /\ good \in Importable
                       THEN quantity - filled ELSE 0
           full     == price[good] * (100 * filled + PremiumPct * imported)
           gross    == Round(full, 100)
           tax      == Round(gross * vat, 100)
           due      == gross + tax
           purse    == Available(balance, overdraft, buyer)
           scaled   == Round(full * purse, 100 * due)
           domestic == Round(price[good] * filled * purse, due)
           whole    == [units |-> filled, domestic |-> price[good] * filled,
                        foreign |-> gross - price[good] * filled, tax |-> tax]
           part     == [units |-> (filled * purse) \div due, domestic |-> domestic,
                        foreign |-> scaled - domestic,
                        tax |-> Round(scaled * vat, 100)]
<1>1. /\ filled \in Nat /\ filled =< inventory[good] /\ imported \in Nat
      /\ price[good] \in Nat /\ PremiumPct \in Nat
  BY EconomyAssumption DEF IInv, MarketTyped, Smaller
<1> HIDE DEF filled, imported
<1>2. full \in Nat
  <2>1. 100 * filled + PremiumPct * imported \in Nat
    BY <1>1
  <2> QED
    BY <1>1, <2>1
<1> HIDE DEF full
<1>3. gross \in Int
  BY <1>2, RoundType
<1> HIDE DEF gross
<1>4. tax \in Int
  <2>1. gross * vat \in Int
    BY <1>3
  <2> QED
    BY <2>1, RoundType
<1> HIDE DEF tax
<1>5. due \in Int /\ purse \in Nat
  BY <1>3, <1>4 DEF IInv, BooksTyped, WithinOverdraft, Available
<1> HIDE DEF due, purse
<1>6. CASE due =< purse
  <2>1. Bill(buyer, good, quantity, wanted, vat, mayImport) = whole
    BY <1>6 DEF Bill, filled, imported, full, gross, tax, due, purse
  <2>2. price[good] * filled \in Int
    BY <1>1
  <2> QED
    BY <2>1, <2>2, <1>1, <1>3, <1>4
<1>7. CASE ~(due =< purse)
  <2>1. Bill(buyer, good, quantity, wanted, vat, mayImport) = part
    BY <1>7 DEF Bill, filled, imported, full, gross, tax, due, purse
  <2>2. due \in Nat \ {0} /\ purse < due
    BY <1>5, <1>7
  <2>3. part.units \in Nat /\ part.units =< filled
    BY <1>1, <1>5, <2>2, PartOfTotal
  <2>4. domestic \in Int
    <3>1. price[good] * filled * purse \in Int
      <4>1. price[good] * filled \in Int
        BY <1>1
      <4> QED
        BY <4>1, <1>5
    <3> QED
      BY <3>1, <2>2, RoundType
  <2>5. scaled \in Int
    <3>1. full * purse \in Int /\ 100 * due \in Nat \ {0}
      BY <1>2, <1>5, <2>2
    <3> QED
      BY <3>1, RoundType
  <2> HIDE DEF domestic, scaled
  <2>6. Round(scaled * vat, 100) \in Int
    <3>1. scaled * vat \in Int
      BY <2>5
    <3> QED
      BY <3>1, RoundType
  <2> QED
    BY <2>1, <2>3, <2>4, <2>5, <2>6, <1>1 DEF IInv, MarketTyped
<1> QED
  BY <1>6, <1>7

\* Paying a bill, in three transfers of one buyer.
LEMMA SettleKeepsSolvent ==
    ASSUME IInv, NEW buyer \in Accounts, NEW bill,
           bill.domestic \in Int, bill.foreign \in Int, bill.tax \in Int
    PROVE  LET b == Settle(balance, overdraft, buyer, bill)
           IN  /\ b \in [Accounts -> Int]
               /\ \A a \in Accounts : b[a] >= - overdraft[a]
               /\ \A a \in Accounts \ {buyer} : b[a] >= balance[a]
<1> DEFINE b1 == Transfer(balance, overdraft, buyer, Escrow, bill.domestic)
           b2 == Transfer(b1, overdraft, buyer, External, bill.foreign)
           b3 == Transfer(b2, overdraft, buyer, Treasury, bill.tax)
<1>0. {Escrow, External, Treasury} \subseteq Accounts
  BY DEF Accounts, Institutions
<1>1. /\ b1 \in [Accounts -> Int] /\ \A a \in Accounts : b1[a] >= - overdraft[a]
      /\ \A a \in Accounts \ {buyer} : b1[a] >= balance[a]
  BY <1>0, TransferKeepsSolvent DEF IInv, BooksTyped, WithinOverdraft
<1> HIDE DEF b1
<1>2. /\ b2 \in [Accounts -> Int] /\ \A a \in Accounts : b2[a] >= - overdraft[a]
      /\ \A a \in Accounts \ {buyer} : b2[a] >= b1[a]
  BY <1>0, <1>1, TransferKeepsSolvent DEF IInv, BooksTyped
<1> HIDE DEF b2
<1>3. /\ b3 \in [Accounts -> Int] /\ \A a \in Accounts : b3[a] >= - overdraft[a]
      /\ \A a \in Accounts \ {buyer} : b3[a] >= b2[a]
  BY <1>0, <1>2, TransferKeepsSolvent DEF IInv, BooksTyped
<1>4. \A a \in Accounts \ {buyer} : b3[a] >= balance[a]
  <2>1. SUFFICES ASSUME NEW a \in Accounts \ {buyer} PROVE b3[a] >= balance[a]
    OBVIOUS
  <2> HIDE DEF b3
  <2>2. b3[a] \in Int /\ b2[a] \in Int /\ b1[a] \in Int /\ balance[a] \in Int
    BY <1>1, <1>2, <1>3 DEF IInv, BooksTyped
  <2> QED
    BY <1>1, <1>2, <1>3, <2>2
<1>5. Settle(balance, overdraft, buyer, bill) = b3
  BY DEF Settle, b1, b2
<1> QED
  BY <1>3, <1>4, <1>5

\* Who pays in any step: the institutions, the founded companies, the residents
\* and the households, never a company that is still to be founded.
Payers == Institutions \cup firms \cup People \cup Households

\* If only one payer's balance fell, and not below its overdraft, the books are
\* kept.
LEMMA PaymentKeeps ==
    ASSUME IInv, NEW buyer \in Payers, NEW b \in [Accounts -> Int],
           \A a \in Accounts : b[a] >= - overdraft[a],
           \A a \in Accounts \ {buyer} : b[a] >= balance[a],
           balance' = b, overdraft' = overdraft, firms' = firms
    PROVE  /\ balance' \in [Accounts -> Int] /\ overdraft' \in [Accounts -> Nat]
           /\ WithinOverdraft' /\ NotYetFounded'
<1>1. WithinOverdraft'
  BY DEF WithinOverdraft
<1>2. NotYetFounded'
  <2>1. SUFFICES ASSUME NEW c \in Companies \ firms PROVE balance'[c] >= 0
    BY DEF NotYetFounded
  <2>2. c \in Accounts \ {buyer}
    BY EconomyAssumption DEF Payers, Accounts
  <2>3. b[c] >= balance[c] /\ balance[c] >= 0
    BY <2>2 DEF IInv, NotYetFounded
  <2>4. b[c] \in Int /\ balance[c] \in Int
    BY <2>2 DEF IInv, BooksTyped
  <2> QED
    BY <2>3, <2>4
<1> QED
  BY <1>1, <1>2 DEF IInv, BooksTyped

\* A single transfer from a payer keeps the books.
LEMMA TransferKeeps ==
    ASSUME IInv, NEW source \in Payers, NEW payee \in Accounts,
           NEW amount \in Int,
           balance' = Transfer(balance, overdraft, source, payee, amount),
           overdraft' = overdraft, firms' = firms
    PROVE  /\ balance' \in [Accounts -> Int] /\ overdraft' \in [Accounts -> Nat]
           /\ WithinOverdraft' /\ NotYetFounded'
<1> DEFINE b == Transfer(balance, overdraft, source, payee, amount)
<1>1. source \in Accounts
  BY DEF Payers, Accounts, IInv, FirmsTyped
<1>2. /\ b \in [Accounts -> Int]
      /\ \A a \in Accounts : b[a] >= - overdraft[a]
      /\ \A a \in Accounts \ {source} : b[a] >= balance[a]
  BY <1>1, TransferKeepsSolvent DEF IInv, BooksTyped, WithinOverdraft
<1> HIDE DEF b
<1>3. balance' = b
  BY DEF b
<1> QED
  BY <1>2, <1>3, PaymentKeeps

\* A purchase keeps the books and takes no more than there is in stock.
LEMMA PurchaseKeeps ==
    ASSUME IInv, NEW buyer \in Payers, NEW good \in Goods,
           NEW quantity \in Nat, NEW vat \in Nat, NEW mayImport \in BOOLEAN,
           Purchase(buyer, good, quantity, vat, mayImport),
           overdraft' = overdraft, firms' = firms
    PROVE  /\ balance' \in [Accounts -> Int] /\ overdraft' \in [Accounts -> Nat]
           /\ WithinOverdraft' /\ NotYetFounded'
           /\ demand' \in [Goods -> Nat] /\ inventory' \in [Goods -> Nat]
<1> DEFINE wanted == demand[good] + quantity
           bill   == Bill(buyer, good, quantity, wanted, vat, mayImport)
           b      == Settle(balance, overdraft, buyer, bill)
<1>0. buyer \in Accounts
  BY DEF Payers, Accounts, IInv, FirmsTyped
<1>1. demand' \in [Goods -> Nat] /\ wanted \in Nat
  BY DEF Purchase, IInv, MarketTyped
<1>2. /\ bill.units \in Nat /\ bill.units =< inventory[good]
      /\ bill.domestic \in Int /\ bill.foreign \in Int /\ bill.tax \in Int
  BY <1>0, <1>1, BillType
<1> HIDE DEF wanted
<1>3. inventory' = IF quantity = 0 THEN inventory
                   ELSE [inventory EXCEPT ![good] = @ - bill.units]
  BY DEF Purchase, wanted
<1>4. balance' = IF quantity = 0 THEN balance ELSE b
  BY DEF Purchase, wanted
<1> HIDE DEF bill
<1>5. inventory' \in [Goods -> Nat]
  BY <1>2, <1>3 DEF IInv, MarketTyped
<1>6. /\ b \in [Accounts -> Int]
      /\ \A a \in Accounts : b[a] >= - overdraft[a]
      /\ \A a \in Accounts \ {buyer} : b[a] >= balance[a]
  BY <1>0, <1>2, SettleKeepsSolvent
<1> HIDE DEF b
<1>7. CASE quantity = 0
  <2>1. \A a \in Accounts : balance[a] >= balance[a]
    BY DEF IInv, BooksTyped
  <2> QED
    BY <2>1, <1>1, <1>4, <1>5, <1>7, PaymentKeeps
       DEF IInv, BooksTyped, WithinOverdraft
<1>8. CASE quantity # 0
  BY <1>1, <1>4, <1>5, <1>6, <1>8, PaymentKeeps
<1> QED
  BY <1>7, <1>8

\* The end of a board meeting.
LEMMA CloseBooksType ==
    ASSUME IInv, NEW c \in firms, NEW kept \in Kept(c), NEW debts,
           CloseBooks(c, kept, debts), firms' = firms
    PROVE  FirmsTyped'
<1>1. kept \in SUBSET People /\ c \in Companies
  BY DEF Kept, IInv, FirmsTyped
<1> QED
  BY <1>1 DEF CloseBooks, IInv, FirmsTyped

\* The power companies of genesis never go away.
LEMMA OperatorsFounded == ASSUME IInv PROVE Operators \in SUBSET firms
  BY DEF Operators, IInv, FirmsTyped

\* Founding a company keeps the invariant, although it sets an overdraft.
LEMMA FoundCompanyStep ==
    ASSUME IInv, NEW p \in Residents, NEW c \in Companies, FoundCompany(p, c)
    PROVE  IInv'
<1> DEFINE capital == (balance[p] * 6) \div 10
           after   == [overdraft EXCEPT ![c] = capital \div 4]
           b       == Transfer(balance, overdraft, p, c, capital)
<1>0. p \in Accounts /\ c \in Accounts /\ MinCapital \in Nat
  BY EconomyAssumption DEF Accounts, Residents
<1>1. balance[p] \in Nat /\ overdraft[c] \in Nat
  BY <1>0 DEF IInv, BooksTyped, FoundCompany
<1>2. capital \in Nat /\ capital \in Int /\ capital \div 4 \in Nat
  <2>1. balance[p] * 6 \in Nat
    BY <1>1
  <2>2. capital \in Nat
    BY <2>1
  <2> HIDE DEF capital
  <2> QED
    BY <2>2
<1> HIDE DEF capital
<1>3. overdraft' = after /\ balance' = b /\ firms' = firms \cup {c}
  BY DEF FoundCompany, capital
<1>4. after \in [Accounts -> Nat]
  BY <1>0, <1>2 DEF IInv, BooksTyped
<1>5. /\ b \in [Accounts -> Int] /\ \A a \in Accounts : b[a] >= - overdraft[a]
      /\ \A a \in Accounts \ {p} : b[a] >= balance[a]
  BY <1>0, <1>2, TransferKeepsSolvent DEF IInv, BooksTyped, WithinOverdraft
<1> HIDE DEF b
<1>6. \A d \in Companies \ firms : b[d] >= 0
  <2>1. SUFFICES ASSUME NEW d \in Companies \ firms PROVE b[d] >= 0
    OBVIOUS
  <2>2. d \in Accounts \ {p}
    BY EconomyAssumption DEF Accounts, Residents
  <2>3. b[d] \in Int /\ balance[d] \in Int /\ b[d] >= balance[d] /\ balance[d] >= 0
    BY <1>5, <2>2 DEF IInv, BooksTyped, NotYetFounded
  <2> QED
    BY <2>3
<1>7. WithinOverdraft'
  <2>1. SUFFICES ASSUME NEW a \in Accounts PROVE b[a] >= - after[a]
    BY <1>3 DEF WithinOverdraft
  <2>2. CASE a = c
    <3>1. b[c] >= 0 /\ b[c] \in Int /\ after[c] \in Nat
      BY <1>0, <1>4, <1>5, <1>6 DEF FoundCompany
    <3> QED
      BY <2>2, <3>1
  <2>3. CASE a # c
    BY <1>5, <2>3
  <2> QED
    BY <2>2, <2>3
<1>8. NotYetFounded'
  BY <1>3, <1>6 DEF NotYetFounded
<1>9. BooksTyped'
  BY <1>3, <1>4, <1>5 DEF IInv, BooksTyped, FoundCompany, creditVars
<1>10. FirmsTyped'
  BY <1>3 DEF IInv, FirmsTyped, FoundCompany
<1>11. MarketTyped'
  BY DEF IInv, MarketTyped, FoundCompany, marketVars, settleVars
<1>12. LoopTyped' /\ PotKept'
  BY DEF IInv, LoopTyped, PotKept, FoundCompany, Done, Phases, clockVars
<1>13. BorrowersFounded'
  BY <1>3 DEF IInv, BorrowersFounded, FoundCompany, creditVars
<1> QED
  BY <1>7, <1>8, <1>9, <1>10, <1>11, <1>12, <1>13 DEF IInv

\* Most steps move money by at most one transfer and leave the overdrafts and
\* the list of companies alone: it is enough that the moved books are kept and
\* the rest is typed.
LEMMA OtherParts ==
    ASSUME IInv, overdraft' = overdraft, firms' = firms,
           balance' \in [Accounts -> Int], WithinOverdraft', NotYetFounded',
           loans' = loans, FirmsTyped', MarketTyped', LoopTyped', PotKept'
    PROVE  IInv'
<1>1. BooksTyped'
  BY DEF IInv, BooksTyped
<1>2. BorrowersFounded'
  BY DEF IInv, BorrowersFounded
<1> QED
  BY <1>1, <1>2 DEF IInv

\* A step that does not touch money.
LEMMA SameMoney ==
    ASSUME IInv, UNCHANGED moneyVars, firms' = firms
    PROVE  /\ balance' \in [Accounts -> Int] /\ overdraft' = overdraft
           /\ WithinOverdraft' /\ NotYetFounded'
  BY DEF IInv, BooksTyped, WithinOverdraft, NotYetFounded, moneyVars

\* Policies, wages, benefits, rents, taxes, what cohorts get and owe, and
\* research keep the invariant.
LEMMA AgentsAndInstitutionsStep ==
    ASSUME IInv,
           \/ EndAgents
           \/ \E p \in Cohorts : PayPublicWage(p)
           \/ \E k \in Policies : PayPolicy(k)
           \/ \E c \in Companies, p \in People : PayWage(c, p)
           \/ \E p \in People : PayBenefit(p)
           \/ \E h \in Households : PayRent(h)
           \/ \E c \in Companies, due \in Dues : CollectTax(c, due)
           \/ \E p \in Cohorts : SettleCohort(p)
           \/ \E c \in Companies, cost \in {0, Funding} : FundResearch(c, cost)
    PROVE  IInv'
<1>0. /\ Treasury \in Payers /\ Treasury \in Accounts /\ Escrow \in Accounts
      /\ People \subseteq Payers /\ People \subseteq Accounts
      /\ firms \subseteq Payers /\ firms \subseteq Accounts
      /\ Households \subseteq Payers
  BY DEF Payers, Accounts, Institutions, IInv, FirmsTyped
<1>1. CASE EndAgents
  <2>1. FirmsTyped' /\ MarketTyped'
    BY <1>1 DEF IInv, FirmsTyped, MarketTyped, EndAgents, firmVars, marketVars,
       settleVars
  <2>2. daily' \in BOOLEAN
    BY <1>1 DEF EndAgents
  <2>3. LoopTyped' /\ PotKept'
    BY <1>1, <2>2 DEF IInv, LoopTyped, PotKept, FirmsTyped, EndAgents, Enter,
       Phases, Pricing, firmVars, creditVars
  <2> QED
    BY <1>1, <2>1, <2>3, SameMoney, OtherParts DEF EndAgents, firmVars, creditVars
<1>2. ASSUME NEW k \in Policies, PayPolicy(k) PROVE IInv'
  <2> DEFINE cost == PolicyCost[k]
             b    == Transfer(balance, overdraft', Treasury, Escrow, cost)
  <2>1. cost \in Nat /\ cost \in Int
    BY EconomyAssumption
  <2>2. /\ overdraft' \in [Accounts -> Nat]
        /\ \A a \in Accounts : overdraft'[a] >= overdraft[a]
    BY <1>0, <1>2, <2>1 DEF PayPolicy, IInv, BooksTyped
  <2>3. \A a \in Accounts : balance[a] >= - overdraft'[a]
    <3>1. SUFFICES ASSUME NEW a \in Accounts PROVE balance[a] >= - overdraft'[a]
      OBVIOUS
    <3>2. /\ balance[a] \in Int /\ overdraft[a] \in Nat /\ overdraft'[a] \in Nat
          /\ overdraft'[a] >= overdraft[a] /\ balance[a] >= - overdraft[a]
      BY <2>2 DEF IInv, BooksTyped, WithinOverdraft
    <3> QED
      BY <3>2
  <2>4. /\ b \in [Accounts -> Int] /\ \A a \in Accounts : b[a] >= - overdraft'[a]
        /\ \A a \in Accounts \ {Treasury} : b[a] >= balance[a]
    BY <1>0, <2>1, <2>2, <2>3, TransferKeepsSolvent DEF IInv, BooksTyped
  <2>5. balance' = b
    BY <1>2 DEF PayPolicy
  <2> HIDE DEF b
  <2>6. NotYetFounded'
    <3>1. firms' = firms
      BY <1>2 DEF PayPolicy, firmVars
    <3>2. SUFFICES ASSUME NEW c \in Companies \ firms PROVE b[c] >= 0
      BY <2>5, <3>1 DEF NotYetFounded
    <3>3. c \in Accounts \ {Treasury}
      BY EconomyAssumption DEF Accounts, Institutions
    <3>4. b[c] \in Int /\ balance[c] \in Int /\ b[c] >= balance[c] /\ balance[c] >= 0
      BY <2>4, <3>3 DEF IInv, BooksTyped, NotYetFounded
    <3> QED
      BY <3>4
  <2>7. BooksTyped' /\ WithinOverdraft' /\ BorrowersFounded'
    BY <1>2, <2>2, <2>4, <2>5 DEF PayPolicy, IInv, BooksTyped, WithinOverdraft,
       BorrowersFounded, creditVars, firmVars
  <2>8. FirmsTyped' /\ MarketTyped' /\ LoopTyped' /\ PotKept'
    BY <1>2 DEF PayPolicy, Done, IInv, FirmsTyped, MarketTyped,
       LoopTyped, PotKept, firmVars, marketVars, settleVars, clockVars
  <2> QED
    BY <2>6, <2>7, <2>8 DEF IInv
<1>3. ASSUME NEW c \in Companies, NEW p \in People, PayWage(c, p) PROVE IInv'
  <2> DEFINE net == Wage - (Wage * TaxPct) \div 100
             b1  == Transfer(balance, overdraft, c, p, net)
             b2  == Transfer(b1, overdraft, c, Treasury, Wage - net)
  <2>1. c \in firms /\ c \in Accounts /\ c \in Payers /\ p \in Accounts
    BY <1>0, <1>3 DEF PayWage, IInv, LoopTyped
  <2>2. net \in Int /\ Wage - net \in Int
    <3>1. Wage \in Nat /\ TaxPct \in Nat
      BY EconomyAssumption
    <3>2. Wage * TaxPct \in Nat
      BY <3>1
    <3> QED
      BY <3>1, <3>2
  <2> HIDE DEF net
  <2>3. /\ b1 \in [Accounts -> Int] /\ \A a \in Accounts : b1[a] >= - overdraft[a]
        /\ \A a \in Accounts \ {c} : b1[a] >= balance[a]
    BY <2>1, <2>2, TransferKeepsSolvent DEF IInv, BooksTyped, WithinOverdraft
  <2> HIDE DEF b1
  <2>4. /\ b2 \in [Accounts -> Int] /\ \A a \in Accounts : b2[a] >= - overdraft[a]
        /\ \A a \in Accounts \ {c} : b2[a] >= b1[a]
    BY <1>0, <2>1, <2>2, <2>3, TransferKeepsSolvent DEF IInv, BooksTyped
  <2> HIDE DEF b2
  <2>5. \A a \in Accounts \ {c} : b2[a] >= balance[a]
    <3>1. SUFFICES ASSUME NEW a \in Accounts \ {c} PROVE b2[a] >= balance[a]
      OBVIOUS
    <3>2. b2[a] \in Int /\ b1[a] \in Int /\ balance[a] \in Int
      BY <2>3, <2>4 DEF IInv, BooksTyped
    <3> QED
      BY <2>3, <2>4, <3>2
  <2>6. balance' = b2 \/ balance' = balance
    BY <1>3 DEF PayWage, net, b1, b2
  <2>7. overdraft' = overdraft /\ firms' = firms /\ loans' = loans
    BY <1>3 DEF PayWage, firmVars, creditVars
  <2>8. balance' \in [Accounts -> Int] /\ WithinOverdraft' /\ NotYetFounded'
    <3>1. CASE balance' = b2
      BY <2>1, <2>4, <2>5, <2>7, <3>1, PaymentKeeps
    <3>2. CASE balance' = balance
      BY <2>7, <3>2, SameMoney DEF moneyVars
    <3> QED
      BY <2>6, <3>1, <3>2
  <2>9. FirmsTyped' /\ MarketTyped'
    BY <1>3 DEF PayWage, IInv, FirmsTyped, MarketTyped, firmVars, marketVars, settleVars
  <2>10. phase' = "payroll" /\ todo' \in SUBSET todo /\ firms' = firms
    BY <1>3 DEF PayWage, firmVars
  <2>11. LoopTyped' /\ PotKept'
    BY <1>3, <2>10 DEF PayWage, IInv, LoopTyped, PotKept, Phases, clockVars
  <2> QED
    BY <2>7, <2>8, <2>9, <2>11, OtherParts
<1>4. ASSUME NEW p \in People, PayBenefit(p) PROVE IInv'
  <2>1. Welfare \in Int
    BY EconomyAssumption
  <2>2. balance' \in [Accounts -> Int] /\ WithinOverdraft' /\ NotYetFounded'
    BY <1>0, <1>4, <2>1, TransferKeeps DEF PayBenefit, firmVars
  <2>3. FirmsTyped' /\ MarketTyped' /\ LoopTyped' /\ PotKept'
    BY <1>4 DEF PayBenefit, Done, IInv, FirmsTyped, MarketTyped, LoopTyped, PotKept,
       firmVars, marketVars, settleVars, clockVars
  <2> QED
    BY <1>4, <2>2, <2>3, OtherParts DEF PayBenefit, firmVars, creditVars
<1>5. ASSUME NEW c \in Companies, NEW due \in Dues, CollectTax(c, due) PROVE IInv'
  <2>1. due \in Int /\ c \in Payers
    BY <1>0, <1>5, EconomyAssumption DEF CollectTax, IsNext, IInv, LoopTyped
  <2>2. balance' \in [Accounts -> Int] /\ WithinOverdraft' /\ NotYetFounded'
    BY <1>0, <1>5, <2>1, TransferKeeps DEF CollectTax, firmVars
  <2>3. FirmsTyped' /\ MarketTyped' /\ LoopTyped' /\ PotKept'
    BY <1>5 DEF CollectTax, Done, IInv, FirmsTyped, MarketTyped, LoopTyped, PotKept,
       firmVars, marketVars, settleVars, clockVars
  <2> QED
    BY <1>5, <2>2, <2>3, OtherParts DEF CollectTax, firmVars, creditVars
<1>6. ASSUME NEW h \in Households, PayRent(h) PROVE IInv'
  <2>1. Rent \in Int
    BY EconomyAssumption
  <2>2. balance' \in [Accounts -> Int] /\ WithinOverdraft' /\ NotYetFounded'
    BY <1>0, <1>6, <2>1, TransferKeeps DEF PayRent, firmVars
  <2>3. FirmsTyped' /\ MarketTyped' /\ LoopTyped' /\ PotKept'
    BY <1>6 DEF PayRent, Done, IInv, FirmsTyped, MarketTyped, LoopTyped, PotKept,
       firmVars, marketVars, settleVars, clockVars
  <2> QED
    BY <1>6, <2>2, <2>3, OtherParts DEF PayRent, firmVars, creditVars
<1>7. ASSUME NEW p \in Cohorts, SettleCohort(p) PROVE IInv'
  <2> DEFINE granted == Transfer(balance, overdraft, Treasury, p, Welfare)
             b       == Transfer(granted, overdraft, p, Escrow, Rent)
  <2>1. /\ p \in Accounts /\ p \in Payers /\ Welfare \in Int /\ Rent \in Int
        /\ overdraft' = overdraft /\ firms' = firms /\ loans' = loans
    BY <1>0, <1>7, EconomyAssumption DEF SettleCohort, firmVars, creditVars
  <2>2. /\ granted \in [Accounts -> Int]
        /\ \A a \in Accounts : granted[a] >= - overdraft[a]
        /\ \A a \in Accounts \ {Treasury} : granted[a] >= balance[a]
    BY <1>0, <2>1, TransferKeepsSolvent DEF IInv, BooksTyped, WithinOverdraft
  <2> HIDE DEF granted
  <2>3. /\ b \in [Accounts -> Int] /\ \A a \in Accounts : b[a] >= - overdraft[a]
        /\ \A a \in Accounts \ {p} : b[a] >= granted[a]
    BY <1>0, <2>1, <2>2, TransferKeepsSolvent DEF IInv, BooksTyped
  <2>4. balance' = b
    BY <1>7 DEF SettleCohort, granted
  <2> HIDE DEF b
  <2>5. NotYetFounded'
    <3>1. SUFFICES ASSUME NEW c \in Companies \ firms PROVE b[c] >= 0
      BY <2>1, <2>4 DEF NotYetFounded
    <3>2. c \in Accounts \ {Treasury, p}
      BY EconomyAssumption DEF Accounts, Institutions
    <3>3. /\ b[c] \in Int /\ granted[c] \in Int /\ balance[c] \in Int
          /\ b[c] >= granted[c] /\ granted[c] >= balance[c] /\ balance[c] >= 0
      BY <2>2, <2>3, <3>2 DEF IInv, BooksTyped, NotYetFounded
    <3> QED
      BY <3>3
  <2>6. WithinOverdraft'
    BY <2>1, <2>3, <2>4 DEF WithinOverdraft
  <2>7. FirmsTyped' /\ MarketTyped' /\ LoopTyped' /\ PotKept'
    BY <1>7 DEF SettleCohort, Done, IInv, FirmsTyped, MarketTyped, LoopTyped, PotKept,
       firmVars, marketVars, settleVars, clockVars
  <2> QED
    BY <2>1, <2>3, <2>4, <2>5, <2>6, <2>7, OtherParts
<1>8. ASSUME NEW c \in Companies, NEW cost \in {0, Funding}, FundResearch(c, cost)
      PROVE  IInv'
  <2>1. cost \in Int /\ c \in Payers
    BY <1>0, <1>8, EconomyAssumption DEF FundResearch, IsNext, IInv, LoopTyped
  <2>2. balance' \in [Accounts -> Int] /\ WithinOverdraft' /\ NotYetFounded'
    BY <1>0, <1>8, <2>1, TransferKeeps DEF FundResearch, firmVars
  <2>3. FirmsTyped' /\ MarketTyped' /\ LoopTyped' /\ PotKept'
    BY <1>8 DEF FundResearch, Done, IInv, FirmsTyped, MarketTyped, LoopTyped, PotKept,
       firmVars, marketVars, settleVars, clockVars
  <2> QED
    BY <1>8, <2>2, <2>3, OtherParts DEF FundResearch, firmVars, creditVars
<1>9. ASSUME NEW p \in Cohorts, PayPublicWage(p) PROVE IInv'
  <2> DEFINE net == PublicPay[p] - (PublicPay[p] * TaxPct) \div 100
  <2>1. net \in Int /\ p \in Accounts
    <3>1. PublicPay[p] \in Nat /\ TaxPct \in Nat
      BY EconomyAssumption
    <3>2. PublicPay[p] * TaxPct \in Nat
      BY <3>1
    <3>3. p \in Accounts
      BY <1>0, EconomyAssumption
    <3> QED
      BY <3>1, <3>2, <3>3
  <2>2. /\ balance' = Transfer(balance, overdraft, Treasury, p, net)
        /\ overdraft' = overdraft /\ firms' = firms
    BY <1>9 DEF PayPublicWage, firmVars
  <2>3. todo' \in SUBSET todo
    BY <1>9 DEF PayPublicWage
  <2> HIDE DEF net
  <2>4. balance' \in [Accounts -> Int] /\ WithinOverdraft' /\ NotYetFounded'
    BY <1>0, <2>1, <2>2, TransferKeeps
  <2>5. FirmsTyped' /\ MarketTyped' /\ PotKept' /\ LoopTyped'
    BY <1>9, <2>3 DEF PayPublicWage, IInv, FirmsTyped, MarketTyped, LoopTyped,
       PotKept, firmVars, marketVars, settleVars, clockVars, creditVars
  <2> QED
    BY <1>9, <2>2, <2>4, <2>5, OtherParts DEF PayPublicWage, firmVars, creditVars
<1> QED
  BY <1>1, <1>2, <1>3, <1>4, <1>5, <1>6, <1>7, <1>8, <1>9

\* A day's wages are an amount: the staff is finite.
LEMMA WageBillType ==
    ASSUME IInv, NEW c \in Companies
    PROVE  WageBill(c) \in Nat
<1>1. IsFiniteSet(staff[c])
  <2>1. staff[c] \subseteq People
    BY DEF IInv, FirmsTyped
  <2> QED
    BY <2>1, EconomyAssumption, FS_Subset
<1>2. Cardinality(staff[c]) \in Nat /\ Wage \in Nat
  BY <1>1, FS_CardinalityType, EconomyAssumption
<1>3. Wage * Cardinality(staff[c]) \in Nat
  BY <1>2
<1> QED
  BY <1>3 DEF WageBill, Larger

\* Board meetings: whatever is decided, whoever is kept.
LEMMA DecisionStep ==
    ASSUME IInv, NEW c \in Companies, NEW kept \in Kept(c),
           CutCosts(c, kept) \/ Borrow(c, kept) \/ Invest(c, kept)
    PROVE  IInv'
<1>0. /\ c \in firms /\ c \in Payers /\ firms' = firms
      /\ Bank \in Payers /\ Bank \in Accounts /\ c \in Accounts
  BY DEF CutCosts, Borrow, Invest, IsNext, IInv, LoopTyped, Payers, Accounts,
     Institutions
<1>1. FirmsTyped'
  BY <1>0, CloseBooksType DEF CutCosts, Borrow, Invest
<1>3. CASE CutCosts(c, kept)
  <2>1. MarketTyped' /\ LoopTyped' /\ PotKept'
    BY <1>0, <1>3 DEF CutCosts, Done, IInv, MarketTyped, LoopTyped, PotKept,
       marketVars, settleVars, clockVars
  <2> QED
    BY <1>0, <1>1, <1>3, <2>1, SameMoney, OtherParts DEF CutCosts, creditVars
<1>4. CASE Borrow(c, kept)
  <2> DEFINE amount == WageBill(c) * BorrowDays
             loan   == [borrower |-> c, outstanding |-> amount,
                        payment |-> amount \div Payments, missed |-> 0,
                        defaulted |-> FALSE, due |-> pass + 1]
  <2>1. /\ loans' = Append(loans, loan)
        /\ balance' = Transfer(balance, overdraft, Bank, c, amount)
        /\ balance[Bank] >= amount /\ amount > 0
    BY <1>4 DEF Borrow
  <2>2. amount \in Nat
    <3>1. WageBill(c) \in Int
      BY WageBillType
    <3>2. BorrowDays \in Nat
      BY EconomyAssumption
    <3>3. amount \in Int
      BY <3>1, <3>2
    <3> HIDE DEF amount
    <3> QED
      BY <2>1, <3>3
  <2>3. loan \in Loan
    <3>1. amount \div Payments \in Nat
      <4>1. Payments \in Nat \ {0}
        BY EconomyAssumption
      <4> HIDE DEF amount
      <4> QED
        BY <2>2, <4>1
    <3>2. pass + 1 \in Nat /\ FALSE \in BOOLEAN
      BY DEF IInv, LoopTyped
    <3> HIDE DEF amount
    <3> QED
      BY <2>2, <3>1, <3>2 DEF Loan
  <2>4. balance' \in [Accounts -> Int] /\ WithinOverdraft' /\ NotYetFounded'
        /\ overdraft' \in [Accounts -> Nat]
    <3>1. amount \in Int
      BY <2>2
    <3>2. overdraft' = overdraft
      BY <1>4 DEF Borrow
    <3> HIDE DEF amount
    <3> QED
      BY <1>0, <2>1, <3>1, <3>2, TransferKeeps
  <2>5. loans' \in Seq(Loan) /\ loan.borrower = c
    <3>1. loan.borrower = c
      OBVIOUS
    <3> HIDE DEF loan
    <3> QED
      BY <2>1, <2>3, <3>1, AppendProperties DEF IInv, BooksTyped
  <2> HIDE DEF loan
  <2>6. BorrowersFounded'
    <3>1. SUFFICES ASSUME NEW i \in DOMAIN loans' PROVE loans'[i].borrower \in firms
      BY <1>0 DEF BorrowersFounded
    <3>2. loans \in Seq(Loan)
      BY DEF IInv, BooksTyped
    <3>3. CASE i = Len(loans) + 1
      BY <1>0, <2>1, <2>5, <3>2, <3>3, AppendProperties
    <3>4. CASE i # Len(loans) + 1
      <4>1. i \in DOMAIN loans /\ loans'[i] = loans[i]
        BY <2>1, <2>3, <3>2, <3>4, AppendProperties
      <4> QED
        BY <4>1 DEF IInv, BorrowersFounded
    <3> QED
      BY <3>3, <3>4
  <2>7. MarketTyped' /\ LoopTyped' /\ PotKept'
    BY <1>0, <1>4 DEF Borrow, Done, IInv, MarketTyped, LoopTyped, PotKept,
       marketVars, settleVars, clockVars
  <2> QED
    BY <1>1, <2>4, <2>5, <2>6, <2>7 DEF IInv, BooksTyped
<1>5. CASE Invest(c, kept)
  <2> DEFINE spend == balance[c] \div InvestPart
             units == spend \div Larger(1, price[Input[c]])
  <2>1. Input[c] \in Goods
    BY EconomyAssumption
  <2>2. balance[c] \in Nat
    <3>1. RunwayDays * WageBill(c) \in Nat
      BY WageBillType, EconomyAssumption
    <3>2. ~(balance[c] < RunwayDays * WageBill(c))
      <4>1. Strategy(c, "fat") = "invest" /\ "invest" # "cost_cut"
        BY <1>5 DEF Invest
      <4>2. balance[c] < RunwayDays * WageBill(c) => Strategy(c, "fat") = "cost_cut"
        BY DEF Strategy
      <4> QED
        BY <4>1, <4>2
    <3> QED
      BY <1>0, <3>1, <3>2 DEF IInv, BooksTyped
  <2>3. units \in Nat
    <3>1. spend \in Nat
      <4>1. InvestPart \in Nat /\ InvestPart > 0
        BY EconomyAssumption
      <4> QED
        BY <2>2, <4>1
    <3>2. Larger(1, price[Input[c]]) \in Nat \ {0}
      BY <2>1 DEF IInv, MarketTyped, Larger
    <3> HIDE DEF spend
    <3> QED
      BY <3>1, <3>2
  <2>4. Purchase(c, Input[c], units, 0, TRUE) /\ overdraft' = overdraft
    BY <1>5 DEF Invest
  <2> HIDE DEF units
  <2>5. /\ balance' \in [Accounts -> Int] /\ WithinOverdraft' /\ NotYetFounded'
        /\ demand' \in [Goods -> Nat] /\ inventory' \in [Goods -> Nat]
    BY <1>0, <2>1, <2>3, <2>4, PurchaseKeeps
  <2>6. MarketTyped' /\ LoopTyped' /\ PotKept'
    BY <1>0, <1>5, <2>5 DEF Invest, Done, IInv, MarketTyped, LoopTyped, PotKept,
       creditVars, settleVars, clockVars
  <2> QED
    BY <1>0, <1>1, <1>5, <2>4, <2>5, <2>6, OtherParts DEF Invest, creditVars
<1> QED
  BY <1>3, <1>4, <1>5

\* What the city orders is a quantity of a good, also when the treasury is
\* overdrawn.
LEMMA PublicOrdersTyped ==
    IInv => PublicOrders \in SUBSET [good : Goods, quantity : Nat]
<1> SUFFICES ASSUME IInv PROVE PublicOrders \in SUBSET [good : Goods, quantity : Nat]
  OBVIOUS
<1> DEFINE budget == Larger(0, (balance[Treasury] * ProcurementPct) \div 100)
<1>1. budget \in Nat
  <2>1. balance[Treasury] \in Int /\ ProcurementPct \in Nat
    BY EconomyAssumption DEF IInv, BooksTyped, Accounts, Institutions
  <2>2. balance[Treasury] * ProcurementPct \in Int
    BY <2>1
  <2>3. (balance[Treasury] * ProcurementPct) \div 100 \in Int
    BY <2>2
  <2> QED
    BY <2>3 DEF Larger
<1> HIDE DEF budget
<1>2. ASSUME NEW g \in Procured
      PROVE  g \in Goods /\ (budget * ProcureShare[g]) \div (100 * price[g]) \in Nat
  <2>1. g \in Goods /\ ProcureShare[g] \in Nat /\ price[g] \in Nat \ {0}
    BY EconomyAssumption DEF IInv, MarketTyped
  <2>2. budget * ProcureShare[g] \in Nat /\ 100 * price[g] \in Nat \ {0}
    BY <1>1, <2>1
  <2> QED
    BY <2>1, <2>2
<1>3. PublicOrders
        = {[good |-> g, quantity |-> (budget * ProcureShare[g]) \div (100 * price[g])]
              : g \in Procured}
  BY DEF PublicOrders, budget
<1> QED
  BY <1>2, <1>3

\* Steps of the mains, the market, the labour market and the end of a system or
\* of an hour that move no money.
LEMMA NoMoneyStep ==
    ASSUME IInv,
           \/ \E output \in [Utilities -> Outputs] : FillMains(output)
           \/ \E c \in Companies : Weigh(c)
           \/ StartPaying
           \/ EndPaying
           \/ CloseMarkets
           \/ \E p \in People, c \in Companies : Hire(p, c)
           \/ \E p \in People : NoJob(p)
           \/ \E i \in DOMAIN loans : SkipLoan(i)
           \/ EndHour
           \/ NextSystem
    PROVE  IInv'
<1>1. ASSUME NEW c \in Companies, Weigh(c) PROVE IInv'
  <2>1. supplied[c] * price[Product[c]] \in Nat
    <3>1. Product[c] \in Goods
      BY EconomyAssumption
    <3>2. supplied[c] \in Nat /\ price[Product[c]] \in Nat
      BY <3>1 DEF IInv, MarketTyped
    <3> QED
      BY <3>2
  <2>2. MarketTyped'
    <3> DEFINE value == supplied[c] * price[Product[c]]
    <3>1. /\ weights' = [weights EXCEPT ![c] = value] /\ weight' = weight + value
          /\ UNCHANGED <<inventory, demand, price, supplied, pot>>
      BY <1>1 DEF Weigh, marketVars
    <3> HIDE DEF value
    <3>2. value \in Nat
      BY <2>1 DEF value
    <3> QED
      BY <3>1, <3>2 DEF IInv, MarketTyped
  <2>3. FirmsTyped' /\ LoopTyped' /\ PotKept'
    BY <1>1 DEF Weigh, Done, IInv, FirmsTyped, LoopTyped, PotKept, firmVars, clockVars
  <2> QED
    BY <1>1, <2>2, <2>3, SameMoney, OtherParts DEF Weigh, firmVars, creditVars
<1>2. CASE StartPaying
  <2>1. MarketTyped' /\ FirmsTyped' /\ LoopTyped' /\ PotKept'
    <3>1. FirmsTyped'
      BY <1>2 DEF StartPaying, IInv, FirmsTyped, firmVars
    <3>2. CASE balance[Escrow] =< 0 \/ weight = 0
      BY <1>2, <3>2 DEF StartPaying, Forget, Enter, Phases, Pricing, IInv, FirmsTyped,
         MarketTyped, LoopTyped, PotKept, firmVars, marketVars, clockVars
    <3>3. CASE ~(balance[Escrow] =< 0 \/ weight = 0)
      <4>1. balance[Escrow] \in Nat /\ weight \in Nat /\ weight # 0
        BY <3>3 DEF IInv, BooksTyped, MarketTyped, Accounts, Institutions
      <4>2. MarketTyped' /\ PotKept'
        BY <1>2, <3>3, <4>1 DEF StartPaying, IInv, MarketTyped, PotKept, marketVars
      <4>3. LoopTyped'
        BY <1>2, <3>3 DEF StartPaying, Enter, Phases, Pricing, IInv, LoopTyped,
           firmVars, clockVars
      <4> QED
        BY <3>1, <4>2, <4>3
    <3> QED
      BY <3>1, <3>2, <3>3
  <2> QED
    BY <1>2, <2>1, SameMoney, OtherParts DEF StartPaying, firmVars, creditVars
<1>3. CASE EndPaying
  <2>1. MarketTyped' /\ FirmsTyped' /\ LoopTyped' /\ PotKept'
    BY <1>3 DEF EndPaying, Forget, Enter, Phases, Pricing, IInv, FirmsTyped,
       MarketTyped,
       LoopTyped, PotKept, firmVars, marketVars, clockVars
  <2> QED
    BY <1>3, <2>1, SameMoney, OtherParts DEF EndPaying, firmVars, creditVars
<1>4. CASE CloseMarkets
  <2>1. MarketTyped' /\ FirmsTyped' /\ PotKept'
    BY <1>4 DEF CloseMarkets, Enter, Pricing, IInv, FirmsTyped, MarketTyped, PotKept,
       firmVars, settleVars
  <2>2. LoopTyped'
    BY <1>4 DEF CloseMarkets, Enter, Makers, Active, Phases, Pricing, IInv,
       FirmsTyped, LoopTyped, firmVars, clockVars
  <2> QED
    BY <1>4, <2>1, <2>2, SameMoney, OtherParts DEF CloseMarkets, firmVars, creditVars
<1>5. ASSUME NEW p \in People, NEW c \in Companies, Hire(p, c) PROVE IInv'
  <2>1. FirmsTyped' /\ MarketTyped'
    BY <1>5 DEF Hire, IInv, FirmsTyped, MarketTyped, marketVars, settleVars
  <2>2. LoopTyped' /\ PotKept'
    BY <1>5 DEF Hire, Done, IInv, LoopTyped, PotKept, clockVars
  <2> QED
    BY <1>5, <2>1, <2>2, SameMoney, OtherParts DEF Hire, creditVars
<1>6. ASSUME NEW p \in People, NoJob(p) PROVE IInv'
  <2>1. FirmsTyped' /\ MarketTyped' /\ LoopTyped' /\ PotKept'
    BY <1>6 DEF NoJob, Done, IInv, FirmsTyped, MarketTyped, LoopTyped, PotKept,
       firmVars, marketVars, settleVars, clockVars
  <2> QED
    BY <1>6, <2>1, SameMoney, OtherParts DEF NoJob, firmVars, creditVars
<1>7. ASSUME NEW i \in DOMAIN loans, SkipLoan(i) PROVE IInv'
  <2>1. FirmsTyped' /\ MarketTyped' /\ LoopTyped' /\ PotKept'
    BY <1>7 DEF SkipLoan, Done, IInv, FirmsTyped, MarketTyped, LoopTyped, PotKept,
       firmVars, marketVars, settleVars, clockVars, creditVars
  <2> QED
    BY <1>7, <2>1, SameMoney, OtherParts DEF SkipLoan, firmVars, creditVars
<1>8. CASE NextSystem
  <2>1. FirmsTyped' /\ MarketTyped'
    BY <1>8 DEF NextSystem, IInv, FirmsTyped, MarketTyped, firmVars, marketVars,
       settleVars
  <2>2. UNCHANGED <<firms, staff, jobless, loans, daily, pass, weight>>
    BY <1>8 DEF NextSystem, firmVars, creditVars, clockVars, settleVars
  <2>3. /\ Active \in SUBSET firms /\ jobless \in SUBSET People
        /\ daily \in BOOLEAN /\ pass \in Nat
    BY DEF Active, IInv, FirmsTyped, LoopTyped
  <2>4. {d \in Active \X People : d[2] \in staff[d[1]]} \in SUBSET (firms \X People)
    BY <2>3
  <2>5. \/ phase' = "payroll" /\ todo' \in SUBSET (firms \X People)
        \/ phase' = "benefits" /\ todo' \in SUBSET People
        \/ phase' = "taxes" /\ todo' \in SUBSET firms
        \/ phase' = "weigh" /\ todo' \in SUBSET firms
        \/ phase' = "banking" /\ todo' \in SUBSET DOMAIN loans
        \/ phase' = "production" /\ todo' \in SUBSET firms
        \/ phase' \in {"housing", "households"} /\ todo' \in SUBSET Households
        \/ phase' = "cohorts" /\ todo' \in SUBSET Cohorts
        \/ phase' = "settlement" /\ todo' \in SUBSET (Cohorts \X {"dues", "rest"})
        \/ phase' = "research" /\ todo' \in SUBSET firms
        \/ phase' = "decisions" /\ todo' \in SUBSET firms
        \/ phase' = "policies" /\ todo' \in SUBSET Policies
        \/ /\ phase' = "procurement"
           /\ todo' \in SUBSET [good : Goods, quantity : Nat]
    BY <1>8, <2>3, <2>4, PublicOrdersTyped DEF NextSystem, Enter, Makers
  <2>6. LoopTyped'
    BY <2>2, <2>3, <2>5 DEF LoopTyped, Phases, Pricing
  <2>7. PotKept'
    BY <2>5 DEF PotKept
  <2> QED
    BY <1>8, <2>1, <2>2, <2>6, <2>7, SameMoney, OtherParts DEF NextSystem
<1>9. CASE EndHour
  <2>1. FirmsTyped' /\ MarketTyped'
    BY <1>9 DEF EndHour, IInv, FirmsTyped, MarketTyped, firmVars, marketVars, settleVars
  <2>2. Operators \in SUBSET firms
    BY OperatorsFounded
  <2>3. LoopTyped' /\ PotKept'
    BY <1>9, <2>2 DEF EndHour, Enter, Phases, Pricing, IInv, LoopTyped, PotKept,
       firmVars
  <2> QED
    BY <1>9, <2>1, <2>3, SameMoney, OtherParts DEF EndHour, firmVars, creditVars
<1>10. ASSUME NEW output \in [Utilities -> Outputs], FillMains(output) PROVE IInv'
  <2>1. inventory' \in [Goods -> Nat]
    BY <1>10, EconomyAssumption DEF FillMains, IInv, MarketTyped
  <2>2. FirmsTyped' /\ MarketTyped'
    BY <1>10, <2>1 DEF FillMains, IInv, FirmsTyped, MarketTyped, firmVars, settleVars
  <2>3. LoopTyped' /\ PotKept'
    BY <1>10 DEF FillMains, Enter, Phases, Pricing, IInv, LoopTyped, PotKept, clockVars
  <2> QED
    BY <1>10, <2>2, <2>3, SameMoney, OtherParts DEF FillMains, firmVars, creditVars
<1> QED
  BY <1>1, <1>2, <1>3, <1>4, <1>5, <1>6, <1>7, <1>8, <1>9, <1>10

\* What is left of a stock is a part of it.
LEMMA StockTyped ==
    ASSUME IInv, NEW g \in Goods
    PROVE  /\ inventory[g] \in Nat
           /\ Unspoilt(g) \in Nat /\ Unspoilt(g) =< inventory[g]
<1>1. inventory[g] \in Nat /\ Perishable[g] \in 0..100
  BY EconomyAssumption DEF IInv, MarketTyped
<1>2. 100 - Perishable[g] \in 0..100
  BY <1>1
<1>3. /\ inventory[g] * (100 - Perishable[g]) \in Nat
      /\ inventory[g] * (100 - Perishable[g]) =< inventory[g] * 100
  <2> DEFINE kept == 100 - Perishable[g]
  <2>1. kept \in Nat /\ kept =< 100
    BY <1>2
  <2> HIDE DEF kept
  <2>2. inventory[g] * kept \in Nat /\ inventory[g] * kept =< inventory[g] * 100
    BY <1>1, <2>1
  <2> QED
    BY <2>2 DEF kept
<1> QED
  BY <1>1, <1>3 DEF Unspoilt

\* Producers are paid out of the escrow, and exports by the outside world.
LEMMA SettlementStep ==
    ASSUME IInv,
           \/ \E c \in Companies : PayProducer(c)
           \/ \E g \in Goods, newPrice \in Prices : SetPrice(g, newPrice)
    PROVE  IInv'
<1>0. /\ Escrow \in Payers /\ External \in Payers /\ Escrow \in Accounts
      /\ Companies \subseteq Accounts
  BY DEF Payers, Accounts, Institutions
<1>1. ASSUME NEW c \in Companies, PayProducer(c) PROVE IInv'
  <2>1. Share(c) \in Int
    <3>1. pot \in Nat /\ weights[c] \in Nat /\ weight \in Nat \ {0}
      BY <1>1 DEF PayProducer, IInv, MarketTyped, PotKept
    <3>2. pot * weights[c] \in Nat
      BY <3>1
    <3> QED
      BY <3>1, <3>2 DEF Share
  <2>2. balance' \in [Accounts -> Int] /\ WithinOverdraft' /\ NotYetFounded'
    BY <1>0, <1>1, <2>1, TransferKeeps DEF PayProducer, firmVars
  <2>3. FirmsTyped' /\ MarketTyped' /\ LoopTyped' /\ PotKept'
    BY <1>1 DEF PayProducer, Done, IInv, FirmsTyped, MarketTyped, LoopTyped,
       PotKept, firmVars, marketVars, clockVars
  <2> QED
    BY <1>1, <2>2, <2>3, OtherParts DEF PayProducer, firmVars, creditVars
<1>2. ASSUME NEW g \in Goods, NEW newPrice \in Prices, SetPrice(g, newPrice)
      PROVE  IInv'
  <2> DEFINE stock == IF phase = "dawn" THEN Unspoilt(g) ELSE inventory[g]
             units == Surplus(g, stock)
             value == ExportValue(units, newPrice)
  <2>1. /\ demand[g] \in Nat /\ ExportCover \in Nat
        /\ ExportPct \in Nat /\ newPrice \in Nat \ {0}
    BY EconomyAssumption DEF IInv, MarketTyped
  <2>2. ExportCover * demand[g] \in Nat
    BY <2>1
  <2>3. stock \in Nat
    BY StockTyped
  <2>4. value \in Int /\ units \in Nat /\ units =< stock
    <3> HIDE DEF stock
    <3>1. units \in Nat /\ units =< stock
      BY <2>1, <2>2, <2>3 DEF Surplus, Smaller
    <3> HIDE DEF units
    <3>2. units * newPrice \in Nat
      BY <2>1, <3>1
    <3>3. units * newPrice * ExportPct \in Nat
      BY <2>1, <3>2
    <3> QED
      BY <3>1, <3>3 DEF ExportValue
  <2>5. /\ balance' = Transfer(balance, overdraft, External, Escrow, value)
        /\ overdraft' = overdraft /\ firms' = firms
    BY <1>2 DEF SetPrice, firmVars
  <2>6. \/ inventory' = [inventory EXCEPT ![g] = stock - units]
        \/ inventory' = [inventory EXCEPT ![g] = stock]
    BY <1>2 DEF SetPrice
  <2> HIDE DEF value, units, stock
  <2>7. balance' \in [Accounts -> Int] /\ WithinOverdraft' /\ NotYetFounded'
    BY <1>0, <2>4, <2>5, TransferKeeps
  <2>8. inventory' \in [Goods -> Nat]
    <3>1. stock - units \in Nat
      BY <2>3, <2>4
    <3> QED
      BY <2>3, <2>6, <3>1 DEF IInv, MarketTyped
  <2>9. MarketTyped'
    BY <1>2, <2>1, <2>8 DEF SetPrice, IInv, MarketTyped, settleVars
  <2>10. FirmsTyped' /\ LoopTyped' /\ PotKept'
    BY <1>2 DEF SetPrice, Done, IInv, FirmsTyped, LoopTyped, PotKept, Pricing,
       firmVars, creditVars, settleVars, clockVars
  <2> QED
    BY <1>2, <2>5, <2>7, <2>9, <2>10, OtherParts DEF SetPrice, creditVars
<1> QED
  BY <1>1, <1>2

\* An instalment is an amount, and the loan after it is a loan.
LEMMA LoanType ==
    ASSUME IInv, NEW loan \in Loan
    PROVE  /\ Instalment(loan) \in Int
           /\ PaidLoan(loan) \in Loan /\ MissedLoan(loan) \in Loan
           /\ PaidLoan(loan).borrower = loan.borrower
           /\ MissedLoan(loan).borrower = loan.borrower
<1> DEFINE interest == (loan.outstanding * InterestPct) \div 100
<1>1. /\ loan.borrower \in Companies /\ loan.outstanding \in Nat
      /\ loan.payment \in Nat /\ loan.missed \in Nat
      /\ loan.defaulted \in BOOLEAN /\ loan.due \in Nat
  BY DEF Loan
<1>2. interest \in Nat
  <2>1. loan.outstanding * InterestPct \in Nat
    BY <1>1, EconomyAssumption
  <2> QED
    BY <2>1
<1>3. Instalment(loan) = Smaller(loan.outstanding + interest,
                                 Larger(loan.payment, interest))
  BY DEF Instalment
<1>4. PaidLoan(loan) =
        [borrower    |-> loan.borrower,
         outstanding |-> Larger(0, loan.outstanding + interest - Instalment(loan)),
         payment     |-> loan.payment,
         missed      |-> 0,
         defaulted   |-> loan.defaulted,
         due         |-> pass + 1]
  BY DEF PaidLoan
<1> HIDE DEF interest
<1>5. Instalment(loan) \in Int
  BY <1>1, <1>2, <1>3 DEF Smaller, Larger
<1>6. pass + 1 \in Nat
  BY DEF IInv, LoopTyped
<1>7. Larger(0, loan.outstanding + interest - Instalment(loan)) \in Nat
  BY <1>1, <1>2, <1>5 DEF Larger
<1>8. PaidLoan(loan) \in Loan /\ PaidLoan(loan).borrower = loan.borrower
  BY <1>1, <1>4, <1>6, <1>7 DEF Loan
<1>9. (loan.missed + 1 >= DefaultAfter) \in BOOLEAN
  OBVIOUS
<1>10. MissedLoan(loan) \in Loan /\ MissedLoan(loan).borrower = loan.borrower
  BY <1>1, <1>6, <1>9 DEF MissedLoan, Loan
<1> QED
  BY <1>5, <1>8, <1>10

\* A loan is serviced: the borrower pays the bank or misses the payment.
LEMMA ServiceLoanStep ==
    ASSUME IInv, NEW i \in DOMAIN loans, ServiceLoan(i)
    PROVE  IInv'
<1> DEFINE loan == loans[i]
<1>1. loans \in Seq(Loan) /\ loan \in Loan /\ loan.borrower \in firms
  BY DEF IInv, BooksTyped, BorrowersFounded
<1>2. PICK after \in {PaidLoan(loan), MissedLoan(loan)} :
        loans' = [loans EXCEPT ![i] = after]
  BY DEF ServiceLoan
<1>3. /\ balance' = Transfer(balance, overdraft, loan.borrower, Bank, Instalment(loan))
      /\ overdraft' = overdraft /\ firms' = firms
  BY DEF ServiceLoan, firmVars
<1> HIDE DEF loan
<1>4. after \in Loan /\ after.borrower \in firms /\ Instalment(loan) \in Int
  BY <1>1, <1>2, LoanType
<1>5. loans' \in Seq(Loan) /\ DOMAIN loans' = DOMAIN loans
  BY <1>1, <1>2, <1>4, ExceptSeq
<1>6. /\ balance' \in [Accounts -> Int] /\ overdraft' \in [Accounts -> Nat]
      /\ WithinOverdraft' /\ NotYetFounded'
  <2>1. loan.borrower \in Payers /\ Bank \in Accounts
    BY <1>1 DEF Payers, Accounts, Institutions
  <2> QED
    BY <1>3, <1>4, <2>1, TransferKeeps
<1>7. BorrowersFounded'
  BY <1>1, <1>2, <1>3, <1>4 DEF IInv, BorrowersFounded
<1>8. FirmsTyped' /\ MarketTyped' /\ PotKept'
  BY DEF ServiceLoan, Done, IInv, FirmsTyped, MarketTyped, PotKept, firmVars,
     marketVars, settleVars
<1>9. LoopTyped'
  BY <1>5 DEF ServiceLoan, Done, IInv, LoopTyped, firmVars, clockVars
<1> QED
  BY <1>5, <1>6, <1>7, <1>8, <1>9 DEF IInv, BooksTyped

\* A firm buys what it needs and produces.
LEMMA ProduceStep ==
    ASSUME IInv, NEW c \in Companies, NEW batch \in Batches, Produce(c, batch)
    PROVE  IInv'
<1> DEFINE g      == Product[c]
           h      == Input[c]
           need   == batch.need
           output == batch.output
           wanted == demand[h] + need
           bill   == Bill(c, h, need, wanted, 0, TRUE)
           b      == Settle(balance, overdraft, c, bill)
<1>1. /\ g \in Goods /\ h \in Goods /\ h # g /\ need \in Nat /\ output \in Nat
      /\ overdraft' = overdraft /\ firms' = firms /\ loans' = loans
  BY EconomyAssumption DEF Produce, firmVars, creditVars
<1>2. c \in firms /\ c \in Payers /\ c \in Accounts
  BY DEF Produce, IsNext, IInv, LoopTyped, Payers, Accounts
<1>3. /\ demand' = [demand EXCEPT ![h] = wanted]
      /\ balance' = IF need = 0 THEN balance ELSE b
      /\ inventory' = [inventory EXCEPT ![h] = IF need = 0 THEN @ ELSE @ - bill.units,
                                        ![g] = @ + output]
      /\ supplied' = [supplied EXCEPT ![c] = @ + output]
  BY DEF Produce
<1>4. wanted \in Nat
  BY <1>1 DEF IInv, MarketTyped
<1>5. /\ bill.units \in Nat /\ bill.units =< inventory[h]
      /\ bill.domestic \in Int /\ bill.foreign \in Int /\ bill.tax \in Int
  BY <1>1, <1>2, <1>4, BillType
<1> HIDE DEF wanted, bill, need, output, g, h
<1>6. MarketTyped'
  <2>1. demand' \in [Goods -> Nat] /\ inventory' \in [Goods -> Nat]
    BY <1>1, <1>3, <1>4, <1>5 DEF IInv, MarketTyped
  <2>2. supplied' \in [Companies -> Nat]
    BY <1>1, <1>3 DEF IInv, MarketTyped
  <2>3. UNCHANGED <<price, pot, weight, weights>>
    BY DEF Produce
  <2> QED
    BY <2>1, <2>2, <2>3 DEF IInv, MarketTyped
<1>7. balance' \in [Accounts -> Int] /\ WithinOverdraft' /\ NotYetFounded'
  <2>1. CASE need = 0
    BY <1>1, <1>3, <2>1, SameMoney DEF moneyVars
  <2>2. CASE need # 0
    <3>1. /\ b \in [Accounts -> Int]
          /\ \A a \in Accounts : b[a] >= - overdraft[a]
          /\ \A a \in Accounts \ {c} : b[a] >= balance[a]
      BY <1>2, <1>5, SettleKeepsSolvent
    <3> HIDE DEF b
    <3> QED
      BY <1>1, <1>2, <1>3, <2>2, <3>1, PaymentKeeps
  <2> QED
    BY <2>1, <2>2
<1>8. FirmsTyped' /\ LoopTyped' /\ PotKept'
  BY DEF Produce, Done, IInv, FirmsTyped, LoopTyped, PotKept, firmVars, clockVars,
     creditVars
<1> QED
  BY <1>1, <1>6, <1>7, <1>8, OtherParts

\* A household or a cohort buys what it uses, a resident buys food, a plant buys
\* its fuel: a purchase by a payer, in a loop.
LEMMA BuyStep ==
    ASSUME IInv, NEW buyer \in Payers, NEW good \in Goods, NEW quantity \in Nat,
           NEW vat \in Nat, NEW mayImport \in BOOLEAN, NEW i,
           Purchase(buyer, good, quantity, vat, mayImport), Done(i),
           UNCHANGED <<overdraft, firmVars, price, creditVars, settleVars, clockVars>>
    PROVE  IInv'
<1>1. overdraft' = overdraft /\ firms' = firms /\ loans' = loans
  BY DEF firmVars, creditVars
<1>2. /\ balance' \in [Accounts -> Int] /\ WithinOverdraft' /\ NotYetFounded'
      /\ demand' \in [Goods -> Nat] /\ inventory' \in [Goods -> Nat]
  BY <1>1, PurchaseKeeps
<1>3. FirmsTyped' /\ MarketTyped'
  BY <1>2 DEF IInv, FirmsTyped, MarketTyped, firmVars, settleVars
<1>4. LoopTyped'
  <2>1. todo' \in SUBSET todo /\ UNCHANGED <<phase, firms, loans, daily, pass>>
    BY DEF Done, firmVars, creditVars, clockVars
  <2> QED
    BY <2>1 DEF IInv, LoopTyped
<1>5. PotKept'
  BY DEF Done, IInv, PotKept, settleVars
<1> QED
  BY <1>1, <1>2, <1>3, <1>4, <1>5, OtherParts

\* The purchases of residents, households, cohorts and the city.
LEMMA ConsumeStep ==
    ASSUME IInv,
           \/ \E p \in Residents : BuyFood(p)
           \/ \E h \in Households, order \in Orders : HouseholdBuys(h, order)
           \/ \E p \in Cohorts, order \in Orders : CohortBuys(p, order)
           \/ \E p \in Cohorts, order \in Orders : SpendRest(p, order)
           \/ phase = "procurement" /\ \E order \in todo : Procure(order)
    PROVE  IInv'
<1>1. VatPct \in Nat /\ Food \in Goods /\ 1 \in Nat /\ TRUE \in BOOLEAN
  BY EconomyAssumption
<1>2. Households \subseteq Payers /\ Cohorts \subseteq Payers
  BY EconomyAssumption DEF Payers
<1>3. ASSUME NEW order \in Orders
      PROVE  /\ order.good \in Goods /\ order.quantity \in Nat
             /\ order.mayImport \in BOOLEAN
  BY EconomyAssumption
<1>4. ASSUME NEW p \in Residents, BuyFood(p) PROVE IInv'
  <2>1. Home[p] \in Payers
    BY <1>2, EconomyAssumption
  <2> QED
    BY <1>1, <1>4, <2>1, BuyStep DEF BuyFood
<1>5. ASSUME NEW h \in Households, NEW order \in Orders, HouseholdBuys(h, order)
      PROVE  IInv'
  BY <1>1, <1>2, <1>3, <1>5, BuyStep DEF HouseholdBuys
<1>6. ASSUME NEW p \in Cohorts, NEW order \in Orders, CohortBuys(p, order)
      PROVE  IInv'
  BY <1>1, <1>2, <1>3, <1>6, BuyStep DEF CohortBuys
<1>7. ASSUME NEW p \in Cohorts, NEW order \in Orders, SpendRest(p, order)
      PROVE  IInv'
  BY <1>1, <1>2, <1>3, <1>7, BuyStep DEF SpendRest
<1>8. ASSUME phase = "procurement", NEW order \in todo, Procure(order) PROVE IInv'
  <2>1. order.good \in Goods /\ order.quantity \in Nat
    BY <1>8 DEF IInv, LoopTyped
  <2>2. Treasury \in Payers /\ 0 \in Nat /\ FALSE \in BOOLEAN
    BY DEF Payers, Institutions
  <2> QED
    BY <1>8, <2>1, <2>2, BuyStep DEF Procure
<1> QED
  BY <1>4, <1>5, <1>6, <1>7, <1>8

\* A plant buys its fuel, and its operator is owed for the power.
LEMMA RunPlantStep ==
    ASSUME IInv, NEW c \in Companies, NEW load \in Loads, RunPlant(c, load)
    PROVE  IInv'
<1>1. /\ Input[c] \in Goods /\ load.fuel \in Nat /\ load.kwh \in Nat
      /\ 0 \in Nat /\ TRUE \in BOOLEAN
  BY EconomyAssumption
<1>2. c \in firms /\ c \in Payers
  BY DEF RunPlant, IInv, LoopTyped, Payers
<1>3. /\ Purchase(c, Input[c], load.fuel, 0, TRUE)
      /\ overdraft' = overdraft /\ firms' = firms /\ loans' = loans
  BY DEF RunPlant, firmVars, creditVars
<1>4. /\ balance' \in [Accounts -> Int] /\ WithinOverdraft' /\ NotYetFounded'
      /\ demand' \in [Goods -> Nat] /\ inventory' \in [Goods -> Nat]
  BY <1>1, <1>2, <1>3, PurchaseKeeps
<1>5. MarketTyped'
  <2>1. supplied' \in [Companies -> Nat]
    BY <1>1 DEF RunPlant, IInv, MarketTyped
  <2> QED
    BY <1>4, <2>1 DEF RunPlant, IInv, MarketTyped
<1>6. FirmsTyped' /\ LoopTyped' /\ PotKept'
  BY DEF RunPlant, Done, IInv, FirmsTyped, LoopTyped, PotKept, firmVars, clockVars,
     creditVars
<1> QED
  BY <1>3, <1>4, <1>5, <1>6, OtherParts
-----------------------------------------------------------------------------

\* Genesis opens no account below its overdraft.
LEMMA InitIInv == Init => IInv
<1> SUFFICES ASSUME Init PROVE IInv
  OBVIOUS
<1>0. loans \in Seq(Loan) /\ DOMAIN loans = {}
  <2>1. loans = <<>>
    BY DEF Init
  <2>2. <<>> \in Seq(Loan) /\ DOMAIN <<>> = {}
    OBVIOUS
  <2> QED
    BY <2>1, <2>2
<1>1. BooksTyped /\ WithinOverdraft
  <2>1. balance \in [Accounts -> Nat] /\ overdraft \in [Accounts -> Nat]
    BY EconomyAssumption DEF Init
  <2>2. balance \in [Accounts -> Int]
    BY <2>1
  <2>3. WithinOverdraft
    BY <2>1 DEF WithinOverdraft
  <2> QED
    BY <1>0, <2>1, <2>2, <2>3 DEF BooksTyped
<1>2. NotYetFounded
  BY EconomyAssumption DEF Init, NotYetFounded, Accounts
<1>3. FirmsTyped /\ MarketTyped
  BY EconomyAssumption DEF Init, FirmsTyped, MarketTyped
<1>4. LoopTyped /\ BorrowersFounded /\ PotKept
  BY <1>0, <1>3 DEF Init, Operators, FirmsTyped, LoopTyped, Phases, Pricing,
     BorrowersFounded, PotKept
<1> QED
  BY <1>1, <1>2, <1>3, <1>4 DEF IInv

\* A step in which nothing happens.
LEMMA StutterIInv == IInv /\ UNCHANGED vars => IInv'
<1> SUFFICES ASSUME IInv, UNCHANGED vars PROVE IInv'
  OBVIOUS
<1>1. FirmsTyped' /\ MarketTyped' /\ LoopTyped' /\ PotKept'
  BY DEF vars, IInv, FirmsTyped, MarketTyped, LoopTyped, PotKept, firmVars,
     marketVars, creditVars, settleVars, clockVars
<1> QED
  BY <1>1, SameMoney, OtherParts DEF vars, firmVars, creditVars

\* Every step keeps the invariant.
LEMMA NextIInv == IInv /\ [Next]_vars => IInv'
<1> SUFFICES ASSUME IInv, [Next]_vars PROVE IInv'
  OBVIOUS
<1>1. CASE UNCHANGED vars
  BY <1>1, StutterIInv
<1>2. CASE Next
  BY <1>2, FoundCompanyStep, AgentsAndInstitutionsStep, DecisionStep, NoMoneyStep,
     SettlementStep, ServiceLoanStep, ProduceStep, ConsumeStep, RunPlantStep DEF Next
<1> QED
  BY <1>1, <1>2

\* No chain of purchases, wages, taxes, benefits, loans, investments, exports
\* and foundings ever takes an account below the overdraft it has, for any
\* accounts, companies, rates, prices and orders.
THEOREM Solvency == Spec => []WithinOverdraft
<1>1. IInv => WithinOverdraft
  BY DEF IInv
<1> QED
  BY <1>1, InitIInv, NextIInv, PTL DEF Spec

\* The types of the books, the firms, the markets and the loop, all of TypeOK
\* but the debt, which is a sum over a set of loans.
THEOREM TypesKept == Spec => [](BooksTyped /\ FirmsTyped /\ MarketTyped /\ LoopTyped)
<1>1. IInv => BooksTyped /\ FirmsTyped /\ MarketTyped /\ LoopTyped
  BY DEF IInv
<1> QED
  BY <1>1, InitIInv, NextIInv, PTL DEF Spec
-----------------------------------------------------------------------------

\* What a step does to the set of bankrupt firms and to the list of loans.
LEMMA OnlyDecisions ==
    ASSUME IInv, [Next]_vars
    PROVE  \/ bankrupt' \subseteq bankrupt /\ DOMAIN loans' = DOMAIN loans
           \/ \E c \in Companies : \E kept \in Kept(c) :
                 CutCosts(c, kept) \/ Borrow(c, kept) \/ Invest(c, kept)
<1>1. CASE UNCHANGED vars
  BY <1>1 DEF vars, firmVars, creditVars
<1>2. ASSUME NEW i \in DOMAIN loans, ServiceLoan(i)
      PROVE  bankrupt' \subseteq bankrupt /\ DOMAIN loans' = DOMAIN loans
  BY <1>2 DEF ServiceLoan, firmVars
<1>3. ASSUME \/ \E p \in Residents, c \in Companies : FoundCompany(p, c)
             \/ \E p \in Residents : BuyFood(p)
             \/ EndAgents
             \/ \E p \in Cohorts : PayPublicWage(p)
             \/ phase = "procurement" /\ \E order \in todo : Procure(order)
             \/ \E k \in Policies : PayPolicy(k)
             \/ \E c \in Companies, p \in People : PayWage(c, p)
             \/ \E p \in People : PayBenefit(p)
             \/ \E h \in Households : PayRent(h)
             \/ \E c \in Companies, due \in Dues : CollectTax(c, due)
      PROVE  bankrupt' \subseteq bankrupt /\ DOMAIN loans' = DOMAIN loans
  BY <1>3 DEF FoundCompany, BuyFood, EndAgents, PayPublicWage, Procure, PayPolicy,
     PayWage, PayBenefit, PayRent, CollectTax, firmVars, creditVars
<1>4. ASSUME \/ \E c \in Companies : Weigh(c)
             \/ StartPaying
             \/ \E c \in Companies : PayProducer(c)
             \/ EndPaying
             \/ \E g \in Goods, newPrice \in Prices : SetPrice(g, newPrice)
             \/ CloseMarkets
      PROVE  bankrupt' \subseteq bankrupt /\ DOMAIN loans' = DOMAIN loans
  BY <1>4 DEF Weigh, StartPaying, PayProducer, EndPaying, SetPrice, CloseMarkets,
     firmVars, creditVars
<1>5. ASSUME \/ \E p \in People, c \in Companies : Hire(p, c)
             \/ \E p \in People : NoJob(p)
             \/ \E i \in DOMAIN loans : SkipLoan(i)
             \/ \E c \in Companies, batch \in Batches : Produce(c, batch)
             \/ \E c \in Companies, load \in Loads : RunPlant(c, load)
             \/ \E output \in [Utilities -> Outputs] : FillMains(output)
      PROVE  bankrupt' \subseteq bankrupt /\ DOMAIN loans' = DOMAIN loans
  BY <1>5 DEF Hire, NoJob, SkipLoan, Produce, RunPlant, FillMains, firmVars,
     creditVars
<1>6. ASSUME \/ \E h \in Households, order \in Orders : HouseholdBuys(h, order)
             \/ \E p \in Cohorts, order \in Orders : CohortBuys(p, order)
             \/ \E p \in Cohorts : SettleCohort(p)
             \/ \E p \in Cohorts, order \in Orders : SpendRest(p, order)
             \/ \E c \in Companies, cost \in {0, Funding} : FundResearch(c, cost)
             \/ EndHour
             \/ NextSystem
      PROVE  bankrupt' \subseteq bankrupt /\ DOMAIN loans' = DOMAIN loans
  BY <1>6 DEF HouseholdBuys, CohortBuys, SettleCohort, SpendRest, FundResearch,
     EndHour, NextSystem, firmVars, creditVars
<1> QED
  BY <1>1, <1>2, <1>3, <1>4, <1>5, <1>6 DEF Next

\* A board that borrows or invests has cash to start with, and keeps it.
LEMMA BoldFirmsHaveCash ==
    ASSUME IInv, NEW c \in Companies, NEW kept \in Kept(c),
           Borrow(c, kept) \/ Invest(c, kept)
    PROVE  balance[c] \in Int /\ balance[c] > 0
<1>1. WageBill(c) \in Nat /\ WageBill(c) >= 1
  BY WageBillType DEF WageBill, Larger
<1>2. RunwayDays * WageBill(c) \in Nat /\ RunwayDays * WageBill(c) >= 1
  <2>1. RunwayDays \in Nat \ {0}
    BY EconomyAssumption
  <2> HIDE DEF WageBill
  <2> QED
    BY <1>1, <2>1
<1>3. ~(balance[c] < RunwayDays * WageBill(c))
  <2>1. CASE Borrow(c, kept)
    <3>1. Strategy(c, "thin") = "survive" /\ "survive" # "cost_cut"
      BY <2>1 DEF Borrow
    <3>2. balance[c] < RunwayDays * WageBill(c) => Strategy(c, "thin") = "cost_cut"
      BY DEF Strategy
    <3> QED
      BY <3>1, <3>2
  <2>2. CASE Invest(c, kept)
    <3>1. Strategy(c, "fat") = "invest" /\ "invest" # "cost_cut"
      BY <2>2 DEF Invest
    <3>2. balance[c] < RunwayDays * WageBill(c) => Strategy(c, "fat") = "cost_cut"
      BY DEF Strategy
    <3> QED
      BY <3>1, <3>2
  <2> QED
    BY <2>1, <2>2
<1>4. balance[c] \in Int
  BY DEF IInv, BooksTyped, Accounts
<1> QED
  BY <1>2, <1>3, <1>4

\* No firm is wound up with money in the bank: the cash its board read before
\* it borrowed or invested cannot be stale where that matters.
THEOREM WoundUpWithoutCash == Spec => BankruptHasNoCash
<1>1. IInv /\ [Next]_vars => [\A c \in bankrupt' \ bankrupt : balance'[c] =< 0]_vars
  <2> SUFFICES ASSUME IInv, [Next]_vars, NEW c \in bankrupt' \ bankrupt
               PROVE  balance'[c] =< 0
    OBVIOUS
  <2>1. PICK d \in Companies : \E kept \in Kept(d) :
            CutCosts(d, kept) \/ Borrow(d, kept) \/ Invest(d, kept)
    BY OnlyDecisions
  <2>2. PICK kept \in Kept(d) :
            CutCosts(d, kept) \/ Borrow(d, kept) \/ Invest(d, kept)
    BY <2>1
  <2>3. c = d /\ balance[c] =< 0
    BY <2>2 DEF CutCosts, Borrow, Invest, CloseBooks
  <2>4. CASE CutCosts(d, kept)
    BY <2>3, <2>4 DEF CutCosts, moneyVars
  <2>5. CASE Borrow(d, kept) \/ Invest(d, kept)
    BY <2>3, <2>5, BoldFirmsHaveCash
  <2> QED
    BY <2>2, <2>4, <2>5
<1> QED
  BY <1>1, InitIInv, NextIInv, PTL DEF Spec, BankruptHasNoCash

\* A booked loan has been paid out in full.
THEOREM LoansArePaidOut == Spec => LoanPaidOut
<1>1. IInv /\ [Next]_vars =>
        [\A i \in DOMAIN loans' \ DOMAIN loans :
            LET loan == loans'[i]
            IN  balance'[loan.borrower] = balance[loan.borrower] + loan.outstanding]_vars
  <2> SUFFICES ASSUME IInv, [Next]_vars, NEW i \in DOMAIN loans' \ DOMAIN loans
               PROVE  balance'[loans'[i].borrower]
                        = balance[loans'[i].borrower] + loans'[i].outstanding
    OBVIOUS
  <2>0. PICK c \in Companies : \E kept \in Kept(c) : Borrow(c, kept)
    <3>1. PICK c \in Companies : \E kept \in Kept(c) :
            CutCosts(c, kept) \/ Borrow(c, kept) \/ Invest(c, kept)
      BY OnlyDecisions
    <3> QED
      BY <3>1 DEF CutCosts, Invest, creditVars
  <2>1. PICK kept \in Kept(c) : Borrow(c, kept)
    BY <2>0
  <2> DEFINE amount == WageBill(c) * BorrowDays
             loan   == [borrower |-> c, outstanding |-> amount,
                        payment |-> amount \div Payments, missed |-> 0,
                        defaulted |-> FALSE, due |-> pass + 1]
  <2>2. /\ loans' = Append(loans, loan)
        /\ balance' = Transfer(balance, overdraft, Bank, c, amount)
        /\ balance[Bank] >= amount /\ amount > 0
    BY <2>1 DEF Borrow
  <2>3. loan.borrower = c /\ loan.outstanding = amount
    OBVIOUS
  <2>4. amount \in Int
    BY WageBillType, EconomyAssumption
  <2> HIDE DEF loan, amount
  <2>5. loans'[i] = loan
    <3>1. loans \in Seq(Loan)
      BY DEF IInv, BooksTyped
    <3> QED
      BY <2>2, <3>1, AppendProperties
  <2>6. /\ Bank \in Accounts /\ c \in Accounts /\ Bank # c
        /\ balance[Bank] \in Int /\ balance[c] \in Int /\ overdraft[Bank] \in Nat
    BY EconomyAssumption DEF Accounts, Institutions, IInv, BooksTyped
  <2>7. CanPay(balance, overdraft, Bank, amount)
    BY <2>2, <2>4, <2>6 DEF CanPay, Available
  <2>8. balance'[c] = balance[c] + amount
    BY <2>2, <2>6, <2>7 DEF Transfer, IInv, BooksTyped
  <2> QED
    BY <2>3, <2>5, <2>8
<1> QED
  BY <1>1, InitIInv, NextIInv, PTL DEF Spec, LoanPaidOut
-----------------------------------------------------------------------------

\* What any chain of transfers does to the accounts, if none goes to a household:
\* the money there is stays the same, and no household gets any.
Moved(b, after) ==
    /\ b \in [Accounts -> Int] /\ after \in [Accounts -> Int]
    /\ Sum(after, Accounts) = Sum(b, Accounts)
    /\ \A h \in Households : after[h] =< b[h]

\* Everybody else has another account than a household.
LEMMA OtherAccounts ==
    /\ Institutions \subseteq Accounts \ Households
    /\ Companies \subseteq Accounts \ Households
    /\ People \subseteq Accounts \ Households
    /\ {Treasury, Escrow, External, Bank} \subseteq Institutions
  BY EconomyAssumption DEF Accounts, Institutions

\* There are finitely many accounts.
LEMMA AccountsFinite == IsFiniteSet(Accounts)
<1>1. IsFiniteSet(Institutions)
  <2>1. IsFiniteSet({Treasury})
    BY FS_Singleton
  <2>2. IsFiniteSet({Treasury} \cup {Escrow})
    BY <2>1, FS_AddElement
  <2>3. IsFiniteSet({Treasury} \cup {Escrow} \cup {External})
    BY <2>2, FS_AddElement
  <2>4. IsFiniteSet({Treasury} \cup {Escrow} \cup {External} \cup {Bank})
    BY <2>3, FS_AddElement
  <2>5. Institutions = {Treasury} \cup {Escrow} \cup {External} \cup {Bank}
    BY DEF Institutions
  <2> QED
    BY <2>4, <2>5
<1>2. IsFiniteSet(Companies) /\ IsFiniteSet(People) /\ IsFiniteSet(Households)
  BY EconomyAssumption
<1>3. IsFiniteSet(Institutions \cup Companies)
  BY <1>1, <1>2, FS_Union
<1>4. IsFiniteSet(Institutions \cup Companies \cup People)
  BY <1>2, <1>3, FS_Union
<1> QED
  BY <1>2, <1>4, FS_Union DEF Accounts

\* Nothing moved, or one thing after the other.
LEMMA MovedOnAndOn ==
    /\ \A b \in [Accounts -> Int] : Moved(b, b)
    /\ \A b1, b2, b3 : Moved(b1, b2) /\ Moved(b2, b3) => Moved(b1, b3)
<1>1. Households \subseteq Accounts
  BY DEF Accounts
<1>2. ASSUME NEW b \in [Accounts -> Int] PROVE Moved(b, b)
  BY <1>1 DEF Moved
<1>3. ASSUME NEW b1, NEW b2, NEW b3, Moved(b1, b2), Moved(b2, b3) PROVE Moved(b1, b3)
  <2>1. ASSUME NEW h \in Households PROVE b3[h] =< b1[h]
    <3>1. b1[h] \in Int /\ b2[h] \in Int /\ b3[h] \in Int
      BY <1>1, <1>3 DEF Moved
    <3>2. b2[h] =< b1[h] /\ b3[h] =< b2[h]
      BY <1>3 DEF Moved
    <3> QED
      BY <3>1, <3>2
  <2>2. Sum(b3, Accounts) = Sum(b1, Accounts)
    BY <1>3 DEF Moved
  <2> QED
    BY <1>3, <2>1, <2>2 DEF Moved
<1> QED
  BY <1>2, <1>3

\* money.transfer takes from one account what it gives to the other, or nothing,
\* also when the two are the same one.
LEMMA TransferMoves ==
    ASSUME NEW b \in [Accounts -> Int], NEW o, NEW source \in Accounts,
           NEW payee \in Accounts \ Households, NEW amount \in Int
    PROVE  Moved(b, Transfer(b, o, source, payee, amount))
<1> DEFINE paid  == [b EXCEPT ![source] = @ - amount]
           after == [paid EXCEPT ![payee] = @ + amount]
<1>0. Households \subseteq Accounts /\ IsFiniteSet(Accounts) /\ Numbers(b, Accounts)
  BY AccountsFinite DEF Accounts, Numbers
<1>1. CASE amount > 0 /\ CanPay(b, o, source, amount)
  <2>1. Transfer(b, o, source, payee, amount) = after
    BY <1>1 DEF Transfer
  <2>2. after \in [Accounts -> Int]
    OBVIOUS
  <2>3. ASSUME NEW h \in Households PROVE after[h] =< b[h]
    BY <1>0, <1>1
  <2>4. Sum(after, Accounts) = Sum(b, Accounts)
    <3>1. CASE source = payee
      <4>1. \A a \in Accounts : after[a] = b[a]
        BY <3>1
      <4> HIDE DEF after
      <4>2. after = b
        BY <2>2, <4>1
      <4> QED
        BY <4>2
    <3>2. CASE source # payee
      <4>1. /\ after[source] = b[source] - amount /\ after[payee] = b[payee] + amount
            /\ \A a \in Accounts : a # source /\ a # payee => after[a] = b[a]
        BY <3>2
      <4>2. Numbers(after, Accounts)
        BY <2>2 DEF Numbers
      <4> HIDE DEF after
      <4> QED
        BY <1>0, <3>2, <4>1, <4>2, SumOfMoved
    <3> QED
      BY <3>1, <3>2
  <2> QED
    BY <2>1, <2>2, <2>3, <2>4 DEF Moved
<1>2. CASE ~(amount > 0 /\ CanPay(b, o, source, amount))
  BY <1>2, MovedOnAndOn DEF Transfer
<1> QED
  BY <1>1, <1>2

\* Paying a bill takes from households or leaves them, and loses nothing.
LEMMA SettleMoves ==
    ASSUME IInv, NEW buyer \in Accounts, NEW bill,
           bill.domestic \in Int, bill.foreign \in Int, bill.tax \in Int
    PROVE  Moved(balance, Settle(balance, overdraft, buyer, bill))
<1> DEFINE b1 == Transfer(balance, overdraft, buyer, Escrow, bill.domestic)
           b2 == Transfer(b1, overdraft, buyer, External, bill.foreign)
           b3 == Transfer(b2, overdraft, buyer, Treasury, bill.tax)
<1>0. {Escrow, External, Treasury} \subseteq Accounts \ Households
  BY OtherAccounts
<1>1. Moved(balance, b1)
  BY <1>0, TransferMoves DEF IInv, BooksTyped
<1> HIDE DEF b1
<1>2. Moved(b1, b2)
  BY <1>0, <1>1, TransferMoves DEF Moved
<1> HIDE DEF b2
<1>3. Moved(b2, b3)
  BY <1>0, <1>2, TransferMoves DEF Moved
<1>4. Settle(balance, overdraft, buyer, bill) = b3
  BY DEF Settle, b1, b2
<1> HIDE DEF b3
<1> QED
  BY <1>1, <1>2, <1>3, <1>4, MovedOnAndOn, Zenon

\* So does a purchase, whoever buys.
LEMMA PurchaseMoves ==
    ASSUME IInv, NEW buyer \in Accounts, NEW good \in Goods, NEW quantity \in Nat,
           NEW vat \in Nat, NEW mayImport \in BOOLEAN,
           Purchase(buyer, good, quantity, vat, mayImport)
    PROVE  Moved(balance, balance')
<1> DEFINE wanted == demand[good] + quantity
           bill   == Bill(buyer, good, quantity, wanted, vat, mayImport)
<1>1. wanted \in Nat
  BY DEF IInv, MarketTyped
<1>2. bill.domestic \in Int /\ bill.foreign \in Int /\ bill.tax \in Int
  <2> HIDE DEF wanted
  <2> QED
    BY <1>1, BillType
<1>3. balance' = IF quantity = 0 THEN balance
                 ELSE Settle(balance, overdraft, buyer, bill)
  BY DEF Purchase
<1> HIDE DEF bill
<1>4. Moved(balance, balance) /\ Moved(balance, Settle(balance, overdraft, buyer, bill))
  BY <1>2, SettleMoves, MovedOnAndOn DEF IInv, BooksTyped
<1> QED
  BY <1>3, <1>4, Zenon

\* No step makes money, loses any, or gives any to a household.
LEMMA NextMoves ==
    ASSUME IInv, [Next]_vars
    PROVE  Moved(balance, balance')
<1>0. balance \in [Accounts -> Int]
  BY DEF IInv, BooksTyped
<1>1. SUFFICES ASSUME balance' # balance PROVE Moved(balance, balance')
  BY <1>0, MovedOnAndOn
<1>2. /\ 0 \in Nat /\ 1 \in Nat /\ TRUE \in BOOLEAN /\ VatPct \in Nat /\ Food \in Goods
      /\ \A order \in Orders : /\ order.good \in Goods /\ order.quantity \in Nat
                              /\ order.mayImport \in BOOLEAN
      /\ \A c \in Companies : Input[c] \in Goods
      /\ {Welfare, Rent, Funding, 0} \subseteq Int /\ Dues \subseteq Int
  BY EconomyAssumption
<1>3. /\ Residents \subseteq Accounts /\ Cohorts \subseteq Accounts
      /\ Cohorts \subseteq People /\ Households \subseteq Accounts
      /\ Companies \subseteq Accounts /\ firms \subseteq Companies
  BY EconomyAssumption DEF Accounts, Residents, IInv, FirmsTyped
<1>4. ASSUME NEW source \in Accounts, NEW payee \in Accounts \ Households,
             NEW amount \in Int, NEW o,
             balance' = Transfer(balance, o, source, payee, amount)
      PROVE  Moved(balance, balance')
  BY <1>0, <1>4, TransferMoves
<1>5. ASSUME NEW c \in Companies, NEW load \in Loads, RunPlant(c, load)
      PROVE  Moved(balance, balance')
  <2>1. load.fuel \in Nat
    BY EconomyAssumption
  <2> QED
    BY <1>2, <1>3, <1>5, <2>1, PurchaseMoves DEF RunPlant
<1>6. ASSUME NEW p \in Residents, NEW c \in Companies, FoundCompany(p, c)
      PROVE  Moved(balance, balance')
  <2> DEFINE capital == (balance[p] * 6) \div 10
  <2>1. balance[p] * 6 \in Int
    BY <1>0, <1>3
  <2>2. capital \in Int
    BY <2>1
  <2>3. balance' = Transfer(balance, overdraft, p, c, capital)
    BY <1>6 DEF FoundCompany
  <2> HIDE DEF capital
  <2> QED
    BY <1>3, <1>4, <2>2, <2>3, OtherAccounts
<1>7. ASSUME NEW p \in Residents, BuyFood(p) PROVE Moved(balance, balance')
  <2>1. Home[p] \in Accounts
    BY <1>3, EconomyAssumption
  <2> QED
    BY <1>2, <1>7, <2>1, PurchaseMoves DEF BuyFood
<1>8. ASSUME NEW k \in Policies, PayPolicy(k)
      PROVE  Moved(balance, balance')
  <2>1. balance' = Transfer(balance, overdraft', Treasury, Escrow, PolicyCost[k])
    BY <1>8 DEF PayPolicy
  <2>2. PolicyCost[k] \in Int
    BY EconomyAssumption
  <2> QED
    BY <1>4, <2>1, <2>2, OtherAccounts
<1>9. ASSUME NEW c \in Companies, NEW kept \in Kept(c),
             CutCosts(c, kept) \/ Borrow(c, kept) \/ Invest(c, kept)
      PROVE  Moved(balance, balance')
  <2>1. CASE CutCosts(c, kept)
    BY <1>1, <2>1 DEF CutCosts, moneyVars
  <2>2. CASE Borrow(c, kept)
    <3> DEFINE amount == WageBill(c) * BorrowDays
    <3>1. amount \in Int
      BY WageBillType, EconomyAssumption
    <3>2. balance' = Transfer(balance, overdraft, Bank, c, amount)
      BY <2>2 DEF Borrow
    <3> HIDE DEF amount
    <3> QED
      BY <1>4, <3>1, <3>2, OtherAccounts
  <2>3. CASE Invest(c, kept)
    <3> DEFINE units == (balance[c] \div InvestPart) \div Larger(1, price[Input[c]])
    <3>1. units \in Nat
      <4>1. balance[c] \in Nat
        BY <2>3, <1>0, <1>3, BoldFirmsHaveCash
      <4>2. balance[c] \div InvestPart \in Nat
        <5>1. InvestPart \in Nat /\ InvestPart > 0
          BY EconomyAssumption
        <5> QED
          BY <4>1, <5>1
      <4>3. Larger(1, price[Input[c]]) \in Nat \ {0}
        BY <1>2 DEF IInv, MarketTyped, Larger
      <4> QED
        BY <4>2, <4>3
    <3>2. Purchase(c, Input[c], units, 0, TRUE)
      BY <2>3 DEF Invest
    <3> HIDE DEF units
    <3> QED
      BY <1>2, <1>3, <3>1, <3>2, PurchaseMoves
  <2> QED
    BY <1>9, <2>1, <2>2, <2>3
<1>10. ASSUME NEW c \in Companies, NEW p \in People, PayWage(c, p)
       PROVE  Moved(balance, balance')
  <2> DEFINE net == Wage - (Wage * TaxPct) \div 100
             b1  == Transfer(balance, overdraft, c, p, net)
             b2  == Transfer(b1, overdraft, c, Treasury, Wage - net)
  <2>1. net \in Int /\ Wage - net \in Int
    <3>1. Wage \in Nat /\ TaxPct \in Nat
      BY EconomyAssumption
    <3>2. Wage * TaxPct \in Nat
      BY <3>1
    <3> QED
      BY <3>1, <3>2
  <2>2. balance' = b2
    BY <1>1, <1>10 DEF PayWage
  <2> HIDE DEF net
  <2>3. Moved(balance, b1)
    BY <1>0, <1>3, <2>1, TransferMoves, OtherAccounts
  <2> HIDE DEF b1
  <2>4. Moved(b1, b2)
    BY <1>3, <2>1, <2>3, TransferMoves, OtherAccounts DEF Moved
  <2> HIDE DEF b2
  <2> QED
    BY <2>2, <2>3, <2>4, MovedOnAndOn, Zenon
<1>11. ASSUME \/ \E p \in People : PayBenefit(p)
              \/ \E p \in Households : PayRent(p)
              \/ \E c \in Companies, due \in Dues : CollectTax(c, due)
              \/ \E c \in Companies, cost \in {0, Funding} : FundResearch(c, cost)
       PROVE  Moved(balance, balance')
  <2>1. ASSUME NEW p \in People, PayBenefit(p) PROVE Moved(balance, balance')
    BY <1>2, <1>4, <2>1, OtherAccounts DEF PayBenefit
  <2>2. ASSUME NEW p \in Households, PayRent(p) PROVE Moved(balance, balance')
    BY <1>2, <1>3, <1>4, <2>2, OtherAccounts DEF PayRent
  <2>3. ASSUME NEW c \in Companies, NEW due \in Dues, CollectTax(c, due)
        PROVE  Moved(balance, balance')
    BY <1>2, <1>3, <1>4, <2>3, OtherAccounts DEF CollectTax
  <2>4. ASSUME NEW c \in Companies, NEW cost \in {0, Funding}, FundResearch(c, cost)
        PROVE  Moved(balance, balance')
    BY <1>2, <1>3, <1>4, <2>4, OtherAccounts DEF FundResearch
  <2> QED
    BY <1>11, <2>1, <2>2, <2>3, <2>4
<1>12. ASSUME NEW c \in Companies, PayProducer(c) PROVE Moved(balance, balance')
  <2>1. Share(c) \in Int
    <3>1. pot \in Nat /\ weights[c] \in Nat /\ weight \in Nat \ {0}
      BY <1>12 DEF PayProducer, IInv, MarketTyped, PotKept
    <3>2. pot * weights[c] \in Nat
      BY <3>1
    <3> QED
      BY <3>1, <3>2 DEF Share
  <2> QED
    BY <1>4, <1>12, <2>1, OtherAccounts DEF PayProducer
<1>13. ASSUME NEW g \in Goods, NEW newPrice \in Prices, SetPrice(g, newPrice)
       PROVE  Moved(balance, balance')
  <2> DEFINE stock == IF phase = "dawn" THEN Unspoilt(g) ELSE inventory[g]
             units == Surplus(g, stock)
             value == ExportValue(units, newPrice)
  <2>1. value \in Int
    <3>1. /\ stock \in Nat /\ demand[g] \in Nat /\ ExportCover \in Nat
          /\ ExportPct \in Nat /\ newPrice \in Nat
      BY StockTyped, EconomyAssumption DEF IInv, MarketTyped
    <3>2. ExportCover * demand[g] \in Nat
      BY <3>1
    <3> HIDE DEF stock
    <3>3. units \in Int
      BY <3>1, <3>2 DEF Surplus, Smaller
    <3> HIDE DEF units
    <3>4. units * newPrice \in Int
      BY <3>1, <3>3
    <3>5. units * newPrice * ExportPct \in Int
      BY <3>1, <3>4
    <3> QED
      BY <3>5 DEF ExportValue
  <2>2. balance' = Transfer(balance, overdraft, External, Escrow, value)
    BY <1>13 DEF SetPrice
  <2> HIDE DEF value
  <2> QED
    BY <1>4, <2>1, <2>2, OtherAccounts
<1>14. ASSUME NEW i \in DOMAIN loans, ServiceLoan(i) PROVE Moved(balance, balance')
  <2> DEFINE loan == loans[i]
  <2>1. loan \in Loan /\ loan.borrower \in Companies
    <3>1. loans \in Seq(Loan)
      BY DEF IInv, BooksTyped
    <3>2. loan \in Loan
      BY <3>1
    <3> QED
      BY <3>2 DEF Loan
  <2>2. balance' = Transfer(balance, overdraft, loan.borrower, Bank, Instalment(loan))
    BY <1>14 DEF ServiceLoan
  <2> HIDE DEF loan
  <2>3. Instalment(loan) \in Int
    BY <2>1, LoanType
  <2> QED
    BY <1>3, <1>4, <2>1, <2>2, <2>3, OtherAccounts
<1>15. ASSUME NEW c \in Companies, NEW batch \in Batches, Produce(c, batch)
       PROVE  Moved(balance, balance')
  <2> DEFINE wanted == demand[Input[c]] + batch.need
             bill   == Bill(c, Input[c], batch.need, wanted, 0, TRUE)
  <2>1. batch.need \in Nat /\ wanted \in Nat
    <3>1. batch.need \in Nat
      BY EconomyAssumption
    <3>2. demand[Input[c]] \in Nat
      BY <1>2 DEF IInv, MarketTyped
    <3> QED
      BY <3>1, <3>2
  <2>2. balance' = Settle(balance, overdraft, c, bill)
    BY <1>1, <1>15 DEF Produce
  <2>3. bill.domestic \in Int /\ bill.foreign \in Int /\ bill.tax \in Int
    <3> HIDE DEF wanted
    <3> QED
      BY <1>2, <1>3, <2>1, BillType
  <2> HIDE DEF bill
  <2> QED
    BY <1>3, <2>2, <2>3, SettleMoves
<1>16. ASSUME \/ \E p \in Households, order \in Orders : HouseholdBuys(p, order)
              \/ \E p \in Cohorts, order \in Orders : CohortBuys(p, order)
              \/ \E p \in Cohorts, order \in Orders : SpendRest(p, order)
       PROVE  Moved(balance, balance')
  <2>1. PICK buyer \in Accounts, order \in Orders :
            Purchase(buyer, order.good, order.quantity, VatPct, order.mayImport)
    BY <1>3, <1>16 DEF HouseholdBuys, CohortBuys, SpendRest
  <2> QED
    BY <1>2, <2>1, PurchaseMoves
<1>17. ASSUME NEW p \in Cohorts, SettleCohort(p) PROVE Moved(balance, balance')
  <2> DEFINE granted == Transfer(balance, overdraft, Treasury, p, Welfare)
  <2>0. /\ Treasury \in Accounts /\ p \in Accounts \ Households /\ Welfare \in Int
        /\ p \in Accounts /\ Escrow \in Accounts \ Households /\ Rent \in Int
    BY <1>2, <1>3, <1>17, OtherAccounts
  <2>1. Moved(balance, granted)
    BY <1>0, <2>0, TransferMoves, Zenon
  <2>2. balance' = Transfer(granted, overdraft, p, Escrow, Rent)
    BY <1>17 DEF SettleCohort
  <2> HIDE DEF granted
  <2>3. Moved(granted, balance')
    <3>1. granted \in [Accounts -> Int]
      BY <2>1 DEF Moved
    <3>2. Moved(granted, Transfer(granted, overdraft, p, Escrow, Rent))
      BY <2>0, <3>1, TransferMoves, Zenon
    <3> QED
      BY <2>2, <3>2
  <2> QED
    BY <2>1, <2>3, MovedOnAndOn, Zenon
<1>18. ASSUME \/ \E output \in [Utilities -> Outputs] : FillMains(output)
              \/ EndAgents
              \/ \E c \in Companies : Weigh(c)
              \/ StartPaying
              \/ EndPaying
              \/ CloseMarkets
              \/ \E p \in People, c \in Companies : Hire(p, c)
              \/ \E p \in People : NoJob(p)
              \/ \E i \in DOMAIN loans : SkipLoan(i)
              \/ EndHour
              \/ NextSystem
              \/ UNCHANGED vars
       PROVE  FALSE
  BY <1>1, <1>18 DEF FillMains, EndAgents, Weigh, StartPaying, EndPaying, CloseMarkets,
     Hire, NoJob, SkipLoan, EndHour, NextSystem, vars, moneyVars
<1>19. ASSUME NEW p \in Cohorts, PayPublicWage(p) PROVE Moved(balance, balance')
  <2> DEFINE net == PublicPay[p] - (PublicPay[p] * TaxPct) \div 100
  <2>1. net \in Int
    <3>1. PublicPay[p] \in Nat /\ TaxPct \in Nat
      BY EconomyAssumption
    <3>2. PublicPay[p] * TaxPct \in Nat
      BY <3>1
    <3> QED
      BY <3>1, <3>2
  <2>2. balance' = Transfer(balance, overdraft, Treasury, p, net)
    BY <1>19 DEF PayPublicWage
  <2> HIDE DEF net
  <2> QED
    BY <1>3, <1>4, <2>1, <2>2, OtherAccounts
<1>20. ASSUME phase = "procurement", NEW order \in todo, Procure(order)
       PROVE  Moved(balance, balance')
  <2>1. order.good \in Goods /\ order.quantity \in Nat
    BY <1>20 DEF IInv, LoopTyped
  <2>2. Treasury \in Accounts /\ FALSE \in BOOLEAN
    BY OtherAccounts
  <2> QED
    BY <1>2, <1>20, <2>1, <2>2, PurchaseMoves DEF Procure
<1> QED
  BY <1>5, <1>6, <1>7, <1>8, <1>9, <1>10, <1>11, <1>12, <1>13, <1>14, <1>15, <1>16,
     <1>17, <1>18, <1>19, <1>20 DEF Next

\* The accounts that pay for food and rent never receive anything, whatever the
\* firms, the city and the markets do.
THEOREM HouseholdsAreDrained == Spec => HouseholdsOnlyPay
<1>1. IInv /\ [Next]_vars => [\A h \in Households : balance'[h] =< balance[h]]_vars
  BY NextMoves DEF Moved
<1> QED
  BY <1>1, InitIInv, NextIInv, PTL DEF Spec, HouseholdsOnlyPay
-----------------------------------------------------------------------------

\* The money there is, as a sum.
LEMMA TotalIs ==
    MoneyConserved <=> Sum(balance, Accounts) = Sum(OpeningBalance, Accounts)
  BY DEF MoneyConserved, Sum, MapThenSumSet, MapThenFoldSet

\* Money is conserved: as much is in the accounts as genesis opened them with.
THEOREM MoneyIsConserved == Spec => []MoneyConserved
<1>1. Init => MoneyConserved
  <2>1. Init => balance = OpeningBalance
    BY DEF Init
  <2> QED
    BY <2>1, TotalIs
<1>2. IInv /\ MoneyConserved /\ [Next]_vars => MoneyConserved'
  <2> SUFFICES ASSUME IInv, MoneyConserved, [Next]_vars PROVE MoneyConserved'
    OBVIOUS
  <2>1. Sum(balance', Accounts) = Sum(balance, Accounts)
    BY NextMoves DEF Moved
  <2>2. Sum(balance, Accounts) = Sum(OpeningBalance, Accounts)
    BY TotalIs
  <2>3. Sum(balance', Accounts) = Sum(OpeningBalance, Accounts)
    BY <2>1, <2>2
  <2> QED
    BY <2>3 DEF MoneyConserved, Sum, MapThenSumSet, MapThenFoldSet
<1> QED
  BY <1>1, <1>2, InitIInv, NextIInv, PTL DEF Spec
-----------------------------------------------------------------------------

\* What the bank's loans to a company say, as a sum.
Outstanding(ls) == [i \in DOMAIN ls |-> ls[i].outstanding]

\* The loans of a company are finitely many, and each says a natural number.
LEMMA OwingType ==
    ASSUME NEW ls \in Seq(Loan), NEW c
    PROVE  /\ IsFiniteSet(Owing(c, ls)) /\ Numbers(Outstanding(ls), Owing(c, ls))
           /\ \A i \in Owing(c, ls) : Outstanding(ls)[i] \in Nat
<1>1. Owing(c, ls) \in SUBSET (1..Len(ls)) /\ Len(ls) \in Nat
  BY DEF Owing
<1>2. IsFiniteSet(1..Len(ls))
  BY <1>1, FS_Interval
<1>3. ASSUME NEW i \in DOMAIN ls PROVE Outstanding(ls)[i] \in Nat
  <2>1. ls[i] \in Loan
    OBVIOUS
  <2> QED
    BY <2>1 DEF Loan, Outstanding
<1> QED
  BY <1>1, <1>2, <1>3, FS_Subset DEF Owing, Numbers

\* OwedBy is that sum, whatever the loans.
LEMMA OwedIs ==
    ASSUME NEW ls \in Seq(Loan), NEW c
    PROVE  OwedBy(c, ls) = Sum(Outstanding(ls), Owing(c, ls))
<1> DEFINE O == Owing(c, ls)
           Recurs(g) == g = [s \in SUBSET O |->
                               IF s = {} THEN 0
                               ELSE ls[Pick(s)].outstanding + g[s \ {Pick(s)}]]
           chosen == CHOOSE g : Recurs(g)
<1>1. OwedBy(c, ls) = chosen[O]
  BY DEF OwedBy, MapThenSumSet, MapThenFoldSet, Pick
<1>2. O \subseteq DOMAIN ls
  BY DEF Owing
<1> HIDE DEF O
<1>3. ASSUME NEW g PROVE Folds(g, Outstanding(ls), O) <=> Recurs(g)
  <2>1. ASSUME NEW s \in SUBSET O, s # {}
        PROVE  Outstanding(ls)[Pick(s)] = ls[Pick(s)].outstanding
    BY <1>2, <2>1 DEF Pick, Outstanding
  <2> HIDE DEF Outstanding
  <2>2. [s \in SUBSET O |-> IF s = {} THEN 0
                            ELSE Outstanding(ls)[Pick(s)] + g[s \ {Pick(s)}]]
      = [s \in SUBSET O |-> IF s = {} THEN 0
                            ELSE ls[Pick(s)].outstanding + g[s \ {Pick(s)}]]
    BY <2>1
  <2> QED
    BY <2>2 DEF Folds
<1>4. IsFiniteSet(O) /\ Numbers(Outstanding(ls), O)
  BY OwingType DEF O
<1>5. PICK h : Folds(h, Outstanding(ls), O) /\ Sum(Outstanding(ls), O) = h[O]
  BY <1>4, SomethingFolds, SumFolds, Zenon
<1>6. Recurs(chosen)
  BY <1>3, <1>5, Zenon
<1> HIDE DEF chosen
<1>7. Folds(chosen, Outstanding(ls), O)
  BY <1>3, <1>6
<1>8. O \in SUBSET O
  OBVIOUS
<1>9. chosen[O] = h[O]
  BY <1>4, <1>5, <1>7, <1>8, FoldsAgree
<1> QED
  BY <1>1, <1>5, <1>9 DEF O

\* A sum of loans stays the same while the same loans say the same.
LEMMA OwedSame ==
    ASSUME NEW ls \in Seq(Loan), NEW new \in Seq(Loan), NEW c,
           Owing(c, new) = Owing(c, ls),
           \A i \in Owing(c, ls) : new[i].outstanding = ls[i].outstanding
    PROVE  OwedBy(c, new) = OwedBy(c, ls)
<1>1. \A i \in Owing(c, ls) : Outstanding(ls)[i] = Outstanding(new)[i]
  BY DEF Owing, Outstanding
<1>2. IsFiniteSet(Owing(c, ls)) /\ Numbers(Outstanding(ls), Owing(c, ls))
  BY OwingType
<1>3. Sum(Outstanding(ls), Owing(c, ls)) = Sum(Outstanding(new), Owing(c, ls))
  BY <1>1, <1>2, SumOfSame
<1> QED
  BY <1>3, OwedIs

\* A new loan is owed by its borrower, on top of what it owed.
LEMMA OwedMore ==
    ASSUME NEW ls \in Seq(Loan), NEW loan \in Loan, ~loan.defaulted, NEW c
    PROVE  OwedBy(c, Append(ls, loan))
             = OwedBy(c, ls) + (IF loan.borrower = c THEN loan.outstanding ELSE 0)
<1> DEFINE new == Append(ls, loan)
           n   == Len(ls) + 1
<1>1. /\ new \in Seq(Loan) /\ DOMAIN new = 1..n /\ DOMAIN ls = 1..Len(ls)
      /\ new[n] = loan /\ Len(ls) \in Nat
      /\ \A i \in DOMAIN ls : new[i] = ls[i]
  <2> HIDE DEF Loan
  <2> QED
    BY AppendProperties, LenProperties
<1> HIDE DEF new
<1>2. \A i \in Owing(c, ls) : i \in DOMAIN ls /\ new[i] = ls[i]
  BY <1>1 DEF Owing
<1>3. OwedBy(c, ls) \in Nat
  BY OwingType, OwedIs, SumOfNaturals
<1>4. CASE loan.borrower # c
  <2>1. Owing(c, new) = Owing(c, ls)
    BY <1>1, <1>4 DEF Owing
  <2>2. OwedBy(c, new) = OwedBy(c, ls)
    BY <1>1, <1>2, <2>1, OwedSame
  <2> QED
    BY <1>3, <1>4, <2>2 DEF new
<1>5. CASE loan.borrower = c
  <2>1. Owing(c, new) = Owing(c, ls) \cup {n} /\ n \notin Owing(c, ls)
    BY <1>1, <1>5 DEF Owing
  <2>2. Numbers(Outstanding(new), Owing(c, ls) \cup {n})
    BY <1>1, <2>1, OwingType
  <2>3. IsFiniteSet(Owing(c, ls)) /\ Numbers(Outstanding(ls), Owing(c, ls))
    BY OwingType
  <2>4. Sum(Outstanding(new), Owing(c, ls) \cup {n})
          = Outstanding(new)[n] + Sum(Outstanding(new), Owing(c, ls))
    BY <2>1, <2>2, <2>3, SumWith
  <2>5. \A i \in Owing(c, ls) : Outstanding(ls)[i] = Outstanding(new)[i]
    <3> SUFFICES ASSUME NEW i \in Owing(c, ls)
                 PROVE  Outstanding(ls)[i] = Outstanding(new)[i]
      OBVIOUS
    <3>1. i \in DOMAIN ls /\ i \in DOMAIN new /\ new[i] = ls[i]
      BY <1>1, <1>2
    <3> QED
      BY <3>1 DEF Outstanding
  <2>6. Sum(Outstanding(ls), Owing(c, ls)) = Sum(Outstanding(new), Owing(c, ls))
    BY <2>3, <2>5, SumOfSame
  <2>7. Outstanding(new)[n] = loan.outstanding /\ loan.outstanding \in Nat
    BY <1>1 DEF Outstanding, Loan
  <2>8. OwedBy(c, ls) = Sum(Outstanding(ls), Owing(c, ls))
    BY OwedIs
  <2>9. OwedBy(c, new) = Sum(Outstanding(new), Owing(c, new))
    BY <1>1, OwedIs
  <2>10. OwedBy(c, new) = loan.outstanding + OwedBy(c, ls)
    BY <2>1, <2>4, <2>6, <2>7, <2>8, <2>9
  <2> QED
    BY <1>3, <1>5, <2>7, <2>10 DEF new
<1> QED
  BY <1>4, <1>5

\* What a step does to loans and debts: nothing, but for the two that lend and
\* collect.
LEMMA OnlyCredit ==
    ASSUME [Next]_vars
    PROVE  \/ UNCHANGED <<debt, loans>>
           \/ \E c \in Companies : \E kept \in Kept(c) : Borrow(c, kept)
           \/ \E i \in DOMAIN loans : ServiceLoan(i)
<1>1. CASE UNCHANGED vars
  BY <1>1 DEF vars, creditVars
<1>2. ASSUME \/ \E p \in Residents, c \in Companies : FoundCompany(p, c)
             \/ \E p \in Residents : BuyFood(p)
             \/ EndAgents
             \/ \E p \in Cohorts : PayPublicWage(p)
             \/ phase = "procurement" /\ \E order \in todo : Procure(order)
             \/ \E k \in Policies : PayPolicy(k)
             \/ \E c \in Companies, p \in People : PayWage(c, p)
             \/ \E p \in People : PayBenefit(p)
             \/ \E h \in Households : PayRent(h)
             \/ \E c \in Companies, due \in Dues : CollectTax(c, due)
      PROVE  UNCHANGED <<debt, loans>>
  BY <1>2 DEF FoundCompany, BuyFood, EndAgents, PayPublicWage, Procure, PayPolicy,
     PayWage, PayBenefit, PayRent, CollectTax, creditVars
<1>3. ASSUME \/ \E c \in Companies : Weigh(c)
             \/ StartPaying
             \/ \E c \in Companies : PayProducer(c)
             \/ EndPaying
             \/ \E g \in Goods, newPrice \in Prices : SetPrice(g, newPrice)
             \/ CloseMarkets
             \/ \E c \in Companies : \E kept \in Kept(c) : CutCosts(c, kept)
             \/ \E c \in Companies : \E kept \in Kept(c) : Invest(c, kept)
      PROVE  UNCHANGED <<debt, loans>>
  BY <1>3 DEF Weigh, StartPaying, PayProducer, EndPaying, SetPrice, CloseMarkets,
     CutCosts, Invest, creditVars
<1>4. ASSUME \/ \E p \in People, c \in Companies : Hire(p, c)
             \/ \E p \in People : NoJob(p)
             \/ \E i \in DOMAIN loans : SkipLoan(i)
             \/ \E c \in Companies, batch \in Batches : Produce(c, batch)
             \/ \E c \in Companies, load \in Loads : RunPlant(c, load)
             \/ \E output \in [Utilities -> Outputs] : FillMains(output)
      PROVE  UNCHANGED <<debt, loans>>
  BY <1>4 DEF Hire, NoJob, SkipLoan, Produce, RunPlant, FillMains, creditVars
<1>5. ASSUME \/ \E h \in Households, order \in Orders : HouseholdBuys(h, order)
             \/ \E p \in Cohorts, order \in Orders : CohortBuys(p, order)
             \/ \E p \in Cohorts : SettleCohort(p)
             \/ \E p \in Cohorts, order \in Orders : SpendRest(p, order)
             \/ \E c \in Companies, cost \in {0, Funding} : FundResearch(c, cost)
             \/ EndHour
             \/ NextSystem
      PROVE  UNCHANGED <<debt, loans>>
  BY <1>5 DEF HouseholdBuys, CohortBuys, SettleCohort, SpendRest, FundResearch,
     EndHour, NextSystem, creditVars
<1> QED
  BY <1>1, <1>2, <1>3, <1>4, <1>5 DEF Next

\* Lending adds to the debt what it adds to the loans.
LEMMA BorrowStep ==
    ASSUME IInv, debt \in [Companies -> Nat], DebtMatchesLoans,
           NEW c \in Companies, NEW kept \in Kept(c), Borrow(c, kept)
    PROVE  debt' \in [Companies -> Nat] /\ DebtMatchesLoans'
<1> DEFINE amount == WageBill(c) * BorrowDays
           loan   == [borrower |-> c, outstanding |-> amount,
                      payment |-> amount \div Payments, missed |-> 0,
                      defaulted |-> FALSE, due |-> pass + 1]
<1>1. /\ loans' = Append(loans, loan) /\ debt' = [debt EXCEPT ![c] = @ + amount]
      /\ amount > 0
  BY DEF Borrow
<1>2. amount \in Nat
  <2>1. WageBill(c) \in Int /\ BorrowDays \in Nat
    BY WageBillType, EconomyAssumption
  <2>2. amount \in Int
    BY <2>1
  <2> HIDE DEF amount
  <2> QED
    BY <1>1, <2>2
<1>3. amount \div Payments \in Nat
  <2>1. Payments \in Nat \ {0}
    BY EconomyAssumption
  <2> HIDE DEF amount
  <2> QED
    BY <1>2, <2>1
<1>4. pass + 1 \in Nat /\ FALSE \in BOOLEAN /\ loans \in Seq(Loan)
  BY DEF IInv, LoopTyped, BooksTyped
<1>5. loan \in Loan /\ ~loan.defaulted /\ loan.borrower = c /\ loan.outstanding = amount
  <2> HIDE DEF amount
  <2> QED
    BY <1>2, <1>3, <1>4 DEF Loan
<1> HIDE DEF loan, amount
<1>6. ASSUME NEW d \in Companies PROVE debt'[d] = OwedBy(d, loans')
  <2>1. OwedBy(d, Append(loans, loan))
          = OwedBy(d, loans) + (IF loan.borrower = d THEN loan.outstanding ELSE 0)
    BY <1>4, <1>5, OwedMore
  <2>2. debt[d] = OwedBy(d, loans) /\ debt[d] \in Nat
    BY DEF DebtMatchesLoans
  <2>3. debt'[d] = IF d = c THEN debt[d] + amount ELSE debt[d]
    BY <1>1
  <2> QED
    BY <1>1, <1>5, <2>1, <2>2, <2>3
<1>7. debt' \in [Companies -> Nat]
  BY <1>1, <1>2
<1> QED
  BY <1>6, <1>7 DEF DebtMatchesLoans

\* The bank reads the debt off the loans again after each payment, and a payment
\* touches no other company's loans.
LEMMA ServiceStep ==
    ASSUME IInv, debt \in [Companies -> Nat], DebtMatchesLoans,
           NEW i \in DOMAIN loans, ServiceLoan(i)
    PROVE  debt' \in [Companies -> Nat] /\ DebtMatchesLoans'
<1> DEFINE loan == loans[i]
<1>1. loans \in Seq(Loan) /\ loan \in Loan
  BY DEF IInv, BooksTyped
<1>2. PICK after \in {PaidLoan(loan), MissedLoan(loan)} :
        loans' = [loans EXCEPT ![i] = after]
  BY DEF ServiceLoan
<1>3. debt' = [debt EXCEPT ![loan.borrower] = OwedBy(loan.borrower, loans')]
  BY DEF ServiceLoan
<1> HIDE DEF loan
<1>4. /\ after \in Loan /\ after.borrower = loan.borrower
      /\ loan.borrower \in Companies
  BY <1>1, <1>2, LoanType DEF Loan
<1>5. loans' \in Seq(Loan) /\ DOMAIN loans' = DOMAIN loans
  BY <1>1, <1>2, <1>4, ExceptSeq
<1>6. OwedBy(loan.borrower, loans') \in Nat
  BY <1>5, OwingType, OwedIs, SumOfNaturals
<1>7. ASSUME NEW c \in Companies PROVE debt'[c] = OwedBy(c, loans')
  <2>1. CASE c = loan.borrower
    BY <1>3, <2>1
  <2>2. CASE c # loan.borrower
    <3>1. \A j \in DOMAIN loans : j # i => loans'[j] = loans[j]
      BY <1>2
    <3>2. loans'[i] = after /\ loans[i] = loan
      BY <1>2 DEF loan
    <3>3. i \notin Owing(c, loans) /\ i \notin Owing(c, loans')
      BY <1>4, <2>2, <3>2 DEF Owing
    <3>4. Owing(c, loans') = Owing(c, loans)
      BY <1>5, <3>1, <3>3 DEF Owing
    <3>5. \A j \in Owing(c, loans) : loans'[j].outstanding = loans[j].outstanding
      BY <3>1, <3>3 DEF Owing
    <3>6. OwedBy(c, loans') = OwedBy(c, loans)
      BY <1>1, <1>5, <3>4, <3>5, OwedSame
    <3> QED
      BY <1>3, <2>2, <3>6 DEF DebtMatchesLoans
  <2> QED
    BY <2>1, <2>2
<1>8. debt' \in [Companies -> Nat]
  BY <1>3, <1>6
<1> QED
  BY <1>7, <1>8 DEF DebtMatchesLoans

\* What the companies' debts are and what the bank's loans say, together.
DebtInv == debt \in [Companies -> Nat] /\ DebtMatchesLoans

\* Nobody owes anything to begin with.
LEMMA InitDebt == Init => DebtInv
<1> SUFFICES ASSUME Init PROVE DebtInv
  OBVIOUS
<1>1. loans = <<>> /\ <<>> \in Seq(Loan) /\ DOMAIN <<>> = {}
  BY DEF Init
<1>2. \A c \in Companies : Owing(c, loans) = {}
  BY <1>1 DEF Owing
<1>3. \A c \in Companies : OwedBy(c, loans) = 0
  BY <1>1, <1>2, OwedIs, SumOfNone
<1>4. debt = [c \in Companies |-> 0]
  BY DEF Init
<1> QED
  BY <1>3, <1>4 DEF DebtInv, DebtMatchesLoans

\* Every step keeps the two in agreement.
LEMMA NextDebt == IInv /\ DebtInv /\ [Next]_vars => DebtInv'
<1> SUFFICES ASSUME IInv, DebtInv, [Next]_vars PROVE DebtInv'
  OBVIOUS
<1>1. CASE UNCHANGED <<debt, loans>>
  BY <1>1 DEF DebtInv, DebtMatchesLoans
<1> QED
  BY <1>1, OnlyCredit, BorrowStep, ServiceStep DEF DebtInv

\* Company.debt_minor always is what the bank's loans to it say.
THEOREM DebtIsWhatLoansSay == Spec => []DebtMatchesLoans
<1>1. DebtInv => DebtMatchesLoans
  BY DEF DebtInv
<1> QED
  BY <1>1, InitIInv, NextIInv, InitDebt, NextDebt, PTL DEF Spec

\* All of TypeOK.
THEOREM TypeCorrect == Spec => []TypeOK
<1>1. IInv /\ DebtInv => TypeOK
  BY DEF IInv, DebtInv, TypeOK
<1> QED
  BY <1>1, InitIInv, NextIInv, InitDebt, NextDebt, PTL DEF Spec
-----------------------------------------------------------------------------

\* While the producers are weighed the total is the sum of the weights taken so
\* far, and those still to be weighed have none; nobody has one before or after.
WeightsAddUp ==
    /\ weight = Sum(weights, Companies)
    /\ phase = "weigh" => \A c \in todo : weights[c] = 0
    /\ phase \notin {"weigh", "pay"} => \A c \in Companies : weights[c] = 0

\* The producers' shares of the pot.
Shares == [c \in Companies |-> Share(c)]

\* SharesCovered, with the sum over the function.
SharesHeld == phase = "pay" => balance[Escrow] >= Sum(Shares, todo)

\* The sum of SharesCovered is the sum of that function.
LEMMA SharesAre ==
    ASSUME IInv, phase = "pay"
    PROVE  MapThenSumSet(Share, todo) = Sum(Shares, todo)
<1> DEFINE Recurs(g) == g = [s \in SUBSET todo |->
                               IF s = {} THEN 0
                               ELSE Share(Pick(s)) + g[s \ {Pick(s)}]]
           chosen == CHOOSE g : Recurs(g)
<1>1. MapThenSumSet(Share, todo) = chosen[todo]
  BY DEF MapThenSumSet, MapThenFoldSet, Pick
<1>2. todo \subseteq Companies /\ IsFiniteSet(todo)
  BY EconomyAssumption, FS_Subset DEF IInv, LoopTyped, FirmsTyped
<1>3. ASSUME NEW g PROVE Folds(g, Shares, todo) <=> Recurs(g)
  <2>1. ASSUME NEW s \in SUBSET todo, s # {} PROVE Shares[Pick(s)] = Share(Pick(s))
    BY <1>2, <2>1 DEF Pick, Shares
  <2> HIDE DEF Shares
  <2>2. [s \in SUBSET todo |-> IF s = {} THEN 0 ELSE Shares[Pick(s)] + g[s \ {Pick(s)}]]
      = [s \in SUBSET todo |-> IF s = {} THEN 0 ELSE Share(Pick(s)) + g[s \ {Pick(s)}]]
    BY <2>1
  <2> QED
    BY <2>2 DEF Folds
<1>4. Numbers(Shares, todo)
  <2>1. ASSUME NEW c \in todo PROVE Shares[c] \in Int
    <3>1. pot \in Nat /\ weight \in Nat \ {0} /\ weights[c] \in Nat
      BY <1>2 DEF IInv, MarketTyped, PotKept
    <3>2. Share(c) \in Int
      BY <3>1, ShareIsPart DEF Share
    <3> QED
      BY <1>2, <3>2 DEF Shares
  <2> QED
    BY <2>1 DEF Numbers
<1>5. PICK h : Folds(h, Shares, todo) /\ Sum(Shares, todo) = h[todo]
  BY <1>2, <1>4, SomethingFolds, SumFolds, Zenon
<1>6. Recurs(chosen)
  BY <1>3, <1>5, Zenon
<1> HIDE DEF chosen
<1>7. Folds(chosen, Shares, todo)
  BY <1>3, <1>6
<1>8. todo \in SUBSET todo
  OBVIOUS
<1>9. chosen[todo] = h[todo]
  BY <1>2, <1>4, <1>5, <1>7, <1>8, FoldsAgree
<1> QED
  BY <1>1, <1>5, <1>9

\* Only settle_producers weighs and pays.
LEMMA OnlyProducers ==
    ASSUME Next
    PROVE  \/ /\ UNCHANGED <<weight, weights>>
              /\ phase \notin {"weigh", "pay"} /\ phase' # "pay"
           \/ \E c \in Companies : Weigh(c) \/ PayProducer(c)
           \/ StartPaying \/ EndPaying
<1>1. ASSUME \/ \E p \in Residents, c \in Companies : FoundCompany(p, c)
             \/ \E p \in Residents : BuyFood(p)
             \/ EndAgents
             \/ \E p \in Cohorts : PayPublicWage(p)
             \/ phase = "procurement" /\ \E order \in todo : Procure(order)
             \/ \E k \in Policies : PayPolicy(k)
             \/ \E c \in Companies, p \in People : PayWage(c, p)
             \/ \E p \in People : PayBenefit(p)
             \/ \E h \in Households : PayRent(h)
             \/ \E c \in Companies, due \in Dues : CollectTax(c, due)
      PROVE  /\ UNCHANGED <<weight, weights>>
             /\ phase \notin {"weigh", "pay"} /\ phase' # "pay"
  BY <1>1 DEF FoundCompany, BuyFood, EndAgents, PayPublicWage, Procure, PayPolicy,
     PayWage, PayBenefit, PayRent, CollectTax, Done, Enter, settleVars
<1>2. ASSUME \/ \E g \in Goods, newPrice \in Prices : SetPrice(g, newPrice)
             \/ CloseMarkets
             \/ \E c \in Companies : \E kept \in Kept(c) : CutCosts(c, kept)
             \/ \E c \in Companies : \E kept \in Kept(c) : Borrow(c, kept)
             \/ \E c \in Companies : \E kept \in Kept(c) : Invest(c, kept)
      PROVE  /\ UNCHANGED <<weight, weights>>
             /\ phase \notin {"weigh", "pay"} /\ phase' # "pay"
  BY <1>2 DEF SetPrice, CloseMarkets, CutCosts, Borrow, Invest, Done, Enter, Pricing,
     settleVars
<1>3. ASSUME \/ \E p \in People, c \in Companies : Hire(p, c)
             \/ \E p \in People : NoJob(p)
             \/ \E i \in DOMAIN loans : ServiceLoan(i)
             \/ \E i \in DOMAIN loans : SkipLoan(i)
             \/ \E c \in Companies, batch \in Batches : Produce(c, batch)
             \/ \E c \in Companies, load \in Loads : RunPlant(c, load)
             \/ \E output \in [Utilities -> Outputs] : FillMains(output)
      PROVE  /\ UNCHANGED <<weight, weights>>
             /\ phase \notin {"weigh", "pay"} /\ phase' # "pay"
  BY <1>3 DEF Hire, NoJob, ServiceLoan, SkipLoan, Produce, RunPlant, FillMains, Done,
     Enter, settleVars
<1>4. ASSUME \/ \E h \in Households, order \in Orders : HouseholdBuys(h, order)
             \/ \E p \in Cohorts, order \in Orders : CohortBuys(p, order)
             \/ \E p \in Cohorts : SettleCohort(p)
             \/ \E p \in Cohorts, order \in Orders : SpendRest(p, order)
             \/ \E c \in Companies, cost \in {0, Funding} : FundResearch(c, cost)
             \/ EndHour
             \/ NextSystem
      PROVE  /\ UNCHANGED <<weight, weights>>
             /\ phase \notin {"weigh", "pay"} /\ phase' # "pay"
  BY <1>4 DEF HouseholdBuys, CohortBuys, SettleCohort, SpendRest, FundResearch,
     EndHour, NextSystem, Done, Enter, settleVars
<1> QED
  BY <1>1, <1>2, <1>3, <1>4 DEF Next

\* When nobody has a weight the sum is nothing, and the other way round.
LEMMA NoWeights ==
    ASSUME NEW w, \A c \in Companies : w[c] = 0
    PROVE  Sum(w, Companies) = 0
<1> DEFINE T == {s \in SUBSET Companies : Sum(w, s) = 0}
<1>1. {} \in T
  BY SumOfNone
<1>2. ASSUME NEW s \in SUBSET Companies, s \in T, NEW c \in Companies \ s
      PROVE  s \cup {c} \in T
  <2>1. IsFiniteSet(s)
    BY EconomyAssumption, FS_Subset
  <2>2. Numbers(w, s \cup {c}) /\ c \notin s
    BY DEF Numbers
  <2>3. Sum(w, s \cup {c}) = w[c] + Sum(w, s)
    BY <2>1, <2>2, SumWith
  <2> QED
    BY <1>2, <2>3
<1>3. \A s \in SUBSET Companies : s \in T
  <2> HIDE DEF T
  <2> QED
    BY <1>1, <1>2, EconomyAssumption, SubsetInduction
<1>4. Companies \in T
  BY <1>3
<1> QED
  BY <1>4

\* A weight that was not taken yet is added to the total.
LEMMA WeighStep ==
    ASSUME IInv, IInv', WeightsAddUp, NEW c \in Companies, Weigh(c)
    PROVE  WeightsAddUp' /\ SharesHeld'
<1> DEFINE value == supplied[c] * price[Product[c]]
<1>1. /\ weights' = [weights EXCEPT ![c] = value] /\ weight' = weight + value
      /\ c \in todo /\ todo' = todo \ {c} /\ phase = "weigh" /\ phase' = "weigh"
  BY DEF Weigh, IsNext, Done
<1>2. weights \in [Companies -> Nat] /\ value \in Nat /\ weights[c] = 0
  <2>1. supplied[c] \in Nat /\ price[Product[c]] \in Nat
    BY EconomyAssumption DEF IInv, MarketTyped
  <2> QED
    BY <1>1, <2>1 DEF IInv, MarketTyped, WeightsAddUp
<1> HIDE DEF value
<1>3. weight' = Sum(weights', Companies)
  <2>1. IsFiniteSet(Companies) /\ IsFiniteSet(Companies \ {c})
    BY EconomyAssumption, FS_RemoveElement
  <2>2. Numbers(weights, Companies) /\ Numbers(weights', Companies)
    BY <1>1, <1>2 DEF Numbers
  <2>3. /\ Sum(weights, Companies) = weights[c] + Sum(weights, Companies \ {c})
        /\ Sum(weights', Companies) = weights'[c] + Sum(weights', Companies \ {c})
        /\ Sum(weights, Companies \ {c}) \in Int
    BY <2>1, <2>2, SumWithout
  <2>4. \A d \in Companies \ {c} : weights[d] = weights'[d]
    BY <1>1, <1>2
  <2>5. Numbers(weights, Companies \ {c})
    BY <2>2 DEF Numbers
  <2>6. Sum(weights, Companies \ {c}) = Sum(weights', Companies \ {c})
    BY <2>1, <2>4, <2>5, SumOfSame
  <2>7. weights'[c] = value /\ weight = Sum(weights, Companies)
    BY <1>1, <1>2 DEF WeightsAddUp
  <2> QED
    BY <1>1, <1>2, <2>3, <2>6, <2>7
<1>4. \A d \in todo' : weights'[d] = 0
  <2>1. todo \subseteq Companies
    BY <1>1 DEF IInv, LoopTyped, FirmsTyped
  <2> QED
    BY <1>1, <1>2, <2>1 DEF WeightsAddUp
<1> QED
  BY <1>1, <1>3, <1>4 DEF WeightsAddUp, SharesHeld

\* The pot is all there is in escrow, and the shares of it are no more.
LEMMA StartPayingStep ==
    ASSUME IInv, IInv', WeightsAddUp, StartPaying
    PROVE  WeightsAddUp' /\ SharesHeld'
<1>1. CASE balance[Escrow] =< 0 \/ weight = 0
  <2>1. /\ weight' = 0 /\ weights' = [c \in Companies |-> 0] /\ phase' \in Pricing
    BY <1>1 DEF StartPaying, Forget, Enter
  <2>2. \A c \in Companies : weights'[c] = 0
    BY <2>1
  <2>3. Sum(weights', Companies) = 0
    BY <2>2, NoWeights
  <2> QED
    BY <2>1, <2>2, <2>3 DEF WeightsAddUp, SharesHeld, Pricing
<1>2. CASE ~(balance[Escrow] =< 0 \/ weight = 0)
  <2> DEFINE D == {c \in firms : weights[c] > 0}
  <2>1. /\ pot' = balance[Escrow] /\ phase' = "pay" /\ todo' = D
        /\ UNCHANGED <<weight, weights>> /\ balance' = balance
    BY <1>2 DEF StartPaying, Enter, moneyVars
  <2>2. WeightsAddUp'
    BY <2>1 DEF WeightsAddUp
  <2>3. /\ weights \in [Companies -> Nat] /\ weight \in Nat \ {0}
        /\ balance[Escrow] \in Nat /\ D \in SUBSET Companies /\ IsFiniteSet(Companies)
    <3>1. balance[Escrow] \in Int
      BY DEF IInv, BooksTyped, Accounts, Institutions
    <3>2. IsFiniteSet(Companies)
      BY EconomyAssumption
    <3> QED
      BY <1>2, <3>1, <3>2 DEF IInv, MarketTyped, FirmsTyped
  <2> HIDE DEF D
  <2>4. Sum(weights, D) =< weight
    <3>1. \A c \in Companies : weights[c] \in Nat
      BY <2>3
    <3> QED
      BY <2>3, <3>1, SumOfPart DEF WeightsAddUp
  <2> DEFINE shares == [c \in Companies |-> (balance[Escrow] * weights[c]) \div weight]
  <2>5. Sum(shares, D) =< balance[Escrow]
    <3>1. Sum([c \in Companies |-> (balance[Escrow] * weights[c]) \div weight], D)
            =< balance[Escrow]
      BY <2>3, <2>4, SumOfShares
    <3> QED
      BY <3>1
  <2>6. Shares' = shares
    BY <2>1 DEF Shares, Share
  <2> HIDE DEF shares
  <2>7. Sum(Shares', todo') =< balance'[Escrow]
    BY <2>1, <2>5, <2>6
  <2>8. Sum(Shares', todo') \in Int /\ balance'[Escrow] \in Int
    <3>1. IsFiniteSet(D)
      BY <2>3, FS_Subset
    <3>2. ASSUME NEW c \in D PROVE shares[c] \in Int
      <4>1. c \in Companies /\ weights[c] \in Nat
        BY <2>3
      <4>2. (balance[Escrow] * weights[c]) \div weight \in Nat
        BY <2>3, <4>1, ShareIsPart
      <4> QED
        BY <4>1, <4>2 DEF shares
    <3>3. Sum(shares, D) \in Int
      BY <3>1, <3>2, SumIsInt DEF Numbers
    <3> QED
      BY <2>1, <2>3, <2>6, <3>3
  <2> QED
    BY <2>2, <2>7, <2>8 DEF SharesHeld
<1> QED
  BY <1>1, <1>2

\* A producer is paid its share, or nothing; the others' are left.
LEMMA PayProducerStep ==
    ASSUME IInv, IInv', WeightsAddUp, SharesHeld, NEW c \in Companies, PayProducer(c)
    PROVE  WeightsAddUp' /\ SharesHeld'
<1>1. /\ phase = "pay" /\ phase' = "pay" /\ c \in todo /\ todo' = todo \ {c}
      /\ UNCHANGED <<pot, weight, weights>>
      /\ balance' = Transfer(balance, overdraft, Escrow, c, Share(c))
  BY DEF PayProducer, IsNext, Done
<1>2. WeightsAddUp'
  BY <1>1 DEF WeightsAddUp
<1>3. Shares' = Shares
  BY <1>1 DEF Shares, Share
<1>4. todo \subseteq Companies /\ IsFiniteSet(todo)
  BY <1>1, EconomyAssumption, FS_Subset DEF IInv, LoopTyped, FirmsTyped
<1>5. ASSUME NEW d \in Companies PROVE Shares[d] = Share(d) /\ Share(d) \in Nat
  <2>1. pot \in Nat /\ weight \in Nat \ {0} /\ weights[d] \in Nat
    BY <1>1 DEF IInv, MarketTyped, PotKept
  <2> QED
    BY <2>1, ShareIsPart DEF Share, Shares
<1>6. Numbers(Shares, todo)
  <2>1. ASSUME NEW d \in todo PROVE Shares[d] \in Int
    BY <1>4, <1>5
  <2> QED
    BY <2>1 DEF Numbers
<1>7. /\ Sum(Shares, todo) = Shares[c] + Sum(Shares, todo \ {c})
      /\ Sum(Shares, todo \ {c}) \in Int
  BY <1>1, <1>4, <1>6, SumWithout
<1>8. balance'[Escrow] \in {balance[Escrow], balance[Escrow] - Share(c)}
  <2>1. Escrow # c /\ Escrow \in Accounts /\ c \in Accounts /\ balance \in [Accounts -> Int]
    BY EconomyAssumption DEF Accounts, Institutions, IInv, BooksTyped
  <2> QED
    BY <1>1, <2>1 DEF Transfer
<1>9. balance[Escrow] \in Int /\ balance[Escrow] >= Sum(Shares, todo)
  BY <1>1 DEF IInv, BooksTyped, Accounts, Institutions, SharesHeld
<1>10. balance'[Escrow] >= Sum(Shares', todo')
  <2>1. Sum(Shares', todo') = Sum(Shares, todo \ {c})
    BY <1>1, <1>3
  <2> QED
    BY <1>5, <1>7, <1>8, <1>9, <2>1
<1> QED
  BY <1>2, <1>10 DEF SharesHeld

\* What is known of the producers' shares.
ShareInv == WeightsAddUp /\ SharesHeld

\* Before the first hour nobody has a weight.
LEMMA InitShares == Init => ShareInv
<1> SUFFICES ASSUME Init PROVE ShareInv
  OBVIOUS
<1>1. weight = 0 /\ weights = [c \in Companies |-> 0] /\ phase = "grid"
  BY DEF Init
<1>2. \A c \in Companies : weights[c] = 0
  BY <1>1
<1>3. Sum(weights, Companies) = 0
  BY <1>2, NoWeights
<1> QED
  BY <1>1, <1>2, <1>3 DEF ShareInv, WeightsAddUp, SharesHeld

\* Every step keeps the shares in the escrow.
LEMMA NextShares == IInv /\ IInv' /\ ShareInv /\ [Next]_vars => ShareInv'
<1> SUFFICES ASSUME IInv, IInv', ShareInv, [Next]_vars PROVE ShareInv'
  OBVIOUS
<1>1. CASE UNCHANGED vars
  <2>1. UNCHANGED <<balance, phase, todo, pot, weight, weights>>
    BY <1>1 DEF vars, moneyVars, settleVars
  <2>2. Shares' = Shares
    BY <2>1 DEF Shares, Share
  <2> QED
    BY <2>1, <2>2 DEF ShareInv, WeightsAddUp, SharesHeld
<1>2. CASE /\ UNCHANGED <<weight, weights>>
           /\ phase \notin {"weigh", "pay"} /\ phase' # "pay"
  <2>1. phase' = "weigh" => todo' \subseteq Companies
    BY DEF IInv, LoopTyped, FirmsTyped
  <2> QED
    BY <1>2, <2>1 DEF ShareInv, WeightsAddUp, SharesHeld
<1>3. CASE EndPaying
  <2>1. /\ weight' = 0 /\ weights' = [c \in Companies |-> 0] /\ phase' \in Pricing
    BY <1>3 DEF EndPaying, Forget, Enter
  <2>2. \A c \in Companies : weights'[c] = 0
    BY <2>1
  <2>3. Sum(weights', Companies) = 0
    BY <2>2, NoWeights
  <2> QED
    BY <2>1, <2>2, <2>3 DEF ShareInv, WeightsAddUp, SharesHeld, Pricing
<1> QED
  BY <1>1, <1>2, <1>3, OnlyProducers, WeighStep, StartPayingStep, PayProducerStep
     DEF ShareInv

\* While the producers are paid, the escrow holds every share still to come, for
\* any firms, weights and pot: whole shares add up to no more than the pot.
THEOREM SharesAreCovered == Spec => []SharesCovered
<1>1. IInv /\ ShareInv => SharesCovered
  BY SharesAre DEF ShareInv, SharesHeld, SharesCovered
<1> QED
  BY <1>1, InitIInv, NextIInv, InitShares, NextShares, PTL DEF Spec

\* The books balance: money is conserved, debts are what the loans say, and the
\* producers' shares are covered.
THEOREM BooksAreBalanced == Spec => []BooksBalance
<1>1. MoneyConserved /\ DebtMatchesLoans /\ SharesCovered => BooksBalance
  BY DEF BooksBalance
<1> QED
  BY <1>1, MoneyIsConserved, DebtIsWhatLoansSay, SharesAreCovered, PTL
-----------------------------------------------------------------------------

\* Rounding keeps a fraction between the whole numbers it lies between.
LEMMA RoundNear ==
    ASSUME NEW n \in Nat, NEW d \in Nat \ {0}
    PROVE  /\ Round(n, d) \in Nat
           /\ \A k \in Nat : (k * d =< n => k =< Round(n, d)) /\ (n =< k * d => Round(n, d) =< k)
<1>1. PICK q \in Nat, r \in Nat : q = n \div d /\ r = n % d /\ n = q * d + r /\ r < d
  OBVIOUS
<1>2. Round(n, d) = IF 2 * r > d \/ (2 * r = d /\ q % 2 = 1) THEN q + 1 ELSE q
  BY <1>1 DEF Round
<1>3. Round(n, d) \in {q, q + 1}
  BY <1>2
<1>4. ASSUME NEW k \in Nat, k * d =< n PROVE k =< Round(n, d)
  <2>1. SUFFICES ASSUME q + 1 =< k PROVE FALSE
    BY <1>1, <1>3
  <2>2. (q + 1) * d =< k * d
    BY <2>1
  <2>3. (q + 1) * d = q * d + d /\ q * d \in Nat /\ k * d \in Nat
    OBVIOUS
  <2> QED
    BY <1>1, <1>4, <2>2, <2>3
<1>5. ASSUME NEW k \in Nat, n =< k * d PROVE Round(n, d) =< k
  <2>1. CASE q + 1 =< k
    BY <1>1, <1>3, <2>1
  <2>2. CASE k < q
    <3>1. (k + 1) * d =< q * d
      BY <2>2
    <3>2. (k + 1) * d = k * d + d /\ q * d \in Nat /\ k * d \in Nat
      OBVIOUS
    <3> QED
      BY <1>1, <1>5, <3>1, <3>2
  <2>3. CASE k = q
    <3>1. q * d \in Nat
      OBVIOUS
    <3>2. r = 0
      BY <1>1, <1>5, <2>3, <3>1
    <3>3. ~(2 * r > d) /\ 2 * r # d
      BY <3>2
    <3> QED
      BY <1>2, <2>3, <3>3
  <2> QED
    BY <1>1, <2>1, <2>2, <2>3
<1> QED
  BY <1>1, <1>3, <1>4, <1>5

\* A product of two factors none of which is more than another's.
LEMMA TimesUp ==
    ASSUME NEW a \in Nat, NEW b \in Nat, NEW c \in Nat, a =< b
    PROVE  a * c =< b * c /\ c * a =< c * b /\ a * c \in Nat /\ b * c \in Nat
OBVIOUS

\* An export is worth no more than the goods cost at home.
LEMMA ExportIsCheap ==
    ASSUME NEW units \in Nat, NEW low \in Nat, NEW high \in Nat, low =< high
    PROVE  /\ ExportValue(units, low) \in Nat
           /\ ExportValue(units, low) =< ExportValue(units, high)
           /\ ExportValue(units, high) =< units * high
<1>1. ExportPct \in Nat /\ ExportPct =< 100
  BY EconomyAssumption
<1>2. units * low =< units * high /\ units * low \in Nat /\ units * high \in Nat
  BY TimesUp
<1>3. PICK l \in Nat, h \in Nat : l = units * low /\ h = units * high /\ l =< h
  BY <1>2
<1>4. l * ExportPct =< h * ExportPct /\ l * ExportPct \in Nat /\ h * ExportPct \in Nat
  BY <1>1, <1>3, TimesUp
<1>5. h * ExportPct =< h * 100
  BY <1>1, TimesUp
<1> QED
  BY <1>3, <1>4, <1>5 DEF ExportValue

\* What a bill takes from the buyer for the escrow is what the buyer has, and is
\* worth the goods that leave the stock, all of them or the part that is afforded.
LEMMA BillPays ==
    ASSUME IInv, NEW buyer \in Accounts, NEW good \in Goods,
           NEW quantity \in Nat, NEW wanted \in Nat, NEW vat \in Nat,
           NEW mayImport \in BOOLEAN
    PROVE  LET bill == Bill(buyer, good, quantity, wanted, vat, mayImport)
           IN  /\ bill.domestic \in Nat
               /\ bill.domestic =< Available(balance, overdraft, buyer)
               /\ ExportValue(bill.units, price[good]) =< bill.domestic
<1> DEFINE filled   == Smaller(quantity, inventory[good])
           short    == 2 * inventory[good] < wanted
           imported == IF mayImport /\ short /\ good \in Importable
                       THEN quantity - filled ELSE 0
           full     == price[good] * (100 * filled + PremiumPct * imported)
           gross    == Round(full, 100)
           tax      == Round(gross * vat, 100)
           due      == gross + tax
           purse    == Available(balance, overdraft, buyer)
           scaled   == Round(full * purse, 100 * due)
           domestic == Round(price[good] * filled * purse, due)
           whole    == [units |-> filled, domestic |-> price[good] * filled,
                        foreign |-> gross - price[good] * filled, tax |-> tax]
           part     == [units |-> (filled * purse) \div due, domestic |-> domestic,
                        foreign |-> scaled - domestic,
                        tax |-> Round(scaled * vat, 100)]
<1>1. /\ filled \in Nat /\ imported \in Nat /\ price[good] \in Nat /\ PremiumPct \in Nat
  BY EconomyAssumption DEF IInv, MarketTyped, Smaller
<1>2. PICK cost \in Nat : cost = price[good] * filled
  BY <1>1
<1>3. full \in Nat /\ cost * 100 =< full
  <2>1. PICK extra \in Nat : extra = PremiumPct * imported
    BY <1>1
  <2>2. full = price[good] * (100 * filled + extra)
    BY <2>1
  <2> HIDE DEF full, filled, imported
  <2>3. price[good] * (100 * filled + extra) = 100 * (price[good] * filled) + price[good] * extra
    BY <1>1
  <2>4. price[good] * extra \in Nat
    BY <1>1
  <2> QED
    BY <1>2, <2>2, <2>3, <2>4
<1>4. gross \in Nat /\ cost =< gross
  <2> HIDE DEF full
  <2> QED
    BY <1>2, <1>3, RoundNear
<1>5. tax \in Nat
  <2> HIDE DEF gross
  <2>1. gross * vat \in Nat
    BY <1>4
  <2> QED
    BY <2>1, RoundNear
<1>6. due \in Nat /\ cost =< due /\ purse \in Nat
  <2>1. purse \in Nat
    BY DEF IInv, BooksTyped, WithinOverdraft, Available
  <2> HIDE DEF gross, tax
  <2> QED
    BY <1>4, <1>5, <2>1
<1>7. CASE due =< purse
  <2>1. Bill(buyer, good, quantity, wanted, vat, mayImport) = whole
    BY <1>7 DEF Bill
  <2> HIDE DEF filled, due, purse
  <2>2. ExportValue(filled, price[good]) =< filled * price[good] /\ ExportValue(filled, price[good]) \in Nat
    <3>1. price[good] =< price[good]
      BY <1>1
    <3> QED
      BY <1>1, <3>1, ExportIsCheap
  <2>3. filled * price[good] = cost
    BY <1>1, <1>2
  <2>4. whole.units = filled /\ whole.domestic = cost
    BY <1>2
  <2> HIDE DEF whole
  <2>5. cost =< purse
    BY <1>2, <1>6, <1>7
  <2> QED
    BY <1>2, <2>1, <2>2, <2>3, <2>4, <2>5 DEF purse
<1>8. CASE ~(due =< purse)
  <2>1. Bill(buyer, good, quantity, wanted, vat, mayImport) = part
    BY <1>8 DEF Bill
  <2>2. part.units = (filled * purse) \div due /\ part.domestic = Round(cost * purse, due)
    BY <1>2
  <2> HIDE DEF filled, due, purse, part, imported
  <2>3. due \in Nat \ {0}
    BY <1>6, <1>8
  <2>4. cost * purse =< due * purse /\ cost * purse \in Nat /\ due * purse = purse * due
    BY <1>2, <1>6, TimesUp
  <2>5. /\ Round(cost * purse, due) \in Nat /\ Round(cost * purse, due) =< purse
        /\ \A k \in Nat : k * due =< cost * purse => k =< Round(cost * purse, due)
    BY <1>6, <2>3, <2>4, RoundNear
  <2>6. filled * purse \in Nat
    BY <1>1, <1>6
  <2>7. PICK u \in Nat : u = (filled * purse) \div due /\ u * due =< filled * purse
    BY <2>3, <2>6
  <2>8. price[good] * (u * due) =< price[good] * (filled * purse)
    BY <1>1, <2>3, <2>6, <2>7, TimesUp
  <2>9. price[good] * (u * due) = (u * price[good]) * due /\ u * price[good] \in Nat
    BY <1>1, <2>3
  <2>10. price[good] * (filled * purse) = cost * purse
    BY <1>1, <1>2, <1>6
  <2>11. u * price[good] =< Round(cost * purse, due)
    BY <2>5, <2>8, <2>9, <2>10
  <2>12. ExportValue(u, price[good]) \in Nat /\ ExportValue(u, price[good]) =< u * price[good]
    <3>1. price[good] =< price[good]
      BY <1>1
    <3> QED
      BY <1>1, <2>7, <3>1, ExportIsCheap
  <2>13. ExportValue(u, price[good]) =< Round(cost * purse, due)
    BY <2>5, <2>9, <2>11, <2>12
  <2> QED
    BY <2>1, <2>2, <2>5, <2>7, <2>13 DEF purse
<1> QED
  BY <1>7, <1>8

\* A buyer who has the money pays it to the escrow, and nothing else the buyer pays
\* is taken from there.
LEMMA SettlePays ==
    ASSUME IInv, NEW buyer \in Accounts \ {Escrow}, NEW bill,
           bill.domestic \in Nat, bill.foreign \in Int, bill.tax \in Int,
           bill.domestic =< Available(balance, overdraft, buyer)
    PROVE  LET b == Settle(balance, overdraft, buyer, bill)
           IN  b[Escrow] \in Int /\ b[Escrow] >= balance[Escrow] + bill.domestic
<1> DEFINE b1 == Transfer(balance, overdraft, buyer, Escrow, bill.domestic)
           b2 == Transfer(b1, overdraft, buyer, External, bill.foreign)
           b3 == Transfer(b2, overdraft, buyer, Treasury, bill.tax)
<1>0. {Escrow, External, Treasury} \subseteq Accounts /\ buyer # Escrow
  BY DEF Accounts, Institutions
<1>1. /\ b1 \in [Accounts -> Int] /\ \A a \in Accounts : b1[a] >= - overdraft[a]
  <2>1. bill.domestic \in Int /\ buyer \in Accounts
    OBVIOUS
  <2> QED
    BY <1>0, <2>1, TransferKeepsSolvent DEF IInv, BooksTyped, WithinOverdraft
<1>2. b1[Escrow] = balance[Escrow] + bill.domestic
  <2>1. CASE bill.domestic = 0
    <3>1. ~(bill.domestic > 0)
      BY <2>1
    <3> QED
      BY <1>0, <2>1, <3>1 DEF Transfer, IInv, BooksTyped
  <2>2. CASE bill.domestic # 0
    <3>1. bill.domestic > 0 /\ CanPay(balance, overdraft, buyer, bill.domestic)
      BY <2>2 DEF CanPay, Available, IInv, BooksTyped
    <3> QED
      BY <1>0, <3>1 DEF Transfer, IInv, BooksTyped
  <2> QED
    BY <2>1, <2>2
<1> HIDE DEF b1
<1>3. /\ b2 \in [Accounts -> Int] /\ \A a \in Accounts : b2[a] >= - overdraft[a]
      /\ b2[Escrow] >= b1[Escrow]
  BY <1>0, <1>1, TransferKeepsSolvent DEF IInv, BooksTyped
<1> HIDE DEF b2
<1>4. b3 \in [Accounts -> Int] /\ b3[Escrow] >= b2[Escrow]
  BY <1>0, <1>3, TransferKeepsSolvent DEF IInv, BooksTyped
<1>5. Settle(balance, overdraft, buyer, bill) = b3
  BY DEF Settle, b1, b2
<1> HIDE DEF b3
<1>6. b1[Escrow] \in Int /\ b2[Escrow] \in Int /\ b3[Escrow] \in Int /\ balance[Escrow] \in Int
  BY <1>0, <1>1, <1>3, <1>4 DEF IInv, BooksTyped
<1> QED
  BY <1>2, <1>3, <1>4, <1>5, <1>6

\* What a market pass at dawn takes away of a stock unsold.
Lost(g) ==
    IF phase = "dawn" /\ g \in todo \ todo' THEN inventory[g] - Unspoilt(g) ELSE 0

\* What is sold is paid for.
Paid(g) ==
    LET sold   == inventory[g] - Lost(g) - inventory'[g]
        lowest == Smaller(price[g], price'[g])
    IN  sold > 0 => balance'[Escrow] - balance[Escrow] >= ExportValue(sold, lowest)

\* A purchase of anybody but the escrow itself is paid for.
LEMMA PurchasePays ==
    ASSUME IInv, NEW buyer \in Accounts \ {Escrow}, NEW good \in Goods, NEW quantity \in Nat,
           NEW vat \in Nat, NEW mayImport \in BOOLEAN,
           Purchase(buyer, good, quantity, vat, mayImport), price' = price,
           phase # "dawn"
    PROVE  \A g \in Goods : Paid(g)
<1> DEFINE wanted == demand[good] + quantity
           bill   == Bill(buyer, good, quantity, wanted, vat, mayImport)
<1>1. wanted \in Nat /\ buyer \in Accounts
  BY DEF IInv, MarketTyped
<1>2. /\ inventory' = IF quantity = 0 THEN inventory
                      ELSE [inventory EXCEPT ![good] = @ - bill.units]
      /\ balance' = IF quantity = 0 THEN balance ELSE Settle(balance, overdraft, buyer, bill)
  BY DEF Purchase
<1> HIDE DEF wanted
<1>3. /\ bill.units \in Nat /\ bill.domestic \in Nat /\ bill.foreign \in Int /\ bill.tax \in Int
      /\ bill.domestic =< Available(balance, overdraft, buyer)
      /\ ExportValue(bill.units, price[good]) =< bill.domestic
  BY <1>1, BillType, BillPays
<1> HIDE DEF bill
<1>4. \A g \in Goods : inventory[g] \in Nat /\ price[g] \in Nat
  BY DEF IInv, MarketTyped
<1>5. inventory \in [Goods -> Nat] /\ price \in [Goods -> Nat \ {0}] /\ balance[Escrow] \in Int
  BY DEF IInv, MarketTyped, BooksTyped, Accounts, Institutions
<1>6. SUFFICES ASSUME NEW g \in Goods, inventory[g] - inventory'[g] > 0, Lost(g) = 0
      PROVE  Paid(g)
  <2>1. \A g \in Goods : Lost(g) = 0
    BY DEF Lost
  <2>2. ASSUME NEW g \in Goods, ~(inventory[g] - inventory'[g] > 0) PROVE Paid(g)
    <3>1. inventory'[g] \in Int
      BY <1>2, <1>3, <1>5
    <3>2. ~(inventory[g] - 0 - inventory'[g] > 0)
      BY <1>4, <2>2, <3>1
    <3> QED
      BY <2>1, <3>2 DEF Paid
  <2> QED
    BY <2>1, <2>2
<1>7. quantity # 0 /\ g = good /\ inventory[g] - inventory'[g] = bill.units
  BY <1>2, <1>3, <1>4, <1>5, <1>6
<1>8. /\ Settle(balance, overdraft, buyer, bill)[Escrow] \in Int
      /\ Settle(balance, overdraft, buyer, bill)[Escrow] >= balance[Escrow] + bill.domestic
  BY <1>3, SettlePays
<1>9. Smaller(price[g], price'[g]) = price[good]
  BY <1>4, <1>7 DEF Smaller
<1>10. ExportValue(bill.units, price[good]) \in Nat
  <2>1. price[good] =< price[good]
    BY <1>4
  <2> QED
    BY <1>3, <1>4, <2>1, ExportIsCheap
<1>11. balance'[Escrow] - balance[Escrow] >= ExportValue(bill.units, price[good])
  BY <1>2, <1>3, <1>5, <1>7, <1>8, <1>10
<1>12. inventory[g] - Lost(g) - inventory'[g] = bill.units
  <2>1. inventory[g] \in Int /\ inventory'[g] \in Int
    BY <1>2, <1>3, <1>5, <1>7
  <2> QED
    BY <1>6, <1>7, <2>1
<1> QED
  BY <1>9, <1>11, <1>12 DEF Paid

\* Nothing is sold where the stocks stay.
LEMMA NothingSold ==
    ASSUME IInv, inventory' = inventory PROVE \A g \in Goods : Paid(g)
<1>1. \A g \in Goods : inventory[g] \in Nat /\ Lost(g) \in Nat
  BY StockTyped DEF Lost
<1>2. \A g \in Goods : ~(inventory[g] - Lost(g) - inventory'[g] > 0)
  BY <1>1
<1> QED
  BY <1>2 DEF Paid

\* An export is paid for at the price it is made at, out of what has not perished.
LEMMA ExportPays ==
    ASSUME IInv, NEW good \in Goods, NEW newPrice \in Prices, SetPrice(good, newPrice)
    PROVE  \A g \in Goods : Paid(g)
<1> DEFINE stock == IF phase = "dawn" THEN Unspoilt(good) ELSE inventory[good]
           units == Surplus(good, stock)
           value == ExportValue(units, newPrice)
<1>0. stock \in Nat
  BY StockTyped
<1>1. /\ price' = [price EXCEPT ![good] = newPrice]
      /\ balance' = Transfer(balance, overdraft, External, Escrow, value)
      /\ inventory' =
           [inventory EXCEPT
               ![good] = IF value > 0 /\ CanPay(balance, overdraft, External, value)
                         THEN stock - units ELSE stock]
      /\ good \in todo /\ todo' = todo \ {good}
  BY DEF SetPrice, IsNext, Done
<1>11. /\ Lost(good) = inventory[good] - stock
       /\ \A g \in Goods \ {good} : Lost(g) = 0
  <2>1. inventory[good] \in Nat
    BY StockTyped
  <2> QED
    BY <1>1, <2>1 DEF Lost
<1> HIDE DEF stock
<1>2. /\ inventory \in [Goods -> Nat] /\ price \in [Goods -> Nat \ {0}] /\ newPrice \in Nat
      /\ balance \in [Accounts -> Int] /\ Escrow # External
      /\ {Escrow, External} \subseteq Accounts
  BY EconomyAssumption DEF IInv, MarketTyped, BooksTyped, Accounts, Institutions
<1>3. units \in Int
  <2>1. demand[good] \in Nat /\ ExportCover \in Nat
    BY EconomyAssumption DEF IInv, MarketTyped
  <2>2. ExportCover * demand[good] \in Nat
    BY <2>1
  <2> QED
    BY <1>0, <2>1, <2>2 DEF Surplus, Smaller
<1> HIDE DEF units
<1>4. value \in Int
  <2>1. ExportPct \in Nat /\ units * newPrice \in Int
    BY <1>2, <1>3, EconomyAssumption
  <2>2. units * newPrice * ExportPct \in Int
    BY <2>1
  <2> QED
    BY <2>2 DEF ExportValue
<1>5. SUFFICES ASSUME NEW g \in Goods, inventory[g] - Lost(g) - inventory'[g] > 0
      PROVE  Paid(g)
  BY DEF Paid
<1>6. /\ value > 0 /\ CanPay(balance, overdraft, External, value) /\ g = good
      /\ inventory[g] - Lost(g) - inventory'[g] = units /\ units \in Nat
  <2> HIDE DEF value
  <2>1. g = good
    <3>1. SUFFICES ASSUME g # good PROVE FALSE
      OBVIOUS
    <3>2. inventory'[g] = inventory[g] /\ inventory[g] \in Nat /\ Lost(g) = 0
      BY <1>1, <1>2, <1>11, <3>1
    <3> QED
      BY <1>5, <3>2
  <2>2. inventory[g] - Lost(g) = stock
    <3>1. inventory[good] \in Nat
      BY <1>2
    <3> QED
      BY <1>0, <1>11, <2>1, <3>1
  <2>3. stock - inventory'[good] > 0
    BY <1>5, <2>1, <2>2
  <2>4. value > 0 /\ CanPay(balance, overdraft, External, value)
    <3>1. SUFFICES ASSUME ~(value > 0 /\ CanPay(balance, overdraft, External, value))
          PROVE  FALSE
      OBVIOUS
    <3>2. inventory'[good] = stock
      BY <1>1, <1>2, <3>1
    <3> QED
      BY <1>0, <2>3, <3>2
  <2>5. inventory'[good] = stock - units
    BY <1>1, <1>2, <2>4
  <2>6. stock - inventory'[good] = units
    BY <1>0, <1>3, <2>5
  <2> QED
    BY <1>3, <2>1, <2>2, <2>3, <2>4, <2>6
<1>7. balance'[Escrow] - balance[Escrow] = value
  <2> HIDE DEF value
  <2>1. balance' = [[balance EXCEPT ![External] = @ - value] EXCEPT ![Escrow] = @ + value]
    BY <1>1, <1>6 DEF Transfer
  <2> QED
    BY <1>2, <1>4, <2>1
<1>8. /\ Smaller(price[g], price'[g]) \in Nat /\ Smaller(price[g], price'[g]) =< newPrice
  BY <1>1, <1>2, <1>6 DEF Smaller
<1>9. ExportValue(units, Smaller(price[g], price'[g])) =< value
  BY <1>2, <1>6, <1>8, ExportIsCheap
<1>10. ExportValue(units, Smaller(price[g], price'[g])) \in Nat
  BY <1>2, <1>6, <1>8, ExportIsCheap
<1> HIDE DEF value
<1> QED
  BY <1>4, <1>6, <1>7, <1>9, <1>10 DEF Paid

\* A firm pays for its inputs, and adds what it makes of them to another stock.
LEMMA ProducePays ==
    ASSUME IInv, NEW c \in Companies, NEW batch \in Batches, Produce(c, batch)
    PROVE  \A g \in Goods : Paid(g)
<1> DEFINE h      == Input[c]
           need   == batch.need
           output == batch.output
           wanted == demand[h] + need
           bill   == Bill(c, h, need, wanted, 0, TRUE)
<1>1. /\ Product[c] \in Goods /\ h \in Goods /\ h # Product[c] /\ need \in Nat /\ output \in Nat
      /\ price' = price /\ phase # "dawn"
  BY EconomyAssumption DEF Produce
<1>2. c \in Accounts \ {Escrow} /\ c \in Accounts
  BY EconomyAssumption DEF Accounts, Institutions
<1>3. /\ balance' = IF need = 0 THEN balance ELSE Settle(balance, overdraft, c, bill)
      /\ inventory' = [inventory EXCEPT ![h] = IF need = 0 THEN @ ELSE @ - bill.units,
                                        ![Product[c]] = @ + output]
  BY DEF Produce
<1>4. wanted \in Nat
  BY <1>1 DEF IInv, MarketTyped
<1> HIDE DEF wanted
<1>5. /\ bill.units \in Nat /\ bill.domestic \in Nat /\ bill.foreign \in Int /\ bill.tax \in Int
      /\ bill.domestic =< Available(balance, overdraft, c)
      /\ ExportValue(bill.units, price[h]) =< bill.domestic
  BY <1>1, <1>2, <1>4, BillType, BillPays
<1> HIDE DEF bill, h, need, output
<1>6. inventory \in [Goods -> Nat] /\ price \in [Goods -> Nat \ {0}] /\ balance[Escrow] \in Int
  BY DEF IInv, MarketTyped, BooksTyped, Accounts, Institutions
<1>14. inventory' \in [Goods -> Int]
  BY <1>1, <1>3, <1>5, <1>6
<1>7. SUFFICES ASSUME NEW g \in Goods, inventory[g] - inventory'[g] > 0, Lost(g) = 0
      PROVE  Paid(g)
  <2>1. \A g \in Goods : Lost(g) = 0
    BY <1>1 DEF Lost
  <2>2. ASSUME NEW g \in Goods, ~(inventory[g] - inventory'[g] > 0) PROVE Paid(g)
    <3>1. inventory[g] \in Int /\ inventory'[g] \in Int
      BY <1>6, <1>14
    <3>2. ~(inventory[g] - 0 - inventory'[g] > 0)
      BY <2>2, <3>1
    <3> QED
      BY <2>1, <3>2 DEF Paid
  <2> QED
    BY <2>1, <2>2
<1>8. /\ inventory'[Product[c]] = inventory[Product[c]] + output
      /\ inventory'[h] = IF need = 0 THEN inventory[h] ELSE inventory[h] - bill.units
      /\ g \notin {h, Product[c]} => inventory'[g] = inventory[g]
  BY <1>1, <1>3, <1>6
<1>9. need # 0 /\ g = h /\ inventory[g] - inventory'[g] = bill.units
  BY <1>1, <1>5, <1>6, <1>7, <1>8
<1>10. /\ Settle(balance, overdraft, c, bill)[Escrow] \in Int
       /\ Settle(balance, overdraft, c, bill)[Escrow] >= balance[Escrow] + bill.domestic
  BY <1>2, <1>5, SettlePays
<1>11. Smaller(price[g], price'[g]) = price[h]
  BY <1>1, <1>6, <1>9 DEF Smaller
<1>12. ExportValue(bill.units, price[h]) \in Nat
  <2>1. price[h] =< price[h] /\ price[h] \in Nat
    BY <1>1, <1>6
  <2> QED
    BY <1>5, <2>1, ExportIsCheap
<1>13. balance'[Escrow] - balance[Escrow] >= ExportValue(bill.units, price[h])
  BY <1>3, <1>5, <1>6, <1>9, <1>10, <1>12
<1>15. inventory[g] - Lost(g) - inventory'[g] = bill.units
  <2>1. inventory[g] \in Int /\ inventory'[g] \in Int
    BY <1>6, <1>14
  <2> QED
    BY <1>7, <1>9, <2>1
<1> QED
  BY <1>11, <1>13, <1>15 DEF Paid

\* Whoever buys in a step of any system pays for it, and so does the rest of the
\* world for exports; only what the hour has left in the mains goes for nothing.
LEMMA NextPays ==
    ASSUME IInv, [Next]_vars, ~(phase = "grid" /\ todo = {})
    PROVE  \A g \in Goods : Paid(g)
<1>1. /\ 0 \in Nat /\ 1 \in Nat /\ TRUE \in BOOLEAN /\ VatPct \in Nat /\ Food \in Goods
      /\ \A order \in Orders : /\ order.good \in Goods /\ order.quantity \in Nat
                              /\ order.mayImport \in BOOLEAN
      /\ \A c \in Companies : Input[c] \in Goods
      /\ \A load \in Loads : load.fuel \in Nat
  BY EconomyAssumption
<1>2. /\ Companies \subseteq Accounts \ {Escrow} /\ Households \subseteq Accounts \ {Escrow}
      /\ Cohorts \subseteq Accounts \ {Escrow}
      /\ \A p \in Residents : Home[p] \in Accounts \ {Escrow}
  <2>1. Households \subseteq Accounts \ {Escrow} /\ Home \in [Residents -> Households]
    BY EconomyAssumption DEF Accounts, Institutions
  <2> QED
    BY <2>1, EconomyAssumption DEF Accounts, Institutions
<1>3. ASSUME NEW c \in Companies, NEW load \in Loads, RunPlant(c, load)
      PROVE  \A g \in Goods : Paid(g)
  BY <1>1, <1>2, <1>3, PurchasePays DEF RunPlant
<1>4. ASSUME NEW p \in Residents, BuyFood(p) PROVE \A g \in Goods : Paid(g)
  BY <1>1, <1>2, <1>4, PurchasePays DEF BuyFood
<1>5. ASSUME NEW c \in Companies, NEW kept \in Kept(c), Invest(c, kept)
      PROVE  \A g \in Goods : Paid(g)
  <2> DEFINE units == (balance[c] \div InvestPart) \div Larger(1, price[Input[c]])
  <2>1. units \in Nat
    <3>1. balance[c] \in Nat
      BY <1>2, <1>5, BoldFirmsHaveCash DEF IInv, BooksTyped
    <3>2. balance[c] \div InvestPart \in Nat
      <4>1. InvestPart \in Nat /\ InvestPart > 0
        BY EconomyAssumption
      <4> QED
        BY <3>1, <4>1
    <3>3. Larger(1, price[Input[c]]) \in Nat \ {0}
      BY <1>1 DEF IInv, MarketTyped, Larger
    <3> QED
      BY <3>2, <3>3
  <2>2. Purchase(c, Input[c], units, 0, TRUE) /\ price' = price /\ phase # "dawn"
    BY <1>5 DEF Invest
  <2> HIDE DEF units
  <2> QED
    BY <1>1, <1>2, <2>1, <2>2, PurchasePays
<1>6. ASSUME NEW h \in Households, NEW order \in Orders, HouseholdBuys(h, order)
      PROVE  \A g \in Goods : Paid(g)
  BY <1>1, <1>2, <1>6, PurchasePays DEF HouseholdBuys
<1>7. ASSUME NEW p \in Cohorts, NEW order \in Orders, CohortBuys(p, order)
      PROVE  \A g \in Goods : Paid(g)
  BY <1>1, <1>2, <1>7, PurchasePays DEF CohortBuys
<1>8. ASSUME NEW p \in Cohorts, NEW order \in Orders, SpendRest(p, order)
      PROVE  \A g \in Goods : Paid(g)
  BY <1>1, <1>2, <1>8, PurchasePays DEF SpendRest
<1>9. SUFFICES ASSUME inventory' # inventory PROVE \A g \in Goods : Paid(g)
  BY NothingSold
<1>10. \/ \E c \in Companies, load \in Loads : RunPlant(c, load)
       \/ \E p \in Residents : BuyFood(p)
       \/ \E c \in Companies : \E kept \in Kept(c) : Invest(c, kept)
       \/ \E g \in Goods, newPrice \in Prices : SetPrice(g, newPrice)
       \/ \E c \in Companies, batch \in Batches : Produce(c, batch)
       \/ \E h \in Households, order \in Orders : HouseholdBuys(h, order)
       \/ \E p \in Cohorts, order \in Orders : CohortBuys(p, order)
       \/ \E p \in Cohorts, order \in Orders : SpendRest(p, order)
       \/ phase = "procurement" /\ \E order \in todo : Procure(order)
  BY <1>9 DEF Next, vars, marketVars, FillMains, FoundCompany, EndAgents, PayPublicWage,
     PayPolicy, CutCosts, Borrow, PayWage, PayBenefit, PayRent, CollectTax, Weigh, StartPaying,
     PayProducer, EndPaying, CloseMarkets, Hire, NoJob, ServiceLoan, SkipLoan,
     SettleCohort, FundResearch, EndHour, NextSystem
<1>11. ASSUME phase = "procurement", NEW order \in todo, Procure(order)
       PROVE  \A g \in Goods : Paid(g)
  <2>1. order.good \in Goods /\ order.quantity \in Nat
    BY <1>11 DEF IInv, LoopTyped
  <2>2. Treasury \in Accounts \ {Escrow} /\ FALSE \in BOOLEAN
    BY EconomyAssumption DEF Accounts, Institutions
  <2> QED
    BY <1>1, <1>11, <2>1, <2>2, PurchasePays DEF Procure
<1> QED
  BY <1>3, <1>4, <1>5, <1>6, <1>7, <1>8, <1>10, <1>11, ExportPays, ProducePays

\* Goods leave the stock only against money, for any purse, price, rounding and
\* overdraft, although purchase does not look at what its transfers return.
THEOREM EverySaleIsPaid == Spec => GoodsArePaid
<1>1. IInv /\ [Next]_vars =>
        [\A g \in Goods :
            LET lost   == IF phase = "dawn" /\ g \in todo \ todo'
                          THEN inventory[g] - Unspoilt(g) ELSE 0
                sold   == inventory[g] - lost - inventory'[g]
                lowest == Smaller(price[g], price'[g])
            IN  sold > 0 /\ ~(phase = "grid" /\ todo = {}) =>
                  balance'[Escrow] - balance[Escrow] >= ExportValue(sold, lowest)]_vars
  BY NextPays DEF Paid, Lost
<1>2. Spec => []IInv
  BY InitIInv, NextIInv, PTL DEF Spec
<1> QED
  BY <1>1, <1>2, PTL DEF Spec, GoodsArePaid
-----------------------------------------------------------------------------
(* Numbers in order, rounded shares, and sums of accounts.                  *)

\* Of a finite set of numbers each has its own number of smaller ones.
LEMMA BeforeCounts ==
  ASSUME NEW S \in SUBSET Nat, IsFiniteSet(S), NEW x \in S
  PROVE  Before(x, S) \in 0..(Cardinality(S) - 1)
<1> DEFINE R == {y \in S : y < x}
<1>1. IsFiniteSet(R) /\ Cardinality(R) =< Cardinality(S) /\ Cardinality(S) # Cardinality(R)
  <2>0. x \in Nat /\ ~ (x < x)
    OBVIOUS
  <2>1. R \in SUBSET S /\ x \notin R
    BY <2>0
  <2>. HIDE DEF R
  <2>2. R # S
    BY <2>1
  <2>. QED BY <2>1, <2>2, FS_Subset
<1>2. Cardinality(R) \in Nat /\ Cardinality(S) \in Nat
  BY <1>1, FS_CardinalityType
<1>. QED BY <1>1, <1>2 DEF Before

\* Of two numbers of the set the larger has more before it.
LEMMA BeforeGrows ==
  ASSUME NEW S \in SUBSET Nat, IsFiniteSet(S), NEW x \in S, NEW y \in S, x < y
  PROVE  Before(x, S) < Before(y, S)
<1> DEFINE R == {z \in S : z < x}
           U == {z \in S : z < y}
<1>0. (\A z \in S : z < x => z < y) /\ ~ (x < x)
  OBVIOUS
<1>1. R \in SUBSET U /\ x \in U /\ x \notin R /\ U \in SUBSET S
  BY <1>0
<1>2. Before(x, S) = Cardinality(R) /\ Before(y, S) = Cardinality(U)
  BY DEF Before
<1>. HIDE DEF R, U
<1>3. IsFiniteSet(U)
  BY <1>1, FS_Subset
<1>4. IsFiniteSet(R) /\ Cardinality(R) =< Cardinality(U) /\ Cardinality(R) # Cardinality(U)
  BY <1>1, <1>3, FS_Subset
<1>5. Cardinality(R) \in Nat /\ Cardinality(U) \in Nat
  BY <1>3, <1>4, FS_CardinalityType
<1>. QED BY <1>2, <1>4, <1>5

\* Each number up to the last of them is how many are smaller than one of them.
LEMMA BeforeReaches ==
  ASSUME NEW S \in SUBSET Nat, IsFiniteSet(S)
  PROVE  /\ \A x, y \in S : Before(x, S) = Before(y, S) => x = y
         /\ \A i \in 0..(Cardinality(S) - 1) : \E x \in S : Before(x, S) = i
<1> DEFINE T == 0..(Cardinality(S) - 1)
           f == [x \in S |-> Before(x, S)]
<1>1. Cardinality(S) \in Nat
  BY FS_CardinalityType
<1>2. ASSUME NEW x \in S, NEW y \in S, Before(x, S) = Before(y, S) PROVE x = y
  <2>1. Before(x, S) \in Int /\ Before(y, S) \in Int
    BY BeforeCounts, <1>1
  <2>2. ~ (x < y) /\ ~ (y < x)
    BY <1>2, <2>1, BeforeGrows
  <2>. QED BY <2>2
<1>3. IsFiniteSet(T) /\ Cardinality(T) = Cardinality(S)
  <2> DEFINE n == Cardinality(S)
  <2>1. n \in Nat /\ n - 1 \in Int /\ 0 \in Int
    BY <1>1
  <2> HIDE DEF n
  <2>2. IsFiniteSet(0..(n - 1)) /\ Cardinality(0..(n - 1)) = IF 0 > n - 1 THEN 0 ELSE n - 1 - 0 + 1
    BY <2>1, FS_Interval
  <2>3. Cardinality(0..(n - 1)) = n
    BY <2>1, <2>2
  <2>. QED BY <2>2, <2>3 DEF n
<1>4. f \in Injection(S, T)
  BY <1>2, BeforeCounts DEF Injection, IsInjective
<1>. HIDE DEF f
<1>5. f \in Surjection(S, T)
  BY <1>3, <1>4, FS_Injection
<1>6. \A i \in T : \E x \in S : f[x] = i
  BY <1>5 DEF Surjection
<1>. QED BY <1>2, <1>6 DEF f

\* A share rounded to the nearest is no more than a bound on the exact one.
LEMMA RoundedShare ==
  ASSUME NEW n \in Int, NEW d \in Nat \ {0}, NEW g \in Nat, n =< g * d
  PROVE  Round(n, d) \in Int /\ Round(n, d) =< g
<1> DEFINE down == n \div d
           rest == n % d
<1>1. down \in Int /\ rest \in 0..(d - 1) /\ n = d * down + rest
  OBVIOUS
<1>. HIDE DEF down, rest
<1>2. down =< g
  <2> SUFFICES ASSUME down >= g + 1 PROVE FALSE
    BY <1>1
  <2>1. d * down >= d * (g + 1)
    BY <1>1
  <2>2. d * (g + 1) = g * d + d /\ d * down \in Int /\ g * d \in Int
    BY <1>1
  <2>. QED BY <1>1, <2>1, <2>2
<1>3. CASE down = g
  <2>1. d * down = g * d /\ g * d \in Int
    BY <1>3
  <2>2. rest = 0
    BY <1>1, <2>1
  <2>3. Round(n, d) = down
    BY <2>2, <1>1 DEF Round, down, rest
  <2>. QED BY <1>3, <2>3
<1>4. CASE down # g
  <2>1. Round(n, d) \in {down, down + 1}
    BY DEF Round, down, rest
  <2>. QED BY <1>1, <1>2, <1>4, <2>1
<1>. QED BY <1>3, <1>4

\* Nothing but zeros adds up to nothing.
LEMMA SumOfZeros ==
  ASSUME NEW S, IsFiniteSet(S), NEW f, \A x \in S : f[x] = 0
  PROVE  Sum(f, S) = 0
<1>. DEFINE T == {s \in SUBSET S : Sum(f, s) = 0}
<1>1. {} \in T
  BY SumOfNone
<1>2. ASSUME NEW s \in SUBSET S, NEW x \in S \ s, s \in T PROVE s \cup {x} \in T
  <2>1. IsFiniteSet(s) /\ Numbers(f, s \cup {x}) /\ x \notin s
    BY FS_Subset DEF Numbers
  <2>2. Sum(f, s \cup {x}) = f[x] + Sum(f, s)
    BY <2>1, SumWith, Zenon
  <2>. QED BY <1>2, <2>2
<1>3. \A s \in SUBSET S : s \in T
  <2>. HIDE DEF T
  <2>. QED BY <1>1, <1>2, SubsetInduction
<1>. QED BY <1>3

\* Accounts of one balance, opened for owners who have none yet, add that much
\* each to the total.
LEMMA TotalOfOpened ==
  ASSUME NEW f, IsFiniteSet(DOMAIN f), \A x \in DOMAIN f : f[x] \in Nat,
         NEW S, IsFiniteSet(S), S \cap DOMAIN f = {}, NEW a \in Nat
  PROVE  Total(Extend(f, S, a)) = Total(f) + a * Cardinality(S)
<1>. DEFINE D == DOMAIN f
            e == Extend(f, S, a)
            T == {s \in SUBSET S : Sum(e, D \cup s) = Sum(f, D) + a * Cardinality(s)}
<1>1. /\ DOMAIN e = D \cup S
      /\ \A x \in D : e[x] = f[x] /\ e[x] \in Nat
      /\ \A x \in S : e[x] = a
  BY DEF Extend
<1>2. Total(f) = Sum(f, D) /\ Total(e) = Sum(e, D \cup S)
  BY <1>1 DEF Total, Sum
<1>. HIDE DEF e
<1>3. Numbers(f, D) /\ Numbers(e, D \cup S) /\ Sum(f, D) \in Int
  <2>1. Numbers(f, D) /\ Numbers(e, D \cup S)
    BY <1>1 DEF Numbers
  <2>. QED BY <2>1, SumIsInt
<1>4. {} \in T
  <2>1. Sum(e, D) = Sum(f, D)
    BY <1>1, <1>3, SumOfSame
  <2>2. D \cup {} = D /\ Cardinality({}) = 0 /\ a * 0 = 0
    BY FS_EmptySet
  <2>. QED BY <1>3, <2>1, <2>2
<1>5. ASSUME NEW s \in SUBSET S, NEW x \in S \ s, s \in T PROVE s \cup {x} \in T
  <2>1. IsFiniteSet(s) /\ Cardinality(s) \in Nat /\ IsFiniteSet(D \cup s)
    BY FS_Subset, FS_Union, FS_CardinalityType
  <2>2. x \notin D \cup s /\ Numbers(e, (D \cup s) \cup {x})
    BY <1>3 DEF Numbers
  <2>3. Sum(e, (D \cup s) \cup {x}) = e[x] + Sum(e, D \cup s)
    BY <2>1, <2>2, SumWith
  <2>4. Cardinality(s \cup {x}) = Cardinality(s) + 1
    BY <2>1, FS_AddElement
  <2>5. a * (Cardinality(s) + 1) = a * Cardinality(s) + a /\ a * Cardinality(s) \in Int
    BY <2>1
  <2>6. Sum(e, D \cup s) = Sum(f, D) + a * Cardinality(s) /\ e[x] = a
    BY <1>1, <1>5
  <2>7. D \cup (s \cup {x}) = (D \cup s) \cup {x}
    OBVIOUS
  <2>8. Sum(e, (D \cup s) \cup {x}) = Sum(f, D) + a * Cardinality(s \cup {x})
    BY <1>3, <2>3, <2>4, <2>5, <2>6
  <2>. QED BY <2>7, <2>8
<1>6. \A s \in SUBSET S : s \in T
  <2>. HIDE DEF T
  <2>. QED BY <1>4, <1>5, SubsetInduction
<1>7. S \in T
  BY <1>6
<1>. QED BY <1>2, <1>7 DEF e
-----------------------------------------------------------------------------
(* What holds while a world is built.                                       *)

\* The stages before anybody has a job.
Early == {"companies", "technology", "cohorts", "households"}

\* Residents and households are numbered as they come.
BuiltInv ==
    /\ GenesisTypeOK
    /\ people = 1..Cardinality(people)
    /\ IsFiniteSet(households) /\ households = 1..Cardinality(households)
    /\ offices \in Seq(Roles)
    /\ stage \in {"companies", "vacancies", "funding"} => left \subseteq CompanyIds
    /\ stage = "cohorts" => left \subseteq CohortIds

\* Who has a job is on the list of the company they name, and nobody has one early.
EmployedInv ==
    /\ stage \in Early =>
        /\ \A p \in people : employer[p] = NoOne
        /\ \A c \in CompanyIds : employees[c] = {}
    /\ \A p \in people :
        /\ employment[p] \notin {"employed", "public"} => employer[p] = NoOne
        /\ employment[p] = "employed" => employer[p] # NoOne
        /\ employer[p] # NoOne => p \in employees[employer[p]]
        /\ \A c \in companies \ {employer[p]} : p \in employees[c] => role[p] = "chief"

NobodyPlaced == [k \in CohortIds |-> 0]
Chief(c)     == IF c \in Led THEN 1 ELSE 0

\* No company takes more than it wants: first of the residents, then of the cohorts
\* in shares of what is wanted still, then a chief for each of some companies.
VacanciesInv ==
    /\ stage \in Early \cup {"jobs"} => \A c \in CompanyIds : placed[c] = NobodyPlaced
    /\ stage \in Early \cup {"jobs", "vacancies"} => \A p \in people : role[p] = NoOne
    /\ stage = "vacancies" =>
        /\ left \subseteq companies
        /\ \A c \in left : placed[c] = NobodyPlaced
        /\ offer[1] \in Int /\ offer[2] \in Nat /\ offer[1] =< offer[2]
    /\ \A c \in companies : Headcount(c) =< target[c] + Chief(c)

\* HomesAreSound, with the families as soon as they are tied.
HomesInv ==
    /\ \A h \in households : members[h] = {p \in people : home[p] = h}
    /\ stage \in {"plants", "funding", "unsealed", "sealed"} =>
        \A p, q \in people : <<p, q>> \in family <=> p # q /\ home[p] = home[q]
    /\ \A b \in Buildings : occupancy[b] = Cardinality({p \in people : building[home[p]] = b})
    /\ \A d \in Districts : \A b, c \in Housing[d] :
          occupancy[b] >= Capacity[b] + MaxSize => occupancy[c] >= Capacity[c]

\* Who has an account: nobody before they are there.
Owners ==
    {<<"firm", c>> : c \in companies} \cup {<<"person", p>> : p \in people}
      \cup {<<"household", h>> : h \in households}
      \cup {<<"cohort", k>> : k \in {j \in CohortIds : size[j] > 0}}
      \cup {<<x>> : x \in IF stage = "companies" THEN {} ELSE {"treasury"}}

\* MoneyIsSound, and that companies are funded once.
MoneyInv ==
    /\ IsFiniteSet(DOMAIN cash) /\ DOMAIN cash = Owners
    /\ supply = Total(cash)
    /\ stage = "companies" => companies \cap left = {}
    /\ stage = "cohorts" => \A k \in left : size[k] = 0
    /\ stage \in {"companies", "technology"} => \A k \in CohortIds : size[k] = 0
    /\ stage \notin {"funding", "unsealed", "sealed"} => \A c \in companies : cash[<<"firm", c>>] = 0
    /\ stage = "funding" => left \subseteq companies /\ \A c \in left : cash[<<"firm", c>>] = 0

\* ResearchIsSound, and no projects before there is technology.
ResearchInv ==
    /\ stage \in {"companies", "technology"} => \A c \in CompanyIds : project[c] = 0
    /\ ResearchIsSound
-----------------------------------------------------------------------------
(* Types.                                                                   *)

\* A nearest whole number of something is not negative.
LEMMA RoundIsNat ==
  ASSUME NEW n \in Nat, NEW d \in Nat \ {0}
  PROVE  Round(n, d) \in Nat
<1>1. n \div d \in Nat
  OBVIOUS
<1>. DEFINE down == n \div d
<1>2. Round(n, d) \in {down, down + 1}
  BY DEF Round
<1>. QED BY <1>1, <1>2

\* There are so many residents and households.
LEMMA NumberedSets ==
  ASSUME BuiltInv
  PROVE  /\ IsFiniteSet(people) /\ Cardinality(people) \in Nat
         /\ IsFiniteSet(households) /\ Cardinality(households) \in Nat
         /\ IsFiniteSet(companies) /\ companies \subseteq CompanyIds
         /\ people \subseteq Nat /\ households \subseteq Nat
         /\ \A c \in CompanyIds : IsFiniteSet(employees[c]) /\ Cardinality(employees[c]) \in Nat
<1>1. IsFiniteSet(PersonIds) /\ IsFiniteSet(CompanyIds)
  <2>1. MaxPeople \in Int /\ CompanyCount \in Int /\ 1 \in Int
    BY GenesisAssumption
  <2>. QED BY <2>1, FS_Interval DEF PersonIds, CompanyIds
<1>2. people \in SUBSET PersonIds /\ companies \in SUBSET CompanyIds
  BY DEF BuiltInv, GenesisTypeOK
<1>3. IsFiniteSet(people) /\ IsFiniteSet(companies)
  BY <1>1, <1>2, FS_Subset
<1>4. IsFiniteSet(households) /\ households = 1..Cardinality(households)
      /\ people = 1..Cardinality(people)
  BY DEF BuiltInv
<1>5. Cardinality(people) \in Nat /\ Cardinality(households) \in Nat
  BY <1>3, <1>4, FS_CardinalityType
<1>6. ASSUME NEW c \in CompanyIds
      PROVE  IsFiniteSet(employees[c]) /\ Cardinality(employees[c]) \in Nat
  <2>1. employees[c] \in SUBSET people
    BY DEF BuiltInv, GenesisTypeOK
  <2>. QED BY <1>3, <2>1, FS_Subset, FS_CardinalityType
<1>7. people \subseteq Nat /\ households \subseteq Nat
  BY <1>4, <1>5
<1>. QED BY <1>2, <1>3, <1>4, <1>5, <1>6, <1>7

\* A new household and its members get the next numbers.
LEMMA NextNumbers ==
  ASSUME BuiltInv, NEW d \in Districts, NEW count \in 1..MaxSize, BuildHousehold(d, count)
  PROVE  LET n   == Cardinality(people)
             m   == Cardinality(households)
             new == (n + 1)..(n + count)
         IN  /\ n \in Nat /\ m \in Nat /\ count \in Nat \ {0}
             /\ people' = people \cup new /\ people' = 1..(n + count)
             /\ people \cap new = {} /\ new # {}
             /\ IsFiniteSet(new) /\ Cardinality(new) = count
             /\ Cardinality(people') = n + count
             /\ households' = households \cup {m + 1} /\ households' = 1..(m + 1)
             /\ m + 1 \notin households
             /\ IsFiniteSet(households') /\ Cardinality(households') = m + 1
<1> DEFINE n   == Cardinality(people)
           m   == Cardinality(households)
           new == (n + 1)..(n + count)
<1>1. n \in Nat /\ m \in Nat /\ people = 1..n /\ households = 1..m
  BY NumberedSets DEF BuiltInv
<1>2. count \in Nat \ {0}
  BY GenesisAssumption
<1>3. people' = people \cup new /\ households' = households \cup {m + 1}
  BY DEF BuildHousehold
<1>. HIDE DEF n, m
<1>4. people' = 1..(n + count) /\ people \cap new = {} /\ n + 1 \in new
      /\ households' = 1..(m + 1) /\ m + 1 \notin households
  BY <1>1, <1>2, <1>3
<1>5. /\ IsFiniteSet(new) /\ Cardinality(new) = count
      /\ Cardinality(1..(n + count)) = n + count
      /\ IsFiniteSet(1..(m + 1)) /\ Cardinality(1..(m + 1)) = m + 1
  <2>1. /\ n + 1 \in Int /\ n + count \in Int /\ m + 1 \in Int /\ 1 \in Int
        /\ ~ (n + 1 > n + count) /\ ~ (1 > n + count) /\ ~ (1 > m + 1)
        /\ (n + count) - (n + 1) + 1 = count /\ (n + count) - 1 + 1 = n + count
        /\ (m + 1) - 1 + 1 = m + 1
    BY <1>1, <1>2
  <2>. QED BY <2>1, FS_Interval
<1>6. Cardinality(people') = n + count
  BY <1>4, <1>5
<1>7. IsFiniteSet(households') /\ Cardinality(households') = m + 1
  BY <1>4, <1>5
<1>. QED BY <1>1, <1>2, <1>3, <1>4, <1>5, <1>6, <1>7 DEF n, m

\* Extending a function.
LEMMA Extended ==
  ASSUME NEW f, NEW S, NEW value
  PROVE  /\ DOMAIN Extend(f, S, value) = DOMAIN f \cup S
         /\ \A i \in S : Extend(f, S, value)[i] = value
         /\ \A i \in DOMAIN f \ S : Extend(f, S, value)[i] = f[i]
BY DEF Extend

\* What a function is extended with may be of a larger set.
LEMMA ExtendedTyped ==
  ASSUME NEW D, NEW R, NEW f \in [D -> R], NEW S, NEW T, R \subseteq T, NEW value \in T
  PROVE  Extend(f, S, value) \in [D \cup S -> T]
BY DEF Extend

\* The next number modulo how many discoveries are ready picks one of them.
LEMMA PicksProject ==
  ASSUME Ready # {}, NEW i \in Nat
  PROVE  LET n == CHOOSE x \in Ready : Before(x, Ready) = i % Cardinality(Ready)
         IN  n \in Ready /\ Before(n, Ready) = i % Cardinality(Ready)
<1>1. Ready \in SUBSET Nat /\ IsFiniteSet(Ready) /\ Ready \subseteq 1..Discoveries
  <2>1. Discoveries \in Nat
    BY GenesisAssumption
  <2>2. Ready \in SUBSET (1..Discoveries)
    BY DEF Ready
  <2>3. IsFiniteSet(1..Discoveries)
    BY <2>1, FS_Interval
  <2>4. IsFiniteSet(Ready)
    BY <2>2, <2>3, FS_Subset
  <2>5. 1..Discoveries \subseteq Nat
    BY <2>1
  <2>. QED BY <2>2, <2>4, <2>5
<1>2. Cardinality(Ready) \in Nat /\ Cardinality(Ready) # 0
  BY <1>1, FS_CardinalityType, FS_EmptySet
<1>3. i % Cardinality(Ready) \in 0..(Cardinality(Ready) - 1)
  BY <1>2
<1>4. \E x \in Ready : Before(x, Ready) = i % Cardinality(Ready)
  BY <1>1, <1>3, BeforeReaches
<1>. QED BY <1>4
-----------------------------------------------------------------------------

\* Nothing is built yet, and what is there is typed.
LEMMA BuiltInit == GenesisInit => BuiltInv
<1>. SUFFICES ASSUME GenesisInit PROVE BuiltInv
  OBVIOUS
<1>1. Cardinality({}) = 0 /\ IsFiniteSet({})
  BY FS_EmptySet
<1>2. 1..0 = {}
  OBVIOUS
<1>3. \A c \in CompanyIds : 1 \in {1} \cup Targets
  OBVIOUS
<1>4. GenesisTypeOK
  BY <1>1, GenesisAssumption DEF GenesisInit, GenesisTypeOK, Stages, Nothing
<1>5. people = 1..Cardinality(people) /\ households = 1..Cardinality(households)
      /\ IsFiniteSet(households)
  BY <1>1, <1>2 DEF GenesisInit
<1>6. offices \in Seq(Roles) /\ left \subseteq CompanyIds /\ stage = "companies"
  BY GenesisAssumption DEF GenesisInit
<1>. QED BY <1>4, <1>5, <1>6 DEF BuiltInv

\* The accounts that are opened are typed.
LEMMA OpenedTyped ==
  ASSUME BuiltInv, NEW owners, IsFiniteSet(owners), NEW amount \in Nat,
         OpenAccounts(owners, amount)
  PROVE  (\A x \in DOMAIN cash' : cash'[x] \in Nat) /\ supply' \in Nat
<1>1. \A x \in DOMAIN cash' : cash'[x] \in Nat
  BY DEF OpenAccounts, Extend, BuiltInv, GenesisTypeOK
<1>2. Cardinality(owners) \in Nat /\ supply \in Nat
  BY FS_CardinalityType DEF BuiltInv, GenesisTypeOK
<1>3. amount * Cardinality(owners) \in Nat
  BY <1>2
<1>4. supply' = supply + amount * Cardinality(owners)
  BY DEF OpenAccounts
<1>. QED BY <1>1, <1>2, <1>3, <1>4

\* Companies, the treasury, the technology and the cohorts are typed.
LEMMA BuiltCity ==
  ASSUME BuiltInv,
         \/ \E c \in CompanyIds : BuildCompany(c)
         \/ BuildGovernment \/ BuildTechnology
         \/ \E k \in CohortIds, count \in Sizes : BuildCohort(k, count)
         \/ EndCohorts
  PROVE  BuiltInv'
<1>1. CASE \E c \in CompanyIds : BuildCompany(c)
  <2>1. PICK c \in CompanyIds : BuildCompany(c)
    BY <1>1
  <2>2. IsFiniteSet({<<"firm", c>>}) /\ OpenAccounts({<<"firm", c>>}, 0)
    BY <2>1, FS_Singleton DEF BuildCompany
  <2>3. (\A x \in DOMAIN cash' : cash'[x] \in Nat) /\ supply' \in Nat
    BY <2>2, OpenedTyped
  <2>4. GenesisTypeOK'
    BY <2>1, <2>2, <2>3 DEF BuildCompany, Built, BuiltInv, GenesisTypeOK, peopleVars,
       homeVars, castVars, restVars
  <2>. QED BY <2>1, <2>4 DEF BuildCompany, Built, BuiltInv, GenesisTypeOK, peopleVars,
              homeVars, castVars, restVars
<1>2. CASE BuildGovernment
  <2>2. IsFiniteSet({<<"treasury">>}) /\ OpenAccounts({<<"treasury">>}, Savings) /\ Savings \in Nat
    BY <1>2, FS_Singleton, GenesisAssumption DEF BuildGovernment
  <2>3. (\A x \in DOMAIN cash' : cash'[x] \in Nat) /\ supply' \in Nat
    BY <2>2, OpenedTyped
  <2>4. GenesisTypeOK'
    BY <1>2, <2>2, <2>3 DEF BuildGovernment, Proceed, BuiltInv, GenesisTypeOK, Stages,
       companyVars, peopleVars, homeVars, castVars, restVars
  <2>. QED BY <1>2, <2>4 DEF BuildGovernment, Proceed, BuiltInv, GenesisTypeOK,
              companyVars, peopleVars, homeVars, castVars, restVars
<1>3. CASE BuildTechnology
  <2> DEFINE doing == companies \cap ResearchFirms
             first == {c \in doing : Before(c, doing) < MaxProjects}
  <2>1. ASSUME NEW c \in CompanyIds, c \in first, Ready # {}
        PROVE  (CHOOSE n \in Ready : Before(n, Ready) = Before(c, first) % Cardinality(Ready))
                  \in 0..Discoveries
    <3>1. first \in SUBSET Nat /\ IsFiniteSet(first)
      <4>1. first \subseteq companies
        OBVIOUS
      <4>2. companies \subseteq Nat
        BY GenesisAssumption, NumberedSets DEF CompanyIds
      <4> HIDE DEF first
      <4>. QED BY <4>1, <4>2, NumberedSets, FS_Subset
    <3> HIDE DEF first
    <3>2. Before(c, first) \in 0..(Cardinality(first) - 1) /\ Cardinality(first) \in Nat
      BY <2>1, <3>1, BeforeCounts, FS_CardinalityType
    <3>3. Before(c, first) \in Nat
      BY <3>2
    <3>4. (CHOOSE n \in Ready : Before(n, Ready) = Before(c, first) % Cardinality(Ready)) \in Ready
      BY <2>1, <3>3, PicksProject
    <3>5. Ready \subseteq 1..Discoveries
      BY DEF Ready
    <3>6. 1..Discoveries \subseteq 0..Discoveries
      BY GenesisAssumption
    <3>. QED BY <3>4, <3>5, <3>6
  <2>2. project' \in [CompanyIds -> 0..Discoveries]
    <3>1. 0 \in 0..Discoveries
      BY GenesisAssumption
    <3>2. project' = [c \in CompanyIds |->
              IF c \in first /\ Ready # {}
              THEN CHOOSE n \in Ready : Before(n, Ready) = Before(c, first) % Cardinality(Ready)
              ELSE 0]
      BY <1>3 DEF BuildTechnology
    <3> HIDE DEF first
    <3>. QED BY <2>1, <3>1, <3>2
  <2>4. GenesisTypeOK'
    BY <1>3, <2>2 DEF BuildTechnology, Proceed, BuiltInv, GenesisTypeOK, Stages,
       companyVars, peopleVars, homeVars, castVars, accountVars
  <2>. QED BY <1>3, <2>4 DEF BuildTechnology, Proceed, BuiltInv, GenesisTypeOK,
              companyVars, peopleVars, homeVars, castVars, accountVars
<1>4. CASE \E k \in CohortIds, count \in Sizes : BuildCohort(k, count)
  <2>1. PICK k \in CohortIds, count \in Sizes : BuildCohort(k, count)
    BY <1>4
  <2> DEFINE new == IF count = 0 THEN {} ELSE {<<"cohort", k>>}
  <2>2. IsFiniteSet(new) /\ Savings \in Nat
    <3>1. IsFiniteSet({}) /\ IsFiniteSet({<<"cohort", k>>})
      BY FS_EmptySet, FS_Singleton
    <3>. QED BY <3>1, GenesisAssumption
  <2>3. OpenAccounts(new, Savings)
    BY <2>1 DEF BuildCohort
  <2> HIDE DEF new
  <2>4. (\A x \in DOMAIN cash' : cash'[x] \in Nat) /\ supply' \in Nat
    BY <2>2, <2>3, OpenedTyped
  <2>6. size' \in [CohortIds -> Nat]
    BY <2>1, GenesisAssumption DEF BuildCohort, BuiltInv, GenesisTypeOK
  <2>7. GenesisTypeOK'
    BY <2>1, <2>4, <2>6 DEF BuildCohort, Built, BuiltInv, GenesisTypeOK, companyVars,
       peopleVars, homeVars, castVars
  <2>. QED BY <2>1, <2>7 DEF BuildCohort, Built, BuiltInv, GenesisTypeOK, companyVars,
              peopleVars, homeVars, castVars
<1>5. CASE EndCohorts
  <2>1. GenesisTypeOK'
    BY <1>5 DEF EndCohorts, Proceed, BuiltInv, GenesisTypeOK, Stages, companyVars,
       peopleVars, homeVars, castVars, accountVars, restVars
  <2>. QED BY <1>5, <2>1 DEF EndCohorts, Proceed, BuiltInv, GenesisTypeOK, companyVars,
              peopleVars, homeVars, castVars, accountVars, restVars
<1>. QED BY <1>1, <1>2, <1>3, <1>4, <1>5
-----------------------------------------------------------------------------

\* As many accounts as owners.
LEMMA TaggedFinite ==
  ASSUME NEW S, IsFiniteSet(S), NEW tag
  PROVE  IsFiniteSet({<<tag, x>> : x \in S})
<1> DEFINE T == {<<tag, x>> : x \in S}
           f == [x \in S |-> <<tag, x>>]
<1>1. f \in Surjection(S, T)
  BY DEF Surjection
<1>. QED BY <1>1, FS_Surjection DEF ExistsSurjection

\* A household that moves in is typed with its members.
LEMMA BuiltHouseholds ==
  ASSUME BuiltInv, NEW d \in Districts, NEW count \in 1..MaxSize, BuildHousehold(d, count)
  PROVE  BuiltInv'
<1> DEFINE n   == Cardinality(people)
           h   == Cardinality(households) + 1
           new == (n + 1)..(n + count)
<1>1. /\ n \in Nat /\ h \in Nat /\ count \in Nat \ {0}
      /\ people' = people \cup new /\ people' = 1..(n + count)
      /\ people \cap new = {} /\ IsFiniteSet(new)
      /\ Cardinality(people') = n + count
      /\ households' = households \cup {h} /\ households' = 1..h
      /\ IsFiniteSet(households') /\ Cardinality(households') = h
  BY NextNumbers
<1>2. people' \subseteq PersonIds
  <2>1. n + count =< MaxPeople /\ MaxPeople \in Nat
    BY GenesisAssumption DEF BuildHousehold
  <2> HIDE DEF n, new, h
  <2>2. 1..(n + count) \subseteq 1..MaxPeople
    BY <1>1, <2>1
  <2>. QED BY <1>1, <2>2 DEF PersonIds
<1>3. /\ \E b \in HomesFor(d) :
              /\ building' = Extend(building, {h}, b)
              /\ occupancy' = [occupancy EXCEPT ![b] = @ + count]
      /\ \E years \in [new -> Ages], first \in [new -> Employment] :
              /\ age' = [p \in people' |-> IF p \in new THEN years[p] ELSE age[p]]
              /\ employment' =
                    [p \in people' |-> IF p \in new THEN first[p] ELSE employment[p]]
      /\ employer' = Extend(employer, new, NoOne)
      /\ home' = Extend(home, new, h)
      /\ members' = Extend(members, {h}, new)
      /\ role' = Extend(role, new, NoOne)
      /\ OpenAccounts({<<"household", h>>} \cup {<<"person", p>> : p \in new}, Savings)
      /\ stage = "households"
      /\ UNCHANGED <<companyVars, cast, offices, restVars, stage, left>>
  BY DEF BuildHousehold
<1>4. IsFiniteSet({<<"household", h>>} \cup {<<"person", p>> : p \in new}) /\ Savings \in Nat
  <2> HIDE DEF h, new
  <2>1. IsFiniteSet({<<"person", p>> : p \in new})
    <3>1. IsFiniteSet(new)
      BY <1>1
    <3>. QED BY <3>1, TaggedFinite, Zenon
  <2>. QED BY <2>1, FS_AddElement, FS_Union, FS_Singleton, GenesisAssumption
<1>. HIDE DEF n, h, new
<1>5. (\A x \in DOMAIN cash' : cash'[x] \in Nat) /\ supply' \in Nat
  BY <1>3, <1>4, OpenedTyped
<1>6. HomesFor(d) \subseteq Buildings
  BY GenesisAssumption DEF HomesFor, Buildings
<1>7. occupancy' \in [Buildings -> Nat] /\ building' \in [households' -> Buildings]
  <2>1. PICK b \in HomesFor(d) : building' = Extend(building, {h}, b)
                              /\ occupancy' = [occupancy EXCEPT ![b] = @ + count]
    BY <1>3
  <2>2. occupancy \in [Buildings -> Nat] /\ building \in [households -> Buildings] /\ b \in Buildings
    BY <1>6 DEF BuiltInv, GenesisTypeOK
  <2>3. occupancy[b] + count \in Nat
    BY <1>1, <2>2
  <2>4. occupancy' \in [Buildings -> Nat]
    BY <2>1, <2>2, <2>3
  <2>5. Extend(building, {h}, b) \in [households \cup {h} -> Buildings]
    BY <2>2, ExtendedTyped
  <2>. QED BY <1>1, <2>1, <2>4, <2>5
<1>8. age' \in [people' -> Ages] /\ employment' \in [people' -> Employment]
  BY <1>1, <1>3 DEF BuiltInv, GenesisTypeOK
<1>9. /\ employer' \in [people' -> companies \cup {NoOne}] /\ home' \in [people' -> households']
      /\ role' \in [people' -> Roles \cup {NoOne}]
      /\ members' \in [households' -> SUBSET people']
  <2>1. /\ employer \in [people -> companies \cup {NoOne}] /\ home \in [people -> households]
        /\ role \in [people -> Roles \cup {NoOne}]
        /\ members \in [households -> SUBSET people]
    BY DEF BuiltInv, GenesisTypeOK
  <2>2. Extend(employer, new, NoOne) \in [people \cup new -> companies \cup {NoOne}]
        /\ Extend(role, new, NoOne) \in [people \cup new -> Roles \cup {NoOne}]
    BY <2>1, ExtendedTyped
  <2>3. Extend(home, new, h) \in [people \cup new -> households']
    <3>1. households \subseteq households' /\ h \in households'
      BY <1>1
    <3>. QED BY <2>1, <3>1, ExtendedTyped
  <2>4. Extend(members, {h}, new) \in [households \cup {h} -> SUBSET people']
    <3>1. \A i \in households : members[i] \subseteq people'
      BY <1>1, <2>1
    <3>2. new \subseteq people'
      BY <1>1
    <3>3. DOMAIN members = households
      BY <2>1
    <3>. QED BY <3>1, <3>2, <3>3 DEF Extend
  <2>. QED BY <1>1, <1>3, <2>2, <2>3, <2>4
<1>10. GenesisTypeOK'
  <2>1. family' \subseteq people' \X people' /\ employees' \in [CompanyIds -> SUBSET people']
        /\ cast' \subseteq people'
    BY <1>1, <1>3 DEF restVars, companyVars, BuiltInv, GenesisTypeOK
  <2>. QED BY <1>2, <1>3, <1>5, <1>7, <1>8, <1>9, <2>1 DEF companyVars, restVars,
              BuiltInv, GenesisTypeOK
<1>11. people' = 1..Cardinality(people') /\ households' = 1..Cardinality(households')
       /\ IsFiniteSet(households')
  BY <1>1
<1>. QED BY <1>3, <1>10, <1>11 DEF BuiltInv, GenesisTypeOK

\* The cast and the jobs are typed.
LEMMA BuiltJobs ==
  ASSUME BuiltInv,
         \/ \E chosen \in SUBSET people : Promote(chosen)
         \/ \E p \in people, c \in companies : AssignJob(p, c)
         \/ \E p \in people : PassOver(p)
         \/ EndJobs
         \/ \E c \in CompanyIds, taken \in [CohortIds -> 0..Total(target)] : FillVacancies(c, taken)
         \/ EndVacancies
  PROVE  BuiltInv'
<1>1. CASE \E chosen \in SUBSET people : Promote(chosen)
  <2>1. GenesisTypeOK'
    BY <1>1 DEF Promote, Proceed, BuiltInv, GenesisTypeOK, Stages, peopleVars,
       homeVars, accountVars, restVars
  <2>. QED BY <1>1, <2>1 DEF Promote, Proceed, BuiltInv, GenesisTypeOK, peopleVars,
              homeVars, accountVars, restVars
<1>2. CASE \E p \in people, c \in companies : AssignJob(p, c)
  <2>1. GenesisTypeOK'
    BY <1>2 DEF AssignJob, Built, Employment, BuiltInv, GenesisTypeOK, homeVars,
       castVars, accountVars, restVars
  <2>. QED BY <1>2, <2>1 DEF AssignJob, Built, BuiltInv, GenesisTypeOK, homeVars,
              castVars, accountVars, restVars
<1>3. CASE \E p \in people : PassOver(p)
  <2>1. GenesisTypeOK'
    BY <1>3 DEF PassOver, Built, BuiltInv, GenesisTypeOK, companyVars, peopleVars,
       homeVars, castVars, accountVars, restVars
  <2>. QED BY <1>3, <2>1 DEF PassOver, Built, BuiltInv, GenesisTypeOK, companyVars,
              peopleVars, homeVars, castVars, accountVars, restVars
<1>4. CASE EndJobs
  <2>0. stage' = "vacancies" /\ left' \subseteq CompanyIds
    BY <1>4 DEF EndJobs, Proceed, Hiring, BuiltInv, GenesisTypeOK
  <2>1. GenesisTypeOK'
    BY <1>4, <2>0 DEF EndJobs, Stages, BuiltInv, GenesisTypeOK, peopleVars, homeVars,
       castVars, accountVars, restVars
  <2>. QED BY <1>4, <2>0, <2>1 DEF EndJobs, BuiltInv, GenesisTypeOK, peopleVars,
              homeVars, castVars, accountVars, restVars
<1>5. CASE \E c \in CompanyIds, taken \in [CohortIds -> 0..Total(target)] : FillVacancies(c, taken)
  <2>1. PICK c \in CompanyIds, taken \in [CohortIds -> 0..Total(target)] : FillVacancies(c, taken)
    BY <1>5
  <2>2. taken \in [CohortIds -> Nat]
    <3>1. Total(target) \in Nat
      <4>1. IsFiniteSet(CompanyIds)
        <5>1. CompanyCount \in Int /\ 1 \in Int
          BY GenesisAssumption
        <5>. QED BY <5>1, FS_Interval DEF CompanyIds
      <4>2. DOMAIN target = CompanyIds /\ \A x \in CompanyIds : target[x] \in Nat
        <5>1. {1} \cup Targets \subseteq Nat
          BY GenesisAssumption
        <5>2. target \in [CompanyIds -> {1} \cup Targets]
          BY DEF BuiltInv, GenesisTypeOK
        <5>. QED BY <5>1, <5>2
      <4>3. Sum(target, CompanyIds) \in Nat
        BY <4>1, <4>2, SumOfNaturals
      <4>. QED BY <4>2, <4>3 DEF Total, Sum
    <3>. QED BY <3>1
  <2>3. placed' \in [CompanyIds -> [CohortIds -> Nat]]
    BY <2>1, <2>2 DEF FillVacancies, BuiltInv, GenesisTypeOK
  <2>4. GenesisTypeOK'
    BY <2>1, <2>3 DEF FillVacancies, Built, BuiltInv, GenesisTypeOK, peopleVars,
       homeVars, castVars, accountVars, restVars
  <2>. QED BY <2>1, <2>4 DEF FillVacancies, Built, BuiltInv, GenesisTypeOK, peopleVars,
              homeVars, castVars, accountVars, restVars
<1>6. CASE EndVacancies
  <2>1. GenesisTypeOK'
    BY <1>6 DEF EndVacancies, Proceed, Stages, BuiltInv, GenesisTypeOK, companyVars,
       peopleVars, homeVars, castVars, accountVars, restVars
  <2>. QED BY <1>6, <2>1 DEF EndVacancies, Proceed, BuiltInv, GenesisTypeOK,
              companyVars, peopleVars, homeVars, castVars, accountVars, restVars
<1>. QED BY <1>1, <1>2, <1>3, <1>4, <1>5, <1>6

\* The offices, the ties, the plants, the money and the public payroll are typed.
LEMMA BuiltOffices ==
  ASSUME BuiltInv,
         \/ \E p \in cast : AppointOfficial(p)
         \/ \E p \in cast, c \in companies : AppointChief(p, c)
         \/ \E p \in cast : AppointNotable(p)
         \/ LeaveVacant
         \/ WireFamilies
         \/ AssignOperators
         \/ \E c \in CompanyIds, amount \in OpeningCash : FundCompany(c, amount)
         \/ AssignPublicJobs
         \/ Seal
  PROVE  BuiltInv'
<1>0. offices # <<>> => Head(offices) \in Roles /\ Tail(offices) \in Seq(Roles)
  BY HeadTailProperties DEF BuiltInv
<1>1. CASE \E p \in cast : AppointOfficial(p)
  <2>0. offices' \in Seq(Roles)
    BY <1>0, <1>1 DEF AppointOfficial, IsUp, Fill
  <2>1. GenesisTypeOK'
    BY <1>0, <1>1 DEF AppointOfficial, IsUp, Fill, Employment, BuiltInv, GenesisTypeOK,
       companyVars, homeVars, accountVars, restVars
  <2>. QED BY <1>1, <2>0, <2>1 DEF AppointOfficial, IsUp, BuiltInv, companyVars,
              homeVars, accountVars, restVars
<1>2. CASE \E p \in cast, c \in companies : AppointChief(p, c)
  <2>0. offices' \in Seq(Roles)
    BY <1>0, <1>2 DEF AppointChief, IsUp, Fill
  <2>1. GenesisTypeOK'
    BY <1>0, <1>2 DEF AppointChief, IsUp, Fill, Employment, BuiltInv, GenesisTypeOK,
       homeVars, accountVars, restVars
  <2>. QED BY <1>2, <2>0, <2>1 DEF AppointChief, IsUp, BuiltInv, homeVars, accountVars,
              restVars
<1>3. CASE \E p \in cast : AppointNotable(p)
  <2>0. offices' \in Seq(Roles)
    BY <1>0, <1>3 DEF AppointNotable, IsUp, Fill
  <2>1. GenesisTypeOK'
    BY <1>0, <1>3 DEF AppointNotable, IsUp, Fill, BuiltInv, GenesisTypeOK, companyVars,
       peopleVars, homeVars, accountVars, restVars
  <2>. QED BY <1>3, <2>0, <2>1 DEF AppointNotable, IsUp, BuiltInv, companyVars,
              peopleVars, homeVars, accountVars, restVars
<1>4. CASE LeaveVacant
  <2>1. GenesisTypeOK'
    BY <1>4 DEF LeaveVacant, BuiltInv, GenesisTypeOK, companyVars, peopleVars,
       homeVars, accountVars, restVars
  <2>. QED BY <1>0, <1>4, <2>1 DEF LeaveVacant, BuiltInv, companyVars, peopleVars,
              homeVars, accountVars, restVars
<1>5. CASE WireFamilies
  <2>1. GenesisTypeOK'
    BY <1>5 DEF WireFamilies, Proceed, Stages, BuiltInv, GenesisTypeOK, companyVars,
       peopleVars, homeVars, castVars, accountVars
  <2>. QED BY <1>5, <2>1 DEF WireFamilies, Proceed, BuiltInv, companyVars, peopleVars,
              homeVars, castVars
<1>6. CASE AssignOperators
  <2>0. operator' \in [Plants -> companies \cup {NoOne}]
    BY <1>6 DEF AssignOperators, BuiltInv, GenesisTypeOK
  <2>1. GenesisTypeOK'
    BY <1>6, <2>0 DEF AssignOperators, Proceed, Stages, BuiltInv, GenesisTypeOK,
       companyVars, peopleVars, homeVars, castVars, accountVars
  <2>. QED BY <1>6, <2>1 DEF AssignOperators, Proceed, BuiltInv, GenesisTypeOK,
              companyVars, peopleVars, homeVars, castVars
<1>7. CASE \E c \in CompanyIds, amount \in OpeningCash : FundCompany(c, amount)
  <2>1. PICK c \in CompanyIds, amount \in OpeningCash : FundCompany(c, amount)
    BY <1>7
  <2>2. amount \in Nat
    BY GenesisAssumption
  <2>3. (\A x \in DOMAIN cash' : cash'[x] \in Nat) /\ supply' \in Nat
    BY <2>1, <2>2 DEF FundCompany, BuiltInv, GenesisTypeOK
  <2>4. GenesisTypeOK'
    BY <2>1, <2>3 DEF FundCompany, Built, BuiltInv, GenesisTypeOK, companyVars,
       peopleVars, homeVars, castVars, restVars
  <2>. QED BY <2>1, <2>4 DEF FundCompany, Built, BuiltInv, GenesisTypeOK, companyVars,
              peopleVars, homeVars, castVars
<1>8. CASE AssignPublicJobs
  <2> DEFINE working == {k \in CohortIds : WorkPct[k] > 0 /\ size[k] > 0}
             pool    == Total([k \in working |-> size[k]])
             sizes   == [k \in working |-> size[k]]
  <2>1. publicJobs' = [k \in CohortIds |->
              IF k \in working THEN Round(PublicStaff * size[k], pool) ELSE 0]
    BY <1>8 DEF AssignPublicJobs
  <2>2. ASSUME NEW k \in working PROVE Round(PublicStaff * size[k], pool) \in Nat
    <3>1. IsFiniteSet(working) /\ DOMAIN sizes = working
          /\ \A j \in working : sizes[j] \in Nat /\ sizes[j] = size[j]
      <4>1. working \subseteq CohortIds
        OBVIOUS
      <4>. QED BY <4>1, FS_Subset, GenesisAssumption DEF BuiltInv, GenesisTypeOK
    <3>2. size[k] \in Nat /\ size[k] > 0
      BY DEF BuiltInv, GenesisTypeOK
    <3>3. pool = Sum(sizes, working)
      BY DEF Total, Sum
    <3>. HIDE DEF sizes, working, pool
    <3>4. pool \in Nat /\ size[k] =< pool
      BY <3>1, <3>3, SumOfNaturals
    <3>5. PublicStaff * size[k] \in Nat
      BY <3>2, GenesisAssumption
    <3>. QED BY <3>2, <3>4, <3>5, RoundIsNat
  <2>. HIDE DEF working, pool
  <2>3. publicJobs' \in [CohortIds -> Nat]
    BY <2>1, <2>2
  <2>4. GenesisTypeOK'
    BY <1>8, <2>3 DEF AssignPublicJobs, Proceed, Stages, BuiltInv, GenesisTypeOK,
       companyVars, peopleVars, homeVars, castVars, accountVars
  <2>. QED BY <1>8, <2>4 DEF AssignPublicJobs, Proceed, BuiltInv, GenesisTypeOK,
              companyVars, peopleVars, homeVars, castVars
<1>9. CASE Seal
  <2>1. GenesisTypeOK'
    BY <1>9 DEF Seal, Proceed, Stages, BuiltInv, GenesisTypeOK, companyVars,
       peopleVars, homeVars, castVars, accountVars, restVars
  <2>. QED BY <1>9, <2>1 DEF Seal, Proceed, BuiltInv, companyVars, peopleVars,
              homeVars, castVars
<1>. QED BY <1>1, <1>2, <1>3, <1>4, <1>5, <1>6, <1>7, <1>8, <1>9

\* Types are kept.
LEMMA BuiltNext == ASSUME BuiltInv, GenesisNext PROVE BuiltInv'
BY BuiltCity, BuiltHouseholds, BuiltJobs, BuiltOffices DEF GenesisNext
-----------------------------------------------------------------------------
(* Money.                                                                   *)

\* Accounts are opened for owners who come.
LEMMA OpenedMoney ==
  ASSUME BuiltInv, MoneyInv, NEW S, IsFiniteSet(S), S \cap Owners = {}, NEW a \in Nat,
         OpenAccounts(S, a), Owners' = Owners \cup S
  PROVE  /\ IsFiniteSet(DOMAIN cash') /\ DOMAIN cash' = Owners'
         /\ supply' = Total(cash')
         /\ \A x \in Owners : cash'[x] = cash[x]
         /\ \A x \in S : cash'[x] = a
<1>1. /\ IsFiniteSet(DOMAIN cash) /\ DOMAIN cash = Owners /\ supply = Total(cash)
      /\ \A x \in DOMAIN cash : cash[x] \in Nat
  BY DEF MoneyInv, BuiltInv, GenesisTypeOK
<1>2. cash' = Extend(cash, S, a) /\ supply' = supply + a * Cardinality(S)
  BY DEF OpenAccounts
<1>3. Total(cash') = Total(cash) + a * Cardinality(S)
  BY <1>1, <1>2, TotalOfOpened
<1>4. DOMAIN cash' = Owners \cup S /\ IsFiniteSet(Owners \cup S)
  BY <1>1, <1>2, Extended, FS_Union
<1>5. /\ \A x \in Owners : cash'[x] = cash[x]
      /\ \A x \in S : cash'[x] = a
  <2>1. \A x \in Owners : x \in DOMAIN cash \ S
    BY <1>1
  <2>2. /\ \A i \in S : Extend(cash, S, a)[i] = a
        /\ \A i \in DOMAIN cash \ S : Extend(cash, S, a)[i] = cash[i]
    BY DEF Extend
  <2>. QED BY <1>2, <2>1, <2>2
<1>. QED BY <1>1, <1>2, <1>3, <1>4, <1>5

\* Nobody has an account yet.
LEMMA MoneyInit == GenesisInit => MoneyInv
<1>. SUFFICES ASSUME GenesisInit PROVE MoneyInv
  OBVIOUS
<1>1. DOMAIN cash = {} /\ IsFiniteSet({}) /\ companies = {} /\ supply = 0 /\ stage = "companies"
  BY FS_EmptySet DEF GenesisInit, Nothing
<1>2. Owners = {}
  BY DEF GenesisInit, Owners
<1>3. Total(cash) = Sum(cash, {})
  BY <1>1 DEF Total, Sum
<1>4. \A k \in CohortIds : size[k] = 0
  BY DEF GenesisInit
<1>. QED BY <1>1, <1>2, <1>3, <1>4, SumOfNone DEF MoneyInv

\* Companies, the treasury, cohorts and households get their accounts.
LEMMA MoneyOpened ==
  ASSUME BuiltInv, MoneyInv,
         \/ \E c \in CompanyIds : BuildCompany(c)
         \/ BuildGovernment
         \/ \E k \in CohortIds, count \in Sizes : BuildCohort(k, count)
         \/ \E d \in Districts, count \in 1..MaxSize : BuildHousehold(d, count)
  PROVE  MoneyInv'
<1>1. CASE \E c \in CompanyIds : BuildCompany(c)
  <2>1. PICK c \in CompanyIds : BuildCompany(c)
    BY <1>1
  <2> DEFINE S == {<<"firm", c>>}
  <2>2. /\ stage = "companies" /\ stage' = "companies" /\ c \in left /\ left' = left \ {c}
        /\ companies' = companies \cup {c} /\ OpenAccounts(S, 0)
        /\ people' = people /\ households' = households /\ size' = size
    BY <2>1 DEF BuildCompany, IsTurn, Built, peopleVars, homeVars, restVars
  <2>3. c \notin companies
    BY <2>2 DEF MoneyInv
  <2>4. IsFiniteSet(S) /\ S \cap Owners = {}
    <3>1. S \cap Owners = {}
      BY <2>2, <2>3 DEF Owners
    <3>. QED BY <3>1, FS_Singleton
  <2>5. Owners' = Owners \cup S
    BY <2>2 DEF Owners
  <2>6. /\ IsFiniteSet(DOMAIN cash') /\ DOMAIN cash' = Owners'
        /\ supply' = Total(cash')
        /\ \A x \in Owners : cash'[x] = cash[x]
        /\ \A x \in S : cash'[x] = 0
    BY <2>2, <2>4, <2>5, OpenedMoney
  <2>7. \A e \in companies' : cash'[<<"firm", e>>] = 0
    BY <2>2, <2>6 DEF MoneyInv, Owners
  <2>8. (companies \cap left = {})' /\ \A k \in CohortIds : size'[k] = 0
    BY <2>2 DEF MoneyInv
  <2>. QED BY <2>2, <2>6, <2>7, <2>8 DEF MoneyInv
<1>2. CASE BuildGovernment
  <2> DEFINE S == {<<"treasury">>}
  <2>2. /\ stage = "companies" /\ stage' = "technology"
        /\ companies' = companies /\ OpenAccounts(S, Savings)
        /\ people' = people /\ households' = households /\ size' = size
    BY <1>2 DEF BuildGovernment, Proceed, companyVars, peopleVars, homeVars, restVars
  <2>4. IsFiniteSet(S) /\ S \cap Owners = {} /\ Savings \in Nat
    <3>1. S \cap Owners = {}
      BY <2>2 DEF Owners
    <3>. QED BY <3>1, FS_Singleton, GenesisAssumption
  <2>5. Owners' = Owners \cup S
    BY <2>2 DEF Owners
  <2>6. /\ IsFiniteSet(DOMAIN cash') /\ DOMAIN cash' = Owners'
        /\ supply' = Total(cash')
        /\ \A x \in Owners : cash'[x] = cash[x]
    BY <2>2, <2>4, <2>5, OpenedMoney
  <2>7. \A e \in companies' : cash'[<<"firm", e>>] = 0
    BY <2>2, <2>6 DEF MoneyInv, Owners
  <2>8. \A k \in CohortIds : size'[k] = 0
    BY <2>2 DEF MoneyInv
  <2>. QED BY <2>2, <2>6, <2>7, <2>8 DEF MoneyInv
<1>3. CASE \E k \in CohortIds, count \in Sizes : BuildCohort(k, count)
  <2>1. PICK k \in CohortIds, count \in Sizes : BuildCohort(k, count)
    BY <1>3
  <2> DEFINE S == IF count = 0 THEN {} ELSE {<<"cohort", k>>}
  <2>2. /\ stage = "cohorts" /\ stage' = "cohorts" /\ k \in left /\ left' = left \ {k}
        /\ companies' = companies /\ OpenAccounts(S, Savings)
        /\ people' = people /\ households' = households /\ size' = [size EXCEPT ![k] = count]
    BY <2>1 DEF BuildCohort, Built, companyVars, peopleVars, homeVars
  <2>3. size \in [CohortIds -> Nat] /\ size[k] = 0 /\ count \in Nat
    BY <2>2, GenesisAssumption DEF MoneyInv, BuiltInv, GenesisTypeOK
  <2>4. IsFiniteSet(S) /\ S \cap Owners = {} /\ Savings \in Nat
    <3>1. IsFiniteSet(S)
      <4>1. IsFiniteSet({}) /\ IsFiniteSet({<<"cohort", k>>})
        BY FS_EmptySet, FS_Singleton
      <4>. QED BY <4>1
    <3>2. S \cap Owners = {}
      BY <2>3 DEF Owners
    <3>. QED BY <3>1, <3>2, GenesisAssumption
  <2>5. Owners' = Owners \cup S
    <3>1. {j \in CohortIds : size'[j] > 0}
            = {j \in CohortIds : size[j] > 0} \cup IF count = 0 THEN {} ELSE {k}
      BY <2>2, <2>3
    <3>. QED BY <2>2, <3>1 DEF Owners
  <2>6. /\ IsFiniteSet(DOMAIN cash') /\ DOMAIN cash' = Owners'
        /\ supply' = Total(cash')
        /\ \A x \in Owners : cash'[x] = cash[x]
    BY <2>2, <2>4, <2>5, OpenedMoney
  <2>7. \A e \in companies' : cash'[<<"firm", e>>] = 0
    BY <2>2, <2>6 DEF MoneyInv, Owners
  <2>8. \A j \in left' : size'[j] = 0
    BY <2>2, <2>3 DEF MoneyInv, BuiltInv
  <2>. QED BY <2>2, <2>6, <2>7, <2>8 DEF MoneyInv
<1>4. CASE \E d \in Districts, count \in 1..MaxSize : BuildHousehold(d, count)
  <2>1. PICK d \in Districts, count \in 1..MaxSize : BuildHousehold(d, count)
    BY <1>4
  <2> DEFINE h   == Cardinality(households) + 1
             new == (Cardinality(people) + 1)..(Cardinality(people) + count)
             S   == {<<"household", h>>} \cup {<<"person", p>> : p \in new}
  <2>2. /\ people' = people \cup new /\ people \cap new = {} /\ IsFiniteSet(new)
        /\ households' = households \cup {h} /\ h \notin households
    BY <2>1, NextNumbers
  <2>3. /\ stage = "households" /\ stage' = "households"
        /\ companies' = companies /\ size' = size /\ OpenAccounts(S, Savings)
    BY <2>1 DEF BuildHousehold, companyVars, restVars
  <2> HIDE DEF h, new
  <2>4. IsFiniteSet(S) /\ S \cap Owners = {} /\ Savings \in Nat
    <3>1. IsFiniteSet(new)
      BY <2>2
    <3>2. IsFiniteSet({<<"person", p>> : p \in new})
      BY <3>1, TaggedFinite, Zenon
    <3>3. IsFiniteSet(S)
      BY <3>2, FS_Union, FS_Singleton
    <3>4. S \cap Owners = {}
      BY <2>2, <2>3 DEF Owners
    <3>. QED BY <3>3, <3>4, GenesisAssumption
  <2>5. Owners' = Owners \cup S
    BY <2>2, <2>3 DEF Owners
  <2>6. /\ IsFiniteSet(DOMAIN cash') /\ DOMAIN cash' = Owners'
        /\ supply' = Total(cash')
        /\ \A x \in Owners : cash'[x] = cash[x]
    BY <2>3, <2>4, <2>5, OpenedMoney
  <2>7. \A e \in companies' : cash'[<<"firm", e>>] = 0
    BY <2>3, <2>6 DEF MoneyInv, Owners
  <2>. QED BY <2>3, <2>6, <2>7 DEF MoneyInv
<1>. QED BY <1>1, <1>2, <1>3, <1>4

\* A company's account was empty: what it is funded with is new money.
LEMMA MoneyFunded ==
  ASSUME BuiltInv, MoneyInv, NEW c \in CompanyIds, NEW a \in OpeningCash, FundCompany(c, a)
  PROVE  MoneyInv'
<1> DEFINE x == <<"firm", c>>
<1>1. /\ stage = "funding" /\ stage' = "funding" /\ c \in left /\ left' = left \ {c}
      /\ cash' = [cash EXCEPT ![x] = a] /\ supply' = supply + a
      /\ companies' = companies /\ people' = people /\ households' = households /\ size' = size
  BY DEF FundCompany, IsTurn, Built, companyVars, peopleVars, homeVars, restVars
<1>2. /\ IsFiniteSet(DOMAIN cash) /\ DOMAIN cash = Owners /\ supply = Total(cash)
      /\ \A z \in DOMAIN cash : cash[z] \in Nat
  BY DEF MoneyInv, BuiltInv, GenesisTypeOK
<1>3. c \in companies /\ cash[x] = 0 /\ x \in DOMAIN cash /\ a \in Nat
  BY <1>1, <1>2, GenesisAssumption DEF MoneyInv, Owners
<1>4. DOMAIN cash' = DOMAIN cash /\ Owners' = Owners
  BY <1>1 DEF Owners
<1>5. Total(cash) = Sum(cash, DOMAIN cash) /\ Total(cash') = Sum(cash', DOMAIN cash)
  BY <1>4 DEF Total, Sum
<1>6. cash'[x] = cash[x] + a /\ \A z \in DOMAIN cash : z # x => cash'[z] = cash[z]
  BY <1>1, <1>3
<1>7. Numbers(cash, DOMAIN cash)
  BY <1>2 DEF Numbers
<1> HIDE DEF x
<1>8. Sum(cash', DOMAIN cash) = Sum(cash, DOMAIN cash) + a
  BY <1>2, <1>3, <1>6, <1>7, SumOfChanged
<1>9. \A e \in left' : e \in companies /\ cash'[<<"firm", e>>] = 0
  <2>1. \A e \in left' : e # c /\ e \in companies /\ cash[<<"firm", e>>] = 0 /\ <<"firm", e>> \in DOMAIN cash
    BY <1>1, <1>2 DEF MoneyInv, Owners
  <2>. QED BY <1>6, <2>1 DEF x
<1>. QED BY <1>1, <1>2, <1>4, <1>5, <1>8, <1>9 DEF MoneyInv

\* Nothing else opens an account, and companies wait for their cash until they
\* are funded.
LEMMA MoneyElse ==
  ASSUME BuiltInv, MoneyInv,
         cash' = cash, supply' = supply, companies' = companies, people' = people,
         households' = households, size' = size,
         \/ stage' = stage /\ left' \subseteq left
         \/ /\ stage \in {"technology", "cohorts", "households", "jobs", "vacancies", "offices"}
            /\ stage' \in Stages \ {"companies", "technology", "cohorts", "funding",
                                    "unsealed", "sealed"}
         \/ stage = "technology" /\ stage' = "cohorts" /\ left' = CohortIds
         \/ stage = "plants" /\ stage' = "funding" /\ left' = companies
         \/ stage \in {"funding", "unsealed"} /\ stage' \in {"unsealed", "sealed"}
  PROVE  MoneyInv'
<1>1. stage \in Stages
  BY DEF BuiltInv, GenesisTypeOK
<1>2. Owners' = Owners
  BY <1>1 DEF Owners
<1>3. (stage = "companies" => companies \cap left = {})'
  BY DEF MoneyInv
<1>4. (stage = "cohorts" => \A k \in left : size[k] = 0)'
  BY DEF MoneyInv
<1>5. (stage \in {"companies", "technology"} => \A k \in CohortIds : size[k] = 0)'
  BY <1>1 DEF MoneyInv
<1>6. (stage \notin {"funding", "unsealed", "sealed"} => \A c \in companies : cash[<<"firm", c>>] = 0)'
  BY <1>1 DEF MoneyInv
<1>7. (stage = "funding" => left \subseteq companies /\ \A c \in left : cash[<<"firm", c>>] = 0)'
  BY <1>1 DEF MoneyInv
<1>8. (IsFiniteSet(DOMAIN cash) /\ DOMAIN cash = Owners /\ supply = Total(cash))'
  <2>1. IsFiniteSet(DOMAIN cash) /\ DOMAIN cash = Owners /\ supply = Total(cash)
    BY DEF MoneyInv
  <2>2. Total(cash') = Total(cash)
    BY DEF Total
  <2>. QED BY <1>2, <2>1, <2>2
<1>. QED BY <1>3, <1>4, <1>5, <1>6, <1>7, <1>8 DEF MoneyInv

\* Money stays sound.
LEMMA MoneyNext == ASSUME BuiltInv, MoneyInv, GenesisNext PROVE MoneyInv'
<1> USE DEF companyVars, peopleVars, homeVars, castVars, accountVars, restVars, Built, Proceed
<1>1. CASE \/ \E c \in CompanyIds : BuildCompany(c)
           \/ BuildGovernment
           \/ \E k \in CohortIds, count \in Sizes : BuildCohort(k, count)
           \/ \E d \in Districts, count \in 1..MaxSize : BuildHousehold(d, count)
  BY <1>1, MoneyOpened
<1>2. CASE \E c \in CompanyIds, amount \in OpeningCash : FundCompany(c, amount)
  BY <1>2, MoneyFunded
<1>3. CASE BuildTechnology \/ EndCohorts \/ \E chosen \in SUBSET people : Promote(chosen)
  BY <1>3, MoneyElse DEF BuildTechnology, EndCohorts, Promote, Stages
<1>4. CASE \/ \E p \in people, c \in companies : AssignJob(p, c)
           \/ \E p \in people : PassOver(p)
           \/ EndJobs
           \/ \E c \in CompanyIds, taken \in [CohortIds -> 0..Total(target)] : FillVacancies(c, taken)
           \/ EndVacancies
  BY <1>4, MoneyElse DEF AssignJob, PassOver, EndJobs, FillVacancies, EndVacancies,
     Stages
<1>5. CASE \/ \E p \in cast : AppointOfficial(p)
           \/ \E p \in cast, c \in companies : AppointChief(p, c)
           \/ \E p \in cast : AppointNotable(p)
           \/ LeaveVacant
  BY <1>5, MoneyElse DEF AppointOfficial, AppointChief, AppointNotable, LeaveVacant
<1>6. CASE WireFamilies \/ AssignOperators \/ AssignPublicJobs \/ Seal
  BY <1>6, MoneyElse DEF WireFamilies, AssignOperators, AssignPublicJobs, Seal, Stages
<1>. QED BY <1>1, <1>2, <1>3, <1>4, <1>5, <1>6 DEF GenesisNext
-----------------------------------------------------------------------------
(* Research.                                                                *)

\* The companies that do research go round what is ready: none is on what another is
\* at while something is left.
LEMMA ResearchNext ==
  ASSUME BuiltInv, ResearchInv, GenesisNext
  PROVE  ResearchInv'
<1> DEFINE doing == companies \cap ResearchFirms
           first == {c \in doing : Before(c, doing) < MaxProjects}
           Pursued(c) == CHOOSE n \in Ready : Before(n, Ready) = Before(c, first) % Cardinality(Ready)
<1>1. CASE BuildTechnology
  <2>1. /\ project' = [c \in CompanyIds |-> IF c \in first /\ Ready # {} THEN Pursued(c) ELSE 0]
        /\ companies' = companies /\ stage' = "cohorts"
    BY <1>1 DEF BuildTechnology, Proceed, companyVars
  <2>2. first \in SUBSET Nat /\ IsFiniteSet(first) /\ first \subseteq CompanyIds /\ first \subseteq doing
    <3>1. first \subseteq companies /\ first \subseteq doing
      OBVIOUS
    <3>2. companies \subseteq Nat
      BY GenesisAssumption, NumberedSets DEF CompanyIds
    <3> HIDE DEF first
    <3>. QED BY <3>1, <3>2, NumberedSets, FS_Subset
  <2> DEFINE r == Cardinality(Ready)
             m == Cardinality(first)
  <2>3. Ready \in SUBSET (1..Discoveries) /\ Ready \in SUBSET Nat /\ IsFiniteSet(Ready)
    <3>1. Ready \in SUBSET (1..Discoveries)
      BY DEF Ready
    <3>2. Discoveries \in Nat
      BY GenesisAssumption
    <3>3. IsFiniteSet(1..Discoveries) /\ 1..Discoveries \subseteq Nat
      BY <3>2, FS_Interval
    <3>. QED BY <3>1, <3>3, FS_Subset
  <2>4. r \in Nat /\ m \in Nat
    BY <2>2, <2>3, FS_CardinalityType
  <2> HIDE DEF first, doing, r
  <2>5. ASSUME NEW c \in first, Ready # {}
        PROVE  /\ Before(c, first) \in Nat /\ Before(c, first) =< m - 1
               /\ Pursued(c) \in Ready /\ Before(Pursued(c), Ready) = Before(c, first) % r
    <3>1. Before(c, first) \in 0..(m - 1)
      BY <2>2, BeforeCounts
    <3>2. Before(c, first) \in Nat /\ Before(c, first) =< m - 1
      BY <2>4, <3>1
    <3>. QED BY <2>5, <3>2, PicksProject DEF r
  <2> HIDE DEF m, Pursued
  <2>6. \A c \in CompanyIds : project'[c] # 0 => c \in first /\ Ready # {} /\ project'[c] = Pursued(c)
    BY <2>1
  <2>7. \A c \in first : Ready # {} => project'[c] = Pursued(c)
    BY <2>1, <2>2
  <2>8. \A c \in CompanyIds : project'[c] # 0
            => c \in companies' \cap ResearchFirms /\ project'[c] \in Ready
    BY <2>1, <2>2, <2>5, <2>6 DEF doing
  <2>9. ASSUME NEW c \in CompanyIds, NEW d \in CompanyIds, c # d, project'[c] = project'[d],
               project'[c] # 0
        PROVE  Ready \subseteq {project'[f] : f \in CompanyIds}
    <3>1. c \in first /\ d \in first /\ Ready # {} /\ Pursued(c) = Pursued(d)
      BY <2>6, <2>9
    <3> DEFINE i == Before(c, first)
               j == Before(d, first)
    <3>2. i # j
      BY <2>2, <2>9, <3>1, BeforeReaches
    <3>3. i % r = j % r
      BY <2>5, <3>1
    <3>4. r # 0
      BY <2>3, <3>1, FS_EmptySet DEF r
    <3>5. i \in Nat /\ j \in Nat /\ i =< m - 1 /\ j =< m - 1
      BY <2>5, <3>1
    <3> HIDE DEF i, j
    <3>6. r < m
      <4>1. CASE i < r /\ j < r
        <5>1. i % r = i /\ j % r = j
          BY <2>4, <3>4, <3>5, <4>1
        <5>. QED BY <3>2, <3>3, <5>1
      <4>2. CASE ~ (i < r) \/ ~ (j < r)
        BY <2>4, <3>5, <4>2
      <4>. QED BY <4>1, <4>2
    <3>7. ASSUME NEW n \in Ready PROVE \E f \in CompanyIds : project'[f] = n
      <4>1. Before(n, Ready) \in 0..(r - 1)
        BY <2>3, BeforeCounts DEF r
      <4>2. Before(n, Ready) \in 0..(m - 1) /\ Before(n, Ready) % r = Before(n, Ready)
        <5> DEFINE b == Before(n, Ready)
        <5>1. b \in 0..(r - 1)
          BY <4>1
        <5> HIDE DEF b
        <5>2. b \in 0..(m - 1) /\ b % r = b
          BY <2>4, <3>4, <3>6, <5>1
        <5>. QED BY <5>2 DEF b
      <4>3. PICK f \in first : Before(f, first) = Before(n, Ready)
        BY <2>2, <4>2, BeforeReaches DEF m
      <4>4. Pursued(f) \in Ready /\ Before(Pursued(f), Ready) = Before(n, Ready)
        BY <2>5, <3>1, <4>2, <4>3
      <4>5. Pursued(f) = n
        BY <2>3, <4>4, BeforeReaches
      <4>. QED BY <2>2, <2>7, <3>1, <4>5
    <3>. QED BY <3>7
  <2>. QED BY <2>1, <2>8, <2>9 DEF ResearchInv, ResearchIsSound
<1>2. CASE \E c \in CompanyIds : BuildCompany(c)
  <2>1. stage = "companies" /\ project' = project
    BY <1>2 DEF BuildCompany, restVars
  <2>2. \A c \in CompanyIds : project'[c] = 0
    BY <2>1 DEF ResearchInv
  <2>. QED BY <2>2 DEF ResearchInv, ResearchIsSound
<1>3. CASE project' = project /\ companies' = companies
           /\ (stage' \in {"companies", "technology"} => stage \in {"companies", "technology"})
  BY <1>3 DEF ResearchInv, ResearchIsSound
<1>4. CASE BuildGovernment \/ (\E k \in CohortIds, count \in Sizes : BuildCohort(k, count)) \/ EndCohorts
  BY <1>3, <1>4 DEF BuildGovernment, BuildCohort, EndCohorts, Proceed, Built,
     companyVars, restVars
<1>5. CASE (\E d \in Districts, count \in 1..MaxSize : BuildHousehold(d, count))
           \/ (\E chosen \in SUBSET people : Promote(chosen))
  BY <1>3, <1>5 DEF BuildHousehold, Promote, Proceed, companyVars, restVars
<1>6. CASE \/ \E p \in people, c \in companies : AssignJob(p, c)
           \/ \E p \in people : PassOver(p)
           \/ EndJobs
           \/ \E c \in CompanyIds, taken \in [CohortIds -> 0..Total(target)] : FillVacancies(c, taken)
           \/ EndVacancies
  BY <1>3, <1>6 DEF AssignJob, PassOver, EndJobs, FillVacancies, EndVacancies, Proceed,
     Built, companyVars, restVars
<1>7. CASE \/ \E p \in cast : AppointOfficial(p)
           \/ \E p \in cast, c \in companies : AppointChief(p, c)
           \/ \E p \in cast : AppointNotable(p)
           \/ LeaveVacant
  BY <1>3, <1>7 DEF AppointOfficial, AppointChief, AppointNotable, LeaveVacant,
     companyVars, restVars
<1>8. CASE \/ WireFamilies \/ AssignOperators
           \/ \E c \in CompanyIds, amount \in OpeningCash : FundCompany(c, amount)
           \/ AssignPublicJobs \/ Seal
  BY <1>3, <1>8 DEF WireFamilies, AssignOperators, FundCompany, AssignPublicJobs, Seal,
     Proceed, Built, companyVars, restVars
<1>. QED BY <1>1, <1>2, <1>4, <1>5, <1>6, <1>7, <1>8 DEF GenesisNext

\* There are no projects yet.
LEMMA ResearchInit == GenesisInit => ResearchInv
BY DEF GenesisInit, ResearchInv, ResearchIsSound
-----------------------------------------------------------------------------
(* Homes.                                                                   *)

\* Nobody has moved in yet.
LEMMA HomesInit == GenesisInit => HomesInv
<1>. SUFFICES ASSUME GenesisInit PROVE HomesInv
  OBVIOUS
<1>1. people = {} /\ households = {} /\ stage = "companies" /\ occupancy = [b \in Buildings |-> 0]
  BY DEF GenesisInit
<1>2. \A b \in Buildings : {p \in people : building[home[p]] = b} = {}
  BY <1>1
<1>3. \A b \in Buildings : occupancy[b] = Cardinality({p \in people : building[home[p]] = b})
  BY <1>1, <1>2, FS_EmptySet
<1>4. \A d \in Districts : \A b \in Housing[d] : b \in Buildings /\ occupancy[b] = 0 /\ Capacity[b] \in Nat
  BY <1>1, GenesisAssumption DEF Buildings
<1>5. ~ (0 >= MaxSize) /\ MaxSize \in Nat
  BY GenesisAssumption
<1>6. \A d \in Districts : \A b, c \in Housing[d] :
          occupancy[b] >= Capacity[b] + MaxSize => occupancy[c] >= Capacity[c]
  BY <1>4, <1>5
<1>. QED BY <1>1, <1>3, <1>6 DEF HomesInv

\* A household moves into one building of its district, and crowds it only when all
\* are full.
LEMMA HomesEntered ==
  ASSUME BuiltInv, HomesInv, NEW d \in Districts, NEW count \in 1..MaxSize, BuildHousehold(d, count)
  PROVE  HomesInv'
<1> DEFINE h   == Cardinality(households) + 1
           new == (Cardinality(people) + 1)..(Cardinality(people) + count)
<1>0. count =< MaxSize /\ MaxSize \in Nat
  BY GenesisAssumption
<1>1. /\ count \in Nat \ {0} /\ count =< MaxSize /\ MaxSize \in Nat
      /\ people' = people \cup new /\ people \cap new = {}
      /\ IsFiniteSet(new) /\ Cardinality(new) = count
      /\ households' = households \cup {h} /\ h \notin households
  BY <1>0, NextNumbers
<1>2. PICK b \in HomesFor(d) : building' = Extend(building, {h}, b)
                            /\ occupancy' = [occupancy EXCEPT ![b] = @ + count]
  BY DEF BuildHousehold
<1>3. /\ home' = Extend(home, new, h) /\ members' = Extend(members, {h}, new)
      /\ stage = "households" /\ stage' = "households"
  BY DEF BuildHousehold
<1>. HIDE DEF h, new
<1>4. /\ occupancy \in [Buildings -> Nat] /\ Capacity \in [Buildings -> Nat]
      /\ building \in [households -> Buildings] /\ home \in [people -> households]
      /\ members \in [households -> SUBSET people]
  BY GenesisAssumption DEF BuiltInv, GenesisTypeOK
<1>5. b \in Buildings
  BY <1>2, GenesisAssumption DEF HomesFor, Buildings
<1>6. /\ \A p \in people : home'[p] = home[p] /\ p \notin new /\ home[p] \in households /\ home[p] # h
      /\ \A p \in new : home'[p] = h
  BY <1>1, <1>3, <1>4 DEF Extend
<1>7. /\ \A i \in households : building'[i] = building[i] /\ members'[i] = members[i] /\ i # h
      /\ building'[h] = b /\ members'[h] = new
  BY <1>1, <1>2, <1>3, <1>4 DEF Extend
<1>8. ASSUME NEW i \in households' PROVE members'[i] = {p \in people' : home'[p] = i}
  <2>1. CASE i = h
    BY <1>1, <1>6, <1>7, <2>1
  <2>2. CASE i # h
    <3>1. i \in households /\ members[i] = {p \in people : home[p] = i}
      BY <1>1, <2>2 DEF HomesInv
    <3>. QED BY <1>1, <1>6, <1>7, <2>2, <3>1
  <2>. QED BY <2>1, <2>2
<1>9. ASSUME NEW a \in Buildings
      PROVE  occupancy'[a] = Cardinality({p \in people' : building'[home'[p]] = a})
  <2> DEFINE In == {p \in people : building[home[p]] = a}
  <2>1. occupancy[a] = Cardinality(In)
    BY DEF HomesInv
  <2>2. \A p \in people : building'[home'[p]] = building[home[p]]
    BY <1>6, <1>7
  <2>3. \A p \in new : building'[home'[p]] = b
    BY <1>6, <1>7
  <2>4. CASE a = b
    <3>1. {p \in people' : building'[home'[p]] = a} = In \cup new /\ In \cap new = {}
      BY <1>1, <2>2, <2>3, <2>4
    <3>2. IsFiniteSet(In)
      <4>1. In \subseteq people
        OBVIOUS
      <4>. HIDE DEF In
      <4>. QED BY <4>1, NumberedSets, FS_Subset
    <3>. HIDE DEF In
    <3>3. Cardinality(In \cup new) = Cardinality(In) + Cardinality(new)
      <4>1. Cardinality(In \cup new) = Cardinality(In) + Cardinality(new) - Cardinality(In \cap new)
        BY <1>1, <3>2, FS_Union
      <4>2. Cardinality(In) \in Nat /\ Cardinality(In \cap new) = 0
        BY <3>1, <3>2, FS_CardinalityType, FS_EmptySet
      <4>. QED BY <1>1, <4>1, <4>2
    <3>. QED BY <1>1, <1>2, <1>4, <1>5, <2>1, <2>4, <3>1, <3>3
  <2>5. CASE a # b
    <3>1. {p \in people' : building'[home'[p]] = a} = In
      BY <1>1, <2>2, <2>3, <2>5
    <3>2. occupancy'[a] = occupancy[a]
      BY <1>2, <1>4, <2>5
    <3>. QED BY <2>1, <3>1, <3>2
  <2>. QED BY <2>4, <2>5
<1>10. ASSUME NEW e \in Districts, NEW x \in Housing[e], NEW y \in Housing[e],
              occupancy'[x] >= Capacity[x] + MaxSize
       PROVE  occupancy'[y] >= Capacity[y]
  <2>1. /\ x \in Buildings /\ y \in Buildings
        /\ {occupancy[x], occupancy[y], Capacity[x], Capacity[y], occupancy[b]} \subseteq Nat
    BY <1>4, <1>5, GenesisAssumption DEF Buildings
  <2>2. /\ \A z \in Buildings : z # b => occupancy'[z] = occupancy[z]
        /\ occupancy'[b] = occupancy[b] + count
    BY <1>2, <1>4, <1>5
  <2>3. occupancy[x] >= Capacity[x] + MaxSize => occupancy[y] >= Capacity[y]
    BY DEF HomesInv
  <2>4. occupancy'[y] >= occupancy[y]
    BY <1>1, <2>1, <2>2
  <2>5. CASE x # b
    BY <1>1, <1>10, <2>1, <2>2, <2>3, <2>4, <2>5
  <2>6. CASE x = b
    <3>1. e = d /\ Housing[d] # {}
      <4>1. Housing[d] = {} => b = Hall[d]
        BY <1>2 DEF HomesFor
      <4>2. Housing[d] # {}
        BY <2>6, <4>1, GenesisAssumption
      <4>3. b \in Housing[d]
        BY <1>2, <4>2 DEF HomesFor
      <4>. QED BY <2>6, <4>2, <4>3, GenesisAssumption
    <3>2. CASE occupancy[b] < Capacity[b]
      BY <1>1, <1>10, <2>1, <2>2, <2>6, <3>2
    <3>3. CASE ~ (occupancy[b] < Capacity[b])
      <4>1. {z \in Housing[d] : occupancy[z] < Capacity[z]} = {}
        BY <1>2, <3>1, <3>3 DEF HomesFor
      <4>2. ~ (occupancy[y] < Capacity[y])
        BY <3>1, <4>1
      <4>. QED BY <1>1, <2>1, <2>2, <2>4, <4>2
    <3>. QED BY <3>2, <3>3
  <2>. QED BY <2>5, <2>6
<1>. QED BY <1>3, <1>8, <1>9, <1>10 DEF HomesInv

\* Who lives together is a family.
LEMMA HomesTied ==
  ASSUME BuiltInv, HomesInv, WireFamilies
  PROVE  HomesInv'
<1>1. /\ people' = people /\ home' = home /\ households' = households /\ members' = members
      /\ building' = building /\ occupancy' = occupancy
      /\ family' = {t \in people \X people : t[1] # t[2] /\
                      \E h \in households : {t[1], t[2]} \subseteq members[h]}
  BY DEF WireFamilies, peopleVars, homeVars
<1>2. home \in [people -> households]
  BY DEF BuiltInv, GenesisTypeOK
<1>3. \A h \in households : members[h] = {p \in people : home[p] = h}
  BY DEF HomesInv
<1>4. ASSUME NEW p \in people, NEW q \in people
      PROVE  <<p, q>> \in family' <=> p # q /\ home[p] = home[q]
  <2>1. <<p, q>> \in family' <=> p # q /\ \E h \in households : p \in members[h] /\ q \in members[h]
    BY <1>1
  <2>2. (\E h \in households : p \in members[h] /\ q \in members[h]) <=> home[p] = home[q]
    BY <1>2, <1>3
  <2>. QED BY <2>1, <2>2
<1>. QED BY <1>1, <1>4 DEF HomesInv

\* Nobody else moves, and the ties are tied once.
LEMMA HomesElse ==
  ASSUME HomesInv, UNCHANGED homeVars, people' = people,
         stage' \in {"plants", "funding", "unsealed", "sealed"}
           => stage \in {"plants", "funding", "unsealed", "sealed"} /\ family' = family
  PROVE  HomesInv'
<1>1. /\ people' = people /\ home' = home /\ households' = households /\ members' = members
      /\ building' = building /\ occupancy' = occupancy
  BY DEF homeVars
<1>. QED BY <1>1 DEF HomesInv

\* Homes stay sound.
LEMMA HomesNext == ASSUME BuiltInv, HomesInv, GenesisNext PROVE HomesInv'
<1> USE DEF companyVars, peopleVars, homeVars, castVars, accountVars, restVars, Built, Proceed
<1>1. CASE \E d \in Districts, count \in 1..MaxSize : BuildHousehold(d, count)
  BY <1>1, HomesEntered
<1>2. CASE WireFamilies
  BY <1>2, HomesTied
<1>3. CASE \/ \E c \in CompanyIds : BuildCompany(c)
           \/ BuildGovernment \/ BuildTechnology
           \/ \E k \in CohortIds, count \in Sizes : BuildCohort(k, count)
           \/ EndCohorts
           \/ \E chosen \in SUBSET people : Promote(chosen)
  BY <1>3, HomesElse DEF BuildCompany, BuildGovernment, BuildTechnology, BuildCohort,
     EndCohorts, Promote
<1>4. CASE \/ \E p \in people, c \in companies : AssignJob(p, c)
           \/ \E p \in people : PassOver(p)
           \/ EndJobs
           \/ \E c \in CompanyIds, taken \in [CohortIds -> 0..Total(target)] : FillVacancies(c, taken)
           \/ EndVacancies
  BY <1>4, HomesElse DEF AssignJob, PassOver, EndJobs, FillVacancies, EndVacancies
<1>5. CASE \/ \E p \in cast : AppointOfficial(p)
           \/ \E p \in cast, c \in companies : AppointChief(p, c)
           \/ \E p \in cast : AppointNotable(p)
           \/ LeaveVacant
  BY <1>5, HomesElse DEF AppointOfficial, AppointChief, AppointNotable, LeaveVacant
<1>6. CASE \/ AssignOperators
           \/ \E c \in CompanyIds, amount \in OpeningCash : FundCompany(c, amount)
           \/ AssignPublicJobs \/ Seal
  BY <1>6, HomesElse DEF AssignOperators, FundCompany, AssignPublicJobs, Seal
<1>. QED BY <1>1, <1>2, <1>3, <1>4, <1>5, <1>6 DEF GenesisNext
-----------------------------------------------------------------------------
(* Jobs.                                                                    *)

\* Nobody has a job yet.
LEMMA EmployedInit == GenesisInit => EmployedInv
BY DEF GenesisInit, EmployedInv

\* Those who move in have no job.
LEMMA EmployedEntered ==
  ASSUME BuiltInv, EmployedInv, NEW d \in Districts, NEW count \in 1..MaxSize, BuildHousehold(d, count)
  PROVE  EmployedInv'
<1> DEFINE new == (Cardinality(people) + 1)..(Cardinality(people) + count)
<1>1. people' = people \cup new /\ people \cap new = {}
  BY NextNumbers
<1>2. PICK years \in [new -> Ages], first \in [new -> Employment] :
              /\ \A p \in new : first[p] \in FirstEmployments(years[p])
              /\ employment' =
                    [p \in people' |-> IF p \in new THEN first[p] ELSE employment[p]]
  BY DEF BuildHousehold
<1>3. /\ employer' = Extend(employer, new, NoOne) /\ employees' = employees
      /\ stage = "households" /\ stage' = "households" /\ companies' = companies
  BY DEF BuildHousehold, companyVars
<1>. HIDE DEF new
<1>4. DOMAIN employer = people /\ companies \subseteq CompanyIds
  BY DEF BuiltInv, GenesisTypeOK
<1>5. stage \in Early
  BY <1>3 DEF Early
<1>6. \A p \in people' : employer'[p] = NoOne
  BY <1>1, <1>3, <1>4, <1>5 DEF Extend, EmployedInv
<1>7. \A c \in CompanyIds : employees'[c] = {}
  BY <1>3, <1>5 DEF EmployedInv
<1>8. ASSUME NEW p \in people' PROVE employment'[p] # "employed"
  <2>1. CASE p \in new
    BY <1>1, <1>2, <2>1 DEF FirstEmployments
  <2>2. CASE p \notin new
    <3>1. p \in people /\ employer[p] = NoOne /\ employment'[p] = employment[p]
      BY <1>1, <1>2, <1>5, <2>2 DEF EmployedInv
    <3>. QED BY <3>1 DEF EmployedInv
  <2>. QED BY <2>1, <2>2
<1>. QED BY <1>3, <1>4, <1>6, <1>7, <1>8 DEF EmployedInv

\* Jobs are found, and chiefs appointed.
LEMMA EmployedTaken ==
  ASSUME BuiltInv, EmployedInv, NEW p \in people,
         \/ \E c \in companies : AssignJob(p, c)
         \/ p \in cast /\ AppointOfficial(p)
         \/ p \in cast /\ \E c \in companies : AppointChief(p, c)
         \/ p \in cast /\ AppointNotable(p)
  PROVE  EmployedInv'
<1>1. /\ employees \in [CompanyIds -> SUBSET people] /\ companies \subseteq CompanyIds
      /\ DOMAIN employer = people /\ DOMAIN employment = people /\ DOMAIN role = people
      /\ NoOne \notin companies /\ "chief" # NoOne
  BY GenesisAssumption DEF BuiltInv, GenesisTypeOK, Roles
<1>2. CASE \E c \in companies : AssignJob(p, c)
  <2>1. PICK c \in companies : AssignJob(p, c)
    BY <1>2
  <2>2. /\ stage' = "jobs" /\ employment[p] = "unemployed" /\ people' = people /\ companies' = companies
        /\ employer' = [employer EXCEPT ![p] = c] /\ role' = role
        /\ employment' = [employment EXCEPT ![p] = "employed"]
        /\ employees' = [employees EXCEPT ![c] = @ \cup {p}]
    BY <2>1 DEF AssignJob, Seeking, Built, castVars
  <2>3. employer[p] = NoOne
    BY <2>2 DEF EmployedInv
  <2>. QED BY <1>1, <2>2, <2>3 DEF EmployedInv, Early
<1>3. CASE p \in cast /\ AppointOfficial(p)
  <2>2. /\ stage' = "offices" /\ role[p] = NoOne /\ people' = people /\ companies' = companies
        /\ employer' = employer /\ role' = [role EXCEPT ![p] = Head(offices)]
        /\ employment' = [employment EXCEPT ![p] = "public"]
        /\ employees' = employees
    BY <1>3 DEF AppointOfficial, IsUp, Pool, Fill, companyVars
  <2>. QED BY <1>1, <2>2 DEF EmployedInv, Early
<1>4. CASE p \in cast /\ \E c \in companies : AppointChief(p, c)
  <2>1. PICK c \in companies : AppointChief(p, c)
    BY <1>4
  <2>2. /\ stage' = "offices" /\ role[p] = NoOne /\ people' = people /\ companies' = companies
        /\ employer' = [employer EXCEPT ![p] = c] /\ role' = [role EXCEPT ![p] = "chief"]
        /\ employment' = [employment EXCEPT ![p] = "employed"]
        /\ employees' = [employees EXCEPT ![c] = @ \cup {p}]
    BY <2>1 DEF AppointChief, IsUp, Pool, Fill
  <2>. QED BY <1>1, <2>2 DEF EmployedInv, Early
<1>5. CASE p \in cast /\ AppointNotable(p)
  <2>2. /\ stage' = "offices" /\ role[p] = NoOne /\ people' = people /\ companies' = companies
        /\ employer' = employer /\ role' = [role EXCEPT ![p] = Head(offices)]
        /\ employment' = employment /\ employees' = employees
    BY <1>5 DEF AppointNotable, IsUp, Pool, Fill, companyVars, peopleVars
  <2>. QED BY <1>1, <2>2 DEF EmployedInv, Early
<1>. QED BY <1>2, <1>3, <1>4, <1>5

\* Nothing else gives a job; a company that is founded has nobody.
LEMMA EmployedElse ==
  ASSUME BuiltInv, EmployedInv, UNCHANGED <<employees, people, employment, employer, role>>,
         stage' \in Early => stage \in Early,
         companies' = companies \/ (stage \in Early /\ \E c \in CompanyIds : companies' = companies \cup {c})
  PROVE  EmployedInv'
<1>1. companies' = companies \/ (stage \in Early /\ companies' \subseteq CompanyIds)
  BY DEF BuiltInv, GenesisTypeOK
<1>. QED BY <1>1 DEF EmployedInv

\* Jobs stay sound.
LEMMA EmployedNext == ASSUME BuiltInv, EmployedInv, GenesisNext PROVE EmployedInv'
<1> USE DEF companyVars, peopleVars, castVars, Built, Proceed
<1>0. cast \subseteq people
  BY DEF BuiltInv, GenesisTypeOK
<1>1. CASE \E d \in Districts, count \in 1..MaxSize : BuildHousehold(d, count)
  BY <1>1, EmployedEntered
<1>2. CASE \/ \E p \in people, c \in companies : AssignJob(p, c)
           \/ \E p \in cast : AppointOfficial(p)
           \/ \E p \in cast, c \in companies : AppointChief(p, c)
           \/ \E p \in cast : AppointNotable(p)
  BY <1>0, <1>2, EmployedTaken
<1>3. CASE \E c \in CompanyIds : BuildCompany(c)
  BY <1>3, EmployedElse DEF BuildCompany, Early
<1>4. CASE \/ BuildGovernment \/ BuildTechnology
           \/ \E k \in CohortIds, count \in Sizes : BuildCohort(k, count)
           \/ EndCohorts
           \/ \E chosen \in SUBSET people : Promote(chosen)
  BY <1>4, EmployedElse DEF BuildGovernment, BuildTechnology, BuildCohort, EndCohorts,
     Promote, Early
<1>5. CASE \/ \E p \in people : PassOver(p)
           \/ EndJobs
           \/ \E c \in CompanyIds, taken \in [CohortIds -> 0..Total(target)] : FillVacancies(c, taken)
           \/ EndVacancies \/ LeaveVacant
  BY <1>5, EmployedElse DEF PassOver, EndJobs, FillVacancies, EndVacancies,
     LeaveVacant, Early
<1>6. CASE \/ WireFamilies \/ AssignOperators
           \/ \E c \in CompanyIds, amount \in OpeningCash : FundCompany(c, amount)
           \/ AssignPublicJobs \/ Seal
  BY <1>6, EmployedElse DEF WireFamilies, AssignOperators, FundCompany,
     AssignPublicJobs, Seal, Early
<1>. QED BY <1>1, <1>2, <1>3, <1>4, <1>5, <1>6 DEF GenesisNext
-----------------------------------------------------------------------------
(* Vacancies.                                                               *)

\* What a company takes of the cohorts is a natural number; of none, nothing.
LEMMA TakenIsNat ==
  ASSUME NEW f \in [CohortIds -> Nat]
  PROVE  Total(f) \in Nat
<1>1. IsFiniteSet(CohortIds) /\ DOMAIN f = CohortIds /\ \A k \in CohortIds : f[k] \in Nat
  BY GenesisAssumption
<1>2. Total(f) = Sum(f, CohortIds)
  BY <1>1 DEF Total, Sum
<1>. QED BY <1>1, <1>2, SumOfNaturals

\* What nobody gives adds up to nothing.
LEMMA TakenFromNobody == Total(NobodyPlaced) = 0
<1>1. IsFiniteSet(CohortIds) /\ \A k \in CohortIds : NobodyPlaced[k] = 0
  BY GenesisAssumption DEF NobodyPlaced
<1>2. Total(NobodyPlaced) = Sum(NobodyPlaced, CohortIds)
  BY DEF Total, Sum, NobodyPlaced
<1>. QED BY <1>1, <1>2, SumOfZeros

\* What is counted of a company.
LEMMA Counts ==
  ASSUME BuiltInv, NEW c \in CompanyIds
  PROVE  /\ IsFiniteSet(employees[c]) /\ Cardinality(employees[c]) \in Nat
         /\ placed[c] \in [CohortIds -> Nat] /\ Total(placed[c]) \in Nat
         /\ Headcount(c) = Cardinality(employees[c]) + Total(placed[c]) /\ Headcount(c) \in Nat
         /\ target[c] \in Nat /\ Gap(c) \in Nat
         /\ Gap(c) =< target[c] - Headcount(c) \/ Gap(c) = 0
         /\ Chief(c) \in {0, 1}
<1>1. IsFiniteSet(employees[c]) /\ Cardinality(employees[c]) \in Nat
  BY NumberedSets
<1>2. placed[c] \in [CohortIds -> Nat] /\ target[c] \in Nat
  <2>1. {1} \cup Targets \subseteq Nat
    BY GenesisAssumption
  <2>2. target \in [CompanyIds -> {1} \cup Targets] /\ placed \in [CompanyIds -> [CohortIds -> Nat]]
    BY DEF BuiltInv, GenesisTypeOK
  <2>. QED BY <2>1, <2>2
<1>3. Total(placed[c]) \in Nat
  BY <1>2, TakenIsNat
<1>. QED BY <1>1, <1>2, <1>3 DEF Headcount, Gap, Larger, Chief

\* The vacancies are a natural number, and no more are placed than there are.
LEMMA OfferCounts ==
  ASSUME BuiltInv
  PROVE  TotalGap \in Nat /\ Unplaced \in Int /\ Unplaced =< TotalGap
<1> DEFINE gaps    == [c \in companies |-> Gap(c)]
           workers == [k \in CohortIds |-> Workers(k)]
<1>1. TotalGap \in Nat
  <2>1. IsFiniteSet(companies) /\ companies \subseteq CompanyIds
    BY NumberedSets
  <2>2. DOMAIN gaps = companies /\ \A c \in companies : gaps[c] \in Nat
    BY <2>1, Counts
  <2>3. TotalGap = Sum(gaps, companies)
    BY DEF TotalGap, Total, Sum
  <2>. HIDE DEF gaps
  <2>. QED BY <2>1, <2>2, <2>3, SumOfNaturals
<1>2. Total(workers) \in Nat
  <2>1. \A k \in CohortIds : size[k] \in Nat /\ WorkPct[k] \in Nat
    <3>1. size \in [CohortIds -> Nat]
      BY DEF BuiltInv, GenesisTypeOK
    <3>2. WorkPct \in [CohortIds -> 0..99] /\ 0..99 \subseteq Nat
      BY GenesisAssumption
    <3>. QED BY <3>1, <3>2
  <2>2. ASSUME NEW k \in CohortIds PROVE Workers(k) \in Nat
    <3>1. size[k] * WorkPct[k] \in Nat
      BY <2>1
    <3>. QED BY <3>1 DEF Workers
  <2>3. workers \in [CohortIds -> Nat]
    BY <2>2
  <2>. HIDE DEF workers
  <2>. QED BY <2>3, TakenIsNat
<1>3. Cardinality(Employed) \in Nat
  <2>1. Employed \in SUBSET people
    BY DEF Employed
  <2>. QED BY <2>1, NumberedSets, FS_Subset, FS_CardinalityType
<1>. HIDE DEF workers
<1>4. Unplaced = Smaller(Total(workers) - Cardinality(Employed), TotalGap)
  BY DEF Unplaced, workers
<1>. QED BY <1>1, <1>2, <1>3, <1>4 DEF Smaller

\* A company's share of those to be placed is no more than it lacks.
LEMMA ShareFits ==
  ASSUME NEW o \in Int, NEW v \in Nat, o =< v, NEW g \in Nat
  PROVE  /\ Larger(0, Round(o * g, Larger(1, v))) \in Nat
         /\ Larger(0, Round(o * g, Larger(1, v))) =< g
<1> DEFINE n == o * g
           d == Larger(1, v)
<1>1. n \in Int /\ d \in Nat \ {0} /\ o =< d
  BY DEF Larger
<1>2. n =< g * d
  <2>. HIDE DEF d
  <2>1. (d - o) * g >= 0
    BY <1>1
  <2>2. (d - o) * g = g * d - n
    BY <1>1
  <2>. QED BY <1>1, <2>1, <2>2
<1>. HIDE DEF n, d
<1>3. Round(n, d) \in Int /\ Round(n, d) =< g
  BY <1>1, <1>2, RoundedShare
<1>. QED BY <1>3 DEF Larger, n, d

\* No company has anybody yet.
LEMMA VacanciesInit == GenesisInit => VacanciesInv
<1>. SUFFICES ASSUME GenesisInit PROVE VacanciesInv
  OBVIOUS
<1>. QED BY DEF GenesisInit, VacanciesInv, NobodyPlaced

\* Before anybody has a job, nobody counts.
LEMMA NobodyCounts ==
  ASSUME BuiltInv, EmployedInv, VacanciesInv, stage \in Early, NEW c \in CompanyIds
  PROVE  employees[c] = {} /\ placed[c] = NobodyPlaced /\ Headcount(c) = 0
<1>1. employees[c] = {} /\ placed[c] = NobodyPlaced
  BY DEF EmployedInv, VacanciesInv
<1>. QED BY <1>1, TakenFromNobody, FS_EmptySet DEF Headcount

\* Nobody is employed yet.
LEMMA VacanciesEarly ==
  ASSUME BuiltInv, BuiltInv', EmployedInv, VacanciesInv, stage \in Early,
         UNCHANGED <<employees, placed>>,
         stage' \in Early \cup {"jobs"}, \A p \in people' : role'[p] = NoOne
  PROVE  VacanciesInv'
<1>1. \A c \in CompanyIds : employees'[c] = {} /\ placed'[c] = NobodyPlaced
  BY NobodyCounts
<1>2. ASSUME NEW c \in companies' PROVE Headcount(c)' =< target'[c] + Chief(c)'
  <2>1. c \in CompanyIds /\ target'[c] \in Nat
    <3>1. {1} \cup Targets \subseteq Nat
      BY GenesisAssumption
    <3>2. target' \in [CompanyIds -> {1} \cup Targets] /\ companies' \subseteq CompanyIds
      BY DEF BuiltInv, GenesisTypeOK
    <3>. QED BY <3>1, <3>2
  <2>2. Headcount(c)' = 0
    BY <1>1, <2>1, TakenFromNobody, FS_EmptySet DEF Headcount
  <2>3. Chief(c)' \in {0, 1}
    BY DEF Chief
  <2>. QED BY <2>1, <2>2, <2>3
<1>3. stage' # "vacancies"
  BY DEF Early
<1>. QED BY <1>1, <1>2, <1>3 DEF VacanciesInv

\* A company takes one resident more.
LEMMA VacanciesTaken ==
  ASSUME BuiltInv, VacanciesInv, NEW p \in people, NEW c \in companies,
         employees' = [employees EXCEPT ![c] = @ \cup {p}],
         UNCHANGED <<companies, target, placed>>,
         \A e \in companies : Chief(e)' >= Chief(e),
         Headcount(c) + 1 =< target[c] + Chief(c)',
         NEW e \in companies
  PROVE  Headcount(e)' =< target'[e] + Chief(e)'
<1>1. c \in CompanyIds /\ e \in CompanyIds /\ employees \in [CompanyIds -> SUBSET people]
  BY DEF BuiltInv, GenesisTypeOK
<1>2. /\ IsFiniteSet(employees[c]) /\ Cardinality(employees[c]) \in Nat
      /\ Total(placed[c]) \in Nat /\ Headcount(c) = Cardinality(employees[c]) + Total(placed[c])
      /\ Headcount(e) \in Nat /\ target[e] \in Nat /\ Chief(e) \in Int
  BY <1>1, Counts
<1>3. Chief(e)' \in Int /\ Chief(c)' \in Int
  BY DEF Chief
<1>4. CASE e # c
  <2>1. Headcount(e)' = Headcount(e)
    BY <1>1, <1>4 DEF Headcount
  <2>2. Headcount(e) =< target[e] + Chief(e) /\ Chief(e)' >= Chief(e)
    BY DEF VacanciesInv
  <2>. QED BY <1>2, <1>3, <2>1, <2>2
<1>5. CASE e = c
  <2>1. employees'[c] = employees[c] \cup {p}
    BY <1>1
  <2>2. Cardinality(employees[c] \cup {p}) \in {Cardinality(employees[c]), Cardinality(employees[c]) + 1}
    BY <1>2, FS_AddElement
  <2>3. Headcount(c)' = Cardinality(employees[c] \cup {p}) + Total(placed[c])
    BY <2>1 DEF Headcount
  <2>. QED BY <1>2, <1>3, <1>5, <2>2, <2>3
<1>. QED BY <1>4, <1>5

\* A resident finds a job where there is a vacancy.
LEMMA VacanciesAssigned ==
  ASSUME BuiltInv, VacanciesInv, NEW p \in people, NEW c \in companies, AssignJob(p, c)
  PROVE  VacanciesInv'
<1>1. /\ stage = "jobs" /\ stage' = "jobs" /\ Headcount(c) < target[c]
      /\ employees' = [employees EXCEPT ![c] = @ \cup {p}] /\ companies' = companies
      /\ target' = target /\ placed' = placed /\ role' = role /\ people' = people
  BY DEF AssignJob, Hiring, Built, castVars
<1>2. \A q \in people : role[q] = NoOne
  BY <1>1 DEF VacanciesInv
<1>3. \A e \in companies : Chief(e) = 0 /\ Chief(e)' = 0
  <2>1. NoOne # "chief"
    BY GenesisAssumption DEF Roles
  <2>. QED BY <1>1, <1>2, <2>1 DEF Chief, Led
<1>4. c \in CompanyIds
  BY DEF BuiltInv, GenesisTypeOK
<1>5. Headcount(c) + 1 =< target[c] + Chief(c)'
  BY <1>1, <1>3, <1>4, Counts
<1>6. ASSUME NEW e \in companies PROVE Headcount(e)' =< target'[e] + Chief(e)'
  <2>1. \A f \in companies : Chief(f)' >= Chief(f)
    BY <1>3
  <2>. QED BY <1>1, <1>5, <2>1, VacanciesTaken
<1>7. \A e \in CompanyIds : placed'[e] = NobodyPlaced
  BY <1>1 DEF VacanciesInv
<1>. QED BY <1>1, <1>2, <1>6, <1>7 DEF VacanciesInv

\* A chief is appointed to a company that has none.
LEMMA VacanciesChief ==
  ASSUME BuiltInv, VacanciesInv, NEW p \in people, NEW c \in companies, AppointChief(p, c)
  PROVE  VacanciesInv'
<1>1. /\ stage = "offices" /\ stage' = "offices" /\ role[p] = NoOne /\ c \notin Led
      /\ employees' = [employees EXCEPT ![c] = @ \cup {p}] /\ companies' = companies
      /\ target' = target /\ placed' = placed /\ people' = people
      /\ role' = [role EXCEPT ![p] = "chief"] /\ employer' = [employer EXCEPT ![p] = c]
  BY DEF AppointChief, IsUp, Pool, Fill
<1>2. DOMAIN role = people /\ DOMAIN employer = people /\ NoOne # "chief"
  BY GenesisAssumption DEF BuiltInv, GenesisTypeOK, Roles
<1>3. c \in Led' /\ Led \subseteq Led'
  BY <1>1, <1>2 DEF Led
<1>4. Chief(c) = 0 /\ Chief(c)' = 1 /\ \A e \in companies : Chief(e)' >= Chief(e)
  BY <1>1, <1>3 DEF Chief
<1>5. c \in CompanyIds
  BY DEF BuiltInv, GenesisTypeOK
<1>6. Headcount(c) + 1 =< target[c] + Chief(c)'
  <2>1. Headcount(c) =< target[c] + Chief(c)
    BY DEF VacanciesInv
  <2>2. Headcount(c) \in Nat /\ target[c] \in Nat
    BY <1>5, Counts
  <2>. QED BY <1>4, <2>1, <2>2
<1>7. \A e \in companies : Headcount(e)' =< target'[e] + Chief(e)'
  BY <1>1, <1>4, <1>6, VacanciesTaken
<1>. QED BY <1>1, <1>7 DEF VacanciesInv, Early

\* A company's share of the cohorts leaves it with no more than it wants.
LEMMA VacanciesFilled ==
  ASSUME BuiltInv, VacanciesInv, NEW c \in CompanyIds,
         NEW taken \in [CohortIds -> 0..Total(target)], FillVacancies(c, taken)
  PROVE  VacanciesInv'
<1>1. /\ stage = "vacancies" /\ stage' = "vacancies" /\ c \in left /\ left' = left \ {c}
      /\ Total(taken) = Larger(0, Round(offer[1] * Gap(c), Larger(1, offer[2])))
      /\ placed' = [placed EXCEPT ![c] = taken] /\ offer' = offer
      /\ companies' = companies /\ target' = target /\ employees' = employees
      /\ people' = people /\ role' = role /\ employer' = employer
  BY DEF FillVacancies, IsTurn, Built, peopleVars, castVars
<1>2. /\ left \subseteq companies /\ \A e \in left : placed[e] = NobodyPlaced
      /\ offer[1] \in Int /\ offer[2] \in Nat /\ offer[1] =< offer[2]
      /\ \A q \in people : role[q] = NoOne
  BY <1>1 DEF VacanciesInv
<1>3. companies \subseteq CompanyIds /\ DOMAIN placed = CompanyIds
  BY DEF BuiltInv, GenesisTypeOK
<1>4. Total(taken) \in Nat /\ Total(taken) =< Gap(c)
  <2>1. Gap(c) \in Nat
    BY Counts
  <2>. QED BY <1>1, <1>2, <2>1, ShareFits
<1>5. \A e \in companies : Chief(e)' = Chief(e)
  BY <1>1 DEF Chief, Led
<1>6. ASSUME NEW e \in companies PROVE Headcount(e)' =< target'[e] + Chief(e)'
  <2>1. Headcount(e) =< target[e] + Chief(e)
    BY DEF VacanciesInv
  <2>2. CASE e # c
    <3>1. Headcount(e)' = Headcount(e)
      BY <1>1, <1>3, <2>2 DEF Headcount
    <3>. QED BY <1>1, <1>5, <2>1, <3>1
  <2>3. CASE e = c
    <3>1. Headcount(c) = Cardinality(employees[c]) + 0
      BY <1>1, <1>2, TakenFromNobody DEF Headcount
    <3>2. Headcount(c)' = Cardinality(employees[c]) + Total(taken)
      BY <1>1, <1>3 DEF Headcount
    <3>3. /\ Cardinality(employees[c]) \in Nat /\ target[c] \in Nat /\ Chief(c) \in {0, 1}
          /\ Headcount(c) \in Nat /\ Gap(c) \in Nat
          /\ Gap(c) =< target[c] - Headcount(c) \/ Gap(c) = 0
      BY Counts
    <3>. QED BY <1>1, <1>4, <1>5, <2>1, <2>3, <3>1, <3>2, <3>3
  <2>. QED BY <2>2, <2>3
<1>7. left' \subseteq companies' /\ \A e \in left' : placed'[e] = NobodyPlaced
  BY <1>1, <1>2, <1>3
<1>8. stage' \notin Early \cup {"jobs"}
  BY <1>1 DEF Early
<1>. QED BY <1>1, <1>2, <1>6, <1>7, <1>8 DEF VacanciesInv

\* The vacancies are counted when the residents have their jobs.
LEMMA VacanciesCounted ==
  ASSUME BuiltInv, VacanciesInv, EndJobs
  PROVE  VacanciesInv'
<1>1. /\ stage = "jobs" /\ stage' = "vacancies" /\ left' \subseteq Hiring
      /\ offer' = <<Unplaced, TotalGap>> /\ companies' = companies /\ target' = target
      /\ employees' = employees /\ placed' = placed /\ people' = people
      /\ role' = role /\ employer' = employer
  BY DEF EndJobs, Proceed, peopleVars, castVars
<1>2. offer'[1] = Unplaced /\ offer'[2] = TotalGap
  BY <1>1
<1>3. Hiring \subseteq companies /\ companies \subseteq CompanyIds
  BY DEF Hiring, BuiltInv, GenesisTypeOK
<1>4. \A e \in companies : Headcount(e)' = Headcount(e) /\ Chief(e)' = Chief(e)
  BY <1>1 DEF Headcount, Chief, Led
<1>5. stage' \notin Early \cup {"jobs"}
  BY <1>1 DEF Early
<1>. QED BY <1>1, <1>2, <1>3, <1>4, <1>5, OfferCounts DEF VacanciesInv

\* An office that is not a chief's, or that stays vacant, and whatever is no job's.
LEMMA VacanciesElse ==
  ASSUME BuiltInv, VacanciesInv,
         UNCHANGED <<companies, target, employees, placed, offer, people, employer>>,
         \/ role' = role
         \/ /\ stage = "offices"
            /\ \E p \in people : role[p] # "chief" /\ role' = [role EXCEPT ![p] = Head(offices)]
            /\ Head(offices) # "chief",
         \/ stage' = stage /\ left' = left
         \/ stage = "jobs" /\ stage' = "jobs"
         \/ stage' \notin Early \cup {"jobs", "vacancies"}
  PROVE  VacanciesInv'
<1>0. DOMAIN role = people
  BY DEF BuiltInv, GenesisTypeOK
<1>1. Led' = Led
  BY <1>0 DEF Led
<1>2. \A e \in companies : Headcount(e)' = Headcount(e) /\ Chief(e)' = Chief(e)
  BY <1>1 DEF Headcount, Chief
<1>. QED BY <1>2 DEF VacanciesInv, Early

\* No company gets more than it wants and a chief.
LEMMA VacanciesNext ==
  ASSUME BuiltInv, BuiltInv', EmployedInv, VacanciesInv, GenesisNext
  PROVE  VacanciesInv'
<1> USE DEF companyVars, peopleVars, castVars, Built, Proceed
<1>0. cast \subseteq people /\ NoOne # "chief"
  BY GenesisAssumption DEF BuiltInv, GenesisTypeOK, Roles
<1>1. CASE \E d \in Districts, count \in 1..MaxSize : BuildHousehold(d, count)
  <2>1. PICK d \in Districts, count \in 1..MaxSize : BuildHousehold(d, count)
    BY <1>1
  <2> DEFINE new == (Cardinality(people) + 1)..(Cardinality(people) + count)
  <2>2. people' = people \cup new
    BY <2>1, NextNumbers
  <2>3. role' = Extend(role, new, NoOne) /\ stage = "households" /\ stage' = "households"
        /\ employees' = employees /\ placed' = placed
    BY <2>1 DEF BuildHousehold
  <2>4. DOMAIN role = people /\ \A p \in people : role[p] = NoOne
    BY <2>3 DEF BuiltInv, GenesisTypeOK, VacanciesInv, Early
  <2> HIDE DEF new
  <2>5. \A p \in people' : role'[p] = NoOne
    BY <2>2, <2>3, <2>4 DEF Extend
  <2>. QED BY <2>3, <2>5, VacanciesEarly DEF Early
<1>2. CASE \/ \E c \in CompanyIds : BuildCompany(c)
           \/ BuildGovernment \/ BuildTechnology
           \/ \E k \in CohortIds, count \in Sizes : BuildCohort(k, count)
           \/ EndCohorts
           \/ \E chosen \in SUBSET people : Promote(chosen)
  <2>1. /\ stage \in Early /\ stage' \in Early \cup {"jobs"} /\ employees' = employees
        /\ placed' = placed /\ people' = people /\ role' = role
    BY <1>2 DEF BuildCompany, BuildGovernment, BuildTechnology, BuildCohort,
       EndCohorts, Promote, Early
  <2>2. \A p \in people' : role'[p] = NoOne
    BY <2>1 DEF VacanciesInv
  <2>. QED BY <2>1, <2>2, VacanciesEarly
<1>3. CASE \E p \in people, c \in companies : AssignJob(p, c)
  BY <1>3, VacanciesAssigned
<1>4. CASE EndJobs
  BY <1>4, VacanciesCounted
<1>5. CASE \E c \in CompanyIds, taken \in [CohortIds -> 0..Total(target)] : FillVacancies(c, taken)
  BY <1>5, VacanciesFilled
<1>6. CASE \E p \in cast, c \in companies : AppointChief(p, c)
  BY <1>0, <1>6, VacanciesChief
<1>7. CASE \/ \E p \in cast : AppointOfficial(p)
           \/ \E p \in cast : AppointNotable(p)
  <2>1. PICK p \in cast : AppointOfficial(p) \/ AppointNotable(p)
    BY <1>7
  <2>2. /\ UNCHANGED <<companies, target, employees, placed, offer, people, employer, stage, left>>
        /\ stage = "offices" /\ role[p] = NoOne /\ role' = [role EXCEPT ![p] = Head(offices)]
        /\ Head(offices) # "chief"
    BY <2>1 DEF AppointOfficial, AppointNotable, IsUp, Pool, Fill
  <2>. QED BY <1>0, <2>2, VacanciesElse
<1>8. CASE (\E p \in people : PassOver(p)) \/ EndVacancies \/ LeaveVacant
  BY <1>8, VacanciesElse DEF PassOver, EndVacancies, LeaveVacant, Early
<1>9. CASE \/ WireFamilies \/ AssignOperators
           \/ \E c \in CompanyIds, amount \in OpeningCash : FundCompany(c, amount)
           \/ AssignPublicJobs \/ Seal
  BY <1>9, VacanciesElse DEF WireFamilies, AssignOperators, FundCompany,
     AssignPublicJobs, Seal, Early
<1>. QED BY <1>1, <1>2, <1>3, <1>4, <1>5, <1>6, <1>7, <1>8, <1>9 DEF GenesisNext
-----------------------------------------------------------------------------
(* The theorems of the building of a world.                                 *)

\* What holds of a world at every stage.
GenesisInv ==
    BuiltInv /\ EmployedInv /\ VacanciesInv /\ HomesInv /\ MoneyInv /\ ResearchInv

\* When nothing changes, what holds stays.
LEMMA GenesisStutters == ASSUME GenesisInv, UNCHANGED genesisVars PROVE GenesisInv'
<1> USE DEF genesisVars, companyVars, peopleVars, homeVars, castVars, accountVars, restVars
<1>1. BuiltInv'
  BY DEF GenesisInv, BuiltInv, GenesisTypeOK
<1>2. EmployedInv'
  BY DEF GenesisInv, EmployedInv
<1>3. VacanciesInv'
  <2>1. Led' = Led
    BY DEF Led
  <2>2. \A c \in companies : Headcount(c)' = Headcount(c) /\ Chief(c)' = Chief(c)
    BY <2>1 DEF Headcount, Chief
  <2>. QED BY <2>2 DEF GenesisInv, VacanciesInv
<1>4. HomesInv'
  BY DEF GenesisInv, HomesInv
<1>5. MoneyInv'
  <2>1. /\ cash' = cash /\ supply' = supply /\ companies' = companies /\ people' = people
        /\ households' = households /\ size' = size /\ stage' = stage /\ left' = left
    OBVIOUS
  <2>. QED BY <2>1, MoneyElse DEF GenesisInv
<1>6. ResearchInv'
  BY DEF GenesisInv, ResearchInv, ResearchIsSound
<1>. QED BY <1>1, <1>2, <1>3, <1>4, <1>5, <1>6 DEF GenesisInv

\* What holds at every stage holds from the beginning to the seal, whatever the
\* seed draws.
THEOREM GenesisKeepsInv == GenesisSpec => []GenesisInv
<1>1. GenesisInit => GenesisInv
  BY BuiltInit, EmployedInit, VacanciesInit, HomesInit, MoneyInit, ResearchInit
     DEF GenesisInv
<1>2. GenesisInv /\ [GenesisNext]_genesisVars => GenesisInv'
  <2>1. ASSUME GenesisInv, GenesisNext PROVE GenesisInv'
    <3>1. BuiltInv'
      BY <2>1, BuiltNext DEF GenesisInv
    <3>. QED BY <2>1, <3>1, EmployedNext, VacanciesNext, HomesNext, MoneyNext,
                ResearchNext DEF GenesisInv
  <2>. QED BY <2>1, GenesisStutters
<1>. QED BY <1>1, <1>2, PTL DEF GenesisSpec

\* A world that is sealed is one the simulation may start from.
LEMMA SealedSound == GenesisInv => OpensSound
<1>. SUFFICES ASSUME GenesisInv, stage = "sealed" PROVE OpensSound
  BY DEF OpensSound
<1>1. JobsAreSound
  <2>1. ASSUME NEW c \in companies PROVE Headcount(c) =< target[c] + 1
    <3>1. c \in CompanyIds
      BY DEF GenesisInv, BuiltInv, GenesisTypeOK
    <3>2. Headcount(c) \in Nat /\ target[c] \in Nat /\ Chief(c) \in {0, 1}
      BY <3>1, Counts DEF GenesisInv
    <3>3. Headcount(c) =< target[c] + Chief(c)
      BY DEF GenesisInv, VacanciesInv
    <3>. QED BY <3>2, <3>3
  <2>. QED BY <2>1 DEF GenesisInv, EmployedInv, JobsAreSound
<1>2. HomesAreSound
  BY DEF GenesisInv, HomesInv, HomesAreSound
<1>3. MoneyIsSound
  BY DEF GenesisInv, MoneyInv, Owners, MoneyIsSound
<1>4. ResearchIsSound
  BY DEF GenesisInv, ResearchInv
<1>. QED BY <1>1, <1>2, <1>3, <1>4 DEF OpensSound

\* The world is typed while it is built ...
THEOREM WorldsTyped == GenesisSpec => []GenesisTypeOK
<1>1. GenesisInv => GenesisTypeOK
  BY DEF GenesisInv, BuiltInv
<1>. QED BY <1>1, GenesisKeepsInv, PTL

\* ... and when it is sealed the simulation may start from it: the jobs, the homes,
\* the accounts and the research are sound, whatever the seed.
THEOREM WorldsOpenSound == GenesisSpec => []OpensSound
BY SealedSound, GenesisKeepsInv, PTL
=============================================================================
