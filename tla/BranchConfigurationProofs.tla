---------------------- MODULE BranchConfigurationProofs ----------------------
(***************************************************************************)
(* The configuration of routine 507 for any branches, codes, months and    *)
(* pages, and any number of calls, edits and departures.                   *)
(*                                                                         *)
(* Lists come first: what Ordered and At return, which their CHOOSE hides. *)
(* Then the types (TInv), with what a call is about (CallTypes), and that  *)
(* the pages and the requests name only branches that exist (ListsKnown).  *)
(* The cache of a page is tracked next (CacheInv): whatever it does not    *)
(* know of the database is still to be fetched, or is the work of a        *)
(* mutation that will invalidate it.  Last, the steps of a run are counted *)
(* (StepsOfRun), and with calls served in turn a selection that was        *)
(* validated stays runnable until it is written, and afterwards            *)
(* (SelectionInv).                                                         *)
(***************************************************************************)
EXTENDS BranchConfiguration, FiniteSetTheorems, TLAPS

-------------------------------------------------------------------------------
(* Lists in order.  R is a strict total order of the finite set S.         *)

Orders(R, S) ==
  /\ \A x \in S : <<x, x>> \notin R
  /\ \A x, y, z \in S : <<x, y>> \in R /\ <<y, z>> \in R => <<x, z>> \in R
  /\ \A x, y \in S : x # y => <<x, y>> \in R \/ <<y, x>> \in R

(* The rank of a member is the number of members that are not after it.    *)
LEMMA Ranks ==
  ASSUME NEW S, IsFiniteSet(S), NEW R, Orders(R, S)
  PROVE  \E rank \in Bijection(S, 1..Cardinality(S)) :
           \A x, y \in S : <<x, y>> \in R => rank[x] < rank[y]
<1> DEFINE UpTo(x) == {y \in S : y = x \/ <<y, x>> \in R}
           rank == [x \in S |-> Cardinality(UpTo(x))]
           n == Cardinality(S)
<1>1. n \in Nat /\ IsFiniteSet(1..n) /\ Cardinality(1..n) = n
  BY FS_CardinalityType, FS_Interval
<1>2. \A x \in S : IsFiniteSet(UpTo(x)) /\ Cardinality(UpTo(x)) \in 1..n
  <2>1. SUFFICES ASSUME NEW x \in S
                 PROVE  IsFiniteSet(UpTo(x)) /\ Cardinality(UpTo(x)) \in 1..n
    OBVIOUS
  <2>2. UpTo(x) \in SUBSET S /\ x \in UpTo(x)
    OBVIOUS
  <2> HIDE DEF UpTo
  <2>3. IsFiniteSet(UpTo(x)) /\ Cardinality(UpTo(x)) <= n /\ Cardinality(UpTo(x)) \in Nat
    BY <2>2, FS_Subset, FS_CardinalityType
  <2>4. Cardinality(UpTo(x)) # 0
    BY <2>2, <2>3, FS_EmptySet
  <2> QED
    BY <1>1, <2>3, <2>4
<1>3. \A x, y \in S : <<x, y>> \in R => rank[x] < rank[y]
  <2>1. SUFFICES ASSUME NEW x \in S, NEW y \in S, <<x, y>> \in R
                 PROVE  Cardinality(UpTo(x)) < Cardinality(UpTo(y))
    OBVIOUS
  <2>2. UpTo(x) \subseteq UpTo(y)
    BY <2>1 DEF Orders
  <2>3. y \in UpTo(y) /\ y \notin UpTo(x)
    BY <2>1 DEF Orders
  <2>4. IsFiniteSet(UpTo(y)) /\ Cardinality(UpTo(x)) \in Nat /\ Cardinality(UpTo(y)) \in Nat
    BY <1>1, <1>2
  <2> HIDE DEF UpTo
  <2>5. Cardinality(UpTo(x)) <= Cardinality(UpTo(y))
        /\ Cardinality(UpTo(x)) # Cardinality(UpTo(y))
    BY <2>2, <2>3, <2>4, FS_Subset
  <2> QED
    BY <2>4, <2>5
<1>4. rank \in [S -> 1..n]
  BY <1>2
<1> HIDE DEF rank, UpTo, n
<1>5. rank \in Injection(S, 1..n)
  <2>1. ASSUME NEW x \in S, NEW y \in S, x # y PROVE rank[x] # rank[y]
    <3>1. rank[x] < rank[y] \/ rank[y] < rank[x]
      BY <1>3, <2>1 DEF Orders
    <3> QED
      BY <1>1, <1>4, <3>1
  <2> QED
    BY <1>4, <2>1 DEF Injection, IsInjective
<1>6. rank \in Surjection(S, 1..n)
  BY <1>1, <1>5, FS_Injection DEF n
<1> QED
  BY <1>3, <1>5, <1>6 DEF Bijection, n

(* Such a list exists, and lists every member once.                        *)
LEMMA OrderedExists ==
  ASSUME NEW S, IsFiniteSet(S), NEW R, Orders(R, S)
  PROVE  \E list \in [1..Cardinality(S) -> S] :
           \A i, j \in DOMAIN list : i < j => <<list[i], list[j]>> \in R
<1> DEFINE n == Cardinality(S)
<1>0. n \in Nat
  BY FS_CardinalityType
<1>1. PICK rank \in Bijection(S, 1..n) : \A x, y \in S : <<x, y>> \in R => rank[x] < rank[y]
  BY Ranks
<1>2. rank \in [S -> 1..n] /\ \A k \in 1..n : \E x \in S : rank[x] = k
  BY <1>1 DEF Bijection, Surjection
<1> DEFINE list == [k \in 1..n |-> CHOOSE x \in S : rank[x] = k]
<1>3. \A k \in 1..n : list[k] \in S /\ rank[list[k]] = k
  BY <1>2
<1>4. list \in [1..n -> S]
  BY <1>3
<1> HIDE DEF list
<1>5. ASSUME NEW i \in 1..n, NEW j \in 1..n, i < j PROVE <<list[i], list[j]>> \in R
  <2>1. list[i] # list[j] /\ ~ (<<list[j], list[i]>> \in R)
    BY <1>0, <1>1, <1>3, <1>5
  <2> QED
    BY <1>3, <2>1 DEF Orders
<1> QED
  BY <1>4, <1>5 DEF n

LEMMA OrderedListsAll ==
  ASSUME NEW S, IsFiniteSet(S), NEW R, Orders(R, S),
         NEW list \in [1..Cardinality(S) -> S],
         \A i, j \in DOMAIN list : i < j => <<list[i], list[j]>> \in R
  PROVE  /\ Cardinality(S) \in Nat /\ list \in Seq(S) /\ Len(list) = Cardinality(S)
         /\ \A i, j \in DOMAIN list : list[i] = list[j] => i = j
         /\ \A x \in S : \E i \in DOMAIN list : list[i] = x
<1> DEFINE n == Cardinality(S)
<1>1. n \in Nat /\ IsFiniteSet(1..n) /\ Cardinality(1..n) = n
  BY FS_CardinalityType, FS_Interval
<1>2. list \in Seq(S) /\ Len(list) = n
  BY <1>1
<1>3. ASSUME NEW i \in 1..n, NEW j \in 1..n, list[i] = list[j], i # j PROVE FALSE
  <2>1. i < j \/ j < i
    BY <1>1, <1>3
  <2>2. <<list[i], list[i]>> \in R
    BY <1>3, <2>1
  <2> QED
    BY <1>3, <2>2 DEF Orders
<1>4. list \in Injection(1..n, S)
  BY <1>3 DEF Injection, IsInjective
<1>5. list \in Surjection(1..n, S)
  BY <1>1, <1>4, FS_Injection DEF n
<1> QED
  BY <1>1, <1>2, <1>3, <1>5 DEF Surjection

(* Positions of a list, from the first to the last.                        *)
LEMMA PositionsInOrder ==
  ASSUME NEW S \in SUBSET Int, IsFiniteSet(S)
  PROVE  LET list == Ordered(S, <)
         IN  /\ list \in Seq(S) /\ Len(list) = Cardinality(S)
             /\ \A i, j \in DOMAIN list : i < j => list[i] < list[j]
             /\ \A i, j \in DOMAIN list : list[i] = list[j] => i = j
             /\ \A x \in S : \E i \in DOMAIN list : list[i] = x
<1> DEFINE R == {pair \in S \X S : pair[1] < pair[2]}
           P(l) == \A i, j \in DOMAIN l : i < j => l[i] < l[j]
<1>1. Orders(R, S)
  BY DEF Orders
<1>2. \A x, y \in S : <<x, y>> \in R <=> x < y
  OBVIOUS
<1> HIDE DEF R
<1>3. \E l \in [1..Cardinality(S) -> S] : P(l)
  <2>1. PICK l \in [1..Cardinality(S) -> S] :
               \A i, j \in DOMAIN l : i < j => <<l[i], l[j]>> \in R
    BY <1>1, OrderedExists
  <2> QED
    BY <1>2, <2>1
<1>4. Ordered(S, <) \in [1..Cardinality(S) -> S] /\ P(Ordered(S, <))
  BY <1>3 DEF Ordered
<1> DEFINE list == Ordered(S, <)
<1>5. list \in [1..Cardinality(S) -> S] /\ P(list)
  BY <1>4
<1> HIDE DEF list
<1>6. \A i, j \in DOMAIN list : i < j => <<list[i], list[j]>> \in R
  BY <1>2, <1>5
<1> QED
  BY <1>1, <1>5, <1>6, OrderedListsAll DEF list

(* What is left of a list: the entries at the positions, each once.        *)
LEMMA AtFacts ==
  ASSUME NEW T, NEW list \in Seq(T), NEW K \in SUBSET DOMAIN list
  PROVE  /\ At(list, K) \in Seq(T)
         /\ \A i \in DOMAIN At(list, K) : \E k \in K : At(list, K)[i] = list[k]
         /\ \A k \in K : \E i \in DOMAIN At(list, K) : At(list, K)[i] = list[k]
         /\ At(list, K) = <<>> <=> K = {}
         /\ \E at \in [DOMAIN At(list, K) -> K] :
               /\ \A i, j \in DOMAIN At(list, K) : at[i] = at[j] => i = j
               /\ \A i \in DOMAIN At(list, K) : At(list, K)[i] = list[at[i]]
<1> DEFINE at == Ordered(K, <)
<1>1. IsFiniteSet(DOMAIN list) /\ DOMAIN list \subseteq Nat
  BY FS_Interval
<1>2. K \in SUBSET Int /\ IsFiniteSet(K)
  BY <1>1, FS_Subset
<1>3. /\ at \in Seq(K) /\ Len(at) = Cardinality(K)
      /\ \A i, j \in DOMAIN at : at[i] = at[j] => i = j
      /\ \A x \in K : \E i \in DOMAIN at : at[i] = x
  BY <1>2, PositionsInOrder, Zenon
<1>4. At(list, K) = [i \in DOMAIN at |-> list[at[i]]]
  BY Zenon DEF At
<1> HIDE DEF at
<1>5. DOMAIN at = 1..Len(at) /\ Len(at) \in Nat /\ \A i \in DOMAIN at : at[i] \in K
  BY <1>3
<1>6. At(list, K) \in Seq(T) /\ DOMAIN At(list, K) = DOMAIN at
  BY <1>4, <1>5
<1>7. At(list, K) = <<>> <=> K = {}
  BY <1>3, <1>4, <1>5, <1>6
<1>8. at \in [DOMAIN At(list, K) -> K]
  BY <1>3, <1>5, <1>6
<1>9. /\ \A i \in DOMAIN at : At(list, K)[i] = list[at[i]]
      /\ \A i, j \in DOMAIN at : at[i] = at[j] => i = j
  BY <1>3, <1>4
<1>10. \A i \in DOMAIN at : \E k \in K : At(list, K)[i] = list[k]
  BY <1>5, <1>9
<1>11. \A k \in K : \E i \in DOMAIN at : At(list, K)[i] = list[k]
  BY <1>3, <1>9
<1> QED
  BY <1>6, <1>7, <1>8, <1>9, <1>10, <1>11, Zenon

(* The months and the branches in the order of the steps.                  *)
LEMMA TurnsInOrder ==
  ASSUME NEW M \in SUBSET Int, IsFiniteSet(M), NEW N \in SUBSET Int, IsFiniteSet(N)
  PROVE  LET turns == Ordered(M \X N, MonthThenBranch)
         IN  /\ turns \in Seq(M \X N) /\ Len(turns) = Cardinality(M \X N)
             /\ \A i, j \in DOMAIN turns : turns[i] = turns[j] => i = j
             /\ \A x \in M \X N : \E i \in DOMAIN turns : turns[i] = x
<1> DEFINE S == M \X N
           R == {pair \in S \X S : MonthThenBranch(pair[1], pair[2])}
           P(l) == \A i, j \in DOMAIN l : i < j => MonthThenBranch(l[i], l[j])
<1>0. IsFiniteSet(S)
  BY FS_Product
<1>1. \A x, y \in S : <<x, y>> \in R <=> MonthThenBranch(x, y)
  OBVIOUS
<1>2. Orders(R, S)
  <2>1. \A x \in S : x[1] \in Int /\ x[2] \in Int /\ x = <<x[1], x[2]>>
    <3>1. \A x \in Int \X Int : x[1] \in Int /\ x[2] \in Int /\ x = <<x[1], x[2]>>
      OBVIOUS
    <3>2. S \subseteq Int \X Int
      OBVIOUS
    <3> QED
      BY <3>1, <3>2
  <2> HIDE DEF R, S
  <2>2. \A x \in S : ~ MonthThenBranch(x, x)
    BY <2>1 DEF MonthThenBranch
  <2>3. \A x, y, z \in S : MonthThenBranch(x, y) /\ MonthThenBranch(y, z) => MonthThenBranch(x, z)
    BY <2>1 DEF MonthThenBranch
  <2>4. \A x, y \in S : x # y => MonthThenBranch(x, y) \/ MonthThenBranch(y, x)
    <3>1. ASSUME NEW x \in S, NEW y \in S, ~ MonthThenBranch(x, y), ~ MonthThenBranch(y, x)
          PROVE  x = y
      <4>1. x[1] = y[1] /\ x[2] = y[2]
        BY <2>1, <3>1 DEF MonthThenBranch
      <4> QED
        BY <2>1, <4>1
    <3> QED
      BY <3>1
  <2> QED
    BY <1>1, <2>2, <2>3, <2>4 DEF Orders
<1> HIDE DEF R, S
<1>3. \E l \in [1..Cardinality(S) -> S] : P(l)
  <2>1. PICK l \in [1..Cardinality(S) -> S] :
               \A i, j \in DOMAIN l : i < j => <<l[i], l[j]>> \in R
    BY <1>0, <1>2, OrderedExists
  <2> QED
    BY <1>1, <2>1
<1>4. Ordered(S, MonthThenBranch) \in [1..Cardinality(S) -> S] /\ P(Ordered(S, MonthThenBranch))
  BY <1>3 DEF Ordered
<1> DEFINE list == Ordered(S, MonthThenBranch)
<1>5. list \in [1..Cardinality(S) -> S] /\ P(list)
  BY <1>4
<1> HIDE DEF list
<1>6. \A i, j \in DOMAIN list : i < j => <<list[i], list[j]>> \in R
  BY <1>1, <1>5
<1>7. /\ list \in Seq(S) /\ Len(list) = Cardinality(S)
      /\ \A i, j \in DOMAIN list : list[i] = list[j] => i = j
      /\ \A x \in S : \E i \in DOMAIN list : list[i] = x
  BY <1>0, <1>2, <1>5, <1>6, OrderedListsAll
<1> QED
  BY <1>7, Zenon DEF list, S

-------------------------------------------------------------------------------
Rows == [id: Branches, code: Codes, active: BOOLEAN]
Row(b) == [id |-> b, code |-> branch[b].code, active |-> branch[b].active]
Existing == {b \in Branches : branch[b] # Null}

BranchTypes == branch \in [Branches -> {Null} \cup [code: Codes, active: BOOLEAN]]

CodesDiffer ==
  \A b, c \in Existing : branch[b].code = branch[c].code => b = c

(* The list that the API reads holds each branch of the environment once.  *)
LEMMA ListOfBranches ==
  ASSUME BranchTypes, CodesDiffer
  PROVE  /\ LoadBranches \in Lists
         /\ \A i \in DOMAIN LoadBranches : \E b \in Existing : LoadBranches[i] = Row(b)
         /\ \A b \in Existing : \E i \in DOMAIN LoadBranches : LoadBranches[i] = Row(b)
         /\ \A i, j \in DOMAIN LoadBranches : LoadBranches[i] = LoadBranches[j] => i = j
<1> DEFINE S == {Row(b) : b \in Existing}
           R == {pair \in S \X S : pair[1].code < pair[2].code}
           P(l) == \A i, j \in DOMAIN l : i < j => l[i].code < l[j].code
<1>1. \A b \in Existing : Row(b) \in Rows
  BY NullAssumption DEF Existing, BranchTypes, Row, Rows
<1>2. IsFiniteSet(S)
  <2>1. IsFiniteSet(Existing)
    BY BranchesAssumption, FS_Subset DEF Existing
  <2> DEFINE rowOf == [b \in Existing |-> Row(b)]
  <2>2. rowOf \in Surjection(Existing, S)
    BY DEF Surjection
  <2> QED
    BY <2>1, <2>2, FS_Surjection
<1>3. \A x, y \in S : x.code = y.code => x = y
  BY DEF CodesDiffer, Row
<1>4. \A x \in S : x.code \in Nat
  BY <1>1, CodesAssumption DEF Rows
<1>5. \A x, y \in S : <<x, y>> \in R <=> x.code < y.code
  OBVIOUS
<1>6. LoadBranches = Ordered(S, LAMBDA left, right : left.code < right.code)
  BY Zenon DEF LoadBranches, Row, Existing
<1>7. S \subseteq Rows
  BY <1>1
<1> HIDE DEF R, S
<1>8. Orders(R, S)
  BY <1>3, <1>4, <1>5 DEF Orders
<1>9. \E l \in [1..Cardinality(S) -> S] : P(l)
  <2>1. PICK l \in [1..Cardinality(S) -> S] :
               \A i, j \in DOMAIN l : i < j => <<l[i], l[j]>> \in R
    BY <1>2, <1>8, OrderedExists
  <2> QED
    BY <1>5, <2>1
<1>10. LoadBranches \in [1..Cardinality(S) -> S] /\ P(LoadBranches)
  BY <1>6, <1>9 DEF Ordered
<1> DEFINE list == LoadBranches
<1>11. list \in [1..Cardinality(S) -> S] /\ P(list)
  BY <1>10
<1> HIDE DEF list
<1>12. \A i, j \in DOMAIN list : i < j => <<list[i], list[j]>> \in R
  BY <1>5, <1>11
<1>13. /\ list \in Seq(S)
       /\ \A i, j \in DOMAIN list : list[i] = list[j] => i = j
       /\ \A x \in S : \E i \in DOMAIN list : list[i] = x
  BY <1>2, <1>8, <1>11, <1>12, OrderedListsAll
<1>14. list \in Lists
  <2>1. list \in Seq(Rows)
    BY <1>7, <1>13
  <2> QED
    BY <2>1 DEF Lists, Rows
<1>15. \A i \in DOMAIN list : list[i] \in S
  BY <1>13
<1>16. (\A x \in S : \E b \in Existing : x = Row(b)) /\ \A b \in Existing : Row(b) \in S
  BY DEF S
<1> QED
  BY <1>13, <1>14, <1>15, <1>16 DEF list

-------------------------------------------------------------------------------
(* What a call carries.  ids are the branches that exist.                  *)
InputsOf(s, ids) ==
  CASE s \in {"save", "preview"} -> Configurations
    [] s = "toggle"  -> [id: ids, active: BOOLEAN]
    [] s = "edit"    -> [id: {Null} \cup ids, code: Codes]
    [] s = "company" -> BOOLEAN
    [] s \in Queries \cup {"reset"} -> {Null}

AnswersOf(s, ids) ==
  CASE s \in {"save", "reset", "routine507"} -> Views
    [] s = "preview"  -> Previews
    [] s = "branches" -> {list \in Lists : Ids(list) \subseteq ids}
    [] s = "company"  -> BOOLEAN
    [] s \in {"toggle", "edit"} -> {Null}

IsCall(c) == c \in [step: {c.step}, input: {c.input}, got: {c.got}, attached: {c.attached}]

CallOK(s, c, ids) ==
  /\ IsCall(c)
  /\ c.step # "none" => c.input \in InputsOf(s, ids)
  /\ c.step = "validated" => c.got \in Configurations
  /\ c.step = "answered" => c.got \in AnswersOf(s, ids)

CallTypes ==
  /\ call = [p \in Pages |-> [s \in Slots |-> call[p][s]]]
  /\ \A p \in Pages, s \in Slots : CallOK(s, call[p][s], Existing)

ListsKnown == \A p \in Pages : Ids(page[p].list) \subseteq Existing

TInv == TypeOK /\ CodesDiffer /\ CallTypes /\ ListsKnown

-------------------------------------------------------------------------------
(* Configurations.                                                         *)
LEMMA NoIds == <<>> \in IdLists
BY DEF IdLists, IsInjective

LEMMA ConfigurationFacts ==
  ASSUME NEW c \in Configurations
  PROVE  /\ c.branchMode \in Modes /\ c.branchIds \in IdLists
         /\ c.turnoverMonths \in SUBSET Months
         /\ c.dailyTurnover \in BOOLEAN /\ c.salePrice \in BOOLEAN
         /\ \A ids \in IdLists : [c EXCEPT !.branchIds = ids] \in Configurations
         /\ \A mode \in Modes, ids \in IdLists :
              [c EXCEPT !.branchMode = mode, !.branchIds = ids] \in Configurations
         /\ \A months \in SUBSET Months : [c EXCEPT !.turnoverMonths = months] \in Configurations
         /\ [c EXCEPT !.dailyTurnover = ~ @] \in Configurations
         /\ [c EXCEPT !.salePrice = ~ @] \in Configurations
BY DEF Configurations

(* What normalize507 and parse507 leave of an accepted configuration.      *)
LEMMA Normalized ==
  ASSUME NEW c \in Configurations
  PROVE  /\ Normalize507(c) \in Configurations
         /\ Parse507(c) \in Configurations
         /\ \A d \in {Normalize507(c), Parse507(c)} :
              /\ d.branchMode = c.branchMode /\ d.turnoverMonths = c.turnoverMonths
              /\ d.dailyTurnover = c.dailyTurnover /\ d.salePrice = c.salePrice
              /\ c.branchMode = "SELECTED" => d.branchIds = c.branchIds
<1> DEFINE ids == IdsUnderMode(c.branchMode, c.branchIds)
           months == {m \in c.turnoverMonths : m \in 0..11}
<1>1. ids \in IdLists /\ (c.branchMode = "SELECTED" => ids = c.branchIds)
  BY ConfigurationFacts, NoIds DEF IdsUnderMode
<1>2. months = c.turnoverMonths
  BY ConfigurationFacts, MonthsAssumption
<1>3. Normalize507(c) = [c EXCEPT !.branchIds = ids]
  BY DEF Normalize507
<1>4. Parse507(c) = [c EXCEPT !.branchIds = ids, !.turnoverMonths = months]
  BY DEF Parse507, Configurations
<1> HIDE DEF ids, months
<1> QED
  BY <1>1, <1>2, <1>3, <1>4 DEF Configurations

LEMMA Default == DEFAULT_507 \in Configurations
BY NoIds DEF DEFAULT_507, Configurations, Modes

LEMMA ReadTypes ==
  ASSUME TypeOK, CodesDiffer
  PROVE  /\ Effective \in Configurations /\ View \in Views
         /\ LoadBranches \in Lists /\ Ids(LoadBranches) \subseteq Existing
<1>1. LoadBranches \in Lists
  BY ListOfBranches DEF TypeOK, BranchTypes
<1>2. Effective \in Configurations
  BY Default, Normalized DEF TypeOK, Effective
<1>3. View \in Views
  BY <1>1, <1>2 DEF View, Views
<1>4. Ids(LoadBranches) \subseteq Existing
  BY ListOfBranches DEF TypeOK, BranchTypes, Ids, Row
<1> QED
  BY <1>1, <1>2, <1>3, <1>4

(* The lists of branches a click makes.                                    *)
LEMMA IdsWithout ==
  ASSUME NEW ids \in IdLists, NEW b
  PROVE  At(ids, {i \in DOMAIN ids : ids[i] # b}) \in IdLists
<1> DEFINE K == {i \in DOMAIN ids : ids[i] # b}
<1>1. ids \in Seq(Branches) /\ (\A i, j \in DOMAIN ids : ids[i] = ids[j] => i = j)
  BY DEF IdLists, IsInjective
<1>2. K \in SUBSET DOMAIN ids
  OBVIOUS
<1> HIDE DEF K
<1>3. At(ids, K) \in Seq(Branches)
  BY <1>1, <1>2, AtFacts
<1>4. PICK at \in [DOMAIN At(ids, K) -> K] :
        /\ \A i, j \in DOMAIN At(ids, K) : at[i] = at[j] => i = j
        /\ \A i \in DOMAIN At(ids, K) : At(ids, K)[i] = ids[at[i]]
  BY <1>1, <1>2, AtFacts
<1>5. \A i, j \in DOMAIN At(ids, K) : At(ids, K)[i] = At(ids, K)[j] => i = j
  BY <1>1, <1>2, <1>4
<1> QED
  BY <1>3, <1>5 DEF K, IdLists, IsInjective

LEMMA IdsWith ==
  ASSUME NEW ids \in IdLists, NEW b \in Branches, b \notin Range(ids)
  PROVE  Append(ids, b) \in IdLists
<1>1. ids \in Seq(Branches) /\ (\A i, j \in DOMAIN ids : ids[i] = ids[j] => i = j)
      /\ (\A i \in DOMAIN ids : ids[i] # b)
  BY DEF IdLists, IsInjective, Range
<1>2. Append(ids, b) \in Seq(Branches)
  BY <1>1
<1>3. /\ DOMAIN Append(ids, b) = 1..(Len(ids) + 1) /\ DOMAIN ids = 1..Len(ids) /\ Len(ids) \in Nat
      /\ \A i \in 1..Len(ids) : Append(ids, b)[i] = ids[i]
      /\ Append(ids, b)[Len(ids) + 1] = b
  BY <1>1
<1>4. \A i, j \in DOMAIN Append(ids, b) : Append(ids, b)[i] = Append(ids, b)[j] => i = j
  <2>1. \A i \in 1..(Len(ids) + 1) : i \in 1..Len(ids) \/ i = Len(ids) + 1
    BY <1>3
  <2> QED
    BY <1>1, <1>3, <2>1
<1> QED
  BY <1>2, <1>4 DEF IdLists, IsInjective

-------------------------------------------------------------------------------
(* Calls.                                                                  *)
LEMMA MoreBranches ==
  ASSUME NEW s \in Slots, NEW c, NEW ids, NEW more, ids \subseteq more, CallOK(s, c, ids)
  PROVE  CallOK(s, c, more)
<1>1. InputsOf(s, ids) \subseteq InputsOf(s, more)
  BY DEF Slots, Queries, InputsOf
<1>2. AnswersOf(s, ids) \subseteq AnswersOf(s, more)
  BY DEF Slots, Queries, AnswersOf
<1> QED
  BY <1>1, <1>2 DEF CallOK

LEMMA NewCall ==
  ASSUME NEW step, NEW input, NEW got
  PROVE  /\ IsCall([step |-> step, input |-> input, got |-> got, attached |-> TRUE])
         /\ IsCall([step |-> step, input |-> input, got |-> got, attached |-> FALSE])
BY DEF IsCall

LEMMA NewCalls ==
  ASSUME NEW s \in Slots, NEW ids
  PROVE  /\ CallOK(s, NoCall, ids)
         /\ \A input \in InputsOf(s, ids) : CallOK(s, Sent(input), ids)
         /\ s \in Queries => CallOK(s, Sent(Null), ids)
<1>1. s \in Queries => Null \in InputsOf(s, ids)
  BY DEF InputsOf, Queries
<1> QED
  BY <1>1, NewCall DEF CallOK, NoCall, Sent

LEMMA CallFacts ==
  ASSUME CallTypes
  PROVE  /\ DOMAIN call = Pages
         /\ \A p \in Pages : call[p] = [s \in Slots |-> call[p][s]] /\ DOMAIN call[p] = Slots
         /\ \A p \in Pages, s \in Slots : CallOK(s, call[p][s], Existing)
BY DEF CallTypes

LEMMA PageCalls ==
  ASSUME CallTypes, Existing \subseteq Existing',
         NEW p \in Pages, NEW calls, calls = [s \in Slots |-> calls[s]],
         \A s \in Slots : CallOK(s, calls[s], Existing'),
         call' = [call EXCEPT ![p] = calls]
  PROVE  CallTypes'
<1>1. \A q \in Pages : call'[q] = IF q = p THEN calls ELSE call[q]
  BY CallFacts
<1>2. \A q \in Pages, s \in Slots : CallOK(s, call'[q][s], Existing')
  BY <1>1, CallFacts, MoreBranches
<1>3. call' = [q \in Pages |-> [s \in Slots |-> call'[q][s]]]
  BY <1>1, CallFacts
<1> QED
  BY <1>2, <1>3 DEF CallTypes

LEMMA OneCall ==
  ASSUME CallTypes, Existing \subseteq Existing', NEW p \in Pages, NEW s \in Slots, NEW c,
         CallOK(s, c, Existing'), call' = [call EXCEPT ![p][s] = c]
  PROVE  CallTypes'
<1> DEFINE calls == [call[p] EXCEPT ![s] = c]
<1>1. calls = [t \in Slots |-> calls[t]] /\ \A t \in Slots : calls[t] = IF t = s THEN c ELSE call[p][t]
  BY CallFacts
<1>2. call' = [call EXCEPT ![p] = calls]
  OBVIOUS
<1> HIDE DEF calls
<1>3. \A t \in Slots : CallOK(t, calls[t], Existing')
  BY <1>1, CallFacts, MoreBranches
<1> QED
  BY <1>1, <1>2, <1>3, PageCalls

LEMMA ContinueStep ==
  ASSUME CallTypes, Existing \subseteq Existing', NEW p \in Pages, NEW s \in Slots,
         NEW step, NEW got, call[p][s].step # "none", Continue(p, s, step, got),
         step = "validated" => got \in Configurations,
         step = "answered" => got \in AnswersOf(s, Existing')
  PROVE  CallTypes'
<1> DEFINE c == [call[p][s] EXCEPT !.step = step, !.got = got]
<1>1. call' = [call EXCEPT ![p][s] = c]
  BY DEF Continue
<1>2. CallOK(s, call[p][s], Existing')
  BY CallFacts, MoreBranches
<1>3. IsCall(c) /\ c.input = call[p][s].input /\ c.step = step /\ c.got = got
  <2>1. IsCall(call[p][s])
    BY <1>2 DEF CallOK
  <2> QED
    BY <2>1 DEF IsCall
<1> HIDE DEF c
<1>4. CallOK(s, c, Existing')
  BY <1>2, <1>3 DEF CallOK
<1> QED
  BY <1>1, <1>4, OneCall

-------------------------------------------------------------------------------
(* Types.                                                                  *)
LEMMA Verdicts ==
  ASSUME NEW c, NEW list
  PROVE  Validate507(c, list) = "ACCEPTED" =>
           /\ c.branchMode = "ALL_ACTIVE" => Active(list) # <<>>
           /\ c.branchMode = "SELECTED" => c.branchIds # <<>>
           /\ c.branchMode = "SELECTED" => Range(c.branchIds) \subseteq Ids(Active(list))
           /\ c.turnoverMonths # {} \/ c.dailyTurnover \/ c.salePrice
BY DEF Validate507

LEMMA SameBranches ==
  ASSUME TInv, UNCHANGED branch
  PROVE  CodesDiffer' /\ Existing' = Existing
BY DEF TInv, CodesDiffer, Existing

(* A handler that only reads, or writes the configuration.                 *)
LEMMA ReadStep ==
  ASSUME TInv, UNCHANGED <<branch, page>>, inTurn' = inTurn, enabled' \in BOOLEAN,
         saved' \in {Null} \cup Configurations, CallTypes'
  PROVE  TInv'
<1>1. CodesDiffer' /\ Existing' = Existing
  BY SameBranches
<1>2. TypeOK'
  BY DEF TInv, TypeOK
<1>3. ListsKnown'
  BY <1>1 DEF TInv, ListsKnown
<1> QED
  BY <1>1, <1>2, <1>3 DEF TInv

(* A handler that writes a branch; branches only get more.                 *)
LEMMA WriteStep ==
  ASSUME TInv, UNCHANGED <<saved, enabled, page, inTurn>>, Existing \subseteq Existing',
         branch' \in [Branches -> {Null} \cup [code: Codes, active: BOOLEAN]],
         \/ CodesDiffer'
         \/ Existing' = Existing /\ \A b \in Existing : branch'[b].code = branch[b].code,
         CallTypes'
  PROVE  TInv'
<1>1. CodesDiffer'
  <2>1. CASE Existing' = Existing /\ \A b \in Existing : branch'[b].code = branch[b].code
    BY <2>1 DEF TInv, CodesDiffer
  <2> QED
    BY <2>1
<1>2. TypeOK'
  BY DEF TInv, TypeOK
<1>3. ListsKnown'
  BY DEF TInv, ListsKnown
<1> QED
  BY <1>1, <1>2, <1>3 DEF TInv

(* A request under way has the input of its mutation.                      *)
LEMMA InputTypes ==
  ASSUME CallTypes, NEW p \in Pages
  PROVE  /\ call[p]["save"].step # "none" => call[p]["save"].input \in Configurations
         /\ call[p]["preview"].step # "none" => call[p]["preview"].input \in Configurations
         /\ call[p]["toggle"].step # "none" =>
              call[p]["toggle"].input \in [id: Existing, active: BOOLEAN]
         /\ call[p]["edit"].step # "none" =>
              call[p]["edit"].input \in [id: {Null} \cup Existing, code: Codes]
         /\ call[p]["company"].step # "none" => call[p]["company"].input \in BOOLEAN
<1>1. \A s \in {"save", "preview", "toggle", "edit", "company"} :
        call[p][s].step # "none" => call[p][s].input \in InputsOf(s, Existing)
  BY CallFacts DEF CallOK, Slots, Queries
<1>2. /\ InputsOf("save", Existing) = Configurations
      /\ InputsOf("preview", Existing) = Configurations
      /\ InputsOf("toggle", Existing) = [id: Existing, active: BOOLEAN]
      /\ InputsOf("edit", Existing) = [id: {Null} \cup Existing, code: Codes]
      /\ InputsOf("company", Existing) = BOOLEAN
  BY DEF InputsOf, Queries
<1> QED
  BY <1>1, <1>2

LEMMA HandlesTypes ==
  ASSUME TInv, NEW p \in Pages, Handles(p)
  PROVE  TInv'
<1>0. /\ CallTypes /\ saved \in {Null} \cup Configurations /\ enabled \in BOOLEAN
      /\ \A s \in Slots : CallOK(s, call[p][s], Existing)
      /\ View \in Views /\ LoadBranches \in Lists /\ Ids(LoadBranches) \subseteq Existing
  BY ReadTypes, CallFacts DEF TInv, TypeOK
<1>1. "save" \in Slots /\ "preview" \in Slots /\ "reset" \in Slots /\ "toggle" \in Slots
      /\ "edit" \in Slots /\ "company" \in Slots /\ "routine507" \in Slots /\ "branches" \in Slots
  BY DEF Slots, Queries
<1>2. UNCHANGED branch => Existing' = Existing
  BY SameBranches
<1>3. ASSUME UNCHANGED branch, NEW s \in Slots, NEW step, NEW got, call[p][s].step # "none",
             Continue(p, s, step, got), step = "validated" => got \in Configurations,
             step = "answered" => got \in AnswersOf(s, Existing)
      PROVE  CallTypes'
  BY <1>0, <1>2, <1>3, ContinueStep
<1>4. \A c \in Configurations : Normalize507(c) \in Configurations
  BY Normalized
<1>5. CASE SaveValidates(p)
  <2>1. Normalize507(call[p]["save"].input) \in Configurations
    BY <1>0, <1>4, <1>5, InputTypes DEF SaveValidates, Begin
  <2>2. UNCHANGED <<branch, saved, enabled, page, inTurn>>
    BY <1>5 DEF SaveValidates, database, counters
  <2>3. PICK step, got : /\ Continue(p, "save", step, got) /\ call[p]["save"].step # "none"
                         /\ step = "validated" => got \in Configurations
                         /\ step # "answered"
    BY <1>5, <2>1 DEF SaveValidates, Begin, Refuse
  <2>4. CallTypes'
    BY <1>1, <1>3, <2>2, <2>3
  <2> QED
    BY <1>0, <2>2, <2>4, ReadStep
<1>6. CASE SaveUpserts(p)
  <2>1. call[p]["save"].got \in Configurations
    BY <1>0, <1>1, <1>6 DEF SaveUpserts, Within, CallOK
  <2>2. UNCHANGED <<branch, enabled, page, inTurn>> /\ saved' \in {Null} \cup Configurations
    BY <1>6, <2>1 DEF SaveUpserts, counters
  <2>3. CallTypes'
    BY <1>1, <1>3, <1>6, <2>2 DEF SaveUpserts, Within
  <2> QED
    BY <1>0, <2>2, <2>3, ReadStep
<1>7. CASE PreviewAnswers(p)
  <2>1. Normalize507(call[p]["preview"].input) \in Configurations
    BY <1>0, <1>4, <1>7, InputTypes DEF PreviewAnswers, Begin
  <2>2. UNCHANGED <<branch, saved, enabled, page, inTurn>>
    BY <1>7 DEF PreviewAnswers, database, counters
  <2>3. [configuration |-> Normalize507(call[p]["preview"].input), branches |-> LoadBranches]
          \in AnswersOf("preview", Existing)
    BY <1>0, <2>1 DEF AnswersOf, Previews
  <2>4. PICK step, got : /\ Continue(p, "preview", step, got) /\ call[p]["preview"].step # "none"
                         /\ step # "validated"
                         /\ step = "answered" => got \in AnswersOf("preview", Existing)
    BY <1>7, <2>3 DEF PreviewAnswers, Begin, Refuse
  <2>5. CallTypes'
    BY <1>1, <1>3, <2>2, <2>4
  <2> QED
    BY <1>0, <2>2, <2>5, ReadStep
<1>8. CASE ResetDeletes(p)
  <2>1. UNCHANGED <<branch, enabled, page, inTurn>> /\ saved' \in {Null} \cup Configurations
    BY <1>0, <1>8 DEF ResetDeletes, counters
  <2>2. CallTypes'
    BY <1>1, <1>3, <1>8, <2>1 DEF ResetDeletes, Begin, Refuse
  <2> QED
    BY <1>0, <2>1, <2>2, ReadStep
<1>9. ASSUME NEW s \in Slots, ViewAnswers(p, s) PROVE TInv'
  <2>1. UNCHANGED <<branch, saved, enabled, page, inTurn>>
    BY <1>9 DEF ViewAnswers, database, counters
  <2>2. View \in AnswersOf(s, Existing)
    BY <1>0, <1>9 DEF ViewAnswers, AnswersOf
  <2>3. CallTypes'
    BY <1>3, <1>9, <2>1, <2>2 DEF ViewAnswers, Within
  <2> QED
    BY <1>0, <2>1, <2>3, ReadStep
<1>10. CASE QueryAnswers(p)
  <2>1. UNCHANGED <<branch, saved, enabled, page, inTurn>>
    BY <1>10 DEF QueryAnswers, database, counters
  <2>2. View \in AnswersOf("routine507", Existing)
    BY <1>0 DEF AnswersOf
  <2>3. CallTypes'
    BY <1>1, <1>3, <1>10, <2>1, <2>2 DEF QueryAnswers, Begin, Refuse
  <2> QED
    BY <1>0, <2>1, <2>3, ReadStep
<1>11. CASE ListAnswers(p)
  <2>1. UNCHANGED <<branch, saved, enabled, page, inTurn>>
    BY <1>11 DEF ListAnswers, database, counters
  <2>2. LoadBranches \in AnswersOf("branches", Existing)
    BY <1>0 DEF AnswersOf
  <2>3. CallTypes'
    BY <1>1, <1>3, <1>11, <2>1, <2>2 DEF ListAnswers, Begin
  <2> QED
    BY <1>0, <2>1, <2>3, ReadStep
<1>12. CASE UpdateReads(p) \/ UpdateChecksUse(p)
  <2>1. UNCHANGED <<branch, saved, enabled, page, inTurn>>
    BY <1>12 DEF UpdateReads, UpdateChecksUse, database, counters
  <2>2. PICK step, got : /\ Continue(p, "toggle", step, got) /\ call[p]["toggle"].step # "none"
                         /\ step # "validated" /\ step # "answered"
    BY <1>12 DEF UpdateReads, UpdateChecksUse, Begin, Within, Refuse
  <2>3. CallTypes'
    BY <1>1, <1>3, <2>1, <2>2
  <2> QED
    BY <1>0, <2>1, <2>3, ReadStep
<1>13. CASE UpdateWrites(p)
  <2> DEFINE input == call[p]["toggle"].input
  <2>1. input.id \in Existing /\ input.active \in BOOLEAN
    BY <1>0, <1>13, InputTypes DEF UpdateWrites, Within
  <2>2. branch' = [branch EXCEPT ![input.id].active = input.active]
        /\ Continue(p, "toggle", "answered", Null) /\ call[p]["toggle"].step # "none"
        /\ UNCHANGED <<saved, enabled, page, inTurn>>
    BY <1>13 DEF UpdateWrites, Within, counters
  <2> HIDE DEF input
  <2>3. branch[input.id] \in [code: Codes, active: BOOLEAN] /\ input.id \in Branches
    BY <2>1 DEF TInv, TypeOK, Existing
  <2>4. [branch[input.id] EXCEPT !.active = input.active] \in [code: Codes, active: BOOLEAN]
        /\ [branch[input.id] EXCEPT !.active = input.active].code = branch[input.id].code
    BY <2>1, <2>3
  <2>5. \A b \in Branches : branch'[b] = IF b = input.id
                                         THEN [branch[input.id] EXCEPT !.active = input.active]
                                         ELSE branch[b]
    BY <2>2, <2>3 DEF TInv, TypeOK
  <2>6. branch' \in [Branches -> {Null} \cup [code: Codes, active: BOOLEAN]]
    BY <2>2, <2>3, <2>4 DEF TInv, TypeOK
  <2>7. Existing' = Existing /\ \A b \in Existing : branch'[b].code = branch[b].code
    BY <2>1, <2>4, <2>5, NullAssumption DEF Existing
  <2>8. Null \in AnswersOf("toggle", Existing)
    BY DEF AnswersOf
  <2> QED
    BY <1>0, <1>1, <2>2, <2>6, <2>7, <2>8, ContinueStep, WriteStep
<1>14. CASE WriteBranch(p)
  <2> DEFINE input == call[p]["edit"].input
  <2>0. input.id \in {Null} \cup Existing /\ input.code \in Codes
    BY <1>0, <1>14, InputTypes DEF WriteBranch, Begin
  <2>1. UNCHANGED <<saved, enabled, page, inTurn>> /\ call[p]["edit"].step # "none"
    BY <1>14 DEF WriteBranch, Begin, counters
  <2>2. Null \in AnswersOf("edit", Existing')
    BY DEF AnswersOf
  <2>3. CASE Refuse(p, "edit", "WINTHOR_BRANCH_CODE_CONFLICT") /\ UNCHANGED branch
    <3>1. CallTypes'
      BY <1>1, <1>3, <2>1, <2>3 DEF Refuse
    <3> QED
      BY <1>0, <2>1, <2>3, <3>1, ReadStep
  <2>4. ASSUME NEW b \in Branches, NEW row \in [code: Codes, active: BOOLEAN],
               branch' = [branch EXCEPT ![b] = row], Continue(p, "edit", "answered", Null),
               \A c \in Existing \ {b} : branch[c].code # row.code
        PROVE  TInv'
    <3>1. \A c \in Branches : branch'[c] = IF c = b THEN row ELSE branch[c]
      BY <2>4 DEF TInv, TypeOK
    <3>2. branch' \in [Branches -> {Null} \cup [code: Codes, active: BOOLEAN]]
      BY <2>4 DEF TInv, TypeOK
    <3>3. Existing' = Existing \cup {b}
      BY <2>4, <3>1, NullAssumption DEF Existing
    <3>4. CodesDiffer'
      BY <2>4, <3>1, <3>3 DEF TInv, CodesDiffer, Existing
    <3>5. CallTypes'
      BY <1>0, <1>1, <2>1, <2>2, <2>4, <3>3, ContinueStep
    <3> QED
      BY <1>0, <2>1, <3>2, <3>3, <3>4, <3>5, WriteStep
  <2>5. ASSUME ~ CodeIsTaken(input.code, input.id), input.id # Null,
               branch' = [branch EXCEPT ![input.id].code = input.code],
               Continue(p, "edit", "answered", Null)
        PROVE  TInv'
    <3>1. branch[input.id] \in [code: Codes, active: BOOLEAN] /\ input.id \in Branches
      BY <2>0, <2>5 DEF TInv, TypeOK, Existing
    <3> DEFINE row == [branch[input.id] EXCEPT !.code = input.code]
    <3>2. row \in [code: Codes, active: BOOLEAN] /\ row.code = input.code
      BY <2>0, <3>1
    <3>3. branch' = [branch EXCEPT ![input.id] = row]
      BY <2>5
    <3>4. \A c \in Existing \ {input.id} : branch[c].code # row.code
      BY <2>5, <3>2 DEF CodeIsTaken, Existing
    <3> HIDE DEF row, input
    <3> QED
      BY <2>4, <2>5, <3>1, <3>2, <3>3, <3>4
  <2>6. ASSUME ~ CodeIsTaken(input.code, input.id), input.id = Null,
               NEW b \in Branches, branch[b] = Null,
               branch' = [branch EXCEPT ![b] = [code |-> input.code, active |-> TRUE]],
               Continue(p, "edit", "answered", Null)
        PROVE  TInv'
    <3> DEFINE row == [code |-> input.code, active |-> TRUE]
    <3>1. row \in [code: Codes, active: BOOLEAN] /\ row.code = input.code
      BY <2>0
    <3>2. \A c \in Existing : branch[c].code # row.code
      BY <2>6, <3>1, NullAssumption DEF CodeIsTaken, Existing
    <3>3. branch' = [branch EXCEPT ![b] = row] /\ Continue(p, "edit", "answered", Null)
      BY <2>6
    <3>4. \A c \in Existing \ {b} : branch[c].code # row.code
      BY <3>2
    <3> HIDE DEF row, input
    <3> QED
      BY <2>4, <2>6, <3>1, <3>3, <3>4
  <2> QED
    BY <1>14, <2>3, <2>5, <2>6 DEF WriteBranch
<1>15. CASE UpdateCompany(p)
  <2>1. call[p]["company"].input \in BOOLEAN
    BY <1>0, <1>15, InputTypes DEF UpdateCompany, Begin
  <2>2. UNCHANGED <<branch, saved, page, inTurn>> /\ enabled' \in BOOLEAN
    BY <1>15, <2>1 DEF UpdateCompany, counters
  <2>3. call[p]["company"].input \in AnswersOf("company", Existing)
    BY <2>1 DEF AnswersOf
  <2>4. CallTypes'
    BY <1>1, <1>3, <1>15, <2>2, <2>3 DEF UpdateCompany, Begin
  <2> QED
    BY <1>0, <2>2, <2>4, ReadStep
<1> QED
  BY <1>5, <1>6, <1>7, <1>8, <1>9, <1>10, <1>11, <1>12, <1>13, <1>14, <1>15 DEF Handles

LEMMA PageFacts ==
  ASSUME TInv, NEW p \in Pages
  PROVE  /\ page[p] \in PageStates /\ Ids(page[p].list) \subseteq Existing
         /\ page[p].view \in Views /\ Draft(p) \in Configurations
         /\ page[p].draft \in {Null} \cup Configurations
         /\ CallTypes /\ \A s \in Slots : CallOK(s, call[p][s], Existing)
<1>1. page[p] \in PageStates /\ Ids(page[p].list) \subseteq Existing /\ CallTypes
  BY DEF TInv, TypeOK, ListsKnown
<1>2. page[p].view \in Views /\ page[p].draft \in {Null} \cup Configurations
  BY <1>1 DEF PageStates
<1>3. Draft(p) \in Configurations
  BY <1>2 DEF Draft, Views
<1> QED
  BY <1>1, <1>2, <1>3, CallFacts

(* A step of a page.                                                       *)
LEMMA PageStep ==
  ASSUME TInv, UNCHANGED <<branch, saved, enabled, inTurn>>,
         NEW p \in Pages, NEW pg \in PageStates, Ids(pg.list) \subseteq Existing,
         page' = [page EXCEPT ![p] = pg], CallTypes'
  PROVE  TInv'
<1>1. CodesDiffer' /\ Existing' = Existing
  BY SameBranches
<1>2. page' \in [Pages -> PageStates] /\ \A q \in Pages : page'[q] = IF q = p THEN pg ELSE page[q]
  BY DEF TInv, TypeOK
<1>3. TypeOK'
  BY <1>2 DEF TInv, TypeOK
<1>4. ListsKnown'
  BY <1>1, <1>2 DEF TInv, ListsKnown
<1> QED
  BY <1>1, <1>3, <1>4 DEF TInv

LEMMA EditTypes ==
  ASSUME TInv, NEW p \in Pages, NEW draft \in {Null} \cup Configurations, Edit(p, draft)
  PROVE  TInv'
<1>1. /\ page' = [page EXCEPT ![p].draft = draft, ![p].previewData = Null]
      /\ call' = [call EXCEPT ![p]["preview"] = NoCall]
      /\ UNCHANGED <<branch, saved, enabled, inTurn>>
  BY DEF Edit, database
<1> DEFINE pg == [page[p] EXCEPT !.draft = draft, !.previewData = Null]
<1>2. page' = [page EXCEPT ![p] = pg]
  BY <1>1 DEF TInv, TypeOK
<1>3. pg \in PageStates /\ pg.list = page[p].list
  BY PageFacts DEF PageStates
<1>4. CallTypes'
  <2>1. "preview" \in Slots /\ Existing' = Existing
    BY <1>1, SameBranches DEF Slots
  <2>2. CallOK("preview", NoCall, Existing')
    BY <2>1, NewCalls
  <2> QED
    BY <1>1, <2>1, <2>2, PageFacts, OneCall
<1> HIDE DEF pg
<1> QED
  BY <1>1, <1>2, <1>3, <1>4, PageFacts, PageStep

LEMMA SendTypes ==
  ASSUME TInv, NEW p \in Pages, NEW s \in Slots, NEW input \in InputsOf(s, Existing),
         Send(p, s, input)
  PROVE  CallTypes' /\ UNCHANGED <<branch, saved, enabled, inTurn>>
<1>1. call' = [call EXCEPT ![p][s] = Sent(input)] /\ UNCHANGED <<branch, saved, enabled, inTurn>>
  BY DEF Send, database
<1>2. Existing' = Existing
  BY <1>1, SameBranches
<1>3. CallOK(s, Sent(input), Existing')
  BY <1>2, NewCalls
<1> QED
  BY <1>1, <1>2, <1>3, PageFacts, OneCall

(* What a click sends.                                                     *)
LEMMA InputsAre ==
  /\ InputsOf("save", Existing) = Configurations
  /\ InputsOf("preview", Existing) = Configurations
  /\ InputsOf("toggle", Existing) = [id: Existing, active: BOOLEAN]
  /\ InputsOf("edit", Existing) = [id: {Null} \cup Existing, code: Codes]
  /\ InputsOf("company", Existing) = BOOLEAN
  /\ InputsOf("reset", Existing) = {Null}
BY DEF InputsOf, Queries

LEMMA ClicksTypes ==
  ASSUME TInv, NEW p \in Pages, Clicks(p), ~ SwitchEnvironment(p)
  PROVE  TInv'
<1>0. /\ page[p] \in PageStates /\ Ids(page[p].list) \subseteq Existing /\ Draft(p) \in Configurations
      /\ page[p].draft \in {Null} \cup Configurations
  BY PageFacts
<1>1. "save" \in Slots /\ "preview" \in Slots /\ "reset" \in Slots /\ "toggle" \in Slots
      /\ "edit" \in Slots /\ "company" \in Slots
  BY DEF Slots
<1>2. ASSUME NEW changed, page[p].draft # Null => changed \in Configurations
      PROVE  OfCurrent(p, changed) \in {Null} \cup Configurations
  BY <1>2 DEF OfCurrent
<1>3. ASSUME NEW b \in Branches, ToggleBranch(p, b) PROVE TInv'
  <2> DEFINE draft == page[p].draft
             ids == IF b \in Range(draft.branchIds)
                    THEN At(draft.branchIds, {i \in DOMAIN draft.branchIds : draft.branchIds[i] # b})
                    ELSE Append(draft.branchIds, b)
             changed == [draft EXCEPT !.branchIds = ids]
  <2>1. draft # Null => ids \in IdLists
    <3>1. SUFFICES ASSUME draft # Null PROVE ids \in IdLists
      OBVIOUS
    <3>2. draft.branchIds \in IdLists
      BY <1>0, <3>1, ConfigurationFacts
    <3> HIDE DEF draft
    <3> QED
      BY <3>2, IdsWithout, IdsWith
  <2>2. draft # Null => changed \in Configurations
    <3> HIDE DEF ids, draft
    <3> QED
      BY <1>0, <2>1, ConfigurationFacts DEF draft
  <2>3. Edit(p, OfCurrent(p, changed))
    BY <1>3, Zenon DEF ToggleBranch
  <2> HIDE DEF changed
  <2> QED
    BY <1>2, <2>2, <2>3, EditTypes
<1>4. ASSUME NEW m \in Months, ToggleMonth(p, m) PROVE TInv'
  <2> DEFINE draft == page[p].draft
             months == IF m \in draft.turnoverMonths THEN draft.turnoverMonths \ {m}
                       ELSE draft.turnoverMonths \cup {m}
             changed == [draft EXCEPT !.turnoverMonths = months]
  <2>1. draft # Null => months \in SUBSET Months
    BY <1>0, ConfigurationFacts
  <2>2. draft # Null => changed \in Configurations
    <3> HIDE DEF months, draft
    <3> QED
      BY <1>0, <2>1, ConfigurationFacts DEF draft
  <2>3. Edit(p, OfCurrent(p, changed))
    BY <1>4, Zenon DEF ToggleMonth
  <2> HIDE DEF changed
  <2> QED
    BY <1>2, <2>2, <2>3, EditTypes
<1>5. ASSUME NEW mode \in Modes, ChooseMode(p, mode) PROVE TInv'
  <2> DEFINE draft == page[p].draft
             changed == [draft EXCEPT !.branchMode = mode,
                                      !.branchIds = IdsUnderMode(mode, draft.branchIds)]
  <2>1. draft # Null => IdsUnderMode(mode, draft.branchIds) \in IdLists
    BY <1>0, ConfigurationFacts, NoIds DEF IdsUnderMode
  <2>2. draft # Null => changed \in Configurations
    <3> HIDE DEF draft
    <3> QED
      BY <1>0, <2>1, ConfigurationFacts DEF draft
  <2>3. Edit(p, OfCurrent(p, changed))
    BY <1>5, Zenon DEF ChooseMode
  <2> HIDE DEF changed
  <2> QED
    BY <1>2, <2>2, <2>3, EditTypes
<1>6. CASE ToggleDaily(p)
  BY <1>0, <1>6, ConfigurationFacts, EditTypes DEF ToggleDaily
<1>7. CASE ToggleSalePrice(p)
  BY <1>0, <1>7, ConfigurationFacts, EditTypes DEF ToggleSalePrice
<1>8. ASSUME NEW pg \in PageStates, pg.list = page[p].list, page' = [page EXCEPT ![p] = pg],
             NEW s \in Slots, NEW input \in InputsOf(s, Existing), Send(p, s, input)
      PROVE  TInv'
  BY <1>0, <1>8, SendTypes, PageStep
<1>9. ASSUME UNCHANGED page, NEW s \in Slots, NEW input \in InputsOf(s, Existing), Send(p, s, input)
      PROVE  TInv'
  <2>1. page' = [page EXCEPT ![p] = page[p]]
    BY <1>9 DEF TInv, TypeOK
  <2> QED
    BY <1>0, <1>8, <1>9, <2>1
<1>10. CASE ClickPreview(p)
  <2> DEFINE pg == [page[p] EXCEPT !.previewData = Null]
  <2>1. page' = [page EXCEPT ![p] = pg] /\ Send(p, "preview", Draft(p))
    BY <1>10 DEF ClickPreview
  <2>2. pg \in PageStates /\ pg.list = page[p].list
    BY <1>0 DEF PageStates
  <2> HIDE DEF pg
  <2> QED
    BY <1>0, <1>1, <1>8, <2>1, <2>2, InputsAre
<1>11. CASE ClickSave(p)
  <2> DEFINE pg == [page[p] EXCEPT !.saveData = Null]
  <2>1. page' = [page EXCEPT ![p] = pg] /\ Send(p, "save", Draft(p))
    BY <1>11 DEF ClickSave
  <2>2. pg \in PageStates /\ pg.list = page[p].list
    BY <1>0 DEF PageStates
  <2> HIDE DEF pg
  <2> QED
    BY <1>0, <1>1, <1>8, <2>1, <2>2, InputsAre
<1>12. CASE ClickReset(p)
  BY <1>1, <1>9, <1>12, InputsAre DEF ClickReset
<1>13. CASE ClickToggle(p)
  <2>1. PICK i \in DOMAIN page[p].list :
          Send(p, "toggle", [id |-> page[p].list[i].id, active |-> ~ page[p].list[i].active])
    BY <1>13 DEF ClickToggle
  <2>2. page[p].list[i].id \in Existing
    BY <1>0, <2>1 DEF Ids
  <2>3. [id |-> page[p].list[i].id, active |-> ~ page[p].list[i].active] \in InputsOf("toggle", Existing)
    BY <2>2, InputsAre
  <2> QED
    BY <1>1, <1>9, <1>13, <2>1, <2>3 DEF ClickToggle
<1>14. CASE SubmitBranch(p)
  <2>1. PICK id \in {Null} \cup Ids(page[p].list), code \in Codes :
          Send(p, "edit", [id |-> id, code |-> code])
    BY <1>14 DEF SubmitBranch
  <2>2. [id |-> id, code |-> code] \in InputsOf("edit", Existing)
    BY <1>0, <2>1, InputsAre
  <2> QED
    BY <1>1, <1>9, <1>14, <2>1, <2>2 DEF SubmitBranch
<1>15. CASE ClickCompany(p)
  <2>1. (~ page[p].catalog) \in BOOLEAN
    OBVIOUS
  <2>2. (~ page[p].catalog) \in InputsOf("company", Existing)
    BY <2>1, InputsAre
  <2> QED
    BY <1>1, <1>9, <1>15, <2>2 DEF ClickCompany
<1> QED
  BY <1>3, <1>4, <1>5, <1>6, <1>7, <1>10, <1>11, <1>12, <1>13, <1>14, <1>15 DEF Clicks

LEMMA InvalidateTypes ==
  ASSUME TInv, UNCHANGED <<branch, saved, enabled, inTurn>>,
         NEW p \in Pages, NEW pg \in PageStates, Ids(pg.list) \subseteq Existing,
         NEW s \in Slots, NEW queries \in SUBSET Queries, Invalidate(p, pg, s, queries)
  PROVE  TInv'
<1> DEFINE next == IF pg.catalog THEN pg ELSE [pg EXCEPT !.stale = @ \cup queries]
           calls == [t \in Slots |-> IF t \in queries /\ pg.catalog THEN Sent(Null)
                                    ELSE IF t = s THEN NoCall ELSE call[p][t]]
<1>1. page' = [page EXCEPT ![p] = next] /\ call' = [call EXCEPT ![p] = calls]
  BY Zenon DEF Invalidate
<1>2. next \in PageStates /\ next.list = pg.list
  <2>1. [pg EXCEPT !.stale = @ \cup queries] \in PageStates
        /\ [pg EXCEPT !.stale = @ \cup queries].list = pg.list
    BY DEF PageStates
  <2> QED
    BY <2>1
<1>3. Existing' = Existing
  BY SameBranches
<1>4. \A t \in Slots : CallOK(t, calls[t], Existing')
  <2>1. ASSUME NEW t \in Slots PROVE CallOK(t, calls[t], Existing')
    <3>1. (calls[t] = Sent(Null) /\ t \in Queries) \/ calls[t] = NoCall \/ calls[t] = call[p][t]
      OBVIOUS
    <3> HIDE DEF calls
    <3> QED
      BY <1>3, <3>1, NewCalls, PageFacts
  <2> QED
    BY <2>1
<1>5. calls = [t \in Slots |-> calls[t]]
  OBVIOUS
<1> HIDE DEF next, calls
<1>6. CallTypes'
  BY <1>1, <1>3, <1>4, <1>5, PageFacts, PageCalls
<1> QED
  BY <1>1, <1>2, <1>6, PageStep

LEMMA DetachedTypes ==
  ASSUME TInv, NEW p \in Pages, NEW s \in Slots
  PROVE  /\ CallOK(s, Detached(p, s), Existing)
         /\ Detached(p, s).step \in {"none", call[p][s].step}
         /\ s # "preview" => /\ Detached(p, s).step = call[p][s].step
                             /\ Detached(p, s).input = call[p][s].input
                             /\ Detached(p, s).got = call[p][s].got
<1> DEFINE c == call[p][s]
           d == [c EXCEPT !.attached = FALSE]
<1>1. CallOK(s, c, Existing)
  BY PageFacts
<1>2. IsCall(d) /\ d.input = c.input /\ d.step = c.step /\ d.got = c.got
  BY <1>1 DEF CallOK, IsCall
<1>3. CallOK(s, d, Existing)
  <2> HIDE DEF d, c
  <2> QED
    BY <1>1, <1>2 DEF CallOK
<1>4. CASE s \in {"save", "reset"}
  <2>1. Detached(p, s) = d
    BY <1>4, Zenon DEF Detached
  <2> HIDE DEF d
  <2> QED
    BY <1>2, <1>3, <2>1
<1>5. CASE s = "preview"
  BY <1>5, NewCalls DEF Detached, NoCall
<1>6. CASE s \notin {"save", "reset", "preview"}
  BY <1>1, <1>6 DEF Detached
<1> QED
  BY <1>4, <1>5, <1>6

LEMMA MountedTypes ==
  ASSUME TInv, NEW p \in Pages, NEW due \in SUBSET Queries, NEW s \in Slots
  PROVE  /\ CallOK(s, MountedCalls(p, due)[s], Existing)
         /\ \/ MountedCalls(p, due)[s] = Detached(p, s)
            \/ s \in Queries /\ call[p][s] = NoCall /\ MountedCalls(p, due)[s] = Sent(Null)
BY DetachedTypes, NewCalls DEF MountedCalls

LEMMA UnmountedTypes ==
  ASSUME NEW pg \in PageStates
  PROVE  Unmounted(pg) \in PageStates /\ Unmounted(pg).list = pg.list
BY DEF Unmounted, PageStates

LEMMA SwitchTypes ==
  ASSUME TInv, NEW p \in Pages, SwitchEnvironment(p)
  PROVE  TInv'
<1>1. PICK due \in SUBSET Queries : call' = [call EXCEPT ![p] = MountedCalls(p, due)]
  <2>1. page[p].stale \in SUBSET Queries
    BY PageFacts DEF PageStates
  <2> QED
    BY <2>1 DEF SwitchEnvironment
<1>2. page' = [page EXCEPT ![p] = Unmounted(page[p])] /\ UNCHANGED <<branch, saved, enabled, inTurn>>
  BY DEF SwitchEnvironment, database
<1>3. Existing' = Existing
  BY <1>2, SameBranches
<1>4. MountedCalls(p, due) = [s \in Slots |-> MountedCalls(p, due)[s]]
  BY DEF MountedCalls
<1>5. CallTypes'
  BY <1>1, <1>3, <1>4, MountedTypes, PageFacts, PageCalls
<1> QED
  BY <1>2, <1>5, PageFacts, UnmountedTypes, PageStep

(* What an answer brings.                                                  *)
LEMMA AnswerTypes ==
  ASSUME TInv, NEW p \in Pages
  PROVE  /\ Answered(p, "save") => call[p]["save"].got \in Views
         /\ Answered(p, "reset") => call[p]["reset"].got \in Views
         /\ Answered(p, "routine507") => call[p]["routine507"].got \in Views
         /\ Answered(p, "preview") => call[p]["preview"].got \in Previews
         /\ Answered(p, "branches") => /\ call[p]["branches"].got \in Lists
                                       /\ Ids(call[p]["branches"].got) \subseteq Existing
         /\ Answered(p, "company") => call[p]["company"].got \in BOOLEAN
<1>1. \A s \in Slots : Answered(p, s) => call[p][s].got \in AnswersOf(s, Existing)
  BY PageFacts DEF Answered, Within, CallOK
<1>2. /\ AnswersOf("save", Existing) = Views
      /\ AnswersOf("reset", Existing) = Views
      /\ AnswersOf("routine507", Existing) = Views
      /\ AnswersOf("preview", Existing) = Previews
      /\ AnswersOf("branches", Existing) = {list \in Lists : Ids(list) \subseteq Existing}
      /\ AnswersOf("company", Existing) = BOOLEAN
  BY DEF AnswersOf
<1> QED
  BY <1>1, <1>2 DEF Slots, Queries

LEMMA ErrorTypes ==
  ASSUME TInv, UNCHANGED inTurn, NEW p \in Pages, NEW s \in Slots, OnError(p, s)
  PROVE  TInv'
<1> DEFINE pg == IF s \in Queries
                 THEN [page[p] EXCEPT !.failed = @ \cup {s}, !.stale = @ \cup {s}]
                 ELSE page[p]
<1>1. page' = [page EXCEPT ![p] = pg] /\ call' = [call EXCEPT ![p][s] = NoCall]
      /\ UNCHANGED <<branch, saved, enabled>>
  BY Zenon DEF OnError, database
<1>2. pg \in PageStates /\ pg.list = page[p].list
  <2>1. CASE s \in Queries
    BY <2>1, PageFacts DEF PageStates
  <2>2. CASE s \notin Queries
    BY <2>2, PageFacts
  <2> QED
    BY <2>1, <2>2
<1>3. Existing' = Existing
  BY <1>1, SameBranches
<1>4. CallTypes'
  BY <1>1, <1>3, NewCalls, PageFacts, OneCall
<1> HIDE DEF pg
<1> QED
  BY <1>1, <1>2, <1>4, PageFacts, PageStep

LEMMA ArrivesTypes ==
  ASSUME TInv, NEW p \in Pages, Arrives(p)
  PROVE  TInv'
<1>0. /\ page[p] \in PageStates /\ Ids(page[p].list) \subseteq Existing /\ CallTypes
      /\ \A s \in Slots : CallOK(s, call[p][s], Existing)
  BY PageFacts
<1>1. "save" \in Slots /\ "preview" \in Slots /\ "reset" \in Slots /\ "toggle" \in Slots
      /\ "edit" \in Slots /\ "company" \in Slots /\ "routine507" \in Slots /\ "branches" \in Slots
  BY DEF Slots, Queries
<1>2. UNCHANGED branch => Existing' = Existing
  BY SameBranches
<1>3. CASE SaveOnSuccess(p)
  <2> DEFINE got == call[p]["save"].got
             pg == IF call[p]["save"].attached
                   THEN [page[p] EXCEPT !.draft = got.configuration, !.saveData = got]
                   ELSE page[p]
  <2>1. Invalidate(p, pg, "save", {"routine507"}) /\ UNCHANGED <<branch, saved, enabled, inTurn>>
        /\ Answered(p, "save")
    BY <1>3, Zenon DEF SaveOnSuccess, database, counters
  <2>2. got \in Views /\ got.configuration \in Configurations
    BY <2>1, AnswerTypes DEF Views
  <2>3. pg \in PageStates /\ pg.list = page[p].list
    <3>1. [page[p] EXCEPT !.draft = got.configuration, !.saveData = got] \in PageStates
          /\ [page[p] EXCEPT !.draft = got.configuration, !.saveData = got].list = page[p].list
      <4> HIDE DEF got
      <4> QED
        BY <1>0, <2>2 DEF PageStates
    <3> QED
      BY <1>0, <3>1
  <2> HIDE DEF pg, got
  <2> QED
    BY <1>0, <1>1, <2>1, <2>3, InvalidateTypes DEF Queries
<1>4. CASE PreviewOnSuccess(p)
  <2> DEFINE got == call[p]["preview"].got
             pg == [page[p] EXCEPT !.previewData = got]
  <2>1. /\ page' = [page EXCEPT ![p] = pg] /\ call' = [call EXCEPT ![p]["preview"] = NoCall]
        /\ UNCHANGED <<branch, saved, enabled, inTurn>> /\ got \in Previews
    BY <1>4, AnswerTypes DEF PreviewOnSuccess, database, counters
  <2>2. pg \in PageStates /\ pg.list = page[p].list
    <3> HIDE DEF got
    <3> QED
      BY <1>0, <2>1 DEF PageStates
  <2>3. CallTypes'
    BY <1>0, <1>1, <1>2, <2>1, NewCalls, OneCall
  <2> HIDE DEF pg
  <2> QED
    BY <1>0, <2>1, <2>2, <2>3, PageStep
<1>5. CASE ResetOnSuccess(p)
  <2> DEFINE got == call[p]["reset"].got
             attached == call[p]["reset"].attached
             pg == IF attached
                   THEN [page[p] EXCEPT !.draft = got.configuration, !.previewData = Null]
                   ELSE page[p]
             next == IF pg.catalog THEN pg ELSE [pg EXCEPT !.stale = @ \cup {"routine507"}]
             calls == [t \in Slots |->
                         IF t = "reset" \/ (t = "preview" /\ attached) THEN NoCall
                         ELSE IF t = "routine507" /\ pg.catalog THEN Sent(Null) ELSE call[p][t]]
  <2>1. page' = [page EXCEPT ![p] = next] /\ UNCHANGED <<branch, saved, enabled, inTurn>>
        /\ Answered(p, "reset")
    BY <1>5, Zenon DEF ResetOnSuccess, database, counters
  <2>2. got \in Views /\ got.configuration \in Configurations
    BY <2>1, AnswerTypes DEF Views
  <2>3. pg \in PageStates /\ pg.list = page[p].list
    <3>1. [page[p] EXCEPT !.draft = got.configuration, !.previewData = Null] \in PageStates
          /\ [page[p] EXCEPT !.draft = got.configuration, !.previewData = Null].list = page[p].list
      <4> HIDE DEF got
      <4> QED
        BY <1>0, <2>2 DEF PageStates
    <3> QED
      BY <1>0, <3>1
  <2>4. call' = [call EXCEPT ![p] = calls]
    <3>1. call' = [call EXCEPT ![p]["reset"] = NoCall,
                               ![p]["preview"] = IF attached THEN NoCall ELSE call[p]["preview"],
                               ![p]["routine507"] = IF pg.catalog THEN Sent(Null)
                                                    ELSE call[p]["routine507"]]
      BY <1>0, <1>1, <1>5, CallFacts DEF ResetOnSuccess
    <3> HIDE DEF pg, attached
    <3> QED
      BY <1>0, <1>1, <3>1, CallFacts
  <2> HIDE DEF pg, attached
  <2>5. next \in PageStates /\ next.list = pg.list
    <3>1. [pg EXCEPT !.stale = @ \cup {"routine507"}] \in PageStates
          /\ [pg EXCEPT !.stale = @ \cup {"routine507"}].list = pg.list
      BY <2>3 DEF PageStates, Queries
    <3> QED
      BY <2>3, <3>1
  <2>6. \A t \in Slots : CallOK(t, calls[t], Existing')
    <3>1. ASSUME NEW t \in Slots PROVE CallOK(t, calls[t], Existing')
      <4>1. (calls[t] = Sent(Null) /\ t \in Queries) \/ calls[t] = NoCall \/ calls[t] = call[p][t]
        BY DEF Queries
      <4> HIDE DEF calls
      <4> QED
        BY <1>0, <1>2, <2>1, <4>1, NewCalls
    <3> QED
      BY <3>1
  <2>7. calls = [t \in Slots |-> calls[t]]
    OBVIOUS
  <2> HIDE DEF next, calls
  <2>8. CallTypes'
    BY <1>0, <1>2, <2>1, <2>4, <2>6, <2>7, PageCalls
  <2> QED
    BY <1>0, <2>1, <2>3, <2>5, <2>8, PageStep
<1>6. ASSUME NEW s \in Slots, BranchOnSuccess(p, s) PROVE TInv'
  <2>1. Invalidate(p, page[p], s, Queries) /\ UNCHANGED <<branch, saved, enabled, inTurn>>
    BY <1>6 DEF BranchOnSuccess, database, counters
  <2> QED
    BY <1>0, <1>6, <2>1, InvalidateTypes
<1>7. ASSUME NEW q \in Queries, QueryOnSuccess(p, q) PROVE TInv'
  <2> DEFINE got == call[p][q].got
             fresh == [page[p] EXCEPT !.stale = @ \ {q}, !.failed = @ \ {q}]
             pg == IF q = "routine507" THEN [fresh EXCEPT !.view = got]
                   ELSE [fresh EXCEPT !.list = got]
  <2>1. /\ page' = [page EXCEPT ![p] = pg] /\ call' = [call EXCEPT ![p][q] = NoCall]
        /\ UNCHANGED <<branch, saved, enabled, inTurn>> /\ Answered(p, q)
    BY <1>7, Zenon DEF QueryOnSuccess, database, counters
  <2>2. fresh \in PageStates /\ fresh.list = page[p].list
    BY <1>0 DEF PageStates
  <2>3. pg \in PageStates /\ Ids(pg.list) \subseteq Existing
    <3>1. CASE q = "routine507"
      <4>1. got \in Views
        BY <2>1, <3>1, AnswerTypes
      <4> HIDE DEF got, fresh
      <4>2. [fresh EXCEPT !.view = got] \in PageStates /\ [fresh EXCEPT !.view = got].list = fresh.list
        BY <2>2, <4>1 DEF PageStates
      <4> QED
        BY <1>0, <2>2, <3>1, <4>2
    <3>2. CASE q = "branches"
      <4>1. got \in Lists /\ Ids(got) \subseteq Existing
        BY <2>1, <3>2, AnswerTypes
      <4> HIDE DEF got, fresh
      <4>2. [fresh EXCEPT !.list = got] \in PageStates /\ [fresh EXCEPT !.list = got].list = got
        BY <2>2, <4>1 DEF PageStates
      <4> QED
        BY <3>2, <4>1, <4>2
    <3> QED
      BY <3>1, <3>2 DEF Queries
  <2>4. CallTypes'
    BY <1>0, <1>2, <2>1, NewCalls, OneCall DEF Slots
  <2> HIDE DEF pg
  <2> QED
    BY <2>1, <2>3, <2>4, PageStep
<1>8. CASE CompanyOnSuccess(p)
  <2> DEFINE on == call[p]["company"].got
             held == IF on THEN page[p] ELSE Unmounted(page[p])
             pg == [held EXCEPT !.catalog = on]
             left == IF on THEN MountedCalls(p, page[p].stale) ELSE [s \in Slots |-> Detached(p, s)]
             calls == [left EXCEPT !["company"] = NoCall]
  <2>1. /\ page' = [page EXCEPT ![p] = pg] /\ call' = [call EXCEPT ![p] = calls]
        /\ UNCHANGED <<branch, saved, enabled, inTurn>> /\ on \in BOOLEAN
    BY <1>8, AnswerTypes, Zenon DEF CompanyOnSuccess, database, counters
  <2>2. held \in PageStates /\ held.list = page[p].list
    BY <1>0, UnmountedTypes
  <2>3. page[p].stale \in SUBSET Queries
    BY <1>0 DEF PageStates
  <2>4. left = [s \in Slots |-> left[s]] /\ \A s \in Slots : CallOK(s, left[s], Existing)
    BY <2>3, DetachedTypes, MountedTypes DEF MountedCalls
  <2> HIDE DEF left, held, on
  <2>5. pg \in PageStates /\ pg.list = page[p].list
    BY <2>1, <2>2 DEF PageStates
  <2>6. calls = [s \in Slots |-> calls[s]]
        /\ \A s \in Slots : calls[s] = IF s = "company" THEN NoCall ELSE left[s]
    BY <2>4
  <2> HIDE DEF calls, pg
  <2>7. CallTypes'
    <3>1. \A s \in Slots : CallOK(s, calls[s], Existing')
      BY <1>2, <2>1, <2>4, <2>6, NewCalls
    <3> QED
      BY <1>0, <1>2, <2>1, <2>6, <3>1, PageCalls
  <2> QED
    BY <1>0, <2>1, <2>5, <2>7, PageStep
<1>9. ASSUME NEW s \in Slots, ErrorAnswer(p, s) \/ AnswerLost(p, s) PROVE TInv'
  BY <1>9, ErrorTypes DEF ErrorAnswer, AnswerLost, counters
<1> QED
  BY <1>3, <1>4, <1>5, <1>6, <1>7, <1>8, <1>9 DEF Arrives

LEMMA InitTypes ==
  ASSUME Init
  PROVE  TInv
<1>1. BranchTypes
  BY DEF Init, BranchTypes
<1>2. CodesDiffer
  BY DEF Init, CodesDiffer, Existing
<1>3. saved \in {Null} \cup Configurations
  <2>1. \A b \in Branches : <<b>> \in IdLists
    BY DEF IdLists, IsInjective
  <2>2. \A b \in Branches :
          [DEFAULT_507 EXCEPT !.branchMode = "SELECTED", !.branchIds = <<b>>] \in Configurations
    BY <2>1, Default, ConfigurationFacts DEF Modes
  <2> QED
    BY <2>2 DEF Init
<1>4. LoadBranches \in Lists /\ Ids(LoadBranches) \subseteq Existing
  BY <1>1, <1>2, ListOfBranches DEF Ids, Row
<1>5. Effective \in Configurations
  BY <1>3, Default, Normalized DEF Effective
<1>6. View \in Views
  BY <1>4, <1>5 DEF View, Views
<1>7. NewPage \in PageStates /\ NewPage.list = LoadBranches
  BY <1>4, <1>6 DEF NewPage, PageStates
<1>8. page = [p \in Pages |-> NewPage] /\ call = [p \in Pages |-> [s \in Slots |-> NoCall]]
      /\ enabled \in BOOLEAN /\ inTurn \in BOOLEAN
  BY DEF Init
<1>9. TypeOK
  BY <1>1, <1>3, <1>7, <1>8 DEF TypeOK, BranchTypes
<1>10. CallTypes
  BY <1>8, NewCalls DEF CallTypes
<1>11. ListsKnown
  BY <1>4, <1>7, <1>8 DEF ListsKnown
<1> QED
  BY <1>2, <1>9, <1>10, <1>11 DEF TInv

LEMMA NextTypes ==
  ASSUME TInv, [Next]_vars
  PROVE  TInv'
<1>1. CASE UNCHANGED vars
  <2>1. UNCHANGED <<branch, saved, enabled, page, call, inTurn>>
    BY <1>1 DEF vars
  <2>2. CodesDiffer' /\ Existing' = Existing
    BY <2>1, SameBranches
  <2>3. CallTypes'
    BY <2>1, <2>2 DEF TInv, CallTypes
  <2> QED
    BY <2>1, <2>2, <2>3 DEF TInv, TypeOK, ListsKnown
<1>2. ASSUME NEW p \in Pages, Clicks(p) \/ Handles(p) \/ Arrives(p) PROVE TInv'
  BY <1>2, ClicksTypes, SwitchTypes, HandlesTypes, ArrivesTypes
<1> QED
  BY <1>1, <1>2 DEF Next

LEMMA AlwaysTInv == Spec => []TInv
<1>1. Init => TInv
  BY InitTypes
<1>2. TInv /\ [Next]_vars => TInv'
  BY NextTypes
<1> QED
  BY <1>1, <1>2, PTL DEF Spec

(* A page holds what its queries return, a call what its mutation sends and
   its handler answers, and every branch that a page or a request names has a
   row; no two rows have one code.                                         *)
THEOREM TypeCorrect == Spec => []TypeOK
<1>1. TInv => TypeOK
  BY DEF TInv
<1> QED
  BY <1>1, AlwaysTInv, PTL

-------------------------------------------------------------------------------
(* The caches of the only page.  A write that no refresh has followed yet is
   known by its call, which stays until the answer is applied.             *)
ConfigurationWritten(p) ==
  \E s \in {"save", "reset"} : call[p][s].step \in {"written", "answered"}

BranchWritten(p) == \E s \in {"toggle", "edit"} : call[p][s].step = "answered"

\* What a query has or will have for the page is what the database holds now.
Follows(fetch, held, now) ==
  /\ fetch.step = "none" => held = now
  /\ fetch.step = "answered" => fetch.got = now

Tracks(p) ==
  /\ page[p].catalog /\ call[p]["company"].step = "none"
  /\ \A q \in Queries : call[p][q].step \in {"none", "sent", "answered"}
  /\ \/ ConfigurationWritten(p) \/ BranchWritten(p)
     \/ Follows(call[p]["routine507"], page[p].view, View)
  /\ \/ BranchWritten(p)
     \/ Follows(call[p]["branches"], page[p].list, LoadBranches)

CacheInv ==
  /\ lost \in Nat /\ toggles \in Nat
  /\ lost = 0 /\ toggles = 0 => enabled /\ \A p \in Pages : Tracks(p)

LEMMA SameReads ==
  /\ UNCHANGED branch => LoadBranches' = LoadBranches
  /\ UNCHANGED <<branch, saved>> => View' = View /\ Effective' = Effective
<1>1. UNCHANGED branch => LoadBranches' = LoadBranches
  <2> DEFINE rows == {Row(b) : b \in Existing}
             ByCode(S) == Ordered(S, LAMBDA left, right : left.code < right.code)
  <2>1. LoadBranches = ByCode(rows)
    BY Zenon DEF LoadBranches, Row, Existing
  <2>2. LoadBranches' = ByCode(rows')
    BY Zenon DEF LoadBranches, Row, Existing, Ordered
  <2>3. UNCHANGED branch => rows' = rows
    BY DEF Row, Existing
  <2> HIDE DEF rows, ByCode
  <2> QED
    BY <2>1, <2>2, <2>3
<1>2. UNCHANGED saved => Effective' = Effective
  BY DEF Effective
<1>3. UNCHANGED saved => (saved' = Null <=> saved = Null)
  OBVIOUS
<1> QED
  BY <1>1, <1>2, <1>3 DEF View

(* What one step does to the calls of a page.                              *)
LEMMA Continued ==
  ASSUME CallTypes, NEW p \in Pages, NEW s \in Slots, NEW step, NEW got, Continue(p, s, step, got)
  PROVE  /\ call'[p][s].step = step /\ call'[p][s].got = got
         /\ call'[p][s].input = call[p][s].input
         /\ \A t \in Slots \ {s} : call'[p][t] = call[p][t]
         /\ \A q \in Pages \ {p} : call'[q] = call[q]
<1>1. IsCall(call[p][s]) /\ p \in DOMAIN call /\ s \in DOMAIN call[p] /\ DOMAIN call[p] = Slots
      /\ DOMAIN call = Pages
  BY CallFacts DEF CallOK
<1>2. call' = [call EXCEPT ![p][s] = [call[p][s] EXCEPT !.step = step, !.got = got]]
  BY DEF Continue
<1> QED
  BY <1>1, <1>2 DEF IsCall

LEMMA OneCallMoves ==
  ASSUME CallTypes, NEW p \in Pages, NEW s \in Slots, NEW c, call' = [call EXCEPT ![p][s] = c]
  PROVE  call'[p][s] = c /\ (\A t \in Slots \ {s} : call'[p][t] = call[p][t])
         /\ \A q \in Pages \ {p} : call'[q] = call[q]
BY CallFacts

LEMMA MutationMoves ==
  ASSUME NEW p \in Pages, Tracks(p), NEW s \in Slots \ Queries,
         \A t \in Slots \ {s} : call'[p][t] = call[p][t],
         s = "company" => call'[p][s].step = "none",
         s \in {"save", "reset"} /\ call[p][s].step \in {"written", "answered"}
           => call'[p][s].step \in {"written", "answered"},
         s \in {"toggle", "edit"} /\ call[p][s].step = "answered" => call'[p][s].step = "answered",
         page'[p].view = page[p].view, page'[p].list = page[p].list,
         page'[p].catalog = page[p].catalog,
         View' = View \/ ConfigurationWritten(p)' \/ BranchWritten(p)',
         LoadBranches' = LoadBranches \/ BranchWritten(p)'
  PROVE  Tracks(p)'
<1>0. \A t \in Queries : t \in Slots /\ t # s
  BY DEF Slots
<1>1. ConfigurationWritten(p) => ConfigurationWritten(p)'
  BY DEF ConfigurationWritten, Slots, Queries
<1>2. BranchWritten(p) => BranchWritten(p)'
  BY DEF BranchWritten, Slots, Queries
<1>3. \A q \in Queries : call'[p][q] = call[p][q]
  BY <1>0
<1>4. call'[p]["company"].step = "none"
  BY DEF Tracks, Slots
<1>5. "routine507" \in Queries /\ "branches" \in Queries
  BY DEF Queries
<1>6. View' = View => (Follows(call[p]["routine507"], page[p].view, View)
        => Follows(call'[p]["routine507"], page'[p].view, View'))
  BY <1>3, <1>5
<1>7. LoadBranches' = LoadBranches => (Follows(call[p]["branches"], page[p].list, LoadBranches)
        => Follows(call'[p]["branches"], page'[p].list, LoadBranches'))
  BY <1>3, <1>5
<1> QED
  BY <1>1, <1>2, <1>3, <1>4, <1>5, <1>6, <1>7 DEF Tracks

(* What a click leaves of the calls, and of what the queries brought.      *)
ClickMoves(p, s) ==
  /\ \A t \in Slots \ {s} : call'[p][t] = call[p][t]
  /\ \A q \in Pages \ {p} : call'[q] = call[q]
  /\ \/ s = "preview" /\ call'[p][s] = NoCall
     \/ call[p][s] = NoCall /\ call'[p][s].step = "sent"
  /\ s = "company" => toggles' = toggles + 1
  /\ page'[p].view = page[p].view /\ page'[p].list = page[p].list
  /\ page'[p].catalog = page[p].catalog
  /\ UNCHANGED <<branch, saved, enabled, inTurn, lost>>

LEMMA SendMoves ==
  ASSUME TInv, NEW p \in Pages, NEW s \in Slots, NEW input, Send(p, s, input),
         s = "company" => toggles' = toggles + 1,
         NEW pg, pg.view = page[p].view, pg.list = page[p].list, pg.catalog = page[p].catalog,
         page' = [page EXCEPT ![p] = pg]
  PROVE  ClickMoves(p, s)
<1>1. /\ call' = [call EXCEPT ![p][s] = Sent(input)] /\ call[p][s] = NoCall
      /\ UNCHANGED <<branch, saved, enabled, inTurn, lost>>
  BY DEF Send, database
<1>2. page'[p] = pg
  BY DEF TInv, TypeOK
<1>3. Sent(input).step = "sent"
  BY DEF Sent
<1>4. /\ call'[p][s] = Sent(input) /\ \A t \in Slots \ {s} : call'[p][t] = call[p][t]
      /\ \A q \in Pages \ {p} : call'[q] = call[q]
  BY <1>1, PageFacts, OneCallMoves
<1> QED
  BY <1>1, <1>2, <1>3, <1>4 DEF ClickMoves

LEMMA EditMoves ==
  ASSUME TInv, NEW p \in Pages, NEW draft, Edit(p, draft)
  PROVE  ClickMoves(p, "preview")
<1>1. /\ page' = [page EXCEPT ![p].draft = draft, ![p].previewData = Null]
      /\ call' = [call EXCEPT ![p]["preview"] = NoCall]
      /\ UNCHANGED <<branch, saved, enabled, inTurn, lost>>
  BY DEF Edit, database
<1>2. page'[p].view = page[p].view /\ page'[p].list = page[p].list
      /\ page'[p].catalog = page[p].catalog
  BY <1>1 DEF TInv, TypeOK, PageStates
<1>3. /\ call'[p]["preview"] = NoCall
      /\ \A t \in Slots \ {"preview"} : call'[p][t] = call[p][t]
      /\ \A q \in Pages \ {p} : call'[q] = call[q]
  <2>1. "preview" \in Slots /\ CallTypes
    BY PageFacts DEF Slots
  <2> QED
    BY <1>1, <2>1, CallFacts
<1> QED
  BY <1>1, <1>2, <1>3 DEF ClickMoves

LEMMA ClicksMove ==
  ASSUME TInv, NEW p \in Pages, Clicks(p), ~ SwitchEnvironment(p)
  PROVE  \E s \in Slots \ Queries : ClickMoves(p, s)
<1>0. {"save", "preview", "reset", "toggle", "edit", "company"} \subseteq Slots \ Queries
  BY DEF Slots, Queries
<1>1. UNCHANGED page => page' = [page EXCEPT ![p] = page[p]]
  BY DEF TInv, TypeOK
<1>2. ASSUME NEW draft, Edit(p, draft) PROVE \E s \in Slots \ Queries : ClickMoves(p, s)
  BY <1>0, <1>2, EditMoves
<1>3. ASSUME UNCHANGED page, NEW s \in Slots \ Queries, NEW input, Send(p, s, input),
             s = "company" => toggles' = toggles + 1
      PROVE  \E t \in Slots \ Queries : ClickMoves(p, t)
  BY <1>1, <1>3, SendMoves
<1>4. CASE ClickPreview(p)
  <2> DEFINE pg == [page[p] EXCEPT !.previewData = Null]
  <2>1. page' = [page EXCEPT ![p] = pg] /\ Send(p, "preview", Draft(p))
    BY <1>4 DEF ClickPreview
  <2>2. pg.view = page[p].view /\ pg.list = page[p].list /\ pg.catalog = page[p].catalog
    BY PageFacts DEF PageStates
  <2> HIDE DEF pg
  <2> QED
    BY <1>0, <2>1, <2>2, SendMoves
<1>5. CASE ClickSave(p)
  <2> DEFINE pg == [page[p] EXCEPT !.saveData = Null]
  <2>1. page' = [page EXCEPT ![p] = pg] /\ Send(p, "save", Draft(p))
    BY <1>5 DEF ClickSave
  <2>2. pg.view = page[p].view /\ pg.list = page[p].list /\ pg.catalog = page[p].catalog
    BY PageFacts DEF PageStates
  <2> HIDE DEF pg
  <2> QED
    BY <1>0, <2>1, <2>2, SendMoves
<1>6. CASE ClickReset(p)
  BY <1>0, <1>3, <1>6 DEF ClickReset
<1>7. CASE ClickToggle(p)
  BY <1>0, <1>3, <1>7 DEF ClickToggle
<1>8. CASE SubmitBranch(p)
  BY <1>0, <1>3, <1>8 DEF SubmitBranch
<1>9. CASE ClickCompany(p)
  BY <1>0, <1>3, <1>9 DEF ClickCompany
<1>10. CASE \E b \in Branches : ToggleBranch(p, b)
  BY <1>2, <1>10, Zenon DEF ToggleBranch
<1>11. CASE \E m \in Months : ToggleMonth(p, m)
  BY <1>2, <1>11, Zenon DEF ToggleMonth
<1>12. CASE \E mode \in Modes : ChooseMode(p, mode)
  BY <1>2, <1>12, Zenon DEF ChooseMode
<1>13. CASE ToggleDaily(p) \/ ToggleSalePrice(p)
  BY <1>2, <1>13, Zenon DEF ToggleDaily, ToggleSalePrice
<1> QED
  BY <1>4, <1>5, <1>6, <1>7, <1>8, <1>9, <1>10, <1>11, <1>12, <1>13 DEF Clicks

LEMMA ClicksTrack ==
  ASSUME TInv, NEW p \in Pages, Tracks(p), NEW s \in Slots \ Queries, ClickMoves(p, s),
         s # "company"
  PROVE  Tracks(p)'
<1>1. /\ \A t \in Slots \ {s} : call'[p][t] = call[p][t]
      /\ page'[p].view = page[p].view /\ page'[p].list = page[p].list
      /\ page'[p].catalog = page[p].catalog
      /\ UNCHANGED <<branch, saved>>
  BY DEF ClickMoves
<1>2. s = "preview" \/ call[p][s].step = "none"
  BY DEF ClickMoves, NoCall
<1> QED
  BY <1>1, <1>2, SameReads, MutationMoves

LEMMA HandlerTracks ==
  ASSUME TInv, UNCHANGED page, NEW p \in Pages, Tracks(p), NEW s \in Slots \ (Queries \cup {"company"}),
         NEW step, NEW got, Continue(p, s, step, got),
         s \in {"save", "reset"} /\ call[p][s].step \in {"written", "answered"}
           => step \in {"written", "answered"},
         s \in {"toggle", "edit"} /\ call[p][s].step = "answered" => step = "answered",
         \/ UNCHANGED <<branch, saved>>
         \/ s \in {"save", "reset"} /\ step \in {"written", "answered"} /\ UNCHANGED branch
         \/ s \in {"toggle", "edit"} /\ step = "answered"
  PROVE  Tracks(p)'
<1>1. call'[p][s].step = step /\ \A t \in Slots \ {s} : call'[p][t] = call[p][t]
  BY PageFacts, Continued
<1>2. View' = View \/ ConfigurationWritten(p)' \/ BranchWritten(p)'
  BY <1>1, SameReads DEF ConfigurationWritten, BranchWritten
<1>3. LoadBranches' = LoadBranches \/ BranchWritten(p)'
  BY <1>1, SameReads DEF BranchWritten
<1> QED
  BY <1>1, <1>2, <1>3, MutationMoves

LEMMA FetchTracks ==
  ASSUME TInv, UNCHANGED <<page, branch, saved>>, NEW p \in Pages, Tracks(p), NEW q \in Queries,
         Continue(p, q, "answered", IF q = "routine507" THEN View ELSE LoadBranches)
  PROVE  Tracks(p)'
<1>1. q \in Slots /\ {"save", "reset", "toggle", "edit", "company"} \subseteq Slots \ Queries
  BY DEF Slots, Queries
<1>2. call'[p][q].step = "answered"
      /\ call'[p][q].got = (IF q = "routine507" THEN View ELSE LoadBranches)
      /\ \A t \in Slots \ {q} : call'[p][t] = call[p][t]
  BY <1>1, PageFacts, Continued
<1>3. \A t \in {"save", "reset", "toggle", "edit", "company"} : call'[p][t] = call[p][t]
  BY <1>1, <1>2
<1>4. View' = View /\ LoadBranches' = LoadBranches
  BY SameReads
<1>5. /\ ConfigurationWritten(p) => ConfigurationWritten(p)'
      /\ BranchWritten(p) => BranchWritten(p)'
  BY <1>3 DEF ConfigurationWritten, BranchWritten
<1>6. \A t \in Queries : t # q => call'[p][t] = call[p][t]
  BY <1>2 DEF Slots
<1>7. Follows(call[p]["routine507"], page[p].view, View) \/ q = "routine507"
        => Follows(call[p]["routine507"], page[p].view, View)'
  BY <1>2, <1>4, <1>6 DEF Follows, Queries
<1>8. Follows(call[p]["branches"], page[p].list, LoadBranches) \/ q = "branches"
        => Follows(call[p]["branches"], page[p].list, LoadBranches)'
  BY <1>2, <1>4, <1>6 DEF Follows, Queries
<1>9. /\ page'[p].catalog /\ call'[p]["company"].step = "none"
      /\ \A t \in Queries : call'[p][t].step \in {"none", "sent", "answered"}
  BY <1>2, <1>3, <1>6 DEF Tracks
<1> QED
  BY <1>5, <1>7, <1>8, <1>9 DEF Tracks

LEMMA HandlesTrack ==
  ASSUME TInv, NEW p \in Pages, Tracks(p), enabled, Handles(p)
  PROVE  Tracks(p)' /\ enabled'
<1>0. /\ {"save", "preview", "reset", "toggle", "edit"} \subseteq Slots \ (Queries \cup {"company"})
      /\ call[p]["company"].step = "none"
  BY DEF Slots, Queries, Tracks
<1>1. CASE SaveValidates(p)
  <2>1. \E step \in {"validated", "error"} : \E got : Continue(p, "save", step, got)
    BY <1>1, Zenon DEF SaveValidates, Refuse
  <2>2. call[p]["save"].step = "sent" /\ UNCHANGED <<branch, saved, enabled, page>>
    BY <1>1, Zenon DEF SaveValidates, Begin, database
  <2> QED
    BY <1>0, <2>1, <2>2, HandlerTracks
<1>2. CASE SaveUpserts(p)
  BY <1>0, <1>2, HandlerTracks DEF SaveUpserts
<1>3. CASE PreviewAnswers(p)
  <2>1. \E step, got : Continue(p, "preview", step, got)
    BY <1>3, Zenon DEF PreviewAnswers, Refuse
  <2>2. UNCHANGED <<branch, saved, enabled, page>>
    BY <1>3, Zenon DEF PreviewAnswers, database
  <2> QED
    BY <1>0, <2>1, <2>2, HandlerTracks
<1>4. CASE ResetDeletes(p)
  BY <1>0, <1>4, HandlerTracks DEF ResetDeletes, Begin
<1>5. ASSUME NEW s \in Slots, ViewAnswers(p, s) PROVE Tracks(p)' /\ enabled'
  BY <1>0, <1>5, HandlerTracks DEF ViewAnswers, database
<1>6. CASE QueryAnswers(p)
  BY <1>6, FetchTracks DEF QueryAnswers, database, Queries
<1>7. CASE ListAnswers(p)
  BY <1>7, FetchTracks DEF ListAnswers, database, Queries
<1>8. CASE UpdateReads(p)
  <2>1. \E step \in {"in_use?", "checked"} : Continue(p, "toggle", step, Null)
    BY <1>8, Zenon DEF UpdateReads
  <2>2. call[p]["toggle"].step = "sent" /\ UNCHANGED <<branch, saved, enabled, page>>
    BY <1>8, Zenon DEF UpdateReads, Begin, database
  <2> QED
    BY <1>0, <2>1, <2>2, HandlerTracks
<1>9. CASE UpdateChecksUse(p)
  <2>1. \E step \in {"error", "checked"} : \E got : Continue(p, "toggle", step, got)
    BY <1>9, Zenon DEF UpdateChecksUse, Refuse
  <2>2. call[p]["toggle"].step = "in_use?" /\ UNCHANGED <<branch, saved, enabled, page>>
    BY <1>9, Zenon DEF UpdateChecksUse, Within, database
  <2> QED
    BY <1>0, <2>1, <2>2, HandlerTracks
<1>10. CASE UpdateWrites(p)
  BY <1>0, <1>10, HandlerTracks DEF UpdateWrites
<1>11. CASE WriteBranch(p)
  <2>1. \/ UNCHANGED branch /\ \E got : Continue(p, "edit", "error", got)
        \/ Continue(p, "edit", "answered", Null)
    BY <1>11, Zenon DEF WriteBranch, Refuse
  <2>2. call[p]["edit"].step = "sent" /\ UNCHANGED <<saved, enabled, page>>
    BY <1>11, Zenon DEF WriteBranch, Begin
  <2> QED
    BY <1>0, <2>1, <2>2, HandlerTracks
<1>12. ~ UpdateCompany(p)
  BY <1>0 DEF UpdateCompany, Begin
<1> QED
  BY <1>1, <1>2, <1>3, <1>4, <1>5, <1>6, <1>7, <1>8, <1>9, <1>10, <1>11, <1>12 DEF Handles

(* An answer of a mutation that refreshes what it wrote, on a page that shows
   the panels.                                                             *)
LEMMA RefreshTracks ==
  ASSUME TInv, UNCHANGED <<branch, saved>>, NEW p \in Pages, Tracks(p),
         NEW pg, page' = [page EXCEPT ![p] = pg],
         pg.view = page[p].view, pg.list = page[p].list, pg.catalog = page[p].catalog,
         NEW queries \in SUBSET Queries, "routine507" \in queries,
         \A q \in queries : call'[p][q] = Sent(Null),
         \A s \in Slots \ queries : call'[p][s] = call[p][s] \/ call'[p][s] = NoCall,
         \A s \in {"toggle", "edit"} : call[p][s].step = "answered" =>
              call'[p][s] = call[p][s] \/ "branches" \in queries,
         call'[p]["branches"] = call[p]["branches"] \/ "branches" \in queries
  PROVE  Tracks(p)'
<1>1. page'[p] = pg
  BY DEF TInv, TypeOK
<1>2. \A s \in Slots \ queries : call'[p][s].step \in {call[p][s].step, "none"}
  BY DEF NoCall
<1>3. \A q \in queries : call'[p][q].step = "sent"
  BY DEF Sent
<1>4. call'[p]["company"].step = "none" /\ page'[p].catalog
  BY <1>1, <1>2 DEF Tracks, Slots, Queries
<1>5. \A q \in Queries : call'[p][q].step \in {"none", "sent", "answered"}
  BY <1>2, <1>3 DEF Tracks, Slots
<1>6. Follows(call[p]["routine507"], page[p].view, View)'
  BY <1>3 DEF Follows
<1>7. BranchWritten(p)' \/ Follows(call[p]["branches"], page[p].list, LoadBranches)'
  <2>1. CASE "branches" \in queries
    BY <1>3, <2>1 DEF Follows
  <2>2. CASE "branches" \notin queries
    <3>1. BranchWritten(p) => BranchWritten(p)'
      BY <2>2 DEF BranchWritten
    <3>2. LoadBranches' = LoadBranches
      BY SameReads
    <3> QED
      BY <1>1, <2>2, <3>1, <3>2 DEF Tracks, Follows
  <2> QED
    BY <2>1, <2>2
<1> QED
  BY <1>4, <1>5, <1>6, <1>7 DEF Tracks

LEMMA InvalidateMoves ==
  ASSUME TInv, NEW p \in Pages, NEW pg, pg.catalog, NEW s \in Slots \ Queries,
         NEW queries \in SUBSET Queries, Invalidate(p, pg, s, queries)
  PROVE  /\ page' = [page EXCEPT ![p] = pg]
         /\ \A q \in queries : call'[p][q] = Sent(Null)
         /\ call'[p][s] = NoCall
         /\ \A t \in Slots \ (queries \cup {s}) : call'[p][t] = call[p][t]
         /\ \A q \in Pages \ {p} : call'[q] = call[q]
BY PageFacts, CallFacts DEF Invalidate, Slots

LEMMA ArrivesTrack ==
  ASSUME TInv, NEW p \in Pages, Tracks(p), Arrives(p), ~ \E s \in Slots : AnswerLost(p, s)
  PROVE  Tracks(p)' /\ enabled' = enabled
<1>0. /\ page[p] \in PageStates /\ CallTypes /\ page[p].catalog
      /\ call[p]["company"].step = "none"
      /\ \A q \in Queries : call[p][q].step \in {"none", "sent", "answered"}
  BY PageFacts DEF Tracks
<1>1. /\ {"save", "preview", "reset", "toggle", "edit"} \subseteq Slots \ (Queries \cup {"company"})
      /\ {"routine507"} \subseteq Queries /\ Queries \subseteq Slots
      /\ "routine507" \in Queries /\ "branches" \in Queries
  BY DEF Slots, Queries
<1>2. \A pg : page' = [page EXCEPT ![p] = pg] => page'[p] = pg
  BY DEF TInv, TypeOK
<1>3. CASE SaveOnSuccess(p)
  <2> DEFINE got == call[p]["save"].got
             pg == IF call[p]["save"].attached
                   THEN [page[p] EXCEPT !.draft = got.configuration, !.saveData = got]
                   ELSE page[p]
  <2>1. Invalidate(p, pg, "save", {"routine507"}) /\ UNCHANGED <<branch, saved, enabled>>
    BY <1>3, Zenon DEF SaveOnSuccess, database
  <2>2. pg.view = page[p].view /\ pg.list = page[p].list /\ pg.catalog = page[p].catalog
    <3> HIDE DEF got
    <3> QED
      BY <1>0 DEF PageStates
  <2> HIDE DEF pg
  <2>3. /\ page' = [page EXCEPT ![p] = pg]
        /\ \A q \in {"routine507"} : call'[p][q] = Sent(Null)
        /\ call'[p]["save"] = NoCall
        /\ \A t \in Slots \ ({"routine507"} \cup {"save"}) : call'[p][t] = call[p][t]
    <3>1. {"routine507"} \in SUBSET Queries /\ "save" \in Slots \ Queries /\ pg.catalog
      BY <1>0, <1>1, <2>2
    <3> QED
      BY <2>1, <3>1, InvalidateMoves
  <2>4. \A s \in {"toggle", "edit", "branches"} : call'[p][s] = call[p][s]
    BY <2>3 DEF Slots, Queries
  <2>5. {"routine507"} \in SUBSET Queries
        /\ \A s \in Slots \ {"routine507"} : call'[p][s] = call[p][s] \/ call'[p][s] = NoCall
    BY <1>1, <2>3
  <2> QED
    BY <2>1, <2>2, <2>3, <2>4, <2>5, RefreshTracks
<1>4. CASE PreviewOnSuccess(p)
  <2> DEFINE pg == [page[p] EXCEPT !.previewData = call[p]["preview"].got]
  <2>1. page' = [page EXCEPT ![p] = pg] /\ call' = [call EXCEPT ![p]["preview"] = NoCall]
        /\ UNCHANGED <<branch, saved, enabled>>
    BY <1>4 DEF PreviewOnSuccess, database
  <2>2. pg.view = page[p].view /\ pg.list = page[p].list /\ pg.catalog = page[p].catalog
    BY <1>0 DEF PageStates
  <2> HIDE DEF pg
  <2>3. \A t \in Slots \ {"preview"} : call'[p][t] = call[p][t]
    BY <1>0, <1>1, <2>1, CallFacts
  <2> QED
    BY <1>1, <1>2, <2>1, <2>2, <2>3, SameReads, MutationMoves
<1>5. CASE ResetOnSuccess(p)
  <2> DEFINE got == call[p]["reset"].got
             attached == call[p]["reset"].attached
             pg == IF attached
                   THEN [page[p] EXCEPT !.draft = got.configuration, !.previewData = Null]
                   ELSE page[p]
  <2>1. pg.view = page[p].view /\ pg.list = page[p].list /\ pg.catalog = page[p].catalog
    <3> HIDE DEF got
    <3> QED
      BY <1>0 DEF PageStates
  <2>2. page' = [page EXCEPT ![p] = IF pg.catalog THEN pg
                                    ELSE [pg EXCEPT !.stale = @ \cup {"routine507"}]]
        /\ UNCHANGED <<branch, saved, enabled>>
    BY <1>5, Zenon DEF ResetOnSuccess, database
  <2>3. call' = [call EXCEPT ![p]["reset"] = NoCall,
                             ![p]["preview"] = IF attached THEN NoCall ELSE call[p]["preview"],
                             ![p]["routine507"] = IF pg.catalog THEN Sent(Null)
                                                  ELSE call[p]["routine507"]]
    BY <1>0, <1>1, <1>5, CallFacts DEF ResetOnSuccess
  <2> HIDE DEF pg, attached
  <2>4. page' = [page EXCEPT ![p] = pg]
    BY <1>0, <2>1, <2>2
  <2>5. /\ \A q \in {"routine507"} : call'[p][q] = Sent(Null)
        /\ \A s \in Slots \ {"routine507"} : call'[p][s] = call[p][s] \/ call'[p][s] = NoCall
        /\ \A s \in {"toggle", "edit", "branches"} : call'[p][s] = call[p][s]
    BY <1>0, <1>1, <2>1, <2>3, CallFacts
  <2>6. {"routine507"} \in SUBSET Queries
    BY <1>1
  <2> QED
    BY <2>1, <2>2, <2>4, <2>5, <2>6, RefreshTracks
<1>6. ASSUME NEW s \in Slots, BranchOnSuccess(p, s) PROVE Tracks(p)' /\ enabled' = enabled
  <2>1. Invalidate(p, page[p], s, Queries) /\ UNCHANGED <<branch, saved, enabled>>
        /\ s \in Slots \ Queries
    BY <1>1, <1>6 DEF BranchOnSuccess, database
  <2>2. /\ page' = [page EXCEPT ![p] = page[p]]
        /\ \A q \in Queries : call'[p][q] = Sent(Null)
        /\ call'[p][s] = NoCall
        /\ \A t \in Slots \ (Queries \cup {s}) : call'[p][t] = call[p][t]
    BY <1>0, <2>1, InvalidateMoves
  <2> QED
    BY <1>1, <2>1, <2>2, RefreshTracks
<1>7. ASSUME NEW q \in Queries, QueryOnSuccess(p, q) PROVE Tracks(p)' /\ enabled' = enabled
  <2> DEFINE got == call[p][q].got
             fresh == [page[p] EXCEPT !.stale = @ \ {q}, !.failed = @ \ {q}]
             pg == IF q = "routine507" THEN [fresh EXCEPT !.view = got]
                   ELSE [fresh EXCEPT !.list = got]
  <2>1. /\ page' = [page EXCEPT ![p] = pg] /\ call' = [call EXCEPT ![p][q] = NoCall]
        /\ UNCHANGED <<branch, saved, enabled>> /\ call[p][q].step = "answered"
    BY <1>7, Zenon DEF QueryOnSuccess, database, Answered, Within
  <2>2. fresh \in PageStates /\ fresh.view = page[p].view /\ fresh.list = page[p].list
        /\ fresh.catalog = page[p].catalog
    BY <1>0 DEF PageStates
  <2>3. /\ pg.view = (IF q = "routine507" THEN got ELSE page[p].view)
        /\ pg.list = (IF q = "branches" THEN got ELSE page[p].list)
        /\ pg.catalog
    <3> HIDE DEF got, fresh
    <3> QED
      BY <1>0, <2>2 DEF PageStates, Queries
  <2> HIDE DEF pg
  <2>4. page'[p] = pg
    BY <1>2, <2>1
  <2>5. call'[p][q] = NoCall /\ \A s \in Slots \ {q} : call'[p][s] = call[p][s]
    BY <1>0, <1>1, <2>1, CallFacts
  <2>6. call'[p][q].step = "none"
    BY <2>5 DEF NoCall
  <2>7. \A s \in {"save", "reset", "toggle", "edit", "company"} : call'[p][s] = call[p][s]
    BY <2>5 DEF Slots, Queries
  <2>8. /\ ConfigurationWritten(p) => ConfigurationWritten(p)'
        /\ BranchWritten(p) => BranchWritten(p)'
    BY <2>7 DEF ConfigurationWritten, BranchWritten
  <2>9. View' = View /\ LoadBranches' = LoadBranches
    BY <2>1, SameReads
  <2>10. \A t \in Queries : t # q => call'[p][t] = call[p][t]
    BY <1>1, <2>5
  <2> HIDE DEF got
  <2>11. Follows(call[p]["routine507"], page[p].view, View)
           => Follows(call[p]["routine507"], page[p].view, View)'
    BY <1>1, <2>1, <2>3, <2>4, <2>6, <2>9, <2>10 DEF Follows, got
  <2>12. Follows(call[p]["branches"], page[p].list, LoadBranches)
           => Follows(call[p]["branches"], page[p].list, LoadBranches)'
    BY <1>1, <2>1, <2>3, <2>4, <2>6, <2>9, <2>10 DEF Follows, got
  <2>13. /\ page'[p].catalog /\ call'[p]["company"].step = "none"
         /\ \A t \in Queries : call'[p][t].step \in {"none", "sent", "answered"}
    BY <1>0, <2>3, <2>4, <2>6, <2>7, <2>10
  <2> QED
    BY <2>1, <2>8, <2>11, <2>12, <2>13 DEF Tracks
<1>8. ~ CompanyOnSuccess(p)
  BY <1>0 DEF CompanyOnSuccess, Answered, Within
<1>9. ASSUME NEW s \in Slots, ErrorAnswer(p, s) PROVE Tracks(p)' /\ enabled' = enabled
  <2>1. s \notin Queries /\ call[p][s].step = "error"
    BY <1>0, <1>9 DEF ErrorAnswer, Within
  <2>2. /\ call' = [call EXCEPT ![p][s] = NoCall] /\ page' = [page EXCEPT ![p] = page[p]]
        /\ UNCHANGED <<branch, saved, enabled>>
    BY <1>9, <2>1 DEF ErrorAnswer, OnError, database
  <2>3. call'[p][s] = NoCall /\ \A t \in Slots \ {s} : call'[p][t] = call[p][t]
    BY <1>0, <2>2, CallFacts
  <2> QED
    BY <1>2, <2>1, <2>2, <2>3, SameReads, MutationMoves DEF NoCall
<1> QED
  BY <1>3, <1>4, <1>5, <1>6, <1>7, <1>8, <1>9 DEF Arrives

LEMMA Counting ==
  ASSUME NEW p \in Pages, Clicks(p) \/ Handles(p) \/ Arrives(p)
  PROVE  /\ lost' = lost \/ (lost' = lost + 1 /\ \E s \in Slots : AnswerLost(p, s))
         /\ \/ UNCHANGED toggles
            \/ toggles' = toggles + 1 /\ (ClickCompany(p) \/ SwitchEnvironment(p))
<1>1. CASE Clicks(p)
  BY <1>1, Zenon DEF Clicks, ToggleBranch, ToggleMonth, ChooseMode, ToggleDaily, ToggleSalePrice,
        Edit, Send, ClickPreview, ClickSave, ClickReset, ClickToggle, SubmitBranch,
        ClickCompany, SwitchEnvironment
<1>2. CASE Handles(p)
  BY <1>2, Zenon DEF Handles, SaveValidates, SaveUpserts, PreviewAnswers, ResetDeletes,
        ViewAnswers, QueryAnswers, ListAnswers, UpdateReads, UpdateChecksUse, UpdateWrites,
        WriteBranch, UpdateCompany, counters
<1>3. CASE Arrives(p)
  BY <1>3, Zenon DEF Arrives, SaveOnSuccess, PreviewOnSuccess, ResetOnSuccess, BranchOnSuccess,
        QueryOnSuccess, CompanyOnSuccess, ErrorAnswer, AnswerLost, counters
<1> QED
  BY <1>1, <1>2, <1>3

LEMMA InitTracks ==
  ASSUME Init
  PROVE  CacheInv
<1>1. \A p \in Pages, s \in Slots : call[p][s].step = "none"
  BY DEF Init, NoCall
<1>2. \A p \in Pages : /\ page[p].catalog /\ page[p].view = View /\ page[p].list = LoadBranches
  BY DEF Init, NewPage
<1>3. \A p \in Pages : Tracks(p)
  BY <1>1, <1>2 DEF Tracks, Follows, Slots, Queries
<1> QED
  BY <1>3 DEF Init, CacheInv

LEMMA CacheSteps ==
  ASSUME NEW ThePage, Pages = {ThePage}, TInv, CacheInv, [Next]_vars
  PROVE  CacheInv'
<1>0. lost \in Nat /\ toggles \in Nat
      /\ (lost = 0 /\ toggles = 0 => enabled /\ \A p \in Pages : Tracks(p))
  BY DEF CacheInv
<1>1. CASE UNCHANGED vars
  <2>1. UNCHANGED <<page, call, branch, saved, enabled, lost, toggles>>
    BY <1>1 DEF vars
  <2>2. View' = View /\ LoadBranches' = LoadBranches
    BY <2>1, SameReads
  <2>3. \A p \in Pages : Tracks(p) => Tracks(p)'
    BY <2>1, <2>2 DEF Tracks, ConfigurationWritten, BranchWritten, Follows
  <2> QED
    BY <1>0, <2>1, <2>3 DEF CacheInv
<1>2. ASSUME NEW p \in Pages, Clicks(p) \/ Handles(p) \/ Arrives(p) PROVE CacheInv'
  <2>1. /\ lost' = lost \/ (lost' = lost + 1 /\ \E s \in Slots : AnswerLost(p, s))
        /\ \/ UNCHANGED toggles
           \/ toggles' = toggles + 1 /\ (ClickCompany(p) \/ SwitchEnvironment(p))
    BY <1>2, Counting
  <2>2. lost' \in Nat /\ toggles' \in Nat
    BY <1>0, <2>1
  <2>3. SUFFICES ASSUME lost' = 0, toggles' = 0 PROVE enabled' /\ Tracks(p)'
    BY <1>2, <2>2 DEF CacheInv
  <2>4. lost = 0 /\ toggles = 0 /\ enabled /\ Tracks(p)
    BY <1>0, <2>1, <2>3
  <2>5. CASE Clicks(p)
    <3>1. ~ SwitchEnvironment(p)
      BY <2>3, <2>4 DEF SwitchEnvironment
    <3>2. PICK s \in Slots \ Queries : ClickMoves(p, s)
      BY <2>5, <3>1, ClicksMove
    <3>3. s # "company" /\ UNCHANGED enabled
      BY <2>3, <2>4, <3>2 DEF ClickMoves
    <3> QED
      BY <2>4, <3>2, <3>3, ClicksTrack
  <2>6. CASE Handles(p)
    BY <2>4, <2>6, HandlesTrack
  <2>7. CASE Arrives(p)
    <3>1. ~ \E s \in Slots : AnswerLost(p, s)
      BY <2>3, <2>4 DEF AnswerLost
    <3> QED
      BY <2>4, <2>7, <3>1, ArrivesTrack
  <2> QED
    BY <1>2, <2>5, <2>6, <2>7
<1> QED
  BY <1>1, <1>2 DEF Next

(* With one page, no lost answer and the panels on it all along: when its
   calls are over, the configuration and the branches it shows are those of
   the database, whatever the order in which its mutations and its queries
   were handled and their answers applied.                                 *)
THEOREM SettledPagesAreCurrent ==
  ASSUME NEW ThePage, Pages = {ThePage}
  PROVE  Spec => []SettledPageIsCurrent
<1>1. Init => CacheInv
  BY InitTracks
<1>2. TInv /\ CacheInv /\ [Next]_vars => CacheInv'
  BY CacheSteps
<1>3. CacheInv => SettledPageIsCurrent
  BY DEF CacheInv, SettledPageIsCurrent, Tracks, ConfigurationWritten, BranchWritten, Follows,
         NoCall, Slots, Queries
<1> QED
  BY <1>1, <1>2, <1>3, AlwaysTInv, PTL DEF Spec

-------------------------------------------------------------------------------
(* The steps of a run.                                                     *)
Actions == {"TURNOVER", "DAILY", "SALE_PRICE"}

StepSet == {StepOf(action, month, row) : action \in Actions, month \in Months \cup {NoMonth}, row \in Rows}

\* No two entries of the list have one code.
CodesOnce(list) == \A i, j \in DOMAIN list : list[i].code = list[j].code => i = j

PartsDiffer == \A c, d \in Codes : CodePart[c] = CodePart[d] => c = d

LEMMA StepFacts ==
  ASSUME NEW action, NEW month, NEW row
  PROVE  /\ StepOf(action, month, row).code = <<action, month, CodePart[row.code]>>
         /\ StepOf(action, month, row).branch = row.code
BY DEF StepOf

LEMMA AtOnce ==
  ASSUME NEW list \in Lists, CodesOnce(list), NEW K \in SUBSET DOMAIN list
  PROVE  At(list, K) \in Lists /\ CodesOnce(At(list, K))
<1>1. list \in Seq(Rows)
  BY DEF Lists, Rows
<1>2. PICK at \in [DOMAIN At(list, K) -> K] :
        /\ \A i, j \in DOMAIN At(list, K) : at[i] = at[j] => i = j
        /\ \A i \in DOMAIN At(list, K) : At(list, K)[i] = list[at[i]]
  BY <1>1, AtFacts
<1>3. ASSUME NEW i \in DOMAIN At(list, K), NEW j \in DOMAIN At(list, K),
             At(list, K)[i].code = At(list, K)[j].code
      PROVE  i = j
  <2>1. list[at[i]].code = list[at[j]].code /\ at[i] \in DOMAIN list /\ at[j] \in DOMAIN list
    BY <1>2, <1>3
  <2>2. at[i] = at[j]
    BY <2>1 DEF CodesOnce
  <2> QED
    BY <1>2, <2>2
<1>4. At(list, K) \in Seq(Rows)
  BY <1>1, AtFacts
<1> QED
  BY <1>3, <1>4 DEF CodesOnce, Lists, Rows

(* Which entries of a list a configuration selects.                        *)
LEMMA SelectedFacts ==
  ASSUME NEW c \in Configurations, NEW list \in Lists, CodesOnce(list)
  PROVE  /\ Active(list) \in Lists
         /\ \A i \in DOMAIN Active(list) : \E k \in DOMAIN list : Active(list)[i] = list[k] /\ list[k].active
         /\ \A k \in DOMAIN list : list[k].active => \E i \in DOMAIN Active(list) : Active(list)[i] = list[k]
         /\ SelectedBranches(c, list) \in Lists /\ CodesOnce(SelectedBranches(c, list))
         /\ c.branchMode = "ALL_ACTIVE" => SelectedBranches(c, list) = Active(list)
         /\ \A k \in DOMAIN Active(list) : Active(list)[k].id \in Range(c.branchIds) =>
              SelectedBranches(c, list) # <<>>
<1> DEFINE K == {i \in DOMAIN list : list[i].active}
           A == Active(list)
<1>1. A = At(list, K) /\ K \in SUBSET DOMAIN list
  BY Zenon DEF Active
<1>2. A \in Lists /\ CodesOnce(A)
  BY <1>1, AtOnce
<1>3. list \in Seq(Rows)
  BY DEF Lists, Rows
<1>4. /\ \A i \in DOMAIN A : \E k \in K : A[i] = list[k]
      /\ \A k \in K : \E i \in DOMAIN A : A[i] = list[k]
  <2>1. /\ \A i \in DOMAIN At(list, K) : \E k \in K : At(list, K)[i] = list[k]
        /\ \A k \in K : \E i \in DOMAIN At(list, K) : At(list, K)[i] = list[k]
    <3> HIDE DEF K
    <3> QED
      BY <1>1, <1>3, AtFacts
  <2> QED
    BY <1>1, <2>1, Zenon
<1> DEFINE chosen == {i \in DOMAIN A : A[i].id \in Range(c.branchIds)}
<1>5. SelectedBranches(c, list) = IF c.branchMode = "ALL_ACTIVE" THEN A ELSE At(A, chosen)
  BY Zenon DEF SelectedBranches
<1>6. chosen \in SUBSET DOMAIN A
  OBVIOUS
<1> HIDE DEF A, chosen
<1>7. SelectedBranches(c, list) \in Lists /\ CodesOnce(SelectedBranches(c, list))
  BY <1>2, <1>5, <1>6, AtOnce
<1>8. ASSUME NEW k \in DOMAIN A, A[k].id \in Range(c.branchIds) PROVE SelectedBranches(c, list) # <<>>
  <2>1. chosen # {} /\ A # <<>>
    BY <1>8 DEF chosen
  <2>2. At(A, chosen) # <<>>
    BY <1>2, <1>6, <2>1, AtFacts DEF Lists
  <2> QED
    BY <1>5, <2>1, <2>2
<1>9. /\ \A i \in DOMAIN A : \E k \in DOMAIN list : A[i] = list[k] /\ list[k].active
      /\ \A k \in DOMAIN list : list[k].active => \E i \in DOMAIN A : A[i] = list[k]
  BY <1>4
<1> QED
  BY <1>2, <1>5, <1>7, <1>8, <1>9 DEF A

LEMMA MonthSteps ==
  ASSUME NEW branches \in Lists, NEW months \in SUBSET Months
  PROVE  \E turns \in Seq(months \X DOMAIN branches) :
           /\ \A i, j \in DOMAIN turns : turns[i] = turns[j] => i = j
           /\ \A x \in months \X DOMAIN branches : \E i \in DOMAIN turns : turns[i] = x
           /\ OnEachMonth(months, branches)
                = [i \in DOMAIN turns |-> StepOf("TURNOVER", turns[i][1], branches[turns[i][2]])]
<1>1. months \in SUBSET Int /\ IsFiniteSet(months)
  <2>1. months \in SUBSET Nat /\ \A m \in months : m <= 11
    BY MonthsAssumption
  <2>2. \A n \in Nat : (\A m \in months : m <= n) => IsFiniteSet(months)
    BY <2>1, FS_BoundedSetOfNaturals
  <2> QED
    BY <2>1, <2>2
<1>2. DOMAIN branches \in SUBSET Int /\ IsFiniteSet(DOMAIN branches)
  BY FS_Interval DEF Lists
<1> DEFINE turns == Ordered(months \X DOMAIN branches, MonthThenBranch)
<1>3. /\ turns \in Seq(months \X DOMAIN branches)
      /\ \A i, j \in DOMAIN turns : turns[i] = turns[j] => i = j
      /\ \A x \in months \X DOMAIN branches : \E i \in DOMAIN turns : turns[i] = x
  BY <1>1, <1>2, TurnsInOrder, Zenon
<1>4. OnEachMonth(months, branches)
        = [i \in DOMAIN turns |-> StepOf("TURNOVER", turns[i][1], branches[turns[i][2]])]
  BY Zenon DEF OnEachMonth
<1> HIDE DEF turns
<1> QED
  BY <1>3, <1>4

(* One list after another.                                                 *)
Having(list, code) == {i \in DOMAIN list : list[i].branch = code}

LEMMA Joined ==
  ASSUME NEW T, NEW s \in Seq(T), NEW t \in Seq(T)
  PROVE  /\ s \o t \in Seq(T) /\ Len(s) \in Nat /\ DOMAIN s = 1..Len(s) /\ DOMAIN t \subseteq Nat \ {0}
         /\ \A i \in DOMAIN s : i \in DOMAIN (s \o t) /\ (s \o t)[i] = s[i]
         /\ \A j \in DOMAIN t : Len(s) + j \in DOMAIN (s \o t) /\ (s \o t)[Len(s) + j] = t[j]
         /\ \A k \in DOMAIN (s \o t) : k \in DOMAIN s \/ \E j \in DOMAIN t : k = Len(s) + j
         /\ s \o t = <<>> => s = <<>> /\ t = <<>>
<1>1. /\ Len(s) \in Nat /\ Len(t) \in Nat /\ DOMAIN s = 1..Len(s) /\ DOMAIN t = 1..Len(t)
      /\ s \o t \in Seq(T) /\ Len(s \o t) = Len(s) + Len(t) /\ DOMAIN (s \o t) = 1..(Len(s) + Len(t))
      /\ \A k \in 1..(Len(s) + Len(t)) : (s \o t)[k] = IF k <= Len(s) THEN s[k] ELSE t[k - Len(s)]
  OBVIOUS
<1>2. \A k \in DOMAIN (s \o t) : k \in DOMAIN s \/ (k - Len(s) \in DOMAIN t /\ k = Len(s) + (k - Len(s)))
  BY <1>1
<1>3. \A j \in DOMAIN t : Len(s) + j \in DOMAIN (s \o t) /\ (s \o t)[Len(s) + j] = t[j]
  <2>1. ASSUME NEW j \in 1..Len(t)
        PROVE  Len(s) + j \in 1..(Len(s) + Len(t)) /\ ~ (Len(s) + j <= Len(s)) /\ (Len(s) + j) - Len(s) = j
    BY <1>1
  <2> QED
    BY <1>1, <2>1
<1>4. s \o t = <<>> => s = <<>> /\ t = <<>>
  OBVIOUS
<1>5. \A i \in DOMAIN s : i \in DOMAIN (s \o t) /\ (s \o t)[i] = s[i]
  BY <1>1
<1> QED
  BY <1>1, <1>2, <1>3, <1>4, <1>5

LEMMA JoinedOnce ==
  ASSUME NEW s \in Seq(StepSet), NEW t \in Seq(StepSet), StepCodesAreUnique(s), StepCodesAreUnique(t),
         \A i \in DOMAIN s, j \in DOMAIN t : s[i].code # t[j].code
  PROVE  StepCodesAreUnique(s \o t)
<1>1. SUFFICES ASSUME NEW k \in DOMAIN (s \o t), NEW l \in DOMAIN (s \o t),
                      (s \o t)[k].code = (s \o t)[l].code
               PROVE  k = l
  BY DEF StepCodesAreUnique
<1>2. \A i \in DOMAIN s : (s \o t)[i] = s[i]
  BY Joined
<1>3. \A j \in DOMAIN t : (s \o t)[Len(s) + j] = t[j]
  BY Joined
<1>4. \A n \in {k, l} : n \in DOMAIN s \/ \E j \in DOMAIN t : n = Len(s) + j
  BY Joined
<1>5. CASE k \in DOMAIN s /\ l \in DOMAIN s
  BY <1>1, <1>2, <1>5 DEF StepCodesAreUnique
<1>6. ASSUME NEW i \in DOMAIN t, k = Len(s) + i, NEW j \in DOMAIN t, l = Len(s) + j PROVE k = l
  BY <1>1, <1>3, <1>6 DEF StepCodesAreUnique
<1>7. ASSUME k \in DOMAIN s, NEW j \in DOMAIN t, l = Len(s) + j PROVE FALSE
  BY <1>1, <1>2, <1>3, <1>7
<1>8. ASSUME l \in DOMAIN s, NEW j \in DOMAIN t, k = Len(s) + j PROVE FALSE
  BY <1>1, <1>2, <1>3, <1>8
<1> QED
  BY <1>4, <1>5, <1>6, <1>7, <1>8

LEMMA JoinedCount ==
  ASSUME NEW s \in Seq(StepSet), NEW t \in Seq(StepSet), NEW code
  PROVE  /\ Cardinality(Having(s, code)) \in Nat /\ Cardinality(Having(t, code)) \in Nat
         /\ Cardinality(Having(s \o t, code)) = Cardinality(Having(s, code)) + Cardinality(Having(t, code))
<1> DEFINE n == Len(s)
           S == Having(s, code)
           R == Having(t, code)
           shift == [j \in R |-> n + j]
           W == {n + j : j \in R}
<1>1. /\ n \in Nat /\ DOMAIN s = 1..n /\ DOMAIN t \subseteq Nat \ {0}
      /\ \A i \in DOMAIN s : i \in DOMAIN (s \o t) /\ (s \o t)[i] = s[i]
      /\ \A j \in DOMAIN t : n + j \in DOMAIN (s \o t) /\ (s \o t)[n + j] = t[j]
      /\ \A k \in DOMAIN (s \o t) : k \in DOMAIN s \/ \E j \in DOMAIN t : k = n + j
  BY Joined
<1>2. IsFiniteSet(DOMAIN s) /\ IsFiniteSet(DOMAIN t)
  BY FS_Interval
<1>3. IsFiniteSet(S) /\ IsFiniteSet(R)
  <2>1. S \in SUBSET DOMAIN s /\ R \in SUBSET DOMAIN t
    BY DEF Having
  <2> HIDE DEF S, R
  <2> QED
    BY <1>2, <2>1, FS_Subset
<1>4. Cardinality(S) \in Nat /\ Cardinality(R) \in Nat
  BY <1>3, FS_CardinalityType
<1>5. Having(s \o t, code) = S \cup W
  <2>1. ASSUME NEW k \in DOMAIN (s \o t), (s \o t)[k].branch = code PROVE k \in S \cup W
    <3>1. CASE k \in DOMAIN s
      BY <1>1, <2>1, <3>1 DEF Having
    <3>2. ASSUME NEW j \in DOMAIN t, k = n + j PROVE k \in W
      BY <1>1, <2>1, <3>2 DEF Having
    <3> QED
      BY <1>1, <3>1, <3>2
  <2>2. ASSUME NEW k \in S PROVE k \in Having(s \o t, code)
    BY <1>1, <2>2 DEF Having
  <2>3. ASSUME NEW j \in R PROVE n + j \in Having(s \o t, code)
    BY <1>1, <2>3 DEF Having
  <2> QED
    BY <2>1, <2>2, <2>3 DEF Having
<1>6. S \cap W = {}
  <2>1. ASSUME NEW j \in R PROVE n + j \notin S
    <3>1. j \in Nat \ {0}
      BY <1>1 DEF Having
    <3>2. n + j \notin DOMAIN s
      BY <1>1, <3>1
    <3> QED
      BY <3>2 DEF Having
  <2> QED
    BY <2>1
<1>7. shift \in Bijection(R, W)
  <2>1. \A j \in R : j \in Nat
    BY <1>1 DEF Having
  <2> HIDE DEF R
  <2> QED
    BY <1>1, <2>1 DEF Bijection, Injection, Surjection, IsInjective
<1> HIDE DEF S, R, W, shift, n
<1>8. IsFiniteSet(W) /\ Cardinality(W) = Cardinality(R)
  BY <1>3, <1>7, FS_Bijection DEF ExistsBijection
<1>9. Cardinality(S \cup W) = Cardinality(S) + Cardinality(W) - Cardinality({})
  BY <1>3, <1>6, <1>8, FS_Union
<1>10. Cardinality({}) = 0
  BY FS_EmptySet
<1>11. Cardinality(S \cup W) = Cardinality(S) + Cardinality(R)
  BY <1>4, <1>8, <1>9, <1>10
<1> QED
  BY <1>4, <1>5, <1>11 DEF S, R

(* The steps of the months: one for each month and branch.                 *)
LEMMA MonthStepsCount ==
  ASSUME PartsDiffer, NEW branches \in Lists, CodesOnce(branches), NEW months \in SUBSET Months
  PROVE  /\ OnEachMonth(months, branches) \in Seq(StepSet)
         /\ StepCodesAreUnique(OnEachMonth(months, branches))
         /\ \A i \in DOMAIN OnEachMonth(months, branches) :
              OnEachMonth(months, branches)[i].code[1] = "TURNOVER"
         /\ months # {} /\ branches # <<>> => OnEachMonth(months, branches) # <<>>
         /\ \A k \in DOMAIN branches :
              Cardinality(Having(OnEachMonth(months, branches), branches[k].code)) = Cardinality(months)
<1>1. PICK turns \in Seq(months \X DOMAIN branches) :
           /\ \A i, j \in DOMAIN turns : turns[i] = turns[j] => i = j
           /\ \A x \in months \X DOMAIN branches : \E i \in DOMAIN turns : turns[i] = x
           /\ OnEachMonth(months, branches)
                = [i \in DOMAIN turns |-> StepOf("TURNOVER", turns[i][1], branches[turns[i][2]])]
  BY MonthSteps
<1> DEFINE s == OnEachMonth(months, branches)
<1>2. /\ DOMAIN turns = 1..Len(turns) /\ Len(turns) \in Nat /\ IsFiniteSet(DOMAIN turns)
      /\ \A i \in DOMAIN turns : /\ turns[i][1] \in months /\ turns[i][2] \in DOMAIN branches
                                 /\ turns[i] = <<turns[i][1], turns[i][2]>>
  <2>1. \A x \in months \X DOMAIN branches :
          x[1] \in months /\ x[2] \in DOMAIN branches /\ x = <<x[1], x[2]>>
    OBVIOUS
  <2> QED
    BY <2>1, FS_Interval
<1>3. \A k \in DOMAIN branches : branches[k] \in Rows /\ branches[k].code \in Codes
  <2>1. branches \in Seq(Rows)
    BY DEF Lists, Rows
  <2>2. \A r \in Rows : r.code \in Codes
    BY DEF Rows
  <2> QED
    BY <2>1, <2>2
<1>4. /\ s = [i \in DOMAIN turns |-> s[i]]
      /\ \A i \in DOMAIN turns : /\ s[i] = StepOf("TURNOVER", turns[i][1], branches[turns[i][2]])
                                 /\ s[i] \in StepSet
  BY <1>1, <1>2, <1>3 DEF StepSet, Actions
<1>5. \A i \in DOMAIN turns :
        /\ s[i].code = <<"TURNOVER", turns[i][1], CodePart[branches[turns[i][2]].code]>>
        /\ s[i].branch = branches[turns[i][2]].code
  BY <1>4, StepFacts
<1> HIDE DEF s
<1>6. s \in Seq(StepSet) /\ DOMAIN s = DOMAIN turns
  BY <1>2, <1>4
<1>7. \A i \in DOMAIN s : s[i].code[1] = "TURNOVER"
  BY <1>5, <1>6
<1>8. StepCodesAreUnique(s)
  <2>1. ASSUME NEW i \in DOMAIN turns, NEW j \in DOMAIN turns, s[i].code = s[j].code PROVE i = j
    <3>1. turns[i][1] = turns[j][1]
          /\ CodePart[branches[turns[i][2]].code] = CodePart[branches[turns[j][2]].code]
      BY <1>5, <2>1
    <3>2. turns[i][2] = turns[j][2]
      BY <1>2, <1>3, <3>1 DEF PartsDiffer, CodesOnce
    <3>3. turns[i] = turns[j]
      BY <1>2, <3>1, <3>2
    <3> QED
      BY <1>1, <3>3
  <2> QED
    BY <1>6, <2>1 DEF StepCodesAreUnique
<1>9. months # {} /\ branches # <<>> => s # <<>>
  <2>1. SUFFICES ASSUME months # {}, branches # <<>> PROVE s # <<>>
    OBVIOUS
  <2>2. 1 \in DOMAIN branches
    BY <2>1 DEF Lists
  <2>3. PICK m \in months : TRUE
    BY <2>1
  <2>4. <<m, 1>> \in months \X DOMAIN branches
    BY <2>2
  <2>5. DOMAIN turns # {}
    BY <1>1, <2>4
  <2> QED
    BY <1>6, <2>5
<1>10. ASSUME NEW k \in DOMAIN branches
       PROVE  Cardinality(Having(s, branches[k].code)) = Cardinality(months)
  <2> DEFINE S == Having(s, branches[k].code)
             monthOf == [i \in S |-> turns[i][1]]
  <2>1. \A i \in DOMAIN turns : i \in S <=> turns[i][2] = k
    BY <1>2, <1>5, <1>6 DEF Having, CodesOnce
  <2>2. S \subseteq DOMAIN turns
    BY <1>6 DEF Having
  <2> HIDE DEF S
  <2>3. \A i, j \in S : turns[i][1] = turns[j][1] => i = j
    BY <1>1, <1>2, <2>1, <2>2
  <2>4. \A m \in months : \E i \in S : turns[i][1] = m
    <3>1. ASSUME NEW m \in months PROVE \E i \in S : turns[i][1] = m
      <4>1. <<m, k>> \in months \X DOMAIN branches
        BY <1>10
      <4>2. PICK i \in DOMAIN turns : turns[i] = <<m, k>>
        BY <1>1, <4>1
      <4> QED
        BY <2>1, <4>2
    <3> QED
      BY <3>1
  <2>5. monthOf \in Bijection(S, months)
    BY <1>2, <2>2, <2>3, <2>4 DEF Bijection, Injection, Surjection, IsInjective
  <2> HIDE DEF monthOf
  <2>6. IsFiniteSet(S)
    BY <1>2, <2>2, FS_Subset
  <2> QED
    BY <2>5, <2>6, FS_Bijection DEF ExistsBijection, S
<1> QED
  BY <1>6, <1>7, <1>8, <1>9, <1>10 DEF s

(* An option that is not per month: one step for each branch.              *)
LEMMA OptionStepsCount ==
  ASSUME PartsDiffer, NEW branches \in Lists, CodesOnce(branches), NEW action \in Actions,
         NEW chosen \in BOOLEAN
  PROVE  /\ OnEachIf(chosen, action, branches) \in Seq(StepSet)
         /\ StepCodesAreUnique(OnEachIf(chosen, action, branches))
         /\ \A i \in DOMAIN OnEachIf(chosen, action, branches) :
              OnEachIf(chosen, action, branches)[i].code[1] = action
         /\ chosen /\ branches # <<>> => OnEachIf(chosen, action, branches) # <<>>
         /\ \A k \in DOMAIN branches :
              Cardinality(Having(OnEachIf(chosen, action, branches), branches[k].code))
                = IF chosen THEN 1 ELSE 0
<1> DEFINE s == OnEachIf(chosen, action, branches)
<1>1. \A k \in DOMAIN branches : branches[k] \in Rows /\ branches[k].code \in Codes
  <2>1. branches \in Seq(Rows)
    BY DEF Lists, Rows
  <2>2. \A r \in Rows : r.code \in Codes
    BY DEF Rows
  <2> QED
    BY <2>1, <2>2
<1>2. DOMAIN branches = 1..Len(branches) /\ Len(branches) \in Nat
  BY DEF Lists
<1>3. CASE ~ chosen
  <2>1. s = <<>>
    BY <1>3 DEF OnEachIf
  <2>2. s \in Seq(StepSet) /\ DOMAIN s = {}
    BY <2>1
  <2> HIDE DEF s
  <2>3. \A x : Having(s, x) = {}
    BY <2>2 DEF Having
  <2>4. Cardinality({}) = 0
    BY FS_EmptySet
  <2> QED
    BY <1>3, <2>2, <2>3, <2>4 DEF StepCodesAreUnique, s
<1>4. CASE chosen
  <2>0. s = [i \in DOMAIN branches |-> StepOf(action, NoMonth, branches[i])]
    BY <1>4 DEF OnEachIf, OnEach
  <2>1. /\ s = [i \in DOMAIN branches |-> s[i]]
        /\ \A i \in DOMAIN branches : s[i] = StepOf(action, NoMonth, branches[i]) /\ s[i] \in StepSet
    <3> HIDE DEF s
    <3> QED
      BY <1>1, <2>0 DEF StepSet
  <2>2. \A i \in DOMAIN branches : /\ s[i].code = <<action, NoMonth, CodePart[branches[i].code]>>
                                   /\ s[i].branch = branches[i].code
    BY <2>1, StepFacts
  <2> HIDE DEF s
  <2>3. s \in Seq(StepSet) /\ DOMAIN s = DOMAIN branches
    BY <1>2, <2>1
  <2>4. StepCodesAreUnique(s)
    BY <1>1, <2>2, <2>3 DEF StepCodesAreUnique, PartsDiffer, CodesOnce
  <2>5. \A i \in DOMAIN s : s[i].code[1] = action
    BY <2>2, <2>3
  <2>6. branches # <<>> => s # <<>>
    BY <1>2, <2>3
  <2>7. ASSUME NEW k \in DOMAIN branches PROVE Cardinality(Having(s, branches[k].code)) = 1
    <3>1. Having(s, branches[k].code) = {k}
      BY <2>2, <2>3 DEF Having, CodesOnce
    <3> QED
      BY <3>1, FS_Singleton
  <2> QED
    BY <1>4, <2>3, <2>4, <2>5, <2>6, <2>7 DEF s
<1> QED
  BY <1>3, <1>4

(* The whole sequence of a run.                                            *)
Expected(c) ==
  Cardinality(c.turnoverMonths) + (IF c.dailyTurnover THEN 1 ELSE 0) + (IF c.salePrice THEN 1 ELSE 0)

LEMMA StepsOfRun ==
  ASSUME PartsDiffer, NEW branches \in Lists, CodesOnce(branches), NEW c \in Configurations
  PROVE  /\ StepCodesAreUnique(BuildSteps(c, branches))
         /\ branches # <<>> /\ (c.turnoverMonths # {} \/ c.dailyTurnover \/ c.salePrice)
              => BuildSteps(c, branches) # <<>>
         /\ \A k \in DOMAIN branches :
              Cardinality(Having(BuildSteps(c, branches), branches[k].code)) = Expected(c)
<1>0. c.turnoverMonths \in SUBSET Months /\ c.dailyTurnover \in BOOLEAN /\ c.salePrice \in BOOLEAN
  BY ConfigurationFacts
<1> DEFINE m == OnEachMonth(c.turnoverMonths, branches)
           d == OnEachIf(c.dailyTurnover, "DAILY", branches)
           p == OnEachIf(c.salePrice, "SALE_PRICE", branches)
<1>1. /\ m \in Seq(StepSet) /\ StepCodesAreUnique(m)
      /\ \A i \in DOMAIN m : m[i].code[1] = "TURNOVER"
      /\ c.turnoverMonths # {} /\ branches # <<>> => m # <<>>
      /\ \A k \in DOMAIN branches : Cardinality(Having(m, branches[k].code)) = Cardinality(c.turnoverMonths)
  BY <1>0, MonthStepsCount
<1>2. /\ d \in Seq(StepSet) /\ StepCodesAreUnique(d)
      /\ \A i \in DOMAIN d : d[i].code[1] = "DAILY"
      /\ c.dailyTurnover /\ branches # <<>> => d # <<>>
      /\ \A k \in DOMAIN branches :
           Cardinality(Having(d, branches[k].code)) = IF c.dailyTurnover THEN 1 ELSE 0
  <2>1. "DAILY" \in Actions
    BY DEF Actions
  <2> QED
    BY <1>0, <2>1, OptionStepsCount
<1>3. /\ p \in Seq(StepSet) /\ StepCodesAreUnique(p)
      /\ \A i \in DOMAIN p : p[i].code[1] = "SALE_PRICE"
      /\ c.salePrice /\ branches # <<>> => p # <<>>
      /\ \A k \in DOMAIN branches :
           Cardinality(Having(p, branches[k].code)) = IF c.salePrice THEN 1 ELSE 0
  <2>1. "SALE_PRICE" \in Actions
    BY DEF Actions
  <2> QED
    BY <1>0, <2>1, OptionStepsCount
<1>4. BuildSteps(c, branches) = (m \o d) \o p
  BY DEF BuildSteps
<1> HIDE DEF m, d, p
<1>5. m \o d \in Seq(StepSet)
  BY <1>1, <1>2, Joined
<1>6. StepCodesAreUnique(m \o d)
  BY <1>1, <1>2, JoinedOnce
<1>7. \A k \in DOMAIN (m \o d) : (m \o d)[k].code[1] \in {"TURNOVER", "DAILY"}
  <2>1. /\ \A i \in DOMAIN m : (m \o d)[i] = m[i]
        /\ \A j \in DOMAIN d : (m \o d)[Len(m) + j] = d[j]
        /\ \A k \in DOMAIN (m \o d) : k \in DOMAIN m \/ \E j \in DOMAIN d : k = Len(m) + j
    BY <1>1, <1>2, Joined
  <2> QED
    BY <1>1, <1>2, <2>1
<1>8. StepCodesAreUnique((m \o d) \o p)
  <2>1. \A i \in DOMAIN (m \o d), j \in DOMAIN p : (m \o d)[i].code # p[j].code
    BY <1>3, <1>7
  <2> QED
    BY <1>3, <1>5, <1>6, <2>1, JoinedOnce
<1>9. (m \o d) \o p = <<>> => m = <<>> /\ d = <<>> /\ p = <<>>
  <2>1. (m \o d) \o p = <<>> => m \o d = <<>> /\ p = <<>>
    BY <1>3, <1>5, Joined
  <2>2. m \o d = <<>> => m = <<>> /\ d = <<>>
    BY <1>1, <1>2, Joined
  <2> QED
    BY <2>1, <2>2
<1>10. ASSUME NEW k \in DOMAIN branches
       PROVE  Cardinality(Having((m \o d) \o p, branches[k].code)) = Expected(c)
  <2> DEFINE x == branches[k].code
  <2>1. /\ Cardinality(Having(m \o d, x)) = Cardinality(Having(m, x)) + Cardinality(Having(d, x))
        /\ Cardinality(Having(m, x)) \in Nat
    BY <1>1, <1>2, JoinedCount
  <2>2. Cardinality(Having((m \o d) \o p, x)) = Cardinality(Having(m \o d, x)) + Cardinality(Having(p, x))
    BY <1>3, <1>5, JoinedCount
  <2> QED
    BY <1>1, <1>2, <1>3, <2>1, <2>2 DEF Expected
<1> QED
  BY <1>1, <1>2, <1>3, <1>4, <1>8, <1>9, <1>10

(* What a run requested now finds.                                         *)
LEMMA BranchesRead ==
  ASSUME TInv
  PROVE  /\ LoadBranches \in Lists /\ CodesOnce(LoadBranches) /\ Effective \in Configurations
         /\ \A i \in DOMAIN Active(LoadBranches) : \E b \in Existing :
              Active(LoadBranches)[i] = Row(b) /\ branch[b].active
         /\ \A b \in Existing : branch[b].active =>
              \E i \in DOMAIN Active(LoadBranches) : Active(LoadBranches)[i] = Row(b)
<1>1. BranchTypes /\ CodesDiffer
  BY DEF TInv, TypeOK, BranchTypes
<1>2. Effective \in Configurations
  BY ReadTypes DEF TInv
<1> DEFINE list == LoadBranches
<1>3. /\ list \in Lists
      /\ \A i \in DOMAIN list : \E b \in Existing : list[i] = Row(b)
      /\ \A b \in Existing : \E i \in DOMAIN list : list[i] = Row(b)
      /\ \A i, j \in DOMAIN list : list[i] = list[j] => i = j
  BY <1>1, ListOfBranches
<1> HIDE DEF list
<1>4. CodesOnce(list)
  <2>1. ASSUME NEW i \in DOMAIN list, NEW j \in DOMAIN list, list[i].code = list[j].code PROVE i = j
    <3>1. PICK b \in Existing, d \in Existing : list[i] = Row(b) /\ list[j] = Row(d)
      BY <1>3
    <3>2. b = d
      BY <1>1, <2>1, <3>1 DEF CodesDiffer, Row
    <3> QED
      BY <1>3, <3>1, <3>2
  <2> QED
    BY <2>1 DEF CodesOnce
<1>5. /\ \A i \in DOMAIN Active(list) : \E k \in DOMAIN list : Active(list)[i] = list[k] /\ list[k].active
      /\ \A k \in DOMAIN list : list[k].active => \E i \in DOMAIN Active(list) : Active(list)[i] = list[k]
  BY <1>2, <1>3, <1>4, SelectedFacts
<1>6. \A b : Row(b).active = branch[b].active
  BY DEF Row
<1>7. \A i \in DOMAIN Active(list) : \E b \in Existing : Active(list)[i] = Row(b) /\ branch[b].active
  BY <1>3, <1>5, <1>6
<1>8. \A b \in Existing : branch[b].active => \E i \in DOMAIN Active(list) : Active(list)[i] = Row(b)
  BY <1>3, <1>5, <1>6
<1> QED
  BY <1>2, <1>3, <1>4, <1>7, <1>8 DEF list

LEMMA RunsCreated ==
  ASSUME TInv, PartsDiffer, enabled, Validate507(Effective, LoadBranches) = "ACCEPTED"
  PROVE  RunOutcome.code = "CREATED" /\ RunOutcome.steps = Build507Steps(Effective, LoadBranches)
<1> DEFINE c == Effective
           list == LoadBranches
           branches == SelectedBranches(c, list)
           steps == BuildSteps(c, branches)
<1>1. list \in Lists /\ CodesOnce(list) /\ c \in Configurations
  BY BranchesRead
<1>2. /\ c.branchMode = "ALL_ACTIVE" => Active(list) # <<>>
      /\ c.branchMode = "SELECTED" => c.branchIds # <<>>
      /\ c.branchMode = "SELECTED" => Range(c.branchIds) \subseteq Ids(Active(list))
      /\ c.turnoverMonths # {} \/ c.dailyTurnover \/ c.salePrice
  BY Verdicts
<1> HIDE DEF c, list
<1>3. /\ branches \in Lists /\ CodesOnce(branches)
      /\ c.branchMode = "ALL_ACTIVE" => branches = Active(list)
      /\ \A k \in DOMAIN Active(list) : Active(list)[k].id \in Range(c.branchIds) => branches # <<>>
  BY <1>1, SelectedFacts
<1> HIDE DEF branches
<1>4. branches # <<>>
  <2>1. CASE c.branchMode = "ALL_ACTIVE"
    BY <1>2, <1>3, <2>1
  <2>2. CASE c.branchMode = "SELECTED"
    <3>1. c.branchIds \in IdLists
      BY <1>1, ConfigurationFacts
    <3>2. 1 \in DOMAIN c.branchIds
      BY <1>2, <2>2, <3>1 DEF IdLists
    <3>3. c.branchIds[1] \in Range(c.branchIds)
      BY <3>2 DEF Range
    <3>4. PICK k \in DOMAIN Active(list) : Active(list)[k].id = c.branchIds[1]
      BY <1>2, <2>2, <3>3 DEF Ids
    <3> QED
      BY <1>3, <3>3, <3>4
  <2>3. c.branchMode \in Modes
    BY <1>1, ConfigurationFacts
  <2> QED
    BY <2>1, <2>2, <2>3 DEF Modes
<1>5. StepCodesAreUnique(steps) /\ steps # <<>>
  BY <1>1, <1>2, <1>3, <1>4, StepsOfRun
<1>6. Build507Steps(Effective, LoadBranches) = steps
  BY Zenon DEF Build507Steps, c, list, branches
<1> HIDE DEF steps
<1>7. StepCodesAreUnique(Build507Steps(Effective, LoadBranches))
      /\ Build507Steps(Effective, LoadBranches) # <<>>
  BY <1>5, <1>6
<1> QED
  BY <1>7 DEF RunOutcome

LEMMA ActiveBranchesRun ==
  ASSUME TInv, PartsDiffer
  PROVE  EveryActiveBranchRuns
<1>1. SUFFICES ASSUME enabled, Effective.branchMode = "ALL_ACTIVE",
                      NEW b \in Branches, branch[b] # Null, branch[b].active
               PROVE  Cardinality(Having(RunOutcome.steps, branch[b].code)) = Expected(Effective)
  <2>1. EveryActiveBranchRuns <=>
          (enabled /\ Effective.branchMode = "ALL_ACTIVE" =>
             \A b \in {d \in Branches : branch[d] # Null /\ branch[d].active} :
               Cardinality(Having(RunOutcome.steps, branch[b].code)) = Expected(Effective))
    BY Zenon DEF EveryActiveBranchRuns, Having, Expected
  <2> QED
    BY <2>1
<1> DEFINE c == Effective
           list == LoadBranches
<1>2. /\ list \in Lists /\ CodesOnce(list) /\ c \in Configurations
      /\ \A d \in Existing : branch[d].active => \E i \in DOMAIN Active(list) : Active(list)[i] = Row(d)
  BY BranchesRead
<1>3. PICK k \in DOMAIN Active(list) : Active(list)[k] = Row(b)
  BY <1>1, <1>2 DEF Existing
<1>4. Active(list)[k].code = branch[b].code /\ Active(list) # <<>>
  BY <1>3 DEF Row
<1> HIDE DEF list
<1>5. CASE Validate507(c, list) = "ACCEPTED"
  <2>1. RunOutcome.steps = Build507Steps(c, list)
    BY <1>1, <1>5, RunsCreated DEF list
  <2>2. SelectedBranches(c, list) = Active(list)
        /\ SelectedBranches(c, list) \in Lists /\ CodesOnce(SelectedBranches(c, list))
    BY <1>1, <1>2, SelectedFacts
  <2>3. RunOutcome.steps = BuildSteps(c, Active(list))
    BY <2>1, <2>2 DEF Build507Steps
  <2> HIDE DEF c
  <2>4. \A n \in DOMAIN Active(list) :
          Cardinality(Having(BuildSteps(c, Active(list)), Active(list)[n].code)) = Expected(c)
    BY <1>2, <2>2, StepsOfRun
  <2> QED
    BY <1>3, <1>4, <2>3, <2>4 DEF c
<1>6. CASE Validate507(c, list) # "ACCEPTED"
  <2>1. c.turnoverMonths = {} /\ ~ c.dailyTurnover /\ ~ c.salePrice
    BY <1>1, <1>4, <1>6 DEF Validate507
  <2>2. RunOutcome.steps = <<>>
    BY <1>1, <1>6 DEF RunOutcome, list
  <2>3. Having(RunOutcome.steps, branch[b].code) = {}
    BY <2>2 DEF Having
  <2>4. Cardinality({}) = 0
    BY FS_EmptySet
  <2> QED
    BY <2>1, <2>3, <2>4 DEF Expected
<1> QED
  BY <1>5, <1>6

(* In the mode ALL_ACTIVE a run gets, for each active branch, one step per
   chosen month and one per chosen option, whatever the branches, the months
   and the options: sorting by the code loses no branch, and no two steps get
   one code.  PartsDiffer says that codePart keeps the codes apart, which it
   does not for every code (README, Disagreements).                        *)
THEOREM ActiveBranchesAlwaysRun ==
  ASSUME PartsDiffer
  PROVE  Spec => []EveryActiveBranchRuns
<1>1. TInv => EveryActiveBranchRuns
  BY ActiveBranchesRun
<1> QED
  BY <1>1, AlwaysTInv, PTL

-------------------------------------------------------------------------------
(* Calls served one at a time: what the handler under way has read is still
   so when it writes.                                                      *)
Runnable(c, rows) ==
  c.branchMode = "SELECTED" =>
    /\ c.branchIds # <<>>
    /\ \A id \in Range(c.branchIds) : rows[id] # Null /\ rows[id].active
    /\ c.turnoverMonths # {} \/ c.dailyTurnover \/ c.salePrice

OneAtATime ==
  \A p, q \in Pages, s, t \in Slots :
    call[p][s].step \in InHandler /\ call[q][t].step \in InHandler => p = q /\ s = t

\* update has seen what allows it to write this.
MayWrite(input, rows, settings) ==
  input.active \/ ~ rows[input.id].active \/ ~ ReferencesBranch(settings, input.id)

SelectionInv ==
  inTurn =>
    /\ OneAtATime
    /\ saved # Null => Runnable(saved, branch)
    /\ \A p \in Pages :
         /\ call[p]["save"].step = "validated" => Runnable(call[p]["save"].got, branch)
         /\ call[p]["toggle"].step = "checked" => MayWrite(call[p]["toggle"].input, branch, saved)

\* A call that is left alone, over, or sent anew.
Rests(old, new) ==
  \/ new.step \in {"none", "sent"}
  \/ new.step = old.step /\ new.input = old.input /\ new.got = old.got

LEMMA RestKeeps ==
  ASSUME SelectionInv, UNCHANGED <<branch, saved, inTurn>>,
         \A q \in Pages, t \in Slots : Rests(call[q][t], call'[q][t])
  PROVE  SelectionInv'
<1>1. SUFFICES ASSUME inTurn
               PROVE  /\ OneAtATime'
                      /\ \A p \in Pages :
                           /\ call'[p]["save"].step = "validated" => Runnable(call'[p]["save"].got, branch)
                           /\ call'[p]["toggle"].step = "checked" =>
                                MayWrite(call'[p]["toggle"].input, branch, saved)
  BY DEF SelectionInv
<1>2. \A q \in Pages, t \in Slots :
        call'[q][t].step \in InHandler =>
          /\ call'[q][t].step = call[q][t].step /\ call'[q][t].input = call[q][t].input
          /\ call'[q][t].got = call[q][t].got
  BY DEF Rests, InHandler
<1>3. OneAtATime'
  BY <1>1, <1>2 DEF SelectionInv, OneAtATime
<1>4. {"save", "toggle"} \subseteq Slots /\ {"validated", "checked"} \subseteq InHandler
  BY DEF Slots, InHandler
<1> QED
  BY <1>1, <1>2, <1>3, <1>4 DEF SelectionInv

LEMMA PageRests ==
  ASSUME CallTypes, NEW p \in Pages, NEW calls, calls = [t \in Slots |-> calls[t]],
         call' = [call EXCEPT ![p] = calls], \A t \in Slots : Rests(call[p][t], calls[t])
  PROVE  \A q \in Pages, t \in Slots : Rests(call[q][t], call'[q][t])
<1>1. \A q \in Pages : call'[q] = IF q = p THEN calls ELSE call[q]
  BY CallFacts
<1> QED
  BY <1>1 DEF Rests

LEMMA OverRests ==
  ASSUME CallTypes, NEW p \in Pages, NEW s \in Slots, call' = [call EXCEPT ![p][s] = NoCall]
  PROVE  \A q \in Pages, t \in Slots : Rests(call[q][t], call'[q][t])
<1>1. \A q \in Pages, t \in Slots : call'[q][t] = IF q = p /\ t = s THEN NoCall ELSE call[q][t]
  BY CallFacts
<1> QED
  BY <1>1 DEF Rests, NoCall

LEMMA DetachedRests ==
  ASSUME TInv, NEW p \in Pages, NEW due \in SUBSET Queries, NEW s \in Slots
  PROVE  Rests(call[p][s], Detached(p, s)) /\ Rests(call[p][s], MountedCalls(p, due)[s])
<1>1. Rests(call[p][s], Detached(p, s))
  <2>1. s = "preview" => Detached(p, s).step = "none"
    BY DEF Detached, NoCall
  <2> QED
    BY <2>1, DetachedTypes DEF Rests
<1> QED
  BY <1>1, MountedTypes DEF Rests, Sent

LEMMA ClicksRest ==
  ASSUME TInv, NEW p \in Pages, Clicks(p)
  PROVE  /\ \A q \in Pages, t \in Slots : Rests(call[q][t], call'[q][t])
         /\ UNCHANGED <<branch, saved, inTurn>>
<1>1. CASE SwitchEnvironment(p)
  <2>1. PICK due \in SUBSET Queries : call' = [call EXCEPT ![p] = MountedCalls(p, due)]
    <3>1. page[p].stale \in SUBSET Queries
      BY PageFacts DEF PageStates
    <3> QED
      BY <1>1, <3>1 DEF SwitchEnvironment
  <2>2. MountedCalls(p, due) = [s \in Slots |-> MountedCalls(p, due)[s]]
    BY DEF MountedCalls
  <2>3. \A q \in Pages, t \in Slots : Rests(call[q][t], call'[q][t])
    BY <2>1, <2>2, PageFacts, DetachedRests, PageRests
  <2> QED
    BY <1>1, <2>3 DEF SwitchEnvironment, database
<1>2. CASE ~ SwitchEnvironment(p)
  <2>1. PICK s \in Slots \ Queries : ClickMoves(p, s)
    BY <1>2, ClicksMove
  <2>2. call'[p][s].step \in {"none", "sent"}
    BY <2>1 DEF ClickMoves, NoCall
  <2>3. \A q \in Pages, t \in Slots : call'[q][t] = call[q][t] \/ (q = p /\ t = s)
    BY <2>1 DEF ClickMoves
  <2> QED
    BY <2>1, <2>2, <2>3 DEF ClickMoves, Rests
<1> QED
  BY <1>1, <1>2

LEMMA ArrivesRest ==
  ASSUME TInv, NEW p \in Pages, Arrives(p)
  PROVE  /\ \A q \in Pages, t \in Slots : Rests(call[q][t], call'[q][t])
         /\ UNCHANGED <<branch, saved, inTurn>>
<1>0. CallTypes /\ {"save", "preview", "reset", "company"} \cup Queries \subseteq Slots
  BY PageFacts DEF Slots
<1>1. ASSUME NEW pg, NEW s, NEW queries, Invalidate(p, pg, s, queries)
      PROVE  \A q \in Pages, t \in Slots : Rests(call[q][t], call'[q][t])
  <2> DEFINE calls == [t \in Slots |-> IF t \in queries /\ pg.catalog THEN Sent(Null)
                                      ELSE IF t = s THEN NoCall ELSE call[p][t]]
  <2>1. call' = [call EXCEPT ![p] = calls]
    BY <1>1, Zenon DEF Invalidate
  <2>2. \A t \in Slots : Rests(call[p][t], calls[t])
    BY DEF Rests, Sent, NoCall
  <2>3. calls = [t \in Slots |-> calls[t]]
    OBVIOUS
  <2> HIDE DEF calls
  <2> QED
    BY <1>0, <2>1, <2>2, <2>3, PageRests
<1>2. CASE SaveOnSuccess(p)
  <2>1. \E pg : Invalidate(p, pg, "save", {"routine507"})
    BY <1>2, Zenon DEF SaveOnSuccess
  <2>2. UNCHANGED <<branch, saved, inTurn>>
    BY <1>2, Zenon DEF SaveOnSuccess, database, counters
  <2> QED
    BY <1>1, <2>1, <2>2
<1>3. CASE PreviewOnSuccess(p)
  BY <1>0, <1>3, OverRests DEF PreviewOnSuccess, database, counters
<1>4. CASE ResetOnSuccess(p)
  <2>1. PICK preview \in {NoCall, call[p]["preview"]}, fetch \in {Sent(Null), call[p]["routine507"]} :
          call' = [call EXCEPT ![p]["reset"] = NoCall, ![p]["preview"] = preview,
                               ![p]["routine507"] = fetch]
    <3> DEFINE preview == IF call[p]["reset"].attached THEN NoCall ELSE call[p]["preview"]
               pg == IF call[p]["reset"].attached
                     THEN [page[p] EXCEPT !.draft = call[p]["reset"].got.configuration,
                                          !.previewData = Null]
                     ELSE page[p]
               fetch == IF pg.catalog THEN Sent(Null) ELSE call[p]["routine507"]
    <3>1. call' = [call EXCEPT ![p]["reset"] = NoCall, ![p]["preview"] = preview,
                               ![p]["routine507"] = fetch]
      BY <1>0, <1>4, CallFacts DEF ResetOnSuccess
    <3>2. preview \in {NoCall, call[p]["preview"]} /\ fetch \in {Sent(Null), call[p]["routine507"]}
      OBVIOUS
    <3> HIDE DEF preview, pg, fetch
    <3> QED
      BY <3>1, <3>2
  <2>2. \A q \in Pages, t \in Slots :
          call'[q][t] \in {call[q][t], NoCall, Sent(Null)}
    BY <1>0, <2>1, CallFacts
  <2>3. UNCHANGED <<branch, saved, inTurn>>
    BY <1>4, Zenon DEF ResetOnSuccess, database, counters
  <2> QED
    BY <2>2, <2>3 DEF Rests, NoCall, Sent
<1>5. ASSUME NEW s \in Slots, BranchOnSuccess(p, s)
      PROVE  /\ \A q \in Pages, t \in Slots : Rests(call[q][t], call'[q][t])
             /\ UNCHANGED <<branch, saved, inTurn>>
  BY <1>1, <1>5 DEF BranchOnSuccess, database, counters
<1>6. ASSUME NEW s \in Queries, QueryOnSuccess(p, s)
      PROVE  /\ \A q \in Pages, t \in Slots : Rests(call[q][t], call'[q][t])
             /\ UNCHANGED <<branch, saved, inTurn>>
  <2>1. call' = [call EXCEPT ![p][s] = NoCall] /\ UNCHANGED <<branch, saved, inTurn>>
    BY <1>6, Zenon DEF QueryOnSuccess, database, counters
  <2> QED
    BY <1>0, <2>1, OverRests
<1>7. CASE CompanyOnSuccess(p)
  <2> DEFINE left == IF call[p]["company"].got THEN MountedCalls(p, page[p].stale)
                     ELSE [s \in Slots |-> Detached(p, s)]
             calls == [left EXCEPT !["company"] = NoCall]
  <2>1. call' = [call EXCEPT ![p] = calls] /\ UNCHANGED <<branch, saved, inTurn>>
    BY <1>7, Zenon DEF CompanyOnSuccess, database, counters
  <2>2. page[p].stale \in SUBSET Queries
    BY PageFacts DEF PageStates
  <2>3. left = [s \in Slots |-> left[s]] /\ \A s \in Slots : Rests(call[p][s], left[s])
    BY <2>2, DetachedRests DEF MountedCalls
  <2> HIDE DEF left
  <2>4. calls = [s \in Slots |-> calls[s]] /\ \A s \in Slots : Rests(call[p][s], calls[s])
    BY <2>3 DEF Rests, NoCall
  <2> HIDE DEF calls
  <2> QED
    BY <1>0, <2>1, <2>4, PageRests
<1>8. ASSUME NEW s \in Slots, ErrorAnswer(p, s) \/ AnswerLost(p, s)
      PROVE  /\ \A q \in Pages, t \in Slots : Rests(call[q][t], call'[q][t])
             /\ UNCHANGED <<branch, saved, inTurn>>
  <2>1. call' = [call EXCEPT ![p][s] = NoCall] /\ UNCHANGED <<branch, saved, inTurn>>
    BY <1>8, Zenon DEF ErrorAnswer, AnswerLost, OnError, database, counters
  <2> QED
    BY <1>0, <2>1, OverRests
<1> QED
  BY <1>2, <1>3, <1>4, <1>5, <1>6, <1>7, <1>8 DEF Arrives

LEMMA ServedStep ==
  ASSUME TInv, SelectionInv, inTurn, inTurn' = inTurn,
         NEW p \in Pages, NEW s \in Slots, NEW step, NEW got, Continue(p, s, step, got),
         Begin(p, s) \/ call[p][s].step \in InHandler,
         saved' # Null => Runnable(saved', branch'),
         s = "save" /\ step = "validated" => Runnable(got, branch'),
         s = "toggle" /\ step = "checked" => MayWrite(call[p]["toggle"].input, branch', saved')
  PROVE  SelectionInv'
<1>1. /\ call'[p][s].step = step /\ call'[p][s].got = got
      /\ call'[p][s].input = call[p][s].input
      /\ \A t \in Slots \ {s} : call'[p][t] = call[p][t]
      /\ \A q \in Pages \ {p} : call'[q] = call[q]
  BY PageFacts, Continued
<1>2. \A q \in Pages, t \in Slots : call[q][t].step \in InHandler => q = p /\ t = s
  BY DEF SelectionInv, OneAtATime, Begin
<1>3. \A q \in Pages, t \in Slots : call'[q][t].step \in InHandler => q = p /\ t = s
  BY <1>1, <1>2
<1>4. {"save", "toggle"} \subseteq Slots /\ {"validated", "checked"} \subseteq InHandler
  BY DEF Slots, InHandler
<1>5. OneAtATime'
  BY <1>3 DEF OneAtATime
<1>6. \A q \in Pages : call'[q]["save"].step = "validated" => Runnable(call'[q]["save"].got, branch')
  BY <1>1, <1>3, <1>4
<1>7. \A q \in Pages : call'[q]["toggle"].step = "checked" =>
        MayWrite(call'[q]["toggle"].input, branch', saved')
  BY <1>1, <1>3, <1>4
<1> QED
  BY <1>5, <1>6, <1>7 DEF SelectionInv

LEMMA AcceptedRuns ==
  ASSUME TInv, NEW c, Validate507(c, LoadBranches) = "ACCEPTED"
  PROVE  Runnable(c, branch)
<1>1. /\ c.branchMode = "SELECTED" => c.branchIds # <<>>
      /\ c.branchMode = "SELECTED" => Range(c.branchIds) \subseteq Ids(Active(LoadBranches))
      /\ c.turnoverMonths # {} \/ c.dailyTurnover \/ c.salePrice
  BY Verdicts
<1>2. \A id \in Ids(Active(LoadBranches)) : branch[id] # Null /\ branch[id].active
  <2>1. ASSUME NEW i \in DOMAIN Active(LoadBranches)
        PROVE  branch[Active(LoadBranches)[i].id] # Null /\ branch[Active(LoadBranches)[i].id].active
    <3>1. PICK b \in Existing : Active(LoadBranches)[i] = Row(b) /\ branch[b].active
      BY BranchesRead
    <3>2. Row(b).id = b
      BY DEF Row
    <3> QED
      BY <3>1, <3>2 DEF Existing
  <2> QED
    BY <2>1 DEF Ids
<1> QED
  BY <1>1, <1>2 DEF Runnable

LEMMA StillRunnable ==
  ASSUME NEW c, NEW old, NEW new, Runnable(c, old),
         c.branchMode = "SELECTED" => \A id \in Range(c.branchIds) :
           old[id] # Null /\ old[id].active => new[id] # Null /\ new[id].active
  PROVE  Runnable(c, new)
BY DEF Runnable

LEMMA SavedIds ==
  ASSUME TInv, saved # Null
  PROVE  \A id \in Range(saved.branchIds) : id \in Branches
<1>1. saved.branchIds \in IdLists
  BY ConfigurationFacts DEF TInv, TypeOK
<1> QED
  BY <1>1 DEF IdLists, Range

LEMMA HandlesSelect ==
  ASSUME TInv, SelectionInv, NEW p \in Pages, Handles(p)
  PROVE  SelectionInv'
<1>0. /\ {"save", "preview", "reset", "toggle", "edit", "company", "routine507", "branches"} \subseteq Slots
      /\ {"validated", "written", "in_use?", "checked"} \subseteq InHandler
      /\ DOMAIN branch = Branches /\ Existing \subseteq Branches /\ CallTypes
      /\ \A b \in Existing : branch[b] \in [code: Codes, active: BOOLEAN] /\ branch[b] # Null
  BY PageFacts DEF Slots, Queries, InHandler, TInv, TypeOK, Existing
<1>1. inTurn' = inTurn
  BY Zenon DEF Handles, SaveValidates, SaveUpserts, PreviewAnswers, ResetDeletes,
        ViewAnswers, QueryAnswers, ListAnswers, UpdateReads, UpdateChecksUse, UpdateWrites,
        WriteBranch, UpdateCompany, counters
<1>2. CASE ~ inTurn
  BY <1>1, <1>2 DEF SelectionInv
<1>3. CASE inTurn
  <2>0. /\ saved # Null => Runnable(saved, branch)
        /\ call[p]["save"].step = "validated" => Runnable(call[p]["save"].got, branch)
        /\ call[p]["toggle"].step = "checked" => MayWrite(call[p]["toggle"].input, branch, saved)
    BY <1>3 DEF SelectionInv
  <2>1. ASSUME NEW s \in Slots \ {"save", "toggle"}, NEW step, NEW got, Continue(p, s, step, got),
               Begin(p, s) \/ call[p][s].step \in InHandler, UNCHANGED branch,
               saved' = saved \/ saved' = Null
        PROVE  SelectionInv'
    BY <1>1, <1>3, <2>0, <2>1, ServedStep
  <2>2. CASE SaveValidates(p)
    <3> DEFINE configuration == Normalize507(call[p]["save"].input)
               verdict == IF enabled THEN Validate507(configuration, LoadBranches) ELSE "NOT_ENABLED"
    <3>1. /\ Begin(p, "save") /\ UNCHANGED <<branch, saved>>
          /\ \/ verdict = "ACCEPTED" /\ Continue(p, "save", "validated", configuration)
             \/ Continue(p, "save", "error", verdict)
      BY <2>2, Zenon DEF SaveValidates, database, Refuse
    <3>2. verdict = "ACCEPTED" => Runnable(configuration, branch)
      <4> HIDE DEF configuration
      <4> QED
        BY AcceptedRuns
    <3> HIDE DEF configuration, verdict
    <3> QED
      BY <1>0, <1>1, <1>3, <2>0, <3>1, <3>2, ServedStep
  <2>3. CASE SaveUpserts(p)
    BY <1>0, <1>1, <1>3, <2>0, <2>3, ServedStep DEF SaveUpserts, Within
  <2>4. CASE PreviewAnswers(p)
    <3>1. \E step, got : Continue(p, "preview", step, got)
      BY <2>4, Zenon DEF PreviewAnswers, Refuse
    <3>2. Begin(p, "preview") /\ UNCHANGED <<branch, saved>>
      BY <2>4, Zenon DEF PreviewAnswers, database
    <3> QED
      BY <1>0, <2>1, <3>1, <3>2
  <2>5. CASE ResetDeletes(p)
    BY <1>0, <2>1, <2>5 DEF ResetDeletes, Refuse
  <2>6. ASSUME NEW s \in Slots, ViewAnswers(p, s) PROVE SelectionInv'
    <3>1. Continue(p, s, "answered", View) /\ UNCHANGED <<branch, saved>>
          /\ call[p][s].step \in InHandler
      BY <1>0, <2>6, Zenon DEF ViewAnswers, database, Within
    <3> QED
      BY <1>1, <1>3, <2>0, <3>1, ServedStep
  <2>7. CASE QueryAnswers(p)
    BY <1>0, <2>1, <2>7 DEF QueryAnswers, Refuse, database
  <2>8. CASE ListAnswers(p)
    BY <1>0, <2>1, <2>8 DEF ListAnswers, database
  <2>9. CASE UpdateReads(p)
    <3> DEFINE input == call[p]["toggle"].input
    <3>1. /\ Begin(p, "toggle") /\ UNCHANGED <<branch, saved>>
          /\ \/ Continue(p, "toggle", "in_use?", Null)
             \/ ~ (branch[input.id].active /\ ~ input.active) /\ Continue(p, "toggle", "checked", Null)
      BY <2>9, Zenon DEF UpdateReads, database
    <3>2. ~ (branch[input.id].active /\ ~ input.active) => MayWrite(input, branch, saved)
      BY DEF MayWrite
    <3> QED
      BY <1>0, <1>1, <1>3, <2>0, <3>1, <3>2, ServedStep
  <2>10. CASE UpdateChecksUse(p)
    <3> DEFINE input == call[p]["toggle"].input
    <3>1. /\ call[p]["toggle"].step = "in_use?" /\ UNCHANGED <<branch, saved>>
          /\ \/ \E code : Continue(p, "toggle", "error", code)
             \/ ~ ReferencesBranch(saved, input.id) /\ Continue(p, "toggle", "checked", Null)
      BY <2>10, Zenon DEF UpdateChecksUse, database, Refuse, Within
    <3>2. ~ ReferencesBranch(saved, input.id) => MayWrite(input, branch, saved)
      BY DEF MayWrite
    <3> QED
      BY <1>0, <1>1, <1>3, <2>0, <3>1, <3>2, ServedStep
  <2>11. CASE UpdateWrites(p)
    <3> DEFINE input == call[p]["toggle"].input
    <3>1. /\ call[p]["toggle"].step = "checked" /\ UNCHANGED saved
          /\ branch' = [branch EXCEPT ![input.id].active = input.active]
          /\ Continue(p, "toggle", "answered", Null)
      BY <2>11, Zenon DEF UpdateWrites, Within
    <3>2. input.id \in Existing /\ input.active \in BOOLEAN /\ MayWrite(input, branch, saved)
      BY <1>0, <2>0, <3>1, InputTypes
    <3> HIDE DEF input
    <3>3. /\ \A b \in Branches \ {input.id} : branch'[b] = branch[b]
          /\ branch'[input.id] \in [code: Codes, active: BOOLEAN]
          /\ branch'[input.id].active = input.active
      BY <1>0, <3>1, <3>2
    <3>4. branch'[input.id] # Null
      BY <3>3, NullAssumption
    <3>5. saved # Null => Runnable(saved, branch')
      <4>1. SUFFICES ASSUME saved # Null, saved.branchMode = "SELECTED", NEW id \in Range(saved.branchIds),
                            branch[id] # Null, branch[id].active
                     PROVE  branch'[id] # Null /\ branch'[id].active
        BY <2>0, StillRunnable
      <4>2. id \in Branches
        BY <4>1, SavedIds
      <4>3. CASE id = input.id
        BY <3>2, <3>3, <3>4, <4>1, <4>3 DEF MayWrite, ReferencesBranch
      <4> QED
        BY <3>3, <4>1, <4>2, <4>3
    <3> QED
      BY <1>0, <1>1, <1>3, <3>1, <3>5, ServedStep
  <2>12. CASE WriteBranch(p)
    <3> DEFINE input == call[p]["edit"].input
    <3>1. /\ Begin(p, "edit") /\ UNCHANGED saved
          /\ \E step, got : Continue(p, "edit", step, got)
          /\ \/ UNCHANGED branch
             \/ input.id # Null /\ branch' = [branch EXCEPT ![input.id].code = input.code]
             \/ \E b \in Branches : branch[b] = Null
                  /\ branch' = [branch EXCEPT ![b] = [code |-> input.code, active |-> TRUE]]
      BY <2>12, Zenon DEF WriteBranch, Refuse
    <3>2. input.id \in {Null} \cup Existing /\ input.code \in Codes
      BY <1>0, <3>1, InputTypes DEF Begin
    <3> HIDE DEF input
    <3>3. \A id \in Existing : branch'[id] # Null /\ branch'[id].active = branch[id].active
      <4>1. CASE UNCHANGED branch
        BY <1>0, <4>1
      <4>2. CASE input.id # Null /\ branch' = [branch EXCEPT ![input.id].code = input.code]
        <5>1. \A id \in Existing : branch'[id] \in [code: Codes, active: BOOLEAN]
                                   /\ branch'[id].active = branch[id].active
          BY <1>0, <3>2, <4>2
        <5> QED
          BY <5>1, NullAssumption
      <4>3. ASSUME NEW b \in Branches, branch[b] = Null,
                   branch' = [branch EXCEPT ![b] = [code |-> input.code, active |-> TRUE]]
            PROVE  \A id \in Existing : branch'[id] # Null /\ branch'[id].active = branch[id].active
        BY <1>0, <4>3
      <4> QED
        BY <3>1, <4>1, <4>2, <4>3
    <3>4. saved # Null => Runnable(saved, branch')
      <4>1. SUFFICES ASSUME saved # Null, saved.branchMode = "SELECTED", NEW id \in Range(saved.branchIds),
                            branch[id] # Null, branch[id].active
                     PROVE  branch'[id] # Null /\ branch'[id].active
        BY <2>0, StillRunnable
      <4>2. id \in Existing
        BY <4>1, SavedIds DEF Existing
      <4> QED
        BY <3>3, <4>1, <4>2
    <3> QED
      BY <1>0, <1>1, <1>3, <3>1, <3>4, ServedStep
  <2>13. CASE UpdateCompany(p)
    BY <1>0, <2>1, <2>13 DEF UpdateCompany
  <2> QED
    BY <2>2, <2>3, <2>4, <2>5, <2>6, <2>7, <2>8, <2>9, <2>10, <2>11, <2>12, <2>13 DEF Handles
<1> QED
  BY <1>2, <1>3

LEMMA RunnableAccepted ==
  ASSUME TInv, saved # Null, saved.branchMode = "SELECTED", Runnable(saved, branch)
  PROVE  Validate507(Effective, LoadBranches) = "ACCEPTED"
<1> DEFINE c == Effective
<1>1. saved \in Configurations
  BY DEF TInv, TypeOK
<1>2. c = Parse507(saved)
  BY DEF Effective
<1>3. /\ c.branchMode = "SELECTED" /\ c.branchIds = saved.branchIds
      /\ c.turnoverMonths = saved.turnoverMonths
      /\ c.dailyTurnover = saved.dailyTurnover /\ c.salePrice = saved.salePrice
  BY <1>1, <1>2, Normalized
<1>4. Range(saved.branchIds) \subseteq Ids(Active(LoadBranches))
  <2>1. ASSUME NEW id \in Range(saved.branchIds) PROVE id \in Ids(Active(LoadBranches))
    <3>1. id \in Existing /\ branch[id].active
      BY SavedIds DEF Runnable, Existing
    <3>2. PICK i \in DOMAIN Active(LoadBranches) : Active(LoadBranches)[i] = Row(id)
      BY <3>1, BranchesRead
    <3> QED
      BY <3>2 DEF Ids, Row
  <2> QED
    BY <2>1
<1> HIDE DEF c
<1>5. Validate507(c, LoadBranches) = "ACCEPTED"
  BY <1>3, <1>4 DEF Validate507, Runnable
<1> QED
  BY <1>5 DEF c

LEMMA InitSelects ==
  ASSUME Init
  PROVE  SelectionInv
<1>1. \A p \in Pages, s \in Slots : call[p][s].step = "none"
  BY DEF Init, NoCall
<1>2. saved # Null => Runnable(saved, branch)
  BY InitTypes, AcceptedRuns DEF Init
<1> QED
  BY <1>1, <1>2 DEF SelectionInv, OneAtATime, InHandler, Slots

LEMMA SelectionSteps ==
  ASSUME TInv, SelectionInv, [Next]_vars
  PROVE  SelectionInv'
<1>1. CASE UNCHANGED vars
  <2>1. UNCHANGED <<branch, saved, inTurn, call>>
    BY <1>1 DEF vars
  <2> QED
    BY <2>1, RestKeeps DEF Rests
<1>2. ASSUME NEW p \in Pages, Clicks(p) \/ Handles(p) \/ Arrives(p) PROVE SelectionInv'
  BY <1>2, ClicksRest, ArrivesRest, RestKeeps, HandlesSelect
<1> QED
  BY <1>1, <1>2 DEF Next

(* When the API happens to serve its calls one at a time, a run of a saved
   selection is always created: no selected branch is deactivated between the
   check and the write, and none of the codes that are edited meanwhile makes
   two steps alike as long as codePart keeps them apart (PartsDiffer).     *)
THEOREM SelectionsStayRunnable ==
  ASSUME PartsDiffer
  PROVE  Spec => []SelectionStaysRunnable
<1>1. Init => SelectionInv
  BY InitSelects
<1>2. TInv /\ SelectionInv /\ [Next]_vars => SelectionInv'
  BY SelectionSteps
<1>3. TInv /\ SelectionInv => SelectionStaysRunnable
  BY RunnableAccepted, RunsCreated DEF SelectionInv, SelectionStaysRunnable
<1> QED
  BY <1>1, <1>2, <1>3, AlwaysTInv, PTL DEF Spec

===============================================================================
