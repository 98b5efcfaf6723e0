------------------------------ MODULE Routine507 ------------------------------
(***************************************************************************)
(* What apps/api computes for routine 507: which branches a configuration  *)
(* selects, when a configuration is accepted, and the steps a run of it    *)
(* gets.  A branch list is a sequence of [id, code, active], as            *)
(* loadBranches returns it.  Names and labels are left out.                *)
(*                                                                         *)
(* Codes are numbers in the order of the database's ORDER BY code, and     *)
(* CodePart is what codePart() leaves of each of them in a step code:      *)
(* upper case, every run of other characters a single "_".  It is not      *)
(* one-to-one: "2-A", "2.A" and "2_A" are three codes and one part.        *)
(***************************************************************************)
EXTENDS Integers, Sequences, FiniteSets, Functions

CONSTANTS
  Branches,   \* the identifiers a branch may get
  Codes,      \* the codes an administrator may type
  CodePart,   \* what a step code keeps of a branch code
  Months,     \* the turnover months the panel offers: 0..11 in the code
  NoMonth     \* the month of a step that has none

ASSUME MonthsAssumption == Months \subseteq 0..11
ASSUME BranchesAssumption == IsFiniteSet(Branches)
ASSUME CodesAssumption == Codes \subseteq Nat /\ DOMAIN CodePart = Codes

\* The members of a finite set as a list in the order Before (SetToSortSeq, but
\* SortSeq cannot be reasoned about).
Ordered(S, Before(_, _)) ==
  CHOOSE list \in [1..Cardinality(S) -> S] :
    \A i, j \in DOMAIN list : i < j => Before(list[i], list[j])

\* The entries of a list at some of its positions: what filter() leaves.
At(list, positions) ==
  LET chosen == Ordered(positions, <)
  IN  [k \in DOMAIN chosen |-> list[chosen[k]]]

Modes == {"ALL_ACTIVE", "SELECTED"}

\* Lists of branches without repetition (@ArrayUnique).
IdLists == {ids \in Seq(Branches) : IsInjective(ids)}

Configurations ==
  [branchMode: Modes, branchIds: IdLists,
   turnoverMonths: SUBSET Months, dailyTurnover: BOOLEAN, salePrice: BOOLEAN]

\* What an instance without a saved configuration runs.
DEFAULT_507 ==
  [branchMode |-> "ALL_ACTIVE", branchIds |-> <<>>,
   turnoverMonths |-> Months \cap 0..3, dailyTurnover |-> TRUE, salePrice |-> TRUE]

\* The JSON of two configurations is compared by the panel: the order of the
\* branches is part of it, the months are always sorted and hence a set here.
IdsUnderMode(mode, ids) == IF mode = "ALL_ACTIVE" THEN <<>> ELSE ids

Normalize507(dto) ==
  [dto EXCEPT !.branchIds = IdsUnderMode(dto.branchMode, dto.branchIds)]

Parse507(settings) ==
  [settings EXCEPT
     !.branchIds = IdsUnderMode(settings.branchMode, settings.branchIds),
     !.turnoverMonths = {m \in @ : m \in 0..11}]

Active(list) == At(list, {i \in DOMAIN list : list[i].active})

Ids(list) == {list[i].id : i \in DOMAIN list}

SelectedBranches(c, list) ==
  LET active == Active(list)
  IN  IF c.branchMode = "ALL_ACTIVE"
      THEN active
      ELSE At(active, {i \in DOMAIN active : active[i].id \in Range(c.branchIds)})

\* validate507: the code of the exception, or "ACCEPTED".
Validate507(c, list) ==
  CASE c.branchMode = "ALL_ACTIVE" /\ Active(list) = <<>> -> "NO_ACTIVE_BRANCHES"
    [] c.branchMode = "SELECTED" /\ c.branchIds = <<>> -> "BRANCH_REQUIRED"
    [] c.branchMode = "SELECTED" /\ ~ (Range(c.branchIds) \subseteq Ids(Active(list))) ->
         "BRANCH_INVALID"
    [] c.turnoverMonths = {} /\ ~ c.dailyTurnover /\ ~ c.salePrice -> "OPERATION_REQUIRED"
    [] OTHER -> "ACCEPTED"

\* Mutant: the branch is left out of the step code.
StepWithoutBranch(action, month, branch) ==
  [code |-> <<action, month>>, action |-> action, month |-> month, branch |-> branch.code]

StepOf(action, month, branch) ==
  [code |-> <<action, month, CodePart[branch.code]>>,
   action |-> action, month |-> month, branch |-> branch.code]

OnEach(action, month, branches) ==
  [i \in DOMAIN branches |-> StepOf(action, month, branches[i])]

OnEachIf(chosen, action, branches) ==
  IF chosen THEN OnEach(action, NoMonth, branches) ELSE <<>>

\* The oldest month first, and every branch of a month before the next month.
MonthThenBranch(left, right) ==
  left[1] > right[1] \/ (left[1] = right[1] /\ left[2] < right[2])

OnEachMonth(months, branches) ==
  LET turns == Ordered(months \X DOMAIN branches, MonthThenBranch)
  IN  [i \in DOMAIN turns |-> StepOf("TURNOVER", turns[i][1], branches[turns[i][2]])]

\* ROUTINE_507_DEFINITION.buildSteps: the months, then the two options.  The
\* position in the sequence is the step's sequenceNumber.
BuildSteps(c, branches) ==
  OnEachMonth(c.turnoverMonths, branches)
    \o OnEachIf(c.dailyTurnover, "DAILY", branches)
    \o OnEachIf(c.salePrice, "SALE_PRICE", branches)

Build507Steps(c, list) == BuildSteps(c, SelectedBranches(c, list))

\* @@unique([runId, code]) of the run's steps: the insertion of two steps with
\* one code fails, and the run with it.
StepCodesAreUnique(steps) ==
  \A i, j \in DOMAIN steps : steps[i].code = steps[j].code => i = j
===============================================================================
