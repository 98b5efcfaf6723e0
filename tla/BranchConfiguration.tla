-------------------------- MODULE BranchConfiguration --------------------------
(***************************************************************************)
(* The configuration of routine 507 of one environment: its branches and   *)
(* its saved options in the database, the API handlers that change them,   *)
(* and the pages of the web panel that show and edit them.                 *)
(*                                                                         *)
(* Handlers await the database between their reads and their writes, none  *)
(* opens a transaction, and a page may have several calls in flight: one   *)
(* per mutation and one per query.  call[p][s] is the call of page p in    *)
(* slot s; its step says how far the handler is.                           *)
(***************************************************************************)
EXTENDS Routine507

CONSTANTS
  Pages,        \* open browser pages of the panel
  Null,
  MaxEdits,     \* bound: changes of a draft
  MaxRequests,  \* bound: mutations sent
  MaxUpsets     \* bound: answers lost on the way to a page, and times the
                \*   panels leave the page or come back

ASSUME NullAssumption == Null \notin Branches \cup [code: Codes, active: BOOLEAN]

VARIABLES
  branch,     \* table winthor_branches: Null or [code, active]
  saved,      \* table automation_configurations: Null or the settings
  enabled,    \* the company has automation 507 enabled
  page,       \* what each page holds
  call,       \* the calls of each page
  inTurn,     \* the API happens to serve its calls one at a time
  edits, requests, lost, toggles    \* toggles: the panels left or came back

vars == <<branch, saved, enabled, page, call, inTurn, edits, requests, lost, toggles>>
database == <<branch, saved, enabled>>
counters == <<inTurn, edits, requests, lost, toggles>>

Queries == {"routine507", "branches"}
Slots == Queries \cup {"save", "preview", "reset", "toggle", "edit", "company"}

\* attached: the component that made the call is still mounted.
NoCall == [step |-> "none", input |-> Null, got |-> Null, attached |-> FALSE]
Sent(input) == [step |-> "sent", input |-> input, got |-> Null, attached |-> TRUE]

-------------------------------------------------------------------------------
(* What the API reads.                                                     *)

\* loadBranches and findAll: every branch of the environment, by code.
LoadBranches ==
  LET rows == {[id |-> b, code |-> branch[b].code, active |-> branch[b].active]
                 : b \in {c \in Branches : branch[c] # Null}}
  IN  Ordered(rows, LAMBDA left, right : left.code < right.code)

Effective == IF saved = Null THEN DEFAULT_507 ELSE Parse507(saved)

View ==
  [configuration |-> Effective, branches |-> LoadBranches,
   source |-> IF saved = Null THEN "DEFAULT" ELSE "SAVED"]

StepsOfView(view) == Build507Steps(view.configuration, view.branches)

\* buildStepsForRun inside the transaction that creates a run, and the
\* insertion of the steps: the outcome of a run requested now.
RunOutcome ==
  LET steps == Build507Steps(Effective, LoadBranches)
      verdict == Validate507(Effective, LoadBranches)
  IN  CASE ~ enabled -> [code |-> "NOT_ENABLED", steps |-> <<>>]
        [] enabled /\ verdict # "ACCEPTED" -> [code |-> verdict, steps |-> <<>>]
        [] enabled /\ verdict = "ACCEPTED" /\ steps = <<>> -> [code |-> "EMPTY", steps |-> <<>>]
        [] enabled /\ verdict = "ACCEPTED" /\ ~ StepCodesAreUnique(steps) ->
             [code |-> "P2002", steps |-> <<>>]
        [] OTHER -> [code |-> "CREATED", steps |-> steps]

-------------------------------------------------------------------------------
(* The page.                                                               *)

\* The routine's panels are on the page and their queries have data to show.
Open(p) == page[p].catalog
PanelShown(p) == Open(p) /\ "routine507" \notin page[p].failed

Draft(p) ==
  IF page[p].draft # Null THEN page[p].draft ELSE page[p].view.configuration

Changed(p) == Draft(p) # page[p].view.configuration

ShownPreview(p) ==
  CASE page[p].previewData # Null -> StepsOfView(page[p].previewData)
    [] page[p].previewData = Null /\ page[p].saveData # Null -> StepsOfView(page[p].saveData)
    [] OTHER -> StepsOfView(page[p].view)

\* What the panel says of the steps below it.
Caption(p) ==
  CASE page[p].previewData # Null -> "OF_CURRENT_CHANGES"
    [] page[p].previewData = Null /\ Changed(p) -> "NOT_REFLECTED"
    [] OTHER -> "EFFECTIVE"

\* setDraft and previewMutation.reset(): the observer lets go of a preview in flight.
Edit(p, draft) ==
  /\ edits < MaxEdits
  /\ PanelShown(p)
  /\ edits' = edits + 1
  /\ page' = [page EXCEPT ![p].draft = draft, ![p].previewData = Null]
  /\ call' = [call EXCEPT ![p]["preview"] = NoCall]
  /\ UNCHANGED <<database, inTurn, requests, lost, toggles>>

\* The updaters of these three return the draft they are given when it is null.
OfCurrent(p, changed) ==
  IF page[p].draft = Null THEN Null ELSE changed

ToggleBranch(p, b) ==
  /\ Draft(p).branchMode = "SELECTED"
  /\ b \in Ids(Active(page[p].view.branches))
  /\ Edit(p, OfCurrent(p, [page[p].draft EXCEPT
       !.branchIds = IF b \in Range(@) THEN At(@, {i \in DOMAIN @ : @[i] # b})
                                         ELSE Append(@, b)]))

ToggleMonth(p, m) ==
  Edit(p, OfCurrent(p, [page[p].draft EXCEPT
    !.turnoverMonths = IF m \in @ THEN @ \ {m} ELSE @ \cup {m}]))

ChooseMode(p, mode) ==
  /\ mode # Draft(p).branchMode
  /\ Edit(p, OfCurrent(p, [page[p].draft EXCEPT
       !.branchMode = mode, !.branchIds = IdsUnderMode(mode, @)]))

ToggleDaily(p) == Edit(p, [Draft(p) EXCEPT !.dailyTurnover = ~ @])

ToggleSalePrice(p) == Edit(p, [Draft(p) EXCEPT !.salePrice = ~ @])

Send(p, s, input) ==
  /\ requests < MaxRequests
  /\ call[p][s] = NoCall
  /\ requests' = requests + 1
  /\ call' = [call EXCEPT ![p][s] = Sent(input)]
  /\ UNCHANGED <<database, inTurn, edits, lost>>

\* mutate() drops what the mutation held before.
ClickPreview(p) ==
  /\ PanelShown(p)
  /\ Send(p, "preview", Draft(p))
  /\ page' = [page EXCEPT ![p].previewData = Null]
  /\ UNCHANGED toggles

ClickSave(p) ==
  /\ PanelShown(p) /\ Changed(p)
  /\ Send(p, "save", Draft(p))
  /\ page' = [page EXCEPT ![p].saveData = Null]
  /\ UNCHANGED toggles

ClickReset(p) ==
  /\ PanelShown(p) /\ page[p].view.source = "SAVED"
  /\ Send(p, "reset", Null)
  /\ UNCHANGED <<page, toggles>>

\* The toggle sends the opposite of what the page's list shows.
ClickToggle(p) ==
  /\ Open(p) /\ "branches" \notin page[p].failed
  /\ \E i \in DOMAIN page[p].list :
       Send(p, "toggle", [id |-> page[p].list[i].id, active |-> ~ page[p].list[i].active])
  /\ UNCHANGED <<page, toggles>>

\* The dialog: a new branch (id Null) or another code for a listed one.
SubmitBranch(p) ==
  /\ Open(p)
  /\ \E id \in {Null} \cup Ids(page[p].list), code \in Codes :
       Send(p, "edit", [id |-> id, code |-> code])
  /\ UNCHANGED <<page, toggles>>

ClickCompany(p) ==
  /\ lost + toggles < MaxUpsets
  /\ toggles' = toggles + 1
  /\ Send(p, "company", ~ page[p].catalog)
  /\ UNCHANGED page

-------------------------------------------------------------------------------
(* The handlers of apps/api, one step per await that matters.              *)

InHandler == {"validated", "written", "read", "in_use?", "checked"}

Begin(p, s) ==
  /\ call[p][s].step = "sent"
  /\ inTurn => \A q \in Pages, t \in Slots : call[q][t].step \notin InHandler

Within(p, s, step) == call[p][s].step = step

Continue(p, s, step, got) ==
  call' = [call EXCEPT ![p][s].step = step, ![p][s].got = got]

Refuse(p, s, code) == Continue(p, s, "error", code)

SaveValidates(p) ==
  LET configuration == Normalize507(call[p]["save"].input)
      verdict == IF enabled THEN Validate507(configuration, LoadBranches) ELSE "NOT_ENABLED"
  IN  /\ Begin(p, "save")
      /\ IF verdict = "ACCEPTED"
         THEN Continue(p, "save", "validated", configuration)
         ELSE Refuse(p, "save", verdict)
      /\ UNCHANGED <<database, page, counters>>

SaveUpserts(p) ==
  /\ Within(p, "save", "validated")
  /\ saved' = call[p]["save"].got
  /\ Continue(p, "save", "written", Null)
  /\ UNCHANGED <<branch, enabled, page, counters>>

PreviewAnswers(p) ==
  LET configuration == Normalize507(call[p]["preview"].input)
      verdict == IF enabled THEN Validate507(configuration, LoadBranches) ELSE "NOT_ENABLED"
  IN  /\ Begin(p, "preview")
      /\ IF verdict = "ACCEPTED"
         THEN Continue(p, "preview", "answered",
                [configuration |-> configuration, branches |-> LoadBranches])
         ELSE Refuse(p, "preview", verdict)
      /\ UNCHANGED <<database, page, counters>>

ResetDeletes(p) ==
  /\ Begin(p, "reset")
  /\ IF enabled
     THEN saved' = Null /\ Continue(p, "reset", "written", Null)
     ELSE saved' = saved /\ Refuse(p, "reset", "NOT_ENABLED")
  /\ UNCHANGED <<branch, enabled, page, counters>>

\* getRoutine507WithClient, which ends save and reset.
ViewAnswers(p, s) ==
  /\ s \in {"save", "reset"} /\ Within(p, s, "written")
  /\ Continue(p, s, "answered", View)
  /\ UNCHANGED <<database, page, counters>>

QueryAnswers(p) ==
  /\ Begin(p, "routine507")
  /\ IF enabled
     THEN Continue(p, "routine507", "answered", View)
     ELSE Refuse(p, "routine507", "NOT_ENABLED")
  /\ UNCHANGED <<database, page, counters>>

ListAnswers(p) ==
  /\ Begin(p, "branches")
  /\ Continue(p, "branches", "answered", LoadBranches)
  /\ UNCHANGED <<database, page, counters>>

\* update: reads the branch, looks at the configuration only to deactivate
\* an active one, then writes.
UpdateReads(p) ==
  LET row == branch[call[p]["toggle"].input.id]
      deactivates == row.active /\ ~ call[p]["toggle"].input.active
  IN  /\ Begin(p, "toggle")
      /\ Continue(p, "toggle", IF deactivates THEN "in_use?" ELSE "checked", Null)
      /\ UNCHANGED <<database, page, counters>>

\* Mutant: the mode is compared the wrong way round.
ReferencesUnselected(settings, id) ==
  settings # Null /\ settings.branchMode # "SELECTED" /\ id \in Range(settings.branchIds)

ReferencesBranch(settings, id) ==
  settings # Null /\ settings.branchMode = "SELECTED" /\ id \in Range(settings.branchIds)

UpdateChecksUse(p) ==
  /\ Within(p, "toggle", "in_use?")
  /\ IF ReferencesBranch(saved, call[p]["toggle"].input.id)
     THEN Refuse(p, "toggle", "WINTHOR_BRANCH_IN_USE")
     ELSE Continue(p, "toggle", "checked", Null)
  /\ UNCHANGED <<database, page, counters>>

UpdateWrites(p) ==
  LET input == call[p]["toggle"].input
  IN  /\ Within(p, "toggle", "checked")
      /\ branch' = [branch EXCEPT ![input.id].active = input.active]
      /\ Continue(p, "toggle", "answered", Null)
      /\ UNCHANGED <<saved, enabled, page, counters>>

CodeIsTaken(code, except) ==
  \E b \in Branches \ {except} : branch[b] # Null /\ branch[b].code = code

\* create, and update of a code: one write under @@unique([instance, code]).
WriteBranch(p) ==
  LET input == call[p]["edit"].input
  IN  /\ Begin(p, "edit")
      /\ \/ /\ CodeIsTaken(input.code, input.id)
            /\ Refuse(p, "edit", "WINTHOR_BRANCH_CODE_CONFLICT")
            /\ UNCHANGED branch
         \/ /\ ~ CodeIsTaken(input.code, input.id)
            /\ input.id # Null
            /\ branch' = [branch EXCEPT ![input.id].code = input.code]
            /\ Continue(p, "edit", "answered", Null)
         \/ /\ ~ CodeIsTaken(input.code, input.id)
            /\ input.id = Null
            /\ \E b \in {c \in Branches : branch[c] = Null} :
                 branch' = [branch EXCEPT ![b] = [code |-> input.code, active |-> TRUE]]
            /\ Continue(p, "edit", "answered", Null)
      /\ UNCHANGED <<saved, enabled, page, counters>>

UpdateCompany(p) ==
  /\ Begin(p, "company")
  /\ enabled' = call[p]["company"].input
  /\ Continue(p, "company", "answered", call[p]["company"].input)
  /\ UNCHANGED <<branch, saved, page, counters>>

-------------------------------------------------------------------------------
(* The answers at the page, as the query library applies them.             *)

\* invalidateQueries: a query on the page is fetched again, in place of the
\* fetch in flight; one that is not is only marked.
Invalidate(p, pg, s, queries) ==
  /\ page' = [page EXCEPT ![p] = IF pg.catalog THEN pg ELSE [pg EXCEPT !.stale = @ \cup queries]]
  /\ call' = [call EXCEPT ![p] = [t \in Slots |->
                IF t \in queries /\ pg.catalog THEN Sent(Null)
                ELSE IF t = s THEN NoCall ELSE call[p][t]]]

Answered(p, s) == Within(p, s, "answered")

\* The panels leave the page: their state goes, their mutations run on unobserved.
Unmounted(pg) == [pg EXCEPT !.draft = Null, !.saveData = Null, !.previewData = Null]

Detached(p, s) ==
  IF s \in {"save", "reset"} THEN [call[p][s] EXCEPT !.attached = FALSE]
  ELSE IF s = "preview" THEN NoCall ELSE call[p][s]

\* The panels come on the page: stale data is fetched again, and so is data
\* older than staleTime.
MountedCalls(p, due) ==
  [s \in Slots |-> IF s \in due /\ call[p][s] = NoCall THEN Sent(Null) ELSE Detached(p, s)]

SaveOnSuccess(p) ==
  LET got == call[p]["save"].got
      pg == IF call[p]["save"].attached
            THEN [page[p] EXCEPT !.draft = got.configuration, !.saveData = got]
            ELSE page[p]
  IN  /\ Answered(p, "save")
      /\ Invalidate(p, pg, "save", {"routine507"})
      /\ UNCHANGED <<database, counters>>

PreviewOnSuccess(p) ==
  /\ Answered(p, "preview")
  /\ page' = [page EXCEPT ![p].previewData = call[p]["preview"].got]
  /\ call' = [call EXCEPT ![p]["preview"] = NoCall]
  /\ UNCHANGED <<database, counters>>

\* onSuccess also resets the preview mutation: one in flight is let go.
ResetOnSuccess(p) ==
  LET got == call[p]["reset"].got
      attached == call[p]["reset"].attached
      pg == IF attached
            THEN [page[p] EXCEPT !.draft = got.configuration, !.previewData = Null]
            ELSE page[p]
  IN  /\ Answered(p, "reset")
      /\ page' = [page EXCEPT ![p] =
                    IF pg.catalog THEN pg ELSE [pg EXCEPT !.stale = @ \cup {"routine507"}]]
      /\ call' = [call EXCEPT
                    ![p]["reset"] = NoCall,
                    ![p]["preview"] = IF attached THEN NoCall ELSE @,
                    ![p]["routine507"] = IF pg.catalog THEN Sent(Null) ELSE @]
      /\ UNCHANGED <<database, counters>>

\* Mutant: refreshes the list of branches only.
RefreshList(p, s) ==
  /\ s \in {"toggle", "edit"} /\ Answered(p, s)
  /\ Invalidate(p, page[p], s, {"branches"})
  /\ UNCHANGED <<database, counters>>

\* refresh() of the branches panel, after its two mutations.
BranchOnSuccess(p, s) ==
  /\ s \in {"toggle", "edit"} /\ Answered(p, s)
  /\ Invalidate(p, page[p], s, Queries)
  /\ UNCHANGED <<database, counters>>

QueryOnSuccess(p, q) ==
  LET fresh == [page[p] EXCEPT !.stale = @ \ {q}, !.failed = @ \ {q}]
      got == call[p][q].got
  IN  /\ q \in Queries /\ Answered(p, q)
      /\ page' = [page EXCEPT ![p] =
                    IF q = "routine507" THEN [fresh EXCEPT !.view = got]
                    ELSE [fresh EXCEPT !.list = got]]
      /\ call' = [call EXCEPT ![p][q] = NoCall]
      /\ UNCHANGED <<database, counters>>

CompanyOnSuccess(p) ==
  LET on == call[p]["company"].got
      pg == IF on THEN page[p] ELSE Unmounted(page[p])
      calls == IF on THEN MountedCalls(p, page[p].stale) ELSE [s \in Slots |-> Detached(p, s)]
  IN  /\ Answered(p, "company")
      /\ page' = [page EXCEPT ![p] = [pg EXCEPT !.catalog = on]]
      /\ call' = [call EXCEPT ![p] = [calls EXCEPT !["company"] = NoCall]]
      /\ UNCHANGED <<database, counters>>

\* The administrator selects another environment and comes back.
SwitchEnvironment(p) ==
  /\ Open(p)
  /\ lost + toggles < MaxUpsets
  /\ toggles' = toggles + 1
  /\ \E old \in SUBSET Queries :
       call' = [call EXCEPT ![p] = MountedCalls(p, page[p].stale \cup old)]
  /\ page' = [page EXCEPT ![p] = Unmounted(page[p])]
  /\ UNCHANGED <<database, inTurn, edits, requests, lost>>

\* request() of the API client throws: the API refused, or its answer was lost.
OnError(p, s) ==
  /\ call' = [call EXCEPT ![p][s] = NoCall]
  /\ page' = [page EXCEPT ![p] =
                IF s \in Queries
                THEN [page[p] EXCEPT !.failed = @ \cup {s}, !.stale = @ \cup {s}]
                ELSE page[p]]
  /\ UNCHANGED database

ErrorAnswer(p, s) == Within(p, s, "error") /\ OnError(p, s) /\ UNCHANGED counters

AnswerLost(p, s) ==
  /\ lost + toggles < MaxUpsets
  /\ lost' = lost + 1
  /\ Answered(p, s)
  /\ OnError(p, s)
  /\ UNCHANGED <<inTurn, edits, requests, toggles>>

-------------------------------------------------------------------------------
NewPage ==
  [catalog |-> TRUE, view |-> View, list |-> LoadBranches, stale |-> {}, failed |-> {},
   draft |-> Null, saveData |-> Null, previewData |-> Null]

\* An environment in use: some branches that run together, a configuration
\* that was accepted, and pages that have loaded their queries.
Init ==
  /\ branch \in [Branches -> {Null} \cup [code: Codes, active: {TRUE}]]
  /\ \A b, c \in Branches : b # c /\ branch[b] # Null /\ branch[c] # Null
       => CodePart[branch[b].code] # CodePart[branch[c].code]
  /\ saved \in {Null} \cup
       {[DEFAULT_507 EXCEPT !.branchMode = "SELECTED", !.branchIds = <<b>>] : b \in Branches}
  /\ saved # Null => Validate507(saved, LoadBranches) = "ACCEPTED"
  /\ enabled = TRUE
  /\ page = [p \in Pages |-> NewPage]
  /\ call = [p \in Pages |-> [s \in Slots |-> NoCall]]
  /\ inTurn \in BOOLEAN
  /\ edits = 0 /\ requests = 0 /\ lost = 0 /\ toggles = 0

Clicks(p) ==
  \/ \E b \in Branches : ToggleBranch(p, b)
  \/ \E m \in Months : ToggleMonth(p, m)
  \/ \E mode \in Modes : ChooseMode(p, mode)
  \/ ToggleDaily(p)
  \/ ToggleSalePrice(p)
  \/ ClickPreview(p)
  \/ ClickSave(p)
  \/ ClickReset(p)
  \/ ClickToggle(p)
  \/ SubmitBranch(p)
  \/ ClickCompany(p)
  \/ SwitchEnvironment(p)

Handles(p) ==
  \/ SaveValidates(p)
  \/ SaveUpserts(p)
  \/ PreviewAnswers(p)
  \/ ResetDeletes(p)
  \/ \E s \in Slots : ViewAnswers(p, s)
  \/ QueryAnswers(p)
  \/ ListAnswers(p)
  \/ UpdateReads(p)
  \/ UpdateChecksUse(p)
  \/ UpdateWrites(p)
  \/ WriteBranch(p)
  \/ UpdateCompany(p)

Arrives(p) ==
  \/ SaveOnSuccess(p)
  \/ PreviewOnSuccess(p)
  \/ ResetOnSuccess(p)
  \/ \E s \in Slots : BranchOnSuccess(p, s)
  \/ \E q \in Queries : QueryOnSuccess(p, q)
  \/ CompanyOnSuccess(p)
  \/ \E s \in Slots : ErrorAnswer(p, s)
  \/ \E s \in Slots : AnswerLost(p, s)

Next == \E p \in Pages : Clicks(p) \/ Handles(p) \/ Arrives(p)

Spec == Init /\ [][Next]_vars

-------------------------------------------------------------------------------
Lists == Seq([id: Branches, code: Codes, active: BOOLEAN])
Previews == [configuration: Configurations, branches: Lists]
Views == [configuration: Configurations, branches: Lists, source: {"DEFAULT", "SAVED"}]
PageStates ==
  [catalog: BOOLEAN, view: Views, list: Lists, stale: SUBSET Queries, failed: SUBSET Queries,
   draft: {Null} \cup Configurations, saveData: {Null} \cup Views,
   previewData: {Null} \cup Previews]

\* The tables hold what their columns may hold, a page what its queries return.
TypeOK ==
  /\ branch \in [Branches -> {Null} \cup [code: Codes, active: BOOLEAN]]
  /\ saved \in {Null} \cup Configurations
  /\ enabled \in BOOLEAN /\ inTurn \in BOOLEAN
  /\ page \in [Pages -> PageStates]

\* A saved selection of branches can always be run: saveRoutine507 accepts
\* active branches only, and update refuses to deactivate one of a saved
\* selection ("Remova esta filial da configuração da rotina 507 antes de
\* desativá-la").  It holds as long as calls are served one at a time, which
\* nothing in the code sees to.
SelectionStaysRunnable ==
  inTurn /\ enabled /\ saved # Null /\ saved.branchMode = "SELECTED" =>
    RunOutcome.code = "CREATED"

\* What the panel says of the mode ALL_ACTIVE: "Ao cadastrar uma nova filial
\* ativa, os próximos Runs da 507 já incluirão suas etapas."  Every chosen
\* operation has its step for every active branch in a run requested now.
EveryActiveBranchRuns ==
  enabled /\ Effective.branchMode = "ALL_ACTIVE" =>
    \A b \in {c \in Branches : branch[c] # Null /\ branch[c].active} :
      LET ofBranch == {i \in DOMAIN RunOutcome.steps : RunOutcome.steps[i].branch = branch[b].code}
      IN  Cardinality(ofBranch) =
            Cardinality(Effective.turnoverMonths)
              + (IF Effective.dailyTurnover THEN 1 ELSE 0)
              + (IF Effective.salePrice THEN 1 ELSE 0)

\* When nothing of the only page is in flight any more, its two caches are the
\* database: each mutation invalidates all it changed, and no fetch that read
\* before it survives it.  An answer that is lost takes its refresh with it, and
\* while the panels are off the page an invalidation only marks the cache, which
\* the answer of an earlier fetch unmarks.
SettledPageIsCurrent ==
  lost = 0 /\ toggles = 0 =>
    \A p \in Pages :
      PanelShown(p) /\ (\A s \in Slots : call[p][s] = NoCall) =>
        page[p].view = View /\ page[p].list = LoadBranches

\* "Esta é a sequência atualmente efetiva." is said over the steps of the
\* configuration in force as the page last read it.
EffectiveSequenceIsShown ==
  \A p \in Pages :
    PanelShown(p) /\ Caption(p) = "EFFECTIVE"
      /\ (\A s \in Slots : call[p][s] = NoCall)
      => ShownPreview(p) = StepsOfView(page[p].view)

\* "Preview calculado para as alterações atuais." is said over the preview of
\* the draft that is on the page.
PreviewIsOfTheDraft ==
  \A p \in Pages :
    PanelShown(p) /\ Caption(p) = "OF_CURRENT_CHANGES" =>
      page[p].previewData.configuration = Normalize507(Draft(p))

\* A click on a month ("Escolha os meses/offsets que devem ser recalculados
\* para cada filial.") changes the draft the page shows.
MonthClicksCount ==
  [][\A p \in Pages, m \in Months : ToggleMonth(p, m) => Draft(p)' # Draft(p)]_vars
===============================================================================
