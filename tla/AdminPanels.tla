---------------------------- MODULE AdminPanels ----------------------------
(***************************************************************************)
(* The panels of central-admin/src/components (and app/tenants/new): React *)
(* components that keep a list, sometimes a selection and the details      *)
(* (events, KYC documents) of one row, and change rows by fetch calls to   *)
(* the BFF.  An async handler goes on when its answer arrives, so that the *)
(* calls of several clicks interleave.  A panel is a record that says what *)
(* its buttons do; two lists fetched by Promise.all are one here.          *)
(***************************************************************************)
EXTENDS Naturals, Sequences

CONSTANTS
  Rows,            \* keys of modules, plugins, providers, applications ...
  NoRow,
  Calls,           \* handlers that may be under way
  MaxChanges       \* bound on the changes a server accepts

\* null: no row is selected, busy or shown.
ASSUME PanelsAssumption == NoRow \notin Rows

VARIABLES
  panel,           \* which panel this is
  habit,           \* "patient": the next click waits until all is quiet; "hasty"
  stored,          \* how many changes the server's rows have seen
  list,            \* ... and how many the rows shown have
  selected,        \* selectedKey, selectedApplicationId, selectedId
  detailOf,        \* the row whose events or documents are shown
  busy,            \* busyKey; where it is a Boolean, the row stands for TRUE
  call,            \* the fetch each handler awaits
  missed           \* ghost: "change", "load": one threw or a load gave nothing; "rows": a
                   \* refused change altered rows that were not loaded since

panelVars == <<panel, habit, stored, list, selected, detailOf, busy, call, missed>>
-----------------------------------------------------------------------------
(* A change: on any row or on the selected one only; whether it alters what the list *)
(* shows; what is loaded after it was done and after it was refused; whether its     *)
(* answer carries the new rows.                                                      *)
Change(on, alters, done, refused) ==
  [on |-> on, alters |-> alters, done |-> done, refused |-> refused, carries |-> FALSE]
(* A panel: a busy flag per row or one for all; loads details on selection; a refresh *)
(* button; a refresh that also selects; its changes.                                  *)
Panel(keyed, details, toolbar, selects, changes) ==
  [keyed |-> keyed, details |-> details, toolbar |-> toolbar, selects |-> selects,
   changes |-> changes]

ModulePanel == Panel(TRUE, TRUE, TRUE, FALSE,
  {Change("any", TRUE, <<"list", "detail">>, <<"detail">>),
   Change("selected", FALSE, <<"detail">>, <<>>)})
PluginPanel == Panel(TRUE, TRUE, TRUE, FALSE,
  {Change("any", TRUE, <<"list", "detail">>, <<"detail">>),
   Change("selected", FALSE, <<"detail">>, <<>>)})
VaultPanel == Panel(FALSE, TRUE, TRUE, TRUE,
  {Change("selected", TRUE, <<"list">>, <<>>),
   Change("selected", TRUE, <<"list", "detail">>, <<>>)})
OnboardingPanel == Panel(FALSE, TRUE, FALSE, TRUE,
  {Change("any", TRUE, <<"list", "detail">>, <<>>),
   Change("selected", TRUE, <<"list", "detail">>, <<>>)})
KycPanel == Panel(FALSE, FALSE, FALSE, TRUE, {Change("selected", TRUE, <<"list">>, <<>>)})
ThemePanel == Panel(FALSE, FALSE, TRUE, FALSE, {Change("any", FALSE, <<>>, <<>>)})
DemoPanel == Panel(FALSE, FALSE, FALSE, FALSE,
  {[Change("any", TRUE, <<>>, <<>>) EXCEPT !.carries = TRUE]})
NewTenantPage == Panel(FALSE, FALSE, FALSE, FALSE, {Change("any", FALSE, <<>>, <<>>)})

(* The others: any row, a refresh after the change, and nothing else. *)
ListPanel == Panel(FALSE, FALSE, FALSE, FALSE, {Change("any", TRUE, <<"list">>, <<>>)})
SellerDetailPanel == ListPanel
CatalogProductsPanel == ListPanel
CatalogProductDetailPanel == ListPanel
CatalogCategoriesPanel == ListPanel
OrderOperationsPanel == ListPanel
OrderDetailPanel == ListPanel
OrderReturnsPanel == ListPanel
OrderRefundsPanel == ListPanel

Panels ==
  {ModulePanel, PluginPanel, VaultPanel, OnboardingPanel, KycPanel, ThemePanel, DemoPanel,
   NewTenantPage, SellerDetailPanel, CatalogProductsPanel, CatalogProductDetailPanel,
   CatalogCategoriesPanel, OrderOperationsPanel, OrderDetailPanel, OrderReturnsPanel,
   OrderRefundsPanel}
-----------------------------------------------------------------------------
NoCall == [to |-> "none"]
Changing(t) == call[t].to = "change"
Quiet == \A t \in Calls : call[t] = NoCall

(* A page is rendered with the rows as they are, and the first of them selected. *)
PanelsInit ==
  /\ panel \in Panels /\ habit \in {"patient", "hasty"}
  /\ stored = 0 /\ list = 0
  /\ selected \in Rows /\ detailOf = NoRow /\ busy = NoRow
  /\ call = [t \in Calls |-> NoCall]
  /\ missed = {}

MayClick(t) == call[t] = NoCall /\ (habit = "patient" => Quiet)

(* disabled={busyKey === key} or disabled={busy} *)
EnabledFor(row) == IF panel.keyed THEN busy # row ELSE busy = NoRow

(* A handler that changes a row: busy, then the fetch. *)
ClickChange(t, row, change) ==
  /\ MayClick(t) /\ EnabledFor(row)
  /\ change \in panel.changes /\ (change.on = "selected" => row = selected)
  /\ busy' = row
  /\ call' = [call EXCEPT ![t] =
       [to |-> "change", row |-> row, change |-> change, stage |-> "sent"]]
  /\ UNCHANGED <<panel, habit, stored, list, selected, detailOf, missed>>

Load(what, row, rest) == [to |-> what, row |-> row, rest |-> rest, stage |-> "sent"]

(* loadEvents, loadDocuments: select, then fetch.  Never disabled. *)
ClickRow(t, row) ==
  /\ MayClick(t) /\ panel.details
  /\ selected' = row
  /\ call' = [call EXCEPT ![t] = Load("detail", row, <<>>)]
  /\ UNCHANGED <<panel, habit, stored, list, detailOf, busy, missed>>

(* A click that only selects (KYC). *)
SelectRow(row) ==
  /\ panel.selects /\ ~panel.details /\ (habit = "patient" => Quiet)
  /\ selected' = row
  /\ UNCHANGED <<panel, habit, stored, list, detailOf, busy, call, missed>>

(* The refresh button.  Never disabled; the selection of now is its default argument. *)
ClickRefresh(t) ==
  /\ MayClick(t) /\ panel.toolbar
  /\ call' = [call EXCEPT ![t] = Load("list", selected, <<>>)]
  /\ UNCHANGED <<panel, habit, stored, list, selected, detailOf, busy, missed>>

(* The call is handled: a change is accepted or refused, a load is read.  A refused   *)
(* change may have altered the rows: a credential's test stores what it found before  *)
(* it answers 422, a demo seed reads its status after COMMIT, and the BFF answers 500 *)
(* when it loses the gateway's answer.                                                *)
Serve(t) ==
  /\ call[t] # NoCall /\ call[t].stage = "sent"
  /\ \E ok, altered \in BOOLEAN :
       /\ altered => Changing(t) /\ call[t].change.alters
       /\ ok /\ Changing(t) /\ call[t].change.alters => altered
       /\ stored' = IF altered THEN stored + 1 ELSE stored
       /\ stored' <= MaxChanges
       /\ missed' = IF altered /\ ~ok THEN missed \union {"rows"} ELSE missed
       /\ call' = [call EXCEPT ![t] =
            [f \in DOMAIN @ \union {"ok", "rows"} |->
               CASE f = "stage" -> "served" [] f = "ok" -> ok [] f = "rows" -> stored'
                 [] OTHER -> @[f]]]
  /\ UNCHANGED <<panel, habit, list, selected, detailOf, busy>>

Answered(t) == call[t] # NoCall /\ call[t].stage = "served"
(* The handler's next fetch, if there is one; loading details selects their row. *)
GoOn(t, rest) ==
  call' = [call EXCEPT ![t] =
    IF rest = <<>> THEN NoCall ELSE Load(Head(rest), @.row, Tail(rest))]
SelectedNext(t, rest, now) == IF rest # <<>> /\ Head(rest) = "detail" THEN call[t].row ELSE now

(* Rows that arrived are shown, whatever was shown before. *)
Shown(arrived, rows, misses) ==
  /\ list' = IF arrived THEN rows ELSE list
  /\ missed' = IF arrived THEN misses \ {"rows"} ELSE misses

\* Mutant: the flag is reset only when the change was accepted.
ChangeAnsweredIfOk(t) ==
  /\ Answered(t) /\ Changing(t)
  /\ busy' = IF call[t].ok THEN NoRow ELSE busy
  /\ LET rest == IF call[t].ok THEN call[t].change.done ELSE call[t].change.refused
     IN GoOn(t, rest) /\ selected' = SelectedNext(t, rest, selected)
  /\ Shown(call[t].ok /\ call[t].change.carries, call[t].rows, missed)
  /\ UNCHANGED <<panel, habit, stored, detailOf>>

(* The flag is reset before anything is loaded again, whoever set it last. *)
ChangeAnswered(t) ==
  /\ Answered(t) /\ Changing(t)
  /\ busy' = NoRow
  /\ LET rest == IF call[t].ok THEN call[t].change.done ELSE call[t].change.refused
     IN GoOn(t, rest) /\ selected' = SelectedNext(t, rest, selected)
  /\ Shown(call[t].ok /\ call[t].change.carries, call[t].rows, missed)
  /\ UNCHANGED <<panel, habit, stored, detailOf>>

(* refreshModules, refreshProviders, ...: a refused refresh shows its error, and the *)
(* handler goes on.                                                                  *)
ListAnswered(t) ==
  /\ Answered(t) /\ call[t].to = "list"
  /\ Shown(call[t].ok, call[t].rows, IF call[t].ok THEN missed ELSE missed \union {"load"})
  /\ selected' = SelectedNext(t, call[t].rest,
       IF call[t].ok /\ panel.selects THEN call[t].row ELSE selected)
  /\ GoOn(t, call[t].rest)
  /\ UNCHANGED <<panel, habit, stored, detailOf, busy>>

(* The details are shown whatever is selected by now. *)
DetailAnswered(t) ==
  /\ Answered(t) /\ call[t].to = "detail"
  /\ detailOf' = IF call[t].ok THEN call[t].row ELSE detailOf
  /\ GoOn(t, call[t].rest)
  /\ missed' = IF call[t].ok THEN missed ELSE missed \union {"load"}
  /\ UNCHANGED <<panel, habit, stored, list, selected, busy>>

(* The fetch rejects: the call or its answer is lost.  No handler catches it. *)
FetchThrows(t) ==
  /\ call[t] # NoCall
  /\ missed' = missed \union {IF Changing(t) THEN "change" ELSE "load"}
  /\ call' = [call EXCEPT ![t] = NoCall]
  /\ UNCHANGED <<panel, habit, stored, list, selected, detailOf, busy>>

PanelsNext ==
  \/ \E row \in Rows : SelectRow(row)
  \/ \E t \in Calls :
       \/ \E row \in Rows : ClickRow(t, row) \/ \E c \in panel.changes : ClickChange(t, row, c)
       \/ ClickRefresh(t) \/ Serve(t)
       \/ ChangeAnswered(t) \/ ListAnswered(t) \/ DetailAnswered(t) \/ FetchThrows(t)
-----------------------------------------------------------------------------
(* Where one flag disables every button, one change is under way at a time (with a    *)
(* flag per row that fails: another row's answer resets it).  Buttons stay disabled   *)
(* with nothing under way only after a change threw.  For an operator who waits,      *)
(* unless a call was lost or a load refused, the panel ends up showing the details of *)
(* the selected row and no other's, and the server's rows: all that it may miss is    *)
(* what refused changes altered since rows were last loaded.                          *)
PanelsComeToRest ==
  /\ ~panel.keyed => \A t, u \in Calls : Changing(t) /\ Changing(u) => t = u
  /\ busy # NoRow /\ ~(\E t \in Calls : Changing(t)) => "change" \in missed
  /\ habit = "patient" /\ Quiet /\ missed \intersect {"change", "load"} = {} =>
       /\ detailOf \in {NoRow, selected}
       /\ "rows" \in missed \/ list = stored
=============================================================================
