----------------------------- MODULE Migration -----------------------------
(***************************************************************************)
(* A migration project: steps that wrap import batches                     *)
(* (server/src/migration-hub.ts, migration-accounting.ts and imports.ts).  *)
(*                                                                         *)
(* A batch is staged, then committed in one transaction that claims it by  *)
(* its status.  A step is staged after its batch and marked committed      *)
(* after it, each in a transaction of its own: a process may die between   *)
(* any two, and the batch of a step is also within reach of the            *)
(* self-service import.  A file says how often every name occurs in it and *)
(* whether a trial balance made of it would balance.                       *)
(***************************************************************************)
EXTENDS Integers, FiniteSets, FiniteSetsExt

CONSTANTS Batches, Steps, Clerks, Names, Files, None

ASSUME MigrationConstants ==
  /\ \A f \in Files : f.count \in [Names -> Nat] /\ f.sound \in BOOLEAN
  /\ None \notin Batches \cup Steps
  /\ IsFiniteSet(Batches) /\ IsFiniteSet(Names)

VARIABLES
  project,    \* open or closed, signed off or not
  step,       \* migration_steps
  batch,      \* import_batches with the rows found valid
  records,    \* what imports created: contacts, products, stock, open items, bank lines
  used,       \* records other documents refer to
  opening,    \* opening balances posted for a step, less those reversed
  clerk,      \* the request every process has in hand
  blind       \* history: step and batch have been taken apart

vars == <<project, step, batch, records, used, opening, clerk, blind>>

SelfService == {"contacts", "products", "opening_stock", "bank"}
StepKinds == {"contacts", "products", "opening_stock", "opening_trial_balance", "open_items"}
Kinds == SelfService \cup StepKinds

\* A row is a name and which of its occurrences in the file it is.
Row == Names \X (Nat \ {0})

Step ==
  [status : {"ABSENT", "STAGED", "COMMITTED", "ROLLED_BACK", "DISCARDED"},
   kind : Kinds, batch : Batches \cup {None}, entry : BOOLEAN]

Batch ==
  [status : {"ABSENT", "PREVIEW", "COMPLETED", "CANCELLED"},
   kind : Kinds, file : Files \cup {None}, valid : SUBSET Row]

Record == [kind : Kinds, row : Row, batch : Batches]

Request ==
  [op : {"STAGE", "COMMIT", "DISCARD", "ROLLBACK", "CLOSE"},
   step : Steps \cup {None}, batch : Batches \cup {None}, imported : BOOLEAN]

ASSUME NoneIsNoRequest == None \notin Request

Init ==
  /\ project = [open |-> TRUE, signed |-> FALSE]
  /\ step = [s \in Steps |->
       [status |-> "ABSENT", kind |-> "contacts", batch |-> None, entry |-> FALSE]]
  /\ batch = [b \in Batches |->
       [status |-> "ABSENT", kind |-> "contacts", file |-> None, valid |-> {}]]
  /\ records = {} /\ used = {}
  /\ opening = [s \in Steps |-> 0]
  /\ clerk = [c \in Clerks |-> None]
  /\ blind = FALSE

Of(kind) == {r \in records : r.kind = kind}
Made(b) == {r \in records : r.batch = b}
Named(kind, n) == \E r \in Of(kind) : r.row[1] = n

Begin(c, op, s) ==
  /\ clerk[c] = None
  /\ clerk' = [clerk EXCEPT ![c] = [op |-> op, step |-> s, batch |-> None, imported |-> FALSE]]
At(c, op) == clerk[c] # None /\ clerk[c].op = op
Done(c) == clerk' = [clerk EXCEPT ![c] = None]
Rest(holds) == blind' = (blind \/ ~holds)

\* A step whose batch is imported and which does not know it yet.
UnderWay(s) == \E c \in Clerks : At(c, "COMMIT") /\ clerk[c].step = s

\* A refusal, an error or a crash.
Fail(c) ==
  /\ clerk[c] # None
  /\ Rest(clerk[c].imported => step[clerk[c].step].status # "STAGED")
  /\ Done(c)
  /\ UNCHANGED <<project, step, batch, records, used, opening>>

----------------------------------------------------------------------------
(* Batches.                                                                *)

First(f) == {<<n, 1>> : n \in {n \in Names : f.count[n] > 0}}

\* The rows a preview finds valid: neither repeated, unknown nor there already.
NewContacts(f) == {row \in First(f) : ~Named("contacts", row[1])}
NewProducts(f) == {row \in First(f) : ~Named("products", row[1])}
StockOfProducts(f) ==
  {row \in First(f) : Named("products", row[1]) /\ ~Named("opening_stock", row[1])}
Balances(f) == First(f)
OpenItems(f) == First(f)

\* Equal lines of a statement are told apart by counting them.
NewLines(f) ==
  {row \in Names \X (1..Max({f.count[n] : n \in Names})) :
     row[2] <= f.count[row[1]] /\ \A r \in Of("bank") : r.row # row}

Valid(kind, f) ==
  CASE kind = "contacts" -> NewContacts(f)
    [] kind = "products" -> NewProducts(f)
    [] kind = "opening_stock" -> StockOfProducts(f)
    [] kind = "opening_trial_balance" -> Balances(f)
    [] kind = "open_items" -> OpenItems(f)
    [] kind = "bank" -> NewLines(f)

Staged(b, kind, f) ==
  /\ batch[b].status = "ABSENT"
  /\ batch' = [batch EXCEPT ![b] =
       [status |-> "PREVIEW", kind |-> kind, file |-> f, valid |-> Valid(kind, f)]]

\* Faulty variant: a cancelled batch can still be claimed.
ClaimableEver(b) == batch[b].status \in {"PREVIEW", "CANCELLED"}

\* UPDATE ... WHERE status = 'PREVIEW'
Claimable(b) == batch[b].status = "PREVIEW"

\* Product codes are unique.
ProductsFit(b) == \A row \in batch[b].valid : ~Named("products", row[1])

\* Opening stock needs its product and a shelf without history.
StockFits(b) ==
  /\ batch[b].valid # {}
  /\ \A row \in batch[b].valid : Named("products", row[1]) /\ ~Named("opening_stock", row[1])

\* A trial balance must be whole and balanced.
BalancesFit(b) == batch[b].valid # {} /\ batch[b].file.sound

LinesFit(b) == batch[b].valid # {}

Importable(b) ==
  /\ Claimable(b)
  /\ CASE batch[b].kind = "products" -> ProductsFit(b)
       [] batch[b].kind = "opening_stock" -> StockFits(b)
       [] batch[b].kind = "opening_trial_balance" -> BalancesFit(b)
       [] batch[b].kind = "bank" -> LinesFit(b)
       [] OTHER -> TRUE

\* Faulty variant: a bank line already there is imported again.
FreshAll(b) == batch[b].valid

\* onConflictDoNothing leaves out the bank lines imported meanwhile.
Fresh(b) ==
  {row \in batch[b].valid : batch[b].kind = "bank" => \A r \in Of("bank") : r.row # row}

Created(b) ==
  IF batch[b].kind = "opening_trial_balance" THEN {}
  ELSE {[kind |-> batch[b].kind, row |-> row, batch |-> b] : row \in Fresh(b)}

Imported(b) ==
  /\ Importable(b)
  /\ batch' = [batch EXCEPT ![b].status = "COMPLETED"]
  /\ records' = records \cup Created(b)

ImportPreview(b, kind, f) ==
  /\ Staged(b, kind, f)
  /\ UNCHANGED <<project, step, records, used, opening, clerk, blind>>

\* The self-service routes take any batch of their kind, also one of a step.
ImportCommit(b) ==
  /\ batch[b].kind \in SelfService
  /\ Imported(b)
  /\ Rest(\A s \in Steps : step[s].batch # b)
  /\ UNCHANGED <<project, step, used, opening, clerk>>

\* An invoice, an order or a movement refers to a record.
Use(r) ==
  /\ r \in records \ used /\ r.kind \in {"contacts", "products"}
  /\ used' = used \cup {r}
  /\ UNCHANGED <<project, step, batch, records, opening, clerk, blind>>

----------------------------------------------------------------------------
(* Steps.  Every handler first looks whether the project is open.          *)

\* previewStep
StageLook(c, b, kind, f) ==
  /\ project.open
  /\ clerk[c] = None
  /\ Staged(b, kind, f)
  /\ clerk' = [clerk EXCEPT ![c] = [op |-> "STAGE", step |-> None, batch |-> b, imported |-> FALSE]]
  /\ UNCHANGED <<project, step, records, used, opening, blind>>

StageCommit(c, s) ==
  /\ At(c, "STAGE") /\ step[s].status = "ABSENT"
  /\ step' = [step EXCEPT ![s] =
       [status |-> "STAGED", kind |-> batch[clerk[c].batch].kind, batch |-> clerk[c].batch,
        entry |-> FALSE]]
  /\ Rest(/\ project.open /\ ~\E d \in Clerks : At(d, "CLOSE")
          /\ batch[clerk[c].batch].status = "PREVIEW")
  /\ Done(c)
  /\ UNCHANGED <<project, batch, records, used, opening>>

\* commitStep: the look, ...
CommitLook(c, s) ==
  /\ project.open /\ step[s].status = "STAGED"
  /\ Begin(c, "COMMIT", s)
  /\ UNCHANGED <<project, step, batch, records, used, opening, blind>>

\* ... the batch, ...
CommitBatch(c) ==
  LET s == clerk[c].step
  IN /\ At(c, "COMMIT") /\ ~clerk[c].imported
     /\ Imported(step[s].batch)
     /\ opening' = IF step[s].kind = "opening_trial_balance"
                   THEN [opening EXCEPT ![s] = @ + 1] ELSE opening
     /\ clerk' = [clerk EXCEPT ![c].imported = TRUE]
     /\ Rest(project.open)
     /\ UNCHANGED <<project, step, used>>

\* ... and the step.
CommitMark(c) ==
  LET s == clerk[c].step
  IN /\ At(c, "COMMIT") /\ clerk[c].imported
     /\ step[s].status = "STAGED"
     /\ step' = [step EXCEPT ![s].status = "COMMITTED",
                             ![s].entry = step[s].kind = "opening_trial_balance"]
     /\ Done(c)
     /\ UNCHANGED <<project, batch, records, used, opening, blind>>

DiscardLook(c, s) ==
  /\ project.open /\ step[s].status # "ABSENT"
  /\ Begin(c, "DISCARD", s)
  /\ UNCHANGED <<project, step, batch, records, used, opening, blind>>

\* discardStep cancels the batch if it is still a preview.
DiscardCommit(c) ==
  LET s == clerk[c].step
      b == step[s].batch
  IN /\ At(c, "DISCARD") /\ step[s].status = "STAGED"
     /\ step' = [step EXCEPT ![s].status = "DISCARDED"]
     /\ batch' = IF batch[b].status = "PREVIEW"
                 THEN [batch EXCEPT ![b].status = "CANCELLED"] ELSE batch
     /\ Rest(project.open /\ batch[b].status = "PREVIEW")
     /\ Done(c)
     /\ UNCHANGED <<project, records, used, opening>>

RollbackLook(c, s) ==
  /\ project.open /\ step[s].status # "ABSENT"
  /\ Begin(c, "ROLLBACK", s)
  /\ UNCHANGED <<project, step, batch, records, used, opening, blind>>

\* Faulty variant: the reversal is left to the accountant.
ReversedNever(s) == opening

\* The records of a step leave unless something refers to them; opening stock
\* stays for good; a trial balance is reversed.
Removable(s) ==
  CASE step[s].kind = "opening_stock" -> FALSE
    [] step[s].kind = "products" ->
         \A r \in Made(step[s].batch) : r \notin used /\ ~Named("opening_stock", r.row[1])
    [] OTHER -> Made(step[s].batch) \cap used = {}

Reversed(s) ==
  IF step[s].kind = "opening_trial_balance" THEN [opening EXCEPT ![s] = @ - 1] ELSE opening

RollbackCommit(c) ==
  LET s == clerk[c].step
  IN /\ At(c, "ROLLBACK") /\ step[s].status = "COMMITTED"
     /\ Removable(s)
     /\ step[s].kind = "opening_trial_balance" => step[s].entry
     /\ step' = [step EXCEPT ![s].status = "ROLLED_BACK"]
     /\ records' = records \ Made(step[s].batch)
     /\ opening' = Reversed(s)
     /\ Rest(project.open)
     /\ Done(c)
     /\ UNCHANGED <<project, batch, used>>

SignOff ==
  /\ project.open /\ ~project.signed
  /\ project' = [project EXCEPT !.signed = TRUE]
  /\ UNCHANGED <<step, batch, records, used, opening, clerk, blind>>

\* Faulty variant: one settled step is enough.
SomeSettled == \E s \in Steps : step[s].status # "STAGED"
AllSettled == \A s \in Steps : step[s].status # "STAGED"

\* closeProject reads the steps before its transaction.
CloseLook(c) ==
  /\ project.open
  /\ AllSettled
  /\ Begin(c, "CLOSE", None)
  /\ UNCHANGED <<project, step, batch, records, used, opening, blind>>

CloseCommit(c) ==
  /\ At(c, "CLOSE")
  /\ project' = [project EXCEPT !.open = FALSE]
  /\ Done(c)
  /\ UNCHANGED <<step, batch, records, used, opening, blind>>

----------------------------------------------------------------------------

Next ==
  \/ \E b \in Batches, kind \in Kinds, f \in Files :
       \/ kind \in SelfService /\ ImportPreview(b, kind, f)
       \/ kind \in StepKinds /\ \E c \in Clerks : StageLook(c, b, kind, f)
  \/ \E b \in Batches : ImportCommit(b)
  \/ \E r \in records : Use(r)
  \/ \E c \in Clerks, s \in Steps :
       StageCommit(c, s) \/ CommitLook(c, s) \/ DiscardLook(c, s) \/ RollbackLook(c, s)
  \/ \E c \in Clerks :
       \/ CommitBatch(c) \/ CommitMark(c) \/ DiscardCommit(c) \/ RollbackCommit(c)
       \/ CloseLook(c) \/ CloseCommit(c) \/ Fail(c)
  \/ SignOff

MigrationSpec == Init /\ [][Next]_vars

----------------------------------------------------------------------------
(* Properties.                                                             *)

MigrationTypeOK ==
  /\ project \in [open : BOOLEAN, signed : BOOLEAN]
  /\ step \in [Steps -> Step]
  /\ batch \in [Batches -> Batch]
  /\ records \subseteq Record /\ used \subseteq records
  /\ \A s \in Steps : opening[s] \in 0..1
  /\ \A c \in Clerks : clerk[c] # None => clerk[c] \in Request
  /\ blind \in BOOLEAN

Rows(b) == {r.row : r \in Made(b)}
Nothing(s) == Made(step[s].batch) = {} /\ opening[s] = 0

\* What a step says of itself is so: COMMITTED, its rows are live and its opening
\* balances posted once; ROLLED_BACK, nothing of it is left; STAGED or DISCARDED,
\* nothing is there yet, unless a commit is under way or step and batch have been
\* taken apart.
StepTellsLive ==
  \A s \in Steps :
    /\ step[s].status = "COMMITTED" =>
         /\ batch[step[s].batch].status = "COMPLETED"
         /\ step[s].kind # "opening_trial_balance" => Rows(step[s].batch) = batch[step[s].batch].valid
         /\ step[s].kind = "opening_trial_balance" => opening[s] = 1
    /\ step[s].status = "ROLLED_BACK" => Nothing(s)
    /\ step[s].status \in {"STAGED", "DISCARDED"} => blind \/ UnderWay(s) \/ Nothing(s)

\* A step that was discarded or rolled back never brings anything in afterwards,
\* whichever commit is still on its way.
RetiredStepsStay ==
  [][\A s \in Steps : step[s].status \in {"DISCARDED", "ROLLED_BACK"} =>
       /\ Made(step[s].batch)' \subseteq Made(step[s].batch)
       /\ opening'[s] <= opening[s]]_vars

\* Bank statements that overlap bring in every line once and lose none, in
\* whatever order they are staged and approved: of equal lines there are as many
\* as in the fullest file.
LinesImportedOnce ==
  \A n \in Names :
    Cardinality({r \in Of("bank") : r.row[1] = n}) =
      Max({0} \cup {batch[b].file.count[n] :
             b \in {b \in Batches : batch[b].kind = "bank" /\ batch[b].status = "COMPLETED"}})

\* A closed project has no step left to commit or discard, as long as no step was
\* staged by a request that overlapped the close.
ClosedIsSettled ==
  ~blind /\ ~project.open => \A s \in Steps : step[s].status # "STAGED"

\* Steps and the records they stand for, on states of the right types.
MigrationSound == MigrationTypeOK /\ StepTellsLive
=============================================================================
