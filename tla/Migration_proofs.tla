-------------------------- MODULE Migration_proofs --------------------------
(***************************************************************************)
(* Migration steps, their batches and the records they stand for, for any  *)
(* number of processes, steps, batches and files.                          *)
(***************************************************************************)
EXTENDS Migration, FiniteSetTheorems, WellFoundedInduction, TLAPS

Live(s) == step[s].status # "ABSENT"
BatchOf(s) == batch[step[s].batch]
Opens(s) == step[s].kind = "opening_trial_balance"

\* Every step wraps a batch of its own, of its own kind.
StepsOwn ==
  /\ \A s \in Steps : Live(s) =>
       /\ step[s].batch \in Batches /\ BatchOf(s).status # "ABSENT"
       /\ step[s].kind = BatchOf(s).kind /\ step[s].kind \in StepKinds
  /\ \A s, t \in Steps : Live(s) /\ Live(t) /\ step[s].batch = step[t].batch => s = t

\* A request about a step is about one that exists; the batch of a step that is
\* being staged is nobody else's, and only the self-service may have imported it.
Stages(c, b) == At(c, "STAGE") /\ clerk[c].batch = b

HandsOwn ==
  \A c \in Clerks : clerk[c] # None =>
    /\ clerk[c].op \in {"COMMIT", "DISCARD", "ROLLBACK"} =>
         clerk[c].step \in Steps /\ Live(clerk[c].step)
    /\ clerk[c].imported => clerk[c].op = "COMMIT"
    /\ clerk[c].op = "STAGE" =>
         /\ clerk[c].batch \in Batches /\ batch[clerk[c].batch].status \in {"PREVIEW", "COMPLETED"}
         /\ batch[clerk[c].batch].kind \in StepKinds
         /\ batch[clerk[c].batch].kind \notin SelfService => batch[clerk[c].batch].status = "PREVIEW"
         /\ \A s \in Steps : Live(s) => step[s].batch # clerk[c].batch
         /\ \A d \in Clerks : Stages(d, clerk[c].batch) => d = c

\* Records are made when a batch completes, of its kind and from its valid rows.
RecordsMade ==
  \A r \in records : /\ batch[r.batch].status = "COMPLETED"
                     /\ r.kind = batch[r.batch].kind /\ r.row \in batch[r.batch].valid

\* A trial balance stands in the books while its step has come in and not left.
Standing(s) ==
  Live(s) /\ Opens(s) /\ step[s].status # "ROLLED_BACK" /\ BatchOf(s).status = "COMPLETED"

OpeningsStand == \A s \in Steps : opening[s] = IF Standing(s) THEN 1 ELSE 0

\* All rows of a step's batch are there.
Whole(s) == ~Opens(s) => Rows(step[s].batch) = BatchOf(s).valid

\* Somebody has imported the batch and is about to say so.
Brought(s) == \E c \in Clerks : At(c, "COMMIT") /\ clerk[c].step = s /\ clerk[c].imported

StepsTell ==
  \A s \in Steps :
    /\ step[s].status = "COMMITTED" => BatchOf(s).status = "COMPLETED" /\ Whole(s)
    /\ step[s].status = "ROLLED_BACK" => BatchOf(s).status = "COMPLETED" /\ Made(step[s].batch) = {}
    /\ step[s].status = "DISCARDED" =>
         BatchOf(s).status \in {"COMPLETED", "CANCELLED"} /\ (blind \/ Nothing(s))
    /\ step[s].status = "STAGED" =>
         /\ BatchOf(s).status \in {"PREVIEW", "COMPLETED"}
         /\ blind \/ Nothing(s) \/ Brought(s)
         /\ Brought(s) => BatchOf(s).status = "COMPLETED" /\ Whole(s)

\* Nothing is staged behind the back of a close.
ClosesSettled ==
  ~blind /\ (~project.open \/ \E c \in Clerks : At(c, "CLOSE")) => AllSettled

\* A line of a staged statement is to come in or is there; of a completed one it
\* is there; and no line is there twice.
BankRows == {r.row : r \in Of("bank")}

Statement(b) == batch[b].kind = "bank" /\ batch[b].status # "ABSENT"

LinesKept ==
  /\ \A r, q \in Of("bank") : r.row = q.row => r = q
  /\ \A b \in Batches : Statement(b) =>
       /\ batch[b].file \in Files
       /\ \A n \in Names : \A k \in 1..batch[b].file.count[n] :
            <<n, k>> \in IF batch[b].status = "COMPLETED" THEN BankRows ELSE BankRows \cup batch[b].valid
       /\ \A row \in batch[b].valid : row[2] <= batch[b].file.count[row[1]]

Shape ==
  /\ project \in [open : BOOLEAN, signed : BOOLEAN]
  /\ step \in [Steps -> Step]
  /\ batch \in [Batches -> Batch]
  /\ records \subseteq Record /\ used \subseteq records
  /\ opening \in [Steps -> Int]
  /\ clerk \in [Clerks -> Request \cup {None}]
  /\ blind \in BOOLEAN

StepsInv == Shape /\ StepsOwn /\ HandsOwn /\ RecordsMade /\ OpeningsStand /\ StepsTell

MigrationInv == StepsInv /\ ClosesSettled /\ LinesKept

LEMMA MigrationInvInit == Init => MigrationInv
<1> SUFFICES ASSUME Init PROVE MigrationInv
  OBVIOUS
<1>1. Shape
  <2>1. step \in [Steps -> Step] /\ batch \in [Batches -> Batch]
    <3>1. "contacts" \in Kinds
      BY DEF Kinds, SelfService
    <3> QED
      BY <3>1 DEF Init, Step, Batch
  <2>2. /\ project \in [open : BOOLEAN, signed : BOOLEAN] /\ opening \in [Steps -> Int]
        /\ clerk \in [Clerks -> Request \cup {None}]
    BY DEF Init
  <2> QED
    BY <2>1, <2>2 DEF Init, Shape
<1>2. StepsOwn /\ HandsOwn /\ RecordsMade /\ OpeningsStand /\ StepsTell
  BY DEF Init, StepsOwn, HandsOwn, RecordsMade, OpeningsStand, Standing, StepsTell, Live
<1>3. ClosesSettled
  BY DEF Init, ClosesSettled, At, AllSettled
<1>4. LinesKept
  BY DEF Init, LinesKept, Of, Statement
<1> QED
  BY <1>1, <1>2, <1>3, <1>4 DEF MigrationInv, StepsInv

----------------------------------------------------------------------------
(* Steps of the processes alone.                                           *)

\* A request about a step that exists, and nothing done yet.
Looks(q) ==
  /\ q.op # "STAGE" /\ ~q.imported
  /\ q.op \in {"COMMIT", "DISCARD", "ROLLBACK"} => q.step \in Steps /\ Live(q.step)

LEMMA HandTaken ==
  ASSUME StepsInv, NEW c \in Clerks, NEW q \in Request \cup {None}, q = None \/ Looks(q),
         clerk' = [clerk EXCEPT ![c] = q], UNCHANGED <<step, batch>>
  PROVE  HandsOwn' /\ clerk' \in [Clerks -> Request \cup {None}]
<1>1. \A d \in Clerks : clerk'[d] = IF d = c THEN q ELSE clerk[d]
  BY DEF StepsInv, Shape
<1>2. ASSUME NEW d \in Clerks, clerk'[d] # None
      PROVE  /\ clerk'[d].op \in {"COMMIT", "DISCARD", "ROLLBACK"} =>
                  clerk'[d].step \in Steps /\ Live(clerk'[d].step)
             /\ clerk'[d].imported => clerk'[d].op = "COMMIT"
             /\ clerk'[d].op = "STAGE" => clerk'[d] = clerk[d]
  <2>1. CASE d = c
    BY <1>1, <1>2, <2>1 DEF Looks
  <2>2. CASE d # c
    BY <1>1, <1>2, <2>2 DEF StepsInv, HandsOwn
  <2> QED
    BY <2>1, <2>2
<1>3. \A b : \A d \in Clerks : Stages(d, b)' => Stages(d, b)
  BY <1>2 DEF Stages, At
<1>4. HandsOwn'
  BY <1>2, <1>3 DEF HandsOwn, StepsInv, Live
<1>5. clerk' \in [Clerks -> Request \cup {None}]
  BY DEF StepsInv, Shape
<1> QED
  BY <1>4, <1>5

\* What steps and batches say stands, as long as a process that drops what it has
\* imported leaves a trace.
LEMMA TellsStand ==
  ASSUME StepsInv, Shape', HandsOwn', UNCHANGED <<step, batch, records, opening>>, blind => blind',
         \A s \in Steps : Brought(s)' => Brought(s),
         \A s \in Steps : step[s].status = "STAGED" /\ Brought(s) => blind' \/ Brought(s)'
  PROVE  StepsInv'
<1>1. StepsOwn' /\ RecordsMade' /\ OpeningsStand'
  BY DEF StepsInv, StepsOwn, RecordsMade, OpeningsStand, Standing, Live, BatchOf, Opens
<1>2. \A s : /\ Nothing(s)' <=> Nothing(s)
             /\ Whole(s)' <=> Whole(s)
             /\ Made(step[s].batch)' = Made(step[s].batch)
  BY DEF Nothing, Whole, Made, Rows, Opens, BatchOf
<1>3. StepsTell'
  BY <1>2 DEF StepsInv, StepsTell, BatchOf
<1> QED
  BY <1>1, <1>3 DEF StepsInv

LEMMA LookKeeps ==
  ASSUME StepsInv, NEW c \in Clerks, NEW q \in Request, Looks(q), clerk[c] = None,
         clerk' = [clerk EXCEPT ![c] = q],
         UNCHANGED <<project, step, batch, records, used, opening, blind>>
  PROVE  StepsInv'
<1>1. HandsOwn' /\ Shape'
  BY HandTaken DEF StepsInv, Shape
<1>2. \A d \in Clerks : clerk'[d] = IF d = c THEN q ELSE clerk[d]
  BY DEF StepsInv, Shape
<1>3. \A s : Brought(s)' <=> Brought(s)
  BY <1>2 DEF Brought, At, Looks
<1> QED
  BY <1>1, <1>3, TellsStand

LEMMA DropKeeps ==
  ASSUME StepsInv, NEW c \in Clerks, clerk' = [clerk EXCEPT ![c] = None],
         project' \in [open : BOOLEAN, signed : BOOLEAN], blind' \in BOOLEAN, blind => blind',
         UNCHANGED <<step, batch, records, used, opening>>,
         clerk[c] # None /\ clerk[c].imported =>
           blind' \/ step[clerk[c].step].status # "STAGED"
  PROVE  StepsInv'
<1>1. HandsOwn' /\ Shape'
  BY HandTaken DEF StepsInv, Shape
<1>2. \A d \in Clerks : clerk'[d] = IF d = c THEN None ELSE clerk[d]
  BY DEF StepsInv, Shape
<1>3. \A s \in Steps : Brought(s)' => Brought(s)
  BY <1>2 DEF Brought, At
<1>4. \A s \in Steps : step[s].status = "STAGED" /\ Brought(s) => blind' \/ Brought(s)'
  BY <1>2 DEF Brought, At
<1> QED
  BY <1>1, <1>3, <1>4, TellsStand

LEMMA FailKeeps ==
  ASSUME StepsInv, NEW c \in Clerks, Fail(c)
  PROVE  StepsInv'
<1>1. clerk[c] \in Request
  BY DEF Fail, StepsInv, Shape
<1>2. blind' = (blind \/ ~(clerk[c].imported => step[clerk[c].step].status # "STAGED"))
  BY DEF Fail, Rest
<1>3. blind' \in BOOLEAN /\ (blind => blind')
      /\ (clerk[c].imported => blind' \/ step[clerk[c].step].status # "STAGED")
  BY <1>2 DEF StepsInv, Shape
<1> QED
  BY <1>3, DropKeeps DEF Fail, Done, StepsInv, Shape

----------------------------------------------------------------------------
(* Staging.                                                                *)

LEMMA ValidRows ==
  ASSUME NEW kind \in Kinds, NEW f \in Files
  PROVE  Valid(kind, f) \in SUBSET Row
<1>1. f.count \in [Names -> Nat]
  BY MigrationConstants
<1>2. First(f) \subseteq Row
  BY DEF First, Row
<1>3. NewLines(f) \subseteq Row
  BY DEF NewLines, Row
<1> QED
  BY <1>2, <1>3 DEF Valid, NewContacts, NewProducts, StockOfProducts, Balances, OpenItems, Kinds,
                    SelfService, StepKinds

\* A batch is staged that nobody refers to.
LEMMA StagedFresh ==
  ASSUME StepsInv, NEW b \in Batches, NEW kind \in Kinds, NEW f \in Files, Staged(b, kind, f)
  PROVE  /\ batch[b].status = "ABSENT" /\ batch' \in [Batches -> Batch]
         /\ batch'[b] = [status |-> "PREVIEW", kind |-> kind, file |-> f, valid |-> Valid(kind, f)]
         /\ \A x \in Batches : x # b => batch'[x] = batch[x]
         /\ \A s \in Steps : Live(s) => step[s].batch \in Batches /\ step[s].batch # b
         /\ \A r \in records : r.batch \in Batches /\ r.batch # b
         /\ \A c \in Clerks : ~Stages(c, b)
<1>1. batch[b].status = "ABSENT"
      /\ batch' = [batch EXCEPT ![b] =
           [status |-> "PREVIEW", kind |-> kind, file |-> f, valid |-> Valid(kind, f)]]
  BY DEF Staged
<1>2. [status |-> "PREVIEW", kind |-> kind, file |-> f, valid |-> Valid(kind, f)] \in Batch
  BY ValidRows DEF Batch
<1>3. batch \in [Batches -> Batch] /\ records \subseteq Record
  BY DEF StepsInv, Shape
<1>4. \A s \in Steps : Live(s) => step[s].batch \in Batches /\ step[s].batch # b
  BY <1>1 DEF StepsInv, StepsOwn, BatchOf
<1>5. \A r \in records : r.batch \in Batches /\ r.batch # b
  BY <1>1, <1>3 DEF StepsInv, RecordsMade, Record
<1>6. \A c \in Clerks : ~Stages(c, b)
  BY <1>1 DEF StepsInv, HandsOwn, Stages, At
<1> QED
  BY <1>1, <1>2, <1>3, <1>4, <1>5, <1>6

LEMMA StagedKeeps ==
  ASSUME StepsInv, NEW b \in Batches, NEW kind \in Kinds, NEW f \in Files, Staged(b, kind, f),
         UNCHANGED <<step, records, opening, blind>>, Shape', HandsOwn',
         \A s \in Steps : Brought(s)' <=> Brought(s)
  PROVE  StepsInv'
<1>1. \A s \in Steps : Live(s) => BatchOf(s)' = BatchOf(s)
  BY StagedFresh DEF BatchOf
<1>2. StepsOwn'
  BY <1>1 DEF StepsInv, StepsOwn, Live, BatchOf
<1>3. RecordsMade'
  BY StagedFresh DEF StepsInv, RecordsMade
<1>4. OpeningsStand'
  <2>1. \A s \in Steps : Standing(s)' <=> Standing(s)
    BY <1>1 DEF Standing, Live, Opens
  <2> QED
    BY <2>1 DEF StepsInv, OpeningsStand
<1>5. \A s \in Steps : /\ Nothing(s)' <=> Nothing(s)
                       /\ Made(step[s].batch)' = Made(step[s].batch)
                       /\ Live(s) => (Whole(s)' <=> Whole(s))
  BY <1>1 DEF Nothing, Whole, Made, Rows, Opens
<1>6. StepsTell'
  <2> SUFFICES ASSUME NEW s \in Steps
               PROVE  /\ step[s].status = "COMMITTED" => BatchOf(s)'.status = "COMPLETED" /\ Whole(s)'
                      /\ step[s].status = "ROLLED_BACK" =>
                           BatchOf(s)'.status = "COMPLETED" /\ Made(step[s].batch)' = {}
                      /\ step[s].status = "DISCARDED" =>
                           BatchOf(s)'.status \in {"COMPLETED", "CANCELLED"} /\ (blind' \/ Nothing(s)')
                      /\ step[s].status = "STAGED" =>
                           /\ BatchOf(s)'.status \in {"PREVIEW", "COMPLETED"}
                           /\ blind' \/ Nothing(s)' \/ Brought(s)'
                           /\ Brought(s)' => BatchOf(s)'.status = "COMPLETED" /\ Whole(s)'
    BY DEF StepsTell
  <2> QED
    BY <1>1, <1>5 DEF StepsInv, StepsTell, Live
<1> QED
  BY <1>2, <1>3, <1>4, <1>6 DEF StepsInv

LEMMA PreviewKeeps ==
  ASSUME StepsInv, NEW b \in Batches, NEW kind \in Kinds, NEW f \in Files, ImportPreview(b, kind, f)
  PROVE  StepsInv'
<1>1. Staged(b, kind, f) /\ UNCHANGED <<project, step, records, used, opening, clerk, blind>>
  BY DEF ImportPreview
<1>2. Shape'
  BY <1>1, StagedFresh DEF StepsInv, Shape
<1>3. HandsOwn'
  <2> SUFFICES ASSUME NEW c \in Clerks, clerk[c] # None
               PROVE  /\ clerk[c].op \in {"COMMIT", "DISCARD", "ROLLBACK"} =>
                           clerk[c].step \in Steps /\ Live(clerk[c].step)
                      /\ clerk[c].imported => clerk[c].op = "COMMIT"
                      /\ clerk[c].op = "STAGE" =>
                           /\ clerk[c].batch \in Batches /\ batch'[clerk[c].batch].status \in {"PREVIEW", "COMPLETED"}
                           /\ batch'[clerk[c].batch].kind \in StepKinds
                           /\ batch'[clerk[c].batch].kind \notin SelfService =>
                                batch'[clerk[c].batch].status = "PREVIEW"
                           /\ \A s \in Steps : Live(s) => step[s].batch # clerk[c].batch
                           /\ \A d \in Clerks : Stages(d, clerk[c].batch) => d = c
    BY <1>1 DEF HandsOwn, Live, Stages, At
  <2>1. clerk[c].op = "STAGE" => clerk[c].batch \in Batches /\ batch'[clerk[c].batch] = batch[clerk[c].batch]
    BY <1>1, StagedFresh DEF StepsInv, HandsOwn, Stages, At
  <2> QED
    BY <2>1 DEF StepsInv, HandsOwn
<1>4. \A s \in Steps : Brought(s)' <=> Brought(s)
  BY <1>1 DEF Brought, At
<1> QED
  BY <1>1, <1>2, <1>3, <1>4, StagedKeeps

LEMMA StageLookKeeps ==
  ASSUME StepsInv, NEW c \in Clerks, NEW b \in Batches, NEW kind \in StepKinds, NEW f \in Files,
         StageLook(c, b, kind, f)
  PROVE  StepsInv'
<1> DEFINE q == [op |-> "STAGE", step |-> None, batch |-> b, imported |-> FALSE]
<1>1. /\ Staged(b, kind, f) /\ UNCHANGED <<project, step, records, used, opening, blind>>
      /\ clerk[c] = None /\ clerk' = [clerk EXCEPT ![c] = q] /\ kind \in Kinds
  BY DEF StageLook, Kinds
<1>2. q \in Request /\ q.op = "STAGE" /\ q.batch = b /\ ~q.imported
  BY DEF Request
<1> HIDE DEF q
<1>3. \A d \in Clerks : clerk'[d] = IF d = c THEN q ELSE clerk[d]
  BY <1>1 DEF StepsInv, Shape
<1>4. Shape'
  BY <1>1, <1>2, StagedFresh DEF StepsInv, Shape
<1>5. /\ batch'[b].status = "PREVIEW" /\ batch'[b].kind = kind
      /\ \A s \in Steps : Live(s) => step[s].batch # b
      /\ \A x \in Batches : x # b => batch'[x] = batch[x]
      /\ \A d \in Clerks : clerk[d] # None /\ clerk[d].op = "STAGE" => clerk[d].batch # b
  <2>1. batch'[b] = [status |-> "PREVIEW", kind |-> kind, file |-> f, valid |-> Valid(kind, f)]
    BY <1>1, StagedFresh
  <2>2. /\ \A s \in Steps : Live(s) => step[s].batch # b
        /\ \A x \in Batches : x # b => batch'[x] = batch[x]
        /\ \A d \in Clerks : ~Stages(d, b)
    BY <1>1, StagedFresh
  <2> QED
    BY <2>1, <2>2 DEF Stages, At
<1>6. \A d \in Clerks : d # c /\ clerk[d] # None /\ clerk[d].op = "STAGE" =>
        clerk[d].batch \in Batches /\ clerk[d].batch # b /\ batch'[clerk[d].batch] = batch[clerk[d].batch]
  BY <1>5 DEF StepsInv, HandsOwn
<1>7. HandsOwn'
  <2> SUFFICES ASSUME NEW d \in Clerks, clerk'[d] # None
               PROVE  /\ clerk'[d].op \in {"COMMIT", "DISCARD", "ROLLBACK"} =>
                           clerk'[d].step \in Steps /\ Live(clerk'[d].step)
                      /\ clerk'[d].imported => clerk'[d].op = "COMMIT"
                      /\ clerk'[d].op = "STAGE" =>
                           /\ clerk'[d].batch \in Batches /\ batch'[clerk'[d].batch].status \in {"PREVIEW", "COMPLETED"}
                           /\ batch'[clerk'[d].batch].kind \in StepKinds
                           /\ batch'[clerk'[d].batch].kind \notin SelfService =>
                                batch'[clerk'[d].batch].status = "PREVIEW"
                           /\ \A s \in Steps : Live(s) => step[s].batch # clerk'[d].batch
                           /\ \A e \in Clerks :
                                /\ clerk'[e] # None /\ clerk'[e].op = "STAGE"
                                /\ clerk'[e].batch = clerk'[d].batch
                                => e = d
    BY <1>1 DEF HandsOwn, Live, Stages, At
  <2>1. CASE d = c
    <3>1. clerk'[d] = q
      BY <1>3, <2>1
    <3>2. \A e \in Clerks : clerk'[e] # None /\ clerk'[e].op = "STAGE" /\ clerk'[e].batch = b => e = c
      BY <1>3, <1>5
    <3> QED
      BY <1>2, <1>5, <2>1, <3>1, <3>2
  <2>2. CASE d # c
    <3>1. clerk'[d] = clerk[d] /\ clerk[d] # None
      BY <1>2, <1>3, <2>2
    <3>2. ASSUME clerk[d].op = "STAGE", NEW e \in Clerks, clerk'[e] # None, clerk'[e].op = "STAGE",
                 clerk'[e].batch = clerk[d].batch
          PROVE  e = d
      <4>1. e # c
        BY <1>2, <1>3, <1>6, <2>2, <3>1, <3>2
      <4>2. Stages(e, clerk[d].batch)
        BY <1>3, <3>2, <4>1 DEF Stages, At
      <4> QED
        BY <3>1, <3>2, <4>2 DEF StepsInv, HandsOwn
    <3>3. clerk[d].op = "STAGE" =>
            /\ clerk[d].batch \in Batches /\ batch'[clerk[d].batch].status \in {"PREVIEW", "COMPLETED"}
            /\ batch'[clerk[d].batch].kind \in StepKinds
            /\ batch'[clerk[d].batch].kind \notin SelfService =>
                 batch'[clerk[d].batch].status = "PREVIEW"
            /\ \A s \in Steps : Live(s) => step[s].batch # clerk[d].batch
      BY <1>6, <2>2, <3>1 DEF StepsInv, HandsOwn
    <3>4. /\ clerk[d].op \in {"COMMIT", "DISCARD", "ROLLBACK"} =>
               clerk[d].step \in Steps /\ Live(clerk[d].step)
          /\ clerk[d].imported => clerk[d].op = "COMMIT"
      BY <3>1 DEF StepsInv, HandsOwn
    <3> QED
      BY <3>1, <3>2, <3>3, <3>4
  <2> QED
    BY <2>1, <2>2
<1>8. \A s \in Steps : Brought(s)' <=> Brought(s)
  BY <1>1, <1>2, <1>3 DEF Brought, At
<1> QED
  BY <1>1, <1>4, <1>7, <1>8, StagedKeeps

\* A request to stage goes on as long as its batch stays or is imported by itself.
LEMMA HandsStay ==
  ASSUME StepsInv, UNCHANGED step, NEW c \in Clerks, NEW q, clerk' = [clerk EXCEPT ![c] = q],
         q # None => /\ q.op # "STAGE" /\ (q.imported => q.op = "COMMIT")
                     /\ q.op \in {"COMMIT", "DISCARD", "ROLLBACK"} => q.step \in Steps /\ Live(q.step),
         \A d \in Clerks : d # c /\ clerk[d] # None /\ clerk[d].op = "STAGE" =>
           batch'[clerk[d].batch] = batch[clerk[d].batch]
  PROVE  HandsOwn'
<1>1. \A d \in Clerks : clerk'[d] = IF d = c THEN q ELSE clerk[d]
  BY DEF StepsInv, Shape
<1>2. ASSUME NEW d \in Clerks, clerk'[d] # None
      PROVE  /\ clerk'[d].op \in {"COMMIT", "DISCARD", "ROLLBACK"} =>
                  clerk'[d].step \in Steps /\ Live(clerk'[d].step)
             /\ clerk'[d].imported => clerk'[d].op = "COMMIT"
             /\ clerk'[d].op = "STAGE" =>
                  clerk'[d] = clerk[d] /\ batch'[clerk[d].batch] = batch[clerk[d].batch]
  <2>1. CASE d = c
    BY <1>1, <1>2, <2>1
  <2>2. CASE d # c
    BY <1>1, <1>2, <2>2 DEF StepsInv, HandsOwn
  <2> QED
    BY <2>1, <2>2
<1>3. \A b : \A d \in Clerks : Stages(d, b)' => Stages(d, b)
  BY <1>2 DEF Stages, At
<1> QED
  BY <1>2, <1>3 DEF HandsOwn, StepsInv, Live

----------------------------------------------------------------------------
(* Importing.                                                              *)

LEMMA ImportedFacts ==
  ASSUME StepsInv, NEW b \in Batches, Imported(b)
  PROVE  /\ batch[b].status = "PREVIEW" /\ batch' \in [Batches -> Batch]
         /\ batch'[b].status = "COMPLETED" /\ batch'[b].kind = batch[b].kind
         /\ batch'[b].valid = batch[b].valid /\ batch'[b].file = batch[b].file
         /\ \A x \in Batches : x # b => batch'[x] = batch[x]
         /\ Made(b) = {} /\ Made(b)' = Created(b)
         /\ \A x : x # b => Made(x)' = Made(x)
         /\ records' = records \cup Created(b) /\ records' \subseteq Record
         /\ \A r \in Created(b) : r.batch = b /\ r.kind = batch[b].kind /\ r.row \in batch[b].valid
<1>1. /\ batch[b].status = "PREVIEW" /\ batch' = [batch EXCEPT ![b].status = "COMPLETED"]
      /\ records' = records \cup Created(b)
  BY DEF Imported, Importable, Claimable
<1>2. batch \in [Batches -> Batch] /\ records \subseteq Record
  BY DEF StepsInv, Shape
<1>3. \A x \in Batch : LET y == [x EXCEPT !.status = "COMPLETED"]
                       IN  /\ y \in Batch /\ y.status = "COMPLETED" /\ y.kind = x.kind
                           /\ y.valid = x.valid /\ y.file = x.file
  BY DEF Batch
<1>4. batch'[b] = [batch[b] EXCEPT !.status = "COMPLETED"] /\ \A x \in Batches : x # b => batch'[x] = batch[x]
  BY <1>1, <1>2
<1>5. batch' \in [Batches -> Batch]
  BY <1>1, <1>2, <1>3
<1>6. batch[b] \in Batch
  BY <1>2
<1>7. /\ batch'[b].status = "COMPLETED" /\ batch'[b].kind = batch[b].kind
      /\ batch'[b].valid = batch[b].valid /\ batch'[b].file = batch[b].file
  BY <1>3, <1>4, <1>6
<1>8. \A r \in Created(b) :
        r.batch = b /\ r.kind = batch[b].kind /\ r.row \in batch[b].valid /\ r \in Record
  <2>1. batch[b].kind \in Kinds /\ batch[b].valid \in SUBSET Row /\ Fresh(b) \subseteq batch[b].valid
    BY <1>6 DEF Batch, Fresh
  <2> QED
    BY <2>1 DEF Created, Record
<1>9. Made(b) = {}
  BY <1>1 DEF StepsInv, RecordsMade, Made
<1>10. Made(b)' = Created(b) /\ \A x : x # b => Made(x)' = Made(x)
  BY <1>1, <1>8, <1>9 DEF Made
<1> QED
  BY <1>1, <1>2, <1>4, <1>5, <1>7, <1>8, <1>9, <1>10

\* All rows of a batch that is not a bank statement come in.
LEMMA AllComeIn ==
  ASSUME StepsInv, NEW b \in Batches, Imported(b),
         batch[b].kind # "bank", batch[b].kind # "opening_trial_balance"
  PROVE  Rows(b)' = batch[b].valid
<1>1. Fresh(b) = batch[b].valid
  BY DEF Fresh
<1>2. Created(b) = {[kind |-> batch[b].kind, row |-> row, batch |-> b] : row \in batch[b].valid}
  BY <1>1 DEF Created
<1>3. Made(b)' = Created(b)
  BY ImportedFacts
<1>4. Rows(b)' = {r.row : r \in Created(b)}
  BY <1>3 DEF Rows
<1>5. ASSUME NEW row \in batch[b].valid PROVE \E r \in Created(b) : r.row = row
  <2>1. [kind |-> batch[b].kind, row |-> row, batch |-> b] \in Created(b)
    BY <1>2
  <2> QED
    BY <2>1
<1>6. \A r \in Created(b) : r.row \in batch[b].valid
  BY ImportedFacts
<1> QED
  BY <1>4, <1>5, <1>6

\* A step whose batch can be imported is staged, and nobody has imported it.
LEMMA PreviewIsStaged ==
  ASSUME StepsInv, NEW s \in Steps, Live(s), BatchOf(s).status = "PREVIEW"
  PROVE  step[s].status = "STAGED" /\ ~Brought(s) /\ opening[s] = 0
<1>1. step[s].status \in {"ABSENT", "STAGED", "COMMITTED", "ROLLED_BACK", "DISCARDED"}
  BY DEF StepsInv, Shape, Step
<1>2. step[s].status = "STAGED" /\ ~Brought(s)
  BY <1>1 DEF Live, StepsInv, StepsTell
<1>3. opening[s] = 0
  BY DEF StepsInv, OpeningsStand, Standing
<1> QED
  BY <1>2, <1>3

LEMMA ImportKeeps ==
  ASSUME StepsInv, NEW b \in Batches, Imported(b), UNCHANGED step, Shape', HandsOwn', blind => blind',
         \A s \in Steps : Live(s) /\ step[s].batch = b =>
           /\ blind' \/ Brought(s)'
           /\ Brought(s)' => Whole(s)'
           /\ opening'[s] = IF Opens(s) THEN 1 ELSE 0,
         \A s \in Steps : ~Live(s) \/ step[s].batch # b =>
           opening'[s] = opening[s] /\ (Brought(s)' <=> Brought(s))
  PROVE  StepsInv'
<1>1. \A s \in Steps : Live(s) /\ step[s].batch # b => BatchOf(s)' = BatchOf(s)
  BY ImportedFacts DEF BatchOf, StepsInv, StepsOwn
<1>2. \A s \in Steps : Live(s) /\ step[s].batch = b =>
        BatchOf(s)'.status = "COMPLETED" /\ BatchOf(s)'.kind = BatchOf(s).kind
        /\ step[s].status = "STAGED"
  BY ImportedFacts, PreviewIsStaged DEF BatchOf
<1>3. StepsOwn'
  <2>1. \A s \in Steps : Live(s) => BatchOf(s)'.status # "ABSENT" /\ BatchOf(s)'.kind = BatchOf(s).kind
    BY <1>1, <1>2 DEF StepsInv, StepsOwn
  <2> QED
    BY <2>1 DEF StepsInv, StepsOwn, Live
<1>4. RecordsMade'
  <2> SUFFICES ASSUME NEW r \in records'
               PROVE  /\ batch'[r.batch].status = "COMPLETED"
                      /\ r.kind = batch'[r.batch].kind /\ r.row \in batch'[r.batch].valid
    BY DEF RecordsMade
  <2>1. CASE r \in Created(b)
    BY <2>1, ImportedFacts
  <2>2. CASE r \in records
    <3>1. r.batch # b /\ r.batch \in Batches
      BY <2>2, ImportedFacts DEF StepsInv, Shape, RecordsMade, Record
    <3> QED
      BY <2>2, <3>1, ImportedFacts DEF StepsInv, RecordsMade
  <2> QED
    BY <2>1, <2>2, ImportedFacts
<1>5. OpeningsStand'
  <2> SUFFICES ASSUME NEW s \in Steps PROVE opening'[s] = IF Standing(s)' THEN 1 ELSE 0
    BY DEF OpeningsStand
  <2>1. CASE Live(s) /\ step[s].batch = b
    BY <1>2, <2>1 DEF Standing, Live, Opens
  <2>2. CASE ~Live(s) \/ step[s].batch # b
    <3>1. Standing(s)' <=> Standing(s)
      BY <1>1, <2>2 DEF Standing, Live, Opens
    <3> QED
      BY <2>2, <3>1 DEF StepsInv, OpeningsStand
  <2> QED
    BY <2>1, <2>2
<1>6. \A s \in Steps : Live(s) /\ step[s].batch # b =>
        /\ Made(step[s].batch)' = Made(step[s].batch)
        /\ Nothing(s)' <=> Nothing(s)
        /\ Whole(s)' <=> Whole(s)
  <2> SUFFICES ASSUME NEW s \in Steps, Live(s), step[s].batch # b
               PROVE  /\ Made(step[s].batch)' = Made(step[s].batch)
                      /\ Nothing(s)' <=> Nothing(s)
                      /\ Whole(s)' <=> Whole(s)
    OBVIOUS
  <2>1. Made(step[s].batch)' = Made(step[s].batch)
    BY ImportedFacts
  <2> QED
    BY <1>1, <2>1 DEF Nothing, Whole, Rows, Opens
<1>7. StepsTell'
  <2> SUFFICES ASSUME NEW s \in Steps
               PROVE  /\ step[s].status = "COMMITTED" => BatchOf(s)'.status = "COMPLETED" /\ Whole(s)'
                      /\ step[s].status = "ROLLED_BACK" =>
                           BatchOf(s)'.status = "COMPLETED" /\ Made(step[s].batch)' = {}
                      /\ step[s].status = "DISCARDED" =>
                           BatchOf(s)'.status \in {"COMPLETED", "CANCELLED"} /\ (blind' \/ Nothing(s)')
                      /\ step[s].status = "STAGED" =>
                           /\ BatchOf(s)'.status \in {"PREVIEW", "COMPLETED"}
                           /\ blind' \/ Nothing(s)' \/ Brought(s)'
                           /\ Brought(s)' => BatchOf(s)'.status = "COMPLETED" /\ Whole(s)'
    BY DEF StepsTell
  <2>1. CASE Live(s) /\ step[s].batch = b
    BY <1>2, <2>1
  <2>2. CASE Live(s) /\ step[s].batch # b
    BY <1>1, <1>6, <2>2 DEF StepsInv, StepsTell
  <2>3. CASE ~Live(s)
    BY <2>3 DEF Live
  <2> QED
    BY <2>1, <2>2, <2>3
<1> QED
  BY <1>3, <1>4, <1>5, <1>7 DEF StepsInv

LEMMA ImportCommitKeeps ==
  ASSUME StepsInv, NEW b \in Batches, ImportCommit(b)
  PROVE  StepsInv'
<1>1. /\ batch[b].kind \in SelfService /\ Imported(b)
      /\ UNCHANGED <<project, step, used, opening, clerk>>
      /\ blind' = (blind \/ ~(\A s \in Steps : step[s].batch # b))
  BY DEF ImportCommit, Rest
<1>2. blind' \in BOOLEAN /\ (blind => blind') /\ \A s \in Steps : step[s].batch = b => blind'
  BY <1>1 DEF StepsInv, Shape
<1>3. Shape'
  <2>1. batch' \in [Batches -> Batch] /\ records' \subseteq Record /\ records \subseteq records'
    BY <1>1, ImportedFacts
  <2> QED
    BY <1>1, <1>2, <2>1 DEF StepsInv, Shape
<1>4. /\ batch'[b].kind = batch[b].kind /\ batch'[b].status = "COMPLETED"
      /\ \A x \in Batches : x # b => batch'[x] = batch[x]
  BY <1>1, ImportedFacts
<1>5. HandsOwn'
  <2> SUFFICES ASSUME NEW c \in Clerks, clerk[c] # None
               PROVE  /\ clerk[c].op \in {"COMMIT", "DISCARD", "ROLLBACK"} =>
                           clerk[c].step \in Steps /\ Live(clerk[c].step)
                      /\ clerk[c].imported => clerk[c].op = "COMMIT"
                      /\ clerk[c].op = "STAGE" =>
                           /\ clerk[c].batch \in Batches /\ batch'[clerk[c].batch].status \in {"PREVIEW", "COMPLETED"}
                           /\ batch'[clerk[c].batch].kind \in StepKinds
                           /\ batch'[clerk[c].batch].kind \notin SelfService =>
                                batch'[clerk[c].batch].status = "PREVIEW"
                           /\ \A s \in Steps : Live(s) => step[s].batch # clerk[c].batch
                           /\ \A d \in Clerks : Stages(d, clerk[c].batch) => d = c
    BY <1>1 DEF HandsOwn, Live, Stages, At
  <2>1. CASE clerk[c].batch = b
    BY <1>1, <1>4, <2>1 DEF StepsInv, HandsOwn
  <2>2. CASE clerk[c].batch # b
    BY <1>4, <2>2 DEF StepsInv, HandsOwn
  <2> QED
    BY <2>1, <2>2
<1>6. \A s : Brought(s)' <=> Brought(s)
  BY <1>1 DEF Brought, At
<1>7. ASSUME NEW s \in Steps, Live(s), step[s].batch = b
      PROVE  /\ blind' \/ Brought(s)'
             /\ Brought(s)' => Whole(s)'
             /\ opening'[s] = IF Opens(s) THEN 1 ELSE 0
  <2>1. BatchOf(s).status = "PREVIEW"
    BY <1>1, <1>7, ImportedFacts DEF BatchOf
  <2>2. ~Brought(s) /\ opening[s] = 0
    BY <1>7, <2>1, PreviewIsStaged
  <2>3. ~Opens(s)
    BY <1>1, <1>7 DEF StepsInv, StepsOwn, BatchOf, Opens, SelfService
  <2> QED
    BY <1>1, <1>2, <1>6, <1>7, <2>2, <2>3
<1> QED
  BY <1>1, <1>2, <1>3, <1>5, <1>6, <1>7, ImportKeeps

LEMMA CommitBatchKeeps ==
  ASSUME StepsInv, NEW c \in Clerks, CommitBatch(c)
  PROVE  StepsInv'
<1> PICK t : t = clerk[c].step
  OBVIOUS
<1> PICK b : b = step[t].batch
  OBVIOUS
<1> PICK q : q = [clerk[c] EXCEPT !.imported = TRUE]
  OBVIOUS
<1>1. /\ clerk[c] # None /\ clerk[c].op = "COMMIT" /\ Imported(b)
      /\ opening' = IF Opens(t) THEN [opening EXCEPT ![t] = @ + 1] ELSE opening
      /\ UNCHANGED <<project, step, used>>
      /\ blind' = (blind \/ ~project.open)
  BY DEF CommitBatch, At, Rest, Opens
<1>2. clerk' = [clerk EXCEPT ![c] = q] /\ clerk[c] \in Request
  BY <1>1 DEF CommitBatch, StepsInv, Shape
<1>3. q \in Request /\ q.op = "COMMIT" /\ q.step = t /\ q.imported
  BY <1>1, <1>2 DEF Request
<1>4. t \in Steps /\ Live(t)
  BY <1>1 DEF StepsInv, HandsOwn
<1>5. b \in Batches /\ step[t].kind = batch[b].kind /\ step[t].kind \in StepKinds
      /\ \A s \in Steps : Live(s) /\ step[s].batch = b => s = t
  BY <1>4 DEF StepsInv, StepsOwn, BatchOf
<1>6. step[t].status = "STAGED" /\ opening[t] = 0
  <2>1. BatchOf(t).status = "PREVIEW"
    BY <1>1, <1>5, ImportedFacts DEF BatchOf
  <2> QED
    BY <1>4, <2>1, PreviewIsStaged
<1>7. blind' \in BOOLEAN /\ (blind => blind') /\ opening' \in [Steps -> Int]
  BY <1>1, <1>4 DEF StepsInv, Shape
<1>8. Shape'
  <2>1. batch' \in [Batches -> Batch] /\ records' \subseteq Record /\ records \subseteq records'
    BY <1>1, <1>5, ImportedFacts
  <2> QED
    BY <1>1, <1>2, <1>3, <1>7, <2>1 DEF StepsInv, Shape
<1>9. \A d \in Clerks : clerk'[d] = IF d = c THEN q ELSE clerk[d]
  BY <1>2 DEF StepsInv, Shape
<1>10. HandsOwn'
  <2>1. \A d \in Clerks : d # c /\ clerk[d] # None /\ clerk[d].op = "STAGE" =>
          batch'[clerk[d].batch] = batch[clerk[d].batch]
    <3>1. \A d \in Clerks : clerk[d] # None /\ clerk[d].op = "STAGE" =>
            clerk[d].batch \in Batches /\ clerk[d].batch # b
      BY <1>4 DEF StepsInv, HandsOwn
    <3>2. \A x \in Batches : x # b => batch'[x] = batch[x]
      BY <1>1, <1>5, ImportedFacts
    <3> QED
      BY <3>1, <3>2
  <2> QED
    BY <1>1, <1>2, <1>3, <1>4, <2>1, HandsStay
<1>11. Brought(t)' /\ \A s \in Steps : s # t => (Brought(s)' <=> Brought(s))
  <2>1. Brought(t)'
    BY <1>3, <1>9, NoneIsNoRequest DEF Brought, At
  <2>2. ASSUME NEW s \in Steps, s # t PROVE Brought(s)' <=> Brought(s)
    BY <1>3, <1>9, <2>2 DEF Brought, At
  <2> QED
    BY <2>1, <2>2
<1>12. Whole(t)' /\ opening'[t] = IF Opens(t) THEN 1 ELSE 0
  <2>1. CASE Opens(t)
    <3>1. opening'[t] = 1
      BY <1>1, <1>4, <1>6, <2>1 DEF StepsInv, Shape
    <3> QED
      BY <1>1, <2>1, <3>1 DEF Whole, Opens
  <2>2. CASE ~Opens(t)
    <3>1. batch[b].kind # "bank" /\ batch[b].kind # "opening_trial_balance"
      BY <1>5, <2>2 DEF Opens, StepKinds
    <3>2. Rows(b)' = batch[b].valid
      BY <1>1, <1>5, <3>1, AllComeIn
    <3>3. batch'[b].valid = batch[b].valid
      BY <1>1, <1>5, ImportedFacts
    <3>4. Whole(t)'
      BY <1>1, <3>2, <3>3 DEF Whole, BatchOf
    <3> QED
      BY <1>1, <1>6, <2>2, <3>4
  <2> QED
    BY <2>1, <2>2
<1>13. \A s \in Steps : s # t => opening'[s] = opening[s]
  BY <1>1, <1>4 DEF StepsInv, Shape
<1>14. \A s \in Steps : ~Live(s) \/ step[s].batch # b => s # t
  BY <1>4
<1>15. \A s \in Steps : Live(s) /\ step[s].batch = b =>
         /\ blind' \/ Brought(s)'
         /\ Brought(s)' => Whole(s)'
         /\ opening'[s] = IF Opens(s) THEN 1 ELSE 0
  BY <1>5, <1>11, <1>12
<1>16. \A s \in Steps : ~Live(s) \/ step[s].batch # b =>
         opening'[s] = opening[s] /\ (Brought(s)' <=> Brought(s))
  BY <1>11, <1>13, <1>14
<1> QED
  BY <1>1, <1>5, <1>7, <1>8, <1>10, <1>15, <1>16, ImportKeeps

\* A batch that is staged is nobody's yet; one that was imported meanwhile by
\* itself leaves a trace.
LEMMA StageCommitKeeps ==
  ASSUME StepsInv, NEW c \in Clerks, NEW s \in Steps, StageCommit(c, s)
  PROVE  StepsInv'
<1> PICK b : b = clerk[c].batch
  OBVIOUS
<1> PICK n : n = [status |-> "STAGED", kind |-> batch[b].kind, batch |-> b, entry |-> FALSE]
  OBVIOUS
<1>1. /\ clerk[c] # None /\ clerk[c].op = "STAGE" /\ Stages(c, b) /\ step[s].status = "ABSENT"
      /\ step' = [step EXCEPT ![s] = n] /\ clerk' = [clerk EXCEPT ![c] = None]
      /\ UNCHANGED <<project, batch, records, used, opening>>
      /\ blind' = (blind \/ ~(/\ project.open /\ ~\E d \in Clerks : At(d, "CLOSE")
                              /\ batch[b].status = "PREVIEW"))
  BY DEF StageCommit, At, Stages, Done, Rest
<1>2. blind' \in BOOLEAN /\ (blind => blind') /\ (batch[b].status # "PREVIEW" => blind')
  BY <1>1 DEF StepsInv, Shape
<1>3. /\ b \in Batches /\ batch[b].status \in {"PREVIEW", "COMPLETED"} /\ batch[b].kind \in StepKinds
      /\ batch[b].kind \notin SelfService => batch[b].status = "PREVIEW"
      /\ \A t \in Steps : Live(t) => step[t].batch # b
      /\ \A d \in Clerks : Stages(d, b) => d = c
  BY <1>1 DEF StepsInv, HandsOwn
<1>4. n.status = "STAGED" /\ n.kind = batch[b].kind /\ n.batch = b /\ n \in Step
  BY <1>3 DEF Step, Kinds
<1>5. \A t \in Steps : step'[t] = IF t = s THEN n ELSE step[t]
  BY <1>1 DEF StepsInv, Shape
<1>6. \A d \in Clerks : clerk'[d] = IF d = c THEN None ELSE clerk[d]
  BY <1>1 DEF StepsInv, Shape
<1>7. Shape'
  <2>1. step' \in [Steps -> Step] /\ clerk' \in [Clerks -> Request \cup {None}]
    BY <1>1, <1>4 DEF StepsInv, Shape
  <2> QED
    BY <1>1, <1>2, <2>1 DEF StepsInv, Shape
<1>8. ~Live(s) /\ \A t \in Steps : Live(t)' <=> t = s \/ Live(t)
  BY <1>1, <1>4, <1>5 DEF Live
<1>9. StepsOwn'
  <2>1. ASSUME NEW t \in Steps, Live(t)'
        PROVE  /\ step'[t].batch \in Batches /\ BatchOf(t)'.status # "ABSENT"
               /\ step'[t].kind = BatchOf(t)'.kind /\ step'[t].kind \in StepKinds
    <3>1. CASE t = s
      BY <1>1, <1>3, <1>4, <1>5, <3>1 DEF BatchOf
    <3>2. CASE t # s
      BY <1>1, <1>5, <1>8, <2>1, <3>2 DEF BatchOf, StepsInv, StepsOwn
    <3> QED
      BY <3>1, <3>2
  <2>2. ASSUME NEW t \in Steps, NEW u \in Steps, Live(t)', Live(u)', step'[t].batch = step'[u].batch
        PROVE  t = u
    BY <1>3, <1>4, <1>5, <1>8, <2>2 DEF StepsInv, StepsOwn
  <2> QED
    BY <2>1, <2>2 DEF StepsOwn
<1>10. HandsOwn'
  <2> SUFFICES ASSUME NEW d \in Clerks, NEW q, q = clerk'[d], q # None
               PROVE  /\ q.op \in {"COMMIT", "DISCARD", "ROLLBACK"} => q.step \in Steps /\ Live(q.step)'
                      /\ q.imported => q.op = "COMMIT"
                      /\ q.op = "STAGE" =>
                           /\ q.batch \in Batches /\ batch'[q.batch].status \in {"PREVIEW", "COMPLETED"}
                           /\ batch'[q.batch].kind \in StepKinds
                           /\ batch'[q.batch].kind \notin SelfService => batch'[q.batch].status = "PREVIEW"
                           /\ \A t \in Steps : Live(t)' => step'[t].batch # q.batch
                           /\ \A e \in Clerks : Stages(e, q.batch)' => e = d
    BY DEF HandsOwn, Live, Stages, At
  <2>1. d # c /\ q = clerk[d] /\ clerk[d] # None
    BY <1>6
  <2>2. \A x : \A e \in Clerks : Stages(e, x)' => Stages(e, x)
    BY <1>6 DEF Stages, At
  <2>3. /\ q.op \in {"COMMIT", "DISCARD", "ROLLBACK"} => q.step \in Steps /\ Live(q.step)
        /\ q.imported => q.op = "COMMIT"
    BY <2>1 DEF StepsInv, HandsOwn
  <2>4. ASSUME q.op = "STAGE"
        PROVE  /\ q.batch \in Batches /\ batch[q.batch].status \in {"PREVIEW", "COMPLETED"}
               /\ batch[q.batch].kind \in StepKinds
               /\ batch[q.batch].kind \notin SelfService => batch[q.batch].status = "PREVIEW"
               /\ \A t \in Steps : Live(t) => step[t].batch # q.batch
               /\ \A e \in Clerks : Stages(e, q.batch) => e = d
    BY <2>1, <2>4 DEF StepsInv, HandsOwn
  <2>5. q.op = "STAGE" => q.batch # b
    BY <1>3, <2>1 DEF Stages, At
  <2>6. \A t \in Steps : q.op = "STAGE" /\ Live(t)' => step'[t].batch # q.batch
    BY <1>4, <1>5, <1>8, <2>4, <2>5
  <2> QED
    BY <1>1, <1>8, <2>2, <2>3, <2>4, <2>6
<1>11. RecordsMade'
  BY <1>1 DEF StepsInv, RecordsMade
<1>12. opening[s] = 0
  BY <1>8 DEF StepsInv, OpeningsStand, Standing
<1>13. OpeningsStand'
  <2> SUFFICES ASSUME NEW t \in Steps PROVE opening'[t] = IF Standing(t)' THEN 1 ELSE 0
    BY DEF OpeningsStand
  <2>1. CASE t = s
    <3>1. Opens(s)' => batch[b].status = "PREVIEW"
      BY <1>3, <1>4, <1>5 DEF Opens, SelfService
    <3>2. ~Standing(s)'
      BY <1>1, <1>4, <1>5, <3>1 DEF Standing, BatchOf
    <3> QED
      BY <1>1, <1>12, <2>1, <3>2
  <2>2. CASE t # s
    <3>1. Standing(t)' <=> Standing(t)
      BY <1>1, <1>5, <2>2 DEF Standing, BatchOf, Live, Opens
    <3> QED
      BY <1>1, <3>1 DEF StepsInv, OpeningsStand
  <2> QED
    BY <2>1, <2>2
<1>14. ~Brought(s)' /\ \A t \in Steps : Brought(t)' => Brought(t)
  <2>1. ~Brought(s)'
    BY <1>6, <1>8 DEF Brought, At, StepsInv, HandsOwn
  <2> QED
    BY <1>6, <2>1 DEF Brought, At
<1>15. \A t \in Steps : t # s /\ Brought(t) => Brought(t)'
  BY <1>1, <1>6 DEF Brought, At
<1>16. \A t \in Steps : t # s =>
         /\ Made(step[t].batch)' = Made(step[t].batch)
         /\ Nothing(t)' <=> Nothing(t)
         /\ Whole(t)' <=> Whole(t)
         /\ BatchOf(t)' = BatchOf(t)
  BY <1>1, <1>5 DEF Nothing, Whole, Made, Rows, Opens, BatchOf
<1>17. StepsTell'
  <2> SUFFICES ASSUME NEW t \in Steps
               PROVE  /\ step'[t].status = "COMMITTED" => BatchOf(t)'.status = "COMPLETED" /\ Whole(t)'
                      /\ step'[t].status = "ROLLED_BACK" =>
                           BatchOf(t)'.status = "COMPLETED" /\ Made(step[t].batch)' = {}
                      /\ step'[t].status = "DISCARDED" =>
                           BatchOf(t)'.status \in {"COMPLETED", "CANCELLED"} /\ (blind' \/ Nothing(t)')
                      /\ step'[t].status = "STAGED" =>
                           /\ BatchOf(t)'.status \in {"PREVIEW", "COMPLETED"}
                           /\ blind' \/ Nothing(t)' \/ Brought(t)'
                           /\ Brought(t)' => BatchOf(t)'.status = "COMPLETED" /\ Whole(t)'
    BY DEF StepsTell
  <2>1. CASE t = s
    <3>1. BatchOf(s)' = batch[b] /\ step'[s].status = "STAGED"
      BY <1>1, <1>4, <1>5 DEF BatchOf
    <3>2. batch[b].status = "PREVIEW" => Made(b) = {}
      BY DEF StepsInv, RecordsMade, Made
    <3>3. Made(step[s].batch)' = Made(b)
      BY <1>1, <1>4, <1>5 DEF Made
    <3>4. blind' \/ Nothing(s)'
      BY <1>1, <1>2, <1>12, <3>2, <3>3 DEF Nothing
    <3> QED
      BY <1>3, <1>14, <2>1, <3>1, <3>4
  <2>2. CASE t # s
    BY <1>2, <1>5, <1>14, <1>15, <1>16, <2>2 DEF StepsInv, StepsTell
  <2> QED
    BY <2>1, <2>2
<1> QED
  BY <1>7, <1>9, <1>10, <1>11, <1>13, <1>17 DEF StepsInv

----------------------------------------------------------------------------
(* A step that leaves STAGED, or COMMITTED, by the hand of a request.      *)

\* Request c moves step t, with batch b, to n.
Moved(c, t, b, n) ==
  /\ clerk[c] # None /\ clerk[c].step = t /\ clerk' = [clerk EXCEPT ![c] = None]
  /\ Live(t) /\ b = step[t].batch /\ step' = [step EXCEPT ![t] = n]
  /\ n.batch = b /\ n.kind = step[t].kind /\ n.status \in {"COMMITTED", "DISCARDED", "ROLLED_BACK"}
  /\ \A x \in Batches : x # b => batch'[x] = batch[x]
  /\ batch'[b].kind = batch[b].kind /\ batch'[b].status # "ABSENT"
  /\ \A x : x # b => Made(x)' = Made(x)
  /\ \A s \in Steps : s # t => opening'[s] = opening[s]
  /\ blind => blind'

\* What the step says then.
Told(t, b, n) ==
  /\ opening'[t] = IF Standing(t)' THEN 1 ELSE 0
  /\ n.status = "COMMITTED" => BatchOf(t)'.status = "COMPLETED" /\ Whole(t)'
  /\ n.status = "ROLLED_BACK" => BatchOf(t)'.status = "COMPLETED" /\ Made(b)' = {}
  /\ n.status = "DISCARDED" =>
       BatchOf(t)'.status \in {"COMPLETED", "CANCELLED"} /\ (blind' \/ Nothing(t)')

LEMMA StepMoves ==
  ASSUME StepsInv, Shape', RecordsMade', NEW c \in Clerks, NEW t \in Steps, NEW b \in Batches, NEW n,
         Moved(c, t, b, n), Told(t, b, n)
  PROVE  StepsInv'
<1> USE DEF Moved, Told
<1>1. \A s \in Steps : step'[s] = IF s = t THEN n ELSE step[s]
  BY DEF StepsInv, Shape
<1>2. \A d \in Clerks : clerk'[d] = IF d = c THEN None ELSE clerk[d]
  BY DEF StepsInv, Shape
<1>3. \A s \in Steps : Live(s)' <=> Live(s)
  BY <1>1 DEF Live
<1>4. \A s \in Steps : Live(s) => /\ step[s].batch \in Batches /\ step'[s].batch = step[s].batch
                                  /\ step'[s].kind = step[s].kind
                                  /\ step[s].batch = b => s = t
  BY <1>1 DEF StepsInv, StepsOwn
<1>5. \A s \in Steps : Live(s) /\ s # t => BatchOf(s)' = BatchOf(s)
  BY <1>4 DEF BatchOf
<1>6. StepsOwn'
  <2>1. ASSUME NEW s \in Steps, Live(s)
        PROVE  /\ step'[s].batch \in Batches /\ BatchOf(s)'.status # "ABSENT"
               /\ step'[s].kind = BatchOf(s)'.kind /\ step'[s].kind \in StepKinds
    <3>1. CASE s = t
      BY <1>4, <2>1, <3>1 DEF BatchOf, StepsInv, StepsOwn
    <3>2. CASE s # t
      BY <1>4, <1>5, <2>1, <3>2 DEF StepsInv, StepsOwn
    <3> QED
      BY <3>1, <3>2
  <2>2. ASSUME NEW s \in Steps, NEW u \in Steps, Live(s), Live(u), step'[s].batch = step'[u].batch
        PROVE  s = u
    BY <1>4, <2>2 DEF StepsInv, StepsOwn
  <2> QED
    BY <1>3, <2>1, <2>2 DEF StepsOwn
<1>7. HandsOwn'
  <2> SUFFICES ASSUME NEW d \in Clerks, NEW q, q = clerk'[d], q # None
               PROVE  /\ q.op \in {"COMMIT", "DISCARD", "ROLLBACK"} => q.step \in Steps /\ Live(q.step)'
                      /\ q.imported => q.op = "COMMIT"
                      /\ q.op = "STAGE" =>
                           /\ q.batch \in Batches /\ batch'[q.batch].status \in {"PREVIEW", "COMPLETED"}
                           /\ batch'[q.batch].kind \in StepKinds
                           /\ batch'[q.batch].kind \notin SelfService => batch'[q.batch].status = "PREVIEW"
                           /\ \A s \in Steps : Live(s)' => step'[s].batch # q.batch
                           /\ \A e \in Clerks : Stages(e, q.batch)' => e = d
    BY DEF HandsOwn, Live, Stages, At
  <2>1. d # c /\ q = clerk[d] /\ clerk[d] # None
    BY <1>2
  <2>2. \A x : \A e \in Clerks : Stages(e, x)' => Stages(e, x)
    BY <1>2 DEF Stages, At
  <2>3. /\ q.op \in {"COMMIT", "DISCARD", "ROLLBACK"} => q.step \in Steps /\ Live(q.step)
        /\ q.imported => q.op = "COMMIT"
    BY <2>1 DEF StepsInv, HandsOwn
  <2>4. ASSUME q.op = "STAGE"
        PROVE  /\ q.batch \in Batches /\ batch[q.batch].status \in {"PREVIEW", "COMPLETED"}
               /\ batch[q.batch].kind \in StepKinds
               /\ batch[q.batch].kind \notin SelfService => batch[q.batch].status = "PREVIEW"
               /\ \A s \in Steps : Live(s) => step[s].batch # q.batch
               /\ \A e \in Clerks : Stages(e, q.batch) => e = d
    BY <2>1, <2>4 DEF StepsInv, HandsOwn
  <2>5. q.op = "STAGE" => q.batch # b /\ batch'[q.batch] = batch[q.batch]
    BY <2>4
  <2>6. \A s \in Steps : q.op = "STAGE" /\ Live(s)' => step'[s].batch # q.batch
    BY <1>3, <1>4, <2>4
  <2> QED
    BY <1>3, <2>2, <2>3, <2>4, <2>5, <2>6
<1>8. OpeningsStand'
  <2> SUFFICES ASSUME NEW s \in Steps, s # t PROVE opening'[s] = IF Standing(s)' THEN 1 ELSE 0
    BY DEF OpeningsStand
  <2>1. Standing(s)' <=> Standing(s)
    BY <1>1, <1>3, <1>5 DEF Standing, Opens
  <2> QED
    BY <2>1 DEF StepsInv, OpeningsStand
<1>9. \A s \in Steps : s # t => (Brought(s)' <=> Brought(s))
  BY <1>2 DEF Brought, At
<1>10. ASSUME NEW s \in Steps, Live(s), s # t
       PROVE  /\ Made(step[s].batch)' = Made(step[s].batch)
              /\ Nothing(s)' <=> Nothing(s)
              /\ Whole(s)' <=> Whole(s)
  <2>1. step[s].batch # b /\ step'[s] = step[s]
    BY <1>1, <1>4, <1>10
  <2>2. Made(step[s].batch)' = {r \in records' : r.batch = step[s].batch}
    BY <2>1 DEF Made
  <2>3. \A x : x # b => {r \in records' : r.batch = x} = {r \in records : r.batch = x}
    BY DEF Made
  <2>4. Made(step[s].batch)' = Made(step[s].batch)
    BY <2>1, <2>2, <2>3 DEF Made
  <2>5. Rows(step[s].batch)' = Rows(step[s].batch)
    BY <2>4 DEF Rows
  <2> QED
    BY <1>5, <1>10, <2>1, <2>4, <2>5 DEF Nothing, Whole, Opens
<1>11. StepsTell'
  <2> SUFFICES ASSUME NEW s \in Steps
               PROVE  /\ step'[s].status = "COMMITTED" => BatchOf(s)'.status = "COMPLETED" /\ Whole(s)'
                      /\ step'[s].status = "ROLLED_BACK" =>
                           BatchOf(s)'.status = "COMPLETED" /\ Made(step[s].batch)' = {}
                      /\ step'[s].status = "DISCARDED" =>
                           BatchOf(s)'.status \in {"COMPLETED", "CANCELLED"} /\ (blind' \/ Nothing(s)')
                      /\ step'[s].status = "STAGED" =>
                           /\ BatchOf(s)'.status \in {"PREVIEW", "COMPLETED"}
                           /\ blind' \/ Nothing(s)' \/ Brought(s)'
                           /\ Brought(s)' => BatchOf(s)'.status = "COMPLETED" /\ Whole(s)'
    BY DEF StepsTell
  <2>1. CASE s = t
    <3>1. Made(step[s].batch)' = Made(b)'
      BY <1>1, <2>1 DEF Made
    <3> QED
      BY <1>1, <2>1, <3>1
  <2>2. CASE s # t /\ Live(s)
    BY <1>1, <1>5, <1>9, <1>10, <2>2 DEF StepsInv, StepsTell
  <2>3. CASE ~Live(s)
    BY <1>1, <1>3, <2>3 DEF Live
  <2> QED
    BY <2>1, <2>2, <2>3
<1> QED
  BY <1>6, <1>7, <1>8, <1>11 DEF StepsInv

LEMMA CommitMarkKeeps ==
  ASSUME StepsInv, NEW c \in Clerks, CommitMark(c)
  PROVE  StepsInv'
<1> PICK t : t = clerk[c].step
  OBVIOUS
<1> PICK b : b = step[t].batch
  OBVIOUS
<1> PICK n : n = [step[t] EXCEPT !.status = "COMMITTED", !.entry = Opens(t)]
  OBVIOUS
<1>1. /\ clerk[c] # None /\ clerk[c].op = "COMMIT" /\ clerk[c].imported /\ step[t].status = "STAGED"
      /\ clerk' = [clerk EXCEPT ![c] = None]
      /\ UNCHANGED <<project, batch, records, used, opening, blind>>
  BY DEF CommitMark, At, Done
<1>2. step' = [step EXCEPT ![t] = n]
  BY DEF CommitMark, Opens
<1>3. t \in Steps /\ Live(t)
  BY <1>1 DEF StepsInv, HandsOwn
<1>4. step[t] \in Step /\ step \in [Steps -> Step] /\ Opens(t) \in BOOLEAN
  BY <1>3 DEF StepsInv, Shape, Opens
<1>5. n \in Step /\ n.status = "COMMITTED" /\ n.kind = step[t].kind /\ n.batch = b
  BY <1>4 DEF Step
<1>6. Shape'
  <2>1. step' \in [Steps -> Step] /\ clerk' \in [Clerks -> Request \cup {None}]
    BY <1>1, <1>2, <1>4, <1>5 DEF StepsInv, Shape
  <2> QED
    BY <1>1, <2>1 DEF StepsInv, Shape
<1>7. b \in Batches /\ batch[b].status # "ABSENT"
  BY <1>3 DEF StepsInv, StepsOwn, BatchOf
<1>8. BatchOf(t).status = "COMPLETED" /\ Whole(t)
  <2>1. Brought(t)
    BY <1>1 DEF Brought, At
  <2> QED
    BY <1>1, <1>3, <2>1 DEF StepsInv, StepsTell
<1>9. step'[t] = n
  BY <1>2, <1>3, <1>4
<1>10. BatchOf(t)'.status = "COMPLETED" /\ Whole(t)'
  <2>1. Rows(step[t].batch)' = Rows(step[t].batch)
    BY <1>1, <1>5, <1>9 DEF Rows, Made
  <2> QED
    BY <1>1, <1>5, <1>8, <1>9, <2>1 DEF BatchOf, Whole, Opens
<1>11. Standing(t)' <=> Standing(t)
  BY <1>1, <1>5, <1>9 DEF Standing, BatchOf, Live, Opens
<1>12. opening'[t] = IF Standing(t)' THEN 1 ELSE 0
  BY <1>1, <1>3, <1>11 DEF StepsInv, OpeningsStand
<1>13. RecordsMade' /\ \A x : Made(x)' = Made(x)
  BY <1>1 DEF StepsInv, RecordsMade, Made
<1>14. Moved(c, t, b, n)
  BY <1>1, <1>2, <1>3, <1>5, <1>6, <1>7, <1>10, <1>12, <1>13 DEF Moved
<1>15. Told(t, b, n)
  BY <1>1, <1>2, <1>3, <1>5, <1>6, <1>7, <1>10, <1>12, <1>13 DEF Told
<1> QED
  BY <1>3, <1>6, <1>7, <1>13, <1>14, <1>15, StepMoves

LEMMA DiscardCommitKeeps ==
  ASSUME StepsInv, NEW c \in Clerks, DiscardCommit(c)
  PROVE  StepsInv'
<1> PICK t : t = clerk[c].step
  OBVIOUS
<1> PICK b : b = step[t].batch
  OBVIOUS
<1> PICK n : n = [step[t] EXCEPT !.status = "DISCARDED"]
  OBVIOUS
<1>1. /\ clerk[c] # None /\ clerk[c].op = "DISCARD" /\ step[t].status = "STAGED"
      /\ step' = [step EXCEPT ![t] = n] /\ clerk' = [clerk EXCEPT ![c] = None]
      /\ batch' = IF batch[b].status = "PREVIEW"
                  THEN [batch EXCEPT ![b].status = "CANCELLED"] ELSE batch
      /\ UNCHANGED <<project, records, used, opening>>
      /\ blind' = (blind \/ ~(project.open /\ batch[b].status = "PREVIEW"))
  BY DEF DiscardCommit, At, Done, Rest
<1>2. blind' \in BOOLEAN /\ (blind => blind') /\ (batch[b].status # "PREVIEW" => blind')
  BY <1>1 DEF StepsInv, Shape
<1>3. t \in Steps /\ Live(t)
  BY <1>1 DEF StepsInv, HandsOwn
<1>4. step[t] \in Step /\ step \in [Steps -> Step]
  BY <1>3 DEF StepsInv, Shape
<1>5. n \in Step /\ n.status = "DISCARDED" /\ n.kind = step[t].kind /\ n.batch = b
  BY <1>4 DEF Step
<1>6. /\ b \in Batches /\ batch[b].status \in {"PREVIEW", "COMPLETED"}
      /\ batch[b] \in Batch /\ batch \in [Batches -> Batch]
  BY <1>1, <1>3 DEF StepsInv, StepsOwn, StepsTell, BatchOf, Shape
<1>7. /\ batch' \in [Batches -> Batch] /\ \A x \in Batches : x # b => batch'[x] = batch[x]
      /\ batch'[b].kind = batch[b].kind /\ batch'[b].valid = batch[b].valid
      /\ batch'[b].status = IF batch[b].status = "PREVIEW" THEN "CANCELLED" ELSE "COMPLETED"
  <2>1. \A x \in Batch : LET y == [x EXCEPT !.status = "CANCELLED"]
                         IN  y \in Batch /\ y.status = "CANCELLED" /\ y.kind = x.kind /\ y.valid = x.valid
    BY DEF Batch
  <2>2. CASE batch[b].status = "PREVIEW"
    <3>1. batch' = [batch EXCEPT ![b] = [batch[b] EXCEPT !.status = "CANCELLED"]]
      BY <1>1, <2>2
    <3> QED
      BY <1>6, <2>1, <2>2, <3>1
  <2>3. CASE batch[b].status # "PREVIEW"
    BY <1>1, <1>6, <2>3
  <2> QED
    BY <2>2, <2>3
<1>8. Shape'
  <2>1. step' \in [Steps -> Step] /\ clerk' \in [Clerks -> Request \cup {None}]
    BY <1>1, <1>4, <1>5 DEF StepsInv, Shape
  <2> QED
    BY <1>1, <1>2, <1>7, <2>1 DEF StepsInv, Shape
<1>9. step'[t] = n
  BY <1>1, <1>3, <1>4
<1>10. \A r \in records : r.batch \in Batches /\ (r.batch = b => batch[b].status # "PREVIEW")
  BY DEF StepsInv, Shape, Record, RecordsMade
<1>11. RecordsMade' /\ \A x : Made(x)' = Made(x)
  <2> SUFFICES ASSUME NEW r \in records
               PROVE  /\ batch'[r.batch].status = "COMPLETED"
                      /\ r.kind = batch'[r.batch].kind /\ r.row \in batch'[r.batch].valid
    BY <1>1 DEF RecordsMade, Made
  <2>1. /\ batch[r.batch].status = "COMPLETED"
        /\ r.kind = batch[r.batch].kind /\ r.row \in batch[r.batch].valid
    BY DEF StepsInv, RecordsMade
  <2>2. CASE r.batch = b
    BY <1>7, <1>10, <2>1, <2>2
  <2>3. CASE r.batch # b
    BY <1>7, <1>10, <2>1, <2>3
  <2> QED
    BY <2>2, <2>3
<1>12. Standing(t)' <=> Standing(t)
  <2>1. BatchOf(t)' = batch'[b] /\ BatchOf(t) = batch[b]
    BY <1>5, <1>9 DEF BatchOf
  <2>2. Live(t)' /\ (Opens(t)' <=> Opens(t)) /\ step'[t].status # "ROLLED_BACK"
    BY <1>5, <1>9 DEF Live, Opens
  <2>3. BatchOf(t)'.status = "COMPLETED" <=> BatchOf(t).status = "COMPLETED"
    BY <1>6, <1>7, <2>1
  <2>4. Live(t) /\ step[t].status # "ROLLED_BACK"
    BY <1>1, <1>3
  <2> QED
    BY <2>2, <2>3, <2>4 DEF Standing
<1>13. opening'[t] = IF Standing(t)' THEN 1 ELSE 0
  BY <1>1, <1>3, <1>12 DEF StepsInv, OpeningsStand
<1>14. BatchOf(t)'.status \in {"COMPLETED", "CANCELLED"} /\ (blind' \/ Nothing(t)')
  <2>1. BatchOf(t)'.status \in {"COMPLETED", "CANCELLED"}
    BY <1>5, <1>7, <1>9 DEF BatchOf
  <2>2. ASSUME batch[b].status = "PREVIEW" PROVE Nothing(t)'
    <3>1. Made(b) = {}
      BY <1>10, <2>2 DEF Made
    <3>2. opening[t] = 0
      BY <1>3, <2>2 DEF StepsInv, OpeningsStand, Standing, BatchOf
    <3>3. Made(step[t].batch)' = Made(b)
      BY <1>1, <1>5, <1>9 DEF Made
    <3> QED
      BY <1>1, <3>1, <3>2, <3>3 DEF Nothing
  <2> QED
    BY <1>2, <2>1, <2>2
<1>15. batch'[b].status # "ABSENT" /\ \A s \in Steps : s # t => opening'[s] = opening[s]
  <2>1. opening' = opening
    BY <1>1
  <2>2. batch'[b].status # "ABSENT"
    BY <1>7
  <2> QED
    BY <2>1, <2>2
<1>16. Moved(c, t, b, n)
  BY <1>1, <1>2, <1>3, <1>5, <1>6, <1>7, <1>8, <1>11, <1>13, <1>14, <1>15 DEF Moved
<1>17. Told(t, b, n)
  BY <1>1, <1>2, <1>3, <1>5, <1>6, <1>7, <1>8, <1>11, <1>13, <1>14, <1>15 DEF Told
<1> QED
  BY <1>3, <1>6, <1>8, <1>11, <1>16, <1>17, StepMoves

LEMMA RollbackCommitKeeps ==
  ASSUME StepsInv, NEW c \in Clerks, RollbackCommit(c)
  PROVE  StepsInv'
<1> PICK t : t = clerk[c].step
  OBVIOUS
<1> PICK b : b = step[t].batch
  OBVIOUS
<1> PICK n : n = [step[t] EXCEPT !.status = "ROLLED_BACK"]
  OBVIOUS
<1>1. /\ clerk[c] # None /\ clerk[c].op = "ROLLBACK" /\ step[t].status = "COMMITTED" /\ Removable(t)
      /\ step' = [step EXCEPT ![t] = n] /\ clerk' = [clerk EXCEPT ![c] = None]
      /\ UNCHANGED <<project, batch, used>>
      /\ records' = records \ Made(b)
      /\ opening' = IF Opens(t) THEN [opening EXCEPT ![t] = @ - 1] ELSE opening
      /\ blind' = (blind \/ ~project.open)
  BY DEF RollbackCommit, At, Done, Rest, Reversed, Opens
<1>2. blind' \in BOOLEAN /\ (blind => blind')
  BY <1>1 DEF StepsInv, Shape
<1>3. t \in Steps /\ Live(t)
  BY <1>1 DEF StepsInv, HandsOwn
<1>4. step[t] \in Step /\ step \in [Steps -> Step] /\ opening \in [Steps -> Int]
  BY <1>3 DEF StepsInv, Shape
<1>5. n \in Step /\ n.status = "ROLLED_BACK" /\ n.kind = step[t].kind /\ n.batch = b
  BY <1>4 DEF Step
<1>6. b \in Batches /\ batch[b].status = "COMPLETED"
  BY <1>1, <1>3 DEF StepsInv, StepsOwn, StepsTell, BatchOf
<1>7. Made(b) \cap used = {}
  BY <1>1 DEF Removable
<1>8. Shape'
  <2>1. step' \in [Steps -> Step] /\ clerk' \in [Clerks -> Request \cup {None}]
    BY <1>1, <1>4, <1>5 DEF StepsInv, Shape
  <2>2. opening' \in [Steps -> Int]
    BY <1>1, <1>3, <1>4
  <2>3. records' \subseteq Record /\ used' \subseteq records'
    BY <1>1, <1>7 DEF StepsInv, Shape
  <2> QED
    BY <1>1, <1>2, <2>1, <2>2, <2>3 DEF StepsInv, Shape
<1>9. step'[t] = n
  BY <1>1, <1>3, <1>4
<1>10. Made(b)' = {} /\ \A x : x # b => Made(x)' = Made(x)
  BY <1>1 DEF Made
<1>11. RecordsMade'
  BY <1>1 DEF StepsInv, RecordsMade
<1>12. opening'[t] = 0
  <2>1. opening[t] = IF Opens(t) THEN 1 ELSE 0
    BY <1>1, <1>3, <1>6 DEF StepsInv, OpeningsStand, Standing, BatchOf
  <2> QED
    BY <1>1, <1>3, <1>4, <2>1
<1>13. ~Standing(t)'
  BY <1>5, <1>9 DEF Standing
<1>14. BatchOf(t)'.status = "COMPLETED"
  BY <1>1, <1>5, <1>6, <1>9 DEF BatchOf
<1>15. /\ \A x \in Batches : x # b => batch'[x] = batch[x]
       /\ batch'[b].kind = batch[b].kind /\ batch'[b].status # "ABSENT"
       /\ opening'[t] = IF Standing(t)' THEN 1 ELSE 0
  BY <1>1, <1>6, <1>12, <1>13
<1>16. \A s \in Steps : s # t => opening'[s] = opening[s]
  BY <1>1, <1>4
<1>17. Moved(c, t, b, n)
  BY <1>1, <1>2, <1>3, <1>5, <1>6, <1>8, <1>10, <1>11, <1>14, <1>15, <1>16 DEF Moved
<1>18. Told(t, b, n)
  BY <1>1, <1>2, <1>3, <1>5, <1>6, <1>8, <1>10, <1>11, <1>14, <1>15, <1>16 DEF Told
<1> QED
  BY <1>3, <1>6, <1>8, <1>11, <1>17, <1>18, StepMoves

LEMMA StepsInvStep == StepsInv /\ [Next]_vars => StepsInv'
<1> SUFFICES ASSUME StepsInv, [Next]_vars PROVE StepsInv'
  OBVIOUS
<1>1. ASSUME NEW b \in Batches, NEW kind \in SelfService, NEW f \in Files, ImportPreview(b, kind, f)
      PROVE  StepsInv'
  <2>1. kind \in Kinds
    BY DEF Kinds
  <2> QED
    BY <1>1, <2>1, PreviewKeeps
<1>2. ASSUME NEW c \in Clerks, NEW b \in Batches, NEW kind \in StepKinds, NEW f \in Files,
             StageLook(c, b, kind, f)
      PROVE  StepsInv'
  BY <1>2, StageLookKeeps
<1>3. ASSUME NEW b \in Batches, ImportCommit(b) PROVE StepsInv'
  BY <1>3, ImportCommitKeeps
<1>4. ASSUME NEW r \in records, Use(r) PROVE StepsInv'
  <2>1. UNCHANGED <<project, step, batch, records, opening, clerk, blind>> /\ used' \subseteq records
    BY <1>4 DEF Use, StepsInv, Shape
  <2>2. Shape'
    BY <2>1 DEF StepsInv, Shape
  <2>3. HandsOwn' /\ \A s \in Steps : Brought(s)' <=> Brought(s)
    BY <2>1 DEF StepsInv, HandsOwn, Brought, At, Live, Stages
  <2> QED
    BY <2>1, <2>2, <2>3, TellsStand
<1>5. ASSUME NEW c \in Clerks, NEW s \in Steps, StageCommit(c, s) PROVE StepsInv'
  BY <1>5, StageCommitKeeps
<1>6. ASSUME NEW c \in Clerks, NEW s \in Steps,
             CommitLook(c, s) \/ DiscardLook(c, s) \/ RollbackLook(c, s)
      PROVE  StepsInv'
  <2>1. PICK op \in {"COMMIT", "DISCARD", "ROLLBACK"} : Begin(c, op, s)
    BY <1>6 DEF CommitLook, DiscardLook, RollbackLook
  <2>2. Live(s) /\ UNCHANGED <<project, step, batch, records, used, opening, blind>>
    BY <1>6 DEF CommitLook, DiscardLook, RollbackLook, Live
  <2>3. PICK q : q = [op |-> op, step |-> s, batch |-> None, imported |-> FALSE]
    OBVIOUS
  <2>4. q \in Request /\ Looks(q)
    BY <2>2, <2>3 DEF Request, Looks
  <2>5. clerk[c] = None /\ clerk' = [clerk EXCEPT ![c] = q]
    BY <2>1, <2>3 DEF Begin
  <2> QED
    BY <2>2, <2>4, <2>5, LookKeeps
<1>7. ASSUME NEW c \in Clerks, CommitBatch(c) PROVE StepsInv'
  BY <1>7, CommitBatchKeeps
<1>8. ASSUME NEW c \in Clerks, CommitMark(c) PROVE StepsInv'
  BY <1>8, CommitMarkKeeps
<1>9. ASSUME NEW c \in Clerks, DiscardCommit(c) PROVE StepsInv'
  BY <1>9, DiscardCommitKeeps
<1>10. ASSUME NEW c \in Clerks, RollbackCommit(c) PROVE StepsInv'
  BY <1>10, RollbackCommitKeeps
<1>11. ASSUME NEW c \in Clerks, CloseLook(c) PROVE StepsInv'
  <2>1. PICK q : q = [op |-> "CLOSE", step |-> None, batch |-> None, imported |-> FALSE]
    OBVIOUS
  <2>2. q \in Request /\ Looks(q)
    BY <2>1 DEF Request, Looks
  <2>3. /\ clerk[c] = None /\ clerk' = [clerk EXCEPT ![c] = q]
        /\ UNCHANGED <<project, step, batch, records, used, opening, blind>>
    BY <1>11, <2>1 DEF CloseLook, Begin
  <2> QED
    BY <2>2, <2>3, LookKeeps
<1>12. ASSUME NEW c \in Clerks, CloseCommit(c) PROVE StepsInv'
  <2>1. /\ clerk[c] # None /\ clerk[c].op = "CLOSE" /\ clerk' = [clerk EXCEPT ![c] = None]
        /\ project' = [project EXCEPT !.open = FALSE]
        /\ UNCHANGED <<step, batch, records, used, opening, blind>>
    BY <1>12 DEF CloseCommit, At, Done
  <2>2. project' \in [open : BOOLEAN, signed : BOOLEAN] /\ blind' \in BOOLEAN
    BY <2>1 DEF StepsInv, Shape
  <2>3. ~clerk[c].imported
    BY <2>1 DEF StepsInv, HandsOwn
  <2> QED
    BY <2>1, <2>2, <2>3, DropKeeps
<1>13. ASSUME NEW c \in Clerks, Fail(c) PROVE StepsInv'
  BY <1>13, FailKeeps
<1>14. ASSUME SignOff \/ UNCHANGED vars PROVE StepsInv'
  <2>1. /\ UNCHANGED <<step, batch, records, used, opening, clerk, blind>>
        /\ project' \in [open : BOOLEAN, signed : BOOLEAN]
    BY <1>14 DEF SignOff, vars, StepsInv, Shape
  <2>2. Shape'
    BY <2>1 DEF StepsInv, Shape
  <2>3. HandsOwn' /\ \A s \in Steps : Brought(s)' <=> Brought(s)
    BY <2>1 DEF StepsInv, HandsOwn, Brought, At, Live, Stages
  <2> QED
    BY <2>1, <2>2, <2>3, TellsStand
<1> QED
  BY <1>1, <1>2, <1>3, <1>4, <1>5, <1>6, <1>7, <1>8, <1>9, <1>10, <1>11, <1>12, <1>13, <1>14, Zenon
     DEF Next

LEMMA StepsInvSound == StepsInv => MigrationSound
<1> SUFFICES ASSUME StepsInv PROVE MigrationSound
  OBVIOUS
<1>1. MigrationTypeOK
  BY DEF StepsInv, Shape, OpeningsStand, MigrationTypeOK
<1>2. ASSUME NEW s \in Steps
      PROVE  /\ step[s].status = "COMMITTED" =>
                  /\ BatchOf(s).status = "COMPLETED" /\ Whole(s)
                  /\ Opens(s) => opening[s] = 1
             /\ step[s].status = "ROLLED_BACK" => Nothing(s)
             /\ step[s].status \in {"STAGED", "DISCARDED"} => blind \/ UnderWay(s) \/ Nothing(s)
  <2>1. Brought(s) => UnderWay(s)
    BY DEF Brought, UnderWay
  <2>2. step[s].status = "COMMITTED" /\ Opens(s) => opening[s] = 1
    BY DEF StepsInv, StepsTell, OpeningsStand, Standing, Live
  <2>3. step[s].status = "ROLLED_BACK" => opening[s] = 0
    BY DEF StepsInv, OpeningsStand, Standing
  <2> QED
    BY <2>1, <2>2, <2>3 DEF StepsInv, StepsTell, Nothing
<1>3. StepTellsLive
  BY <1>2 DEF StepTellsLive, BatchOf, Whole, Opens
<1> QED
  BY <1>1, <1>3 DEF MigrationSound

LEMMA StepsInvariant == MigrationSpec => []StepsInv
<1>1. Init => StepsInv
  BY MigrationInvInit DEF MigrationInv
<1> QED
  BY <1>1, StepsInvStep, PTL DEF MigrationSpec

\* A step tells what has become of it (commitStep, discardStep and rollbackStep,
\* each in several transactions, next to the self-service import): COMMITTED, all
\* rows of its batch are live and its opening balances posted once; ROLLED_BACK,
\* nothing of it is left; STAGED or DISCARDED, nothing is there, unless a commit is
\* under way or step and batch have been taken apart.
THEOREM MigrationAlwaysSound == MigrationSpec => []MigrationSound
BY StepsInvariant, StepsInvSound, PTL

----------------------------------------------------------------------------
(* Closing.                                                                *)

LEMMA ClosesStay ==
  ASSUME StepsInv, ClosesSettled, blind => blind',
         ~project'.open => ~project.open \/ \E c \in Clerks : At(c, "CLOSE"),
         \A c \in Clerks : At(c, "CLOSE")' => At(c, "CLOSE") \/ AllSettled,
         \A s \in Steps : step'[s].status = "STAGED" => step[s].status = "STAGED"
  PROVE  ClosesSettled'
BY DEF ClosesSettled, AllSettled

\* Who only takes or drops a request closes nothing.
LEMMA HandsCloseNothing ==
  ASSUME StepsInv, ClosesSettled, NEW c \in Clerks, NEW q, q = None \/ q.op # "CLOSE" \/ AllSettled,
         clerk' = [clerk EXCEPT ![c] = q], UNCHANGED project, blind => blind',
         \A s \in Steps : step'[s].status = "STAGED" => step[s].status = "STAGED"
  PROVE  ClosesSettled'
<1>1. \A d \in Clerks : clerk'[d] = IF d = c THEN q ELSE clerk[d]
  BY DEF StepsInv, Shape
<1>2. \A d \in Clerks : At(d, "CLOSE")' => At(d, "CLOSE") \/ AllSettled
  BY <1>1 DEF At
<1> QED
  BY <1>2, ClosesStay

LEMMA ClosesStep == StepsInv /\ ClosesSettled /\ [Next]_vars => ClosesSettled'
<1> SUFFICES ASSUME StepsInv, ClosesSettled, [Next]_vars PROVE ClosesSettled'
  OBVIOUS
<1>1. ASSUME UNCHANGED <<project, step, clerk>>, blind => blind' PROVE ClosesSettled'
  BY <1>1 DEF ClosesSettled, At, AllSettled
<1>2. ASSUME NEW b \in Batches, NEW kind \in SelfService, NEW f \in Files, ImportPreview(b, kind, f)
      PROVE  ClosesSettled'
  BY <1>1, <1>2 DEF ImportPreview
<1>3. ASSUME NEW b \in Batches, ImportCommit(b) PROVE ClosesSettled'
  BY <1>1, <1>3 DEF ImportCommit, Rest
<1>4. ASSUME NEW r \in records, Use(r) PROVE ClosesSettled'
  BY <1>1, <1>4 DEF Use
<1>5. ASSUME SignOff \/ UNCHANGED vars PROVE ClosesSettled'
  <2>1. UNCHANGED <<step, clerk, blind>> /\ project'.open = project.open
    BY <1>5 DEF SignOff, vars, StepsInv, Shape
  <2> QED
    BY <2>1 DEF ClosesSettled, At, AllSettled
<1>6. ASSUME NEW c \in Clerks, NEW b \in Batches, NEW kind \in StepKinds, NEW f \in Files,
             StageLook(c, b, kind, f)
      PROVE  ClosesSettled'
  <2>1. PICK q : q = [op |-> "STAGE", step |-> None, batch |-> b, imported |-> FALSE]
    OBVIOUS
  <2>2. clerk' = [clerk EXCEPT ![c] = q] /\ UNCHANGED <<project, step, blind>> /\ q.op # "CLOSE"
    BY <1>6, <2>1 DEF StageLook
  <2> QED
    BY <2>2, HandsCloseNothing
<1>7. ASSUME NEW c \in Clerks, NEW s \in Steps, StageCommit(c, s) PROVE ClosesSettled'
  <2>1. /\ UNCHANGED project /\ clerk' = [clerk EXCEPT ![c] = None]
        /\ blind' = (blind \/ ~(/\ project.open /\ ~\E d \in Clerks : At(d, "CLOSE")
                                /\ batch[clerk[c].batch].status = "PREVIEW"))
    BY <1>7 DEF StageCommit, Rest, Done
  <2>2. \A d \in Clerks : At(d, "CLOSE")' => At(d, "CLOSE")
    BY <2>1 DEF At, StepsInv, Shape
  <2>3. ~blind' => project'.open /\ ~\E d \in Clerks : At(d, "CLOSE")'
    BY <2>1, <2>2
  <2> QED
    BY <2>3 DEF ClosesSettled
<1>8. ASSUME NEW c \in Clerks, NEW s \in Steps,
             CommitLook(c, s) \/ DiscardLook(c, s) \/ RollbackLook(c, s)
      PROVE  ClosesSettled'
  <2>1. PICK op \in {"COMMIT", "DISCARD", "ROLLBACK"} : Begin(c, op, s)
    BY <1>8 DEF CommitLook, DiscardLook, RollbackLook
  <2>2. UNCHANGED <<project, step, blind>>
    BY <1>8 DEF CommitLook, DiscardLook, RollbackLook
  <2>3. PICK q : q = [op |-> op, step |-> s, batch |-> None, imported |-> FALSE]
    OBVIOUS
  <2>4. clerk' = [clerk EXCEPT ![c] = q] /\ q.op # "CLOSE"
    BY <2>1, <2>3 DEF Begin
  <2> QED
    BY <2>2, <2>4, HandsCloseNothing
<1>9. ASSUME NEW c \in Clerks, CommitBatch(c) PROVE ClosesSettled'
  <2>1. PICK q : q = [clerk[c] EXCEPT !.imported = TRUE]
    OBVIOUS
  <2>2. /\ clerk' = [clerk EXCEPT ![c] = q] /\ UNCHANGED <<project, step>> /\ (blind => blind')
        /\ clerk[c] # None /\ clerk[c].op = "COMMIT"
    BY <1>9, <2>1 DEF CommitBatch, At, Rest
  <2>3. clerk[c] \in Request
    BY <2>2 DEF StepsInv, Shape
  <2>4. q.op # "CLOSE"
    BY <2>1, <2>2, <2>3 DEF Request
  <2> QED
    BY <2>2, <2>4, HandsCloseNothing
<1>10. ASSUME NEW c \in Clerks, CommitMark(c) \/ DiscardCommit(c) \/ RollbackCommit(c)
       PROVE  ClosesSettled'
  <2>1. clerk' = [clerk EXCEPT ![c] = None] /\ UNCHANGED project /\ (blind => blind')
    <3>1. blind' = blind \/ \E x : blind' = (blind \/ ~x)
      BY <1>10 DEF CommitMark, DiscardCommit, RollbackCommit, Rest
    <3>2. blind => blind'
      BY <3>1 DEF StepsInv, Shape
    <3> QED
      BY <1>10, <3>2 DEF CommitMark, DiscardCommit, RollbackCommit, Done
  <2>2. \A s \in Steps : step'[s].status = "STAGED" => step[s].status = "STAGED"
    BY <1>10 DEF CommitMark, DiscardCommit, RollbackCommit, StepsInv, Shape, Step
  <2> QED
    BY <2>1, <2>2, HandsCloseNothing
<1>11. ASSUME NEW c \in Clerks, CloseLook(c) PROVE ClosesSettled'
  <2>1. PICK q : q = [op |-> "CLOSE", step |-> None, batch |-> None, imported |-> FALSE]
    OBVIOUS
  <2>2. clerk' = [clerk EXCEPT ![c] = q] /\ UNCHANGED <<project, step, blind>> /\ AllSettled
    BY <1>11, <2>1 DEF CloseLook, Begin
  <2> QED
    BY <2>2, HandsCloseNothing
<1>12. ASSUME NEW c \in Clerks, CloseCommit(c) PROVE ClosesSettled'
  <2>1. At(c, "CLOSE") /\ clerk' = [clerk EXCEPT ![c] = None] /\ UNCHANGED <<step, blind>>
    BY <1>12 DEF CloseCommit, Done
  <2>2. \A d \in Clerks : At(d, "CLOSE")' => At(d, "CLOSE")
    BY <2>1 DEF At, StepsInv, Shape
  <2> QED
    BY <2>1, <2>2, ClosesStay
<1>13. ASSUME NEW c \in Clerks, Fail(c) PROVE ClosesSettled'
  <2>1. clerk' = [clerk EXCEPT ![c] = None] /\ UNCHANGED <<project, step>> /\ (blind => blind')
    BY <1>13 DEF Fail, Done, Rest
  <2> QED
    BY <2>1, HandsCloseNothing
<1> QED
  BY <1>2, <1>3, <1>4, <1>5, <1>6, <1>7, <1>8, <1>9, <1>10, <1>11, <1>12, <1>13, Zenon DEF Next

\* A closed project is settled (closeProject reads the steps before the
\* transaction that closes): none of its steps is STAGED, as long as none was
\* staged by a request that overlapped the close.
THEOREM ClosedAlwaysSettled == MigrationSpec => []ClosedIsSettled
<1>1. Init => ClosesSettled
  BY MigrationInvInit DEF MigrationInv
<1>2. ClosesSettled => ClosedIsSettled
  BY DEF ClosesSettled, ClosedIsSettled, AllSettled
<1> QED
  BY <1>1, <1>2, ClosesStep, StepsInvariant, PTL DEF MigrationSpec

----------------------------------------------------------------------------
(* Lines of bank statements.                                               *)

\* Max is a choice: a finite set of naturals has a largest number.
LEMMA MaxIs ==
  ASSUME NEW S \in SUBSET Nat, IsFiniteSet(S), S # {}
  PROVE  Max(S) \in S /\ \A x \in S : x <= Max(S)
<1> DEFINE Above(x) == {y \in S : y > x}
           T == {Above(x) : x \in S}
<1>1. IsWellFoundedOn(StrictSubsetOrdering(S), SUBSET S)
  BY FS_StrictSubsetOrderingWellFounded, FS_FiniteSubsetsOfFinite
<1>2. PICK A \in T : \A B \in T : ~ (<<B, A>> \in StrictSubsetOrdering(S))
  <2>1. T \subseteq SUBSET S /\ T # {}
    OBVIOUS
  <2> HIDE DEF T
  <2> QED
    BY <1>1, <2>1, WFMin
<1>3. PICK m \in S : A = Above(m)
  BY <1>2
<1>4. ASSUME NEW x \in S, x > m PROVE FALSE
  <2>1. x \in Nat /\ m \in Nat /\ \A y \in S : y \in Nat /\ (y > x => y > m) /\ ~(x > x)
    BY <1>4
  <2>2. Above(x) \subseteq Above(m) /\ x \in Above(m) /\ x \notin Above(x)
    BY <1>4, <2>1
  <2>3. Above(x) \in SUBSET S /\ Above(m) \in SUBSET S /\ Above(x) \in T
    OBVIOUS
  <2> HIDE DEF Above, T
  <2>4. <<Above(x), Above(m)>> \in StrictSubsetOrdering(S)
    BY <2>2, <2>3 DEF StrictSubsetOrdering
  <2> QED
    BY <1>2, <1>3, <2>3, <2>4
<1>5. m \in S /\ \A y \in S : m >= y
  BY <1>4
<1> HIDE DEF Above, T
<1>6. Max(S) \in S /\ \A y \in S : Max(S) >= y
  BY <1>5 DEF Max
<1> QED
  BY <1>6

\* Every line of a statement is there already or found valid.
LEMMA NewLinesAre ==
  ASSUME NEW f \in Files
  PROVE  /\ \A n \in Names : \A k \in 1..f.count[n] : <<n, k>> \in BankRows \cup NewLines(f)
         /\ \A row \in NewLines(f) : row[2] <= f.count[row[1]]
<1> DEFINE S == {f.count[n] : n \in Names}
<1>1. f.count \in [Names -> Nat]
  BY MigrationConstants
<1>2. IsFiniteSet(S) /\ S \subseteq Nat
  <2>1. f.count \in Surjection(Names, S)
    BY <1>1 DEF Surjection
  <2> QED
    BY <1>1, <2>1, FS_Surjection, MigrationConstants
<1>3. ASSUME NEW n \in Names, NEW k \in 1..f.count[n] PROVE <<n, k>> \in BankRows \cup NewLines(f)
  <2>1. f.count[n] \in S
    OBVIOUS
  <2> HIDE DEF S
  <2>2. f.count[n] <= Max(S) /\ Max(S) \in Nat
    BY <1>2, <2>1, MaxIs
  <2>3. k \in 1..Max(S) /\ k <= f.count[n]
    BY <1>1, <2>2
  <2>4. <<n, k>> \in Names \X (1..Max(S))
    BY <2>3
  <2>5. (\A r \in Of("bank") : r.row # <<n, k>>) => <<n, k>> \in NewLines(f)
    BY <2>3, <2>4 DEF NewLines, S
  <2> QED
    BY <2>5 DEF BankRows
<1>4. \A row \in NewLines(f) : row[2] <= f.count[row[1]]
  BY DEF NewLines
<1> QED
  BY <1>3, <1>4

\* A batch that is no statement, or is not imported, changes no line.
LEMMA LinesStay ==
  ASSUME LinesKept, Of("bank")' = Of("bank"),
         \A b \in Batches : Statement(b)' =>
           /\ Statement(b) /\ batch'[b].file = batch[b].file /\ batch'[b].valid = batch[b].valid
           /\ batch'[b].status = "COMPLETED" => batch[b].status = "COMPLETED"
  PROVE  LinesKept'
<1>1. BankRows' = BankRows
  BY DEF BankRows
<1>2. ASSUME NEW b \in Batches, Statement(b)'
      PROVE  /\ batch'[b].file \in Files
             /\ \A n \in Names : \A k \in 1..batch'[b].file.count[n] :
                  <<n, k>> \in IF batch'[b].status = "COMPLETED" THEN BankRows'
                               ELSE BankRows' \cup batch'[b].valid
             /\ \A row \in batch'[b].valid : row[2] <= batch'[b].file.count[row[1]]
  BY <1>1, <1>2 DEF LinesKept
<1> QED
  BY <1>2 DEF LinesKept

LEMMA LinesStaged ==
  ASSUME StepsInv, LinesKept, NEW b \in Batches, NEW kind \in Kinds, NEW f \in Files,
         Staged(b, kind, f), UNCHANGED records
  PROVE  LinesKept'
<1>1. /\ batch'[b] = [status |-> "PREVIEW", kind |-> kind, file |-> f, valid |-> Valid(kind, f)]
      /\ \A x \in Batches : x # b => batch'[x] = batch[x]
  BY StagedFresh
<1>2. BankRows' = BankRows /\ Of("bank")' = Of("bank")
  BY DEF BankRows, Of
<1>3. ASSUME NEW x \in Batches, Statement(x)'
      PROVE  /\ batch'[x].file \in Files
             /\ \A n \in Names : \A k \in 1..batch'[x].file.count[n] :
                  <<n, k>> \in IF batch'[x].status = "COMPLETED" THEN BankRows'
                               ELSE BankRows' \cup batch'[x].valid
             /\ \A row \in batch'[x].valid : row[2] <= batch'[x].file.count[row[1]]
  <2>1. CASE x = b
    <3>1. kind = "bank" /\ batch'[b].file = f /\ batch'[b].status = "PREVIEW"
      BY <1>1, <1>3, <2>1 DEF Statement
    <3>2. batch'[b].valid = NewLines(f)
      BY <1>1, <3>1 DEF Valid
    <3> QED
      BY <1>2, <2>1, <3>1, <3>2, NewLinesAre
  <2>2. CASE x # b
    BY <1>1, <1>2, <1>3, <2>2 DEF LinesKept, Statement
  <2> QED
    BY <2>1, <2>2
<1> QED
  BY <1>2, <1>3 DEF LinesKept

\* An imported statement brings in its lines that are not there yet.
LEMMA LinesImported ==
  ASSUME StepsInv, LinesKept, NEW b \in Batches, Imported(b)
  PROVE  LinesKept'
<1>1. /\ batch[b].status = "PREVIEW" /\ batch'[b].status = "COMPLETED"
      /\ batch'[b].kind = batch[b].kind /\ batch'[b].valid = batch[b].valid
      /\ batch'[b].file = batch[b].file
      /\ \A x \in Batches : x # b => batch'[x] = batch[x]
      /\ records' = records \cup Created(b)
      /\ \A r \in Created(b) : r.batch = b /\ r.kind = batch[b].kind /\ r.row \in batch[b].valid
  BY ImportedFacts
<1>2. CASE batch[b].kind # "bank"
  <2>1. Of("bank")' = Of("bank")
    BY <1>1, <1>2 DEF Of
  <2>2. \A x \in Batches : Statement(x)' =>
          /\ Statement(x) /\ batch'[x].file = batch[x].file /\ batch'[x].valid = batch[x].valid
          /\ batch'[x].status = "COMPLETED" => batch[x].status = "COMPLETED"
    BY <1>1, <1>2 DEF Statement
  <2> QED
    BY <2>1, <2>2, LinesStay
<1>3. CASE batch[b].kind = "bank"
  <2>1. Created(b) = {[kind |-> "bank", row |-> row, batch |-> b] : row \in Fresh(b)}
    BY <1>3 DEF Created
  <2>2. Fresh(b) = {row \in batch[b].valid : \A r \in Of("bank") : r.row # row}
    BY <1>3 DEF Fresh
  <2>3. Of("bank")' = Of("bank") \cup Created(b)
    BY <1>1, <1>3 DEF Of
  <2>4. ASSUME NEW row \in Fresh(b) PROVE \E r \in Created(b) : r.row = row
    <3>1. [kind |-> "bank", row |-> row, batch |-> b] \in Created(b)
      BY <2>1
    <3> QED
      BY <3>1
  <2>5. \A r \in Created(b) : r.row \in Fresh(b)
    BY <2>1
  <2>6. \A r, q \in Created(b) : r.row = q.row => r = q
    BY <2>1
  <2>7. BankRows' = BankRows \cup batch[b].valid
    <3>1. BankRows' = {r.row : r \in Of("bank") \cup Created(b)}
      BY <2>3 DEF BankRows
    <3>2. \A row \in batch[b].valid : row \in BankRows \/ row \in Fresh(b)
      BY <2>2 DEF BankRows
    <3> QED
      BY <2>2, <2>4, <2>5, <3>1, <3>2 DEF BankRows
  <2>8. \A r, q \in Of("bank")' : r.row = q.row => r = q
    BY <2>2, <2>3, <2>5, <2>6 DEF LinesKept
  <2>9. ASSUME NEW x \in Batches, Statement(x)'
        PROVE  /\ batch'[x].file \in Files
               /\ \A n \in Names : \A k \in 1..batch'[x].file.count[n] :
                    <<n, k>> \in IF batch'[x].status = "COMPLETED" THEN BankRows'
                                 ELSE BankRows' \cup batch'[x].valid
               /\ \A row \in batch'[x].valid : row[2] <= batch'[x].file.count[row[1]]
    <3>1. Statement(x)
      BY <1>1, <2>9 DEF Statement
    <3>2. /\ batch'[x].file = batch[x].file /\ batch'[x].valid = batch[x].valid
          /\ x # b => batch'[x].status = batch[x].status
      BY <1>1
    <3> QED
      BY <1>1, <2>7, <3>1, <3>2 DEF LinesKept
  <2> QED
    BY <2>8, <2>9 DEF LinesKept
<1> QED
  BY <1>2, <1>3

\* What an import of a step is an import of.
LEMMA CommitBatchIs ==
  ASSUME StepsInv, NEW c \in Clerks, CommitBatch(c)
  PROVE  \E t \in Steps, b \in Batches :
           /\ step[t].batch = b /\ Imported(b) /\ UNCHANGED step
           /\ opening' = IF Opens(t) THEN [opening EXCEPT ![t] = @ + 1] ELSE opening
<1> PICK t : t = clerk[c].step
  OBVIOUS
<1>1. /\ clerk[c] # None /\ clerk[c].op = "COMMIT" /\ Imported(step[t].batch) /\ UNCHANGED step
      /\ opening' = IF Opens(t) THEN [opening EXCEPT ![t] = @ + 1] ELSE opening
  BY DEF CommitBatch, At, Opens
<1>2. t \in Steps /\ Live(t)
  BY <1>1 DEF StepsInv, HandsOwn
<1>3. step[t].batch \in Batches
  BY <1>2 DEF StepsInv, StepsOwn
<1> QED
  BY <1>1, <1>2, <1>3

LEMMA LinesStep == StepsInv /\ LinesKept /\ [Next]_vars => LinesKept'
<1> SUFFICES ASSUME StepsInv, LinesKept, [Next]_vars PROVE LinesKept'
  OBVIOUS
<1>1. ASSUME UNCHANGED <<batch, records>> PROVE LinesKept'
  <2>1. Of("bank")' = Of("bank") /\ \A b \in Batches : Statement(b)' <=> Statement(b)
    BY <1>1 DEF Of, Statement
  <2> QED
    BY <1>1, <2>1, LinesStay
<1>2. ASSUME NEW b \in Batches, NEW kind \in SelfService, NEW f \in Files, ImportPreview(b, kind, f)
      PROVE  LinesKept'
  <2>1. kind \in Kinds /\ Staged(b, kind, f) /\ UNCHANGED records
    BY <1>2 DEF Kinds, ImportPreview
  <2> QED
    BY <2>1, LinesStaged
<1>3. ASSUME NEW c \in Clerks, NEW b \in Batches, NEW kind \in StepKinds, NEW f \in Files,
             StageLook(c, b, kind, f)
      PROVE  LinesKept'
  <2>1. kind \in Kinds /\ Staged(b, kind, f) /\ UNCHANGED records
    BY <1>3 DEF Kinds, StageLook
  <2> QED
    BY <2>1, LinesStaged
<1>4. ASSUME NEW b \in Batches, ImportCommit(b) PROVE LinesKept'
  BY <1>4, LinesImported DEF ImportCommit
<1>5. ASSUME NEW c \in Clerks, CommitBatch(c) PROVE LinesKept'
  BY <1>5, CommitBatchIs, LinesImported
<1>6. ASSUME NEW c \in Clerks, DiscardCommit(c) PROVE LinesKept'
  <2> PICK b : b = step[clerk[c].step].batch
    OBVIOUS
  <2>1. UNCHANGED records /\ (batch' = batch \/ batch' = [batch EXCEPT ![b].status = "CANCELLED"])
    BY <1>6 DEF DiscardCommit
  <2>2. \A x \in Batches : Statement(x)' =>
          /\ Statement(x) /\ batch'[x].file = batch[x].file /\ batch'[x].valid = batch[x].valid
          /\ batch'[x].status = "COMPLETED" => batch[x].status = "COMPLETED"
    <3>1. CASE batch' = batch
      BY <3>1 DEF Statement
    <3>2. ASSUME batch' = [batch EXCEPT ![b].status = "CANCELLED"], batch[b].status = "PREVIEW"
          PROVE  \A x \in Batches : Statement(x)' =>
                   /\ Statement(x) /\ batch'[x].file = batch[x].file /\ batch'[x].valid = batch[x].valid
                   /\ batch'[x].status = "COMPLETED" => batch[x].status = "COMPLETED"
      BY <3>2 DEF Statement, StepsInv, Shape, Batch
    <3>3. batch' = batch \/ batch[b].status = "PREVIEW"
      BY <1>6 DEF DiscardCommit
    <3> QED
      BY <2>1, <3>1, <3>2, <3>3
  <2>3. Of("bank")' = Of("bank")
    BY <2>1 DEF Of
  <2> QED
    BY <2>2, <2>3, LinesStay
<1>7. ASSUME NEW c \in Clerks, RollbackCommit(c) PROVE LinesKept'
  <2> PICK t : t = clerk[c].step
    OBVIOUS
  <2>1. /\ clerk[c] # None /\ clerk[c].op = "ROLLBACK" /\ UNCHANGED batch
        /\ records' = records \ Made(step[t].batch)
    BY <1>7 DEF RollbackCommit, At
  <2>2. t \in Steps /\ Live(t)
    BY <2>1 DEF StepsInv, HandsOwn
  <2>3. batch[step[t].batch].kind # "bank"
    BY <2>2 DEF StepsInv, StepsOwn, BatchOf, StepKinds
  <2>4. \A r \in Made(step[t].batch) : r.kind # "bank"
    BY <2>3 DEF Made, StepsInv, RecordsMade
  <2>5. Of("bank")' = Of("bank") /\ \A b \in Batches : Statement(b)' <=> Statement(b)
    BY <2>1, <2>4 DEF Of, Statement
  <2> QED
    BY <2>1, <2>5, LinesStay
<1>8. ASSUME NEW r \in records, Use(r) PROVE LinesKept'
  BY <1>1, <1>8 DEF Use
<1>9. ASSUME NEW c \in Clerks, NEW s \in Steps,
             StageCommit(c, s) \/ CommitLook(c, s) \/ DiscardLook(c, s) \/ RollbackLook(c, s)
      PROVE  LinesKept'
  BY <1>1, <1>9 DEF StageCommit, CommitLook, DiscardLook, RollbackLook
<1>10. ASSUME NEW c \in Clerks, CommitMark(c) \/ CloseLook(c) \/ CloseCommit(c) \/ Fail(c)
       PROVE  LinesKept'
  BY <1>1, <1>10 DEF CommitMark, CloseLook, CloseCommit, Fail
<1>11. ASSUME SignOff \/ UNCHANGED vars PROVE LinesKept'
  BY <1>1, <1>11 DEF SignOff, vars
<1> QED
  BY <1>2, <1>3, <1>4, <1>5, <1>6, <1>7, <1>8, <1>9, <1>10, <1>11, Zenon DEF Next

\* The lines of a name are numbered from one to its count in the fullest file.
LEMMA LinesCounted ==
  ASSUME StepsInv, LinesKept, NEW n \in Names
  PROVE  Cardinality({r \in Of("bank") : r.row[1] = n}) =
           Max({0} \cup {batch[b].file.count[n] :
                  b \in {b \in Batches : batch[b].kind = "bank" /\ batch[b].status = "COMPLETED"}})
<1> DEFINE B == {b \in Batches : batch[b].kind = "bank" /\ batch[b].status = "COMPLETED"}
           C == {batch[b].file.count[n] : b \in B}
           M == Max({0} \cup C)
           R == {r \in Of("bank") : r.row[1] = n}
<1>1. \A b \in B : batch[b].file \in Files /\ batch[b].file.count[n] \in Nat
  <2>1. \A b \in B : batch[b].file \in Files
    BY DEF LinesKept, Statement
  <2> QED
    BY <2>1, MigrationConstants
<1>2. IsFiniteSet({0} \cup C) /\ {0} \cup C \subseteq Nat
  <2> DEFINE g == [b \in B |-> batch[b].file.count[n]]
  <2>1. IsFiniteSet(B)
    BY FS_Subset, MigrationConstants
  <2>2. g \in Surjection(B, C)
    BY DEF Surjection
  <2>3. IsFiniteSet(C) /\ C \subseteq Nat
    <3>1. C \subseteq Nat
      BY <1>1
    <3> HIDE DEF g, B, C
    <3> QED
      BY <2>1, <2>2, <3>1, FS_Surjection
  <2> HIDE DEF C
  <2>4. {0} \cup C = C \cup {0}
    OBVIOUS
  <2> QED
    BY <2>3, <2>4, FS_AddElement
<1>3. M \in Nat /\ M \in {0} \cup C /\ \A x \in C : x <= M
  <2> HIDE DEF C
  <2> QED
    BY <1>2, MaxIs
<1>4. ASSUME NEW r \in R PROVE r.row \in Row /\ r.row = <<n, r.row[2]>> /\ r.row[2] \in 1..M
  <2>1. r \in records /\ r.kind = "bank" /\ r \in Record /\ r.row[1] = n
    BY DEF Of, StepsInv, Shape
  <2>2. r.row \in Row /\ r.batch \in Batches
    BY <2>1 DEF Record
  <2>3. r.batch \in B /\ r.row \in batch[r.batch].valid
    BY <2>1, <2>2 DEF StepsInv, RecordsMade
  <2>4. r.row[2] <= batch[r.batch].file.count[n] /\ batch[r.batch].file.count[n] \in C
    BY <2>1, <2>3 DEF LinesKept, Statement
  <2>5. r.row[2] \in Nat \ {0} /\ r.row = <<r.row[1], r.row[2]>>
    BY <2>2 DEF Row
  <2>6. batch[r.batch].file.count[n] <= M /\ batch[r.batch].file.count[n] \in Nat
    BY <1>1, <1>3, <2>3, <2>4
  <2> HIDE DEF M
  <2> QED
    BY <1>3, <2>1, <2>2, <2>4, <2>5, <2>6
<1>5. ASSUME NEW k \in 1..M PROVE \E r \in R : r.row[2] = k
  <2>1. M # 0
    BY <1>3
  <2>2. PICK b \in B : M = batch[b].file.count[n]
    BY <1>3, <2>1
  <2>3. <<n, k>> \in BankRows
    BY <1>5, <2>2 DEF LinesKept, Statement
  <2>4. PICK r \in Of("bank") : r.row = <<n, k>>
    BY <2>3 DEF BankRows
  <2> QED
    BY <2>4
<1>6. \A r, q \in R : r.row[2] = q.row[2] => r = q
  <2>1. \A r, q \in R : r.row = q.row => r = q
    BY DEF LinesKept
  <2> HIDE DEF R
  <2> QED
    BY <1>4, <2>1
<1> HIDE DEF M, R
<1>7. Cardinality(R) = M
  <2> DEFINE h == [k \in 1..M |-> CHOOSE r \in R : r.row[2] = k]
  <2>1. \A k \in 1..M : h[k] \in R /\ h[k].row[2] = k
    BY <1>5
  <2>2. \A r \in R : r.row[2] \in 1..M /\ h[r.row[2]] = r
    BY <1>4, <1>6, <2>1
  <2>3. h \in [1..M -> R]
    BY <2>1
  <2> HIDE DEF h
  <2>4. h \in Bijection(1..M, R)
    BY <2>1, <2>2, <2>3 DEF Bijection, Injection, Surjection, IsInjective
  <2> QED
    BY <1>3, <2>4, FS_CountingElements DEF ExistsBijection
<1> QED
  BY <1>7 DEF M, R

\* Overlapping bank statements bring in every line once and lose none (the preview
\* counts equal lines, the import leaves out those that came in meanwhile): of
\* equal lines there are as many as in the fullest file imported.
THEOREM LinesAlwaysImportedOnce == MigrationSpec => []LinesImportedOnce
<1>1. Init => LinesKept
  BY MigrationInvInit DEF MigrationInv
<1>2. StepsInv /\ LinesKept => LinesImportedOnce
  BY LinesCounted DEF LinesImportedOnce
<1> QED
  BY <1>1, <1>2, LinesStep, StepsInvariant, PTL DEF MigrationSpec

----------------------------------------------------------------------------
(* Steps that were discarded or rolled back.                               *)

Retired(s) == step[s].status \in {"DISCARDED", "ROLLED_BACK"}

StaysOut(s) ==
  /\ Made(step[s].batch)' \subseteq Made(step[s].batch)
  /\ opening'[s] <= opening[s]

LEMMA OutStays ==
  ASSUME StepsInv, NEW s \in Steps, step'[s].batch = step[s].batch, records' \subseteq records,
         opening'[s] <= opening[s]
  PROVE  StaysOut(s)
<1>1. Made(step[s].batch)' \subseteq Made(step[s].batch)
  BY DEF Made
<1> QED
  BY <1>1 DEF StaysOut

\* Only a preview is imported, and a retired step has none.
LEMMA ImportLeavesOut ==
  ASSUME StepsInv, NEW b \in Batches, Imported(b), UNCHANGED step, NEW s \in Steps, Retired(s)
  PROVE  step[s].batch # b /\ Made(step[s].batch)' = Made(step[s].batch)
<1>1. batch[b].status = "PREVIEW" /\ \A x : x # b => Made(x)' = Made(x)
  BY ImportedFacts
<1>2. step[s].batch # b
  BY <1>1 DEF StepsInv, StepsTell, BatchOf, Retired
<1> PICK x : x = step[s].batch
  OBVIOUS
<1>3. Made(step[s].batch)' = Made(x)'
  BY DEF Made
<1> QED
  BY <1>1, <1>2, <1>3

LEMMA RetiredStep ==
  ASSUME StepsInv, [Next]_vars, NEW s \in Steps, Retired(s)
  PROVE  StaysOut(s)
<1> USE DEF Retired
<1>1. opening[s] \in Int
  BY DEF StepsInv, Shape
<1>2. ASSUME UNCHANGED <<step, records, opening>> PROVE StaysOut(s)
  BY <1>1, <1>2, OutStays
<1>3. ASSUME NEW b \in Batches, NEW kind \in SelfService, NEW f \in Files, ImportPreview(b, kind, f)
      PROVE  StaysOut(s)
  BY <1>2, <1>3 DEF ImportPreview
<1>4. ASSUME NEW c \in Clerks, NEW b \in Batches, NEW kind \in StepKinds, NEW f \in Files,
             StageLook(c, b, kind, f)
      PROVE  StaysOut(s)
  BY <1>2, <1>4 DEF StageLook
<1>5. ASSUME NEW b \in Batches, ImportCommit(b) PROVE StaysOut(s)
  <2>1. Imported(b) /\ UNCHANGED <<step, opening>>
    BY <1>5 DEF ImportCommit
  <2> QED
    BY <1>1, <2>1, ImportLeavesOut DEF StaysOut
<1>6. ASSUME NEW c \in Clerks, CommitBatch(c) PROVE StaysOut(s)
  <2>1. PICK t \in Steps, b \in Batches :
          /\ step[t].batch = b /\ Imported(b) /\ UNCHANGED step
          /\ opening' = IF Opens(t) THEN [opening EXCEPT ![t] = @ + 1] ELSE opening
    BY <1>6, CommitBatchIs
  <2>2. step[s].batch # b /\ Made(step[s].batch)' = Made(step[s].batch)
    BY <2>1, ImportLeavesOut
  <2>3. opening'[s] = opening[s]
    BY <2>1, <2>2 DEF StepsInv, Shape
  <2> QED
    BY <1>1, <2>2, <2>3 DEF StaysOut
<1>7. ASSUME NEW c \in Clerks, CommitMark(c) \/ DiscardCommit(c) PROVE StaysOut(s)
  <2>1. UNCHANGED <<records, opening>>
    BY <1>7 DEF CommitMark, DiscardCommit
  <2>2. step'[s].batch = step[s].batch
    BY <1>7 DEF CommitMark, DiscardCommit, StepsInv, Shape, Step
  <2> QED
    BY <1>1, <2>1, <2>2, OutStays
<1>8. ASSUME NEW c \in Clerks, RollbackCommit(c) PROVE StaysOut(s)
  <2>1. /\ step[clerk[c].step].status = "COMMITTED" /\ records' \subseteq records
        /\ \E t : opening' = IF Opens(t) THEN [opening EXCEPT ![t] = @ - 1] ELSE opening
    BY <1>8 DEF RollbackCommit, Reversed, Opens
  <2>2. step'[s].batch = step[s].batch
    BY <1>8 DEF RollbackCommit, StepsInv, Shape, Step
  <2>3. opening'[s] <= opening[s]
    BY <1>1, <2>1 DEF StepsInv, Shape
  <2> QED
    BY <2>1, <2>2, <2>3, OutStays
<1>9. ASSUME NEW c \in Clerks, NEW t \in Steps, StageCommit(c, t) PROVE StaysOut(s)
  <2>1. /\ UNCHANGED <<records, opening>> /\ step[t].status = "ABSENT"
        /\ \E n : step' = [step EXCEPT ![t] = n]
    BY <1>9 DEF StageCommit
  <2>2. t # s /\ step'[s].batch = step[s].batch
    BY <2>1 DEF StepsInv, Shape
  <2> QED
    BY <1>1, <2>1, <2>2, OutStays
<1>10. ASSUME NEW r \in records, Use(r) PROVE StaysOut(s)
  BY <1>2, <1>10 DEF Use
<1>11. ASSUME NEW c \in Clerks, NEW t \in Steps,
              CommitLook(c, t) \/ DiscardLook(c, t) \/ RollbackLook(c, t)
       PROVE  StaysOut(s)
  BY <1>2, <1>11 DEF CommitLook, DiscardLook, RollbackLook
<1>12. ASSUME NEW c \in Clerks, CloseLook(c) \/ CloseCommit(c) \/ Fail(c) PROVE StaysOut(s)
  BY <1>2, <1>12 DEF CloseLook, CloseCommit, Fail
<1>13. ASSUME SignOff \/ UNCHANGED vars PROVE StaysOut(s)
  BY <1>2, <1>13 DEF SignOff, vars
<1> QED
  BY <1>3, <1>4, <1>5, <1>6, <1>7, <1>8, <1>9, <1>10, <1>11, <1>12, <1>13, Zenon DEF Next

LEMMA RetiredStays ==
  StepsInv /\ [Next]_vars =>
    [\A s \in Steps : step[s].status \in {"DISCARDED", "ROLLED_BACK"} =>
       /\ Made(step[s].batch)' \subseteq Made(step[s].batch)
       /\ opening'[s] <= opening[s]]_vars
BY RetiredStep DEF Retired, StaysOut

\* A step that was discarded or rolled back never brings anything in afterwards:
\* a commit that is still on its way finds a batch that is no preview any more
\* (commitStep claims the batch first and the step afterwards).
THEOREM RetiredAlwaysStay == MigrationSpec => RetiredStepsStay
BY StepsInvariant, RetiredStays, PTL DEF MigrationSpec, RetiredStepsStay
=============================================================================
