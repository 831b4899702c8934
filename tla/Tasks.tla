-------------------------------- MODULE Tasks --------------------------------
(***************************************************************************)
(* The task centre and its automation (server/src/tasks.ts).  A committed  *)
(* event makes its subscriber look at the feature, then at the tenant's    *)
(* rule, then insert a task, in three statements with no transaction       *)
(* around them; an index keeps one open task for each rule and subject.    *)
(* Whoever closes a task reads it first and writes on condition.           *)
(***************************************************************************)
EXTENDS Naturals, Sequences, FiniteSets

CONSTANTS Rules, Subjects, Subscribers, Closers, MaxTasks, Nothing

ASSUME TaskConstants == Nothing \notin Rules \cup Subjects /\ MaxTasks \in Nat

VARIABLES
  centre,   \* the tenant's feature workflow.centre
  rules,    \* automation_rules
  tasks,    \* tenant_tasks
  event,    \* the event every subscriber is at, and what it looks at next
  closing,  \* what every closer read of a task
  closed    \* history: the closures that were answered

taskVars == <<centre, rules, tasks, event, closing, closed>>

TaskInit ==
  /\ centre = FALSE
  /\ rules = [k \in Rules |-> FALSE]
  /\ tasks = <<>>
  /\ event = [h \in Subscribers |-> Nothing]
  /\ closing = [c \in Closers |-> Nothing]
  /\ closed = {}

----------------------------------------------------------------------------
(* Automation.                                                             *)

\* A platform administrator, and an audited setting of the tenant's own.
ToggleCentre ==
  /\ centre' = ~centre
  /\ UNCHANGED <<rules, tasks, event, closing, closed>>

SetAutomationRule(k) ==
  /\ centre
  /\ rules' = [rules EXCEPT ![k] = ~@]
  /\ UNCHANGED <<centre, tasks, event, closing, closed>>

\* An event of k's type, about s.
WorkflowCentreEnabled(h, k, s) ==
  /\ event[h] = Nothing /\ centre
  /\ event' = [event EXCEPT ![h] = [rule |-> k, subject |-> s, stage |-> "RULE"]]
  /\ UNCHANGED <<centre, rules, tasks, closing, closed>>

RuleEnabled(h) ==
  /\ event[h] # Nothing /\ event[h].stage = "RULE"
  /\ event' = [event EXCEPT ![h] = IF rules[event[h].rule] THEN [event[h] EXCEPT !.stage = "INSERT"] ELSE Nothing]
  /\ UNCHANGED <<centre, rules, tasks, closing, closed>>

Add(k, s) == Append(tasks, [rule |-> k, subject |-> s, status |-> "OPEN", by |-> Nothing])
OpenFor(k, s) == {i \in DOMAIN tasks : tasks[i].status = "OPEN" /\ tasks[i].rule = k /\ tasks[i].subject = s}

CreateAutomationTask(h) ==
  LET e == event[h]
  IN /\ e # Nothing /\ e.stage = "INSERT"
     /\ IF OpenFor(e.rule, e.subject) # {} THEN UNCHANGED tasks
        ELSE Len(tasks) < MaxTasks /\ tasks' = Add(e.rule, e.subject)
     /\ event' = [event EXCEPT ![h] = Nothing]
     /\ UNCHANGED <<centre, rules, closing, closed>>

\* Events live in memory: a restart loses those that subscribers are at.
LoseEvents ==
  /\ \E h \in Subscribers : event[h] # Nothing
  /\ event' = [h \in Subscribers |-> Nothing]
  /\ UNCHANGED <<centre, rules, tasks, closing, closed>>

----------------------------------------------------------------------------
(* People.                                                                 *)

CreateManualTask ==
  /\ centre /\ Len(tasks) < MaxTasks
  /\ tasks' = Add(Nothing, Nothing)
  /\ UNCHANGED <<centre, rules, event, closing, closed>>

ReadToClose(c, i, outcome) ==
  /\ centre /\ closing[c] = Nothing /\ tasks[i].status = "OPEN"
  /\ closing' = [closing EXCEPT ![c] = [task |-> i, outcome |-> outcome]]
  /\ UNCHANGED <<centre, rules, tasks, event, closed>>

\* The condition of the update.
StillOpen(i) == tasks[i].status = "OPEN"

CloseTask(c) ==
  LET r == closing[c]
  IN /\ r # Nothing
     /\ IF StillOpen(r.task)
        THEN /\ tasks' = [tasks EXCEPT ![r.task].status = r.outcome, ![r.task].by = c]
             /\ closed' = closed \cup {[task |-> r.task, outcome |-> r.outcome, by |-> c]}
        ELSE UNCHANGED <<tasks, closed>>
     /\ closing' = [closing EXCEPT ![c] = Nothing]
     /\ UNCHANGED <<centre, rules, event>>

TaskNext ==
  \/ ToggleCentre \/ CreateManualTask \/ LoseEvents
  \/ \E k \in Rules : SetAutomationRule(k) \/ \E h \in Subscribers, s \in Subjects : WorkflowCentreEnabled(h, k, s)
  \/ \E h \in Subscribers : RuleEnabled(h) \/ CreateAutomationTask(h)
  \/ \E c \in Closers : \/ \E i \in DOMAIN tasks, outcome \in {"DONE", "DISMISSED"} : ReadToClose(c, i, outcome)
                        \/ CloseTask(c)

----------------------------------------------------------------------------
(* Properties.                                                             *)

\* However many events and closers are at it, a subject has one open task of a rule,
\* and a task is closed by the one person who was told so, with the outcome chosen.
TasksSound ==
  /\ \A k \in Rules, s \in Subjects : Cardinality(OpenFor(k, s)) <= 1
  /\ \A i \in DOMAIN tasks :
       {x \in closed : x.task = i} = IF tasks[i].status = "OPEN" THEN {}
                                     ELSE {[task |-> i, outcome |-> tasks[i].status, by |-> tasks[i].by]}
=============================================================================
