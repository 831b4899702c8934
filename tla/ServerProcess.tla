--------------------------- MODULE ServerProcess ---------------------------
(***************************************************************************)
(* One process of the server: the limiter in front of the credential       *)
(* endpoints (server/src/security.ts), the readiness probe (health.ts) and *)
(* the way it goes down (error-tracking.ts, index.ts).  The limiter counts *)
(* in memory, so all it promises lasts as long as the process.  Requests   *)
(* are handled one at a time; time passes between them, in units of which  *)
(* Second make a second.                                                   *)
(***************************************************************************)
EXTENDS Integers, Sequences, FiniteSets

CONSTANTS Clients, MaxPerWindow, Window, Second, Crowd, CaptureTimeout, ProbeTimeout, LastUnit, MaxRestarts, Silent

ASSUME ServerConstants ==
  /\ {MaxPerWindow, Window, Second} \subseteq Nat \ {0}
  /\ {Crowd, CaptureTimeout, ProbeTimeout, LastUnit, MaxRestarts} \subseteq Nat

VARIABLES
  unit,      \* Date.now()
  windows,   \* the limiter's map from a client to its window
  admitted,  \* when each client was let in, over the life of the process
  promised,  \* what the last refusal told each client
  process,   \* its status, its listeners and when its last report times out
  reports,   \* fatal errors handed to the tracker, and restarts
  database,  \* whether the database answers, refuses or hangs
  probe      \* the two queries of the probe under way

limiterVars == <<windows, admitted, promised>>
serverVars == <<unit, limiterVars, process, reports, database, probe>>

FatalReasons == {"uncaught_exception", "unhandled_rejection"}
Started == [status |-> "RUNNING", listeners |-> FatalReasons, deadline |-> 0]
Forgotten == [c \in Clients |-> Silent]

ServerInit ==
  /\ unit = 0
  /\ windows = Forgotten /\ promised = Forgotten /\ admitted = [c \in Clients |-> <<>>]
  /\ process = Started
  /\ reports = [sent |-> 0, restarts |-> 0]
  /\ database \in {"ANSWERS", "REFUSES", "HANGS"}
  /\ probe = Silent

Alive == process.status # "EXITED"

\* sweep(): expired windows go once the map is crowded.
Swept ==
  IF Cardinality({c \in Clients : windows[c] # Silent}) < Crowd THEN windows
  ELSE [c \in Clients |-> IF windows[c] # Silent /\ windows[c].resetAt <= unit THEN Silent ELSE windows[c]]

\* Whole seconds, rounded up, at least one.
RetryAfter(w) ==
  LET seconds == (w.resetAt - unit + Second - 1) \div Second
  IN IF seconds > 1 THEN seconds ELSE 1

Counting(c) == Swept[c] # Silent /\ Swept[c].resetAt > unit

\* A first request, and the first after its window ended.
AdmitFirst(c) ==
  /\ Alive /\ ~Counting(c)
  /\ windows' = [Swept EXCEPT ![c] = [count |-> 1, resetAt |-> unit + Window]]
  /\ admitted' = [admitted EXCEPT ![c] = Append(@, unit)]
  /\ UNCHANGED <<unit, promised, process, reports, database, probe>>

AdmitNext(c) ==
  /\ Alive /\ Counting(c) /\ Swept[c].count < MaxPerWindow
  /\ windows' = [Swept EXCEPT ![c].count = @ + 1]
  /\ admitted' = [admitted EXCEPT ![c] = Append(@, unit)]
  /\ UNCHANGED <<unit, promised, process, reports, database, probe>>

\* The count goes on growing in the code; beyond the limit it makes no difference.
Refuse(c) ==
  /\ Alive /\ Counting(c) /\ Swept[c].count >= MaxPerWindow
  /\ windows' = [Swept EXCEPT ![c].count = MaxPerWindow + 1]
  /\ promised' = [promised EXCEPT ![c] = [told |-> unit, until |-> unit + Second * RetryAfter(Swept[c])]]
  /\ UNCHANGED <<unit, admitted, process, reports, database, probe>>

\* process.once: the listener is gone when it runs, and without one Node ends the process.
\* An unhandled rejection without a listener is raised as an uncaught exception.
Throw(reason) ==
  LET heard == CASE reason \in process.listeners -> {reason}
                 [] reason = "unhandled_rejection" -> {"uncaught_exception"} \cap process.listeners
                 [] OTHER -> {}
  IN /\ Alive
     /\ process' =
          CASE heard = {} -> [process EXCEPT !.status = "EXITED"]
            [] heard # {} /\ process.status = "RUNNING" ->
                 [status |-> "CRASHING", listeners |-> process.listeners \ heard, deadline |-> unit + CaptureTimeout]
            [] OTHER -> [process EXCEPT !.listeners = @ \ heard]
     /\ reports' = [reports EXCEPT !.sent = IF heard # {} /\ process.status = "RUNNING" THEN @ + 1 ELSE @]
     /\ UNCHANGED <<unit, limiterVars, database, probe>>

\* The tracker answered, or was given up on: the process goes down either way.
CaptureEnds ==
  /\ process.status = "CRASHING"
  /\ process' = [process EXCEPT !.status = "EXITED"]
  /\ UNCHANGED <<unit, limiterVars, reports, database, probe>>

\* The supervisor starts it anew; requests, windows and the probe went with the old process.
RestartServer ==
  /\ ~Alive /\ reports.restarts < MaxRestarts
  /\ process' = Started
  /\ reports' = [reports EXCEPT !.restarts = @ + 1]
  /\ windows' = Forgotten /\ promised' = Forgotten /\ admitted' = [c \in Clients |-> <<>>]
  /\ probe' = Silent
  /\ UNCHANGED <<unit, database>>

DatabaseTurns(to) ==
  /\ to # database /\ database' = to
  /\ UNCHANGED <<unit, limiterVars, process, reports, probe>>

Checks == {"database", "migrations"}

StartProbe ==
  /\ Alive /\ probe = Silent
  /\ probe' = [asked |-> unit, deadline |-> unit + ProbeTimeout,
               result |-> [k \in Checks |-> "PENDING"], heard |-> {}]
  /\ UNCHANGED <<unit, limiterVars, process, reports, database>>

\* safeCheck: an answer passes, unless the schema is of another version, and an error
\* fails; who hangs is not heard of.
QueryReturns(k) ==
  /\ Alive /\ probe # Silent /\ probe.result[k] = "PENDING"
  /\ \/ database = "ANSWERS" /\ probe' = [probe EXCEPT !.result[k] = "PASS", !.heard = @ \cup {unit}]
     \/ /\ database = "REFUSES" \/ (database = "ANSWERS" /\ k = "migrations")
        /\ probe' = [probe EXCEPT !.result[k] = "FAIL"]
  /\ UNCHANGED <<unit, limiterVars, process, reports, database>>

TimedOut(k) == probe.result[k] = "PENDING" /\ unit >= probe.deadline

\* bounded: the timer wins against a query that has not returned.
QueryTimesOut(k) ==
  /\ Alive /\ probe # Silent /\ TimedOut(k)
  /\ probe' = [probe EXCEPT !.result[k] = "FAIL"]
  /\ UNCHANGED <<unit, limiterVars, process, reports, database>>

ProbeAnswered == probe # Silent /\ \A k \in Checks : probe.result[k] # "PENDING"
Ready == ProbeAnswered /\ \A k \in Checks : probe.result[k] = "PASS"

ReportReadiness ==
  /\ Alive /\ ProbeAnswered
  /\ probe' = Silent
  /\ UNCHANGED <<unit, limiterVars, process, reports, database>>

\* Time waits for timers that are due.
Overdue ==
  \/ process.status = "CRASHING" /\ unit >= process.deadline
  \/ Alive /\ probe # Silent /\ unit >= probe.deadline

Tick ==
  /\ unit < LastUnit /\ ~Overdue
  /\ unit' = unit + 1
  /\ UNCHANGED <<limiterVars, process, reports, database, probe>>

LimiterNext == \E c \in Clients : AdmitFirst(c) \/ AdmitNext(c) \/ Refuse(c)

ProcessNext ==
  \/ \E r \in FatalReasons : Throw(r)
  \/ CaptureEnds \/ RestartServer
  \/ \E to \in {"ANSWERS", "REFUSES", "HANGS"} : DatabaseTurns(to)
  \/ StartProbe \/ ReportReadiness
  \/ \E k \in Checks : QueryReturns(k) \/ QueryTimesOut(k)

ServerNext == LimiterNext \/ ProcessNext \/ Tick

----------------------------------------------------------------------------
(* Properties.                                                             *)

\* Fixed windows let a burst straddle two of them: in less than the length of a window a
\* client gets in up to 2 * MaxPerWindow - 1 times, and never once more, crowded or not.
BurstsBounded ==
  \A c \in Clients : \A i \in DOMAIN admitted[c] :
    LET j == i + 2 * MaxPerWindow - 1
    IN j \in DOMAIN admitted[c] => admitted[c][j] - admitted[c][i] >= Window

\* Whoever was told when to come back, and comes then, is not refused by the same window.
RetryAfterKept ==
  \A c \in Clients :
    promised[c] # Silent /\ unit >= promised[c].until /\ windows[c] # Silent =>
      \/ windows[c].resetAt <= unit
      \/ windows[c].resetAt - Window > promised[c].told

\* One report per life of the process, however many errors follow the first.
ReportedOnce == reports.sent <= reports.restarts + 1

\* "Ready" was heard from the database itself while the probe was under way.
ReadyIsHeard == Ready => \E t \in probe.heard : probe.asked <= t /\ t <= probe.deadline

ServerSound == BurstsBounded /\ RetryAfterKept /\ ReportedOnce /\ ReadyIsHeard
=============================================================================
