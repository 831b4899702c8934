--------------------------- MODULE LowStockAlerts ---------------------------
(***************************************************************************)
(* Low-stock alerts of one product (server/src/low-stock-alerts.ts): after *)
(* every movement that committed, and every change of its reorder level,   *)
(* the product is looked at, a fall to the level or below it opens a       *)
(* breach, and everyone who may write inventory is told once a breach.     *)
(*                                                                         *)
(* The quantity is read before the row of the alert's state is locked, the *)
(* state is read again before the notices, and each of these is a moment   *)
(* at which others may move.                                               *)
(***************************************************************************)
EXTENDS Integers, FiniteSets

CONSTANTS Movers, Recipients, Quantities, Levels, MaxBreach, MaxWrites

ASSUME AlertConstants ==
  /\ Quantities \subseteq Nat /\ Levels \subseteq Nat /\ {MaxBreach, MaxWrites} \subseteq Nat

VARIABLES
  stock,     \* the product: quantity on hand and reorder level, 0 for no alerts
  staff,     \* the active users with inventory.write
  alert,     \* low_stock_alert_states
  notices,   \* notifications sent, by breach and recipient
  mover,     \* what every mover's evaluation has come to
  writes,    \* commits so far
  blurred    \* history: an evaluation was overtaken or lost since one that ran alone

alertVars == <<stock, staff, alert, notices, mover, writes, blurred>>

NoTask == [step |-> "IDLE", low |-> FALSE, breach |-> 0, to |-> {}]

AlertInit ==
  /\ stock \in [quantity : Quantities, level : {0}]
  /\ staff \in SUBSET Recipients
  /\ alert = [state |-> "HEALTHY", breach |-> 0, pending |-> FALSE]
  /\ notices = {}
  /\ mover = [m \in Movers |-> NoTask]
  /\ writes = 0 /\ blurred = FALSE

\* The comparison is made in SQL, against the level read just before.
IsLow(quantity, level) == level > 0 /\ quantity <= level

Evaluating == {m \in Movers : mover[m].step # "IDLE"}
AtStep(m, step) == mover[m].step = step
ToStep(m, step) == mover' = [mover EXCEPT ![m].step = step]
Done(m) == mover' = [mover EXCEPT ![m] = NoTask]

\* A movement or a new reorder level commits; its event starts an evaluation.
Change(m, quantity, level) ==
  /\ AtStep(m, "IDLE") /\ writes < MaxWrites
  /\ stock' = [quantity |-> quantity, level |-> level]
  /\ (stock'.quantity = stock.quantity) # (stock'.level = stock.level)
  /\ writes' = writes + 1
  /\ ToStep(m, "CHANGED")
  /\ blurred' = (Evaluating # {})
  /\ UNCHANGED <<staff, alert, notices>>

ChangeStaff(people) ==
  /\ staff # people /\ writes < MaxWrites
  /\ staff' = people /\ writes' = writes + 1
  /\ UNCHANGED <<stock, alert, notices, mover, blurred>>

\* decide, up to the lock.
Observe(m) ==
  /\ AtStep(m, "CHANGED")
  /\ mover' = [mover EXCEPT ![m].step = "OBSERVED", ![m].low = IsLow(stock.quantity, stock.level)]
  /\ UNCHANGED <<stock, staff, alert, notices, writes, blurred>>

\* decide, under the lock.
Decide(m) ==
  /\ AtStep(m, "OBSERVED")
  /\ IF ~mover[m].low
     THEN /\ alert' = [alert EXCEPT !.state = "HEALTHY", !.pending = FALSE]
          /\ Done(m)
     ELSE LET fell == alert.state # "LOW"
              breach == IF fell THEN alert.breach + 1 ELSE alert.breach
              pending == fell \/ alert.pending
          IN /\ breach <= MaxBreach
             /\ alert' = [state |-> "LOW", breach |-> breach, pending |-> pending]
             /\ IF pending
                THEN mover' = [mover EXCEPT ![m].step = "DECIDED", ![m].breach = breach]
                ELSE Done(m)
  /\ UNCHANGED <<stock, staff, notices, writes, blurred>>

SameBreach(m) == alert.state = "LOW" /\ alert.breach = mover[m].breach

\* evaluate reads the state again, then whom to tell.
Recheck(m) ==
  /\ AtStep(m, "DECIDED")
  /\ IF SameBreach(m) /\ alert.pending THEN ToStep(m, "CHECKED") ELSE Done(m)
  /\ UNCHANGED <<stock, staff, alert, notices, writes, blurred>>

FindRecipients(m) ==
  /\ AtStep(m, "CHECKED")
  /\ IF staff = {} THEN Done(m)
     ELSE mover' = [mover EXCEPT ![m].step = "TELLING", ![m].to = staff]
  /\ UNCHANGED <<stock, staff, alert, notices, writes, blurred>>

\* The key of a notice names its breach and recipient: a second one is the first.
Tell(m, r) ==
  /\ AtStep(m, "TELLING") /\ r \in mover[m].to
  /\ notices' = notices \cup {<<mover[m].breach, r>>}
  /\ mover' = [mover EXCEPT ![m].to = @ \ {r}]
  /\ UNCHANGED <<stock, staff, alert, writes, blurred>>

Clear(m) ==
  /\ AtStep(m, "TELLING") /\ mover[m].to = {}
  /\ alert' = IF SameBreach(m) THEN [alert EXCEPT !.pending = FALSE] ELSE alert
  /\ Done(m)
  /\ UNCHANGED <<stock, staff, notices, writes, blurred>>

\* The server dies or a step fails: the evaluation is not repeated, but the next
\* one of a breach still pending sends its notices.
LoseEvaluation(m) ==
  /\ ~AtStep(m, "IDLE")
  /\ Done(m)
  /\ blurred' = (blurred \/ mover[m].step \in {"CHANGED", "OBSERVED"})
  /\ UNCHANGED <<stock, staff, alert, notices, writes>>

AlertNext ==
  \/ \E m \in Movers, q \in Quantities, level \in Levels : Change(m, q, level)
  \/ \E people \in SUBSET Recipients : ChangeStaff(people)
  \/ \E m \in Movers :
       \/ Observe(m) \/ Decide(m) \/ Recheck(m) \/ FindRecipients(m)
       \/ \E r \in Recipients : Tell(m, r)
       \/ Clear(m) \/ LoseEvaluation(m)

----------------------------------------------------------------------------
(* Properties.                                                             *)

\* A breach that is no longer pending was told to someone, whatever evaluations
\* overlapped or died; nobody is told of a breach that never was; and while
\* evaluations come one at a time and none is lost, the state is that of the shelf.
AlertsSound ==
  /\ alert.state = "LOW" /\ ~alert.pending => \E r \in Recipients : <<alert.breach, r>> \in notices
  /\ \A n \in notices : n[1] \in 1..alert.breach
  /\ Evaluating = {} /\ ~blurred => (alert.state = "LOW" <=> IsLow(stock.quantity, stock.level))
  /\ alert.pending => alert.state = "LOW"
=============================================================================
