------------------------- MODULE AdjustmentsInTurn -------------------------
(***************************************************************************)
(* What inventory.ts promises of the INVENTORY account holds while no two  *)
(* servers have manual adjustments in hand.  A history variable marks the  *)
(* first time that two have, so that the promise can be stated of the      *)
(* stock ledger as it is.                                                  *)
(***************************************************************************)
EXTENDS StockLedger

VARIABLE contended   \* history: two servers have had adjustments in hand at once

adjustVars == <<stockVars, contended>>

OneAdjusts == \A v, w \in Workers : worker[v] # Idle /\ worker[w] # Idle => v = w

AdjustInit == StockInit /\ contended = FALSE

AdjustNext == StockNext /\ contended' = (contended \/ ~OneAdjusts')

AdjustSpec == AdjustInit /\ [][AdjustNext]_adjustVars

----------------------------------------------------------------------------
(* Properties.                                                             *)

\* With the adjustments of one server at a time, Inventory and Accounting never
\* disagree, as inventory.ts promises, and the tie-out says so; of two servers it
\* may say that they do, but no quantity of it is ever off.
ReconcilesInTurn ==
  /\ contended \/ (InventoryReconciles /\ Reconciliation.status = "RECONCILED")
  /\ Reconciliation.mismatches = {}
=============================================================================
