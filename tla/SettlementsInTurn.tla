------------------------- MODULE SettlementsInTurn -------------------------
(***************************************************************************)
(* What invoicing.ts promises its callers holds while settlements do not   *)
(* overlap with anything: the invoice it wrote back is the invoice it      *)
(* read.  A history variable marks the first overlap of a behaviour, so    *)
(* that these promises can be stated of invoicing as it is.                *)
(***************************************************************************)
EXTENDS Invoicing

VARIABLE overlap   \* history: a request was served while a settlement was under way

turnVars == <<vars, overlap>>

InTurn == \A p \in Payers : payer[p] # Idle => payer'[p] # payer[p]

TurnInit == InvoicingInit /\ overlap = FALSE

TurnNext == InvoicingNext /\ overlap' = (overlap \/ ~InTurn)

TurnSpec == TurnInit /\ [][TurnNext]_turnVars

----------------------------------------------------------------------------
(* Properties.                                                             *)

\* With settlements handled one at a time, the invoice, its payments, the ledger
\* and the stock never disagree, as invoicing.ts promises.
AgreeInTurn == overlap \/ ModulesAgree

\* With settlements handled one at a time, a void invoice stays void.
VoidFinalInTurn ==
  [][\A d \in Docs : ~overlap' /\ invoice[d].status = "VOID" => invoice'[d].status = "VOID"]_turnVars
=============================================================================
