--------------------------- MODULE MCStockLedger ---------------------------
(* Two items, an invoice for one and an invoice for both, three adjustments of *)
(* which two carry the same idempotency key, and two servers.                  *)
EXTENDS AdjustmentsInTurn, TLC

CONSTANTS widget, gadget, one, both, k1, k2, w1, w2

MCItems == {widget, gadget}
MCLines ==
  (one :> ((widget :> 2) @@ (gadget :> 0))) @@ (both :> ((widget :> 2) @@ (gadget :> 1)))
MCRequests ==
  {[key |-> k1, item |-> widget, delta |-> 1],
   [key |-> k1, item |-> gadget, delta |-> 1],
   [key |-> k2, item |-> widget, delta |-> -1]}

\* Long histories, in which rounding matters, are of one item.
InDepth ==
  contended \/ history[gadget] # <<>> =>
    \A i \in MCItems :
      /\ Len(history[i]) <= 3
      /\ \A k \in DOMAIN history[i] :
           history[i][k].doc = NoDoc /\ history[i][k].delta > 0 =>
             history[i][k].cost = 2 * history[i][k].delta

MCSpec == AdjustInit /\ [][AdjustNext /\ InDepth']_adjustVars

Alike == Permutations({w1, w2})
=============================================================================
