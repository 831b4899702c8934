---------------------------- MODULE MCInvoicing ----------------------------
(* Two invoices that sell one tracked item, two bank lines and a payment.  *)
EXTENDS SettlementsInTurn, TLC

CONSTANTS widget, invA, invB, k1, k2, line1, line2, adjustment, p1, p2

MCItems == {widget}
MCDocs == {invA, invB}
MCLines == [d \in MCDocs |-> [i \in MCItems |-> IF d = invA THEN 1 ELSE 0]]
MCRequests == {[key |-> adjustment, item |-> widget, delta |-> -1]}

Pay(k, d, a) == [key |-> k, line |-> NoLine, parts |-> <<[doc |-> d, amount |-> a]>>]
Match(l, d, a) == [key |-> NoKey, line |-> l, parts |-> <<[doc |-> d, amount |-> a]>>]
Split(l, d, a, e, b) ==
  [key |-> NoKey, line |-> l,
   parts |-> <<[doc |-> d, amount |-> a], [doc |-> e, amount |-> b]>>]

\* Totals of 3 with and without tax, in the base currency and at 3 to 2.
MCTotals == {[net |-> 3, tax |-> 0, rate |-> 2], [net |-> 2, tax |-> 1, rate |-> 3]}

MCLineAmount == (line1 :> 3) @@ (line2 :> 2)

MCSettlements ==
  {Pay(k1, invA, 3), Pay(k1, invB, 1), Pay(k2, invA, 1), Match(line1, invB, 3),
   Split(line1, invA, 2, invB, 1), Split(line2, invB, 1, invA, 1)}

\* Settlements that overlap meet no adjustments.
MCNext ==
  /\ TurnNext
  /\ overlap' => Len(history'[widget]) <= 3 /\ worker' = worker /\ ~KeyUsed(adjustment)'
MCSpec == TurnInit /\ [][MCNext]_turnVars

Alike == Permutations({p1, p2})
=============================================================================
