----------------------------- MODULE MCBilling -----------------------------
(* The clock ticks in half months: a month is 2, 14 days of grace are 1,    *)
(* and 75 days are 5.                                                       *)
EXTENDS SubscriptionPayments, TLC
=============================================================================
