------------------------------ MODULE MCBilling ------------------------------
(* Small instances of Billing: the trial, and a subscription after it.     *)
EXTENDS Billing

CONSTANTS s1, s2, r1, a1

TwoSubs == {s1, s2}
OneRegion == {r1}
OneActivator == {a1}
NoActivators == {}
Everybody == AllOthers
NotUsage == {"enforcer", "request"}
PaymentMoves == {"lapse", "cancel", "pastDue", "authenticate", "expire", "redrive"}
EndingMoves == {"lapse", "customer", "manual", "revert", "delete", "redrive"}
=============================================================================
