--------------------------- MODULE MCSubscription ---------------------------
(* TLC instances of Subscription.                                           *)
EXTENDS Subscription, TLC
=============================================================================
