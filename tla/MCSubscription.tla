---------------------------- MODULE MCSubscription ----------------------------
(* Instances of Subscription for TLC.                                         *)
EXTENDS Subscription

CONSTANTS a, b, x, y, p, q
=============================================================================
