--------------------------- MODULE MCSubscription ---------------------------
(* Small instances of Subscription: one billed every second day, one whose  *)
(* agreement is over when it starts, and one that starts last.              *)
EXTENDS Subscription, TLC

CONSTANTS S1, S2, S3

MCStart == S1 :> 0 @@ S2 :> 1 @@ S3 :> 3
MCEnd == S1 :> 3 @@ S2 :> 1 @@ S3 :> 9
MCStep == S1 :> 2 @@ S2 :> 1 @@ S3 :> 1
=============================================================================
