----------------------- MODULE MCNayaxRefundAttempt ------------------------
(* Instances of NayaxRefundAttempt for TLC.                                *)
EXTENDS NayaxRefundAttempt, TLC

\* Workers differ in nothing but their names.
WorkerSymmetry == Permutations(Workers)
=============================================================================
