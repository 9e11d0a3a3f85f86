---- MODULE MCRefundMessageOutbox ----
(* Instances of the outbox: one case and two drains, or two cases and one. *)
EXTENDS RefundMessageOutbox, TLC

CONSTANTS c1, c2, w1, w2
OneCase == {c1}
TwoCases == {c1, c2}
OneWorker == {w1}
TwoWorkers == {w1, w2}
====
