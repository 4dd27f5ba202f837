---------------------------- MODULE MCSessionWorkflow ----------------------------
EXTENDS SessionWorkflow

CONSTANTS m1, m2

(* The first batch is approved twice. *)
TwiceThenOnce == <<{1, 2}, {1}>>

====
