---- MODULE MCFlowEngine ----
(* Bounded instances of FlowEngine for TLC. *)
EXTENDS FlowEngine
CONSTANTS f1, f2
====
