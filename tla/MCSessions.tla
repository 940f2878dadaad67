------------------------------ MODULE MCSessions ------------------------------
(* Sessions for TLC: nothing to define beyond what the configuration says. *)
EXTENDS Sessions
===============================================================================
