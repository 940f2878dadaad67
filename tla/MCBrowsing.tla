------------------------------ MODULE MCBrowsing ------------------------------
(* Browsing for TLC: nothing to define beyond what the configuration says. *)
EXTENDS Browsing
===============================================================================
