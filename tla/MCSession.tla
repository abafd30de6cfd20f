----------------------------- MODULE MCSession -----------------------------
(* Session for TLC: every run gives the constants small sets and bounds.   *)
EXTENDS Session
=============================================================================
