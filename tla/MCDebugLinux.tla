---------------------------- MODULE MCDebugLinux ----------------------------
(* Two threads, and a third that may be cloned at any time.                *)
EXTENDS DebugLinux, TLC

CONSTANTS t1, t2, t3
=============================================================================
