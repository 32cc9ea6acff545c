---------------------------- MODULE MCSupervisor ----------------------------
EXTENDS Supervisor, TLC

RequestSymmetry == Permutations(Requests)
=============================================================================
