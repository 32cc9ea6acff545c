----------------------------- MODULE MCInstall -----------------------------
(***************************************************************************)
(* Small instances of Install, both in one run: three releases of two      *)
(* components, of which the sibling does not change in the last, and a     *)
(* user's own build of the running one.                                    *)
(***************************************************************************)
EXTENDS Install, FiniteSets, TLC

VARIABLE scope

MCFiles == {"m1", "m2", "m3", "s1", "s2", "own"}
MCEntry == <<[n0xis |-> "m1", mcp |-> "s1"],
             [n0xis |-> "m2", mcp |-> "s2"],
             [n0xis |-> "m3", mcp |-> "s2"]>>
MCVersionOf == [f \in MCFiles |->
                  CASE f \in {"m1", "s1", "own"} -> 1
                    [] f \in {"m2", "s2"} -> 2
                    [] f = "m3" -> 3]

\* Two runs at both components, from the first release.
TwoRuns ==
    /\ Cardinality({r \in Runs : pc'[r] # "idle"}) <= 2
    /\ \A c \in Siblings : target'[c] \notin OtherFiles

\* Three runs where no sibling is beside the running component.
RunningAlone ==
    \A c \in Siblings : target'[c] = target[c] /\ \A r \in Runs : c \notin todo'[r]

InstallInit ==
    /\ Init
    /\ \/ scope = "two runs" /\ target = [c \in Components |-> Entry[1][c]]
       \/ scope = "three runs"

InstallNext ==
    /\ UNCHANGED scope
    /\ \/ scope = "two runs" /\ Next /\ TwoRuns
       \/ scope = "three runs" /\ Next /\ RunningAlone

InstallSpec == InstallInit /\ [][InstallNext]_<<scope, vars>>

RunSymmetry == Permutations(Runs)
=============================================================================
