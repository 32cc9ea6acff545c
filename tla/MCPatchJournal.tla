--------------------------- MODULE MCPatchJournal ---------------------------
(* Two addresses that overlapping patches share, and a byte that is not    *)
(* the original one, which is also the breakpoint's.                       *)
EXTENDS PatchJournal

CONSTANTS a, b

MCCells == {1, 2}
MCOriginal == [c \in MCCells |-> a]
MCSlots == {[addr |-> "x", bits |-> {"read", "write"}], [addr |-> "y", bits |-> {"write"}]}
=============================================================================
