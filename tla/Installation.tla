---------------------------- MODULE Installation ----------------------------
(***************************************************************************)
(* What an installation promises its user, whatever processes work on it   *)
(* and whenever they die: every component is one whole file at every       *)
(* moment; an install keeps exactly the file it replaced; --rollback puts  *)
(* exactly that file back, once, and never goes forward; and update.auto   *)
(* never installs again what the user went back from.                      *)
(***************************************************************************)
EXTENDS Naturals

CONSTANTS Components, Versions, Files, OtherFiles, Entry, None

VARIABLES
    installed,  \* the file of each component
    kept,       \* what --rollback would put back, if it would
    barred      \* the version gone back from, until the user installs one

avars == <<installed, kept, barred>>

AInit ==
    /\ \E v \in Versions : installed = [c \in Components |-> Entry[v][c]]
    /\ kept = [c \in Components |-> None]
    /\ barred = [c \in Components |-> 0]

\* n0x update moves a component to release v.
UserInstalls(c, v) ==
    /\ installed' = [installed EXCEPT ![c] = Entry[v][c]]
    /\ kept' = [kept EXCEPT ![c] = installed[c]]
    /\ barred' = [barred EXCEPT ![c] = 0]

\* update.auto does, and only beyond what the user went back from.
AutoInstalls(c, v) ==
    /\ v > barred[c]
    /\ installed' = [installed EXCEPT ![c] = Entry[v][c]]
    /\ kept' = [kept EXCEPT ![c] = installed[c]]
    /\ UNCHANGED barred

\* --rollback, from release v.
GoesBack(c, v) ==
    /\ kept[c] # None
    /\ installed[c] = Entry[v][c]
    /\ installed' = [installed EXCEPT ![c] = kept[c]]
    /\ kept' = [kept EXCEPT ![c] = None]
    /\ barred' = [barred EXCEPT ![c] = v]

\* An install under way gives up the file kept before it.
Forgets(c) ==
    /\ kept' = [kept EXCEPT ![c] = None]
    /\ UNCHANGED <<installed, barred>>

\* The user puts a file of their own there: nothing goes back over it.
PutByHand(c, f) ==
    /\ installed' = [installed EXCEPT ![c] = f]
    /\ kept' = [kept EXCEPT ![c] = None]
    /\ UNCHANGED barred

ANext ==
    \E c \in Components :
        \/ \E v \in Versions : UserInstalls(c, v) \/ AutoInstalls(c, v) \/ GoesBack(c, v)
        \/ Forgets(c)
        \/ \E f \in OtherFiles : PutByHand(c, f)

ASpec == AInit /\ [][ANext]_avars
=============================================================================
