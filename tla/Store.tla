------------------------------- MODULE Store --------------------------------
(***************************************************************************)
(* The small files of a project's .n0x directory (n0xis-project): the      *)
(* plugin registry (plugins.rs over store.rs), annotations, selections and *)
(* type definitions (annotate.rs, selection.rs, types_db.rs), and tables   *)
(* (table.rs).  A command reads the whole file, changes its list and       *)
(* writes the whole file; nothing locks it, and a command may be killed.   *)
(*                                                                         *)
(* The kinds differ in how they write and in what they take a file for     *)
(* that holds nothing, or not JSON:                                        *)
(*   "registry"     replaced by a rename; both are refused                 *)
(*   "annotations"  in place; nothing is an empty list, no JSON is refused *)
(*   "table"        in place; an add takes both for an empty table         *)
(***************************************************************************)
EXTENDS Naturals, FiniteSets

CONSTANTS
    Kinds,     \* which of the kinds
    Entries,   \* the names of entries
    Commands,  \* the processes
    MaxRuns    \* how many commands are run

VARIABLES
    kind,
    file,      \* [is: "absent", "blank", "torn" or "whole", list: its entries]
    temp,      \* command -> whether its temporary file is there
    command,   \* command -> [at, list, e, op]
    runs,      \* how many commands were started
    saved,     \* history: entries whose add was told to be done, and not removed
    raced      \* history: a command wrote over what it had not read

storeVars == <<kind, file, temp, command, runs, saved, raced>>

Absent == [is |-> "absent", list |-> {}]
Idle == [at |-> "idle", op |-> "add", e |-> CHOOSE e \in Entries : TRUE, list |-> {}, seen |-> Absent]

StoreInit ==
    /\ kind \in Kinds
    /\ file = Absent
    /\ temp = [c \in Commands |-> FALSE]
    /\ command = [c \in Commands |-> Idle]
    /\ runs = 0 /\ saved = {} /\ raced = FALSE

\* What the reader of this kind makes of the file: refused, or a list.
Refused(op) ==
    \/ kind = "registry" /\ file.is \in {"blank", "torn"}
    \/ kind = "annotations" /\ file.is = "torn"
    \/ kind = "table" /\ op = "remove" /\ file.is # "whole"

Understood == IF file.is = "whole" THEN file.list ELSE {}

\* add, save, set_field, put_struct; remove: read, then change the list.
Begin(c, op, e) ==
    /\ command[c].at = "idle" /\ runs < MaxRuns
    /\ runs' = runs + 1
    /\ LET list == IF op = "add" THEN Understood \cup {e} ELSE Understood \ {e}
           writes == ~Refused(op) /\ (op = "add" \/ e \in Understood)
       IN  command' = [command EXCEPT ![c] =
                IF writes THEN [at |-> "write", op |-> op, e |-> e, list |-> list, seen |-> file]
                ELSE Idle]
    /\ UNCHANGED <<kind, file, temp, saved, raced>>

\* The command is told to be done.
Done(c) ==
    /\ command' = [command EXCEPT ![c] = Idle]
    /\ saved' = IF command[c].op = "add" THEN saved \cup {command[c].e}
                ELSE saved \ {command[c].e}

\* write_replacing: a temporary file beside it, whole and flushed; a failure
\* takes it away again.
WriteTemp(c) ==
    /\ kind = "registry" /\ command[c].at = "write"
    /\ \/ /\ temp' = [temp EXCEPT ![c] = TRUE]
          /\ command' = [command EXCEPT ![c].at = "rename"]
       \/ command' = [command EXCEPT ![c] = Idle] /\ UNCHANGED temp
    /\ UNCHANGED <<kind, file, runs, saved, raced>>

\* Mutant: the file itself is opened, and filled.
FillInPlace(c) ==
    /\ command[c].at = "rename"
    /\ IF file.is = "torn"
       THEN file' = [is |-> "whole", list |-> command[c].list] /\ Done(c)
       ELSE file' = [is |-> "torn", list |-> {}] /\ UNCHANGED <<command, saved>>
    /\ UNCHANGED <<kind, temp, runs, raced>>

\* write_replacing: the rename, one step for the file system.
Rename(c) ==
    /\ command[c].at = "rename"
    /\ \/ /\ file' = [is |-> "whole", list |-> command[c].list]
          /\ raced' = (raced \/ file # command[c].seen)
          /\ Done(c)
       \/ command' = [command EXCEPT ![c] = Idle] /\ UNCHANGED <<file, raced, saved>>
    /\ temp' = [temp EXCEPT ![c] = FALSE]
    /\ UNCHANGED <<kind, runs>>

\* fs::write: the file is truncated, then filled, by one write or by several.
Truncate(c) ==
    /\ kind # "registry" /\ command[c].at = "write"
    /\ raced' = (raced \/ file # command[c].seen)
    /\ file' = [is |-> "blank", list |-> {}]
    /\ command' = [command EXCEPT ![c].at = "fill"]
    /\ UNCHANGED <<kind, temp, runs, saved>>

Fill(c) ==
    /\ command[c].at = "fill"
    /\ IF file.is = "blank"
       THEN file' = [is |-> "torn", list |-> {}] /\ UNCHANGED <<command, saved>>
       ELSE file' = [is |-> "whole", list |-> command[c].list] /\ Done(c)
    /\ UNCHANGED <<kind, temp, runs, raced>>

\* Ctrl-C, or the machine.
Kill(c) ==
    /\ command[c].at # "idle"
    /\ command' = [command EXCEPT ![c] = Idle]
    /\ UNCHANGED <<kind, file, temp, runs, saved, raced>>

StoreNext ==
    \E c \in Commands :
       \/ \E e \in Entries, op \in {"add", "remove"} : Begin(c, op, e)
       \/ WriteTemp(c) \/ Rename(c) \/ Truncate(c) \/ Fill(c) \/ Kill(c)

StoreSpec == StoreInit /\ [][StoreNext]_storeVars
-----------------------------------------------------------------------------
\* "no reader, and no interruption, ever sees anything but the old contents or
\* the new": the registry is whole whoever is killed when and whoever writes
\* beside it, and what one command after the other saved is in it.
RegistryIsWhole ==
    kind = "registry" =>
        /\ file.is \in {"absent", "whole"}
        /\ ~raced /\ (\A c \in Commands : command[c].at = "idle") => saved \subseteq file.list
=============================================================================
