---------------------------- MODULE Annotations -----------------------------
(***************************************************************************)
(* What a project remembers of one address (n0xis-project, annotate.rs): a *)
(* name, a type note, a comment, a bookmark, and names and types of the    *)
(* function's variables, with the history of every change.                 *)
(*                                                                         *)
(* Stack locals were once named by the magnitude of their offset, so that  *)
(* local_8 was the slot at +8 or at -8; now the second is local_neg_8.  A  *)
(* file of that time is read with such keys set apart, and each is placed  *)
(* only where the function leaves one slot it can mean.                    *)
(***************************************************************************)
EXTENDS Naturals, Sequences, Functions

CONSTANTS
    MaxChanges   \* how many commands there are

VARIABLES
    slots,     \* the variables the function has; none, when there is no function
    disk,      \* the record as it is stored
    loaded,    \* history: the record as it was first read
    changes,   \* how many commands there were
    placed     \* history: what was read just before the last settling, and after

annVars == <<slots, disk, loaded, changes, placed>>

Fields == {"name", "type", "comment", "bookmark"}
Maps == {"var", "vartype"}
Slots == {"local_8", "local_neg_8", "rcx"}

\* Values are tuples, so that they can be compared.
Unset == <<"unset">>
Blank == <<"blank">>

Empty == <<>>      \* a map with no keys

\* earlier_stack_local_slots: what a key of the earlier naming can mean.
EarlierCandidates(k) == IF k = "local_8" THEN {"local_8", "local_neg_8"} ELSE {k}

\* The naming change gave the key another reading.
Reinterpreted(k) == EarlierCandidates(k) # {k}

Record(fields, exact, earlier, history) ==
    [fields |-> fields, exact |-> exact, earlier |-> earlier, history |-> history]

With(map, k, v) == [x \in DOMAIN map \cup {k} |-> IF x = k THEN v ELSE map[x]]
Without(map, k) == Restrict(map, DOMAIN map \ {k})

\* try_from(RecordOnDisk): a version-1 record's keys are sorted by naming.
FromVersion1(keys) ==
    Record([f \in Fields |-> Unset],
           [m \in Maps |-> [k \in {x \in keys[m] : ~Reinterpreted(x)} |-> <<m, "old", k>>]],
           [m \in Maps |-> [k \in {x \in keys[m] : Reinterpreted(x)} |-> <<m, "old", k>>]],
           <<>>)

AnnInit ==
    /\ slots \in SUBSET Slots
    /\ \E keys \in [Maps -> SUBSET {"local_8", "rcx"}] : disk = FromVersion1(keys)
    /\ loaded = disk /\ changes = 0 /\ placed = <<>>

\* place_earlier: where the entry lands, if there is one slot it can mean and
\* that slot has no value of its own (Applied; else Ambiguous, Taken, Absent).
Lands(r, m, k) ==
    LET present == EarlierCandidates(k) \cap slots
    IN  IF \E s \in present : present = {s} /\ s \notin DOMAIN r.exact[m] THEN present ELSE {}

\* placed_vars: the annotations as a reader sees them.
PlacedVars(r) ==
    [m \in Maps |->
       [s \in DOMAIN r.exact[m] \cup UNION {Lands(r, m, k) : k \in DOMAIN r.earlier[m]} |->
          IF s \in DOMAIN r.exact[m] THEN r.exact[m][s]
          ELSE r.earlier[m][CHOOSE k \in DOMAIN r.earlier[m] : s \in Lands(r, m, k)]]]

Change(f, k, old, new) == [field |-> f, key |-> k, old |-> old, new |-> new]

\* The entries that land, and the slot each lands on.
Moved(r, m) == {k \in DOMAIN r.earlier[m] : Lands(r, m, k) # {}}
SlotOf(r, m, k) == CHOOSE s \in Lands(r, m, k) : TRUE

\* Mutant: an entry that cannot be placed is dropped with those that can.
RekeyDropsTheRest(r) ==
    [r EXCEPT !.exact = PlacedVars(r), !.earlier = [m \in Maps |-> Empty]]

\* Mutant: what lands is settled under the name it has.
RekeyByTheOldName(r) ==
    [r EXCEPT !.exact = [m \in Maps |->
                            [s \in DOMAIN @[m] \cup Moved(r, m) |->
                                IF s \in DOMAIN @[m] THEN @[m][s] ELSE r.earlier[m][s]]],
              !.earlier = [m \in Maps |-> Restrict(@[m], DOMAIN @[m] \ Moved(r, m))]]

\* rekey: what the function's variables settle moves to the exact map, under
\* the slot's name, and into the history; everything else stays.
Rekey(r) ==
    LET note(m) == IF Moved(r, m) = {} THEN <<>>
                   ELSE LET k == CHOOSE x \in Moved(r, m) : TRUE
                        IN  <<Change(m, "key", <<k>>, <<SlotOf(r, m, k)>>)>>
    IN  [r EXCEPT !.exact = [m \in Maps |->
                                [s \in DOMAIN @[m] \cup {SlotOf(r, m, k) : k \in Moved(r, m)} |->
                                    IF s \in DOMAIN @[m] THEN @[m][s]
                                    ELSE r.earlier[m][CHOOSE k \in Moved(r, m) : SlotOf(r, m, k) = s]]],
                  !.earlier = [m \in Maps |-> Restrict(@[m], DOMAIN @[m] \ Moved(r, m))],
                  !.history = @ \o note("var") \o note("vartype")]

NewValue == <<"new", changes>>

\* set_field, set_bookmark: a change of value is appended to the history.
SetField(f) ==
    /\ changes < MaxChanges
    /\ \E v \in {Unset, NewValue} :
          disk' = IF disk.fields[f] = v THEN disk
                  ELSE [disk EXCEPT !.fields[f] = v,
                                    !.history = Append(@, Change(f, "", disk.fields[f], v))]
    /\ changes' = changes + 1
    /\ UNCHANGED <<slots, loaded, placed>>

\* set_var: the earlier entries are settled first; a blank value clears.
SetVar(m, k) ==
    /\ changes < MaxChanges
    /\ \E v \in {Unset, Blank, NewValue} :
          LET r == Rekey(disk)
              old == IF k \in DOMAIN r.exact[m] THEN r.exact[m][k] ELSE Unset
          IN  disk' = IF old = v THEN r
                      ELSE [r EXCEPT !.exact[m] = IF v = NewValue THEN With(@, k, v) ELSE Without(@, k),
                                     !.history = Append(@, Change(m, k, old, v))]
    /\ changes' = changes + 1
    /\ placed' = <<PlacedVars(disk), PlacedVars(Rekey(disk))>>
    /\ UNCHANGED <<slots, loaded>>

\* remove: the record goes, with its history, and is then a new one.
RemoveRecord ==
    /\ changes < MaxChanges
    /\ disk' = FromVersion1([m \in Maps |-> {}])
    /\ loaded' = disk'
    /\ changes' = changes + 1
    /\ UNCHANGED <<slots, placed>>

\* The image is analysed again, and the function has other variables.
Reanalyse ==
    /\ slots' \in SUBSET Slots
    /\ UNCHANGED <<disk, loaded, changes, placed>>

AnnNext ==
    \/ Reanalyse
    \/ \E f \in Fields : SetField(f)
    \/ \E m \in Maps, k \in Slots : SetVar(m, k)
    \/ RemoveRecord

AnnSpec == AnnInit /\ [][AnnNext]_annVars
-----------------------------------------------------------------------------
\* Settling a key under its slot's name changes nothing a reader sees.
SettlingKeepsTheReading == placed # <<>> => placed[1] = placed[2]

\* "nothing is ever dropped", "what did we used to think this was is always
\* answerable": a value that was once in the record is in one of its maps or
\* is the old value of a change.
EveryValueIsAnswerable ==
    LET held(r) == (UNION {Range(r.exact[m]) \cup Range(r.earlier[m]) : m \in Maps}) \cup Range(r.fields)
        told == {disk.history[i].old : i \in DOMAIN disk.history}
        set == {disk.history[i].new : i \in DOMAIN disk.history}
    IN  /\ held(loaded) \ {Unset} \subseteq held(disk) \cup told
        /\ set \ ({Unset, Blank} \cup {<<s>> : s \in Slots}) \subseteq held(disk) \cup told
=============================================================================
