--------------------------- MODULE ProjectProofs ---------------------------
(***************************************************************************)
(* Proofs about what n0xis-project keeps in a project's .n0x directory:    *)
(* the plugin registry, and the annotations of an address.                 *)
(***************************************************************************)
EXTENDS Store, Annotations, SequenceTheorems, TLAPS

(* The registry.  A command that has not written yet holds the list it     *)
(* read with its own change in it; as long as nobody wrote in between, to  *)
(* replace the file is to add that change to it.                           *)

Contents == [is: {"absent", "blank", "torn", "whole"}, list: SUBSET Entries]

States == [at: {"idle", "write", "rename", "fill"}, op: {"add", "remove"},
           e: Entries \cup {Idle.e}, list: SUBSET Entries, seen: Contents]

StoreTypeOK == file \in Contents /\ command \in [Commands -> States] /\ raced \in BOOLEAN

\* What a command that is about to write has made of what it read.
ChangeOfWhatItSaw(c) ==
    command[c].at \in {"write", "rename"} =>
        /\ command[c].e \in Entries
        /\ command[c].list = IF command[c].op = "add"
                             THEN command[c].seen.list \cup {command[c].e}
                             ELSE command[c].seen.list \ {command[c].e}

RegistryInv ==
    /\ StoreTypeOK
    /\ kind = "registry" =>
          /\ file.is \in {"absent", "whole"}
          /\ file.is = "absent" => file.list = {}
          /\ \A c \in Commands : command[c].at # "fill" /\ ChangeOfWhatItSaw(c)
          /\ ~raced => saved \subseteq file.list

\* Idle is no command under way.
LEMMA IdleIsTyped ==
    Idle \in States /\ Idle.at = "idle"
  BY DEF Idle, Absent, Contents, States

\* A command reads the file and changes its list.
LEMMA RegistryBegins ==
    ASSUME RegistryInv, NEW c \in Commands, NEW op \in {"add", "remove"}, NEW e \in Entries,
           Begin(c, op, e)
    PROVE  RegistryInv'
<1>1. Understood \in SUBSET Entries /\ (kind = "registry" => Understood = file.list)
  BY DEF RegistryInv, StoreTypeOK, Contents, Understood
<1> DEFINE list == IF op = "add" THEN Understood \cup {e} ELSE Understood \ {e}
           next == [at |-> "write", op |-> op, e |-> e, list |-> list, seen |-> file]
<1>2. command' \in {[command EXCEPT ![c] = next], [command EXCEPT ![c] = Idle]}
  BY DEF Begin
<1>3. next \in States
  BY <1>1 DEF RegistryInv, StoreTypeOK, States
<1>4. StoreTypeOK'
  BY <1>2, <1>3, IdleIsTyped DEF RegistryInv, StoreTypeOK, Begin
<1>5. ASSUME kind = "registry", NEW d \in Commands
      PROVE  command'[d].at # "fill" /\ ChangeOfWhatItSaw(d)'
  <2>1. CASE d # c
    <3>1. command'[d] = command[d]
      BY <1>2, <2>1 DEF RegistryInv, StoreTypeOK
    <3> QED
      BY <1>5, <3>1 DEF RegistryInv, ChangeOfWhatItSaw
  <2>2. CASE d = c
    <3>1. command'[d] \in {next, Idle}
      BY <1>2, <2>2 DEF RegistryInv, StoreTypeOK
    <3>2. /\ next.at = "write" /\ next.e = e /\ next.op = op
          /\ next.seen = file /\ next.list = list
      OBVIOUS
    <3> HIDE DEF next
    <3> QED
      BY <1>1, <1>5, <3>1, <3>2, IdleIsTyped DEF ChangeOfWhatItSaw
  <2> QED
    BY <2>1, <2>2
<1> QED
  BY <1>4, <1>5 DEF RegistryInv, Begin

\* The new file is written beside it and takes its place, or the command fails.
LEMMA RegistryReplaced ==
    ASSUME RegistryInv, NEW c \in Commands, WriteTemp(c) \/ Rename(c)
    PROVE  RegistryInv'
<1>1. CASE WriteTemp(c)
  <2> DEFINE next == [command[c] EXCEPT !.at = "rename"]
  <2>1. command' \in {[command EXCEPT ![c] = next], [command EXCEPT ![c] = Idle]}
    BY <1>1 DEF WriteTemp
  <2>2. /\ next \in States
        /\ next.at = "rename" /\ next.e = command[c].e /\ next.op = command[c].op
        /\ next.seen = command[c].seen /\ next.list = command[c].list
    BY DEF RegistryInv, StoreTypeOK, States
  <2> HIDE DEF next
  <2>3. StoreTypeOK'
    BY <1>1, <2>1, <2>2, IdleIsTyped DEF RegistryInv, StoreTypeOK, WriteTemp
  <2>4. ASSUME kind = "registry", NEW d \in Commands
        PROVE  command'[d].at # "fill" /\ ChangeOfWhatItSaw(d)'
    <3>1. command'[d] \in {command[d], Idle} \/ (d = c /\ command'[d] = next)
      BY <2>1 DEF RegistryInv, StoreTypeOK
    <3>2. command[c].at = "write"
      BY <1>1 DEF WriteTemp
    <3> QED
      BY <2>2, <2>4, <3>1, <3>2, IdleIsTyped DEF RegistryInv, ChangeOfWhatItSaw
  <2> QED
    BY <1>1, <2>3, <2>4 DEF RegistryInv, WriteTemp
<1>2. CASE Rename(c)
  <2>0. command[c].at = "rename" /\ command[c].list \in SUBSET Entries
    BY <1>2 DEF Rename, RegistryInv, StoreTypeOK, States
  <2>1. command' = [command EXCEPT ![c] = Idle]
    BY <1>2 DEF Rename, Done
  <2>2. file' = file \/ file' = [is |-> "whole", list |-> command[c].list]
    BY <1>2 DEF Rename
  <2>3. file' \in Contents
    BY <2>0, <2>2 DEF Contents, RegistryInv, StoreTypeOK
  <2>4. \A d \in Commands : command'[d] \in {command[d], Idle}
    BY <2>1 DEF RegistryInv, StoreTypeOK
  <2>5. ASSUME kind = "registry", ~raced' PROVE saved' \subseteq file'.list
    <3>1. ~raced /\ saved \subseteq file.list
      <4>1. ~raced
        BY <1>2, <2>5 DEF Rename
      <4> QED
        BY <2>5, <4>1 DEF RegistryInv
    <3>2. CASE file' = file /\ saved' = saved
      BY <3>1, <3>2
    <3>3. CASE ~(file' = file /\ saved' = saved)
      <4>1. file = command[c].seen /\ file' = [is |-> "whole", list |-> command[c].list] /\ Done(c)
        BY <1>2, <2>5, <3>3 DEF Rename
      <4>2. /\ command[c].op \in {"add", "remove"}
            /\ command[c].list = IF command[c].op = "add" THEN file.list \cup {command[c].e}
                                 ELSE file.list \ {command[c].e}
        BY <2>0, <2>5, <4>1 DEF RegistryInv, ChangeOfWhatItSaw, StoreTypeOK, States
      <4>3. file'.list = command[c].list
        BY <4>1
      <4> QED
        BY <3>1, <4>1, <4>2, <4>3 DEF Done
    <3> QED
      BY <3>2, <3>3
  <2>6. raced' \in BOOLEAN
    BY <1>2 DEF Rename, RegistryInv, StoreTypeOK
  <2>7. StoreTypeOK'
    BY <2>1, <2>3, <2>6, IdleIsTyped DEF RegistryInv, StoreTypeOK
  <2> QED
    BY <1>2, <2>2, <2>4, <2>5, <2>7, IdleIsTyped DEF Rename, RegistryInv, ChangeOfWhatItSaw
<1> QED
  BY <1>1, <1>2

\* The other kinds are written in place; no step of theirs is a registry's.
LEMMA FilledInPlace ==
    ASSUME RegistryInv, NEW c \in Commands, Truncate(c) \/ Fill(c)
    PROVE  RegistryInv'
<1>1. CASE Truncate(c)
  <2>1. kind' # "registry"
    BY <1>1 DEF Truncate
  <2>2. [command[c] EXCEPT !.at = "fill"] \in States
    BY DEF RegistryInv, StoreTypeOK, States
  <2>3. file' \in Contents /\ command' \in [Commands -> States]
    BY <1>1, <2>2 DEF Truncate, RegistryInv, StoreTypeOK, Contents
  <2> QED
    BY <1>1, <2>1, <2>3 DEF Truncate, RegistryInv, StoreTypeOK
<1>2. CASE Fill(c)
  <2>1. kind' # "registry"
    BY <1>2 DEF Fill, RegistryInv
  <2>2. command[c].list \in SUBSET Entries
    BY DEF RegistryInv, StoreTypeOK, States
  <2>3. file' \in Contents /\ command' \in [Commands -> States]
    BY <1>2, <2>2, IdleIsTyped DEF Fill, Done, RegistryInv, StoreTypeOK, Contents
  <2> QED
    BY <1>2, <2>1, <2>3 DEF Fill, RegistryInv, StoreTypeOK
<1> QED
  BY <1>1, <1>2

\* A command that is killed leaves the file as it is.
LEMMA CommandKilled ==
    ASSUME RegistryInv, NEW c \in Commands, Kill(c)
    PROVE  RegistryInv'
<1>1. \A d \in Commands : command'[d] \in {command[d], Idle}
  BY DEF Kill, RegistryInv, StoreTypeOK
<1>2. StoreTypeOK'
  BY IdleIsTyped DEF Kill, RegistryInv, StoreTypeOK
<1> QED
  BY <1>1, <1>2, IdleIsTyped DEF Kill, RegistryInv, ChangeOfWhatItSaw

\* The registry is whole, and holds what was saved by commands that did not
\* overlap, for any number of commands and entries.
THEOREM RegistryWhole == StoreSpec => []RegistryIsWhole
<1>1. StoreInit => RegistryInv
  <2> SUFFICES ASSUME StoreInit PROVE RegistryInv
    OBVIOUS
  <2>1. StoreTypeOK
    BY IdleIsTyped DEF StoreInit, StoreTypeOK, Contents, Absent
  <2> QED
    BY <2>1, IdleIsTyped DEF StoreInit, RegistryInv, ChangeOfWhatItSaw, Absent
<1>2. RegistryInv /\ [StoreNext]_storeVars => RegistryInv'
  <2> SUFFICES ASSUME RegistryInv, [StoreNext]_storeVars PROVE RegistryInv'
    OBVIOUS
  <2>1. CASE StoreNext
    BY <2>1, RegistryBegins, RegistryReplaced, FilledInPlace, CommandKilled DEF StoreNext
  <2>2. CASE UNCHANGED storeVars
    BY <2>2 DEF storeVars, RegistryInv, StoreTypeOK, ChangeOfWhatItSaw
  <2> QED
    BY <2>1, <2>2
<1>3. RegistryInv => RegistryIsWhole
  BY DEF RegistryInv, RegistryIsWhole
<1> QED
  BY <1>1, <1>2, <1>3, PTL DEF StoreSpec
-----------------------------------------------------------------------------
(* Annotations.  Only one key of a record was given another reading, so at *)
(* most one entry of each map waits to be placed.                          *)

AnyValue == {Unset, Blank} \cup {<<m, "old", k>> : m \in Maps, k \in Slots} \cup {<<"new", n>> : n \in Nat}
SlotNames == {<<s>> : s \in Slots}
Changes == [field: Fields \cup Maps, key: Slots \cup {"", "key"},
            old: AnyValue \cup SlotNames, new: AnyValue \cup SlotNames]
VarMaps == UNION {[d -> AnyValue] : d \in SUBSET Slots}
RecordsOnDisk == [fields: [Fields -> AnyValue], exact: [Maps -> VarMaps],
                  earlier: [Maps -> VarMaps], history: Seq(Changes)]

\* Which entries a record sets apart.
OnlyTheReinterpreted(r) == \A m \in Maps : DOMAIN r.earlier[m] \subseteq {"local_8"}

\* A map from some of the slots.
LEMMA VarMapIs ==
    ASSUME NEW f
    PROVE  f \in VarMaps <=> f \in [DOMAIN f -> AnyValue] /\ DOMAIN f \subseteq Slots
  BY DEF VarMaps

\* An entry lands on one slot, which has no value of its own, or on none.
LEMMA LandsOnOne ==
    ASSUME NEW r, NEW m \in Maps, NEW k
    PROVE  \/ Lands(r, m, k) = {}
           \/ \E s \in EarlierCandidates(k) \cap slots :
                 Lands(r, m, k) = {s} /\ s \notin DOMAIN r.exact[m]
  BY DEF Lands

\* What rekey makes of one map: nothing, or the one entry in its place.
LeftAlone(r, m) ==
    /\ \A k \in DOMAIN r.earlier[m] : Lands(r, m, k) = {}
    /\ Rekey(r).exact[m] = r.exact[m]
    /\ Rekey(r).earlier[m] = r.earlier[m]

PlacedAt(r, m, s) ==
    /\ DOMAIN r.earlier[m] = {"local_8"}
    /\ Lands(r, m, "local_8") = {s}
    /\ Rekey(r).exact[m] = [x \in DOMAIN r.exact[m] \cup {s} |->
                               IF x \in DOMAIN r.exact[m] THEN r.exact[m][x]
                               ELSE r.earlier[m]["local_8"]]
    /\ Rekey(r).earlier[m] = [x \in {} |-> Unset]

\* There is no third case, and the slot has no value of its own.
LEMMA RekeyOfMap ==
    ASSUME NEW r \in RecordsOnDisk, OnlyTheReinterpreted(r), slots \subseteq Slots, NEW m \in Maps
    PROVE  LeftAlone(r, m) \/ \E s \in Slots \ DOMAIN r.exact[m] : PlacedAt(r, m, s)
<1> DEFINE exact == r.exact[m]
           earlier == r.earlier[m]
<1>0. exact \in VarMaps /\ earlier \in VarMaps /\ DOMAIN earlier \subseteq {"local_8"}
  BY DEF RecordsOnDisk, OnlyTheReinterpreted
<1>1. Rekey(r).exact[m] = [s \in DOMAIN exact \cup {SlotOf(r, m, k) : k \in Moved(r, m)} |->
                             IF s \in DOMAIN exact THEN exact[s]
                             ELSE earlier[CHOOSE k \in Moved(r, m) : SlotOf(r, m, k) = s]]
  BY DEF Rekey, RecordsOnDisk
<1>2. Rekey(r).earlier[m] = [k \in DOMAIN earlier \ Moved(r, m) |-> earlier[k]]
  BY DEF Rekey, RecordsOnDisk, Restrict
<1>3. CASE Moved(r, m) = {}
  <2>1. \A k \in DOMAIN earlier : Lands(r, m, k) = {}
    BY <1>3 DEF Moved
  <2>2. Rekey(r).exact[m] = [s \in DOMAIN exact |-> exact[s]]
    BY <1>1, <1>3
  <2>3. Rekey(r).earlier[m] = [k \in DOMAIN earlier |-> earlier[k]]
    BY <1>2, <1>3
  <2> QED
    BY <1>0, <2>1, <2>2, <2>3, VarMapIs DEF LeftAlone
<1>4. CASE Moved(r, m) # {}
  <2>1. Moved(r, m) = {"local_8"} /\ DOMAIN earlier = {"local_8"} /\ Lands(r, m, "local_8") # {}
    BY <1>0, <1>4 DEF Moved
  <2>2. PICK s \in slots : Lands(r, m, "local_8") = {s} /\ s \notin DOMAIN exact
    BY <2>1, LandsOnOne
  <2>3. SlotOf(r, m, "local_8") = s
    BY <2>2 DEF SlotOf
  <2>4. \A k : k \in Moved(r, m) /\ SlotOf(r, m, k) = s <=> k = "local_8"
    BY <2>1, <2>3
  <2>5. (CHOOSE k \in Moved(r, m) : SlotOf(r, m, k) = s) = "local_8"
    BY <2>4
  <2>6. {SlotOf(r, m, k) : k \in Moved(r, m)} = {s}
    BY <2>1, <2>3
  <2>7. Rekey(r).exact[m] = [x \in DOMAIN exact \cup {s} |->
                               IF x \in DOMAIN exact THEN exact[x] ELSE earlier["local_8"]]
    BY <1>1, <2>5, <2>6
  <2>8. Rekey(r).earlier[m] = [x \in {} |-> Unset]
    BY <1>2, <2>1
  <2> QED
    BY <2>1, <2>2, <2>7, <2>8 DEF PlacedAt
<1> QED
  BY <1>3, <1>4

\* A reader sees the same variables before and after rekey.
LEMMA RekeyReadsTheSame ==
    ASSUME NEW r \in RecordsOnDisk, OnlyTheReinterpreted(r), slots \subseteq Slots
    PROVE  PlacedVars(Rekey(r)) = PlacedVars(r)
<1> DEFINE Reads(q, m) ==
             [s \in DOMAIN q.exact[m] \cup UNION {Lands(q, m, k) : k \in DOMAIN q.earlier[m]} |->
                IF s \in DOMAIN q.exact[m] THEN q.exact[m][s]
                ELSE q.earlier[m][CHOOSE k \in DOMAIN q.earlier[m] : s \in Lands(q, m, k)]]
<1>1. ASSUME NEW m \in Maps PROVE Reads(Rekey(r), m) = Reads(r, m)
  <2>1. CASE LeftAlone(r, m)
    <3>1. \A k : Lands(Rekey(r), m, k) = Lands(r, m, k)
      BY <2>1 DEF LeftAlone, Lands
    <3>2. /\ UNION {Lands(r, m, k) : k \in DOMAIN r.earlier[m]} = {}
          /\ UNION {Lands(Rekey(r), m, k) : k \in DOMAIN Rekey(r).earlier[m]} = {}
      BY <2>1, <3>1 DEF LeftAlone
    <3>3. /\ Reads(r, m) = [s \in DOMAIN r.exact[m] |-> r.exact[m][s]]
          /\ Reads(Rekey(r), m) = [s \in DOMAIN Rekey(r).exact[m] |-> Rekey(r).exact[m][s]]
      BY <3>2
    <3> QED
      BY <2>1, <3>3 DEF LeftAlone
  <2>2. ASSUME NEW s \in Slots \ DOMAIN r.exact[m], PlacedAt(r, m, s)
        PROVE  Reads(Rekey(r), m) = Reads(r, m)
    <3> DEFINE after == Rekey(r).exact[m]
    <3>1. Reads(Rekey(r), m) = [x \in DOMAIN after |-> after[x]]
      BY <2>2 DEF PlacedAt
    <3>2. UNION {Lands(r, m, k) : k \in DOMAIN r.earlier[m]} = {s}
      BY <2>2 DEF PlacedAt
    <3>3. \A k : k \in DOMAIN r.earlier[m] /\ s \in Lands(r, m, k) <=> k = "local_8"
      BY <2>2 DEF PlacedAt
    <3>4. (CHOOSE k \in DOMAIN r.earlier[m] : s \in Lands(r, m, k)) = "local_8"
      BY <3>3
    <3>5. DOMAIN after = DOMAIN r.exact[m] \cup {s}
      BY <2>2 DEF PlacedAt
    <3>6. \A x \in DOMAIN after :
             after[x] = IF x \in DOMAIN r.exact[m] THEN r.exact[m][x]
                        ELSE r.earlier[m][CHOOSE k \in DOMAIN r.earlier[m] : x \in Lands(r, m, k)]
      BY <2>2, <3>4, <3>5 DEF PlacedAt
    <3> HIDE DEF after
    <3> QED
      BY <3>1, <3>2, <3>5, <3>6
  <2> HIDE DEF Reads
  <2> QED
    BY <2>1, <2>2, RekeyOfMap
<1> QED
  BY <1>1 DEF PlacedVars

\* The values a record holds, and those its history tells of.
Held(r) == (UNION {Range(r.exact[m]) \cup Range(r.earlier[m]) : m \in Maps}) \cup Range(r.fields)
Told(h) == {h[i].old : i \in DOMAIN h}
SetTo(h) == {h[i].new : i \in DOMAIN h}

\* Where a value is held.
LEMMA HeldIs ==
    ASSUME NEW r, NEW v
    PROVE  v \in Held(r) <=> \/ v \in Range(r.fields)
                            \/ \E m \in Maps : v \in Range(r.exact[m]) \/ v \in Range(r.earlier[m])
<1> DEFINE of(m) == Range(r.exact[m]) \cup Range(r.earlier[m])
<1>1. v \in Held(r) <=> v \in UNION {of(m) : m \in Maps} \/ v \in Range(r.fields)
  BY DEF Held
<1>2. \A m : v \in of(m) <=> v \in Range(r.exact[m]) \/ v \in Range(r.earlier[m])
  OBVIOUS
<1> HIDE DEF of
<1>3. v \in UNION {of(m) : m \in Maps} <=> \E m \in Maps : v \in of(m)
  OBVIOUS
<1> QED
  BY <1>1, <1>2, <1>3

NoValue == {Unset, Blank} \cup SlotNames

\* A record is answerable for what was first read and for what was set.
Answerable(first, r) ==
    /\ Held(first) \ {Unset} \subseteq Held(r) \cup Told(r.history)
    /\ SetTo(r.history) \ NoValue \subseteq Held(r) \cup Told(r.history)

\* The property is about no more than that.
LEMMA AnswerableIs == EveryValueIsAnswerable <=> Answerable(loaded, disk)
  BY DEF EveryValueIsAnswerable, Answerable, Held, Told, SetTo, NoValue, SlotNames

\* A longer history tells of what the shorter one did.
LEMMA HistoryGrows ==
    ASSUME NEW h \in Seq(Changes), NEW x \in Seq(Changes)
    PROVE  /\ h \o x \in Seq(Changes)
           /\ Told(h \o x) = Told(h) \cup Told(x)
           /\ SetTo(h \o x) = SetTo(h) \cup SetTo(x)
<1>1. /\ h \o x \in Seq(Changes) /\ Len(h \o x) = Len(h) + Len(x)
      /\ DOMAIN (h \o x) = 1..(Len(h) + Len(x))
      /\ Len(h) \in Nat /\ Len(x) \in Nat /\ DOMAIN h = 1..Len(h) /\ DOMAIN x = 1..Len(x)
  BY ConcatProperties, LenProperties
<1>2. \A i \in 1..Len(h) : (h \o x)[i] = h[i]
  BY <1>1, ConcatProperties
<1>3. \A i \in 1..Len(x) : i + Len(h) \in 1..(Len(h) + Len(x)) /\ (h \o x)[i + Len(h)] = x[i]
  BY <1>1, ConcatProperties
<1>4. \A i \in 1..(Len(h) + Len(x)) :
         \/ i \in 1..Len(h) /\ (h \o x)[i] = h[i]
         \/ i - Len(h) \in 1..Len(x) /\ (h \o x)[i] = x[i - Len(h)]
  BY <1>1, ConcatProperties
<1>5. Told(h) \cup Told(x) \subseteq Told(h \o x) /\ SetTo(h) \cup SetTo(x) \subseteq SetTo(h \o x)
  <2>1. 1..Len(h) \subseteq 1..(Len(h) + Len(x))
    BY <1>1
  <2> QED
    <3>1. \A i \in DOMAIN h : i \in DOMAIN (h \o x) /\ (h \o x)[i] = h[i]
      BY <1>1, <1>2, <2>1
    <3>2. \A i \in DOMAIN x : \E j \in DOMAIN (h \o x) : (h \o x)[j] = x[i]
      BY <1>1, <1>3
    <3>3. Told(h) \subseteq Told(h \o x) /\ SetTo(h) \subseteq SetTo(h \o x)
      BY <3>1, Zenon DEF Told, SetTo
    <3>4. Told(x) \subseteq Told(h \o x) /\ SetTo(x) \subseteq SetTo(h \o x)
      BY <3>2 DEF Told, SetTo
    <3> QED
      BY <3>3, <3>4
<1>6. Told(h \o x) \subseteq Told(h) \cup Told(x) /\ SetTo(h \o x) \subseteq SetTo(h) \cup SetTo(x)
  BY <1>1, <1>4, Zenon DEF Told, SetTo
<1> QED
  BY <1>1, <1>5, <1>6

\* What a step must do for the record to stay answerable: keep or tell what it
\* held, and hold or tell what it sets.
LEMMA StaysAnswerable ==
    ASSUME NEW first, NEW r \in RecordsOnDisk, NEW q \in RecordsOnDisk, NEW x \in Seq(Changes),
           Answerable(first, r),
           q.history = r.history \o x,
           Held(r) \ {Unset} \subseteq Held(q) \cup Told(x),
           SetTo(x) \ NoValue \subseteq Held(q)
    PROVE  Answerable(first, q)
<1>1. r.history \in Seq(Changes)
  BY DEF RecordsOnDisk
<1>2. Told(q.history) = Told(r.history) \cup Told(x) /\ SetTo(q.history) = SetTo(r.history) \cup SetTo(x)
  BY <1>1, HistoryGrows
<1>3. Unset \in NoValue
  BY DEF NoValue
<1> QED
  BY <1>2, <1>3 DEF Answerable

\* What rekey adds to the history for one map.
Note(r, m) ==
    IF Moved(r, m) = {} THEN <<>>
    ELSE LET k == CHOOSE x \in Moved(r, m) : TRUE
         IN  <<Change(m, "key", <<k>>, <<SlotOf(r, m, k)>>)>>

\* A note names two slots.
LEMMA NoteIsTyped ==
    ASSUME NEW r \in RecordsOnDisk, slots \subseteq Slots, NEW m \in Maps
    PROVE  Note(r, m) \in Seq(Changes) /\ SetTo(Note(r, m)) \subseteq NoValue
<1>1. CASE Moved(r, m) = {}
  <2>1. Note(r, m) = <<>> /\ SetTo(<<>>) = {}
    BY <1>1 DEF Note, SetTo
  <2> QED
    BY <2>1
<1>2. CASE Moved(r, m) # {}
  <2> DEFINE k == CHOOSE x \in Moved(r, m) : TRUE
             change == Change(m, "key", <<k>>, <<SlotOf(r, m, k)>>)
  <2>1. k \in DOMAIN r.earlier[m] /\ Lands(r, m, k) # {}
    BY <1>2 DEF Moved
  <2>2. k \in Slots
    BY <2>1, VarMapIs DEF RecordsOnDisk
  <2>3. SlotOf(r, m, k) \in Slots
    <3>1. SlotOf(r, m, k) \in Lands(r, m, k)
      BY <2>1 DEF SlotOf
    <3> QED
      BY <3>1 DEF Lands
  <2>4. <<k>> \in SlotNames /\ <<SlotOf(r, m, k)>> \in SlotNames
    BY <2>2, <2>3 DEF SlotNames
  <2>5. change \in Changes /\ change.new \in NoValue
    BY <2>4 DEF Change, Changes, NoValue
  <2>6. Note(r, m) = <<change>>
    BY <1>2 DEF Note
  <2> HIDE DEF change
  <2>7. <<change>> \in Seq(Changes) /\ SetTo(<<change>>) = {change.new}
    BY <2>5 DEF SetTo
  <2> QED
    BY <2>5, <2>6, <2>7
<1> QED
  BY <1>1, <1>2

\* rekey keeps a record a record, drops no value, and its notes set none.
LEMMA RekeyKeepsValues ==
    ASSUME NEW r \in RecordsOnDisk, OnlyTheReinterpreted(r), slots \subseteq Slots
    PROVE  /\ Rekey(r) \in RecordsOnDisk
           /\ OnlyTheReinterpreted(Rekey(r))
           /\ Rekey(r).fields = r.fields
           /\ \E x \in Seq(Changes) : Rekey(r).history = r.history \o x /\ SetTo(x) \subseteq NoValue
           /\ Held(r) \subseteq Held(Rekey(r))
<1>0. /\ r.history \in Seq(Changes) /\ r.fields \in [Fields -> AnyValue]
      /\ r.exact \in [Maps -> VarMaps] /\ r.earlier \in [Maps -> VarMaps]
      /\ DOMAIN r = {"fields", "exact", "earlier", "history"}
  BY DEF RecordsOnDisk
<1> DEFINE e == [m \in Maps |-> [s \in DOMAIN r.exact[m] \cup {SlotOf(r, m, k) : k \in Moved(r, m)} |->
                                  IF s \in DOMAIN r.exact[m] THEN r.exact[m][s]
                                  ELSE r.earlier[m][CHOOSE k \in Moved(r, m) : SlotOf(r, m, k) = s]]]
           l == [m \in Maps |-> Restrict(r.earlier[m], DOMAIN r.earlier[m] \ Moved(r, m))]
<1>1. /\ Rekey(r) = [r EXCEPT !.exact = e, !.earlier = l,
                              !.history = (@ \o Note(r, "var")) \o Note(r, "vartype")]
      /\ e = [m \in Maps |-> e[m]] /\ l = [m \in Maps |-> l[m]]
  BY DEF Rekey, Note
<1> HIDE DEF e, l
<1>2. /\ Rekey(r).fields = r.fields
      /\ Rekey(r).history = (r.history \o Note(r, "var")) \o Note(r, "vartype")
      /\ Rekey(r).exact = [m \in Maps |-> Rekey(r).exact[m]]
      /\ Rekey(r).earlier = [m \in Maps |-> Rekey(r).earlier[m]]
      /\ Rekey(r) = [fields |-> Rekey(r).fields, exact |-> Rekey(r).exact,
                     earlier |-> Rekey(r).earlier, history |-> Rekey(r).history]
  BY <1>0, <1>1 DEF RecordsOnDisk
<1>3. ASSUME NEW m \in Maps
      PROVE  /\ Rekey(r).exact[m] \in VarMaps /\ Rekey(r).earlier[m] \in VarMaps
             /\ DOMAIN Rekey(r).earlier[m] \subseteq {"local_8"}
             /\ Range(r.exact[m]) \cup Range(r.earlier[m])
                   \subseteq Range(Rekey(r).exact[m]) \cup Range(Rekey(r).earlier[m])
  <2>1. CASE LeftAlone(r, m)
    BY <1>0, <2>1 DEF LeftAlone, OnlyTheReinterpreted
  <2>2. ASSUME NEW s \in Slots \ DOMAIN r.exact[m], PlacedAt(r, m, s)
        PROVE  /\ Rekey(r).exact[m] \in VarMaps /\ Rekey(r).earlier[m] \in VarMaps
               /\ DOMAIN Rekey(r).earlier[m] \subseteq {"local_8"}
               /\ Range(r.exact[m]) \cup Range(r.earlier[m])
                     \subseteq Range(Rekey(r).exact[m]) \cup Range(Rekey(r).earlier[m])
    <3> DEFINE old == r.exact[m]
               v == r.earlier[m]["local_8"]
               f == [x \in DOMAIN old \cup {s} |-> IF x \in DOMAIN old THEN old[x] ELSE v]
    <3>1. Rekey(r).exact[m] = f /\ Rekey(r).earlier[m] = [x \in {} |-> Unset]
      BY <2>2 DEF PlacedAt
    <3>2. old \in [DOMAIN old -> AnyValue] /\ DOMAIN old \subseteq Slots /\ v \in AnyValue
      BY <1>0, <2>2, VarMapIs DEF PlacedAt
    <3>3. f \in [DOMAIN f -> AnyValue] /\ DOMAIN f \subseteq Slots
      BY <3>2
    <3>4. [x \in {} |-> Unset] \in VarMaps
      <4>1. [x \in {} |-> Unset] \in [{} -> AnyValue] /\ {} \in SUBSET Slots
        OBVIOUS
      <4> QED
        BY <4>1, Zenon DEF VarMaps
    <3>5. Range(old) \subseteq Range(f)
      BY DEF Range
    <3>6. Range(r.earlier[m]) = {v} /\ f[s] = v /\ s \in DOMAIN f
      BY <2>2 DEF PlacedAt, Range
    <3>7. Range(r.earlier[m]) \subseteq Range(f)
      BY <3>6 DEF Range
    <3> HIDE DEF f
    <3> QED
      BY <3>1, <3>3, <3>4, <3>5, <3>7, VarMapIs
  <2> QED
    BY <2>1, <2>2, RekeyOfMap
<1>4. (r.history \o Note(r, "var")) \o Note(r, "vartype") \in Seq(Changes)
      /\ \E x \in Seq(Changes) :
            /\ Rekey(r).history = r.history \o x
            /\ SetTo(x) \subseteq NoValue
  <2>1. /\ Note(r, "var") \in Seq(Changes) /\ SetTo(Note(r, "var")) \subseteq NoValue
        /\ Note(r, "vartype") \in Seq(Changes) /\ SetTo(Note(r, "vartype")) \subseteq NoValue
    BY NoteIsTyped DEF Maps
  <2> DEFINE x == Note(r, "var") \o Note(r, "vartype")
  <2>2. x \in Seq(Changes) /\ SetTo(x) \subseteq NoValue
    BY <2>1, HistoryGrows
  <2>3. (r.history \o Note(r, "var")) \o Note(r, "vartype") = r.history \o x
    BY <1>0, <2>1, ConcatAssociative
  <2>4. r.history \o x \in Seq(Changes)
    BY <1>0, <2>2, HistoryGrows
  <2> HIDE DEF x
  <2> QED
    BY <1>2, <2>2, <2>3, <2>4
<1>5. Rekey(r) \in RecordsOnDisk
  BY <1>0, <1>2, <1>3, <1>4 DEF RecordsOnDisk
<1>6. OnlyTheReinterpreted(Rekey(r))
  BY <1>3 DEF OnlyTheReinterpreted
<1>7. Held(r) \subseteq Held(Rekey(r))
  <2> SUFFICES ASSUME NEW v \in Held(r) PROVE v \in Held(Rekey(r))
    OBVIOUS
  <2>1. CASE v \in Range(r.fields)
    BY <1>2, <2>1, HeldIs
  <2>2. CASE \E m \in Maps : v \in Range(r.exact[m]) \/ v \in Range(r.earlier[m])
    BY <1>3, <2>2, HeldIs
  <2> QED
    BY <2>1, <2>2, HeldIs
<1> QED
  BY <1>2, <1>4, <1>5, <1>6, <1>7

\* One change, told as it is made.
LEMMA OneChange ==
    ASSUME NEW first, NEW r \in RecordsOnDisk, NEW q \in RecordsOnDisk, NEW c \in Changes,
           Answerable(first, r),
           q.history = Append(r.history, c),
           \A v \in Held(r) : v = c.old \/ v \in Held(q),
           c.new \in NoValue \cup Held(q)
    PROVE  Answerable(first, q)
<1>1. r.history \in Seq(Changes) /\ <<c>> \in Seq(Changes)
  BY DEF RecordsOnDisk
<1>2. Append(r.history, c) = r.history \o <<c>>
  BY <1>1, AppendIsConcat
<1>3. Told(<<c>>) = {c.old} /\ SetTo(<<c>>) = {c.new}
  BY DEF Told, SetTo
<1> QED
  BY <1>1, <1>2, <1>3, StaysAnswerable

AnnInv ==
    /\ slots \subseteq Slots /\ changes \in Nat
    /\ disk \in RecordsOnDisk /\ OnlyTheReinterpreted(disk)
    /\ Answerable(loaded, disk)
    /\ SettlingKeepsTheReading

\* A record as an earlier version left it, and an empty one.
LEMMA FromVersion1IsTyped ==
    ASSUME NEW keys \in [Maps -> SUBSET Slots],
           \A m \in Maps : keys[m] \subseteq {"local_8", "rcx"}
    PROVE  /\ FromVersion1(keys) \in RecordsOnDisk
           /\ OnlyTheReinterpreted(FromVersion1(keys))
           /\ Answerable(FromVersion1(keys), FromVersion1(keys))
<1> DEFINE r == FromVersion1(keys)
           exact(m) == [k \in {x \in keys[m] : ~Reinterpreted(x)} |-> <<m, "old", k>>]
           earlier(m) == [k \in {x \in keys[m] : Reinterpreted(x)} |-> <<m, "old", k>>]
<1>1. r = [fields |-> [f \in Fields |-> Unset], exact |-> [m \in Maps |-> exact(m)],
           earlier |-> [m \in Maps |-> earlier(m)], history |-> <<>>]
  BY DEF FromVersion1, Record
<1>2. ASSUME NEW m \in Maps
      PROVE  exact(m) \in VarMaps /\ earlier(m) \in VarMaps /\ DOMAIN earlier(m) \subseteq {"local_8"}
  <2>1. \A k \in keys[m] : k \in Slots /\ <<m, "old", k>> \in AnyValue
    BY DEF AnyValue
  <2>2. \A k : Reinterpreted(k) <=> k = "local_8"
    BY DEF Reinterpreted, EarlierCandidates
  <2>3. DOMAIN exact(m) \subseteq Slots /\ exact(m) \in [DOMAIN exact(m) -> AnyValue]
    BY <2>1
  <2>4. DOMAIN earlier(m) \subseteq Slots /\ earlier(m) \in [DOMAIN earlier(m) -> AnyValue]
    BY <2>1
  <2>5. DOMAIN earlier(m) \subseteq {"local_8"}
    BY <2>2
  <2> HIDE DEF exact, earlier
  <2> QED
    BY <2>3, <2>4, <2>5, VarMapIs
<1> HIDE DEF exact, earlier, r
<1>3. Unset \in AnyValue
  BY DEF AnyValue
<1>4. r \in RecordsOnDisk
  BY <1>1, <1>2, <1>3, EmptySeq DEF RecordsOnDisk
<1>5. OnlyTheReinterpreted(r)
  BY <1>1, <1>2 DEF OnlyTheReinterpreted
<1>6. Answerable(r, r)
  BY <1>1 DEF Answerable, SetTo
<1> QED
  BY <1>4, <1>5, <1>6 DEF r

\* set_field and set_bookmark tell of the value they replace.
LEMMA FieldIsSet == ASSUME AnnInv, NEW f \in Fields, SetField(f) PROVE AnnInv'
<1>1. PICK v \in {Unset, NewValue} :
         disk' = IF disk.fields[f] = v THEN disk
                 ELSE [disk EXCEPT !.fields[f] = v,
                                   !.history = Append(@, Change(f, "", disk.fields[f], v))]
  BY DEF SetField
<1>2. v \in AnyValue /\ NewValue \in AnyValue
  BY DEF AnnInv, AnyValue, NewValue
<1>3. slots' \subseteq Slots /\ changes' \in Nat /\ SettlingKeepsTheReading'
  BY DEF AnnInv, SetField, SettlingKeepsTheReading
<1>4. CASE disk.fields[f] = v
  BY <1>1, <1>3, <1>4 DEF AnnInv, SetField
<1>5. CASE disk.fields[f] # v
  <2> DEFINE c == Change(f, "", disk.fields[f], v)
  <2>0. disk.fields \in [Fields -> AnyValue] /\ disk.history \in Seq(Changes)
    BY DEF AnnInv, RecordsOnDisk
  <2>1. c \in Changes /\ c.old = disk.fields[f] /\ c.new = v
    BY <1>2, <2>0 DEF Change, Changes
  <2>2. disk' = [disk EXCEPT !.fields[f] = v, !.history = Append(@, c)]
    BY <1>1, <1>5
  <2> HIDE DEF c
  <2>3. Append(disk.history, c) \in Seq(Changes)
    BY <2>0, <2>1, AppendProperties
  <2>4. /\ disk'.fields = [disk.fields EXCEPT ![f] = v]
        /\ disk'.exact = disk.exact /\ disk'.earlier = disk.earlier
        /\ disk'.history = Append(disk.history, c)
        /\ disk' \in RecordsOnDisk
    BY <1>2, <2>0, <2>2, <2>3 DEF AnnInv, RecordsOnDisk
  <2>5. \A w \in Range(disk.fields) : w = c.old \/ w \in Range(disk'.fields)
    BY <2>0, <2>1, <2>4 DEF Range
  <2>6. v \in Range(disk'.fields)
    BY <2>0, <2>4 DEF Range
  <2>7. (\A w \in Held(disk) : w = c.old \/ w \in Held(disk')) /\ v \in Held(disk')
    BY <2>4, <2>5, <2>6, HeldIs
  <2>8. Answerable(loaded, disk')
    BY <2>1, <2>4, <2>7, OneChange DEF AnnInv
  <2>9. OnlyTheReinterpreted(disk')
    BY <2>4 DEF AnnInv, OnlyTheReinterpreted
  <2> QED
    BY <1>3, <2>4, <2>8, <2>9 DEF AnnInv, SetField
<1> QED
  BY <1>4, <1>5

\* Setting and clearing one variable of a map.
LEMMA WithAndWithout ==
    ASSUME NEW f \in VarMaps, NEW k \in Slots, NEW v \in AnyValue,
           NEW g \in {With(f, k, v), Without(f, k)}
    PROVE  /\ g \in VarMaps
           /\ g = With(f, k, v) => v \in Range(g)
           /\ \A w \in Range(f) : (k \in DOMAIN f /\ w = f[k]) \/ w \in Range(g)
<1>0. f \in [DOMAIN f -> AnyValue] /\ DOMAIN f \subseteq Slots
  BY VarMapIs
<1>1. CASE g = With(f, k, v)
  <2>1. /\ DOMAIN g = DOMAIN f \cup {k} /\ g[k] = v
        /\ \A x \in DOMAIN f : x # k => g[x] = f[x]
        /\ g \in [DOMAIN g -> AnyValue]
    BY <1>0, <1>1 DEF With
  <2>2. g \in VarMaps
    BY <1>0, <2>1, VarMapIs
  <2>3. v \in Range(g) /\ \A w \in Range(f) : (k \in DOMAIN f /\ w = f[k]) \/ w \in Range(g)
    BY <2>1 DEF Range
  <2> QED
    BY <2>2, <2>3
<1>2. CASE g = Without(f, k) /\ g # With(f, k, v)
  <2>1. /\ DOMAIN g = DOMAIN f \ {k}
        /\ \A x \in DOMAIN f : x # k => g[x] = f[x]
        /\ g \in [DOMAIN g -> AnyValue]
    BY <1>0, <1>2 DEF Without, Restrict
  <2>2. g \in VarMaps
    BY <1>0, <2>1, VarMapIs
  <2>3. \A w \in Range(f) : (k \in DOMAIN f /\ w = f[k]) \/ w \in Range(g)
    BY <2>1 DEF Range
  <2> QED
    BY <1>2, <2>2, <2>3
<1> QED
  BY <1>1, <1>2

\* set_var: the earlier entries are placed, and the value it replaces is told.
LEMMA VarIsSet == ASSUME AnnInv, NEW m \in Maps, NEW k \in Slots, SetVar(m, k) PROVE AnnInv'
<1> DEFINE r == Rekey(disk)
           old == IF k \in DOMAIN r.exact[m] THEN r.exact[m][k] ELSE Unset
<1>1. PICK v \in {Unset, Blank, NewValue} :
         disk' = IF old = v THEN r
                 ELSE [r EXCEPT !.exact[m] = IF v = NewValue THEN With(@, k, v) ELSE Without(@, k),
                                !.history = Append(@, Change(m, k, old, v))]
  BY DEF SetVar
<1>2. v \in AnyValue /\ Unset \in AnyValue
  BY DEF AnnInv, AnyValue, NewValue
<1>3. r \in RecordsOnDisk /\ OnlyTheReinterpreted(r) /\ Held(disk) \subseteq Held(r)
  BY RekeyKeepsValues DEF AnnInv
<1>4. Answerable(loaded, r)
  <2>1. PICK x \in Seq(Changes) : r.history = disk.history \o x /\ SetTo(x) \subseteq NoValue
    BY RekeyKeepsValues DEF AnnInv
  <2> HIDE DEF r
  <2> QED
    BY <1>3, <2>1, StaysAnswerable DEF AnnInv
<1>5. SettlingKeepsTheReading'
  <2>1. placed'[1] = PlacedVars(disk) /\ placed'[2] = PlacedVars(Rekey(disk))
    BY DEF SetVar
  <2> QED
    BY <2>1, RekeyReadsTheSame DEF AnnInv, SettlingKeepsTheReading
<1>6. slots' \subseteq Slots /\ changes' \in Nat /\ loaded' = loaded
  BY DEF AnnInv, SetVar
<1> HIDE DEF r
<1>7. CASE old = v
  BY <1>1, <1>3, <1>4, <1>5, <1>6, <1>7 DEF AnnInv
<1>8. CASE old # v
  <2> DEFINE c == Change(m, k, old, v)
             g == IF v = NewValue THEN With(r.exact[m], k, v) ELSE Without(r.exact[m], k)
  <2>0. r.exact \in [Maps -> VarMaps] /\ r.history \in Seq(Changes)
    BY <1>3 DEF RecordsOnDisk
  <2>1. old \in AnyValue
    BY <1>2, <2>0, VarMapIs
  <2>2. c \in Changes /\ c.old = old /\ c.new = v
    BY <1>2, <2>1 DEF Change, Changes
  <2>3. /\ g \in VarMaps
        /\ v = NewValue => v \in Range(g)
        /\ \A w \in Range(r.exact[m]) : w = old \/ w \in Range(g)
    BY <1>2, <2>0, WithAndWithout
  <2>4. disk' = [r EXCEPT !.exact[m] = g, !.history = Append(@, c)]
    BY <1>1, <1>8
  <2> HIDE DEF c, g, old
  <2>5. Append(r.history, c) \in Seq(Changes)
    BY <2>0, <2>2, AppendProperties
  <2>6. /\ disk'.exact = [r.exact EXCEPT ![m] = g]
        /\ disk'.fields = r.fields /\ disk'.earlier = r.earlier
        /\ disk'.history = Append(r.history, c)
        /\ disk' \in RecordsOnDisk
    BY <1>3, <2>0, <2>3, <2>4, <2>5 DEF RecordsOnDisk
  <2>7. \A w \in Held(r) : w = c.old \/ w \in Held(disk')
    BY <2>0, <2>2, <2>3, <2>6, HeldIs
  <2>8. c.new \in NoValue \cup Held(disk')
    BY <2>0, <2>2, <2>3, <2>6, HeldIs DEF NoValue
  <2>9. Answerable(loaded, disk')
    BY <1>3, <1>4, <2>2, <2>6, <2>7, <2>8, OneChange
  <2>10. OnlyTheReinterpreted(disk')
    BY <1>3, <2>6 DEF OnlyTheReinterpreted
  <2> QED
    BY <1>5, <1>6, <2>6, <2>9, <2>10 DEF AnnInv
<1> QED
  BY <1>7, <1>8

\* AnnInv holds of every record a project can come to have.
LEMMA AnnInductive == AnnSpec => []AnnInv
<1>1. AnnInit => AnnInv
  <2> SUFFICES ASSUME AnnInit PROVE AnnInv
    OBVIOUS
  <2>1. PICK keys \in [Maps -> SUBSET {"local_8", "rcx"}] : disk = FromVersion1(keys)
    BY DEF AnnInit
  <2>2. keys \in [Maps -> SUBSET Slots] /\ \A m \in Maps : keys[m] \subseteq {"local_8", "rcx"}
    BY DEF Slots
  <2> QED
    BY <2>1, <2>2, FromVersion1IsTyped DEF AnnInit, AnnInv, SettlingKeepsTheReading
<1>2. AnnInv /\ [AnnNext]_annVars => AnnInv'
  <2> SUFFICES ASSUME AnnInv, [AnnNext]_annVars PROVE AnnInv'
    OBVIOUS
  <2>1. CASE Reanalyse
    BY <2>1 DEF Reanalyse, AnnInv, SettlingKeepsTheReading
  <2>2. CASE RemoveRecord
    <3>1. [m \in Maps |-> {}] \in [Maps -> SUBSET Slots]
      OBVIOUS
    <3>2. \A m \in Maps : [n \in Maps |-> {}][m] \subseteq {"local_8", "rcx"}
      OBVIOUS
    <3> QED
      BY <2>2, <3>1, <3>2, FromVersion1IsTyped DEF RemoveRecord, AnnInv, SettlingKeepsTheReading
  <2>3. CASE UNCHANGED annVars
    BY <2>3 DEF annVars, AnnInv, SettlingKeepsTheReading
  <2> QED
    BY <2>1, <2>2, <2>3, FieldIsSet, VarIsSet DEF AnnNext
<1> QED
  BY <1>1, <1>2, PTL DEF AnnSpec

\* Settling a key of the earlier naming under its slot's name changes nothing a
\* reader sees, whatever was set and cleared before and whatever the function
\* has for variables by then.
THEOREM SettlingIsSilent == AnnSpec => []SettlingKeepsTheReading
<1>1. AnnInv => SettlingKeepsTheReading
  BY DEF AnnInv
<1> QED
  BY <1>1, AnnInductive, PTL

\* What was once in a record, and what was ever set, is held or told by it,
\* after any number of changes.
THEOREM ValuesAreAnswerable == AnnSpec => []EveryValueIsAnswerable
<1>1. AnnInv => EveryValueIsAnswerable
  BY AnswerableIs DEF AnnInv
<1> QED
  BY <1>1, AnnInductive, PTL
=============================================================================
