---------------------------- MODULE PatchProofs ----------------------------
(***************************************************************************)
(* Proofs about PatchJournal, for any number of runs, addresses, values    *)
(* and threads.  What a run knows of its own record (OwnRecord) holds      *)
(* however many runs there are at once, and is enough for the registers.   *)
(* That the bytes off the record are only the loose ones is proved of runs *)
(* one after the other, from a balance: of each address, the records whose *)
(* bytes are in the target lead from its original value to the one it has. *)
(***************************************************************************)
EXTENDS PatchJournal, FiniteSetTheorems, TLAPS

USE DEF inTarget, history

Records == PatchRecords \cup WatchRecords

\* The steps of a run that has a record of its own, and of one that undoes
\* another's.
OwnSteps == {"recording", "recorded", "take_back", "planted", "armed", "settle"}
UndoSteps == {"writing", "saving", "saved"}

RunStates == [pc : Steps, kind : PatchKinds \cup {NoRecord}, id : PatchRuns \cup {NoRecord}, rec : Records \cup {NoRecord}]

Types ==
    /\ mem \in [Cells -> Byte] /\ gone \in BOOLEAN
    /\ journal \in [PatchRuns -> Records \cup {NoRecord, Torn}]
    /\ run \in [PatchRuns -> RunStates]
    /\ landed \in [Cells -> SUBSET PatchRuns] /\ loose \subseteq Cells

\* A record of bytes covers the same addresses before and after.
Matched(rec) == DOMAIN rec.before = DOMAIN rec.after

\* The record a run goes by, and the one in the journal under its name.
OwnRecord(r) ==
    /\ run[r].pc = "idle" => journal[r] = NoRecord
    /\ run[r].pc \in OwnSteps =>
          /\ run[r].id = r /\ run[r].kind \in {"apply", "plant", "watch"}
          /\ run[r].kind = "watch" => run[r].rec \in WatchRecords
          /\ run[r].kind # "watch" =>
                /\ run[r].rec \in PatchRecords /\ Matched(run[r].rec)
                /\ run[r].rec.status = "applied"
                /\ run[r].rec.planted = (run[r].kind = "plant")
    /\ run[r].pc = "recording" => journal[r] \in {NoRecord, Torn}
    /\ run[r].pc = "take_back" => run[r].kind = "apply"
    /\ run[r].pc = "planted" => run[r].kind = "plant"
    /\ run[r].pc = "armed" => run[r].kind = "watch"
    /\ run[r].pc = "settle" => run[r].kind # "apply"
    /\ run[r].pc \in OwnSteps \ {"recording"} =>
          IF run[r].kind = "watch" THEN journal[r] = run[r].rec \/ (run[r].pc = "settle" /\ journal[r] = NoRecord)
          ELSE \/ journal[r] \in {NoRecord, Torn}
               \/ journal[r] \in {run[r].rec, [run[r].rec EXCEPT !.status = "undone"]}

\* The record an undo goes by is that of a run that has gone by it too.
UndoRecord(r) ==
    run[r].pc \in UndoSteps =>
        /\ run[r].kind = "undo" /\ run[r].id \in PatchRuns
        /\ run[r].rec \in PatchRecords /\ Matched(run[r].rec) /\ run[r].rec.status = "applied"
        /\ ~IsRegister(run[r].id)
        /\ run[run[r].id].pc \notin {"idle", "recording"}
        /\ run[run[r].id].pc \in OwnSteps =>
              run[run[r].id].kind # "watch" /\ run[run[r].id].rec = run[r].rec

\* What a register holds, or held, is on record, unless it is mixed.
Accounted(k) ==
    k # NoRecord /\ ~k.mixed => \E i \in PatchRuns : IsRegister(i) /\ journal[i].slot = k.slot

\* What the registers hold is on record, and so is what the session that armed
\* them found there and will put back.
RegisterInv ==
    /\ \A t \in TargetThreads : Accounted(regs[t])
    /\ gone => \A t \in TargetThreads : regs[t] = NoRecord
    /\ DOMAIN savedRegs \subseteq TargetThreads
    /\ ~gone => \A t \in DOMAIN savedRegs : Accounted(savedRegs[t])
    /\ (\A r \in PatchRuns : run[r].pc # "armed") => savedRegs = NothingSaved

JournalInv ==
    /\ Types
    /\ \A r \in PatchRuns : OwnRecord(r) /\ UndoRecord(r)
    /\ \A i \in PatchRuns : IsBytes(i) => Matched(journal[i])
    /\ \A r, q \in PatchRuns : Tracing(r) /\ Tracing(q) => r = q
    /\ RegisterInv
-----------------------------------------------------------------------------
\* What a run by itself knows of the target.
Session(r) ==
    /\ run[r].pc \in {"idle", "recording", "recorded", "take_back"} => \A c \in Cells : r \notin landed[c]
    /\ ~gone =>
          /\ run[r].pc \in {"recording", "recorded"} /\ run[r].kind # "watch" =>
                Under(run[r].rec.before) = run[r].rec.before
          /\ run[r].pc \in {"planted", "settle"} /\ run[r].kind = "plant" =>
                \A c \in DOMAIN run[r].rec.after : r \in landed[c] => mem[c] = run[r].rec.after[c]
          /\ run[r].pc = "writing" => Under(run[r].rec.after) = run[r].rec.after
    /\ run[r].pc \in {"recorded", "planted"} /\ run[r].kind # "watch" => journal[r] = run[r].rec
    /\ run[r].pc = "planted" => \A c \in DOMAIN run[r].rec.after : r \in landed[c]
    /\ run[r].pc = "settle" /\ run[r].kind = "plant" => journal[r] = run[r].rec
    /\ run[r].pc = "writing" => journal[run[r].id] = run[r].rec
    /\ run[r].pc \in {"saving", "saved"} =>
          /\ journal[run[r].id] \in {run[r].rec, Torn}
          /\ \A c \in DOMAIN run[r].rec.after : run[r].id \notin landed[c]

\* The record of i is one of those whose byte is at address c of the target.
Edge(c, i) == i \in landed[c] /\ IsBytes(i) /\ c \in DOMAIN journal[i].after

\* Those records, by where they lead from and where they lead to.
From(c, v) == {i \in PatchRuns : Edge(c, i) /\ journal[i].before[c] = v}
To(c, v) == {i \in PatchRuns : Edge(c, i) /\ journal[i].after[c] = v}

Balanced(c, v) ==
    Cardinality(From(c, v)) + (IF v = mem[c] THEN 1 ELSE 0)
        = Cardinality(To(c, v)) + (IF v = Original[c] THEN 1 ELSE 0)

BalanceInv ==
    /\ \A r, q \in Active : r = q
    /\ \A r \in PatchRuns : Session(r)
    /\ \A c \in Cells, i \in PatchRuns : Edge(c, i) => journal[i].status = "applied"
    /\ ~gone => \A c \in Cells \ loose, v \in Byte : Balanced(c, v)
-----------------------------------------------------------------------------
(* Records and steps.                                                      *)

\* What the record sets say of a record, without their expansion.
LEMMA RecordFacts ==
    /\ \A rec \in PatchRecords :
          /\ rec.what = "bytes" /\ rec.status \in {"applied", "undone"} /\ rec.planted \in BOOLEAN
          /\ rec.before \in Patches /\ rec.after \in Patches
          /\ rec \notin WatchRecords /\ rec # NoRecord /\ rec # Torn /\ rec \in Records
    /\ \A rec \in WatchRecords :
          /\ rec.what = "register" /\ rec.status = "applied"
          /\ rec \notin PatchRecords /\ rec # NoRecord /\ rec # Torn /\ rec \in Records
    /\ NoRecord # Torn /\ NoRecord \notin Records /\ Torn \notin Records
  BY RecordAssumption DEF Records, PatchRecords, WatchRecords

\* A record that undo has saved keeps everything but its status.
LEMMA UndoneFacts ==
    ASSUME NEW rec \in PatchRecords
    PROVE  LET undone == [rec EXCEPT !.status = "undone"]
           IN  /\ undone \in PatchRecords /\ undone.status = "undone"
               /\ undone.before = rec.before /\ undone.after = rec.after /\ undone.planted = rec.planted
  BY DEF PatchRecords

\* The functions from one set to another are patches of its addresses.
LEMMA PatchFacts ==
    ASSUME NEW p \in Patches
    PROVE  /\ DOMAIN p \subseteq Cells /\ DOMAIN p # {}
           /\ p \in [DOMAIN p -> Byte]
           /\ \A f : f \in [DOMAIN p -> Byte] => f \in Patches
<1>1. PICK S \in Ranges : p \in [S -> Byte]
  BY DEF Patches
<1>2. DOMAIN p = S
  BY <1>1
<1>3. S \subseteq Cells /\ S # {}
  BY DEF Ranges
<1>4. \A f : f \in [S -> Byte] => f \in Patches
  BY DEF Patches
<1> QED
  BY <1>1, <1>2, <1>3, <1>4

\* What is under a patch is a patch of the same addresses.
LEMMA UnderFacts ==
    ASSUME Types, NEW p \in Patches
    PROVE  /\ Under(p) \in Patches /\ DOMAIN Under(p) = DOMAIN p
           /\ \A c \in DOMAIN p : Under(p)[c] = mem[c]
<1>1. DOMAIN p \subseteq Cells
  BY PatchFacts
<1>2. Under(p) \in [DOMAIN p -> Byte]
  BY <1>1 DEF Under, Types
<1> QED
  BY <1>2, PatchFacts DEF Under

\* One address by itself can be patched.
LEMMA BreakpointFacts ==
    ASSUME NEW c \in Cells
    PROVE  [d \in {c} |-> Int3] \in Patches
<1>1. {c} \in Ranges
  BY PatchAssumption DEF Ranges
<1>2. [d \in {c} |-> Int3] \in [{c} -> Byte]
  BY PatchAssumption
<1> QED
  BY <1>1, <1>2 DEF Patches

\* Writing a patch leaves a target of bytes.
LEMMA OverFacts ==
    ASSUME Types, NEW p \in Patches, NEW S \in SUBSET DOMAIN p
    PROVE  /\ Over(p, S) \in [Cells -> Byte]
           /\ \A c \in Cells : Over(p, S)[c] = IF c \in S THEN p[c] ELSE mem[c]
<1>1. p \in [DOMAIN p -> Byte]
  BY PatchFacts
<1> QED
  BY <1>1 DEF Over, Types

\* The step of a run changes no other run, and nothing of its own but the pc
\* unless the run ends.
LEMMA GoesFacts ==
    ASSUME Types, NEW r \in PatchRuns, NEW step \in Steps, Goes(r, step)
    PROVE  /\ run' \in [PatchRuns -> RunStates]
           /\ \A q \in PatchRuns : q # r => run'[q] = run[q]
           /\ run'[r].pc = step
           /\ step \in Ended => run'[r].kind = NoRecord
           /\ step \notin Ended => /\ run'[r].kind = run[r].kind /\ run'[r].id = run[r].id
                                   /\ run'[r].rec = run[r].rec
<1>1. run[r] \in RunStates
  BY DEF Types
<1>2. CASE step \in Ended
  BY <1>1, <1>2 DEF Goes, Types, RunStates, IdleRun
<1>3. CASE step \notin Ended
  BY <1>1, <1>3 DEF Goes, Types, RunStates, IdleRun
<1> QED
  BY <1>2, <1>3

\* The same of a run that starts.
LEMMA StartFacts ==
    ASSUME Types, NEW r \in PatchRuns, NEW state \in RunStates, run' = [run EXCEPT ![r] = state]
    PROVE  /\ run' \in [PatchRuns -> RunStates] /\ run'[r] = state
           /\ \A q \in PatchRuns : q # r => run'[q] = run[q]
  BY DEF Types


\* What patch apply has when it starts.
LEMMA ApplyStarts ==
    ASSUME Types, NEW r \in PatchRuns, StartApply(r)
    PROVE  /\ run' \in [PatchRuns -> RunStates] /\ \A q \in PatchRuns : q # r => run'[q] = run[q]
           /\ run[r].pc = "idle" /\ run'[r].pc = "recording" /\ run'[r].kind = "apply" /\ run'[r].id = r
           /\ run'[r].rec \in PatchRecords /\ Matched(run'[r].rec)
           /\ run'[r].rec.status = "applied" /\ run'[r].rec.planted = FALSE
           /\ Under(run'[r].rec.before) = run'[r].rec.before
<1>1. PICK p \in Patches : run' = [run EXCEPT ![r] =
                    [pc |-> "recording", kind |-> "apply", id |-> r,
                     rec |-> [what |-> "bytes", before |-> Under(p), after |-> p,
                              status |-> "applied", planted |-> FALSE]]]
  BY DEF StartApply
<1> DEFINE rec == [what |-> "bytes", before |-> Under(p), after |-> p, status |-> "applied", planted |-> FALSE]
           state == [pc |-> "recording", kind |-> "apply", id |-> r, rec |-> rec]
<1>2. rec \in PatchRecords
  BY UnderFacts DEF PatchRecords
<1>3. "apply" \in PatchKinds /\ run[r].pc = "idle"
  BY DEF StartApply, MayStart
<1>4. state \in RunStates
  BY <1>2, <1>3, RecordFacts DEF RunStates, Steps
<1>5. Under(Under(p)) = Under(p)
  BY UnderFacts DEF Under
<1>6. state.pc = "recording" /\ state.kind = "apply" /\ state.id = r /\ state.rec = rec
  OBVIOUS
<1>7. rec.before = Under(p) /\ rec.after = p /\ rec.status = "applied" /\ rec.planted = FALSE
  OBVIOUS
<1>8. run' = [run EXCEPT ![r] = state]
  BY <1>1
<1> HIDE DEF rec, state
<1>9. run'[r] = state /\ run' \in [PatchRuns -> RunStates] /\ \A q \in PatchRuns : q # r => run'[q] = run[q]
  BY <1>4, <1>8, StartFacts
<1> QED
  BY <1>2, <1>3, <1>5, <1>6, <1>7, <1>9, UnderFacts DEF Matched

\* What debug await-hit has.
LEMMA PlantStarts ==
    ASSUME Types, NEW r \in PatchRuns, StartPlant(r)
    PROVE  /\ run' \in [PatchRuns -> RunStates] /\ \A q \in PatchRuns : q # r => run'[q] = run[q]
           /\ run[r].pc = "idle" /\ run'[r].pc = "recording" /\ run'[r].kind = "plant" /\ run'[r].id = r
           /\ run'[r].rec \in PatchRecords /\ Matched(run'[r].rec)
           /\ run'[r].rec.status = "applied" /\ run'[r].rec.planted = TRUE
           /\ Under(run'[r].rec.before) = run'[r].rec.before
<1>1. PICK c \in Cells : run' = [run EXCEPT ![r] =
                    [pc |-> "recording", kind |-> "plant", id |-> r,
                     rec |-> [what |-> "bytes", before |-> Under([d \in {c} |-> Int3]),
                              after |-> [d \in {c} |-> Int3],
                              status |-> "applied", planted |-> TRUE]]]
  BY DEF StartPlant
<1> DEFINE p == [d \in {c} |-> Int3]
           rec == [what |-> "bytes", before |-> Under(p), after |-> p, status |-> "applied", planted |-> TRUE]
           state == [pc |-> "recording", kind |-> "plant", id |-> r, rec |-> rec]
<1>a. p \in Patches
  BY BreakpointFacts
<1>8. run' = [run EXCEPT ![r] = state]
  BY <1>1
<1> HIDE DEF p
<1>2. rec \in PatchRecords
  BY <1>a, UnderFacts DEF PatchRecords
<1>3. "plant" \in PatchKinds /\ run[r].pc = "idle"
  BY DEF StartPlant, MayStart
<1>4. state \in RunStates
  BY <1>2, <1>3, RecordFacts DEF RunStates, Steps
<1>5. Under(Under(p)) = Under(p)
  BY <1>a, UnderFacts DEF Under
<1>6. state.pc = "recording" /\ state.kind = "plant" /\ state.id = r /\ state.rec = rec
  OBVIOUS
<1>7. rec.before = Under(p) /\ rec.after = p /\ rec.status = "applied" /\ rec.planted = TRUE
  OBVIOUS
<1> HIDE DEF rec, state
<1>9. run'[r] = state /\ run' \in [PatchRuns -> RunStates] /\ \A q \in PatchRuns : q # r => run'[q] = run[q]
  BY <1>4, <1>8, StartFacts
<1> QED
  BY <1>2, <1>3, <1>5, <1>6, <1>7, <1>9, <1>a, UnderFacts DEF Matched

\* What debug watch has.
LEMMA WatchStarts ==
    ASSUME Types, NEW r \in PatchRuns, StartWatch(r)
    PROVE  /\ run' \in [PatchRuns -> RunStates] /\ \A q \in PatchRuns : q # r => run'[q] = run[q]
           /\ run[r].pc = "idle" /\ run'[r].pc = "recording" /\ run'[r].kind = "watch" /\ run'[r].id = r
           /\ run'[r].rec \in WatchRecords
<1>0. PICK slot \in WatchSlots : run' = [run EXCEPT ![r] =
                    [pc |-> "recording", kind |-> "watch", id |-> r,
                     rec |-> [what |-> "register", slot |-> slot, status |-> "applied"]]]
  BY DEF StartWatch
<1> DEFINE rec == [what |-> "register", slot |-> slot, status |-> "applied"]
           state == [pc |-> "recording", kind |-> "watch", id |-> r, rec |-> rec]
<1>1. rec \in WatchRecords
  BY DEF WatchRecords
<1>2. "watch" \in PatchKinds /\ run[r].pc = "idle"
  BY DEF StartWatch, MayStart
<1>3. state \in RunStates
  BY <1>1, <1>2, RecordFacts DEF RunStates, Steps
<1>4. run' = [run EXCEPT ![r] = state]
  BY <1>0
<1>5. state.pc = "recording" /\ state.kind = "watch" /\ state.id = r /\ state.rec = rec
  OBVIOUS
<1> HIDE DEF rec, state
<1> QED
  BY <1>1, <1>2, <1>3, <1>4, <1>5, StartFacts

\* What patch undo has: a record of the journal, applied, whose bytes are in
\* the target.
LEMMA UndoStarts ==
    ASSUME Types, NEW r \in PatchRuns, StartUndo(r)
    PROVE  /\ run' \in [PatchRuns -> RunStates] /\ \A q \in PatchRuns : q # r => run'[q] = run[q]
           /\ run[r].pc = "idle" /\ run'[r].pc = "writing" /\ run'[r].kind = "undo"
           /\ run'[r].id \in PatchRuns /\ IsBytes(run'[r].id) /\ run'[r].rec = journal[run'[r].id]
           /\ run'[r].rec \in PatchRecords /\ run'[r].rec.status = "applied"
           /\ Under(run'[r].rec.after) = run'[r].rec.after
<1>1. PICK i \in PatchRuns : /\ IsBytes(i) /\ journal[i].status = "applied"
                             /\ Under(journal[i].after) = journal[i].after
                             /\ run' = [run EXCEPT ![r] = [pc |-> "writing", kind |-> "undo", id |-> i, rec |-> journal[i]]]
  BY DEF StartUndo
<1> DEFINE state == [pc |-> "writing", kind |-> "undo", id |-> i, rec |-> journal[i]]
<1>2. journal[i] \in PatchRecords
  BY <1>1, RecordFacts DEF IsBytes, Types, Records
<1>3. "undo" \in PatchKinds /\ run[r].pc = "idle"
  BY DEF StartUndo, MayStart
<1>4. state \in RunStates
  BY <1>2, <1>3, RecordFacts DEF RunStates, Steps
<1>5. state.pc = "writing" /\ state.kind = "undo" /\ state.id = i /\ state.rec = journal[i]
  OBVIOUS
<1>6. run' = [run EXCEPT ![r] = state]
  BY <1>1
<1> HIDE DEF state
<1> QED
  BY <1>1, <1>2, <1>3, <1>4, <1>5, <1>6, StartFacts, ZenonT(60)

\* An undo of a register is over in one step.
LEMMA WatchUndone ==
    ASSUME Types, NEW r \in PatchRuns, UndoWatch(r)
    PROVE  /\ run' \in [PatchRuns -> RunStates] /\ \A q \in PatchRuns : q # r => run'[q] = run[q]
           /\ run[r].pc = "idle" /\ run'[r].pc = "done" /\ run'[r].kind = NoRecord /\ ~Traced
<1> DEFINE state == [IdleRun EXCEPT !.pc = "done"]
<1>1. state \in RunStates /\ state.pc = "done" /\ state.kind = NoRecord
  BY DEF IdleRun, RunStates, Steps
<1>2. run' = [run EXCEPT ![r] = state] /\ run[r].pc = "idle" /\ ~Traced
  BY DEF UndoWatch, MayStart
<1> HIDE DEF state
<1> QED
  BY <1>1, <1>2, StartFacts

\* Types, step by step: the records that go into the journal are records.
LEMMA TypesStep ==
    ASSUME JournalInv, [PatchNext]_patchVars
    PROVE  Types'
<1>0. Types /\ \A r \in PatchRuns : OwnRecord(r) /\ UndoRecord(r)
  BY DEF JournalInv
<1>1. ASSUME NEW r \in PatchRuns, StartApply(r) PROVE Types'
  BY <1>0, <1>1, ApplyStarts DEF Types, StartApply
<1>2. ASSUME NEW r \in PatchRuns, StartPlant(r) PROVE Types'
  BY <1>0, <1>2, PlantStarts DEF Types, StartPlant
<1>3. ASSUME NEW r \in PatchRuns, StartWatch(r) PROVE Types'
  BY <1>0, <1>3, WatchStarts DEF Types, StartWatch
<1>4. ASSUME NEW r \in PatchRuns, StartUndo(r) PROVE Types'
  BY <1>0, <1>4, UndoStarts DEF Types, StartUndo
<1>5. ASSUME NEW r \in PatchRuns, OpenRecord(r) PROVE Types'
  BY <1>0, <1>5, GoesFacts DEF Types, OpenRecord, Steps
<1>6. ASSUME NEW r \in PatchRuns, FinishRecord(r) PROVE Types'
  <2>1. run[r].rec \in Records
    BY <1>0, <1>6, RecordFacts DEF OwnRecord, FinishRecord, OwnSteps
  <2> QED
    BY <2>1, <1>0, <1>6, GoesFacts DEF Types, FinishRecord, Steps
<1>7. ASSUME NEW r \in PatchRuns, WriteTarget(r) PROVE Types'
  <2> DEFINE p == run[r].rec.after
  <2>1. p \in Patches /\ DOMAIN p \subseteq Cells
    BY <1>0, <1>7, RecordFacts, PatchFacts DEF OwnRecord, WriteTarget, OwnSteps
  <2>2. \A S \in SUBSET DOMAIN p : Over(p, S) \in [Cells -> Byte]
    BY <1>0, <2>1, OverFacts
  <2>3. DOMAIN p \in SUBSET DOMAIN p /\ {} \in SUBSET DOMAIN p /\ Beginnings(p) \subseteq SUBSET DOMAIN p
    BY DEF Beginnings
  <2> HIDE DEF p
  <2>4. \E S \in SUBSET DOMAIN p : mem' = Over(p, S)
    BY <2>3, <1>7 DEF WriteTarget, p
  <2>5. mem' \in [Cells -> Byte]
    BY <2>2, <2>4
  <2>6. landed' \in [Cells -> SUBSET PatchRuns]
    BY <1>0, <1>7 DEF Types, WriteTarget
  <2>7. loose' \subseteq Cells
    BY <1>0, <2>1, <2>3, <1>7 DEF Types, WriteTarget, p
  <2>8. gone' = gone /\ journal' = journal /\ run' \in [PatchRuns -> RunStates]
    BY <1>0, <1>7, GoesFacts DEF WriteTarget, Steps
  <2> QED
    BY <1>0, <2>5, <2>6, <2>7, <2>8 DEF Types
<1>8. ASSUME NEW r \in PatchRuns, TakeBack(r) PROVE Types'
  BY <1>0, <1>8, GoesFacts DEF Types, TakeBack, Steps
<1>9. ASSUME NEW r \in PatchRuns, RestoreByte(r) PROVE Types'
  <2>1. run[r].rec.before \in Patches
    BY <1>0, <1>9, RecordFacts DEF OwnRecord, RestoreByte, OwnSteps
  <2>2. Over(run[r].rec.before, DOMAIN run[r].rec.before) \in [Cells -> Byte]
    BY <1>0, <2>1, OverFacts
  <2> QED
    BY <2>2, <1>0, <1>9, GoesFacts DEF Types, RestoreByte, Steps
<1>10. ASSUME NEW r \in PatchRuns, Arm(r) PROVE Types'
  BY <1>0, <1>10, GoesFacts DEF Types, Arm, Steps
<1>11. ASSUME NEW r \in PatchRuns, Disarm(r) PROVE Types'
  BY <1>0, <1>11, GoesFacts DEF Types, Disarm, Steps
<1>12. ASSUME NEW r \in PatchRuns, SettlePlanted(r) PROVE Types'
  BY <1>0, <1>12, GoesFacts DEF Types, SettlePlanted, Steps
<1>13. ASSUME NEW r \in PatchRuns, SettleArmed(r) PROVE Types'
  BY <1>0, <1>13, GoesFacts DEF Types, SettleArmed, Steps
<1>14. ASSUME NEW r \in PatchRuns, UndoWrite(r) PROVE Types'
  <2> DEFINE p == run[r].rec.before
  <2>1. p \in Patches /\ DOMAIN p \subseteq Cells
    BY <1>0, <1>14, RecordFacts, PatchFacts DEF UndoRecord, UndoWrite, UndoSteps
  <2>2. \A S \in SUBSET DOMAIN p : Over(p, S) \in [Cells -> Byte]
    BY <1>0, <2>1, OverFacts
  <2>3. PICK S \in SUBSET DOMAIN p :
          /\ mem' = Over(p, S)
          /\ loose' = loose \cup {c \in S : run[r].id \notin landed[c]}
          /\ landed' = [c \in Cells |-> IF c \in S THEN landed[c] \ {run[r].id} ELSE landed[c]]
    BY <1>14 DEF UndoWrite
  <2>4. gone' = gone /\ journal' = journal /\ run' \in [PatchRuns -> RunStates]
    BY <1>0, <1>14, GoesFacts DEF UndoWrite, Steps
  <2> HIDE DEF p
  <2> QED
    BY <1>0, <2>1, <2>2, <2>3, <2>4 DEF Types
<1>15. ASSUME NEW r \in PatchRuns, UndoSave(r) PROVE Types'
  <2>1. run[r].rec \in PatchRecords /\ run[r].id \in PatchRuns
    BY <1>0, <1>15 DEF UndoRecord, UndoSave, UndoSteps
  <2>2. [run[r].rec EXCEPT !.status = "undone"] \in Records
    BY <2>1, UndoneFacts, RecordFacts
  <2> QED
    BY <2>1, <2>2, <1>0, <1>15, GoesFacts DEF Types, UndoSave, Steps
<1>16. ASSUME NEW r \in PatchRuns, UndoWatch(r) PROVE Types'
  BY <1>0, <1>16, WatchUndone DEF Types, UndoWatch
<1>17. ASSUME NEW r \in PatchRuns, KillRun(r) PROVE Types'
  BY <1>0, <1>17, GoesFacts DEF Types, KillRun, Steps
<1>18. CASE TargetExits
  BY <1>0, <1>18 DEF Types, TargetExits
<1>19. CASE UNCHANGED patchVars
  BY <1>0, <1>19 DEF Types, patchVars
<1> QED
  BY <1>0, <1>1, <1>2, <1>3, <1>4, <1>5, <1>6, <1>7, <1>8, <1>9, <1>10, <1>11, <1>12, <1>13, <1>14, <1>15, <1>16, <1>17, <1>18, <1>19 DEF PatchNext


\* What a run knows of its record is the run's and the record's alone.
LEMMA OwnFrame ==
    ASSUME NEW q \in PatchRuns, OwnRecord(q), run'[q] = run[q], journal'[q] = journal[q]
    PROVE  OwnRecord(q)'
  BY DEF OwnRecord

\* What a run knows of its own record stays true: nobody writes it but the run
\* and an undo, and an undo of a register finds no session in progress.
LEMMA OwnStep ==
    ASSUME JournalInv, [PatchNext]_patchVars
    PROVE  \A q \in PatchRuns : OwnRecord(q)'
<1>0. Types /\ \A r \in PatchRuns : OwnRecord(r) /\ UndoRecord(r)
  BY DEF JournalInv
<1>1. ASSUME NEW r \in PatchRuns, StartApply(r) PROVE \A q \in PatchRuns : OwnRecord(q)'
  <2>1. OwnRecord(r)'
    BY <1>0, <1>1, ApplyStarts DEF OwnRecord, StartApply, OwnSteps
  <2>2. \A q \in PatchRuns : q # r => run'[q] = run[q] /\ journal'[q] = journal[q]
    BY <1>0, <1>1, ApplyStarts DEF StartApply
  <2> QED
    BY <1>0, <2>1, <2>2, OwnFrame
<1>2. ASSUME NEW r \in PatchRuns, StartPlant(r) PROVE \A q \in PatchRuns : OwnRecord(q)'
  <2>1. OwnRecord(r)'
    <3>1. /\ run[r].pc = "idle" /\ run'[r].pc = "recording" /\ run'[r].kind = "plant" /\ run'[r].id = r
          /\ run'[r].rec \in PatchRecords /\ Matched(run'[r].rec)
          /\ run'[r].rec.status = "applied" /\ run'[r].rec.planted = TRUE
      BY <1>0, <1>2, PlantStarts, ZenonT(60)
    <3>2. journal'[r] = NoRecord
      BY <1>0, <1>2, <3>1 DEF OwnRecord, StartPlant
    <3>3. Matched(run[r].rec)'
      BY <3>1 DEF Matched
    <3> QED
      BY <3>1, <3>2, <3>3 DEF OwnRecord, OwnSteps
  <2>2. \A q \in PatchRuns : q # r => run'[q] = run[q] /\ journal'[q] = journal[q]
    BY <1>0, <1>2, PlantStarts DEF StartPlant
  <2> QED
    BY <1>0, <2>1, <2>2, OwnFrame
<1>3. ASSUME NEW r \in PatchRuns, StartWatch(r) PROVE \A q \in PatchRuns : OwnRecord(q)'
  <2>1. OwnRecord(r)'
    BY <1>0, <1>3, WatchStarts DEF OwnRecord, StartWatch, OwnSteps
  <2>2. \A q \in PatchRuns : q # r => run'[q] = run[q] /\ journal'[q] = journal[q]
    BY <1>0, <1>3, WatchStarts DEF StartWatch
  <2> QED
    BY <1>0, <2>1, <2>2, OwnFrame
<1>4. ASSUME NEW r \in PatchRuns, StartUndo(r) PROVE \A q \in PatchRuns : OwnRecord(q)'
  <2>1. OwnRecord(r)'
    BY <1>0, <1>4, UndoStarts DEF OwnRecord, StartUndo, OwnSteps
  <2>2. \A q \in PatchRuns : q # r => run'[q] = run[q] /\ journal'[q] = journal[q]
    BY <1>0, <1>4, UndoStarts DEF StartUndo
  <2> QED
    BY <1>0, <2>1, <2>2, OwnFrame
<1>5. ASSUME NEW r \in PatchRuns, OpenRecord(r) PROVE \A q \in PatchRuns : OwnRecord(q)'
  <2>1. OwnRecord(r)'
    BY <1>0, <1>5, GoesFacts DEF OwnRecord, OpenRecord, OwnSteps, Steps, Ended, Types
  <2>2. \A q \in PatchRuns : q # r => run'[q] = run[q] /\ journal'[q] = journal[q]
    BY <1>0, <1>5, GoesFacts DEF OpenRecord, Steps, Types
  <2> QED
    BY <1>0, <2>1, <2>2, OwnFrame
<1>6. ASSUME NEW r \in PatchRuns, FinishRecord(r) PROVE \A q \in PatchRuns : OwnRecord(q)'
  <2>1. OwnRecord(r)'
    BY <1>0, <1>6, GoesFacts DEF OwnRecord, FinishRecord, OwnSteps, Steps, Ended, Types
  <2>2. \A q \in PatchRuns : q # r => run'[q] = run[q] /\ journal'[q] = journal[q]
    BY <1>0, <1>6, GoesFacts DEF FinishRecord, Steps, Types
  <2> QED
    BY <1>0, <2>1, <2>2, OwnFrame
<1>7. ASSUME NEW r \in PatchRuns, WriteTarget(r) PROVE \A q \in PatchRuns : OwnRecord(q)'
  <2>1. OwnRecord(r)'
    BY <1>0, <1>7, GoesFacts DEF OwnRecord, WriteTarget, OwnSteps, Steps, Ended, Types
  <2>2. \A q \in PatchRuns : q # r => run'[q] = run[q] /\ journal'[q] = journal[q]
    BY <1>0, <1>7, GoesFacts DEF WriteTarget, Steps, Types
  <2> QED
    BY <1>0, <2>1, <2>2, OwnFrame
<1>8. ASSUME NEW r \in PatchRuns, TakeBack(r) PROVE \A q \in PatchRuns : OwnRecord(q)'
  <2>1. OwnRecord(r)'
    BY <1>0, <1>8, GoesFacts DEF OwnRecord, TakeBack, OwnSteps, Steps, Ended, Types
  <2>2. \A q \in PatchRuns : q # r => run'[q] = run[q] /\ journal'[q] = journal[q]
    BY <1>0, <1>8, GoesFacts DEF TakeBack, Steps, Types
  <2> QED
    BY <1>0, <2>1, <2>2, OwnFrame
<1>9. ASSUME NEW r \in PatchRuns, RestoreByte(r) PROVE \A q \in PatchRuns : OwnRecord(q)'
  <2>1. OwnRecord(r)'
    BY <1>0, <1>9, GoesFacts DEF OwnRecord, RestoreByte, OwnSteps, Steps, Ended, Types
  <2>2. \A q \in PatchRuns : q # r => run'[q] = run[q] /\ journal'[q] = journal[q]
    BY <1>0, <1>9, GoesFacts DEF RestoreByte, Steps, Types
  <2> QED
    BY <1>0, <2>1, <2>2, OwnFrame
<1>10. ASSUME NEW r \in PatchRuns, Arm(r) PROVE \A q \in PatchRuns : OwnRecord(q)'
  <2>1. OwnRecord(r)'
    BY <1>0, <1>10, GoesFacts DEF OwnRecord, Arm, OwnSteps, Steps, Ended, Types
  <2>2. \A q \in PatchRuns : q # r => run'[q] = run[q] /\ journal'[q] = journal[q]
    BY <1>0, <1>10, GoesFacts DEF Arm, Steps, Types
  <2> QED
    BY <1>0, <2>1, <2>2, OwnFrame
<1>11. ASSUME NEW r \in PatchRuns, Disarm(r) PROVE \A q \in PatchRuns : OwnRecord(q)'
  <2>1. OwnRecord(r)'
    BY <1>0, <1>11, GoesFacts DEF OwnRecord, Disarm, OwnSteps, Steps, Ended, Types
  <2>2. \A q \in PatchRuns : q # r => run'[q] = run[q] /\ journal'[q] = journal[q]
    BY <1>0, <1>11, GoesFacts DEF Disarm, Steps, Types
  <2> QED
    BY <1>0, <2>1, <2>2, OwnFrame
<1>12. ASSUME NEW r \in PatchRuns, SettlePlanted(r) PROVE \A q \in PatchRuns : OwnRecord(q)'
  <2>1. OwnRecord(r)'
    BY <1>0, <1>12, GoesFacts DEF OwnRecord, SettlePlanted, OwnSteps, Steps, Ended, Types
  <2>2. \A q \in PatchRuns : q # r => run'[q] = run[q] /\ journal'[q] = journal[q]
    BY <1>0, <1>12, GoesFacts DEF SettlePlanted, Steps, Types
  <2> QED
    BY <1>0, <2>1, <2>2, OwnFrame
<1>13. ASSUME NEW r \in PatchRuns, SettleArmed(r) PROVE \A q \in PatchRuns : OwnRecord(q)'
  <2>1. OwnRecord(r)'
    BY <1>0, <1>13, GoesFacts DEF OwnRecord, SettleArmed, OwnSteps, Steps, Ended, Types
  <2>2. \A q \in PatchRuns : q # r => run'[q] = run[q] /\ journal'[q] = journal[q]
    BY <1>0, <1>13, GoesFacts DEF SettleArmed, Steps, Types
  <2> QED
    BY <1>0, <2>1, <2>2, OwnFrame
<1>14. ASSUME NEW r \in PatchRuns, UndoWrite(r) PROVE \A q \in PatchRuns : OwnRecord(q)'
  <2>1. OwnRecord(r)'
    BY <1>0, <1>14, GoesFacts DEF OwnRecord, UndoWrite, OwnSteps, Steps, Ended, Types
  <2>2. \A q \in PatchRuns : q # r => run'[q] = run[q] /\ journal'[q] = journal[q]
    BY <1>0, <1>14, GoesFacts DEF UndoWrite, Steps, Types
  <2> QED
    BY <1>0, <2>1, <2>2, OwnFrame
<1>15. ASSUME NEW r \in PatchRuns, UndoSave(r) PROVE \A q \in PatchRuns : OwnRecord(q)'
  <2>0. PICK i \in PatchRuns : i = run[r].id
    BY <1>0, <1>15 DEF UndoRecord, UndoSave, UndoSteps
  <2> DEFINE undone == [run[r].rec EXCEPT !.status = "undone"]
  <2>1. i \in PatchRuns /\ run[i].pc \notin {"idle", "recording"} /\ run[r].rec \in PatchRecords
        /\ (run[i].pc \in OwnSteps => run[i].kind # "watch" /\ run[i].rec = run[r].rec)
    BY <1>0, <2>0, <1>15 DEF UndoRecord, UndoSave, UndoSteps
  <2>2. /\ run'[r].pc \in {"saved", "done"} /\ \A q \in PatchRuns : q # r => run'[q] = run[q]
    BY <1>0, <1>15, GoesFacts DEF UndoSave, Steps
  <2>3. journal'[i] \in {Torn, undone} /\ \A q \in PatchRuns : q # i => journal'[q] = journal[q]
    BY <1>0, <2>0, <2>1, <1>15 DEF UndoSave, Types
  <2>4. OwnRecord(r)'
    BY <2>2 DEF OwnRecord, OwnSteps
  <2>5. ASSUME i # r PROVE OwnRecord(i)'
    <3>1. run'[i] = run[i]
      BY <2>1, <2>2, <2>5
    <3>2. run[i].pc \in OwnSteps => journal'[i] \in {Torn, [run[i].rec EXCEPT !.status = "undone"]}
      BY <2>1, <2>3
    <3>3. OwnRecord(i) /\ run[i].pc \notin {"idle", "recording"}
      BY <1>0, <2>1
    <3>4. run[i].pc \in OwnSteps => run[i].kind # "watch"
      BY <2>1
    <3> HIDE DEF undone
    <3> QED
      BY <3>1, <3>2, <3>3, <3>4 DEF OwnRecord, OwnSteps
  <2>6. \A q \in PatchRuns : q # r /\ q # i => run'[q] = run[q] /\ journal'[q] = journal[q]
    BY <2>2, <2>3
  <2>7. \A q \in PatchRuns : q # r /\ q # i => OwnRecord(q)'
    BY <1>0, <2>6, OwnFrame
  <2> HIDE DEF undone
  <2> QED
    BY <2>4, <2>5, <2>7
<1>16. ASSUME NEW r \in PatchRuns, UndoWatch(r) PROVE \A q \in PatchRuns : OwnRecord(q)'
  <2>1. PICK i \in PatchRuns : IsRegister(i) /\ journal' \in {journal, [journal EXCEPT ![i] = NoRecord]}
    BY <1>16 DEF UndoWatch
  <2>2. /\ run[r].pc = "idle" /\ run'[r].pc = "done" /\ \A q \in PatchRuns : q # r => run'[q] = run[q]
    BY <1>0, <1>16, WatchUndone
  <2>3. OwnRecord(r)'
    BY <2>2 DEF OwnRecord, OwnSteps
  <2>4. journal[r] = NoRecord /\ i # r
    BY <1>0, <2>1, <2>2 DEF OwnRecord, IsRegister
  <2>5. journal'[i] \in {journal[i], NoRecord} /\ \A q \in PatchRuns : q # i => journal'[q] = journal[q]
    BY <1>0, <2>1 DEF Types
  <2>6. run[i].pc \in OwnSteps => run[i].kind = "apply" \/ run[i].pc = "settle"
    BY <1>0, <1>16, WatchUndone DEF Traced, Tracing, OwnRecord, OwnSteps, Ended
  <2>7. CASE journal'[i] = journal[i]
    BY <1>0, <2>2, <2>3, <2>5, <2>7, OwnFrame
  <2>8. CASE journal'[i] = NoRecord
    <3>1. run'[i] = run[i]
      BY <2>2, <2>4
    <3>2. OwnRecord(i)'
      BY <1>0, <2>6, <2>8, <3>1 DEF OwnRecord
    <3> QED
      BY <1>0, <2>2, <2>3, <2>5, <3>2, OwnFrame
  <2> QED
    BY <2>5, <2>7, <2>8
<1>17. ASSUME NEW r \in PatchRuns, KillRun(r) PROVE \A q \in PatchRuns : OwnRecord(q)'
  <2>1. OwnRecord(r)'
    BY <1>0, <1>17, GoesFacts DEF OwnRecord, KillRun, OwnSteps, Steps, Ended, Types
  <2>2. \A q \in PatchRuns : q # r => run'[q] = run[q] /\ journal'[q] = journal[q]
    BY <1>0, <1>17, GoesFacts DEF KillRun, Steps, Types
  <2> QED
    BY <1>0, <2>1, <2>2, OwnFrame
<1>18. CASE TargetExits
  BY <1>0, <1>18, OwnFrame DEF TargetExits
<1>19. CASE UNCHANGED patchVars
  BY <1>0, <1>19, OwnFrame DEF patchVars
<1> QED
  BY <1>1, <1>2, <1>3, <1>4, <1>5, <1>6, <1>7, <1>8, <1>9, <1>10, <1>11, <1>12, <1>13, <1>14, <1>15, <1>16, <1>17, <1>18, <1>19 DEF PatchNext


\* What a step may make of the run a record is of: it goes on by the same
\* record, or it is over, or it is an undo itself.
Moves(i) ==
    \/ run'[i] = run[i]
    \/ run[i].pc \in {"idle", "recording"}
    \/ run'[i].pc \in {"done"} \cup UndoSteps
    \/ /\ run[i].pc \in OwnSteps /\ run'[i].pc \in OwnSteps \ {"recording"}
       /\ run'[i].kind = run[i].kind /\ run'[i].rec = run[i].rec

\* An undo's record is left alone by a step of another run.
LEMMA UndoFrame ==
    ASSUME NEW q \in PatchRuns, UndoRecord(q), run'[q] = run[q], \A i \in PatchRuns : Moves(i),
           \A i \in PatchRuns : IsRegister(i)' => IsRegister(i) \/ run[i].pc = "recording"
    PROVE  UndoRecord(q)'
<1> SUFFICES ASSUME run[q].pc \in UndoSteps PROVE UndoRecord(q)'
  BY DEF UndoRecord
<1> PICK i \in PatchRuns : i = run[q].id
  BY DEF UndoRecord
<1>1. /\ run[q].kind = "undo" /\ run[q].rec \in PatchRecords /\ Matched(run[q].rec)
      /\ run[q].rec.status = "applied" /\ ~IsRegister(i) /\ run[i].pc \notin {"idle", "recording"}
      /\ run[i].pc \in OwnSteps => run[i].kind # "watch" /\ run[i].rec = run[q].rec
  BY DEF UndoRecord
<1>2. ~IsRegister(i)'
  BY <1>1
<1>3. run'[i].pc \notin {"idle", "recording"}
  BY <1>1 DEF Moves, OwnSteps, UndoSteps
<1>4. run'[i].pc \in OwnSteps => run'[i].kind # "watch" /\ run'[i].rec = run[q].rec
  BY <1>1 DEF Moves, OwnSteps, UndoSteps
<1>5. journal'[run'[q].id] = journal'[i]
  OBVIOUS
<1>6. ~IsRegister(run[q].id)'
  BY <1>2, <1>5 DEF IsRegister
<1>7. Matched(run[q].rec)'
  BY <1>1 DEF Matched
<1> QED
  BY <1>1, <1>3, <1>4, <1>6, <1>7 DEF UndoRecord

\* The run an undo's record is of has that record still, or is over.
LEMMA UndoStep ==
    ASSUME JournalInv, [PatchNext]_patchVars
    PROVE  \A q \in PatchRuns : UndoRecord(q)'
<1>0. /\ Types /\ \A r \in PatchRuns : OwnRecord(r) /\ UndoRecord(r)
      /\ \A i \in PatchRuns : IsBytes(i) => Matched(journal[i])
  BY DEF JournalInv
<1>1. ASSUME NEW r \in PatchRuns, StartApply(r) PROVE \A q \in PatchRuns : UndoRecord(q)'
  <2>1. UndoRecord(r)'
    BY <1>0, <1>1, ApplyStarts DEF UndoRecord, UndoSteps
  <2>2. \A q \in PatchRuns : q # r => run'[q] = run[q]
    BY <1>0, <1>1, ApplyStarts DEF StartApply, Steps
  <2>3. \A i \in PatchRuns : Moves(i)
    BY <1>0, <2>2, <1>1, ApplyStarts, ZenonT(60) DEF Moves
  <2>4. \A i \in PatchRuns : IsRegister(i)' => IsRegister(i) \/ run[i].pc = "recording"
    BY <1>0, <1>1, ApplyStarts DEF StartApply, IsRegister, Types
  <2> QED
    BY <1>0, <2>1, <2>2, <2>3, <2>4, UndoFrame
<1>2. ASSUME NEW r \in PatchRuns, StartPlant(r) PROVE \A q \in PatchRuns : UndoRecord(q)'
  <2>1. UndoRecord(r)'
    BY <1>0, <1>2, PlantStarts DEF UndoRecord, UndoSteps
  <2>2. \A q \in PatchRuns : q # r => run'[q] = run[q]
    BY <1>0, <1>2, PlantStarts DEF StartPlant, Steps
  <2>3. \A i \in PatchRuns : Moves(i)
    BY <1>0, <2>2, <1>2, PlantStarts, ZenonT(60) DEF Moves
  <2>4. \A i \in PatchRuns : IsRegister(i)' => IsRegister(i) \/ run[i].pc = "recording"
    BY <1>0, <1>2, PlantStarts DEF StartPlant, IsRegister, Types
  <2> QED
    BY <1>0, <2>1, <2>2, <2>3, <2>4, UndoFrame
<1>3. ASSUME NEW r \in PatchRuns, StartWatch(r) PROVE \A q \in PatchRuns : UndoRecord(q)'
  <2>1. UndoRecord(r)'
    BY <1>0, <1>3, WatchStarts DEF UndoRecord, UndoSteps
  <2>2. \A q \in PatchRuns : q # r => run'[q] = run[q]
    BY <1>0, <1>3, WatchStarts DEF StartWatch, Steps
  <2>3. \A i \in PatchRuns : Moves(i)
    BY <1>0, <2>2, <1>3, WatchStarts DEF Moves
  <2>4. \A i \in PatchRuns : IsRegister(i)' => IsRegister(i) \/ run[i].pc = "recording"
    BY <1>0, <1>3, WatchStarts DEF StartWatch, IsRegister, Types
  <2> QED
    BY <1>0, <2>1, <2>2, <2>3, <2>4, UndoFrame
<1>4. ASSUME NEW r \in PatchRuns, StartUndo(r) PROVE \A q \in PatchRuns : UndoRecord(q)'
  <2>0. PICK i \in PatchRuns : i = run'[r].id
    BY <1>0, <1>4, UndoStarts
  <2>a. /\ IsBytes(i) /\ journal[i] = run'[r].rec /\ run'[r].rec \in PatchRecords /\ i # r
        /\ run'[r].rec.status = "applied" /\ run'[r].kind = "undo" /\ Matched(run'[r].rec)
    BY <1>0, <2>0, <1>4, UndoStarts DEF OwnRecord, IsBytes
  <2>b. ~IsRegister(i) /\ run[i].pc \notin {"idle", "recording"} /\ run'[i] = run[i] /\ journal' = journal
    BY <1>0, <2>a, <1>4, UndoStarts, RecordFacts DEF OwnRecord, IsRegister, IsBytes, StartUndo
  <2>c. run[i].pc \in OwnSteps => run[i].kind # "watch"
    BY <1>0, <2>a, <2>b, RecordFacts DEF OwnRecord, IsBytes, OwnSteps
  <2>d. run[i].pc \in OwnSteps => [run[i].rec EXCEPT !.status = "undone"].status = "undone"
    BY <1>0, <2>c, UndoneFacts DEF OwnRecord
  <2>h. run[i].pc \in OwnSteps =>
           journal[i] \in {NoRecord, Torn, run[i].rec, [run[i].rec EXCEPT !.status = "undone"]}
    BY <1>0, <2>b, <2>c DEF OwnRecord, OwnSteps
  <2>e. run[i].pc \in OwnSteps => run[i].rec = run'[r].rec
    BY <2>a, <2>d, <2>h, RecordFacts
  <2>f. ~IsRegister(run[r].id)'
    BY <2>0, <2>b DEF IsRegister
  <2>g. Matched(run[r].rec)'
    BY <2>a DEF Matched
  <2>1. UndoRecord(r)'
    BY <2>0, <2>a, <2>b, <2>c, <2>e, <2>f, <2>g DEF UndoRecord
  <2>2. \A q \in PatchRuns : q # r => run'[q] = run[q]
    BY <1>0, <1>4, UndoStarts DEF StartUndo, Steps
  <2>3. \A q \in PatchRuns : Moves(q)
    BY <1>0, <2>2, <1>4, UndoStarts DEF StartUndo, Moves, OwnSteps, UndoSteps, Steps, Ended
  <2>4. \A q \in PatchRuns : IsRegister(q)' => IsRegister(q) \/ run[q].pc = "recording"
    BY <1>0, <1>4, UndoStarts DEF StartUndo, IsRegister, Types
  <2> QED
    BY <1>0, <2>1, <2>2, <2>3, <2>4, UndoFrame
<1>5. ASSUME NEW r \in PatchRuns, OpenRecord(r) PROVE \A q \in PatchRuns : UndoRecord(q)'
  <2>1. UndoRecord(r)'
    BY <1>0, <1>5, GoesFacts DEF UndoRecord, OpenRecord, UndoSteps, Steps, Ended, Types
  <2>2. \A q \in PatchRuns : q # r => run'[q] = run[q]
    BY <1>0, <1>5, GoesFacts DEF OpenRecord, Steps
  <2>3. \A i \in PatchRuns : Moves(i)
    BY <1>0, <2>2, <1>5, GoesFacts DEF OpenRecord, Moves, OwnSteps, UndoSteps, Steps, Ended, OwnRecord
  <2>4. \A i \in PatchRuns : IsRegister(i)' => IsRegister(i) \/ run[i].pc = "recording"
    BY <1>0, <1>5, GoesFacts, RecordFacts DEF OpenRecord, IsRegister, Types
  <2> QED
    BY <1>0, <2>1, <2>2, <2>3, <2>4, UndoFrame
<1>6. ASSUME NEW r \in PatchRuns, FinishRecord(r) PROVE \A q \in PatchRuns : UndoRecord(q)'
  <2>1. UndoRecord(r)'
    BY <1>0, <1>6, GoesFacts DEF UndoRecord, FinishRecord, UndoSteps, Steps, Ended, Types
  <2>2. \A q \in PatchRuns : q # r => run'[q] = run[q]
    BY <1>0, <1>6, GoesFacts DEF FinishRecord, Steps
  <2>3. \A i \in PatchRuns : Moves(i)
    BY <1>0, <2>2, <1>6, GoesFacts DEF FinishRecord, Moves, OwnSteps, UndoSteps, Steps, Ended, OwnRecord
  <2>4. \A i \in PatchRuns : IsRegister(i)' => IsRegister(i) \/ run[i].pc = "recording"
    BY <1>0, <1>6, GoesFacts DEF FinishRecord, IsRegister, Types
  <2> QED
    BY <1>0, <2>1, <2>2, <2>3, <2>4, UndoFrame
<1>7. ASSUME NEW r \in PatchRuns, WriteTarget(r) PROVE \A q \in PatchRuns : UndoRecord(q)'
  <2>1. UndoRecord(r)'
    BY <1>0, <1>7, GoesFacts DEF UndoRecord, WriteTarget, UndoSteps, Steps, Ended, Types
  <2>2. \A q \in PatchRuns : q # r => run'[q] = run[q]
    BY <1>0, <1>7, GoesFacts DEF WriteTarget, Steps
  <2>3. \A i \in PatchRuns : Moves(i)
    BY <1>0, <2>2, <1>7, GoesFacts DEF WriteTarget, Moves, OwnSteps, UndoSteps, Steps, Ended, OwnRecord
  <2>4. \A i \in PatchRuns : IsRegister(i)' => IsRegister(i) \/ run[i].pc = "recording"
    BY <1>0, <1>7, GoesFacts DEF WriteTarget, IsRegister, Types
  <2> QED
    BY <1>0, <2>1, <2>2, <2>3, <2>4, UndoFrame
<1>8. ASSUME NEW r \in PatchRuns, TakeBack(r) PROVE \A q \in PatchRuns : UndoRecord(q)'
  <2>1. UndoRecord(r)'
    BY <1>0, <1>8, GoesFacts DEF UndoRecord, TakeBack, UndoSteps, Steps, Ended, Types
  <2>2. \A q \in PatchRuns : q # r => run'[q] = run[q]
    BY <1>0, <1>8, GoesFacts DEF TakeBack, Steps
  <2>3. \A i \in PatchRuns : Moves(i)
    BY <1>0, <2>2, <1>8, GoesFacts DEF TakeBack, Moves, OwnSteps, UndoSteps, Steps, Ended, OwnRecord
  <2>4. \A i \in PatchRuns : IsRegister(i)' => IsRegister(i) \/ run[i].pc = "recording"
    BY <1>0, <1>8, GoesFacts DEF TakeBack, IsRegister, Types
  <2> QED
    BY <1>0, <2>1, <2>2, <2>3, <2>4, UndoFrame
<1>9. ASSUME NEW r \in PatchRuns, RestoreByte(r) PROVE \A q \in PatchRuns : UndoRecord(q)'
  <2>1. UndoRecord(r)'
    BY <1>0, <1>9, GoesFacts DEF UndoRecord, RestoreByte, UndoSteps, Steps, Ended, Types
  <2>2. \A q \in PatchRuns : q # r => run'[q] = run[q]
    BY <1>0, <1>9, GoesFacts DEF RestoreByte, Steps
  <2>3. \A i \in PatchRuns : Moves(i)
    BY <1>0, <2>2, <1>9, GoesFacts DEF RestoreByte, Moves, OwnSteps, UndoSteps, Steps, Ended, OwnRecord
  <2>4. \A i \in PatchRuns : IsRegister(i)' => IsRegister(i) \/ run[i].pc = "recording"
    BY <1>0, <1>9, GoesFacts DEF RestoreByte, IsRegister, Types
  <2> QED
    BY <1>0, <2>1, <2>2, <2>3, <2>4, UndoFrame
<1>10. ASSUME NEW r \in PatchRuns, Arm(r) PROVE \A q \in PatchRuns : UndoRecord(q)'
  <2>1. UndoRecord(r)'
    BY <1>0, <1>10, GoesFacts DEF UndoRecord, Arm, UndoSteps, Steps, Ended, Types
  <2>2. \A q \in PatchRuns : q # r => run'[q] = run[q]
    BY <1>0, <1>10, GoesFacts DEF Arm, Steps
  <2>3. \A i \in PatchRuns : Moves(i)
    BY <1>0, <2>2, <1>10, GoesFacts DEF Arm, Moves, OwnSteps, UndoSteps, Steps, Ended, OwnRecord
  <2>4. \A i \in PatchRuns : IsRegister(i)' => IsRegister(i) \/ run[i].pc = "recording"
    BY <1>0, <1>10, GoesFacts DEF Arm, IsRegister, Types
  <2> QED
    BY <1>0, <2>1, <2>2, <2>3, <2>4, UndoFrame
<1>11. ASSUME NEW r \in PatchRuns, Disarm(r) PROVE \A q \in PatchRuns : UndoRecord(q)'
  <2>1. UndoRecord(r)'
    BY <1>0, <1>11, GoesFacts DEF UndoRecord, Disarm, UndoSteps, Steps, Ended, Types
  <2>2. \A q \in PatchRuns : q # r => run'[q] = run[q]
    BY <1>0, <1>11, GoesFacts DEF Disarm, Steps
  <2>3. \A i \in PatchRuns : Moves(i)
    BY <1>0, <2>2, <1>11, GoesFacts DEF Disarm, Moves, OwnSteps, UndoSteps, Steps, Ended, OwnRecord
  <2>4. \A i \in PatchRuns : IsRegister(i)' => IsRegister(i) \/ run[i].pc = "recording"
    BY <1>0, <1>11, GoesFacts DEF Disarm, IsRegister, Types
  <2> QED
    BY <1>0, <2>1, <2>2, <2>3, <2>4, UndoFrame
<1>12. ASSUME NEW r \in PatchRuns, SettlePlanted(r) PROVE \A q \in PatchRuns : UndoRecord(q)'
  <2>1. UndoRecord(r)'
    BY <1>0, <1>12, GoesFacts DEF UndoRecord, SettlePlanted, UndoSteps, Steps, Ended, Types
  <2>2. \A q \in PatchRuns : q # r => run'[q] = run[q]
    BY <1>0, <1>12, GoesFacts DEF SettlePlanted, Steps
  <2>3. \A i \in PatchRuns : Moves(i)
    BY <1>0, <2>2, <1>12, GoesFacts DEF SettlePlanted, Moves, OwnSteps, UndoSteps, Steps, Ended, OwnRecord
  <2>4. \A i \in PatchRuns : IsRegister(i)' => IsRegister(i) \/ run[i].pc = "recording"
    BY <1>0, <1>12, GoesFacts DEF SettlePlanted, IsRegister, Types
  <2> QED
    BY <1>0, <2>1, <2>2, <2>3, <2>4, UndoFrame
<1>13. ASSUME NEW r \in PatchRuns, SettleArmed(r) PROVE \A q \in PatchRuns : UndoRecord(q)'
  <2>1. UndoRecord(r)'
    BY <1>0, <1>13, GoesFacts DEF UndoRecord, SettleArmed, UndoSteps, Steps, Ended, Types
  <2>2. \A q \in PatchRuns : q # r => run'[q] = run[q]
    BY <1>0, <1>13, GoesFacts DEF SettleArmed, Steps
  <2>3. \A i \in PatchRuns : Moves(i)
    BY <1>0, <2>2, <1>13, GoesFacts DEF SettleArmed, Moves, OwnSteps, UndoSteps, Steps, Ended, OwnRecord
  <2>4. \A i \in PatchRuns : IsRegister(i)' => IsRegister(i) \/ run[i].pc = "recording"
    BY <1>0, <1>13, GoesFacts DEF SettleArmed, IsRegister, Types
  <2> QED
    BY <1>0, <2>1, <2>2, <2>3, <2>4, UndoFrame
<1>14. ASSUME NEW r \in PatchRuns, UndoWrite(r) PROVE \A q \in PatchRuns : UndoRecord(q)'
  <2>0. PICK i \in PatchRuns : i = run[r].id
    BY <1>0, <1>14 DEF UndoRecord, UndoWrite, UndoSteps
  <2>a. /\ run[r].kind = "undo" /\ run[r].rec \in PatchRecords /\ Matched(run[r].rec)
        /\ run[r].rec.status = "applied" /\ ~IsRegister(i) /\ run[i].pc \notin {"idle", "recording"}
        /\ run[i].pc \in OwnSteps => run[i].kind # "watch" /\ run[i].rec = run[r].rec
    BY <1>0, <2>0, <1>14 DEF UndoRecord, UndoWrite, UndoSteps
  <2>2. \A q \in PatchRuns : q # r => run'[q] = run[q]
    BY <1>0, <1>14, GoesFacts DEF UndoWrite, Steps
  <2>b. run'[r].pc \in {"done"} \cup UndoSteps /\ (run'[r].pc # "done" => run'[r].kind = "undo"
        /\ run'[r].id = i /\ run'[r].rec = run[r].rec)
    BY <1>0, <2>0, <2>a, <1>14, GoesFacts DEF UndoWrite, Steps, UndoSteps, Ended
  <2>3. \A j \in PatchRuns : Moves(j)
    BY <2>2, <2>b DEF Moves
  <2>c. ~IsRegister(i)'
    BY <1>0, <2>0, <2>a, <1>14, RecordFacts, UndoneFacts DEF UndoWrite, IsRegister, Types
  <2>4. \A j \in PatchRuns : IsRegister(j)' => IsRegister(j) \/ run[j].pc = "recording"
    BY <1>0, <2>0, <2>c, <1>14 DEF UndoWrite, IsRegister, Types
  <2>d. run'[i].pc \notin {"idle", "recording"}
        /\ (run'[i].pc \in OwnSteps => run'[i].kind # "watch" /\ run'[i].rec = run[r].rec)
    BY <2>2, <2>a, <2>b DEF OwnSteps, UndoSteps
  <2>e. run'[r].pc # "done" => ~IsRegister(run[r].id)'
    BY <2>b, <2>c DEF IsRegister
  <2>f. run'[r].pc # "done" => Matched(run[r].rec)'
    BY <2>a, <2>b DEF Matched
  <2>1. UndoRecord(r)'
    BY <2>0, <2>a, <2>b, <2>d, <2>e, <2>f DEF UndoRecord, UndoSteps
  <2> QED
    BY <1>0, <2>1, <2>2, <2>3, <2>4, UndoFrame
<1>15. ASSUME NEW r \in PatchRuns, UndoSave(r) PROVE \A q \in PatchRuns : UndoRecord(q)'
  <2>0. PICK i \in PatchRuns : i = run[r].id
    BY <1>0, <1>15 DEF UndoRecord, UndoSave, UndoSteps
  <2>a. /\ run[r].kind = "undo" /\ run[r].rec \in PatchRecords /\ Matched(run[r].rec)
        /\ run[r].rec.status = "applied" /\ ~IsRegister(i) /\ run[i].pc \notin {"idle", "recording"}
        /\ run[i].pc \in OwnSteps => run[i].kind # "watch" /\ run[i].rec = run[r].rec
    BY <1>0, <2>0, <1>15 DEF UndoRecord, UndoSave, UndoSteps
  <2>2. \A q \in PatchRuns : q # r => run'[q] = run[q]
    BY <1>0, <1>15, GoesFacts DEF UndoSave, Steps
  <2>b. run'[r].pc \in {"done"} \cup UndoSteps /\ (run'[r].pc # "done" => run'[r].kind = "undo"
        /\ run'[r].id = i /\ run'[r].rec = run[r].rec)
    BY <1>0, <2>0, <2>a, <1>15, GoesFacts DEF UndoSave, Steps, UndoSteps, Ended
  <2>3. \A j \in PatchRuns : Moves(j)
    BY <2>2, <2>b DEF Moves
  <2>c. ~IsRegister(i)'
    BY <1>0, <2>0, <2>a, <1>15, RecordFacts, UndoneFacts DEF UndoSave, IsRegister, Types
  <2>4. \A j \in PatchRuns : IsRegister(j)' => IsRegister(j) \/ run[j].pc = "recording"
    BY <1>0, <2>0, <2>c, <1>15 DEF UndoSave, IsRegister, Types
  <2>d. run'[i].pc \notin {"idle", "recording"}
        /\ (run'[i].pc \in OwnSteps => run'[i].kind # "watch" /\ run'[i].rec = run[r].rec)
    BY <2>2, <2>a, <2>b DEF OwnSteps, UndoSteps
  <2>e. run'[r].pc # "done" => ~IsRegister(run[r].id)'
    BY <2>b, <2>c DEF IsRegister
  <2>f. run'[r].pc # "done" => Matched(run[r].rec)'
    BY <2>a, <2>b DEF Matched
  <2>1. UndoRecord(r)'
    BY <2>0, <2>a, <2>b, <2>d, <2>e, <2>f DEF UndoRecord, UndoSteps
  <2> QED
    BY <1>0, <2>1, <2>2, <2>3, <2>4, UndoFrame
<1>16. ASSUME NEW r \in PatchRuns, UndoWatch(r) PROVE \A q \in PatchRuns : UndoRecord(q)'
  <2>1. UndoRecord(r)'
    BY <1>0, <1>16, WatchUndone DEF UndoRecord, UndoSteps
  <2>2. \A q \in PatchRuns : q # r => run'[q] = run[q]
    BY <1>0, <1>16, WatchUndone, RecordFacts DEF UndoWatch, Steps
  <2>3. \A i \in PatchRuns : Moves(i)
    BY <1>0, <2>2, <1>16, WatchUndone, RecordFacts DEF UndoWatch, Moves, OwnSteps, UndoSteps, Steps, Ended
  <2>4. \A i \in PatchRuns : IsRegister(i)' => IsRegister(i) \/ run[i].pc = "recording"
    BY <1>0, <1>16, WatchUndone, RecordFacts DEF UndoWatch, IsRegister, Types
  <2> QED
    BY <1>0, <2>1, <2>2, <2>3, <2>4, UndoFrame
<1>17. ASSUME NEW r \in PatchRuns, KillRun(r) PROVE \A q \in PatchRuns : UndoRecord(q)'
  <2>1. UndoRecord(r)'
    BY <1>0, <1>17, GoesFacts DEF UndoRecord, KillRun, UndoSteps, Steps, Ended, Types
  <2>2. \A q \in PatchRuns : q # r => run'[q] = run[q]
    BY <1>0, <1>17, GoesFacts DEF KillRun, Steps
  <2>3. \A i \in PatchRuns : Moves(i)
    BY <1>0, <2>2, <1>17, GoesFacts DEF KillRun, Moves, OwnSteps, UndoSteps, Steps, Ended, OwnRecord
  <2>4. \A i \in PatchRuns : IsRegister(i)' => IsRegister(i) \/ run[i].pc = "recording"
    BY <1>0, <1>17, GoesFacts DEF KillRun, IsRegister, Types
  <2> QED
    BY <1>0, <2>1, <2>2, <2>3, <2>4, UndoFrame
<1>18. CASE TargetExits
  BY <1>0, <1>18, UndoFrame DEF TargetExits, Moves, IsRegister
<1>19. CASE UNCHANGED patchVars
  BY <1>0, <1>19, UndoFrame DEF patchVars, Moves, IsRegister
<1> QED
  BY <1>1, <1>2, <1>3, <1>4, <1>5, <1>6, <1>7, <1>8, <1>9, <1>10, <1>11, <1>12, <1>13, <1>14, <1>15, <1>16, <1>17, <1>18, <1>19 DEF PatchNext

\* Every record of bytes covers the same addresses before and after.
LEMMA MatchedStep ==
    ASSUME JournalInv, [PatchNext]_patchVars
    PROVE  \A i \in PatchRuns : IsBytes(i)' => Matched(journal'[i])
<1>0. /\ Types /\ \A r \in PatchRuns : OwnRecord(r) /\ UndoRecord(r)
      /\ \A i \in PatchRuns : IsBytes(i) => Matched(journal[i])
      /\ \A r, q \in PatchRuns : Tracing(r) /\ Tracing(q) => r = q
      /\ RegisterInv
  BY DEF JournalInv
<1>1. ASSUME NEW r \in PatchRuns, StartApply(r) PROVE \A i \in PatchRuns : IsBytes(i)' => Matched(journal'[i])
  BY <1>0, <1>1 DEF StartApply, IsBytes, Types
<1>2. ASSUME NEW r \in PatchRuns, StartPlant(r) PROVE \A i \in PatchRuns : IsBytes(i)' => Matched(journal'[i])
  BY <1>0, <1>2 DEF StartPlant, IsBytes, Types
<1>3. ASSUME NEW r \in PatchRuns, StartWatch(r) PROVE \A i \in PatchRuns : IsBytes(i)' => Matched(journal'[i])
  BY <1>0, <1>3 DEF StartWatch, IsBytes, Types
<1>4. ASSUME NEW r \in PatchRuns, StartUndo(r) PROVE \A i \in PatchRuns : IsBytes(i)' => Matched(journal'[i])
  BY <1>0, <1>4 DEF StartUndo, IsBytes, Types
<1>5. ASSUME NEW r \in PatchRuns, OpenRecord(r) PROVE \A i \in PatchRuns : IsBytes(i)' => Matched(journal'[i])
  BY <1>0, <1>5 DEF OpenRecord, IsBytes, Types
<1>6. ASSUME NEW r \in PatchRuns, FinishRecord(r) PROVE \A i \in PatchRuns : IsBytes(i)' => Matched(journal'[i])
  <2>1. run[r].rec \in PatchRecords => Matched(run[r].rec)
    BY <1>0, <1>6, RecordFacts DEF FinishRecord, OwnRecord, OwnSteps
  <2>2. run[r].rec \in Records
    BY <1>0, <1>6, RecordFacts DEF FinishRecord, OwnRecord, OwnSteps
  <2>3. run[r].rec.what = "bytes" => Matched(run[r].rec)
    BY <2>1, <2>2, RecordFacts DEF Records
  <2> QED
    BY <1>0, <2>3, <1>6 DEF FinishRecord, IsBytes, Types
<1>7. ASSUME NEW r \in PatchRuns, WriteTarget(r) PROVE \A i \in PatchRuns : IsBytes(i)' => Matched(journal'[i])
  BY <1>0, <1>7 DEF WriteTarget, IsBytes, Types
<1>8. ASSUME NEW r \in PatchRuns, TakeBack(r) PROVE \A i \in PatchRuns : IsBytes(i)' => Matched(journal'[i])
  BY <1>0, <1>8 DEF TakeBack, IsBytes, Types
<1>9. ASSUME NEW r \in PatchRuns, RestoreByte(r) PROVE \A i \in PatchRuns : IsBytes(i)' => Matched(journal'[i])
  BY <1>0, <1>9 DEF RestoreByte, IsBytes, Types
<1>10. ASSUME NEW r \in PatchRuns, Arm(r) PROVE \A i \in PatchRuns : IsBytes(i)' => Matched(journal'[i])
  BY <1>0, <1>10 DEF Arm, IsBytes, Types
<1>11. ASSUME NEW r \in PatchRuns, Disarm(r) PROVE \A i \in PatchRuns : IsBytes(i)' => Matched(journal'[i])
  BY <1>0, <1>11 DEF Disarm, IsBytes, Types
<1>12. ASSUME NEW r \in PatchRuns, SettlePlanted(r) PROVE \A i \in PatchRuns : IsBytes(i)' => Matched(journal'[i])
  BY <1>0, <1>12 DEF SettlePlanted, IsBytes, Types
<1>13. ASSUME NEW r \in PatchRuns, SettleArmed(r) PROVE \A i \in PatchRuns : IsBytes(i)' => Matched(journal'[i])
  BY <1>0, <1>13 DEF SettleArmed, IsBytes, Types
<1>14. ASSUME NEW r \in PatchRuns, UndoWrite(r) PROVE \A i \in PatchRuns : IsBytes(i)' => Matched(journal'[i])
  BY <1>0, <1>14 DEF UndoWrite, IsBytes, Types
<1>15. ASSUME NEW r \in PatchRuns, UndoSave(r) PROVE \A i \in PatchRuns : IsBytes(i)' => Matched(journal'[i])
  <2>1. run[r].rec \in PatchRecords /\ Matched(run[r].rec)
    BY <1>0, <1>15 DEF UndoRecord, UndoSave, UndoSteps
  <2>2. Matched([run[r].rec EXCEPT !.status = "undone"])
    BY <2>1, UndoneFacts DEF Matched
  <2> QED
    BY <1>0, <2>2, <1>15 DEF UndoSave, IsBytes, Types
<1>16. ASSUME NEW r \in PatchRuns, UndoWatch(r) PROVE \A i \in PatchRuns : IsBytes(i)' => Matched(journal'[i])
  BY <1>0, <1>16 DEF UndoWatch, IsBytes, Types
<1>17. ASSUME NEW r \in PatchRuns, KillRun(r) PROVE \A i \in PatchRuns : IsBytes(i)' => Matched(journal'[i])
  BY <1>0, <1>17 DEF KillRun, IsBytes, Types
<1>18. CASE TargetExits
  BY <1>0, <1>18 DEF TargetExits, IsBytes, Types
<1>19. CASE UNCHANGED patchVars
  BY <1>0, <1>19 DEF patchVars, IsBytes, Types
<1> QED
  BY <1>1, <1>2, <1>3, <1>4, <1>5, <1>6, <1>7, <1>8, <1>9, <1>10, <1>11, <1>12, <1>13, <1>14, <1>15, <1>16, <1>17, <1>18, <1>19 DEF PatchNext

\* One session at a time has the seat of the tracer.
LEMMA TracerStep ==
    ASSUME JournalInv, [PatchNext]_patchVars
    PROVE  \A q, s \in PatchRuns : Tracing(q)' /\ Tracing(s)' => q = s
<1>0. /\ Types /\ \A r \in PatchRuns : OwnRecord(r) /\ UndoRecord(r)
      /\ \A i \in PatchRuns : IsBytes(i) => Matched(journal[i])
      /\ \A r, q \in PatchRuns : Tracing(r) /\ Tracing(q) => r = q
      /\ RegisterInv
  BY DEF JournalInv
<1>1. ASSUME NEW r \in PatchRuns, StartApply(r) PROVE \A q, s \in PatchRuns : Tracing(q)' /\ Tracing(s)' => q = s
  <2>1. \A q \in PatchRuns : q # r => run'[q] = run[q]
    BY <1>0, <1>1, ApplyStarts, ZenonT(60)
  <2> QED
    BY <1>0, <2>1, <1>1, ApplyStarts DEF StartApply, Tracing, Traced, Ended
<1>2. ASSUME NEW r \in PatchRuns, StartPlant(r) PROVE \A q, s \in PatchRuns : Tracing(q)' /\ Tracing(s)' => q = s
  <2>1. \A q \in PatchRuns : q # r => run'[q] = run[q]
    BY <1>0, <1>2, PlantStarts, ZenonT(60)
  <2> QED
    BY <1>0, <2>1, <1>2, PlantStarts DEF StartPlant, Tracing, Traced, Ended
<1>3. ASSUME NEW r \in PatchRuns, StartWatch(r) PROVE \A q, s \in PatchRuns : Tracing(q)' /\ Tracing(s)' => q = s
  <2>1. \A q \in PatchRuns : q # r => run'[q] = run[q]
    BY <1>0, <1>3, WatchStarts
  <2> QED
    BY <1>0, <2>1, <1>3, WatchStarts DEF StartWatch, Tracing, Traced, Ended
<1>4. ASSUME NEW r \in PatchRuns, StartUndo(r) PROVE \A q, s \in PatchRuns : Tracing(q)' /\ Tracing(s)' => q = s
  <2>1. \A q \in PatchRuns : q # r => run'[q] = run[q]
    BY <1>0, <1>4, UndoStarts
  <2> QED
    BY <1>0, <2>1, <1>4, UndoStarts DEF StartUndo, Tracing, Traced, Ended
<1>5. ASSUME NEW r \in PatchRuns, OpenRecord(r) PROVE \A q, s \in PatchRuns : Tracing(q)' /\ Tracing(s)' => q = s
  <2>1. /\ \A q \in PatchRuns : q # r => run'[q] = run[q]
        /\ Tracing(r)' => Tracing(r)
    BY <1>0, <1>5, GoesFacts DEF OpenRecord, Steps, Ended, Tracing
  <2> QED
    BY <1>0, <2>1 DEF Tracing
<1>6. ASSUME NEW r \in PatchRuns, FinishRecord(r) PROVE \A q, s \in PatchRuns : Tracing(q)' /\ Tracing(s)' => q = s
  <2>1. /\ \A q \in PatchRuns : q # r => run'[q] = run[q]
        /\ Tracing(r)' => Tracing(r)
    BY <1>0, <1>6, GoesFacts DEF FinishRecord, Steps, Ended, Tracing
  <2> QED
    BY <1>0, <2>1 DEF Tracing
<1>7. ASSUME NEW r \in PatchRuns, WriteTarget(r) PROVE \A q, s \in PatchRuns : Tracing(q)' /\ Tracing(s)' => q = s
  <2>1. /\ \A q \in PatchRuns : q # r => run'[q] = run[q]
        /\ Tracing(r)' => Tracing(r)
    BY <1>0, <1>7, GoesFacts DEF WriteTarget, Steps, Ended, Tracing
  <2> QED
    BY <1>0, <2>1 DEF Tracing
<1>8. ASSUME NEW r \in PatchRuns, TakeBack(r) PROVE \A q, s \in PatchRuns : Tracing(q)' /\ Tracing(s)' => q = s
  <2>1. /\ \A q \in PatchRuns : q # r => run'[q] = run[q]
        /\ Tracing(r)' => Tracing(r)
    BY <1>0, <1>8, GoesFacts DEF TakeBack, Steps, Ended, Tracing
  <2> QED
    BY <1>0, <2>1 DEF Tracing
<1>9. ASSUME NEW r \in PatchRuns, RestoreByte(r) PROVE \A q, s \in PatchRuns : Tracing(q)' /\ Tracing(s)' => q = s
  <2>1. /\ \A q \in PatchRuns : q # r => run'[q] = run[q]
        /\ Tracing(r)' => Tracing(r)
    BY <1>0, <1>9, GoesFacts DEF RestoreByte, Steps, Ended, Tracing
  <2> QED
    BY <1>0, <2>1 DEF Tracing
<1>10. ASSUME NEW r \in PatchRuns, Arm(r) PROVE \A q, s \in PatchRuns : Tracing(q)' /\ Tracing(s)' => q = s
  <2>1. /\ \A q \in PatchRuns : q # r => run'[q] = run[q]
        /\ Tracing(r)' => Tracing(r)
    BY <1>0, <1>10, GoesFacts DEF Arm, Steps, Ended, Tracing
  <2> QED
    BY <1>0, <2>1 DEF Tracing
<1>11. ASSUME NEW r \in PatchRuns, Disarm(r) PROVE \A q, s \in PatchRuns : Tracing(q)' /\ Tracing(s)' => q = s
  <2>1. /\ \A q \in PatchRuns : q # r => run'[q] = run[q]
        /\ Tracing(r)' => Tracing(r)
    BY <1>0, <1>11, GoesFacts DEF Disarm, Steps, Ended, Tracing
  <2> QED
    BY <1>0, <2>1 DEF Tracing
<1>12. ASSUME NEW r \in PatchRuns, SettlePlanted(r) PROVE \A q, s \in PatchRuns : Tracing(q)' /\ Tracing(s)' => q = s
  <2>1. /\ \A q \in PatchRuns : q # r => run'[q] = run[q]
        /\ Tracing(r)' => Tracing(r)
    BY <1>0, <1>12, GoesFacts DEF SettlePlanted, Steps, Ended, Tracing
  <2> QED
    BY <1>0, <2>1 DEF Tracing
<1>13. ASSUME NEW r \in PatchRuns, SettleArmed(r) PROVE \A q, s \in PatchRuns : Tracing(q)' /\ Tracing(s)' => q = s
  <2>1. /\ \A q \in PatchRuns : q # r => run'[q] = run[q]
        /\ Tracing(r)' => Tracing(r)
    BY <1>0, <1>13, GoesFacts DEF SettleArmed, Steps, Ended, Tracing
  <2> QED
    BY <1>0, <2>1 DEF Tracing
<1>14. ASSUME NEW r \in PatchRuns, UndoWrite(r) PROVE \A q, s \in PatchRuns : Tracing(q)' /\ Tracing(s)' => q = s
  <2>1. /\ \A q \in PatchRuns : q # r => run'[q] = run[q]
        /\ Tracing(r)' => Tracing(r)
    BY <1>0, <1>14, GoesFacts DEF UndoWrite, Steps, Ended, Tracing
  <2> QED
    BY <1>0, <2>1 DEF Tracing
<1>15. ASSUME NEW r \in PatchRuns, UndoSave(r) PROVE \A q, s \in PatchRuns : Tracing(q)' /\ Tracing(s)' => q = s
  <2>1. /\ \A q \in PatchRuns : q # r => run'[q] = run[q]
        /\ Tracing(r)' => Tracing(r)
    BY <1>0, <1>15, GoesFacts DEF UndoSave, Steps, Ended, Tracing
  <2> QED
    BY <1>0, <2>1 DEF Tracing
<1>16. ASSUME NEW r \in PatchRuns, UndoWatch(r) PROVE \A q, s \in PatchRuns : Tracing(q)' /\ Tracing(s)' => q = s
  <2>1. run'[r].pc \in Ended /\ \A q \in PatchRuns : q # r => run'[q] = run[q]
    BY <1>0, <1>16, WatchUndone DEF Ended
  <2> QED
    BY <1>0, <2>1 DEF Tracing
<1>17. ASSUME NEW r \in PatchRuns, KillRun(r) PROVE \A q, s \in PatchRuns : Tracing(q)' /\ Tracing(s)' => q = s
  <2>1. /\ \A q \in PatchRuns : q # r => run'[q] = run[q]
        /\ Tracing(r)' => Tracing(r)
    BY <1>0, <1>17, GoesFacts DEF KillRun, Steps, Ended, Tracing
  <2> QED
    BY <1>0, <2>1 DEF Tracing
<1>18. CASE TargetExits
  BY <1>0, <1>18 DEF TargetExits, Tracing
<1>19. CASE UNCHANGED patchVars
  BY <1>0, <1>19 DEF patchVars, Tracing
<1> QED
  BY <1>1, <1>2, <1>3, <1>4, <1>5, <1>6, <1>7, <1>8, <1>9, <1>10, <1>11, <1>12, <1>13, <1>14, <1>15, <1>16, <1>17, <1>18, <1>19 DEF PatchNext

\* A record of a register leaves the journal only of a target that is gone, or
\* when no thread holds its slot and no session has the registers.
RecordStays(i) ==
    \/ IsRegister(i)' /\ journal'[i].slot = journal[i].slot
    \/ gone'
    \/ ~Traced /\ \A t \in TargetThreads : regs'[t] = NoRecord \/ regs'[t].slot # journal[i].slot

LEMMA RegisterStep ==
    ASSUME JournalInv, [PatchNext]_patchVars
    PROVE  \A i \in PatchRuns : IsRegister(i) => RecordStays(i)
<1>0. Types /\ \A r \in PatchRuns : OwnRecord(r) /\ UndoRecord(r)
  BY DEF JournalInv
<1>1. ASSUME NEW r \in PatchRuns, StartApply(r) PROVE \A i \in PatchRuns : IsRegister(i) => RecordStays(i)
  BY <1>1 DEF StartApply, IsRegister, RecordStays
<1>2. ASSUME NEW r \in PatchRuns, StartPlant(r) PROVE \A i \in PatchRuns : IsRegister(i) => RecordStays(i)
  BY <1>2 DEF StartPlant, IsRegister, RecordStays
<1>3. ASSUME NEW r \in PatchRuns, StartWatch(r) PROVE \A i \in PatchRuns : IsRegister(i) => RecordStays(i)
  BY <1>3 DEF StartWatch, IsRegister, RecordStays
<1>4. ASSUME NEW r \in PatchRuns, StartUndo(r) PROVE \A i \in PatchRuns : IsRegister(i) => RecordStays(i)
  BY <1>4 DEF StartUndo, IsRegister, RecordStays
<1>5. ASSUME NEW r \in PatchRuns, OpenRecord(r) PROVE \A i \in PatchRuns : IsRegister(i) => RecordStays(i)
  BY <1>0, <1>5 DEF OpenRecord, IsRegister, RecordStays, Types
<1>6. ASSUME NEW r \in PatchRuns, FinishRecord(r) PROVE \A i \in PatchRuns : IsRegister(i) => RecordStays(i)
  BY <1>0, <1>6 DEF FinishRecord, IsRegister, RecordStays, Types
<1>7. ASSUME NEW r \in PatchRuns, WriteTarget(r) PROVE \A i \in PatchRuns : IsRegister(i) => RecordStays(i)
  BY <1>7 DEF WriteTarget, IsRegister, RecordStays
<1>8. ASSUME NEW r \in PatchRuns, TakeBack(r) PROVE \A i \in PatchRuns : IsRegister(i) => RecordStays(i)
  <2>1. run[r].rec \in PatchRecords /\ run[r].kind # "watch" /\ run[r].pc \in OwnSteps \ {"recording"}
    BY <1>0, <1>8 DEF TakeBack, OwnRecord, OwnSteps
  <2>2. journal[r] \in {NoRecord, Torn, run[r].rec, [run[r].rec EXCEPT !.status = "undone"]}
    BY <1>0, <2>1 DEF OwnRecord
  <2>3. ~IsRegister(r)
    BY <2>1, <2>2, RecordFacts, UndoneFacts DEF IsRegister
  <2> QED
    BY <1>0, <2>3, <1>8 DEF TakeBack, IsRegister, RecordStays, Types
<1>9. ASSUME NEW r \in PatchRuns, RestoreByte(r) PROVE \A i \in PatchRuns : IsRegister(i) => RecordStays(i)
  BY <1>9 DEF RestoreByte, IsRegister, RecordStays
<1>10. ASSUME NEW r \in PatchRuns, Arm(r) PROVE \A i \in PatchRuns : IsRegister(i) => RecordStays(i)
  BY <1>10 DEF Arm, IsRegister, RecordStays
<1>11. ASSUME NEW r \in PatchRuns, Disarm(r) PROVE \A i \in PatchRuns : IsRegister(i) => RecordStays(i)
  BY <1>11 DEF Disarm, IsRegister, RecordStays
<1>12. ASSUME NEW r \in PatchRuns, SettlePlanted(r) PROVE \A i \in PatchRuns : IsRegister(i) => RecordStays(i)
  <2>1. run[r].rec \in PatchRecords /\ run[r].kind # "watch" /\ run[r].pc \in OwnSteps \ {"recording"}
    BY <1>0, <1>12 DEF SettlePlanted, OwnRecord, OwnSteps
  <2>2. journal[r] \in {NoRecord, Torn, run[r].rec, [run[r].rec EXCEPT !.status = "undone"]}
    BY <1>0, <2>1 DEF OwnRecord
  <2>3. ~IsRegister(r)
    BY <2>1, <2>2, RecordFacts, UndoneFacts DEF IsRegister
  <2> QED
    BY <1>0, <2>3, <1>12 DEF SettlePlanted, IsRegister, RecordStays, Types
<1>13. ASSUME NEW r \in PatchRuns, SettleArmed(r) PROVE \A i \in PatchRuns : IsRegister(i) => RecordStays(i)
  <2>1. PICK unread \in SUBSET TargetThreads :
           journal' = IF (Traced => gone) /\ Clear(unread, Holding(run[r].rec.slot) \ unread)
                      THEN [journal EXCEPT ![r] = NoRecord] ELSE journal
    BY <1>13 DEF SettleArmed
  <2>2. gone' = gone /\ regs' = regs /\ (IsRegister(r) => journal[r] = run[r].rec)
    BY <1>0, <1>13 DEF SettleArmed, OwnRecord, OwnSteps, IsRegister
  <2>3. CASE ~gone /\ ~Traced /\ Clear(unread, Holding(run[r].rec.slot) \ unread)
    <3>1. Holding(run[r].rec.slot) = {}
      BY <2>3 DEF Clear
    <3> QED
      BY <1>0, <2>1, <2>2, <2>3, <3>1 DEF Holding, IsRegister, RecordStays, Types
  <2>4. CASE gone
    BY <2>2, <2>4 DEF RecordStays
  <2>5. CASE journal' = journal
    BY <2>5 DEF IsRegister, RecordStays
  <2> QED
    BY <2>1, <2>3, <2>4, <2>5
<1>14. ASSUME NEW r \in PatchRuns, UndoWrite(r) PROVE \A i \in PatchRuns : IsRegister(i) => RecordStays(i)
  BY <1>14 DEF UndoWrite, IsRegister, RecordStays
<1>15. ASSUME NEW r \in PatchRuns, UndoSave(r) PROVE \A i \in PatchRuns : IsRegister(i) => RecordStays(i)
  <2>1. run[r].id \in PatchRuns /\ ~IsRegister(run[r].id)
    BY <1>0, <1>15 DEF UndoRecord, UndoSave, UndoSteps
  <2> QED
    BY <1>0, <2>1, <1>15 DEF UndoSave, IsRegister, RecordStays, Types
<1>16. ASSUME NEW r \in PatchRuns, UndoWatch(r) PROVE \A i \in PatchRuns : IsRegister(i) => RecordStays(i)
  <2>1. PICK i \in PatchRuns, unread \in SUBSET TargetThreads : \E left \in SUBSET (Holding(journal[i].slot) \ unread) :
           /\ regs' = [t \in TargetThreads |->
                         IF t \in Holding(journal[i].slot) \ (unread \cup left) THEN NoRecord ELSE regs[t]]
           /\ journal' = IF Clear(unread, left) THEN [journal EXCEPT ![i] = NoRecord] ELSE journal
    BY <1>16 DEF UndoWatch
  <2>2. PICK left \in SUBSET (Holding(journal[i].slot) \ unread) :
           /\ regs' = [t \in TargetThreads |->
                         IF t \in Holding(journal[i].slot) \ (unread \cup left) THEN NoRecord ELSE regs[t]]
           /\ journal' = IF Clear(unread, left) THEN [journal EXCEPT ![i] = NoRecord] ELSE journal
    BY <2>1
  <2>3. gone' = gone /\ ~Traced
    BY <1>16 DEF UndoWatch
  <2>4. CASE gone
    BY <2>3, <2>4 DEF RecordStays
  <2>5. CASE ~gone /\ Clear(unread, left)
    <3>1. unread = {} /\ left = {}
      BY <2>5 DEF Clear
    <3>2. \A t \in TargetThreads : regs'[t] = NoRecord \/ regs'[t].slot # journal[i].slot
      BY <2>2, <3>1 DEF Holding
    <3> QED
      BY <1>0, <2>2, <2>3, <2>5, <3>2 DEF IsRegister, RecordStays, Types
  <2>6. CASE ~Clear(unread, left)
    BY <2>2, <2>6 DEF IsRegister, RecordStays
  <2> QED
    BY <2>4, <2>5, <2>6
<1>17. ASSUME NEW r \in PatchRuns, KillRun(r) PROVE \A i \in PatchRuns : IsRegister(i) => RecordStays(i)
  BY <1>17 DEF KillRun, IsRegister, RecordStays
<1>18. CASE TargetExits
  BY <1>18 DEF TargetExits, IsRegister, RecordStays
<1>19. CASE UNCHANGED patchVars
  BY <1>19 DEF patchVars, IsRegister, RecordStays
<1> QED
  BY <1>1, <1>2, <1>3, <1>4, <1>5, <1>6, <1>7, <1>8, <1>9, <1>10, <1>11, <1>12, <1>13, <1>14, <1>15, <1>16, <1>17, <1>18, <1>19 DEF PatchNext

\* So what is on record stays on record while it is in a register, or in what a
\* session found there.
LEMMA AccountKept ==
    ASSUME JournalInv, [PatchNext]_patchVars, NEW k, Accounted(k), ~gone',
           Traced \/ \E t \in TargetThreads : regs'[t] = k
    PROVE  Accounted(k)'
<1> SUFFICES ASSUME k # NoRecord, ~k.mixed
             PROVE  \E i \in PatchRuns : IsRegister(i)' /\ journal'[i].slot = k.slot
  BY DEF Accounted
<1>1. PICK i \in PatchRuns : IsRegister(i) /\ journal[i].slot = k.slot
  BY DEF Accounted
<1>2. RecordStays(i)
  BY <1>1, RegisterStep
<1> QED
  BY <1>1, <1>2 DEF RecordStays

\* A step that leaves the registers and the session alone keeps what is known
\* of them.
LEMMA RegisterFrame ==
    ASSUME JournalInv, [PatchNext]_patchVars, UNCHANGED <<regs, gone, savedRegs>>,
           (\A r \in PatchRuns : run'[r].pc # "armed") => \A r \in PatchRuns : run[r].pc # "armed"
    PROVE  RegisterInv'
<1>0. RegisterInv /\ \A r \in PatchRuns : OwnRecord(r)
  BY DEF JournalInv
<1>1. gone' => \A t \in TargetThreads : regs'[t] = NoRecord
  BY <1>0 DEF RegisterInv
<1>2. ASSUME NEW t \in TargetThreads, ~gone' PROVE Accounted(regs[t])'
  BY <1>0, <1>2, AccountKept DEF RegisterInv, Accounted
<1>3. ASSUME NEW t \in DOMAIN savedRegs, ~gone' PROVE Accounted(savedRegs[t])'
  <2>1. PICK r \in PatchRuns : run[r].pc = "armed"
    BY <1>0, <1>3 DEF RegisterInv, NothingSaved
  <2>2. Traced
    BY <1>0, <2>1 DEF Traced, Tracing, Ended, OwnRecord
  <2> QED
    BY <1>0, <1>3, <2>2, AccountKept DEF RegisterInv, Accounted
<1>4. \A t \in TargetThreads : Accounted(regs[t])'
  BY <1>1, <1>2 DEF Accounted
<1>5. (\A r \in PatchRuns : run'[r].pc # "armed") => savedRegs' = NothingSaved'
  BY <1>0 DEF RegisterInv, NothingSaved
<1> QED
  BY <1>0, <1>1, <1>3, <1>4, <1>5 DEF RegisterInv

\* A register goes into a thread under a record, and a target that is gone
\* holds none.
LEMMA ArmedStep ==
    ASSUME JournalInv, [PatchNext]_patchVars
    PROVE  RegisterInv'
<1>0. /\ Types /\ RegisterInv /\ \A r \in PatchRuns : OwnRecord(r) /\ UndoRecord(r)
      /\ \A r, q \in PatchRuns : Tracing(r) /\ Tracing(q) => r = q
  BY DEF JournalInv
<1>1. ASSUME NEW r \in PatchRuns, StartApply(r) PROVE RegisterInv'
  <2>1. UNCHANGED <<regs, gone, savedRegs>> /\ run[r].pc # "armed"
    BY <1>1 DEF StartApply, MayStart
  <2>2. \A q \in PatchRuns : q # r => run'[q] = run[q]
    BY <1>0, <1>1, ApplyStarts, ZenonT(30)
  <2>3. (\A q \in PatchRuns : run'[q].pc # "armed") => \A q \in PatchRuns : run[q].pc # "armed"
    BY <2>1, <2>2
  <2> QED
    BY <2>1, <2>3, RegisterFrame
<1>2. ASSUME NEW r \in PatchRuns, StartPlant(r) PROVE RegisterInv'
  <2>1. UNCHANGED <<regs, gone, savedRegs>> /\ run[r].pc # "armed"
    BY <1>2 DEF StartPlant, MayStart
  <2>2. \A q \in PatchRuns : q # r => run'[q] = run[q]
    BY <1>0, <1>2, PlantStarts, ZenonT(30)
  <2>3. (\A q \in PatchRuns : run'[q].pc # "armed") => \A q \in PatchRuns : run[q].pc # "armed"
    BY <2>1, <2>2
  <2> QED
    BY <2>1, <2>3, RegisterFrame
<1>3. ASSUME NEW r \in PatchRuns, StartWatch(r) PROVE RegisterInv'
  <2>1. UNCHANGED <<regs, gone, savedRegs>> /\ run[r].pc # "armed"
    BY <1>3 DEF StartWatch, MayStart
  <2>2. \A q \in PatchRuns : q # r => run'[q] = run[q]
    BY <1>0, <1>3, WatchStarts, ZenonT(30)
  <2>3. (\A q \in PatchRuns : run'[q].pc # "armed") => \A q \in PatchRuns : run[q].pc # "armed"
    BY <2>1, <2>2
  <2> QED
    BY <2>1, <2>3, RegisterFrame
<1>4. ASSUME NEW r \in PatchRuns, StartUndo(r) PROVE RegisterInv'
  <2>1. UNCHANGED <<regs, gone, savedRegs>> /\ run[r].pc # "armed"
    BY <1>4 DEF StartUndo, MayStart
  <2>2. \A q \in PatchRuns : q # r => run'[q] = run[q]
    BY <1>0, <1>4, UndoStarts, ZenonT(30)
  <2>3. (\A q \in PatchRuns : run'[q].pc # "armed") => \A q \in PatchRuns : run[q].pc # "armed"
    BY <2>1, <2>2
  <2> QED
    BY <2>1, <2>3, RegisterFrame
<1>5. ASSUME NEW r \in PatchRuns, OpenRecord(r) PROVE RegisterInv'
  <2>1. UNCHANGED <<regs, gone, savedRegs>> /\ run[r].pc # "armed"
    BY <1>5 DEF OpenRecord
  <2>2. \A q \in PatchRuns : q # r => run'[q] = run[q]
    BY <1>0, <1>5, GoesFacts DEF OpenRecord, Steps
  <2>3. (\A q \in PatchRuns : run'[q].pc # "armed") => \A q \in PatchRuns : run[q].pc # "armed"
    BY <2>1, <2>2
  <2> QED
    BY <2>1, <2>3, RegisterFrame
<1>6. ASSUME NEW r \in PatchRuns, FinishRecord(r) PROVE RegisterInv'
  <2>1. UNCHANGED <<regs, gone, savedRegs>> /\ run[r].pc # "armed"
    BY <1>6 DEF FinishRecord
  <2>2. \A q \in PatchRuns : q # r => run'[q] = run[q]
    BY <1>0, <1>6, GoesFacts DEF FinishRecord, Steps
  <2>3. (\A q \in PatchRuns : run'[q].pc # "armed") => \A q \in PatchRuns : run[q].pc # "armed"
    BY <2>1, <2>2
  <2> QED
    BY <2>1, <2>3, RegisterFrame
<1>7. ASSUME NEW r \in PatchRuns, WriteTarget(r) PROVE RegisterInv'
  <2>1. UNCHANGED <<regs, gone, savedRegs>> /\ run[r].pc # "armed"
    BY <1>7 DEF WriteTarget
  <2>2. \A q \in PatchRuns : q # r => run'[q] = run[q]
    BY <1>0, <1>7, GoesFacts DEF WriteTarget, Steps
  <2>3. (\A q \in PatchRuns : run'[q].pc # "armed") => \A q \in PatchRuns : run[q].pc # "armed"
    BY <2>1, <2>2
  <2> QED
    BY <2>1, <2>3, RegisterFrame
<1>8. ASSUME NEW r \in PatchRuns, TakeBack(r) PROVE RegisterInv'
  <2>1. UNCHANGED <<regs, gone, savedRegs>> /\ run[r].pc # "armed"
    BY <1>8 DEF TakeBack
  <2>2. \A q \in PatchRuns : q # r => run'[q] = run[q]
    BY <1>0, <1>8, GoesFacts DEF TakeBack, Steps
  <2>3. (\A q \in PatchRuns : run'[q].pc # "armed") => \A q \in PatchRuns : run[q].pc # "armed"
    BY <2>1, <2>2
  <2> QED
    BY <2>1, <2>3, RegisterFrame
<1>9. ASSUME NEW r \in PatchRuns, RestoreByte(r) PROVE RegisterInv'
  <2>1. UNCHANGED <<regs, gone, savedRegs>> /\ run[r].pc # "armed"
    BY <1>9 DEF RestoreByte
  <2>2. \A q \in PatchRuns : q # r => run'[q] = run[q]
    BY <1>0, <1>9, GoesFacts DEF RestoreByte, Steps
  <2>3. (\A q \in PatchRuns : run'[q].pc # "armed") => \A q \in PatchRuns : run[q].pc # "armed"
    BY <2>1, <2>2
  <2> QED
    BY <2>1, <2>3, RegisterFrame
<1>10. ASSUME NEW r \in PatchRuns, Arm(r) PROVE RegisterInv'
  <2> DEFINE slot == run[r].rec.slot
             both(t) == [addr |-> slot.addr,
                         bits |-> slot.bits \cup IF regs[t] = NoRecord THEN {} ELSE regs[t].slot.bits]
             half(t) == [regs[t].slot EXCEPT !.addr = slot.addr]
  <2>1. PICK S \in SUBSET TargetThreads, H \in SUBSET {t \in TargetThreads : regs[t] # NoRecord} :
          /\ S \cap H = {} /\ (gone => S = {})
          /\ regs' = [t \in TargetThreads |-> CASE t \in S -> Armed(both(t), slot)
                                         [] t \in H -> Armed(half(t), slot)
                                         [] OTHER -> regs[t]]
          /\ savedRegs' = [t \in S |-> regs[t]]
    BY <1>10 DEF Arm
  <2>2. gone' = gone /\ journal' = journal /\ run'[r].pc = "armed"
    BY <1>0, <1>10, GoesFacts DEF Arm, Steps
  <2>3. journal[r] \in WatchRecords /\ journal[r].slot = slot
    BY <1>0, <1>10 DEF Arm, OwnRecord, OwnSteps
  <2>4. IsRegister(r)'
    BY <2>2, <2>3, RecordFacts DEF IsRegister
  <2>5. \A k : Accounted(k) => Accounted(k)'
    BY <2>2 DEF Accounted, IsRegister
  <2>6. \A w : ~Armed(w, slot).mixed =>
                \E i \in PatchRuns : IsRegister(i)' /\ journal'[i].slot = Armed(w, slot).slot
    <3> SUFFICES ASSUME NEW w, ~Armed(w, slot).mixed
                 PROVE  \E i \in PatchRuns : IsRegister(i)' /\ journal'[i].slot = Armed(w, slot).slot
      OBVIOUS
    <3>1. w = slot /\ Armed(w, slot).slot = slot
      BY DEF Armed
    <3> QED
      BY <2>2, <2>3, <2>4, <3>1
  <2>7. gone => H = {}
    BY <1>0 DEF RegisterInv
  <2> HIDE DEF slot, both, half
  <2>8. ASSUME NEW t \in TargetThreads PROVE Accounted(regs[t])'
    <3>1. CASE t \in S
      <4>1. regs'[t] = Armed(both(t), slot)
        BY <2>1, <3>1
      <4> QED
        BY <2>6, <4>1 DEF Accounted
    <3>2. CASE t \in H
      <4>1. regs'[t] = Armed(half(t), slot)
        BY <2>1, <3>2
      <4> QED
        BY <2>6, <4>1 DEF Accounted
    <3>3. CASE t \notin S \cup H
      <4>1. regs'[t] = regs[t]
        BY <2>1, <3>3
      <4>2. Accounted(regs[t])
        BY <1>0 DEF RegisterInv
      <4> QED
        BY <2>5, <4>1, <4>2 DEF Accounted
    <3> QED
      BY <3>1, <3>2, <3>3
  <2>9. \A t \in DOMAIN savedRegs' : Accounted(savedRegs[t])'
    <3>1. \A t \in S : savedRegs'[t] = regs[t] /\ Accounted(regs[t])
      BY <1>0, <2>1 DEF RegisterInv
    <3>2. DOMAIN savedRegs' = S
      BY <2>1
    <3> QED
      BY <2>5, <3>1, <3>2 DEF Accounted
  <2>10. gone' => \A t \in TargetThreads : regs'[t] = NoRecord
    BY <1>0, <2>1, <2>2, <2>7 DEF RegisterInv
  <2> QED
    BY <2>1, <2>2, <2>8, <2>9, <2>10 DEF RegisterInv
<1>11. ASSUME NEW r \in PatchRuns, Disarm(r) PROVE RegisterInv'
  <2>1. PICK S \in SUBSET DOMAIN savedRegs :
          /\ gone => S = {}
          /\ regs' = [t \in TargetThreads |-> IF t \in S THEN savedRegs[t] ELSE regs[t]]
    BY <1>11 DEF Disarm
  <2>2. gone' = gone /\ journal' = journal /\ savedRegs' = NothingSaved
    BY <1>11 DEF Disarm
  <2>3. \A k : Accounted(k) => Accounted(k)'
    BY <2>2 DEF Accounted, IsRegister
  <2>4. ASSUME NEW t \in TargetThreads PROVE Accounted(regs[t])'
    <3>1. \E k : Accounted(k) /\ regs'[t] = k
      BY <1>0, <2>1 DEF RegisterInv
    <3> QED
      BY <2>3, <3>1 DEF Accounted
  <2>5. gone' => \A t \in TargetThreads : regs'[t] = NoRecord
    BY <1>0, <2>1, <2>2 DEF RegisterInv
  <2>6. DOMAIN savedRegs' = {} /\ NothingSaved' = NothingSaved
    BY <2>2 DEF NothingSaved
  <2> QED
    BY <2>2, <2>4, <2>5, <2>6 DEF RegisterInv
<1>12. ASSUME NEW r \in PatchRuns, SettlePlanted(r) PROVE RegisterInv'
  <2>1. UNCHANGED <<regs, gone, savedRegs>> /\ run[r].pc # "armed"
    BY <1>12 DEF SettlePlanted
  <2>2. \A q \in PatchRuns : q # r => run'[q] = run[q]
    BY <1>0, <1>12, GoesFacts DEF SettlePlanted, Steps
  <2>3. (\A q \in PatchRuns : run'[q].pc # "armed") => \A q \in PatchRuns : run[q].pc # "armed"
    BY <2>1, <2>2
  <2> QED
    BY <2>1, <2>3, RegisterFrame
<1>13. ASSUME NEW r \in PatchRuns, SettleArmed(r) PROVE RegisterInv'
  <2>1. UNCHANGED <<regs, gone, savedRegs>> /\ run[r].pc # "armed"
    BY <1>13 DEF SettleArmed
  <2>2. \A q \in PatchRuns : q # r => run'[q] = run[q]
    BY <1>0, <1>13, GoesFacts DEF SettleArmed, Steps
  <2>3. (\A q \in PatchRuns : run'[q].pc # "armed") => \A q \in PatchRuns : run[q].pc # "armed"
    BY <2>1, <2>2
  <2> QED
    BY <2>1, <2>3, RegisterFrame
<1>14. ASSUME NEW r \in PatchRuns, UndoWrite(r) PROVE RegisterInv'
  <2>1. UNCHANGED <<regs, gone, savedRegs>> /\ run[r].pc # "armed"
    BY <1>14 DEF UndoWrite
  <2>2. \A q \in PatchRuns : q # r => run'[q] = run[q]
    BY <1>0, <1>14, GoesFacts DEF UndoWrite, Steps
  <2>3. (\A q \in PatchRuns : run'[q].pc # "armed") => \A q \in PatchRuns : run[q].pc # "armed"
    BY <2>1, <2>2
  <2> QED
    BY <2>1, <2>3, RegisterFrame
<1>15. ASSUME NEW r \in PatchRuns, UndoSave(r) PROVE RegisterInv'
  <2>1. UNCHANGED <<regs, gone, savedRegs>> /\ run[r].pc # "armed"
    BY <1>15 DEF UndoSave
  <2>2. \A q \in PatchRuns : q # r => run'[q] = run[q]
    BY <1>0, <1>15, GoesFacts DEF UndoSave, Steps
  <2>3. (\A q \in PatchRuns : run'[q].pc # "armed") => \A q \in PatchRuns : run[q].pc # "armed"
    BY <2>1, <2>2
  <2> QED
    BY <2>1, <2>3, RegisterFrame
<1>16. ASSUME NEW r \in PatchRuns, UndoWatch(r) PROVE RegisterInv'
  <2>1. gone' = gone /\ savedRegs' = savedRegs /\ \A t \in TargetThreads : regs'[t] \in {NoRecord, regs[t]}
    BY <1>16 DEF UndoWatch
  <2>2. ~Traced /\ \A q \in PatchRuns : q # r => run'[q] = run[q]
    BY <1>0, <1>16, WatchUndone
  <2>3. savedRegs = NothingSaved
    BY <1>0, <2>2 DEF RegisterInv, Traced, Tracing, Ended, OwnRecord
  <2>4. ASSUME NEW t \in TargetThreads, ~gone' PROVE Accounted(regs[t])'
    BY <1>0, <2>1, <2>4, AccountKept DEF RegisterInv, Accounted
  <2>5. gone' => \A t \in TargetThreads : regs'[t] = NoRecord
    BY <1>0, <2>1 DEF RegisterInv
  <2>6. DOMAIN savedRegs' = {} /\ savedRegs' = NothingSaved'
    BY <2>1, <2>3 DEF NothingSaved
  <2>7. \A t \in TargetThreads : Accounted(regs[t])'
    BY <2>4, <2>5 DEF Accounted
  <2> QED
    BY <2>5, <2>6, <2>7 DEF RegisterInv
<1>17. ASSUME NEW r \in PatchRuns, KillRun(r) PROVE RegisterInv'
  <2>1. CASE run[r].pc = "armed"
    <3>1. regs' = regs /\ gone' = gone /\ savedRegs' = NothingSaved /\ journal' = journal
      BY <1>17, <2>1 DEF KillRun
    <3>2. \A k : Accounted(k) => Accounted(k)'
      BY <3>1 DEF Accounted, IsRegister
    <3>3. \A t \in TargetThreads : Accounted(regs[t])'
      BY <1>0, <3>1, <3>2 DEF RegisterInv, Accounted
    <3>4. DOMAIN savedRegs' = {} /\ savedRegs' = NothingSaved'
      BY <3>1 DEF NothingSaved
    <3> QED
      BY <1>0, <3>1, <3>3, <3>4 DEF RegisterInv
  <2>2. CASE run[r].pc # "armed"
    <3>1. UNCHANGED <<regs, gone, savedRegs>>
      BY <1>17, <2>2 DEF KillRun
    <3>2. \A q \in PatchRuns : q # r => run'[q] = run[q]
      BY <1>0, <1>17, GoesFacts DEF KillRun, Steps
    <3>3. (\A q \in PatchRuns : run'[q].pc # "armed") => \A q \in PatchRuns : run[q].pc # "armed"
      BY <2>2, <3>2
    <3> QED
      BY <3>1, <3>3, RegisterFrame
  <2> QED
    BY <2>1, <2>2
<1>18. CASE TargetExits
  <2>1. \A t \in TargetThreads : regs'[t] = NoRecord
    BY <1>18 DEF TargetExits
  <2>2. gone' /\ savedRegs' = savedRegs /\ run' = run
    BY <1>18 DEF TargetExits
  <2>3. \A t \in TargetThreads : Accounted(regs[t])'
    BY <2>1 DEF Accounted
  <2> QED
    BY <1>0, <2>1, <2>2, <2>3 DEF RegisterInv, NothingSaved
<1>19. CASE UNCHANGED patchVars
  BY <1>19, RegisterFrame DEF patchVars
<1> QED
  BY <1>1, <1>2, <1>3, <1>4, <1>5, <1>6, <1>7, <1>8, <1>9, <1>10, <1>11, <1>12, <1>13, <1>14, <1>15, <1>16, <1>17, <1>18, <1>19 DEF PatchNext

\* Together: the invariant of any number of runs at once.
LEMMA JournalInvariant == PatchSpec => []JournalInv
<1>1. PatchInit => JournalInv
  <2> SUFFICES ASSUME PatchInit PROVE JournalInv
    OBVIOUS
  <2>1. IdleRun \in RunStates /\ IdleRun.pc = "idle"
    BY DEF IdleRun, RunStates, Steps
  <2>2. Types
    BY <2>1, PatchAssumption DEF PatchInit, Types
  <2>3. \A r \in PatchRuns : run[r].pc = "idle" /\ journal[r] = NoRecord
    BY <2>1 DEF PatchInit
  <2>4. \A r \in PatchRuns : ~Tracing(r)
    BY <2>3 DEF Tracing, Ended
  <2>5. \A r \in PatchRuns : OwnRecord(r) /\ UndoRecord(r)
    BY <2>3 DEF OwnRecord, UndoRecord, OwnSteps, UndoSteps
  <2>6. \A i \in PatchRuns : ~IsBytes(i)
    BY <2>3 DEF IsBytes
  <2>7. RegisterInv
    BY DEF PatchInit, RegisterInv, Accounted, NothingSaved
  <2> QED
    BY <2>2, <2>4, <2>5, <2>6, <2>7 DEF JournalInv
<1>2. JournalInv /\ [PatchNext]_patchVars => JournalInv'
  BY TypesStep, OwnStep, UndoStep, MatchedStep, TracerStep, ArmedStep DEF JournalInv
<1> QED
  BY <1>1, <1>2, PTL DEF PatchSpec

\* What a thread's debug register is armed with is on record, slot by slot,
\* unless it was armed over what a killed run had left: however many commands run
\* at once, whichever of them are killed, and whatever a session puts back.
THEOREM ArmedOnRecord == PatchSpec => []ArmedIsOnRecord
<1>1. JournalInv => ArmedIsOnRecord
  BY DEF JournalInv, RegisterInv, Accounted, ArmedIsOnRecord
<1> QED
  BY <1>1, JournalInvariant, PTL


-----------------------------------------------------------------------------
(* One run after the other: the balance.                                   *)

\* What one more member, under a condition, makes of a cardinality.
LEMMA OneMore ==
    ASSUME NEW F, NEW x, NEW m, NEW v, IsFiniteSet(F), x \notin F
    PROVE  /\ Cardinality(F) \in Nat
           /\ Cardinality(IF v = m THEN F \cup {x} ELSE F) = Cardinality(F) + (IF v = m THEN 1 ELSE 0)
<1>1. Cardinality(F) \in Nat
  BY FS_CardinalityType
<1>2. Cardinality(F \cup {x}) = Cardinality(F) + 1
  BY FS_AddElement
<1>3. CASE v = m
  BY <1>1, <1>2, <1>3
<1>4. CASE v # m
  BY <1>1, <1>4
<1> QED
  BY <1>3, <1>4

\* The sets of the balance are finite.
LEMMA EdgesFinite ==
    ASSUME NEW c, NEW v
    PROVE  /\ IsFiniteSet(From(c, v)) /\ IsFiniteSet(To(c, v))
           /\ IsFiniteSet(From(c, v)') /\ IsFiniteSet(To(c, v)')
<1>1. /\ From(c, v) \subseteq PatchRuns /\ To(c, v) \subseteq PatchRuns
      /\ From(c, v)' \subseteq PatchRuns /\ To(c, v)' \subseteq PatchRuns
  BY DEF From, To
<1> QED
  BY <1>1, PatchAssumption, FS_Subset

\* The records at address c, as the balance sees them: but for that of k, they
\* are the same after a step.
SameEdge(c, j) ==
    /\ Edge(c, j)' <=> Edge(c, j)
    /\ Edge(c, j) => journal'[j] = journal[j]
SameBut(c, k) == \A j \in PatchRuns : j # k => SameEdge(c, j)

\* A step that changes neither the byte nor those records keeps the balance.
LEMMA BalanceFrame ==
    ASSUME NEW c, NEW v, \A j \in PatchRuns : SameEdge(c, j), mem'[c] = mem[c], Balanced(c, v)
    PROVE  Balanced(c, v)'
<1>1. From(c, v)' = From(c, v)
  BY DEF From, SameEdge
<1>2. To(c, v)' = To(c, v)
  BY DEF To, SameEdge
<1> QED
  BY <1>1, <1>2 DEF Balanced

\* A record whose byte goes in over the one it found keeps it.
LEMMA BalanceIn ==
    ASSUME NEW c, NEW v, NEW r \in PatchRuns, SameBut(c, r), ~Edge(c, r), Edge(c, r)',
           journal'[r] = journal[r], journal[r].before[c] = mem[c], journal[r].after[c] = mem'[c],
           Balanced(c, v)
    PROVE  Balanced(c, v)'
<1>1. From(c, v)' = IF v = mem[c] THEN From(c, v) \cup {r} ELSE From(c, v)
  BY DEF From, SameBut, SameEdge
<1>2. To(c, v)' = IF v = mem'[c] THEN To(c, v) \cup {r} ELSE To(c, v)
  BY DEF To, SameBut, SameEdge
<1>3. r \notin From(c, v) /\ r \notin To(c, v)
  BY DEF From, To
<1>4. /\ Cardinality(From(c, v)) \in Nat
      /\ Cardinality(From(c, v)') = Cardinality(From(c, v)) + (IF v = mem[c] THEN 1 ELSE 0)
  BY <1>1, <1>3, EdgesFinite, OneMore
<1>5. /\ Cardinality(To(c, v)) \in Nat
      /\ Cardinality(To(c, v)') = Cardinality(To(c, v)) + (IF v = mem'[c] THEN 1 ELSE 0)
  BY <1>2, <1>3, EdgesFinite, OneMore
<1> QED
  BY <1>4, <1>5 DEF Balanced

\* A record whose byte comes out, or that goes, with the byte it found there
\* after it, keeps it.
LEMMA BalanceOut ==
    ASSUME NEW c, NEW v, NEW i \in PatchRuns, SameBut(c, i), Edge(c, i), ~Edge(c, i)',
           journal[i].after[c] = mem[c], journal[i].before[c] = mem'[c], Balanced(c, v)
    PROVE  Balanced(c, v)'
<1>1. From(c, v) = IF v = mem'[c] THEN From(c, v)' \cup {i} ELSE From(c, v)'
  BY DEF From, SameBut, SameEdge
<1>2. To(c, v) = IF v = mem[c] THEN To(c, v)' \cup {i} ELSE To(c, v)'
  BY DEF To, SameBut, SameEdge
<1>3. i \notin From(c, v)' /\ i \notin To(c, v)'
  BY DEF From, To
<1>4. /\ Cardinality(From(c, v)') \in Nat
      /\ Cardinality(From(c, v)) = Cardinality(From(c, v)') + (IF v = mem'[c] THEN 1 ELSE 0)
  BY <1>1, <1>3, EdgesFinite, OneMore
<1>5. /\ Cardinality(To(c, v)') \in Nat
      /\ Cardinality(To(c, v)) = Cardinality(To(c, v)') + (IF v = mem[c] THEN 1 ELSE 0)
  BY <1>2, <1>3, EdgesFinite, OneMore
<1> QED
  BY <1>4, <1>5 DEF Balanced

\* With one run at a time, a run starts when none is in progress.
LEMMA StartsAlone ==
    ASSUME AtOnce = 1, Types, NEW r \in PatchRuns, NEW kind, MayStart(r, kind)
    PROVE  Active = {}
<1>1. IsFiniteSet(Active)
  BY PatchAssumption, FS_Subset DEF Active
<1>2. Cardinality(Active) \in Nat /\ Cardinality(Active) < 1
  BY <1>1, FS_CardinalityType DEF MayStart
<1>3. Cardinality(Active) = 0
  BY <1>2
<1> QED
  BY <1>1, <1>3, FS_EmptySet

\* A run that is over, and one that has not started, know little.
LEMMA SessionFrame ==
    ASSUME NEW r \in PatchRuns, NEW q \in PatchRuns, q # r, Session(q), run'[q] = run[q], run[q].pc \in Ended,
           \A c \in Cells : landed'[c] \subseteq landed[c] \cup {r}
    PROVE  Session(q)'
  BY DEF Session, Ended

\* One run at a time.
LEMMA AloneStep ==
    ASSUME AtOnce = 1, ~Unreachable, JournalInv, BalanceInv, [PatchNext]_patchVars
    PROVE  \A q, s \in Active' : q = s
<1>0. /\ Types /\ \A r \in PatchRuns : OwnRecord(r) /\ UndoRecord(r)
      /\ \A i \in PatchRuns : IsBytes(i) => Matched(journal[i])
      /\ \A r, q \in Active : r = q
      /\ \A r \in PatchRuns : Session(r)
      /\ \A c \in Cells, i \in PatchRuns : Edge(c, i) => journal[i].status = "applied"
  BY DEF JournalInv, BalanceInv
<1>1. ASSUME NEW r \in PatchRuns, StartApply(r) PROVE \A q, s \in Active' : q = s
  <2>1. Active = {}
    BY <1>0, <1>1, StartsAlone DEF StartApply
  <2>2. \A q \in PatchRuns : q # r => run'[q] = run[q]
    BY <1>0, <1>1, ApplyStarts
  <2> QED
    BY <2>1, <2>2 DEF Active
<1>2. ASSUME NEW r \in PatchRuns, StartPlant(r) PROVE \A q, s \in Active' : q = s
  <2>1. Active = {}
    BY <1>0, <1>2, StartsAlone DEF StartPlant
  <2>2. \A q \in PatchRuns : q # r => run'[q] = run[q]
    BY <1>0, <1>2, PlantStarts, ZenonT(60)
  <2> QED
    BY <2>1, <2>2 DEF Active
<1>3. ASSUME NEW r \in PatchRuns, StartWatch(r) PROVE \A q, s \in Active' : q = s
  <2>1. Active = {}
    BY <1>0, <1>3, StartsAlone DEF StartWatch
  <2>2. \A q \in PatchRuns : q # r => run'[q] = run[q]
    BY <1>0, <1>3, WatchStarts
  <2> QED
    BY <2>1, <2>2 DEF Active
<1>4. ASSUME NEW r \in PatchRuns, StartUndo(r) PROVE \A q, s \in Active' : q = s
  <2>1. Active = {}
    BY <1>0, <1>4, StartsAlone DEF StartUndo
  <2>2. \A q \in PatchRuns : q # r => run'[q] = run[q]
    BY <1>0, <1>4, UndoStarts
  <2> QED
    BY <2>1, <2>2 DEF Active
<1>5. ASSUME NEW r \in PatchRuns, OpenRecord(r) PROVE \A q, s \in Active' : q = s
  <2>1. r \in Active /\ \A q \in PatchRuns : q # r => run'[q] = run[q]
    BY <1>0, <1>5, GoesFacts DEF OpenRecord, Steps, Ended, Active
  <2> QED
    BY <1>0, <2>1 DEF Active
<1>6. ASSUME NEW r \in PatchRuns, FinishRecord(r) PROVE \A q, s \in Active' : q = s
  <2>1. r \in Active /\ \A q \in PatchRuns : q # r => run'[q] = run[q]
    BY <1>0, <1>6, GoesFacts DEF FinishRecord, Steps, Ended, Active
  <2> QED
    BY <1>0, <2>1 DEF Active
<1>7. ASSUME NEW r \in PatchRuns, WriteTarget(r) PROVE \A q, s \in Active' : q = s
  <2>1. r \in Active /\ \A q \in PatchRuns : q # r => run'[q] = run[q]
    BY <1>0, <1>7, GoesFacts DEF WriteTarget, Steps, Ended, Active
  <2> QED
    BY <1>0, <2>1 DEF Active
<1>8. ASSUME NEW r \in PatchRuns, TakeBack(r) PROVE \A q, s \in Active' : q = s
  <2>1. r \in Active /\ \A q \in PatchRuns : q # r => run'[q] = run[q]
    BY <1>0, <1>8, GoesFacts DEF TakeBack, Steps, Ended, Active
  <2> QED
    BY <1>0, <2>1 DEF Active
<1>9. ASSUME NEW r \in PatchRuns, RestoreByte(r) PROVE \A q, s \in Active' : q = s
  <2>1. r \in Active /\ \A q \in PatchRuns : q # r => run'[q] = run[q]
    BY <1>0, <1>9, GoesFacts DEF RestoreByte, Steps, Ended, Active
  <2> QED
    BY <1>0, <2>1 DEF Active
<1>10. ASSUME NEW r \in PatchRuns, Arm(r) PROVE \A q, s \in Active' : q = s
  <2>1. r \in Active /\ \A q \in PatchRuns : q # r => run'[q] = run[q]
    BY <1>0, <1>10, GoesFacts DEF Arm, Steps, Ended, Active
  <2> QED
    BY <1>0, <2>1 DEF Active
<1>11. ASSUME NEW r \in PatchRuns, Disarm(r) PROVE \A q, s \in Active' : q = s
  <2>1. r \in Active /\ \A q \in PatchRuns : q # r => run'[q] = run[q]
    BY <1>0, <1>11, GoesFacts DEF Disarm, Steps, Ended, Active
  <2> QED
    BY <1>0, <2>1 DEF Active
<1>12. ASSUME NEW r \in PatchRuns, SettlePlanted(r) PROVE \A q, s \in Active' : q = s
  <2>1. r \in Active /\ \A q \in PatchRuns : q # r => run'[q] = run[q]
    BY <1>0, <1>12, GoesFacts DEF SettlePlanted, Steps, Ended, Active
  <2> QED
    BY <1>0, <2>1 DEF Active
<1>13. ASSUME NEW r \in PatchRuns, SettleArmed(r) PROVE \A q, s \in Active' : q = s
  <2>1. r \in Active /\ \A q \in PatchRuns : q # r => run'[q] = run[q]
    BY <1>0, <1>13, GoesFacts DEF SettleArmed, Steps, Ended, Active
  <2> QED
    BY <1>0, <2>1 DEF Active
<1>14. ASSUME NEW r \in PatchRuns, UndoWrite(r) PROVE \A q, s \in Active' : q = s
  <2>1. r \in Active /\ \A q \in PatchRuns : q # r => run'[q] = run[q]
    BY <1>0, <1>14, GoesFacts DEF UndoWrite, Steps, Ended, Active
  <2> QED
    BY <1>0, <2>1 DEF Active
<1>15. ASSUME NEW r \in PatchRuns, UndoSave(r) PROVE \A q, s \in Active' : q = s
  <2>1. r \in Active /\ \A q \in PatchRuns : q # r => run'[q] = run[q]
    BY <1>0, <1>15, GoesFacts DEF UndoSave, Steps, Ended, Active
  <2> QED
    BY <1>0, <2>1 DEF Active
<1>16. ASSUME NEW r \in PatchRuns, UndoWatch(r) PROVE \A q, s \in Active' : q = s
  <2>1. Active = {}
    BY <1>0, <1>16, StartsAlone DEF UndoWatch
  <2>2. \A q \in PatchRuns : q # r => run'[q] = run[q]
    BY <1>0, <1>16, WatchUndone
  <2> QED
    BY <2>1, <2>2 DEF Active
<1>17. ASSUME NEW r \in PatchRuns, KillRun(r) PROVE \A q, s \in Active' : q = s
  <2>1. r \in Active /\ \A q \in PatchRuns : q # r => run'[q] = run[q]
    BY <1>0, <1>17, GoesFacts DEF KillRun, Steps, Ended, Active
  <2> QED
    BY <1>0, <2>1 DEF Active
<1>18. CASE TargetExits
  BY <1>0, <1>18 DEF TargetExits, Active
<1>19. CASE UNCHANGED patchVars
  BY <1>0, <1>19 DEF patchVars, Active
<1> QED
  BY <1>1, <1>2, <1>3, <1>4, <1>5, <1>6, <1>7, <1>8, <1>9, <1>10, <1>11, <1>12, <1>13, <1>14, <1>15, <1>16, <1>17, <1>18, <1>19 DEF PatchNext

\* What the run in progress knows of the target stays true: nobody else is there.
LEMMA SessionStep ==
    ASSUME AtOnce = 1, ~Unreachable, JournalInv, BalanceInv, [PatchNext]_patchVars
    PROVE  \A q \in PatchRuns : Session(q)'
<1>0. /\ Types /\ \A r \in PatchRuns : OwnRecord(r) /\ UndoRecord(r)
      /\ \A i \in PatchRuns : IsBytes(i) => Matched(journal[i])
      /\ \A r, q \in Active : r = q
      /\ \A r \in PatchRuns : Session(r)
      /\ \A c \in Cells, i \in PatchRuns : Edge(c, i) => journal[i].status = "applied"
  BY DEF JournalInv, BalanceInv
<1>1. ASSUME NEW r \in PatchRuns, StartApply(r) PROVE \A q \in PatchRuns : Session(q)'
  <2>1. Active = {}
    BY <1>0, <1>1, StartsAlone DEF StartApply
  <2>2. landed' = landed /\ \A q \in PatchRuns : q # r => run'[q] = run[q] /\ run[q].pc \in Ended
    BY <1>0, <2>1, <1>1, ApplyStarts DEF StartApply, Active
  <2>3. \A c \in Cells : r \notin landed[c]
    BY <1>0, <1>1, ApplyStarts DEF Session
  <2>4. Session(r)'
    BY <1>0, <2>2, <2>3, <1>1, ApplyStarts, SMTT(30) DEF Session, StartApply, Under
  <2> QED
    BY <1>0, <2>2, <2>4, SessionFrame
<1>2. ASSUME NEW r \in PatchRuns, StartPlant(r) PROVE \A q \in PatchRuns : Session(q)'
  <2>1. Active = {}
    BY <1>0, <1>2, StartsAlone DEF StartPlant
  <2>2. landed' = landed /\ \A q \in PatchRuns : q # r => run'[q] = run[q] /\ run[q].pc \in Ended
    BY <1>0, <2>1, <1>2, PlantStarts DEF StartPlant, Active
  <2>3. \A c \in Cells : r \notin landed[c]
    BY <1>0, <1>2, PlantStarts DEF Session
  <2>5. mem' = mem /\ journal' = journal
    BY <1>2 DEF StartPlant
  <2>7. Under(run'[r].rec.before) = run'[r].rec.before
    BY <1>0, <1>2, PlantStarts
  <2>6. Under(run[r].rec.before)' = run'[r].rec.before
    BY <2>5, <2>7 DEF Under
  <2>4. Session(r)'
    BY <1>0, <2>2, <2>3, <2>6, <1>2, PlantStarts DEF Session
  <2> QED
    BY <1>0, <2>2, <2>4, SessionFrame
<1>3. ASSUME NEW r \in PatchRuns, StartWatch(r) PROVE \A q \in PatchRuns : Session(q)'
  <2>1. Active = {}
    BY <1>0, <1>3, StartsAlone DEF StartWatch
  <2>2. landed' = landed /\ \A q \in PatchRuns : q # r => run'[q] = run[q] /\ run[q].pc \in Ended
    BY <1>0, <2>1, <1>3, WatchStarts DEF StartWatch, Active
  <2>3. \A c \in Cells : r \notin landed[c]
    BY <1>0, <1>3, WatchStarts DEF Session
  <2>4. Session(r)'
    BY <1>0, <2>2, <2>3, <1>3, WatchStarts DEF Session, StartWatch, Under
  <2> QED
    BY <1>0, <2>2, <2>4, SessionFrame
<1>4. ASSUME NEW r \in PatchRuns, StartUndo(r) PROVE \A q \in PatchRuns : Session(q)'
  <2>1. Active = {}
    BY <1>0, <1>4, StartsAlone DEF StartUndo
  <2>2. landed' = landed /\ \A q \in PatchRuns : q # r => run'[q] = run[q] /\ run[q].pc \in Ended
    BY <1>0, <2>1, <1>4, UndoStarts DEF StartUndo, Active
  <2>3. \A c \in Cells : r \notin landed[c]
    BY <1>0, <1>4, UndoStarts DEF Session
  <2>4. Session(r)'
    BY <1>0, <2>2, <2>3, <1>4, UndoStarts DEF Session, StartUndo, Under
  <2> QED
    BY <1>0, <2>2, <2>4, SessionFrame
<1>5. ASSUME NEW r \in PatchRuns, OpenRecord(r) PROVE \A q \in PatchRuns : Session(q)'
  <2>1. r \in Active /\ \A q \in PatchRuns : q # r => run'[q] = run[q]
    BY <1>0, <1>5, GoesFacts DEF OpenRecord, Steps, Ended, Active
  <2>2. (\A c \in Cells : landed'[c] \subseteq landed[c] \cup {r}) /\ \A q \in PatchRuns : q # r => run[q].pc \in Ended
    BY <1>0, <2>1, <1>5 DEF OpenRecord, Active
  <2>3. Session(r)'
    BY <1>0, <1>5, GoesFacts DEF Session, OwnRecord, OwnSteps, OpenRecord, Steps, Ended, Types, Under
  <2> QED
    BY <1>0, <2>1, <2>2, <2>3, SessionFrame
<1>6. ASSUME NEW r \in PatchRuns, FinishRecord(r) PROVE \A q \in PatchRuns : Session(q)'
  <2>1. r \in Active /\ \A q \in PatchRuns : q # r => run'[q] = run[q]
    BY <1>0, <1>6, GoesFacts DEF FinishRecord, Steps, Ended, Active
  <2>2. (\A c \in Cells : landed'[c] \subseteq landed[c] \cup {r}) /\ \A q \in PatchRuns : q # r => run[q].pc \in Ended
    BY <1>0, <2>1, <1>6 DEF FinishRecord, Active
  <2>3. Session(r)'
    BY <1>0, <1>6, GoesFacts DEF Session, OwnRecord, OwnSteps, FinishRecord, Steps, Ended, Types, Under
  <2> QED
    BY <1>0, <2>1, <2>2, <2>3, SessionFrame
<1>7. ASSUME NEW r \in PatchRuns, WriteTarget(r) PROVE \A q \in PatchRuns : Session(q)'
  <2>1. r \in Active /\ \A q \in PatchRuns : q # r => run'[q] = run[q]
    BY <1>0, <1>7, GoesFacts DEF WriteTarget, Steps, Ended, Active
  <2>2. (\A c \in Cells : landed'[c] \subseteq landed[c] \cup {r}) /\ \A q \in PatchRuns : q # r => run[q].pc \in Ended
    BY <1>0, <2>1, <1>7 DEF WriteTarget, Active
  <2>a. /\ \A c \in Cells : r \notin landed[c]
        /\ journal[r] = run[r].rec /\ run[r].kind \in {"apply", "plant"}
        /\ run[r].rec \in PatchRecords /\ run[r].rec.after \in Patches /\ DOMAIN run[r].rec.after \subseteq Cells
    BY <1>0, <1>7, RecordFacts, PatchFacts DEF WriteTarget, OwnRecord, OwnSteps, Session
  <2> DEFINE p == run[r].rec.after
  <2>b. ASSUME mem' = Over(p, DOMAIN p), Goes(r, IF run[r].kind = "apply" THEN "done" ELSE "planted"),
               landed' = [c \in Cells |-> IF c \in DOMAIN p THEN landed[c] \cup {r} ELSE landed[c]]
        PROVE  Session(r)'
    <3>1. \A c \in DOMAIN p : mem'[c] = p[c] /\ r \in landed'[c]
      BY <1>0, <2>a, <2>b, OverFacts
    <3>2. run'[r].pc = "planted" => run'[r].rec = run[r].rec /\ run'[r].kind = "plant"
      BY <1>0, <2>a, <2>b, GoesFacts DEF Steps, Ended
    <3>3. run'[r].pc \in {"done", "planted"}
      BY <1>0, <2>a, <2>b, GoesFacts DEF Steps
    <3>4. journal' = journal
      BY <1>7 DEF WriteTarget
    <3>5. CASE run'[r].pc = "done"
      BY <3>5 DEF Session
    <3>6. CASE run'[r].pc = "planted"
      BY <2>a, <3>1, <3>2, <3>4, <3>6 DEF Session
    <3> QED
      BY <3>3, <3>5, <3>6
  <2>c. ASSUME Goes(r, IF run[r].kind = "apply" THEN "take_back" ELSE "settle"), landed' = landed
        PROVE  Session(r)'
    <3>1. run'[r].pc \in {"take_back", "settle"} /\ run'[r].rec = run[r].rec /\ run'[r].kind = run[r].kind
      BY <1>0, <2>c, GoesFacts DEF Steps, Ended
    <3>2. journal' = journal /\ \A c \in Cells : r \notin landed'[c]
      BY <2>a, <2>c, <1>7 DEF WriteTarget
    <3>3. CASE run'[r].pc = "take_back"
      BY <3>2, <3>3 DEF Session
    <3>4. CASE run'[r].pc = "settle"
      BY <2>a, <3>1, <3>2, <3>4 DEF Session
    <3> QED
      BY <3>1, <3>3, <3>4
  <2>3. Session(r)'
    BY <2>b, <2>c, <1>7 DEF WriteTarget
  <2> QED
    BY <1>0, <2>1, <2>2, <2>3, SessionFrame
<1>8. ASSUME NEW r \in PatchRuns, TakeBack(r) PROVE \A q \in PatchRuns : Session(q)'
  <2>1. r \in Active /\ \A q \in PatchRuns : q # r => run'[q] = run[q]
    BY <1>0, <1>8, GoesFacts DEF TakeBack, Steps, Ended, Active
  <2>2. (\A c \in Cells : landed'[c] \subseteq landed[c] \cup {r}) /\ \A q \in PatchRuns : q # r => run[q].pc \in Ended
    BY <1>0, <2>1, <1>8 DEF TakeBack, Active
  <2>3. Session(r)'
    BY <1>0, <1>8, GoesFacts DEF Session, OwnRecord, OwnSteps, TakeBack, Steps, Ended, Types, Under
  <2> QED
    BY <1>0, <2>1, <2>2, <2>3, SessionFrame
<1>9. ASSUME NEW r \in PatchRuns, RestoreByte(r) PROVE \A q \in PatchRuns : Session(q)'
  <2>1. r \in Active /\ \A q \in PatchRuns : q # r => run'[q] = run[q]
    BY <1>0, <1>9, GoesFacts DEF RestoreByte, Steps, Ended, Active
  <2>2. (\A c \in Cells : landed'[c] \subseteq landed[c] \cup {r}) /\ \A q \in PatchRuns : q # r => run[q].pc \in Ended
    BY <1>0, <2>1, <1>9 DEF RestoreByte, Active
  <2>a. /\ journal[r] = run[r].rec /\ run[r].kind = "plant"
        /\ run[r].rec \in PatchRecords /\ DOMAIN run[r].rec.after \subseteq Cells
        /\ ~gone => \A c \in DOMAIN run[r].rec.after : r \in landed[c] => mem[c] = run[r].rec.after[c]
    BY <1>0, <1>9, RecordFacts, PatchFacts DEF RestoreByte, OwnRecord, OwnSteps, Session
  <2>b. /\ run'[r].pc = "settle" /\ run'[r].rec = run[r].rec /\ run'[r].kind = "plant"
        /\ journal' = journal /\ gone' = gone
    BY <1>0, <2>a, <1>9, GoesFacts DEF RestoreByte, Steps, Ended
  <2>c. (\A c \in Cells : r \notin landed'[c]) \/ (mem' = mem /\ landed' = landed)
    BY <1>9 DEF RestoreByte
  <2>d. ~gone' => \A c \in DOMAIN run[r].rec.after : r \in landed'[c] => mem'[c] = run[r].rec.after[c]
    BY <2>a, <2>b, <2>c
  <2>3. Session(r)'
    BY <2>a, <2>b, <2>d DEF Session
  <2> QED
    BY <1>0, <2>1, <2>2, <2>3, SessionFrame
<1>10. ASSUME NEW r \in PatchRuns, Arm(r) PROVE \A q \in PatchRuns : Session(q)'
  <2>1. r \in Active /\ \A q \in PatchRuns : q # r => run'[q] = run[q]
    BY <1>0, <1>10, GoesFacts DEF Arm, Steps, Ended, Active
  <2>2. (\A c \in Cells : landed'[c] \subseteq landed[c] \cup {r}) /\ \A q \in PatchRuns : q # r => run[q].pc \in Ended
    BY <1>0, <2>1, <1>10 DEF Arm, Active
  <2>3. Session(r)'
    BY <1>0, <1>10, GoesFacts DEF Session, OwnRecord, OwnSteps, Arm, Steps, Ended, Types, Under
  <2> QED
    BY <1>0, <2>1, <2>2, <2>3, SessionFrame
<1>11. ASSUME NEW r \in PatchRuns, Disarm(r) PROVE \A q \in PatchRuns : Session(q)'
  <2>1. r \in Active /\ \A q \in PatchRuns : q # r => run'[q] = run[q]
    BY <1>0, <1>11, GoesFacts DEF Disarm, Steps, Ended, Active
  <2>2. (\A c \in Cells : landed'[c] \subseteq landed[c] \cup {r}) /\ \A q \in PatchRuns : q # r => run[q].pc \in Ended
    BY <1>0, <2>1, <1>11 DEF Disarm, Active
  <2>3. Session(r)'
    BY <1>0, <1>11, GoesFacts DEF Session, OwnRecord, OwnSteps, Disarm, Steps, Ended, Types, Under
  <2> QED
    BY <1>0, <2>1, <2>2, <2>3, SessionFrame
<1>12. ASSUME NEW r \in PatchRuns, SettlePlanted(r) PROVE \A q \in PatchRuns : Session(q)'
  <2>1. r \in Active /\ \A q \in PatchRuns : q # r => run'[q] = run[q]
    BY <1>0, <1>12, GoesFacts DEF SettlePlanted, Steps, Ended, Active
  <2>2. (\A c \in Cells : landed'[c] \subseteq landed[c] \cup {r}) /\ \A q \in PatchRuns : q # r => run[q].pc \in Ended
    BY <1>0, <2>1, <1>12 DEF SettlePlanted, Active
  <2>3. Session(r)'
    BY <1>0, <1>12, GoesFacts DEF Session, OwnRecord, OwnSteps, SettlePlanted, Steps, Ended, Types, Under
  <2> QED
    BY <1>0, <2>1, <2>2, <2>3, SessionFrame
<1>13. ASSUME NEW r \in PatchRuns, SettleArmed(r) PROVE \A q \in PatchRuns : Session(q)'
  <2>1. r \in Active /\ \A q \in PatchRuns : q # r => run'[q] = run[q]
    BY <1>0, <1>13, GoesFacts DEF SettleArmed, Steps, Ended, Active
  <2>2. (\A c \in Cells : landed'[c] \subseteq landed[c] \cup {r}) /\ \A q \in PatchRuns : q # r => run[q].pc \in Ended
    BY <1>0, <2>1, <1>13 DEF SettleArmed, Active
  <2>3. Session(r)'
    BY <1>0, <1>13, GoesFacts DEF Session, OwnRecord, OwnSteps, SettleArmed, Steps, Ended, Types, Under
  <2> QED
    BY <1>0, <2>1, <2>2, <2>3, SessionFrame
<1>14. ASSUME NEW r \in PatchRuns, UndoWrite(r) PROVE \A q \in PatchRuns : Session(q)'
  <2>1. r \in Active /\ \A q \in PatchRuns : q # r => run'[q] = run[q]
    BY <1>0, <1>14, GoesFacts DEF UndoWrite, Steps, Ended, Active
  <2>a. PICK S \in SUBSET DOMAIN run[r].rec.before :
          /\ \/ S = DOMAIN run[r].rec.before /\ Goes(r, "saving")
             \/ Goes(r, "done")
          /\ landed' = [c \in Cells |-> IF c \in S THEN landed[c] \ {run[r].id} ELSE landed[c]]
    BY <1>14 DEF UndoWrite
  <2>2. (\A c \in Cells : landed'[c] \subseteq landed[c] \cup {r}) /\ \A q \in PatchRuns : q # r => run[q].pc \in Ended
    BY <1>0, <2>1, <2>a DEF Active
  <2>b. /\ journal[run[r].id] = run[r].rec /\ run[r].rec \in PatchRecords
        /\ DOMAIN run[r].rec.before = DOMAIN run[r].rec.after /\ DOMAIN run[r].rec.after \subseteq Cells
    BY <1>0, <1>14, RecordFacts, PatchFacts DEF UndoWrite, UndoRecord, UndoSteps, Session, Matched
  <2>c. journal' = journal
    BY <1>14 DEF UndoWrite
  <2>d. ASSUME Goes(r, "saving"), S = DOMAIN run[r].rec.before PROVE Session(r)'
    <3>1. run'[r].pc = "saving" /\ run'[r].id = run[r].id /\ run'[r].rec = run[r].rec
      BY <1>0, <2>d, GoesFacts DEF Steps, Ended
    <3>2. \A c \in DOMAIN run[r].rec.after : run[r].id \notin landed'[c]
      BY <2>a, <2>b, <2>d
    <3> QED
      BY <2>b, <2>c, <3>1, <3>2 DEF Session
  <2>e. ASSUME Goes(r, "done") PROVE Session(r)'
    <3>1. run'[r].pc = "done"
      BY <1>0, <2>e, GoesFacts DEF Steps
    <3> QED
      BY <3>1 DEF Session
  <2>3. Session(r)'
    BY <2>a, <2>d, <2>e
  <2> QED
    BY <1>0, <2>1, <2>2, <2>3, SessionFrame
<1>15. ASSUME NEW r \in PatchRuns, UndoSave(r) PROVE \A q \in PatchRuns : Session(q)'
  <2>1. r \in Active /\ \A q \in PatchRuns : q # r => run'[q] = run[q]
    BY <1>0, <1>15, GoesFacts DEF UndoSave, Steps, Ended, Active
  <2>2. (\A c \in Cells : landed'[c] \subseteq landed[c] \cup {r}) /\ \A q \in PatchRuns : q # r => run[q].pc \in Ended
    BY <1>0, <2>1, <1>15 DEF UndoSave, Active
  <2>a. /\ run[r].pc \in {"saving", "saved"} /\ run[r].id \in PatchRuns /\ landed' = landed
        /\ \A c \in DOMAIN run[r].rec.after : run[r].id \notin landed[c]
    BY <1>0, <1>15 DEF UndoSave, UndoRecord, UndoSteps, Session
  <2>b. ASSUME run[r].pc = "saving" PROVE Session(r)'
    <3>1. run'[r].pc = "saved" /\ run'[r].id = run[r].id /\ run'[r].rec = run[r].rec
      BY <1>0, <2>b, <1>15, GoesFacts DEF UndoSave, Steps, Ended
    <3>2. journal'[run[r].id] = Torn
      BY <1>0, <2>a, <2>b, <1>15 DEF UndoSave, Types
    <3> QED
      BY <2>a, <3>1, <3>2 DEF Session
  <2>c. ASSUME run[r].pc = "saved" PROVE Session(r)'
    <3>1. run'[r].pc = "done"
      BY <1>0, <2>c, <1>15, GoesFacts DEF UndoSave, Steps, Ended
    <3> QED
      BY <3>1 DEF Session
  <2>3. Session(r)'
    BY <2>a, <2>b, <2>c
  <2> QED
    BY <1>0, <2>1, <2>2, <2>3, SessionFrame
<1>16. ASSUME NEW r \in PatchRuns, UndoWatch(r) PROVE \A q \in PatchRuns : Session(q)'
  <2>1. Active = {}
    BY <1>0, <1>16, StartsAlone DEF UndoWatch
  <2>2. landed' = landed /\ \A q \in PatchRuns : q # r => run'[q] = run[q] /\ run[q].pc \in Ended
    BY <1>0, <2>1, <1>16, WatchUndone DEF UndoWatch, Active
  <2>3. \A c \in Cells : r \notin landed[c]
    BY <1>0, <1>16, WatchUndone DEF Session
  <2>4. Session(r)'
    BY <1>0, <2>2, <2>3, <1>16, WatchUndone DEF Session, UndoWatch, Under
  <2> QED
    BY <1>0, <2>2, <2>4, SessionFrame
<1>17. ASSUME NEW r \in PatchRuns, KillRun(r) PROVE \A q \in PatchRuns : Session(q)'
  <2>1. r \in Active /\ \A q \in PatchRuns : q # r => run'[q] = run[q]
    BY <1>0, <1>17, GoesFacts DEF KillRun, Steps, Ended, Active
  <2>2. (\A c \in Cells : landed'[c] \subseteq landed[c] \cup {r}) /\ \A q \in PatchRuns : q # r => run[q].pc \in Ended
    BY <1>0, <2>1, <1>17 DEF KillRun, Active
  <2>3. Session(r)'
    BY <1>0, <1>17, GoesFacts DEF Session, OwnRecord, OwnSteps, KillRun, Steps, Ended, Types, Under
  <2> QED
    BY <1>0, <2>1, <2>2, <2>3, SessionFrame
<1>18. CASE TargetExits
  BY <1>0, <1>18 DEF TargetExits, Session, Under
<1>19. CASE UNCHANGED patchVars
  BY <1>0, <1>19 DEF patchVars, Session, Under
<1> QED
  BY <1>1, <1>2, <1>3, <1>4, <1>5, <1>6, <1>7, <1>8, <1>9, <1>10, <1>11, <1>12, <1>13, <1>14, <1>15, <1>16, <1>17, <1>18, <1>19 DEF PatchNext

\* A record whose byte is in the target is not marked undone.
LEMMA AppliedStep ==
    ASSUME AtOnce = 1, ~Unreachable, JournalInv, BalanceInv, [PatchNext]_patchVars
    PROVE  \A c \in Cells, i \in PatchRuns : Edge(c, i)' => journal'[i].status = "applied"
<1>0. /\ Types /\ \A r \in PatchRuns : OwnRecord(r) /\ UndoRecord(r)
      /\ \A i \in PatchRuns : IsBytes(i) => Matched(journal[i])
      /\ \A r, q \in Active : r = q
      /\ \A r \in PatchRuns : Session(r)
      /\ \A c \in Cells, i \in PatchRuns : Edge(c, i) => journal[i].status = "applied"
  BY DEF JournalInv, BalanceInv
<1>1. ASSUME NEW r \in PatchRuns, StartApply(r) PROVE \A c \in Cells, i \in PatchRuns : Edge(c, i)' => journal'[i].status = "applied"
  BY <1>0, <1>1 DEF StartApply, Edge, IsBytes
<1>2. ASSUME NEW r \in PatchRuns, StartPlant(r) PROVE \A c \in Cells, i \in PatchRuns : Edge(c, i)' => journal'[i].status = "applied"
  BY <1>0, <1>2 DEF StartPlant, Edge, IsBytes
<1>3. ASSUME NEW r \in PatchRuns, StartWatch(r) PROVE \A c \in Cells, i \in PatchRuns : Edge(c, i)' => journal'[i].status = "applied"
  BY <1>0, <1>3 DEF StartWatch, Edge, IsBytes
<1>4. ASSUME NEW r \in PatchRuns, StartUndo(r) PROVE \A c \in Cells, i \in PatchRuns : Edge(c, i)' => journal'[i].status = "applied"
  BY <1>0, <1>4 DEF StartUndo, Edge, IsBytes
<1>5. ASSUME NEW r \in PatchRuns, OpenRecord(r) PROVE \A c \in Cells, i \in PatchRuns : Edge(c, i)' => journal'[i].status = "applied"
  BY <1>0, <1>5 DEF OpenRecord, Edge, IsBytes, Types
<1>6. ASSUME NEW r \in PatchRuns, FinishRecord(r) PROVE \A c \in Cells, i \in PatchRuns : Edge(c, i)' => journal'[i].status = "applied"
  BY <1>0, <1>6 DEF FinishRecord, Edge, IsBytes, Types, Session
<1>7. ASSUME NEW r \in PatchRuns, WriteTarget(r) PROVE \A c \in Cells, i \in PatchRuns : Edge(c, i)' => journal'[i].status = "applied"
  <2>1. journal[r].status = "applied" /\ journal' = journal
    BY <1>0, <1>7 DEF WriteTarget, OwnRecord, OwnSteps, Session
  <2>2. \A c \in Cells : landed'[c] \subseteq landed[c] \cup {r}
    BY <1>7 DEF WriteTarget
  <2> QED
    BY <1>0, <2>1, <2>2 DEF Edge, IsBytes
<1>8. ASSUME NEW r \in PatchRuns, TakeBack(r) PROVE \A c \in Cells, i \in PatchRuns : Edge(c, i)' => journal'[i].status = "applied"
  BY <1>0, <1>8 DEF TakeBack, Edge, IsBytes, Types
<1>9. ASSUME NEW r \in PatchRuns, RestoreByte(r) PROVE \A c \in Cells, i \in PatchRuns : Edge(c, i)' => journal'[i].status = "applied"
  <2>1. journal' = journal /\ \A c \in Cells : landed'[c] \subseteq landed[c]
    BY <1>9 DEF RestoreByte
  <2> QED
    BY <1>0, <2>1 DEF Edge, IsBytes
<1>10. ASSUME NEW r \in PatchRuns, Arm(r) PROVE \A c \in Cells, i \in PatchRuns : Edge(c, i)' => journal'[i].status = "applied"
  BY <1>0, <1>10 DEF Arm, Edge, IsBytes
<1>11. ASSUME NEW r \in PatchRuns, Disarm(r) PROVE \A c \in Cells, i \in PatchRuns : Edge(c, i)' => journal'[i].status = "applied"
  BY <1>0, <1>11 DEF Disarm, Edge, IsBytes
<1>12. ASSUME NEW r \in PatchRuns, SettlePlanted(r) PROVE \A c \in Cells, i \in PatchRuns : Edge(c, i)' => journal'[i].status = "applied"
  BY <1>0, <1>12 DEF SettlePlanted, Edge, IsBytes, Types
<1>13. ASSUME NEW r \in PatchRuns, SettleArmed(r) PROVE \A c \in Cells, i \in PatchRuns : Edge(c, i)' => journal'[i].status = "applied"
  BY <1>0, <1>13 DEF SettleArmed, Edge, IsBytes, Types
<1>14. ASSUME NEW r \in PatchRuns, UndoWrite(r) PROVE \A c \in Cells, i \in PatchRuns : Edge(c, i)' => journal'[i].status = "applied"
  <2>1. journal' = journal /\ \A c \in Cells : landed'[c] \subseteq landed[c]
    BY <1>14 DEF UndoWrite
  <2> QED
    BY <1>0, <2>1 DEF Edge, IsBytes
<1>15. ASSUME NEW r \in PatchRuns, UndoSave(r) PROVE \A c \in Cells, i \in PatchRuns : Edge(c, i)' => journal'[i].status = "applied"
  <2>0. PICK k \in PatchRuns : k = run[r].id
    BY <1>0, <1>15 DEF UndoSave, UndoRecord, UndoSteps
  <2>1. /\ landed' = landed /\ run[r].rec \in PatchRecords
        /\ \A c \in DOMAIN run[r].rec.after : k \notin landed[c]
    BY <1>0, <2>0, <1>15 DEF UndoSave, UndoRecord, UndoSteps, Session
  <2>2. /\ \A j \in PatchRuns : j # k => journal'[j] = journal[j]
        /\ journal'[k] \in {Torn, [run[r].rec EXCEPT !.status = "undone"]}
    BY <1>0, <2>0, <2>1, <1>15 DEF UndoSave, Types
  <2>3. [run[r].rec EXCEPT !.status = "undone"].after = run[r].rec.after
    BY <2>1, UndoneFacts
  <2>4. \A c \in Cells : ~Edge(c, k)'
    <3> SUFFICES ASSUME NEW c \in Cells, k \in landed[c],
                        journal'[k] # Torn, c \in DOMAIN journal'[k].after
                 PROVE  FALSE
      BY <2>1, <2>2 DEF Edge, IsBytes
    <3> QED
      BY <2>1, <2>2, <2>3
  <2> QED
    BY <1>0, <2>1, <2>2, <2>4 DEF Edge, IsBytes
<1>16. ASSUME NEW r \in PatchRuns, UndoWatch(r) PROVE \A c \in Cells, i \in PatchRuns : Edge(c, i)' => journal'[i].status = "applied"
  BY <1>0, <1>16 DEF UndoWatch, Edge, IsBytes, Types
<1>17. ASSUME NEW r \in PatchRuns, KillRun(r) PROVE \A c \in Cells, i \in PatchRuns : Edge(c, i)' => journal'[i].status = "applied"
  BY <1>0, <1>17 DEF KillRun, Edge, IsBytes
<1>18. CASE TargetExits
  BY <1>0, <1>18 DEF TargetExits, Edge, IsBytes
<1>19. CASE UNCHANGED patchVars
  BY <1>0, <1>19 DEF patchVars, Edge, IsBytes
<1> QED
  BY <1>1, <1>2, <1>3, <1>4, <1>5, <1>6, <1>7, <1>8, <1>9, <1>10, <1>11, <1>12, <1>13, <1>14, <1>15, <1>16, <1>17, <1>18, <1>19 DEF PatchNext

\* No step brings a byte back to the record's, or the target back.
LEMMA OneWay ==
    ASSUME [PatchNext]_patchVars
    PROVE  loose \subseteq loose' /\ (gone => gone')
<1>1. ASSUME NEW r \in PatchRuns, StartApply(r) PROVE loose \subseteq loose' /\ (gone => gone')
  BY <1>1 DEF StartApply
<1>2. ASSUME NEW r \in PatchRuns, StartPlant(r) PROVE loose \subseteq loose' /\ (gone => gone')
  BY <1>2 DEF StartPlant
<1>3. ASSUME NEW r \in PatchRuns, StartWatch(r) PROVE loose \subseteq loose' /\ (gone => gone')
  BY <1>3 DEF StartWatch
<1>4. ASSUME NEW r \in PatchRuns, StartUndo(r) PROVE loose \subseteq loose' /\ (gone => gone')
  BY <1>4 DEF StartUndo
<1>5. ASSUME NEW r \in PatchRuns, OpenRecord(r) PROVE loose \subseteq loose' /\ (gone => gone')
  BY <1>5 DEF OpenRecord
<1>6. ASSUME NEW r \in PatchRuns, FinishRecord(r) PROVE loose \subseteq loose' /\ (gone => gone')
  BY <1>6 DEF FinishRecord
<1>7. ASSUME NEW r \in PatchRuns, WriteTarget(r) PROVE loose \subseteq loose' /\ (gone => gone')
  BY <1>7 DEF WriteTarget
<1>8. ASSUME NEW r \in PatchRuns, TakeBack(r) PROVE loose \subseteq loose' /\ (gone => gone')
  BY <1>8 DEF TakeBack
<1>9. ASSUME NEW r \in PatchRuns, RestoreByte(r) PROVE loose \subseteq loose' /\ (gone => gone')
  BY <1>9 DEF RestoreByte
<1>10. ASSUME NEW r \in PatchRuns, Arm(r) PROVE loose \subseteq loose' /\ (gone => gone')
  BY <1>10 DEF Arm
<1>11. ASSUME NEW r \in PatchRuns, Disarm(r) PROVE loose \subseteq loose' /\ (gone => gone')
  BY <1>11 DEF Disarm
<1>12. ASSUME NEW r \in PatchRuns, SettlePlanted(r) PROVE loose \subseteq loose' /\ (gone => gone')
  BY <1>12 DEF SettlePlanted
<1>13. ASSUME NEW r \in PatchRuns, SettleArmed(r) PROVE loose \subseteq loose' /\ (gone => gone')
  BY <1>13 DEF SettleArmed
<1>14. ASSUME NEW r \in PatchRuns, UndoWrite(r) PROVE loose \subseteq loose' /\ (gone => gone')
  BY <1>14 DEF UndoWrite
<1>15. ASSUME NEW r \in PatchRuns, UndoSave(r) PROVE loose \subseteq loose' /\ (gone => gone')
  BY <1>15 DEF UndoSave
<1>16. ASSUME NEW r \in PatchRuns, UndoWatch(r) PROVE loose \subseteq loose' /\ (gone => gone')
  BY <1>16 DEF UndoWatch
<1>17. ASSUME NEW r \in PatchRuns, KillRun(r) PROVE loose \subseteq loose' /\ (gone => gone')
  BY <1>17 DEF KillRun
<1>18. CASE TargetExits
  BY <1>18 DEF TargetExits
<1>19. CASE UNCHANGED patchVars
  BY <1>19 DEF patchVars
<1> QED
  BY <1>1, <1>2, <1>3, <1>4, <1>5, <1>6, <1>7, <1>8, <1>9, <1>10, <1>11, <1>12, <1>13, <1>14, <1>15, <1>16, <1>17, <1>18, <1>19 DEF PatchNext

\* The balance, step by step.
LEMMA BalanceStep ==
    ASSUME AtOnce = 1, ~Unreachable, JournalInv, BalanceInv, [PatchNext]_patchVars
    PROVE  ~gone' => \A c \in Cells \ loose', v \in Byte : Balanced(c, v)'
<1> SUFFICES ASSUME ~gone', NEW c \in Cells, c \notin loose', NEW v \in Byte
             PROVE  Balanced(c, v)'
  OBVIOUS
<1>0. /\ Types /\ \A r \in PatchRuns : OwnRecord(r) /\ UndoRecord(r) /\ Session(r)
      /\ Balanced(c, v) /\ ~gone
  BY OneWay DEF JournalInv, BalanceInv
<1>1. ASSUME NEW r \in PatchRuns, StartApply(r) PROVE Balanced(c, v)'
  <2>1. \A j \in PatchRuns : SameEdge(c, j)
    BY <1>0, <1>1 DEF StartApply, SameEdge, Edge, IsBytes, Types
  <2>2. mem' = mem
    BY <1>1 DEF StartApply
  <2> QED
    BY <1>0, <2>1, <2>2, BalanceFrame
<1>2. ASSUME NEW r \in PatchRuns, StartPlant(r) PROVE Balanced(c, v)'
  <2>1. \A j \in PatchRuns : SameEdge(c, j)
    BY <1>0, <1>2 DEF StartPlant, SameEdge, Edge, IsBytes, Types
  <2>2. mem' = mem
    BY <1>2 DEF StartPlant
  <2> QED
    BY <1>0, <2>1, <2>2, BalanceFrame
<1>3. ASSUME NEW r \in PatchRuns, StartWatch(r) PROVE Balanced(c, v)'
  <2>1. \A j \in PatchRuns : SameEdge(c, j)
    BY <1>0, <1>3 DEF StartWatch, SameEdge, Edge, IsBytes, Types
  <2>2. mem' = mem
    BY <1>3 DEF StartWatch
  <2> QED
    BY <1>0, <2>1, <2>2, BalanceFrame
<1>4. ASSUME NEW r \in PatchRuns, StartUndo(r) PROVE Balanced(c, v)'
  <2>1. \A j \in PatchRuns : SameEdge(c, j)
    BY <1>0, <1>4 DEF StartUndo, SameEdge, Edge, IsBytes, Types
  <2>2. mem' = mem
    BY <1>4 DEF StartUndo
  <2> QED
    BY <1>0, <2>1, <2>2, BalanceFrame
<1>5. ASSUME NEW r \in PatchRuns, OpenRecord(r) PROVE Balanced(c, v)'
  <2>1. \A j \in PatchRuns : SameEdge(c, j)
    BY <1>0, <1>5 DEF OpenRecord, SameEdge, Edge, IsBytes, Types
  <2>2. mem' = mem
    BY <1>5 DEF OpenRecord
  <2> QED
    BY <1>0, <2>1, <2>2, BalanceFrame
<1>6. ASSUME NEW r \in PatchRuns, FinishRecord(r) PROVE Balanced(c, v)'
  <2>0. r \notin landed[c]
    BY <1>0, <1>6 DEF FinishRecord, Session
  <2>1. \A j \in PatchRuns : SameEdge(c, j)
    BY <1>0, <2>0, <1>6 DEF FinishRecord, SameEdge, Edge, IsBytes, Types
  <2>2. mem' = mem
    BY <1>6 DEF FinishRecord
  <2> QED
    BY <1>0, <2>1, <2>2, BalanceFrame
<1>7. ASSUME NEW r \in PatchRuns, WriteTarget(r) PROVE Balanced(c, v)'
  <2> DEFINE p == run[r].rec.after
  <2>1. /\ r \notin landed[c] /\ journal[r] = run[r].rec /\ run[r].rec \in PatchRecords
        /\ DOMAIN run[r].rec.before = DOMAIN p /\ Under(run[r].rec.before) = run[r].rec.before
    BY <1>0, <1>7 DEF WriteTarget, OwnRecord, OwnSteps, Session, Matched
  <2>2. IsBytes(r) /\ p \in Patches /\ run[r].rec.before \in Patches
    BY <2>1, RecordFacts DEF IsBytes
  <2>3. journal' = journal /\ ~Edge(c, r)
    BY <2>1, <1>7 DEF WriteTarget, Edge
  <2>4. ASSUME mem' = Over(p, DOMAIN p),
               landed' = [d \in Cells |-> IF d \in DOMAIN p THEN landed[d] \cup {r} ELSE landed[d]]
        PROVE  Balanced(c, v)'
    <3>1. mem'[c] = IF c \in DOMAIN p THEN p[c] ELSE mem[c]
      BY <1>0, <2>2, <2>4, OverFacts
    <3>2. landed'[c] = IF c \in DOMAIN p THEN landed[c] \cup {r} ELSE landed[c]
      BY <2>4
    <3>3. SameBut(c, r)
      BY <2>3, <3>2 DEF SameBut, SameEdge, Edge, IsBytes
    <3>4. CASE c \in DOMAIN p
      <4>1. journal[r].before[c] = mem[c]
        BY <1>0, <2>1, <2>2, <3>4, UnderFacts
      <4>2. Edge(c, r)'
        BY <2>1, <2>2, <2>3, <3>2, <3>4 DEF Edge, IsBytes
      <4> QED
        BY <1>0, <2>1, <2>3, <3>1, <3>3, <3>4, <4>1, <4>2, BalanceIn
    <3>5. CASE c \notin DOMAIN p
      <4>1. \A j \in PatchRuns : SameEdge(c, j)
        BY <2>3, <3>2, <3>5 DEF SameEdge, Edge, IsBytes
      <4> QED
        BY <1>0, <3>1, <3>5, <4>1, BalanceFrame
    <3> QED
      BY <3>4, <3>5
  <2>5. ASSUME landed' = landed, NEW S \in SUBSET DOMAIN p, mem' = Over(p, S), loose' = loose \cup S
        PROVE  Balanced(c, v)'
    <3>1. mem'[c] = mem[c]
      BY <1>0, <2>2, <2>5, OverFacts
    <3>2. \A j \in PatchRuns : SameEdge(c, j)
      BY <2>3, <2>5 DEF SameEdge, Edge, IsBytes
    <3> QED
      BY <1>0, <3>1, <3>2, BalanceFrame
  <2>6. Beginnings(p) \subseteq SUBSET DOMAIN p
    BY DEF Beginnings
  <2> QED
    BY <1>0, <2>4, <2>5, <2>6, <1>7 DEF WriteTarget
<1>8. ASSUME NEW r \in PatchRuns, TakeBack(r) PROVE Balanced(c, v)'
  <2>0. r \notin landed[c]
    BY <1>0, <1>8 DEF TakeBack, Session
  <2>1. \A j \in PatchRuns : SameEdge(c, j)
    BY <1>0, <2>0, <1>8 DEF TakeBack, SameEdge, Edge, IsBytes, Types
  <2>2. mem' = mem
    BY <1>8 DEF TakeBack
  <2> QED
    BY <1>0, <2>1, <2>2, BalanceFrame
<1>9. ASSUME NEW r \in PatchRuns, RestoreByte(r) PROVE Balanced(c, v)'
  <2> DEFINE p == run[r].rec.before
  <2>1. /\ journal[r] = run[r].rec /\ run[r].rec \in PatchRecords /\ DOMAIN run[r].rec.after = DOMAIN p
        /\ \A d \in DOMAIN p : r \in landed[d] /\ mem[d] = run[r].rec.after[d]
    BY <1>0, <1>9 DEF RestoreByte, OwnRecord, OwnSteps, Session, Matched
  <2>2. IsBytes(r) /\ p \in Patches
    BY <2>1, RecordFacts DEF IsBytes
  <2>3. journal' = journal
    BY <1>9 DEF RestoreByte
  <2>4. CASE mem' = Over(p, DOMAIN p) /\ landed' = [d \in Cells |-> landed[d] \ {r}]
    <3>1. mem'[c] = IF c \in DOMAIN p THEN p[c] ELSE mem[c]
      BY <1>0, <2>2, <2>4, OverFacts
    <3>2. landed'[c] = landed[c] \ {r}
      BY <2>4
    <3>3. SameBut(c, r) /\ ~Edge(c, r)'
      BY <2>3, <3>2 DEF SameBut, SameEdge, Edge, IsBytes
    <3>4. CASE c \in DOMAIN p
      <4>1. Edge(c, r)
        BY <2>1, <2>2, <3>4 DEF Edge
      <4> QED
        BY <1>0, <2>1, <3>1, <3>3, <3>4, <4>1, BalanceOut
    <3>5. CASE c \notin DOMAIN p
      <4>1. ~Edge(c, r)
        BY <2>1, <3>5 DEF Edge
      <4>2. \A j \in PatchRuns : SameEdge(c, j)
        BY <3>3, <4>1 DEF SameBut, SameEdge
      <4> QED
        BY <1>0, <3>1, <3>5, <4>2, BalanceFrame
    <3> QED
      BY <3>4, <3>5
  <2>5. CASE UNCHANGED <<mem, landed>>
    <3>1. \A j \in PatchRuns : SameEdge(c, j)
      BY <2>3, <2>5 DEF SameEdge, Edge, IsBytes
    <3> QED
      BY <1>0, <2>5, <3>1, BalanceFrame
  <2> QED
    BY <2>4, <2>5, <1>9 DEF RestoreByte
<1>10. ASSUME NEW r \in PatchRuns, Arm(r) PROVE Balanced(c, v)'
  <2>1. \A j \in PatchRuns : SameEdge(c, j)
    BY <1>0, <1>10 DEF Arm, SameEdge, Edge, IsBytes, Types
  <2>2. mem' = mem
    BY <1>10 DEF Arm
  <2> QED
    BY <1>0, <2>1, <2>2, BalanceFrame
<1>11. ASSUME NEW r \in PatchRuns, Disarm(r) PROVE Balanced(c, v)'
  <2>1. \A j \in PatchRuns : SameEdge(c, j)
    BY <1>0, <1>11 DEF Disarm, SameEdge, Edge, IsBytes, Types
  <2>2. mem' = mem
    BY <1>11 DEF Disarm
  <2> QED
    BY <1>0, <2>1, <2>2, BalanceFrame
<1>12. ASSUME NEW r \in PatchRuns, SettlePlanted(r) PROVE Balanced(c, v)'
  <2>1. /\ journal[r] = run[r].rec /\ run[r].rec \in PatchRecords /\ Matched(run[r].rec)
        /\ \A d \in DOMAIN run[r].rec.after : r \in landed[d] => mem[d] = run[r].rec.after[d]
    BY <1>0, <1>12 DEF SettlePlanted, OwnRecord, OwnSteps, Session
  <2>2. landed' = landed /\ mem' = mem
    BY <1>12 DEF SettlePlanted
  <2>3. \/ journal' = journal
        \/ /\ journal' = [journal EXCEPT ![r] = NoRecord]
           /\ Under(run[r].rec.before) = run[r].rec.before
    BY <1>0, <1>12 DEF SettlePlanted, Attached
  <2>4. CASE journal' = journal
    <3>1. \A j \in PatchRuns : SameEdge(c, j)
      BY <2>2, <2>4 DEF SameEdge, Edge, IsBytes
    <3> QED
      BY <1>0, <2>2, <3>1, BalanceFrame
  <2>5. CASE journal' = [journal EXCEPT ![r] = NoRecord] /\ Under(run[r].rec.before) = run[r].rec.before
    <3>1. journal'[r] = NoRecord /\ \A j \in PatchRuns : j # r => journal'[j] = journal[j]
      BY <1>0, <2>5 DEF Types
    <3>2. SameBut(c, r) /\ ~Edge(c, r)'
      BY <2>2, <3>1 DEF SameBut, SameEdge, Edge, IsBytes
    <3>3. CASE Edge(c, r)
      <4>1. r \in landed[c] /\ c \in DOMAIN run[r].rec.after /\ c \in DOMAIN run[r].rec.before
        BY <2>1, <3>3 DEF Edge, Matched
      <4>2. run[r].rec.before \in Patches
        BY <2>1, RecordFacts
      <4>3. run[r].rec.before[c] = mem[c]
        BY <1>0, <2>5, <4>1, <4>2, UnderFacts
      <4>4. run[r].rec.after[c] = mem[c]
        BY <2>1, <4>1
      <4> QED
        BY <1>0, <2>1, <2>2, <3>2, <3>3, <4>3, <4>4, BalanceOut
    <3>4. CASE ~Edge(c, r)
      <4>1. \A j \in PatchRuns : SameEdge(c, j)
        BY <3>2, <3>4 DEF SameBut, SameEdge
      <4> QED
        BY <1>0, <2>2, <4>1, BalanceFrame
    <3> QED
      BY <3>3, <3>4
  <2> QED
    BY <2>3, <2>4, <2>5
<1>13. ASSUME NEW r \in PatchRuns, SettleArmed(r) PROVE Balanced(c, v)'
  <2>0. ~IsBytes(r)
    BY <1>0, <1>13, RecordFacts DEF SettleArmed, OwnRecord, OwnSteps, IsBytes
  <2>1. \A j \in PatchRuns : SameEdge(c, j)
    BY <1>0, <2>0, <1>13 DEF SettleArmed, SameEdge, Edge, IsBytes, Types
  <2>2. mem' = mem
    BY <1>13 DEF SettleArmed
  <2> QED
    BY <1>0, <2>1, <2>2, BalanceFrame
<1>14. ASSUME NEW r \in PatchRuns, UndoWrite(r) PROVE Balanced(c, v)'
  <2>0. PICK i \in PatchRuns : i = run[r].id
    BY <1>0, <1>14 DEF UndoRecord, UndoWrite, UndoSteps
  <2> DEFINE p == run[r].rec.before
  <2>1. /\ journal[i] = run[r].rec /\ run[r].rec \in PatchRecords /\ DOMAIN run[r].rec.after = DOMAIN p
        /\ Under(run[r].rec.after) = run[r].rec.after
    BY <1>0, <2>0, <1>14 DEF UndoWrite, UndoRecord, UndoSteps, Session, Matched
  <2>2. IsBytes(i) /\ p \in Patches /\ run[r].rec.after \in Patches
    BY <2>1, RecordFacts DEF IsBytes
  <2>3. PICK S \in SUBSET DOMAIN p :
          /\ mem' = Over(p, S)
          /\ loose' = loose \cup {d \in S : i \notin landed[d]}
          /\ landed' = [d \in Cells |-> IF d \in S THEN landed[d] \ {i} ELSE landed[d]]
    BY <2>0, <1>14 DEF UndoWrite
  <2>4. journal' = journal
    BY <1>14 DEF UndoWrite
  <2>5. mem'[c] = IF c \in S THEN p[c] ELSE mem[c]
    BY <1>0, <2>2, <2>3, OverFacts
  <2>6. CASE c \in S
    <3>1. i \in landed[c] /\ c \in DOMAIN p
      BY <2>3, <2>6
    <3>2. landed'[c] = landed[c] \ {i}
      BY <2>3, <2>6
    <3>3. SameBut(c, i) /\ ~Edge(c, i)' /\ Edge(c, i)
      BY <2>1, <2>2, <2>4, <3>1, <3>2 DEF SameBut, SameEdge, Edge, IsBytes
    <3>4. journal[i].after[c] = mem[c]
      BY <1>0, <2>1, <2>2, <3>1, UnderFacts
    <3> QED
      BY <1>0, <2>1, <2>5, <2>6, <3>3, <3>4, BalanceOut
  <2>7. CASE c \notin S
    <3>1. landed'[c] = landed[c]
      BY <2>3, <2>7
    <3>2. \A j \in PatchRuns : SameEdge(c, j)
      BY <2>4, <3>1 DEF SameEdge, Edge, IsBytes
    <3> QED
      BY <1>0, <2>5, <2>7, <3>2, BalanceFrame
  <2> QED
    BY <2>6, <2>7
<1>15. ASSUME NEW r \in PatchRuns, UndoSave(r) PROVE Balanced(c, v)'
  <2>0. PICK i \in PatchRuns : i = run[r].id
    BY <1>0, <1>15 DEF UndoRecord, UndoSave, UndoSteps
  <2>a. /\ mem' = mem /\ landed' = landed /\ run[r].rec \in PatchRecords /\ journal[i] \in {run[r].rec, Torn}
        /\ \A d \in DOMAIN run[r].rec.after : i \notin landed[d]
    BY <1>0, <2>0, <1>15 DEF UndoSave, UndoRecord, UndoSteps, Session
  <2>b. /\ \A j \in PatchRuns : j # i => journal'[j] = journal[j]
        /\ journal'[i] \in {Torn, [run[r].rec EXCEPT !.status = "undone"]}
    BY <1>0, <2>0, <1>15 DEF UndoSave, Types
  <2>c. [run[r].rec EXCEPT !.status = "undone"].after = run[r].rec.after
    BY <2>a, UndoneFacts
  <2>d. ~Edge(c, i)
    BY <2>a DEF Edge, IsBytes
  <2>e. ~Edge(c, i)'
    BY <2>a, <2>b, <2>c DEF Edge, IsBytes
  <2>1. \A j \in PatchRuns : SameEdge(c, j)
    BY <2>a, <2>b, <2>d, <2>e DEF SameEdge, Edge, IsBytes
  <2> QED
    BY <1>0, <2>1, <2>a, BalanceFrame
<1>16. ASSUME NEW r \in PatchRuns, UndoWatch(r) PROVE Balanced(c, v)'
  <2>0. PICK i \in PatchRuns : IsRegister(i) /\ journal' \in {journal, [journal EXCEPT ![i] = NoRecord]}
    BY <1>16 DEF UndoWatch
  <2>3. ~IsBytes(i) /\ ~IsBytes(i)' /\ \A j \in PatchRuns : j # i => journal'[j] = journal[j]
    BY <1>0, <2>0 DEF Types, IsBytes, IsRegister
  <2>2. mem' = mem /\ landed' = landed
    BY <1>16 DEF UndoWatch
  <2>1. \A j \in PatchRuns : SameEdge(c, j)
    BY <2>2, <2>3 DEF SameEdge, Edge, IsBytes
  <2> QED
    BY <1>0, <2>1, <2>2, BalanceFrame
<1>17. ASSUME NEW r \in PatchRuns, KillRun(r) PROVE Balanced(c, v)'
  <2>1. \A j \in PatchRuns : SameEdge(c, j)
    BY <1>0, <1>17 DEF KillRun, SameEdge, Edge, IsBytes, Types
  <2>2. mem' = mem
    BY <1>17 DEF KillRun
  <2> QED
    BY <1>0, <2>1, <2>2, BalanceFrame
<1>18. CASE TargetExits
  BY <1>18 DEF TargetExits
<1>19. CASE UNCHANGED patchVars
  <2>1. \A j \in PatchRuns : SameEdge(c, j)
    BY <1>19 DEF patchVars, SameEdge, Edge, IsBytes
  <2>2. mem' = mem
    BY <1>19 DEF patchVars
  <2> QED
    BY <1>0, <2>1, <2>2, BalanceFrame
<1> QED
  BY <1>1, <1>2, <1>3, <1>4, <1>5, <1>6, <1>7, <1>8, <1>9, <1>10, <1>11, <1>12, <1>13, <1>14, <1>15, <1>16, <1>17, <1>18, <1>19 DEF PatchNext

\* Together: the invariant of one run at a time.
LEMMA BalanceInvariant ==
    ASSUME AtOnce = 1, ~Unreachable PROVE PatchSpec => [](JournalInv /\ BalanceInv)
<1>1. PatchInit => BalanceInv
  <2> SUFFICES ASSUME PatchInit PROVE BalanceInv
    OBVIOUS
  <2>1. \A r \in PatchRuns : run[r].pc = "idle"
    BY DEF PatchInit, IdleRun
  <2>2. Active = {} /\ \A c \in Cells : landed[c] = {}
    BY <2>1 DEF Active, Ended, PatchInit
  <2>3. \A r \in PatchRuns : Session(r)
    BY <2>1, <2>2 DEF Session
  <2>4. \A c \in Cells : \A i : ~Edge(c, i)
    BY <2>2 DEF Edge
  <2>5. \A c \in Cells : \A v : From(c, v) = {} /\ To(c, v) = {}
    BY <2>4 DEF From, To
  <2>6. \A c \in Cells : \A v : Balanced(c, v)
    BY <2>5, FS_EmptySet DEF Balanced, PatchInit
  <2> QED
    BY <2>2, <2>3, <2>4, <2>6 DEF BalanceInv
<1>2. JournalInv /\ BalanceInv /\ [PatchNext]_patchVars => BalanceInv'
  BY AloneStep, SessionStep, AppliedStep, BalanceStep DEF BalanceInv
<1> QED
  BY <1>1, <1>2, JournalInvariant, PTL DEF PatchSpec

\* Every byte of the target that is not its own is covered by a record that can
\* still be undone, but for the loose ones: for any number of runs one after the
\* other, killed anywhere, whatever lands of a write that fails.
THEOREM ChangesOnRecord ==
    ASSUME AtOnce = 1, ~Unreachable PROVE PatchSpec => []OnlyLooseBytesAreOffRecord
<1>1. JournalInv /\ BalanceInv => OnlyLooseBytesAreOffRecord
  <2> SUFFICES ASSUME JournalInv, BalanceInv, ~gone, NEW c \in Cells, c \notin loose, mem[c] # Original[c]
               PROVE  OnRecord(c)
    BY DEF OnlyLooseBytesAreOffRecord
  <2>1. mem[c] \in Byte
    BY DEF JournalInv, Types
  <2>2. Balanced(c, mem[c])
    BY <2>1 DEF BalanceInv
  <2>3. Cardinality(From(c, mem[c])) \in Nat /\ Cardinality(To(c, mem[c])) \in Nat
    BY EdgesFinite, FS_CardinalityType
  <2>4. Cardinality(To(c, mem[c])) # 0
    BY <2>2, <2>3 DEF Balanced
  <2>5. To(c, mem[c]) # {}
    BY <2>4, FS_EmptySet
  <2>6. PICK i \in PatchRuns : Edge(c, i)
    BY <2>5 DEF To
  <2> QED
    BY <2>6 DEF OnRecord, BalanceInv, Edge
<1> QED
  BY <1>1, BalanceInvariant, PTL
=============================================================================
