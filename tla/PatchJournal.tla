---------------------------- MODULE PatchJournal ----------------------------
(***************************************************************************)
(* The patch journal of n0xis-project (patch.rs) and the commands that     *)
(* keep it: `patch apply`, `patch undo`, `debug await-hit`, which plants a *)
(* breakpoint byte for the length of its run, and `debug watch`, which     *)
(* arms a debug register in every thread.  Each of them changes a live     *)
(* target and, before it does, writes a record under .n0x/patches/.        *)
(*                                                                         *)
(* A run of a command is one process.  It can be killed between any two    *)
(* of its steps, a write into the target can fail, in part or as a whole,  *)
(* and what it left in the target and in the journal is all the next       *)
(* command has.                                                            *)
(*                                                                         *)
(* The debug session is reduced to what the journal sees of it: the byte   *)
(* goes in, and comes out or does not; the registers of the threads that   *)
(* stop are armed, and put back.  DebugLinux has the session itself.       *)
(***************************************************************************)
EXTENDS Naturals, FiniteSets

CONSTANTS
    Cells,          \* the addresses patched, consecutive numbers
    Byte,           \* the values of a byte
    Int3,           \* the value of a breakpoint, 0xCC
    Original,       \* what the target holds before any command: Cells -> Byte
    TargetThreads,  \* the threads of the target
    WatchSlots,     \* the watchpoints asked for: an address and the bits of
                    \* DR7 that give its type and length
    PatchRuns,      \* the runs of commands, in the order they start: 1..n
    PatchKinds,     \* the commands that may be run
    AtOnce,         \* how many runs may be in progress together
    Unreachable,    \* attach_live may fail on a target that is alive
    NoRecord,       \* no record, no command, no watchpoint
    Torn            \* a record whose file a kill cut short

ASSUME PatchAssumption ==
    /\ Cells \subseteq Nat /\ PatchRuns \subseteq Nat /\ AtOnce \in Nat \ {0}
    /\ Int3 \in Byte /\ Original \in [Cells -> Byte]
    /\ PatchKinds \subseteq {"apply", "plant", "watch", "undo"}
    /\ Unreachable \in BOOLEAN
    /\ IsFiniteSet(PatchRuns)

VARIABLES
    mem,        \* the bytes of the target
    regs,       \* thread -> what its debug register, DR0 and DR7's bits of it,
                \* is armed with, or NoRecord
    gone,       \* the target has exited
    journal,    \* id -> a record, NoRecord, or Torn: a file a kill cut short
    run,        \* run -> what it is doing
    savedRegs,  \* the session's `armed`: what it found in the threads it armed
    landed,     \* history: address -> the ids whose byte reached it and was not
                \* written back since, by an undo or by the run itself
    loose       \* history: the addresses written outside what the journal keeps:
                \* by an apply that failed in part, or by an undo of a record
                \* whose byte was not there

inTarget == <<mem, regs, gone>>
history == <<landed, loose>>
patchVars == <<inTarget, journal, run, savedRegs, history>>

\* A patch covers consecutive addresses.
Ranges == {S \in SUBSET Cells : S # {} /\ \A a, b \in S : \A c \in Cells : a <= c /\ c <= b => c \in S}

Patches == UNION {[S -> Byte] : S \in Ranges}

\* PatchRecord.  `planted` is planted_by, the command's own bytes.
PatchRecords == [what : {"bytes"}, before : Patches, after : Patches,
                 status : {"applied", "undone"}, planted : BOOLEAN]

\* WatchRecord: there is no `undone` for it to be.
WatchRecords == [what : {"register"}, slot : WatchSlots, status : {"applied"}]

ASSUME RecordAssumption == NoRecord # Torn /\ {NoRecord, Torn} \cap (PatchRecords \cup WatchRecords) = {}

IdleRun == [pc |-> "idle", kind |-> NoRecord, id |-> NoRecord, rec |-> NoRecord]

Steps == {"idle", "recording", "recorded", "take_back", "planted", "armed",
          "settle", "writing", "saving", "saved", "done"}

PatchTypeOK ==
    /\ mem \in [Cells -> Byte]
    /\ \A t \in TargetThreads : regs[t] = NoRecord \/ regs[t].mixed \in BOOLEAN
    /\ gone \in BOOLEAN /\ DOMAIN savedRegs \subseteq TargetThreads
    /\ \A i \in PatchRuns : \/ journal[i] \in {NoRecord, Torn}
                            \/ journal[i] \in PatchRecords \cup WatchRecords
    /\ \A r \in PatchRuns : /\ run[r].pc \in Steps
                            /\ run[r].kind \in PatchKinds \cup {NoRecord}
                            /\ run[r].id \in PatchRuns \cup {NoRecord}
    /\ landed \in [Cells -> SUBSET PatchRuns] /\ loose \subseteq Cells

NothingSaved == [t \in {} |-> NoRecord]

PatchInit ==
    /\ mem = Original
    /\ regs = [t \in TargetThreads |-> NoRecord]
    /\ gone = FALSE
    /\ journal = [i \in PatchRuns |-> NoRecord]
    /\ run = [r \in PatchRuns |-> IdleRun]
    /\ savedRegs = NothingSaved
    /\ landed = [c \in Cells |-> {}] /\ loose = {}

Ended == {"idle", "done"}
Active == {r \in PatchRuns : run[r].pc \notin Ended}

\* One tracer at a time: a second session's PTRACE_SEIZE is refused.  A run
\* that settles its record has let go of the target.
Tracing(r) == run[r].kind \in {"plant", "watch"} /\ run[r].pc \notin Ended \cup {"settle"}
Traced == \E r \in PatchRuns : Tracing(r)

\* PatchRuns are numbered as they start.
MayStart(r, kind) ==
    /\ kind \in PatchKinds
    /\ run[r].pc = "idle"
    /\ \A q \in PatchRuns : q < r => run[q].pc # "idle"
    /\ Cardinality(Active) < AtOnce
    /\ ~gone

\* The next step of a run.  One that has ended keeps nothing.
Goes(r, step) ==
    run' = [run EXCEPT ![r] = IF step \in Ended THEN [IdleRun EXCEPT !.pc = step]
                              ELSE [@ EXCEPT !.pc = step]]

\* The bytes of the target under a patch.
Under(p) == [c \in DOMAIN p |-> mem[c]]

\* The target with a patch, or what lands of it, written over it.
Over(p, S) == [c \in Cells |-> IF c \in S THEN p[c] ELSE mem[c]]

\* What lands of a write that fails: process_vm_writev stops where the memory
\* does, and the write through /proc/<pid>/mem after it fails there too.
Beginnings(p) ==
    {S \in SUBSET DOMAIN p : S # DOMAIN p /\ \A c \in S, d \in DOMAIN p : d < c => d \in S}

IsBytes(i) == journal[i] \notin {NoRecord, Torn} /\ journal[i].what = "bytes"
IsRegister(i) == journal[i] \notin {NoRecord, Torn} /\ journal[i].what = "register"

\* What a register is armed with; `mixed`, for the properties alone, if it is
\* not the slot that was asked for.
Armed(what, slot) == [slot |-> what, mixed |-> what # slot]

\* held_in: the address, the type and the length of this slot, and enabled.
Holding(slot) == {t \in TargetThreads : regs[t] # NoRecord /\ regs[t].slot = slot}
-----------------------------------------------------------------------------
(* Starting.                                                               *)

\* patch apply: read what is there.
StartApply(r) ==
    /\ MayStart(r, "apply")
    /\ \E p \in Patches :
          run' = [run EXCEPT ![r] =
                    [pc |-> "recording", kind |-> "apply", id |-> r,
                     rec |-> [what |-> "bytes", before |-> Under(p), after |-> p,
                              status |-> "applied", planted |-> FALSE]]]
    /\ UNCHANGED <<inTarget, journal, savedRegs, history>>

\* debug await-hit: attach, read the byte, and tell before_planting.
StartPlant(r) ==
    /\ MayStart(r, "plant")
    /\ ~Traced
    /\ \E c \in Cells :
          run' = [run EXCEPT ![r] =
                    [pc |-> "recording", kind |-> "plant", id |-> r,
                     rec |-> [what |-> "bytes", before |-> Under([d \in {c} |-> Int3]),
                              after |-> [d \in {c} |-> Int3],
                              status |-> "applied", planted |-> TRUE]]]
    /\ UNCHANGED <<inTarget, journal, savedRegs, history>>

\* debug watch: attach, and tell before_arming.
StartWatch(r) ==
    /\ MayStart(r, "watch")
    /\ ~Traced
    /\ \E slot \in WatchSlots :
          run' = [run EXCEPT ![r] =
                    [pc |-> "recording", kind |-> "watch", id |-> r,
                     rec |-> [what |-> "register", slot |-> slot, status |-> "applied"]]]
    /\ UNCHANGED <<inTarget, journal, savedRegs, history>>

\* Mutant: what is in the target now is not looked at.
UndoUnseen(r) ==
    /\ MayStart(r, "undo")
    /\ \E i \in PatchRuns :
          /\ IsBytes(i)
          /\ journal[i].status = "applied"
          /\ run' = [run EXCEPT ![r] = [pc |-> "writing", kind |-> "undo", id |-> i,
                                        rec |-> journal[i]]]
    /\ UNCHANGED <<inTarget, journal, savedRegs, history>>

\* patch undo of a record of bytes: a record that does not parse is not found,
\* one that is not applied has nothing to undo, and bytes that are not the
\* ones applied are refused.  The check is over when the write begins.
StartUndo(r) ==
    /\ MayStart(r, "undo")
    /\ \E i \in PatchRuns :
          /\ IsBytes(i)
          /\ journal[i].status = "applied"
          /\ Under(journal[i].after) = journal[i].after
          /\ run' = [run EXCEPT ![r] = [pc |-> "writing", kind |-> "undo", id |-> i,
                                        rec |-> journal[i]]]
    /\ UNCHANGED <<inTarget, journal, savedRegs, history>>
-----------------------------------------------------------------------------
(* The record, before the change.                                          *)

\* write_record begins: fs::write truncates, or creates, the file.  If it
\* fails the command ends, with nothing written into the target.
OpenRecord(r) ==
    /\ run[r].pc = "recording" /\ journal[r] = NoRecord
    /\ \/ journal' = [journal EXCEPT ![r] = Torn] /\ UNCHANGED run
       \/ Goes(r, "done") /\ UNCHANGED journal
    /\ UNCHANGED <<inTarget, savedRegs, history>>

\* record_before_writing and record_before_arming return.
FinishRecord(r) ==
    /\ run[r].pc = "recording" /\ journal[r] = Torn
    /\ journal' = [journal EXCEPT ![r] = run[r].rec]
    /\ Goes(r, "recorded")
    /\ UNCHANGED <<inTarget, savedRegs, history>>
-----------------------------------------------------------------------------
(* The change.                                                             *)

\* The write of apply or of the breakpoint.  A failed apply takes its record
\* back, whatever landed; a failed breakpoint, of one byte, returns through the
\* session to settle_planted.  What apply reads back changes nothing: a mismatch
\* is an error, and the record stays either way.
WriteTarget(r) ==
    LET p == run[r].rec.after IN
    /\ run[r].pc = "recorded" /\ run[r].kind \in {"apply", "plant"}
    /\ \/ /\ ~gone
          /\ mem' = Over(p, DOMAIN p)
          /\ landed' = [c \in Cells |-> IF c \in DOMAIN p THEN landed[c] \cup {r} ELSE landed[c]]
          /\ Goes(r, IF run[r].kind = "apply" THEN "done" ELSE "planted")
          /\ UNCHANGED loose
       \/ /\ \E S \in IF gone THEN {{}} ELSE Beginnings(p) :
                mem' = Over(p, S) /\ loose' = loose \cup S
          /\ Goes(r, IF run[r].kind = "apply" THEN "take_back" ELSE "settle")
          /\ UNCHANGED landed
    /\ UNCHANGED <<regs, gone, journal, savedRegs>>

\* take_back: the record of a write that failed goes.
TakeBack(r) ==
    /\ run[r].pc = "take_back"
    /\ journal' = [journal EXCEPT ![r] = NoRecord]
    /\ Goes(r, "done")
    /\ UNCHANGED <<inTarget, savedRegs, history>>

\* The session ends, by a hit, the deadline or a signal: the byte is put back,
\* whatever is there now, unless the write fails.
RestoreByte(r) ==
    LET p == run[r].rec.before IN
    /\ run[r].pc = "planted"
    /\ \/ ~gone /\ mem' = Over(p, DOMAIN p) /\ landed' = [c \in Cells |-> landed[c] \ {r}]
       \/ UNCHANGED <<mem, landed>>
    /\ Goes(r, "settle")
    /\ UNCHANGED <<regs, gone, journal, savedRegs, loose>>

\* With a mistake: nothing is kept of what was in the registers.
ArmAnew(r) ==
    LET slot == run[r].rec.slot IN
    /\ run[r].pc = "recorded" /\ run[r].kind = "watch"
    /\ \E S \in SUBSET TargetThreads :
          /\ gone => S = {}
          /\ regs' = [t \in TargetThreads |-> IF t \in S THEN Armed(slot, slot) ELSE regs[t]]
          /\ savedRegs' = [t \in S |-> NoRecord]
    /\ Goes(r, "armed")
    /\ UNCHANGED <<mem, gone, journal, history>>

\* arm_dr, on the threads that stop: DR0 gets the address, and DR7 the bits of
\* the slot beside the ones it has.  In some only DR0's write works.
Arm(r) ==
    LET slot == run[r].rec.slot
        both(t) == [addr |-> slot.addr,
                    bits |-> slot.bits \cup IF regs[t] = NoRecord THEN {} ELSE regs[t].slot.bits]
        half(t) == [regs[t].slot EXCEPT !.addr = slot.addr] IN
    /\ run[r].pc = "recorded" /\ run[r].kind = "watch"
    /\ \E S \in SUBSET TargetThreads, H \in SUBSET {t \in TargetThreads : regs[t] # NoRecord} :
          /\ S \cap H = {} /\ (gone => S = {})
          /\ regs' = [t \in TargetThreads |-> CASE t \in S -> Armed(both(t), slot)
                                         [] t \in H -> Armed(half(t), slot)
                                         [] OTHER -> regs[t]]
          /\ savedRegs' = [t \in S |-> regs[t]]
    /\ Goes(r, "armed")
    /\ UNCHANGED <<mem, gone, journal, history>>

\* The session's teardown puts back what it found, in the armed threads that stop.
Disarm(r) ==
    /\ run[r].pc = "armed"
    /\ \E S \in SUBSET DOMAIN savedRegs :
          /\ gone => S = {}
          /\ regs' = [t \in TargetThreads |-> IF t \in S THEN savedRegs[t] ELSE regs[t]]
    /\ savedRegs' = NothingSaved
    /\ Goes(r, "settle")
    /\ UNCHANGED <<mem, gone, journal, history>>
-----------------------------------------------------------------------------
(* The record, after the run.                                              *)

\* attach_live(pid).ok(): None for a target that is gone, and for one that
\* cannot be attached to.
Attached(live) == live \in {l \in BOOLEAN : (l => ~gone) /\ (~l => gone \/ Unreachable)}

\* settle_planted: out of the target, as read from it, and the record goes.
SettlePlanted(r) ==
    /\ run[r].pc = "settle" /\ run[r].kind = "plant"
    /\ \E live \in BOOLEAN :
          /\ Attached(live)
          /\ journal' = IF ~live \/ Under(run[r].rec.before) = run[r].rec.before
                        THEN [journal EXCEPT ![r] = NoRecord]
                        ELSE journal
    /\ Goes(r, "done")
    /\ UNCHANGED <<inTarget, savedRegs, history>>

\* Mutant: a thread that could not be read counts as clear.
ClearIfUnread(unread, left) == gone \/ left = {}

\* TargetSlots.clear: no thread was seen to hold the slot, and none was left
\* unread.  Gone is clear.
Clear(unread, left) == gone \/ (unread = {} /\ left = {})

\* read_watch_slots of the run's own slot, then settle_armed.  A walk needs the
\* seat of the tracer: refused, it is an error, and the record stays.
SettleArmed(r) ==
    /\ run[r].pc = "settle" /\ run[r].kind = "watch"
    /\ \E unread \in SUBSET TargetThreads :
          journal' = IF (Traced => gone) /\ Clear(unread, Holding(run[r].rec.slot) \ unread)
                     THEN [journal EXCEPT ![r] = NoRecord]
                     ELSE journal
    /\ Goes(r, "done")
    /\ UNCHANGED <<inTarget, savedRegs, history>>
-----------------------------------------------------------------------------
(* patch undo.                                                             *)

\* undo writes `before`.  A failed write leaves the record applied, whatever
\* landed of it.
UndoWrite(r) ==
    LET p == run[r].rec.before
        i == run[r].id IN
    /\ run[r].pc = "writing"
    /\ \E S \in SUBSET DOMAIN p :
          /\ \/ ~gone /\ S = DOMAIN p /\ Goes(r, "saving")
             \/ (IF gone THEN S = {} ELSE S \in Beginnings(p)) /\ Goes(r, "done")
          /\ mem' = Over(p, S)
          /\ loose' = loose \cup {c \in S : i \notin landed[c]}
          /\ landed' = [c \in Cells |-> IF c \in S THEN landed[c] \ {i} ELSE landed[c]]
    /\ UNCHANGED <<regs, gone, journal, savedRegs>>

\* undo saves the record over itself: the file is cut, then written.
UndoSave(r) ==
    /\ \/ /\ run[r].pc = "saving"
          /\ journal' = [journal EXCEPT ![run[r].id] = Torn]
          /\ Goes(r, "saved")
       \/ /\ run[r].pc = "saved"
          /\ journal' = [journal EXCEPT ![run[r].id] =
                           [run[r].rec EXCEPT !.status = "undone"]]
          /\ Goes(r, "done")
    /\ UNCHANGED <<inTarget, savedRegs, history>>

\* patch_undo_watch: one walk clears the slot from the threads it can stop that
\* hold it, and settle_armed follows what it saw.  A walk needs the seat of the
\* tracer.
UndoWatch(r) ==
    /\ MayStart(r, "undo")
    /\ ~Traced
    /\ \E i \in PatchRuns :
          /\ IsRegister(i)
          /\ \E unread \in SUBSET TargetThreads :
             \E left \in SUBSET (Holding(journal[i].slot) \ unread) :
                /\ regs' = [t \in TargetThreads |->
                              IF t \in Holding(journal[i].slot) \ (unread \cup left) THEN NoRecord
                              ELSE regs[t]]
                /\ journal' = IF Clear(unread, left) THEN [journal EXCEPT ![i] = NoRecord] ELSE journal
    /\ run' = [run EXCEPT ![r] = [IdleRun EXCEPT !.pc = "done"]]
    /\ UNCHANGED <<mem, gone, savedRegs, history>>
-----------------------------------------------------------------------------
\* SIGKILL, between any two steps: the run is over, and nobody can tell how.
KillRun(r) ==
    /\ r \in Active
    /\ Goes(r, "done")
    /\ savedRegs' = IF run[r].pc = "armed" THEN NothingSaved ELSE savedRegs
    /\ UNCHANGED <<inTarget, journal, history>>

\* The target exits: its threads hold nothing, and its bytes are no one's.
TargetExits ==
    /\ ~gone
    /\ gone' = TRUE
    /\ regs' = [t \in TargetThreads |-> NoRecord]
    /\ UNCHANGED <<mem, journal, run, savedRegs, history>>

PatchNext ==
    \/ \E r \in PatchRuns :
          \/ StartApply(r) \/ StartPlant(r) \/ StartWatch(r) \/ StartUndo(r)
          \/ OpenRecord(r) \/ FinishRecord(r)
          \/ WriteTarget(r) \/ TakeBack(r) \/ RestoreByte(r)
          \/ Arm(r) \/ Disarm(r)
          \/ SettlePlanted(r) \/ SettleArmed(r)
          \/ UndoWrite(r) \/ UndoSave(r) \/ UndoWatch(r)
          \/ KillRun(r)
    \/ TargetExits

PatchSpec == PatchInit /\ [][PatchNext]_patchVars
-----------------------------------------------------------------------------
\* Whether a record that can still be undone covers the address.
OnRecord(c) ==
    \E i \in PatchRuns :
        IsBytes(i) /\ journal[i].status = "applied" /\ c \in DOMAIN journal[i].after

\* "What is written first is what outlives it: bytes with no record cannot be put
\* back" (record_before_writing): a byte of the target that is not its own is
\* covered by an applied record.  It is not so: a write that fails may have
\* landed in part, and apply takes its record back all the same.
EveryChangeIsOnRecord ==
    ~gone => \A c \in Cells : mem[c] # Original[c] => OnRecord(c)

\* What is so of it, whatever was killed, in whatever order overlapping patches
\* were undone and whatever landed of a failed undo: the only bytes off the
\* record are those an apply that failed had written, and those that were
\* written by the undo of a record whose byte was not there.  Such a record (its
\* run was killed before the write, or after it put the byte back; its undo was
\* killed before it was saved, or failed in part) is refused by undo unless the
\* target holds the same bytes for another reason; then undo writes what that
\* record calls before, which may be long out of date.
OnlyLooseBytesAreOffRecord ==
    ~gone => \A c \in Cells \ loose : mem[c] # Original[c] => OnRecord(c)

\* A debug register left in a thread kills it at the next hit.  What a thread's
\* register is armed with is on record, so `patch undo` can clear it: address,
\* type and length, whichever runs were killed, and whatever they found in the
\* registers and put back.  The exception is a register armed over what a killed
\* run had left in it: arm_dr adds the new bits to the old ones, and what comes
\* of it may be what no command asked for.
ArmedIsOnRecord ==
    \A t \in TargetThreads :
        regs[t] # NoRecord /\ ~regs[t].mixed =>
            \E i \in PatchRuns : IsRegister(i) /\ journal[i].slot = regs[t].slot
=============================================================================
