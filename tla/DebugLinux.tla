----------------------------- MODULE DebugLinux -----------------------------
(***************************************************************************)
(* A ptrace session of n0xis-sources (dbg_linux.rs): await_breakpoint_hit, *)
(* which waits for a breakpoint byte to be reached, and                    *)
(* await_watchpoint_hit_where, which arms a debug register in every thread *)
(* and waits for it.  Whatever ends the wait, Session::drop takes the      *)
(* session out of a target whose threads run, clone and exit meanwhile.    *)
(*                                                                         *)
(* The target is one instruction, `Length` bytes long, at the breakpoint's *)
(* address, which is also the instruction that touches what is watched.    *)
(* rip is relative to it: 0 is at it, 1 is where an int3 leaves a thread,  *)
(* Length is past it, and Away is anywhere else.                           *)
(*                                                                         *)
(* Taken from the kernel: a traced thread that traps, clones or is         *)
(* interrupted stops and has a report to be waited for; a thread cloned by *)
(* a traced one is traced and starts stopped, without the debug register;  *)
(* an untraced thread that traps ends its process.  A thread that cannot   *)
(* be stopped in time, a write that fails and a tracer that is killed are  *)
(* left to the journal (PatchJournal).                                     *)
(***************************************************************************)
EXTENDS Naturals, FiniteSets

CONSTANTS
    Threads,    \* the threads there may be
    First,      \* those there are when the session begins
    Length,     \* the length of the instruction
    MaxPasses,  \* how often a thread comes by the instruction
    MaxMisses,  \* MAX_CONDITION_MISSES
    ChildFirst  \* a cloned thread's own stop may be waited for before the
                \* report of the thread that cloned it

ASSUME DebugAssumption ==
    /\ First \subseteq Threads /\ First # {}
    /\ Length \in {1, 2} /\ MaxPasses \in Nat /\ MaxMisses \in Nat \ {0}
    /\ ChildFirst \in BOOLEAN

VARIABLES
    mode,     \* what the session is for: "break" or "watch"
    life,     \* thread -> "none", "run", "stop" or "dead"
    report,   \* thread -> what waitpid has to say of it, or "none"
    child,    \* thread -> the thread it last cloned
    traced,   \* the threads that have this tracer
    holds,    \* the threads whose debug register is armed
    rip,      \* thread -> where it is
    ran,      \* thread -> how often it ran the instruction, this time round
    passes,   \* thread -> how often it came by
    planted,  \* the byte at the address is an int3
    crashed,  \* the target has died of what was left in it
    tracer,   \* where the session is
    tids, stopped, armed, patched,  \* the fields of Session
    misses,   \* hits that did not meet the condition
    late      \* history: threads cloned once the teardown had drained

target == <<life, report, child, traced, holds, rip, ran, passes, planted, crashed>>
session == <<mode, tracer, tids, stopped, armed, patched, misses, late>>
vars == <<target, session>>

Away == 3

Phases == {"seize", "arm", "armed", "wait", "drain", "stop", "restore", "detach", "end"}
Reports == {"none", "new", "clone", "trap", "watch", "exit"}

TypeOK ==
    /\ mode \in {"break", "watch"} /\ tracer \in Phases
    /\ life \in [Threads -> {"none", "run", "stop", "dead"}]
    /\ report \in [Threads -> Reports]
    /\ child \in [Threads -> Threads]
    /\ rip \in [Threads -> 0..Away] /\ ran \in [Threads -> 0..1]
    /\ passes \in [Threads -> 0..MaxPasses]
    /\ planted \in BOOLEAN /\ crashed \in BOOLEAN /\ patched \in BOOLEAN
    /\ traced \subseteq Threads /\ holds \subseteq Threads /\ late \subseteq Threads
    /\ tids \subseteq Threads /\ stopped \subseteq tids /\ armed \subseteq tids
    /\ misses \in 0..MaxMisses

Init ==
    /\ mode \in {"break", "watch"}
    /\ life = [t \in Threads |-> IF t \in First THEN "run" ELSE "none"]
    /\ report = [t \in Threads |-> "none"]
    /\ child = [t \in Threads |-> t]
    /\ rip \in [Threads -> {0, Length, Away}]
    /\ \A t \in Threads \ First : rip[t] = Away
    /\ ran = [t \in Threads |-> IF rip[t] = Length THEN 1 ELSE 0]
    /\ passes = [t \in Threads |-> 0]
    /\ traced = {} /\ holds = {} /\ planted = FALSE /\ crashed = FALSE
    /\ tracer = "seize"
    /\ tids = {} /\ stopped = {} /\ armed = {} /\ patched = FALSE
    /\ misses = 0 /\ late = {}

Living == {t \in Threads : life[t] \in {"run", "stop"}}

\* The reports waitpid(-1) may return next.
Pending ==
    {t \in traced :
        /\ report[t] # "none"
        /\ \/ ChildFirst
           \/ \A p \in traced : report[p] = "clone" /\ child[p] = t => p = t}
-----------------------------------------------------------------------------
(* The target.                                                             *)

\* A thread stops, for its tracer; without one, a trap is the end.
Traps(t, why) ==
    IF t \in traced
    THEN /\ life' = [life EXCEPT ![t] = "stop"]
         /\ report' = [report EXCEPT ![t] = why]
         /\ UNCHANGED crashed
    ELSE crashed' = TRUE /\ UNCHANGED <<life, report>>

\* One step of a thread at or about the instruction.
Execute(t) ==
    /\ ~crashed /\ life[t] = "run"
    /\ \/ /\ rip[t] = 0 /\ planted
          /\ rip' = [rip EXCEPT ![t] = 1]
          /\ Traps(t, "trap")
          /\ UNCHANGED <<ran, passes>>
       \/ /\ rip[t] = 0 /\ ~planted
          /\ rip' = [rip EXCEPT ![t] = Length]
          /\ ran' = [ran EXCEPT ![t] = @ + 1]
          /\ IF t \in holds THEN Traps(t, "watch") ELSE UNCHANGED <<life, report, crashed>>
          /\ UNCHANGED passes
       \/ /\ rip[t] \in {1, Length}
          /\ rip' = [rip EXCEPT ![t] = Away]
          /\ crashed' = (rip[t] # Length)   \* the middle of the instruction
          /\ UNCHANGED <<life, report, ran, passes>>
       \/ /\ rip[t] = Away /\ passes[t] < MaxPasses
          /\ rip' = [rip EXCEPT ![t] = 0]
          /\ ran' = [ran EXCEPT ![t] = 0]
          /\ passes' = [passes EXCEPT ![t] = @ + 1]
          /\ UNCHANGED <<life, report, crashed>>
    /\ UNCHANGED <<child, traced, holds, planted, session>>

\* A thread clones another, under PTRACE_O_TRACECLONE if it is traced.
Clone(t) ==
    /\ ~crashed /\ life[t] = "run" /\ rip[t] = Away
    /\ \E u \in Threads :
          /\ life[u] = "none"
          /\ child' = [child EXCEPT ![t] = u]
          /\ IF t \in traced
             THEN /\ life' = [life EXCEPT ![t] = "stop", ![u] = "stop"]
                  /\ report' = [report EXCEPT ![t] = "clone", ![u] = "new"]
                  /\ traced' = traced \cup {u}
             ELSE /\ life' = [life EXCEPT ![u] = "run"]
                  /\ UNCHANGED <<report, traced>>
          /\ late' = IF tracer \in {"stop", "restore", "detach", "end"}
                     THEN late \cup {u} ELSE late
    /\ UNCHANGED <<holds, rip, ran, passes, planted, crashed>>
    /\ UNCHANGED <<mode, tracer, tids, stopped, armed, patched, misses>>

\* A thread exits; a traced one is waited for.
Exit(t) ==
    /\ ~crashed /\ life[t] = "run" /\ rip[t] = Away
    /\ Cardinality(Living) > 1
    /\ life' = [life EXCEPT ![t] = "dead"]
    /\ report' = [report EXCEPT ![t] = IF t \in traced THEN "exit" ELSE "none"]
    /\ holds' = holds \ {t}
    /\ UNCHANGED <<child, traced, rip, ran, passes, planted, crashed, session>>
-----------------------------------------------------------------------------
(* Attaching and arming.                                                   *)

\* seize_group, one PTRACE_SEIZE.  A thread that a seized one has cloned has
\* a tracer already, this one: EPERM, and the session ends.
Seize(t) ==
    /\ tracer = "seize" /\ t \in Living \ tids
    /\ IF t \in traced
       THEN tracer' = "drain" /\ UNCHANGED <<traced, tids>>
       ELSE traced' = traced \cup {t} /\ tids' = tids \cup {t} /\ UNCHANGED tracer
    /\ UNCHANGED <<life, report, child, holds, rip, ran, passes, planted, crashed>>
    /\ UNCHANGED <<mode, stopped, armed, patched, misses, late>>

\* A scan found no new thread.  A breakpoint goes in at once, with the threads
\* running; a watchpoint needs each of them stopped.
Seized ==
    /\ tracer = "seize" /\ Living \subseteq tids
    /\ tracer' = IF mode = "break" THEN "wait" ELSE "arm"
    /\ planted' = (mode = "break") /\ patched' = (mode = "break")
    /\ UNCHANGED <<life, report, child, traced, holds, rip, ran, passes, crashed>>
    /\ UNCHANGED <<mode, tids, stopped, armed, misses, late>>

\* A thread that has exited is struck from the lists.
Forget(t) ==
    tids' = tids \ {t} /\ armed' = armed \ {t} /\ stopped' = stopped \ {t}

\* Mutant: the thread is waited for and not interrupted.
StopUninterrupted(t) ==
    /\ tracer \in {"arm", "stop"} /\ t \in tids \ stopped
    /\ life[t] = "stop"
    /\ stopped' = stopped \cup {t}
    /\ report' = [report EXCEPT ![t] = "none"]
    /\ UNCHANGED <<life, child, traced, holds, rip, ran, passes, planted, crashed>>
    /\ UNCHANGED <<mode, tracer, tids, armed, patched, misses, late>>

\* stop_bounded: interrupt a thread and wait for it.  The stop it reports may
\* be another one, which came first, and its report is used up.
StopBounded(t) ==
    /\ tracer \in {"arm", "stop"} /\ t \in tids \ stopped
    /\ IF life[t] = "dead"
       THEN Forget(t) /\ UNCHANGED life
       ELSE /\ life' = [life EXCEPT ![t] = "stop"]
            /\ stopped' = stopped \cup {t}
            /\ UNCHANGED <<tids, armed>>
    /\ report' = [report EXCEPT ![t] = "none"]
    /\ UNCHANGED <<child, traced, holds, rip, ran, passes, planted, crashed>>
    /\ UNCHANGED <<mode, tracer, patched, misses, late>>

\* arm_dr on every thread that stopped.
ArmAll ==
    /\ tracer = "arm" /\ tids = stopped
    /\ armed' = stopped
    /\ holds' = holds \cup stopped
    /\ tracer' = "armed"
    /\ UNCHANGED <<life, report, child, traced, rip, ran, passes, planted, crashed>>
    /\ UNCHANGED <<mode, tids, stopped, patched, misses, late>>

\* Each is let go on.
ContinueAll ==
    /\ tracer = "armed"
    /\ life' = [t \in Threads |-> IF t \in stopped THEN "run" ELSE life[t]]
    /\ stopped' = {}
    /\ tracer' = "wait"
    /\ UNCHANGED <<report, child, traced, holds, rip, ran, passes, planted, crashed>>
    /\ UNCHANGED <<mode, tids, armed, patched, misses, late>>
-----------------------------------------------------------------------------
(* Waiting.                                                                *)

\* classify: a thread is known from its first report on, armed if this is a
\* watch, and continued.
Adopt(S) ==
    /\ tids' = tids \cup S
    /\ stopped' = stopped \ S
    /\ armed' = IF mode = "watch" THEN armed \cup S ELSE armed
    /\ holds' = IF mode = "watch" THEN holds \cup (S \ armed) ELSE holds
    /\ life' = [t \in Threads |-> IF t \in S THEN "run" ELSE life[t]]
    /\ report' = [t \in Threads |-> IF t \in S THEN "none" ELSE report[t]]

\* The housekeeping half of a report.
Classify(t) ==
    /\ tracer = "wait" /\ t \in Pending
    /\ \/ /\ report[t] = "exit"
          /\ Forget(t)
          /\ report' = [report EXCEPT ![t] = "none"]
          /\ UNCHANGED <<life, holds>>
       \/ report[t] = "clone" /\ Adopt({t, child[t]})
       \/ report[t] = "new" /\ Adopt({t})
    /\ UNCHANGED <<child, traced, rip, ran, passes, planted, crashed>>
    /\ UNCHANGED <<mode, tracer, patched, misses, late>>

\* A trap at addr + 1 is the breakpoint: rewind, restore, capture, go on.
BreakpointHit(t) ==
    /\ tracer = "wait" /\ t \in Pending /\ report[t] = "trap"
    /\ rip' = [rip EXCEPT ![t] = 0]
    /\ planted' = FALSE /\ patched' = FALSE
    /\ life' = [life EXCEPT ![t] = "run"]
    /\ report' = [report EXCEPT ![t] = "none"]
    /\ tids' = tids \cup {t} /\ stopped' = stopped \ {t}
    /\ tracer' = "drain"
    /\ UNCHANGED <<child, traced, holds, ran, passes, crashed>>
    /\ UNCHANGED <<mode, armed, misses, late>>

\* DR6 says it is the watchpoint.  One that an exclusion or the condition
\* turns away goes on, armed, and only the condition has a budget.
WatchpointHit(t) ==
    /\ tracer = "wait" /\ t \in Pending /\ report[t] = "watch"
    /\ report' = [report EXCEPT ![t] = "none"]
    /\ tids' = tids \cup {t}
    /\ \/ /\ life' = [life EXCEPT ![t] = "run"]
          /\ stopped' = stopped \ {t}
          /\ misses' \in {misses, misses + 1}
          /\ tracer' = IF misses' = MaxMisses THEN "drain" ELSE "wait"
       \/ /\ stopped' = stopped \cup {t}
          /\ tracer' = "drain"
          /\ UNCHANGED <<life, misses>>
    /\ UNCHANGED <<child, traced, holds, rip, ran, passes, planted, crashed>>
    /\ UNCHANGED <<mode, armed, patched, late>>

\* The deadline, a signal, or no thread left to wait for.
GiveUp ==
    /\ tracer = "wait"
    /\ tracer' = "drain"
    /\ UNCHANGED <<target, mode, tids, stopped, armed, patched, misses, late>>
-----------------------------------------------------------------------------
(* Session::drop.                                                          *)

\* (0) Adopt what is pending.
Drain(t) ==
    /\ tracer = "drain" /\ t \in Pending
    /\ report' = [report EXCEPT ![t] = "none"]
    /\ IF report[t] = "exit"
       THEN Forget(t)
       ELSE LET S == IF report[t] = "clone" THEN {t, child[t]} ELSE {t}
            IN  tids' = tids \cup S /\ stopped' = stopped \cup S /\ UNCHANGED armed
    /\ UNCHANGED <<life, child, traced, holds, rip, ran, passes, planted, crashed>>
    /\ UNCHANGED <<mode, tracer, patched, misses, late>>

\* Mutant: the drain is not waited for.
DrainedAtOnce ==
    /\ tracer = "drain"
    /\ tracer' = "stop"
    /\ UNCHANGED <<target, mode, tids, stopped, armed, patched, misses, late>>

\* waitpid has nothing more to say.
Drained ==
    /\ tracer = "drain" /\ Pending = {}
    /\ tracer' = "stop"
    /\ UNCHANGED <<target, mode, tids, stopped, armed, patched, misses, late>>

\* (1) Every thread known is stopped, by StopBounded.
AllStopped ==
    /\ tracer = "stop" /\ tids = stopped
    /\ tracer' = "restore"
    /\ UNCHANGED <<target, mode, tids, stopped, armed, patched, misses, late>>

\* Mutant: only the byte is put back, and who stands behind it stays there.
RestoreOnly ==
    /\ tracer = "restore"
    /\ planted' = (planted /\ ~patched) /\ patched' = FALSE
    /\ holds' = holds \ armed
    /\ tracer' = "detach"
    /\ UNCHANGED <<life, report, child, traced, rip, ran, passes, crashed>>
    /\ UNCHANGED <<mode, tids, stopped, armed, misses, late>>

\* Mutant: a thread past the instruction is rewound too.
RewindAll ==
    /\ tracer = "restore"
    /\ planted' = (planted /\ ~patched) /\ patched' = FALSE
    /\ rip' = [t \in Threads |-> IF t \in stopped /\ rip[t] # Away THEN 0 ELSE rip[t]]
    /\ holds' = holds \ (armed \cap stopped)
    /\ tracer' = "detach"
    /\ UNCHANGED <<life, report, child, traced, ran, passes, crashed>>
    /\ UNCHANGED <<mode, tids, stopped, armed, misses, late>>

\* (2) the byte, (2b) the threads at addr + 1, (3) the debug registers.
Restore ==
    /\ tracer = "restore"
    /\ planted' = (planted /\ ~patched) /\ patched' = FALSE
    /\ rip' = [t \in Threads |-> IF mode = "break" /\ t \in stopped /\ rip[t] = 1
                                 THEN 0 ELSE rip[t]]
    /\ holds' = holds \ (armed \cap stopped)
    /\ tracer' = "detach"
    /\ UNCHANGED <<life, report, child, traced, ran, passes, crashed>>
    /\ UNCHANGED <<mode, tids, stopped, armed, misses, late>>

\* (4) Each thread goes on without a tracer.
Detach(t) ==
    /\ tracer = "detach" /\ t \in tids
    /\ traced' = traced \ {t}
    /\ life' = [life EXCEPT ![t] = "run"]
    /\ tids' = tids \ {t} /\ stopped' = stopped \ {t} /\ armed' = armed \ {t}
    /\ UNCHANGED <<report, child, holds, rip, ran, passes, planted, crashed>>
    /\ UNCHANGED <<mode, tracer, patched, misses, late>>

Detached ==
    /\ tracer = "detach" /\ tids = {}
    /\ tracer' = "end"
    /\ UNCHANGED <<target, mode, tids, stopped, armed, patched, misses, late>>
-----------------------------------------------------------------------------
TracerStep ==
    \/ \E t \in Threads :
          \/ Seize(t) \/ StopBounded(t) \/ Classify(t)
          \/ BreakpointHit(t) \/ WatchpointHit(t) \/ Drain(t) \/ Detach(t)
    \/ Seized \/ ArmAll \/ ContinueAll \/ GiveUp
    \/ Drained \/ AllStopped \/ Restore \/ Detached

Next ==
    \/ TracerStep
    \/ \E t \in Threads : Execute(t) \/ Clone(t) \/ Exit(t)

Spec == Init /\ [][Next]_vars /\ WF_vars(TracerStep)
-----------------------------------------------------------------------------
\* "The single most important property is teardown safety": however the wait
\* ends, and whatever the threads do while the session is taken down, none of
\* them meets the int3 or the debug register without a tracer, and none goes
\* on in the middle of an instruction.
TargetSurvives == ~crashed

\* Nothing of the session is left behind it: no byte, no register, and no
\* thread with a tracer, which would stay stopped.  A thread cloned once the
\* drain was over is not seen by it, and is the exception.
NothingIsLeft ==
    tracer = "end" => ~planted /\ holds = {} /\ traced \cap Living \subseteq late

\* A thread that is about to run the instruction has not run it already: the
\* rewind of (2b) takes back a trap and nothing that was done.
InstructionRunsOnce == \A t \in Threads : rip[t] = 0 => ran[t] = 0

\* The session ends, on its deadline if nothing else comes: none of its steps
\* waits for a thread of the target to do something.
SessionEnds == <>(tracer = "end")
=============================================================================
