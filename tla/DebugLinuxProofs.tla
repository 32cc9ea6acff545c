-------------------------- MODULE DebugLinuxProofs --------------------------
(***************************************************************************)
(* Proofs about DebugLinux, for any number of threads: a session leaves    *)
(* the target alive and takes out what it put in, if the report of a clone *)
(* is waited for before the new thread's own (ChildFirst is FALSE; the run *)
(* of MCTargetSurvives shows what happens otherwise).                      *)
(***************************************************************************)
EXTENDS DebugLinux, TLAPS

TornDown == {"stop", "restore", "detach", "end"}   \* the phases after the drain

Types ==
    /\ mode \in {"break", "watch"} /\ tracer \in Phases
    /\ life \in [Threads -> {"none", "run", "stop", "dead"}]
    /\ report \in [Threads -> Reports]
    /\ child \in [Threads -> Threads]
    /\ rip \in [Threads -> 0..Away]
    /\ planted \in BOOLEAN /\ crashed \in BOOLEAN /\ patched \in BOOLEAN
    /\ traced \subseteq Threads /\ holds \subseteq Threads /\ late \subseteq Threads
    /\ tids \subseteq Threads /\ stopped \subseteq tids /\ armed \subseteq tids

\* What a thread's report says of the thread.
Reported(t) ==
    /\ report[t] # "none" => t \in traced
    /\ report[t] \in {"new", "clone", "trap", "watch"} => life[t] = "stop"
    /\ report[t] = "exit" => life[t] = "dead"
    /\ report[t] \in {"new", "clone"} => rip[t] = Away
    /\ report[t] = "trap" => rip[t] = 1
    /\ report[t] = "watch" => rip[t] = Length
    /\ life[t] = "stop" => t \in traced
    /\ life[t] = "none" => t \notin traced /\ rip[t] = Away

\* A thread that reports a clone has a child nobody has heard of.
Cloned(p) ==
    report[p] = "clone" =>
        /\ report[child[p]] = "new" /\ child[p] \notin tids
        /\ \A q \in Threads : report[q] = "clone" /\ child[q] = child[p] => q = p

\* What the lists of the session have to do with the threads.
Listed(t) ==
    /\ t \in tids => t \in traced
    /\ t \in traced \cap Living => t \in tids \/ report[t] = "new"
    /\ life[t] = "stop" /\ report[t] = "none" => t \in stopped
    /\ t \in stopped => /\ life[t] = "stop" /\ report[t] \in {"none", "new"}
                        /\ tracer # "drain" => report[t] = "none"
    /\ tracer \in TornDown /\ report[t] = "new" => t \in late

Phase ==
    /\ tracer \in {"seize", "wait"} => stopped = {}
    /\ tracer \in {"arm", "armed"} => mode = "watch"
    /\ tracer \in {"restore", "detach"} => tids = stopped
    /\ tracer = "end" => tids = {}

\* What the session has put into the target, and who can meet it.
Put ==
    /\ planted => /\ patched /\ mode = "break"
                  /\ tracer \in {"wait", "drain", "stop", "restore"}
                  /\ Living \subseteq traced
    /\ holds \subseteq armed \cap Living
    /\ tracer \in {"detach", "end"} => holds = {}
    /\ ~crashed

\* A thread behind the breakpoint stays there, stopped, until it is rewound.
Behind(t) ==
    rip[t] = 1 /\ Length # 1 => mode = "break" /\ life[t] = "stop" /\ tracer \notin {"detach", "end"}

DebugInv ==
    /\ Types /\ Phase /\ Put
    /\ \A t \in Threads : Reported(t) /\ Cloned(t) /\ Listed(t) /\ Behind(t)

\* A thread at the instruction, or behind the breakpoint, has not run it.
NotYetRun ==
    /\ ran \in [Threads -> Nat]
    /\ \A t \in Threads : rip[t] \in {0, 1} => ran[t] = 0
-----------------------------------------------------------------------------
\* A step keeps every variable in its set.
LEMMA TypesStep ==
    ASSUME ChildFirst = FALSE, DebugInv, [Next]_vars
    PROVE  Types'
<1>0. /\ Types /\ Phase /\ Put
      /\ \A t \in Threads : Reported(t) /\ Cloned(t) /\ Listed(t) /\ Behind(t)
  BY DEF DebugInv
<1> USE DebugAssumption DEF Types, Phases, Reports, Away
<1>1. ASSUME NEW t \in Threads, Seize(t) PROVE Types'
  BY <1>0, <1>1 DEF Seize, target, session
<1>2. ASSUME NEW t \in Threads, StopBounded(t) PROVE Types'
  BY <1>0, <1>2 DEF StopBounded, Forget, target, session
<1>3. ASSUME NEW t \in Threads, Classify(t) PROVE Types'
  BY <1>0, <1>3 DEF Classify, Forget, Adopt, Pending, target, session
<1>4. ASSUME NEW t \in Threads, BreakpointHit(t) PROVE Types'
  <2>0. 0 \in 0..Away
    OBVIOUS
  <2>1. rip' \in [Threads -> 0..Away]
    BY <1>0, <2>0, <1>4 DEF BreakpointHit
  <2> QED
    BY <1>0, <2>1, <1>4 DEF BreakpointHit
<1>5. ASSUME NEW t \in Threads, WatchpointHit(t) PROVE Types'
  BY <1>0, <1>5 DEF WatchpointHit, Pending, target, session
<1>6. ASSUME NEW t \in Threads, Drain(t) PROVE Types'
  BY <1>0, <1>6 DEF Drain, Forget, Pending, target, session
<1>7. ASSUME NEW t \in Threads, Detach(t) PROVE Types'
  BY <1>0, <1>7 DEF Detach, target, session
<1>8. CASE Seized
  BY <1>0, <1>8 DEF Seized, target, session
<1>9. CASE ArmAll
  BY <1>0, <1>9 DEF ArmAll, target, session
<1>10. CASE ContinueAll
  BY <1>0, <1>10 DEF ContinueAll, target, session
<1>11. CASE GiveUp
  BY <1>0, <1>11 DEF GiveUp, target, session
<1>12. CASE Drained
  BY <1>0, <1>12 DEF Drained, Pending, target, session
<1>13. CASE AllStopped
  BY <1>0, <1>13 DEF AllStopped, target, session
<1>14. CASE Restore
  <2>0. 0 \in 0..Away
    OBVIOUS
  <2>1. rip' \in [Threads -> 0..Away]
    BY <1>0, <2>0, <1>14 DEF Restore
  <2> QED
    BY <1>0, <2>1, <1>14 DEF Restore
<1>15. CASE Detached
  BY <1>0, <1>15 DEF Detached, target, session
<1>16. ASSUME NEW t \in Threads, Execute(t) PROVE Types'
  <2>0. {0, 1, Length, Away} \subseteq 0..Away
    OBVIOUS
  <2>1. \E a \in 0..Away : rip' = [rip EXCEPT ![t] = a]
    BY <2>0, <1>16 DEF Execute
  <2>2. rip' \in [Threads -> 0..Away]
    BY <1>0, <2>1
  <2>3. life' \in [Threads -> {"none", "run", "stop", "dead"}] /\ report' \in [Threads -> Reports]
    BY <1>0, <1>16 DEF Execute, Traps
  <2>4. crashed' \in BOOLEAN
    BY <1>0, <1>16 DEF Execute, Traps
  <2> QED
    BY <1>0, <2>2, <2>3, <2>4, <1>16 DEF Execute, session
<1>17. ASSUME NEW t \in Threads, Clone(t) PROVE Types'
  BY <1>0, <1>17 DEF Clone, target, session
<1>18. ASSUME NEW t \in Threads, Exit(t) PROVE Types'
  BY <1>0, <1>18 DEF Exit, target, session
<1>19. CASE UNCHANGED vars
  BY <1>0, <1>19 DEF vars, target, session
<1> QED
  BY <1>1, <1>2, <1>3, <1>4, <1>5, <1>6, <1>7, <1>8, <1>9, <1>10, <1>11, <1>12, <1>13, <1>14, <1>15, <1>16, <1>17, <1>18, <1>19 DEF Next, TracerStep

\* A thread's report keeps saying where the thread is: a stop is the tracer's,
\* and a thread that reports a clone or is new is away from the instruction.
LEMMA ReportedStep ==
    ASSUME ChildFirst = FALSE, DebugInv, [Next]_vars
    PROVE  \A u \in Threads : Reported(u)'
<1>0. /\ Types /\ Phase /\ Put
      /\ \A t \in Threads : Reported(t) /\ Cloned(t) /\ Listed(t) /\ Behind(t)
  BY DEF DebugInv
<1> USE DebugAssumption DEF Types, Phases, Reports, Away, Reported
<1>1. ASSUME NEW t \in Threads, Seize(t) PROVE \A u \in Threads : Reported(u)'
  BY <1>0, <1>1 DEF Seize, Listed, Phase, Living
<1>2. ASSUME NEW t \in Threads, StopBounded(t) PROVE \A u \in Threads : Reported(u)'
  BY <1>0, <1>2 DEF StopBounded, Forget, Listed, Phase, Living
<1>3. ASSUME NEW t \in Threads, Classify(t) PROVE \A u \in Threads : Reported(u)'
  BY <1>0, <1>3 DEF Classify, Forget, Adopt, Pending, target, session
<1>4. ASSUME NEW t \in Threads, BreakpointHit(t) PROVE \A u \in Threads : Reported(u)'
  BY <1>0, <1>4 DEF BreakpointHit, Pending, target, session
<1>5. ASSUME NEW t \in Threads, WatchpointHit(t) PROVE \A u \in Threads : Reported(u)'
  BY <1>0, <1>5 DEF WatchpointHit, Pending, target, session
<1>6. ASSUME NEW t \in Threads, Drain(t) PROVE \A u \in Threads : Reported(u)'
  BY <1>0, <1>6 DEF Drain, Forget, Pending, target, session
<1>7. ASSUME NEW t \in Threads, Detach(t) PROVE \A u \in Threads : Reported(u)'
  BY <1>0, <1>7 DEF Detach, Listed, Phase, Living
<1>8. CASE Seized
  BY <1>0, <1>8 DEF Seized, target, session
<1>9. CASE ArmAll
  BY <1>0, <1>9 DEF ArmAll, target, session
<1>10. CASE ContinueAll
  BY <1>0, <1>10 DEF ContinueAll, Listed, Phase, Living
<1>11. CASE GiveUp
  BY <1>0, <1>11 DEF GiveUp, target, session
<1>12. CASE Drained
  BY <1>0, <1>12 DEF Drained, Pending, target, session
<1>13. CASE AllStopped
  BY <1>0, <1>13 DEF AllStopped, target, session
<1>14. CASE Restore
  BY <1>0, <1>14 DEF Restore, Listed, Phase, Living
<1>15. CASE Detached
  BY <1>0, <1>15 DEF Detached, target, session
<1>16. ASSUME NEW t \in Threads, Execute(t) PROVE \A u \in Threads : Reported(u)'
  BY <1>0, <1>16 DEF Execute, Traps, target, session
<1>17. ASSUME NEW t \in Threads, Clone(t) PROVE \A u \in Threads : Reported(u)'
  BY <1>0, <1>17 DEF Clone, target, session
<1>18. ASSUME NEW t \in Threads, Exit(t) PROVE \A u \in Threads : Reported(u)'
  BY <1>0, <1>18 DEF Exit, target, session
<1>19. CASE UNCHANGED vars
  BY <1>0, <1>19 DEF vars, target, session
<1> QED
  BY <1>1, <1>2, <1>3, <1>4, <1>5, <1>6, <1>7, <1>8, <1>9, <1>10, <1>11, <1>12, <1>13, <1>14, <1>15, <1>16, <1>17, <1>18, <1>19 DEF Next, TracerStep

\* The session's lists stand as its phase says.
LEMMA PhaseStep ==
    ASSUME ChildFirst = FALSE, DebugInv, [Next]_vars
    PROVE  Phase'
<1>0. /\ Types /\ Phase /\ Put
      /\ \A t \in Threads : Reported(t) /\ Cloned(t) /\ Listed(t) /\ Behind(t)
  BY DEF DebugInv
<1> USE DebugAssumption DEF Types, Phases, Reports, Phase
<1>1. ASSUME NEW t \in Threads, Seize(t) PROVE Phase'
  BY <1>0, <1>1 DEF Seize, target, session
<1>2. ASSUME NEW t \in Threads, StopBounded(t) PROVE Phase'
  BY <1>0, <1>2 DEF StopBounded, Forget, target, session
<1>3. ASSUME NEW t \in Threads, Classify(t) PROVE Phase'
  BY <1>0, <1>3 DEF Classify, Forget, Adopt, Pending, target, session
<1>4. ASSUME NEW t \in Threads, BreakpointHit(t) PROVE Phase'
  BY <1>0, <1>4 DEF BreakpointHit, Pending, target, session
<1>5. ASSUME NEW t \in Threads, WatchpointHit(t) PROVE Phase'
  BY <1>0, <1>5 DEF WatchpointHit, Pending, target, session
<1>6. ASSUME NEW t \in Threads, Drain(t) PROVE Phase'
  BY <1>0, <1>6 DEF Drain, Forget, Pending, target, session
<1>7. ASSUME NEW t \in Threads, Detach(t) PROVE Phase'
  BY <1>0, <1>7 DEF Detach, target, session
<1>8. CASE Seized
  BY <1>0, <1>8 DEF Seized, target, session
<1>9. CASE ArmAll
  BY <1>0, <1>9 DEF ArmAll, target, session
<1>10. CASE ContinueAll
  BY <1>0, <1>10 DEF ContinueAll, target, session
<1>11. CASE GiveUp
  BY <1>0, <1>11 DEF GiveUp, target, session
<1>12. CASE Drained
  BY <1>0, <1>12 DEF Drained, Pending, target, session
<1>13. CASE AllStopped
  BY <1>0, <1>13 DEF AllStopped, target, session
<1>14. CASE Restore
  BY <1>0, <1>14 DEF Restore, target, session
<1>15. CASE Detached
  BY <1>0, <1>15 DEF Detached, target, session
<1>16. ASSUME NEW t \in Threads, Execute(t) PROVE Phase'
  BY <1>0, <1>16 DEF Execute, Traps, target, session
<1>17. ASSUME NEW t \in Threads, Clone(t) PROVE Phase'
  BY <1>0, <1>17 DEF Clone, target, session
<1>18. ASSUME NEW t \in Threads, Exit(t) PROVE Phase'
  BY <1>0, <1>18 DEF Exit, target, session
<1>19. CASE UNCHANGED vars
  BY <1>0, <1>19 DEF vars, target, session
<1> QED
  BY <1>1, <1>2, <1>3, <1>4, <1>5, <1>6, <1>7, <1>8, <1>9, <1>10, <1>11, <1>12, <1>13, <1>14, <1>15, <1>16, <1>17, <1>18, <1>19 DEF Next, TracerStep

\* While a clone is unreported its child is: new, and on no list.
LEMMA ClonedStep ==
    ASSUME ChildFirst = FALSE, DebugInv, [Next]_vars
    PROVE  \A u \in Threads : Cloned(u)'
<1>0. /\ Types /\ Phase /\ Put
      /\ \A t \in Threads : Reported(t) /\ Cloned(t) /\ Listed(t) /\ Behind(t)
  BY DEF DebugInv
<1> USE DebugAssumption DEF Types, Phases, Reports, Cloned, Reported
<1>1. ASSUME NEW t \in Threads, Seize(t) PROVE \A u \in Threads : Cloned(u)'
  BY <1>0, <1>1 DEF Seize, target, session
<1>2. ASSUME NEW t \in Threads, StopBounded(t) PROVE \A u \in Threads : Cloned(u)'
  BY <1>0, <1>2 DEF StopBounded, Forget, target, session
<1>3. ASSUME NEW t \in Threads, Classify(t) PROVE \A u \in Threads : Cloned(u)'
  BY <1>0, <1>3 DEF Classify, Forget, Adopt, Pending, target, session
<1>4. ASSUME NEW t \in Threads, BreakpointHit(t) PROVE \A u \in Threads : Cloned(u)'
  BY <1>0, <1>4 DEF BreakpointHit, Pending, target, session
<1>5. ASSUME NEW t \in Threads, WatchpointHit(t) PROVE \A u \in Threads : Cloned(u)'
  BY <1>0, <1>5 DEF WatchpointHit, Pending, target, session
<1>6. ASSUME NEW t \in Threads, Drain(t) PROVE \A u \in Threads : Cloned(u)'
  BY <1>0, <1>6 DEF Drain, Forget, Pending, target, session
<1>7. ASSUME NEW t \in Threads, Detach(t) PROVE \A u \in Threads : Cloned(u)'
  BY <1>0, <1>7 DEF Detach, target, session
<1>8. CASE Seized
  BY <1>0, <1>8 DEF Seized, target, session
<1>9. CASE ArmAll
  BY <1>0, <1>9 DEF ArmAll, target, session
<1>10. CASE ContinueAll
  BY <1>0, <1>10 DEF ContinueAll, target, session
<1>11. CASE GiveUp
  BY <1>0, <1>11 DEF GiveUp, target, session
<1>12. CASE Drained
  BY <1>0, <1>12 DEF Drained, Pending, target, session
<1>13. CASE AllStopped
  BY <1>0, <1>13 DEF AllStopped, target, session
<1>14. CASE Restore
  BY <1>0, <1>14 DEF Restore, target, session
<1>15. CASE Detached
  BY <1>0, <1>15 DEF Detached, target, session
<1>16. ASSUME NEW t \in Threads, Execute(t) PROVE \A u \in Threads : Cloned(u)'
  BY <1>0, <1>16 DEF Execute, Traps, target, session
<1>17. ASSUME NEW t \in Threads, Clone(t) PROVE \A u \in Threads : Cloned(u)'
  BY <1>0, <1>17 DEF Clone, Listed, session, target
<1>18. ASSUME NEW t \in Threads, Exit(t) PROVE \A u \in Threads : Cloned(u)'
  BY <1>0, <1>18 DEF Exit, target, session
<1>19. CASE UNCHANGED vars
  BY <1>0, <1>19 DEF vars, target, session
<1> QED
  BY <1>1, <1>2, <1>3, <1>4, <1>5, <1>6, <1>7, <1>8, <1>9, <1>10, <1>11, <1>12, <1>13, <1>14, <1>15, <1>16, <1>17, <1>18, <1>19 DEF Next, TracerStep

\* Every living traced thread is on the list or new, and every stopped one has
\* a report pending or is on the list of the stopped.
LEMMA ListedStep ==
    ASSUME ChildFirst = FALSE, DebugInv, [Next]_vars
    PROVE  \A u \in Threads : Listed(u)'
<1>0. /\ Types /\ Phase /\ Put
      /\ \A t \in Threads : Reported(t) /\ Cloned(t) /\ Listed(t) /\ Behind(t)
  BY DEF DebugInv
<1> USE DebugAssumption DEF Types, Phases, Reports, Phase, Reported, Cloned, Listed, Living, TornDown
<1>1. ASSUME NEW t \in Threads, Seize(t) PROVE \A u \in Threads : Listed(u)'
  BY <1>0, <1>1 DEF Seize, target, session
<1>2. ASSUME NEW t \in Threads, StopBounded(t) PROVE \A u \in Threads : Listed(u)'
  BY <1>0, <1>2 DEF StopBounded, Forget, target, session
<1>3. ASSUME NEW t \in Threads, Classify(t) PROVE \A u \in Threads : Listed(u)'
  BY <1>0, <1>3 DEF Classify, Forget, Adopt, Pending, target, session
<1>4. ASSUME NEW t \in Threads, BreakpointHit(t) PROVE \A u \in Threads : Listed(u)'
  BY <1>0, <1>4 DEF BreakpointHit, Pending, target, session
<1>5. ASSUME NEW t \in Threads, WatchpointHit(t) PROVE \A u \in Threads : Listed(u)'
  BY <1>0, <1>5 DEF WatchpointHit, Pending, target, session
<1>6. ASSUME NEW t \in Threads, Drain(t) PROVE \A u \in Threads : Listed(u)'
  BY <1>0, <1>6 DEF Drain, Forget, Pending, target, session
<1>7. ASSUME NEW t \in Threads, Detach(t) PROVE \A u \in Threads : Listed(u)'
  BY <1>0, <1>7 DEF Detach, target, session
<1>8. CASE Seized
  BY <1>0, <1>8 DEF Seized, target, session
<1>9. CASE ArmAll
  BY <1>0, <1>9 DEF ArmAll, target, session
<1>10. CASE ContinueAll
  BY <1>0, <1>10 DEF ContinueAll, target, session
<1>11. CASE GiveUp
  BY <1>0, <1>11 DEF GiveUp, target, session
<1>12. CASE Drained
  BY <1>0, <1>12 DEF Drained, Pending, target, session
<1>13. CASE AllStopped
  BY <1>0, <1>13 DEF AllStopped, target, session
<1>14. CASE Restore
  BY <1>0, <1>14 DEF Restore, target, session
<1>15. CASE Detached
  BY <1>0, <1>15 DEF Detached, target, session
<1>16. ASSUME NEW t \in Threads, Execute(t) PROVE \A u \in Threads : Listed(u)'
  BY <1>0, <1>16 DEF Execute, Traps, target, session
<1>17. ASSUME NEW t \in Threads, Clone(t) PROVE \A u \in Threads : Listed(u)'
  BY <1>0, <1>17 DEF Clone, target, session
<1>18. ASSUME NEW t \in Threads, Exit(t) PROVE \A u \in Threads : Listed(u)'
  BY <1>0, <1>18 DEF Exit, target, session
<1>19. CASE UNCHANGED vars
  BY <1>0, <1>19 DEF vars, target, session
<1> QED
  BY <1>1, <1>2, <1>3, <1>4, <1>5, <1>6, <1>7, <1>8, <1>9, <1>10, <1>11, <1>12, <1>13, <1>14, <1>15, <1>16, <1>17, <1>18, <1>19 DEF Next, TracerStep

\* Who can meet the byte or the register has a tracer, so nothing crashes.
LEMMA PutStep ==
    ASSUME ChildFirst = FALSE, DebugInv, [Next]_vars
    PROVE  Put'
<1>0. /\ Types /\ Phase /\ Put
      /\ \A t \in Threads : Reported(t) /\ Cloned(t) /\ Listed(t) /\ Behind(t)
  BY DEF DebugInv
<1> USE DebugAssumption DEF Types, Phases, Reports, Phase, Reported, Listed, Living, Put, Behind
<1>1. ASSUME NEW t \in Threads, Seize(t) PROVE Put'
  BY <1>0, <1>1 DEF Seize, target, session
<1>2. ASSUME NEW t \in Threads, StopBounded(t) PROVE Put'
  BY <1>0, <1>2 DEF StopBounded, Forget, target, session
<1>3. ASSUME NEW t \in Threads, Classify(t) PROVE Put'
  BY <1>0, <1>3 DEF Classify, Forget, Adopt, Pending, Cloned
<1>4. ASSUME NEW t \in Threads, BreakpointHit(t) PROVE Put'
  BY <1>0, <1>4 DEF BreakpointHit, Pending, target, session
<1>5. ASSUME NEW t \in Threads, WatchpointHit(t) PROVE Put'
  BY <1>0, <1>5 DEF WatchpointHit, Pending, target, session
<1>6. ASSUME NEW t \in Threads, Drain(t) PROVE Put'
  BY <1>0, <1>6 DEF Drain, Forget, Pending, target, session
<1>7. ASSUME NEW t \in Threads, Detach(t) PROVE Put'
  BY <1>0, <1>7 DEF Detach, target, session
<1>8. CASE Seized
  BY <1>0, <1>8 DEF Seized, target, session
<1>9. CASE ArmAll
  BY <1>0, <1>9 DEF ArmAll, target, session
<1>10. CASE ContinueAll
  BY <1>0, <1>10 DEF ContinueAll, target, session
<1>11. CASE GiveUp
  BY <1>0, <1>11 DEF GiveUp, target, session
<1>12. CASE Drained
  BY <1>0, <1>12 DEF Drained, Pending, target, session
<1>13. CASE AllStopped
  BY <1>0, <1>13 DEF AllStopped, target, session
<1>14. CASE Restore
  BY <1>0, <1>14 DEF Restore, target, session
<1>15. CASE Detached
  BY <1>0, <1>15 DEF Detached, target, session
<1>16. ASSUME NEW t \in Threads, Execute(t) PROVE Put'
  BY <1>0, <1>16 DEF Execute, Traps, target, session
<1>17. ASSUME NEW t \in Threads, Clone(t) PROVE Put'
  BY <1>0, <1>17 DEF Clone, target, session
<1>18. ASSUME NEW t \in Threads, Exit(t) PROVE Put'
  BY <1>0, <1>18 DEF Exit, target, session
<1>19. CASE UNCHANGED vars
  BY <1>0, <1>19 DEF vars, target, session
<1> QED
  BY <1>1, <1>2, <1>3, <1>4, <1>5, <1>6, <1>7, <1>8, <1>9, <1>10, <1>11, <1>12, <1>13, <1>14, <1>15, <1>16, <1>17, <1>18, <1>19 DEF Next, TracerStep

\* A thread behind the breakpoint stays stopped until it is rewound.
LEMMA BehindStep ==
    ASSUME ChildFirst = FALSE, DebugInv, [Next]_vars
    PROVE  \A u \in Threads : Behind(u)'
<1>0. /\ Types /\ Phase /\ Put
      /\ \A t \in Threads : Reported(t) /\ Cloned(t) /\ Listed(t) /\ Behind(t)
  BY DEF DebugInv
<1> USE DebugAssumption DEF Types, Phases, Reports, Phase, Reported, Cloned, Listed, Put, Behind, Living, Away
<1>1. ASSUME NEW t \in Threads, Seize(t) PROVE \A u \in Threads : Behind(u)'
  BY <1>0, <1>1 DEF Seize, target, session
<1>2. ASSUME NEW t \in Threads, StopBounded(t) PROVE \A u \in Threads : Behind(u)'
  BY <1>0, <1>2 DEF StopBounded, Forget, target, session
<1>3. ASSUME NEW t \in Threads, Classify(t) PROVE \A u \in Threads : Behind(u)'
  BY <1>0, <1>3 DEF Classify, Forget, Adopt, Pending, target, session
<1>4. ASSUME NEW t \in Threads, BreakpointHit(t) PROVE \A u \in Threads : Behind(u)'
  BY <1>0, <1>4 DEF BreakpointHit, Pending, target, session
<1>5. ASSUME NEW t \in Threads, WatchpointHit(t) PROVE \A u \in Threads : Behind(u)'
  BY <1>0, <1>5 DEF WatchpointHit, Pending, target, session
<1>6. ASSUME NEW t \in Threads, Drain(t) PROVE \A u \in Threads : Behind(u)'
  BY <1>0, <1>6 DEF Drain, Forget, Pending, target, session
<1>7. ASSUME NEW t \in Threads, Detach(t) PROVE \A u \in Threads : Behind(u)'
  BY <1>0, <1>7 DEF Detach, target, session
<1>8. CASE Seized
  BY <1>0, <1>8 DEF Seized, target, session
<1>9. CASE ArmAll
  BY <1>0, <1>9 DEF ArmAll, target, session
<1>10. CASE ContinueAll
  BY <1>0, <1>10 DEF ContinueAll, target, session
<1>11. CASE GiveUp
  BY <1>0, <1>11 DEF GiveUp, target, session
<1>12. CASE Drained
  BY <1>0, <1>12 DEF Drained, Pending, target, session
<1>13. CASE AllStopped
  BY <1>0, <1>13 DEF AllStopped, target, session
<1>14. CASE Restore
  BY <1>0, <1>14 DEF Restore, target, session
<1>15. CASE Detached
  BY <1>0, <1>15 DEF Detached, target, session
<1>16. ASSUME NEW t \in Threads, Execute(t) PROVE \A u \in Threads : Behind(u)'
  BY <1>0, <1>16 DEF Execute, Traps, target, session
<1>17. ASSUME NEW t \in Threads, Clone(t) PROVE \A u \in Threads : Behind(u)'
  BY <1>0, <1>17 DEF Clone, target, session
<1>18. ASSUME NEW t \in Threads, Exit(t) PROVE \A u \in Threads : Behind(u)'
  BY <1>0, <1>18 DEF Exit, target, session
<1>19. CASE UNCHANGED vars
  BY <1>0, <1>19 DEF vars, target, session
<1> QED
  BY <1>1, <1>2, <1>3, <1>4, <1>5, <1>6, <1>7, <1>8, <1>9, <1>10, <1>11, <1>12, <1>13, <1>14, <1>15, <1>16, <1>17, <1>18, <1>19 DEF Next, TracerStep

\* The rewinds take back a trap and nothing that was done, of an instruction
\* of more than one byte.
LEMMA RunStep ==
    ASSUME ChildFirst = FALSE, Length # 1, DebugInv, NotYetRun, [Next]_vars
    PROVE  NotYetRun'
<1>0. /\ NotYetRun /\ Types /\ Phase /\ Put
      /\ \A t \in Threads : Reported(t) /\ Cloned(t) /\ Listed(t) /\ Behind(t)
  BY DEF DebugInv
<1> USE DebugAssumption DEF Types, Reported, NotYetRun, Away
<1>1. ASSUME NEW t \in Threads, Seize(t) PROVE NotYetRun'
  BY <1>0, <1>1 DEF Seize, target, session
<1>2. ASSUME NEW t \in Threads, StopBounded(t) PROVE NotYetRun'
  BY <1>0, <1>2 DEF StopBounded, Forget, target, session
<1>3. ASSUME NEW t \in Threads, Classify(t) PROVE NotYetRun'
  BY <1>0, <1>3 DEF Classify, Forget, Adopt, Pending, target, session
<1>4. ASSUME NEW t \in Threads, BreakpointHit(t) PROVE NotYetRun'
  BY <1>0, <1>4 DEF BreakpointHit, Pending, target, session
<1>5. ASSUME NEW t \in Threads, WatchpointHit(t) PROVE NotYetRun'
  BY <1>0, <1>5 DEF WatchpointHit, Pending, target, session
<1>6. ASSUME NEW t \in Threads, Drain(t) PROVE NotYetRun'
  BY <1>0, <1>6 DEF Drain, Forget, Pending, target, session
<1>7. ASSUME NEW t \in Threads, Detach(t) PROVE NotYetRun'
  BY <1>0, <1>7 DEF Detach, target, session
<1>8. CASE Seized
  BY <1>0, <1>8 DEF Seized
<1>9. CASE ArmAll
  BY <1>0, <1>9 DEF ArmAll, target, session
<1>10. CASE ContinueAll
  BY <1>0, <1>10 DEF ContinueAll, target, session
<1>11. CASE GiveUp
  BY <1>0, <1>11 DEF GiveUp, target, session
<1>12. CASE Drained
  BY <1>0, <1>12 DEF Drained, Pending, target, session
<1>13. CASE AllStopped
  BY <1>0, <1>13 DEF AllStopped, target, session
<1>14. CASE Restore
  BY <1>0, <1>14 DEF Restore, Phase, Listed, Behind
<1>15. CASE Detached
  BY <1>0, <1>15 DEF Detached, target, session
<1>16. ASSUME NEW t \in Threads, Execute(t) PROVE NotYetRun'
  <2>1. ran' \in [Threads -> Nat]
    BY <1>0, <1>16 DEF Execute
  <2>2. \A u \in Threads : u # t => rip'[u] = rip[u] /\ ran'[u] = ran[u]
    BY <1>0, <1>16 DEF Execute
  <2>3. rip'[t] \in {0, 1} => ran'[t] = 0
    BY <1>0, <1>16 DEF Execute
  <2> QED
    BY <1>0, <2>1, <2>2, <2>3
<1>17. ASSUME NEW t \in Threads, Clone(t) PROVE NotYetRun'
  BY <1>0, <1>17 DEF Clone, target, session
<1>18. ASSUME NEW t \in Threads, Exit(t) PROVE NotYetRun'
  BY <1>0, <1>18 DEF Exit, target, session
<1>19. CASE UNCHANGED vars
  BY <1>0, <1>19 DEF vars, target, session
<1> QED
  BY <1>1, <1>2, <1>3, <1>4, <1>5, <1>6, <1>7, <1>8, <1>9, <1>10, <1>11, <1>12, <1>13, <1>14, <1>15, <1>16, <1>17, <1>18, <1>19 DEF Next, TracerStep

-----------------------------------------------------------------------------
\* The invariant of a session, for any number of threads.
LEMMA DebugInvariant == ASSUME ChildFirst = FALSE PROVE Spec => []DebugInv
<1>1. Init => DebugInv
  <2> SUFFICES ASSUME Init PROVE DebugInv
    OBVIOUS
  <2>0. {0, Length, Away} \subseteq 0..Away
    BY DebugAssumption DEF Away
  <2>1. Types
    BY <2>0, DebugAssumption DEF Init, Types, Phases, Reports
  <2>2. Phase /\ Put
    BY DEF Init, Phase, Put
  <2>3. \A t \in Threads : Reported(t) /\ Cloned(t) /\ Listed(t)
    BY DEF Init, Reported, Cloned, Listed, TornDown
  <2>4. \A t \in Threads : Behind(t)
    BY DebugAssumption DEF Init, Behind, Away
  <2> QED
    BY <2>1, <2>2, <2>3, <2>4 DEF DebugInv
<1>2. DebugInv /\ [Next]_vars => DebugInv'
  BY TypesStep, ReportedStep, PhaseStep, ClonedStep, ListedStep, PutStep, BehindStep DEF DebugInv
<1> QED
  BY <1>1, <1>2, PTL DEF Spec

\* Teardown safety: no thread meets the int3 or the debug register without a
\* tracer, and none goes on in the middle of an instruction, however many
\* threads there are and however they clone, trap and exit during the session.
THEOREM SurvivesTheSession == ASSUME ChildFirst = FALSE PROVE Spec => []TargetSurvives
<1>1. DebugInv => TargetSurvives
  BY DEF DebugInv, Put, TargetSurvives
<1> QED
  BY <1>1, DebugInvariant, PTL

\* Session::drop leaves no byte, no register and no traced thread but those
\* cloned once its drain was over.
THEOREM SessionLeavesNothing == ASSUME ChildFirst = FALSE PROVE Spec => []NothingIsLeft
<1>1. DebugInv => NothingIsLeft
  <2> SUFFICES ASSUME DebugInv, tracer = "end" PROVE ~planted /\ holds = {} /\ traced \cap Living \subseteq late
    BY DEF NothingIsLeft
  <2>1. ~planted /\ holds = {} /\ tids = {}
    BY DEF DebugInv, Put, Phase
  <2>2. \A t \in traced \cap Living : report[t] = "new"
    BY <2>1 DEF DebugInv, Types, Listed
  <2> QED
    BY <2>1, <2>2 DEF DebugInv, Types, Listed, TornDown
<1> QED
  BY <1>1, DebugInvariant, PTL

\* No thread runs an instruction of more than one byte twice for having met the
\* breakpoint.  Of one byte, addr + 1 is also where a thread stands that has run
\* it, and the rewind cannot tell.
THEOREM RunsOnce == ASSUME ChildFirst = FALSE, Length # 1 PROVE Spec => []InstructionRunsOnce
<1>1. Init => NotYetRun
  BY DebugAssumption DEF Init, NotYetRun, Away
<1>2. DebugInv /\ NotYetRun /\ [Next]_vars => NotYetRun'
  BY RunStep
<1>3. NotYetRun => InstructionRunsOnce
  BY DEF NotYetRun, InstructionRunsOnce
<1> QED
  BY <1>1, <1>2, <1>3, DebugInvariant, PTL DEF Spec
=============================================================================
