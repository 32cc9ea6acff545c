-------------------------- MODULE SupervisorProofs --------------------------
(***************************************************************************)
(* Proofs about Supervisor, for any number of requests and of workers.     *)
(***************************************************************************)
EXTENDS Supervisor, SequenceTheorems, TLAPS

Numbers == Workers \cup {None}

SessionTypes ==
    /\ worker \in Numbers /\ pending \subseteq Ids /\ hello \in {"none", "asked", "answered"}
    /\ initialized \in BOOLEAN /\ clientGone \in BOOLEAN

ReaderTypes ==
    /\ reader \in {"reading", "waiting", "writing", "closing", "gone"}
    /\ line \in [cancel: BOOLEAN, of: Lines \cup {None}, to: Numbers]
    /\ sent \subseteq Lines /\ cancelled \subseteq Ids
    /\ reader \in {"waiting", "writing"} => line.of \in Lines
    /\ reader = "writing" => line.to \in Workers

MainTypes ==
    /\ main \in MainPcs /\ number \in 0..(MaxWorkers + 1) /\ taken \subseteq Ids
    /\ number \notin Workers => main \in {"top", "givingUp", "endingLine", "exited"}
    /\ outputEnded \in BOOLEAN

PumpTypes ==
    /\ pump \in [Workers -> PumpPcs] /\ chunk \in [Workers -> Seq(Pieces)]
    /\ swallow \in [Workers -> BOOLEAN] /\ abandoned \in [Workers -> BOOLEAN]
    /\ out \in Numbers
    /\ \A k \in Workers : pump[k] = "noting" => chunk[k] # <<>>

WorkerTypes ==
    /\ alive \in [Workers -> BOOLEAN] /\ writer \in [Workers -> BOOLEAN]
    /\ given \in [Workers -> SUBSET Lines] /\ inbox \in [Workers -> SUBSET Ids]
    /\ half \in [Workers -> Ids \cup {None}] /\ pipe \in [Workers -> Seq(Pieces)]

ClientTypes ==
    /\ results \in [Ids -> Nat] /\ errors \in [Ids -> Nat]
    /\ partial \in Ids \cup {None} /\ midLine \in BOOLEAN /\ torn \in BOOLEAN

Types ==
    /\ SessionTypes /\ ReaderTypes /\ MainTypes /\ PumpTypes /\ WorkerTypes /\ ClientTypes
    /\ events \in Seq(Events)

\* The line the reader has in its hands.
InHand ==
    /\ reader = "writing" => /\ line.to <= number
                             /\ line.to = number => main \notin {"top", "snapshot", "replaying", "open"}
    /\ line.cancel => line.of \in Requests \cap cancelled

\* A worker that has not been started.
Fresh(k) ==
    /\ pump[k] = "none" /\ chunk[k] = <<>> /\ pipe[k] = <<>> /\ half[k] = None
    /\ inbox[k] = {} /\ given[k] = {} /\ ~swallow[k] /\ ~abandoned[k]

\* The worker that is given up on is dead and abandoned.
GivenUp ==
    /\ main \in {"taking", "answering"} => abandoned[number]
    /\ main \in {"died", "draining", "abandoning", "taking", "answering"} => ~alive[number]

\* Requests go to the current worker, while the client is there.
Served ==
    worker # None => /\ worker = number /\ ~clientGone
                     /\ main \in {"serving", "died", "givingUp", "endingLine", "exited"}

\* What was taken is about to be answered.
Taken == taken # {} => main \in {"answering", "endingLine", "exited"}

\* The workers there were, and the ones to come.
Former == \A k \in Workers : k < number => abandoned[k] /\ ~alive[k]
ToCome ==
    \A k \in Workers :
        /\ k > number \/ (k = number /\ main \in {"top", "snapshot"}) => Fresh(k)
        /\ k > number \/ (k = number /\ main = "top") => ~alive[k] /\ ~writer[k]

\* The pump that writes is the one that holds standard output, and a pump with
\* nothing in its hands has no chunk.
Holds == \A k \in Workers : pump[k] \in {"writing", "noting"} <=> out = k
Empty == \A k \in Workers : pump[k] \in {"none", "reading", "ended"} => chunk[k] = <<>>

\* The main thread hears of a client that has gone.
Gone ==
    ~clientGone => /\ reader \notin {"closing", "gone"}
                   /\ \A n \in 1..Len(events) : events[n].kind # "ClientGone"

Lifecycle == GivenUp /\ Served /\ Gone /\ Taken /\ Former /\ ToCome /\ Holds /\ Empty

Inv1 == Types /\ InHand /\ Lifecycle /\ AbandonedIsSilent
-----------------------------------------------------------------------------
\* What is left of worker k's output, and a sequence of pieces that, after the
\* beginning of line x (or of none), makes whole lines up to the half line h.
Rest(k) == IF pump[k] = "noting" THEN Tail(chunk[k]) ELSE chunk[k]
Stream(k) == Rest(k) \o pipe[k]

Alternates(s, x, h) ==
    /\ \A n \in 1..Len(s) :
          IF n = 1 THEN x = IF s[n].ends THEN s[n].id ELSE None
          ELSE /\ s[n].ends <=> ~s[n - 1].ends
               /\ s[n].ends => s[n].id = s[n - 1].id
    /\ h = IF s = <<>> THEN x ELSE IF s[Len(s)].ends THEN None ELSE s[Len(s)].id

Pumping(k) == pump[k] \in {"reading", "chunk", "writing", "noting"}

\* A pump that has noted nothing yet has a whole line in its hands.
Notes == \A k \in Workers : pump[k] = "noting" => Head(chunk[k]).ends /\ ~swallow[k]

\* The client's half line is known, and is gone when a worker is started.
HalfLine ==
    /\ midLine <=> partial # None
    /\ main \in {"top", "snapshot"} => partial = None

\* What is left of the current worker's output goes on where the client is.
GoesOn(k) ==
    \E x \in Ids \cup {None} :
        /\ Alternates(Stream(k), x, half[k])
        /\ IF swallow[k] THEN partial = None ELSE x = partial

Flow == \A k \in Workers : k = number /\ Running /\ Pumping(k) => GoesOn(k)

Inv2 == Notes /\ HalfLine /\ Flow /\ ~torn
-----------------------------------------------------------------------------
\* Everything a worker says is of what it was given.
OfGiven(k) ==
    /\ inbox[k] \subseteq given[k]
    /\ half[k] # None => half[k] \in inbox[k]
    /\ \A n \in 1..Len(pipe[k]) : pipe[k][n].id \in given[k]
    /\ \A n \in 1..Len(chunk[k]) : chunk[k][n].id \in given[k]

OfGivens == \A k \in Workers : OfGiven(k)

\* Nobody was given what the client has not sent, or the reader still has; what
\* has an answer was given to somebody.
NotGiven(i) == \A k \in Workers : i \notin given[k]
Answered == \A i \in Ids : results[i] > 0 => ~NotGiven(i)
Unsent == \A i \in Ids : i \notin sent => NotGiven(i)
Held ==
    reader \in {"waiting", "writing"} =>
        line.of \in sent /\ (~line.cancel /\ line.of \in Ids => NotGiven(line.of))

\* The client has the response a pump is about to note.
Noting(i) == \E k \in Workers : pump[k] = "noting" /\ Head(chunk[k]).id = i
Noted == \A i \in Ids : Noting(i) => results[i] > 0

\* The session knows of the client's initialize what the client knows of it.
HelloKnown ==
    /\ hello = "answered" => results[Hello] > 0
    /\ results[Hello] > 0 => hello = "answered" \/ Noting(Hello)
InitializedKnown == initialized \/ Initialized \in sent => results[Hello] > 0

\* The current worker knows what the session knows.
KnowsHello ==
    main \notin {"top", "snapshot"} /\ number \in Workers /\ hello = "answered" /\ alive[number] =>
        Hello \in given[number]
KnowsInitialized ==
    (worker # None \/ main = "open") /\ alive[number] /\ initialized =>
        \/ Initialized \in given[number]
        \/ reader = "writing" /\ line.of = Initialized /\ line.to = number

Inv3 ==
    /\ OfGivens /\ Answered /\ Unsent /\ Held /\ Noted
    /\ HelloKnown /\ InitializedKnown /\ KnowsHello /\ KnowsInitialized
-----------------------------------------------------------------------------
\* No request is pending with a worker that is yet to be opened.
NonePending == main \in {"answering", "top", "snapshot", "replaying", "open"} => pending = {}

\* A request is with the client again, or somewhere in the parent.
Tracked ==
    \A i \in sent \cap Ids :
        \/ Answers(i) > 0 \/ i \in cancelled \/ i \in pending \cup taken
        \/ reader = "waiting" /\ line.of = i

Inv4 == NonePending /\ Tracked
-----------------------------------------------------------------------------
\* The n-th piece of s ends a line of i, and worker k may yet answer i.
Ending(s, n, i) == n \in 1..Len(s) /\ s[n].ends /\ s[n].id = i
Owes(k, i) == i \in inbox[k] \/ \E n \in Nat : Ending(Stream(k), n, i)

\* What the main thread has heard of a worker is so.
Heard ==
    \A n \in 1..Len(events) :
        /\ events[n].kind = "OutputEnded" => pump[events[n].number] = "ended"
        /\ events[n].kind = "Replayed" => ~swallow[events[n].number] /\ pump[events[n].number] # "none"

\* A worker is given up on when its pump has written all it will.
Quiet ==
    /\ main \in {"snapshot", "replaying", "open", "serving"} => ~outputEnded
    /\ main = "died" /\ outputEnded => pump[number] = "ended"
    /\ main \in {"abandoning", "taking", "answering"} =>
          pump[number] = "ended" \/ (pump[number] = "reading" /\ pipe[number] = <<>>)

\* What has no answer yet, and may be answered by an error: what was not sent is
\* untouched, what waits is, what is pending has no answer or is being noted, and
\* what was taken has none.
UnsentUntouched == \A i \in Ids : i \notin sent => errors[i] = 0 /\ i \notin pending \cup taken
WaitingUntouched ==
    reader = "waiting" /\ ~line.cancel /\ line.of \in Ids =>
        errors[line.of] = 0 /\ line.of \notin pending \cup taken
PendingUnanswered == \A i \in pending : errors[i] = 0 /\ (results[i] = 0 \/ Noting(i))
TakenUnanswered == main = "answering" => \A i \in taken : Answers(i) = 0
Unanswered == UnsentUntouched /\ WaitingUntouched /\ PendingUnanswered /\ TakenUnanswered

\* The line the reader writes is of no request that has had its error.
HeldIsNotLost ==
    reader = "writing" /\ line.of \in Ids /\ ~line.cancel =>
        /\ errors[line.of] > 0 => ~alive[line.to]
        /\ Running /\ line.to = number => errors[line.of] = 0

\* The current worker was given no such request either.
GivenIsNotLost ==
    \A k \in Workers : k = number /\ Running => \A i \in Ids \cap given[k] : errors[i] = 0

\* A worker whose initialize is to be swallowed was given nothing else.
OnlyHello ==
    \A k \in Workers : k = number /\ swallow[k] =>
        /\ given[k] \subseteq {Hello} /\ worker = None /\ (reader = "writing" => line.to # k)
        /\ main \in {"replaying", "shutDown", "givingUp", "endingLine", "lastWords", "exited"}

\* Each of the current worker's answers is to come once, and none has come.
OneOfEach(k) ==
    \A i \in Ids, n \in Nat : Ending(Stream(k), n, i) =>
        i \notin inbox[k] /\ \A m \in Nat : Ending(Stream(k), m, i) => m = n
NotYet(k) == ~swallow[k] => \A i \in Ids : Owes(k, i) => results[i] = 0
Debts == \A k \in Workers : k = number /\ Running /\ Pumping(k) => OneOfEach(k) /\ NotYet(k)

Inv5 ==
    /\ Heard /\ Quiet /\ Unanswered /\ HeldIsNotLost /\ GivenIsNotLost /\ OnlyHello /\ Debts
    /\ AnsweredOnce /\ LostIsNeverRun
-----------------------------------------------------------------------------
\* Who changes what.
Written ==
    /\ worker' = worker \/ ClientCloses \/ Open \/ Died
    /\ pending' = pending \/ ReaderAccepts \/ (\E k \in Workers : PumpNotes(k)) \/ TakePending
    /\ hello' = hello \/ ReaderAccepts \/ (\E k \in Workers : PumpNotes(k))
    /\ initialized' = initialized \/ ReaderAccepts
    /\ clientGone' = clientGone \/ ClientCloses
    /\ reader' = reader \/ ReaderAccepts \/ ReaderWrites \/ ReaderGone
           \/ (\E l \in Lines : ClientSends(l)) \/ (\E r \in Requests : ClientCancels(r))
           \/ ClientCloses
    /\ line' = line \/ ReaderAccepts \/ ReaderWrites \/ (\E l \in Lines : ClientSends(l))
           \/ (\E r \in Requests : ClientCancels(r))
    /\ given' = given \/ ReaderWrites \/ Snapshot \/ Replay
    /\ main' = main \/ Main
    /\ number' = number \/ AnswerPending
    /\ outputEnded' = outputEnded \/ Spawn \/ ReplayFails \/ ServeOutputEnded
    /\ taken' = taken \/ TakePending \/ AnswerPending
    /\ pump' = pump \/ (\E k \in Workers : PumpReads(k)) \/ (\E k \in Workers : PumpEnds(k))
           \/ (\E k \in Workers : PumpLocks(k)) \/ (\E k \in Workers : PumpWrites(k))
           \/ (\E k \in Workers : PumpNotes(k)) \/ (\E k \in Workers : PumpUnlocks(k))
           \/ Snapshot
    /\ chunk' = chunk \/ (\E k \in Workers : PumpReads(k)) \/ (\E k \in Workers : PumpLocks(k))
           \/ (\E k \in Workers : PumpWrites(k)) \/ (\E k \in Workers : PumpNotes(k))
           \/ (\E k \in Workers : PumpSwallows(k))
    /\ swallow' = swallow \/ (\E k \in Workers : PumpSwallows(k)) \/ Snapshot
    /\ abandoned' = abandoned \/ ReplayFails \/ Abandon
    /\ alive' = alive \/ (\E k \in Workers, open \in BOOLEAN : WorkerDies(k, open)) \/ Spawn
           \/ ReplayFails \/ ServeOutputEnded \/ ShutDown
    /\ inbox' = inbox \/ ReaderWrites \/ (\E k \in Workers, ok \in BOOLEAN : WorkerEnds(k, ok))
           \/ Snapshot
    /\ half' = half \/ (\E k \in Workers, i \in Ids : WorkerBegins(k, i))
           \/ (\E k \in Workers, ok \in BOOLEAN : WorkerEnds(k, ok))
    /\ pipe' = pipe \/ (\E k \in Workers, i \in Ids : WorkerBegins(k, i))
           \/ (\E k \in Workers, ok \in BOOLEAN : WorkerEnds(k, ok))
           \/ (\E k \in Workers : PumpReads(k))
    /\ writer' = writer \/ (\E k \in Workers, open \in BOOLEAN : WorkerDies(k, open))
           \/ (\E k \in Workers : OutputCloses(k)) \/ Spawn \/ ReplayFails \/ ServeOutputEnded
           \/ ShutDown
    /\ sent' = sent \/ (\E l \in Lines : ClientSends(l))
    /\ cancelled' = cancelled \/ (\E r \in Requests : ClientCancels(r))
    /\ results' = results \/ (\E k \in Workers : PumpWrites(k))
    /\ errors' = errors \/ AnswerPending
    /\ partial' = partial \/ (\E k \in Workers : PumpWrites(k)) \/ AnswerPending
           \/ EndLineAndStop
    /\ torn' = torn \/ (\E k \in Workers : PumpWrites(k)) \/ AnswerPending \/ EndLineAndStop
    /\ events' = events \/ ReaderGone \/ (\E k \in Workers : PumpEnds(k))
           \/ (\E k \in Workers : PumpSwallows(k)) \/ Replay \/ ReplayFails \/ Serve
           \/ ServeOutputEnded \/ Drain \/ LastWords
    /\ out' = out \/ (\E k \in Workers : PumpLocks(k)) \/ (\E k \in Workers : PumpUnlocks(k))
    /\ midLine' = midLine \/ (\E k \in Workers : PumpWrites(k)) \/ AnswerPending
           \/ EndLineAndStop

\* Every step is of one of the actions that change a variable, or leaves it.
LEMMA Writers ==
    ASSUME [Next]_vars PROVE Written
<1>1. CASE ReaderAccepts
  BY <1>1 DEF Written, ReaderAccepts, mainVars, pumpVars, workerVars, clientVars
<1>2. CASE ReaderWrites
  BY <1>2 DEF Written, ReaderWrites, session, mainVars, pumpVars, clientVars
<1>3. CASE ReaderGone
  BY <1>3 DEF Written, ReaderGone, session, mainVars, pumpVars, workerVars, clientVars
<1>4. ASSUME NEW l \in Lines, ClientSends(l) PROVE Written
  BY <1>4 DEF Written, ClientSends, session, mainVars, pumpVars, workerVars
<1>5. ASSUME NEW r \in Requests, ClientCancels(r) PROVE Written
  BY <1>5 DEF Written, ClientCancels, session, mainVars, pumpVars, workerVars
<1>6. CASE ClientCloses
  BY <1>6 DEF Written, ClientCloses, mainVars, pumpVars, workerVars, clientVars
<1>7. ASSUME NEW k \in Workers, NEW i \in Ids, WorkerBegins(k, i) PROVE Written
  BY <1>7 DEF Written, WorkerBegins, session, readerVars, mainVars, pumpVars, clientVars
<1>8. ASSUME NEW k \in Workers, NEW ok \in BOOLEAN, WorkerEnds(k, ok) PROVE Written
  BY <1>8 DEF Written, WorkerEnds, session, readerVars, mainVars, pumpVars, clientVars
<1>9. ASSUME NEW k \in Workers, NEW open \in BOOLEAN, WorkerDies(k, open) PROVE Written
  BY <1>9 DEF Written, WorkerDies, session, readerVars, mainVars, pumpVars, clientVars
<1>10. ASSUME NEW k \in Workers, OutputCloses(k) PROVE Written
  BY <1>10 DEF Written, OutputCloses, session, readerVars, mainVars, pumpVars, clientVars
<1>11. ASSUME NEW k \in Workers, PumpReads(k) PROVE Written
  BY <1>11 DEF Written, PumpReads, session, readerVars, mainVars, clientVars
<1>12. ASSUME NEW k \in Workers, PumpEnds(k) PROVE Written
  BY <1>12 DEF Written, PumpEnds, session, readerVars, mainVars, workerVars, clientVars
<1>13. ASSUME NEW k \in Workers, PumpLocks(k) PROVE Written
  BY <1>13 DEF Written, PumpLocks, session, readerVars, mainVars, workerVars, clientVars
<1>14. ASSUME NEW k \in Workers, PumpWrites(k) PROVE Written
  BY <1>14 DEF Written, PumpWrites, session, readerVars, mainVars, workerVars
<1>15. ASSUME NEW k \in Workers, PumpNotes(k) PROVE Written
  BY <1>15 DEF Written, PumpNotes, readerVars, mainVars, workerVars, clientVars
<1>16. ASSUME NEW k \in Workers, PumpSwallows(k) PROVE Written
  BY <1>16 DEF Written, PumpSwallows, session, readerVars, mainVars, workerVars, clientVars
<1>17. ASSUME NEW k \in Workers, PumpUnlocks(k) PROVE Written
  BY <1>17 DEF Written, PumpUnlocks, session, readerVars, mainVars, workerVars, clientVars
<1>18. CASE NoNewWorker
  BY <1>18 DEF Written, NoNewWorker, Idle, session, readerVars, pumpVars, workerVars, clientVars, Main
<1>19. CASE SpawnFails
  BY <1>19 DEF Written, SpawnFails, Idle, session, readerVars, pumpVars, workerVars, clientVars, Main
<1>20. CASE Spawn
  BY <1>20 DEF Written, Spawn, Waits, session, readerVars, pumpVars, clientVars, Main
<1>21. CASE Snapshot
  BY <1>21 DEF Written, Snapshot, session, clientVars, Main
<1>22. CASE Replay
  BY <1>22 DEF Written, Replay, session, pumpVars, workerVars, clientVars, Main
<1>23. CASE ReplayFails
  BY <1>23 DEF Written, ReplayFails, session, readerVars, clientVars, Ends, Main
<1>24. CASE Open
  BY <1>24 DEF Written, Open, readerVars, pumpVars, workerVars, clientVars, Main
<1>25. CASE Serve
  BY <1>25 DEF Written, Serve, Waits, session, readerVars, pumpVars, workerVars, clientVars, Main
<1>26. CASE ServeOutputEnded
  BY <1>26 DEF Written, ServeOutputEnded, Waits, session, readerVars, pumpVars, clientVars, Ends, Main
<1>27. CASE Died
  BY <1>27 DEF Written, Died, readerVars, pumpVars, workerVars, clientVars, Main
<1>28. CASE Drain
  BY <1>28 DEF Written, Drain, Waits, session, readerVars, pumpVars, workerVars, clientVars, Main
<1>29. CASE DrainTimesOut
  BY <1>29 DEF Written, DrainTimesOut, Idle, session, readerVars, pumpVars, workerVars, clientVars, Main
<1>30. CASE Abandon
  BY <1>30 DEF Written, Abandon, session, readerVars, workerVars, clientVars, Main
<1>31. CASE TakePending
  BY <1>31 DEF Written, TakePending, readerVars, pumpVars, workerVars, clientVars, Main
<1>32. CASE AnswerPending
  BY <1>32 DEF Written, AnswerPending, session, readerVars, pumpVars, workerVars, Main
<1>33. CASE EndLineAndStop
  BY <1>33 DEF Written, EndLineAndStop, session, readerVars, pumpVars, workerVars, Main
<1>34. CASE ShutDown
  BY <1>34 DEF Written, ShutDown, Waits, session, readerVars, pumpVars, clientVars, Ends, Main
<1>35. CASE LastWords
  BY <1>35 DEF Written, LastWords, Waits, session, readerVars, pumpVars, workerVars, clientVars, Main
<1>36. CASE LastWordsTimeOut
  BY <1>36 DEF Written, LastWordsTimeOut, Idle, session, readerVars, pumpVars, workerVars, clientVars, Main
<1>37. CASE UNCHANGED vars
  BY <1>37 DEF Written, vars, session, readerVars, mainVars, pumpVars, workerVars, clientVars
<1> QED
  BY <1>1, <1>2, <1>3, <1>4, <1>5, <1>6, <1>7, <1>8, <1>9, <1>10, <1>11, <1>12, <1>13, <1>14, <1>15, <1>16, <1>17, <1>18, <1>19, <1>20, <1>21, <1>22, <1>23, <1>24, <1>25, <1>26, <1>27, <1>28, <1>29, <1>30, <1>31, <1>32, <1>33, <1>34, <1>35, <1>36, <1>37 DEF Next, Reader, Client, Worker, Pump, Main, Exited

\* The sets a step needs to be told of, without their expansion.
LEMMA SetFacts ==
    /\ None \notin Lines /\ None \notin Workers /\ Hello \in Ids /\ Ids \subseteq Lines
    /\ Initialized \in Lines /\ Initialized \notin Ids /\ Requests \subseteq Ids /\ Hello # Initialized
    /\ Workers \subseteq Nat /\ 0 \in Workers
  BY SupervisorAssumption DEF Lines, Ids, Workers

\* A piece of output, and what its fields are.
LEMMA PieceFacts ==
    /\ \A p \in Pieces : p.id \in Ids /\ p.ends \in BOOLEAN /\ p.ok \in BOOLEAN
    /\ \A i \in Ids, b \in BOOLEAN, ok \in BOOLEAN :
          LET p == [id |-> i, ends |-> b, ok |-> ok]
          IN  p \in Pieces /\ p.id = i /\ p.ends = b /\ p.ok = ok
  BY DEF Pieces

\* An event is one.
LEMMA EventFacts ==
    ASSUME NEW kind \in {"ClientGone", "OutputEnded", "Replayed"}, NEW k \in Workers, NEW ok \in BOOLEAN
    PROVE  /\ Event(kind, k, ok) \in Events
           /\ Event(kind, k, ok).kind = kind /\ Event(kind, k, ok).number = k /\ Event(kind, k, ok).ok = ok
  BY DEF Event, Events

\* The session's fields stay in their sets.
LEMMA SessionTypesStep ==
    ASSUME Inv1, [Next]_vars
    PROVE  SessionTypes'
<1>0. Types /\ InHand /\ Lifecycle /\ AbandonedIsSilent
  BY DEF Inv1
<1>u. CASE UNCHANGED <<worker, pending, hello, initialized, clientGone>>
  BY <1>0, SetFacts, <1>u DEF Types, SessionTypes
<1>1. CASE ReaderAccepts
  BY <1>0, <1>1 DEF SessionTypes, Types, ReaderAccepts, ReaderTypes
<1>2. CASE ClientCloses
  BY <1>0, SetFacts, <1>2 DEF ClientCloses, SessionTypes, Types, MainTypes, ReaderTypes, Numbers, PumpTypes
<1>3. ASSUME NEW k \in Workers, PumpNotes(k) PROVE SessionTypes'
  BY <1>0, <1>3 DEF SessionTypes, Types, PumpNotes
<1>4. CASE Open
  BY <1>0, SetFacts, <1>4 DEF Open, SessionTypes, Types, MainTypes, ReaderTypes, Numbers, PumpTypes
<1>5. CASE Died
  BY <1>0, SetFacts, <1>5 DEF Died, SessionTypes, Types, MainTypes, ReaderTypes, Numbers, PumpTypes
<1>6. CASE TakePending
  BY <1>0, SetFacts, <1>6 DEF TakePending, SessionTypes, Types, MainTypes, ReaderTypes, Numbers, PumpTypes
<1> QED
  BY <1>u, <1>1, <1>2, <1>3, <1>4, <1>5, <1>6, Writers DEF Written

\* The reader's stay in theirs, and it has a line when it needs one.
LEMMA ReaderTypesStep ==
    ASSUME Inv1, [Next]_vars
    PROVE  ReaderTypes'
<1>0. Types /\ InHand /\ Lifecycle /\ AbandonedIsSilent
  BY DEF Inv1
<1>u. CASE UNCHANGED <<reader, line, sent, cancelled>>
  BY <1>0, SetFacts, <1>u DEF Types, ReaderTypes
<1>1. CASE ReaderAccepts
  BY <1>0, SetFacts, <1>1 DEF ReaderAccepts, clientVars, ReaderTypes, Types, SessionTypes, Numbers
<1>2. CASE ReaderWrites
  BY <1>0, SetFacts, <1>2 DEF ReaderWrites, NoLine, clientVars, ReaderTypes, Types, SessionTypes, Numbers
<1>3. CASE ReaderGone
  BY <1>0, SetFacts, <1>3 DEF ReaderGone, Send, Event, clientVars, ReaderTypes, Types, SessionTypes, Numbers
<1>4. ASSUME NEW l \in Lines, ClientSends(l) PROVE ReaderTypes'
  BY <1>0, SetFacts, <1>4 DEF ClientSends, NoLine, ReaderTypes, Types, SessionTypes, Numbers
<1>5. ASSUME NEW r \in Requests, ClientCancels(r) PROVE ReaderTypes'
  BY <1>0, SetFacts, <1>5 DEF ClientCancels, NoLine, ReaderTypes, Types, SessionTypes, Numbers
<1>6. CASE ClientCloses
  BY <1>0, SetFacts, <1>6 DEF ClientCloses, clientVars, ReaderTypes, Types, SessionTypes, Numbers
<1> QED
  BY <1>u, <1>1, <1>2, <1>3, <1>4, <1>5, <1>6, Writers DEF Written

\* The main thread's stay in theirs.
LEMMA MainTypesStep ==
    ASSUME Inv1, [Next]_vars
    PROVE  MainTypes'
<1>0. Types /\ InHand /\ Lifecycle /\ AbandonedIsSilent
  BY DEF Inv1
<1>u. CASE UNCHANGED <<main, number, taken, outputEnded>>
  BY <1>0, SupervisorAssumption, <1>u DEF Types, MainTypes
<1>1. CASE NoNewWorker
  BY <1>0, SupervisorAssumption, <1>1 DEF NoNewWorker, Idle, MainTypes, Types, MainPcs, SessionTypes, Workers
<1>2. CASE SpawnFails
  BY <1>0, SupervisorAssumption, <1>2 DEF SpawnFails, Idle, MainTypes, Types, MainPcs, SessionTypes, Workers
<1>3. CASE Spawn
  BY <1>0, SupervisorAssumption, <1>3 DEF Spawn, Waits, MainTypes, Types, MainPcs, SessionTypes, Workers
<1>4. CASE Snapshot
  BY <1>0, SupervisorAssumption, <1>4 DEF Snapshot, MainTypes, Types, MainPcs, SessionTypes, Workers
<1>5. CASE Replay
  BY <1>0, SupervisorAssumption, <1>5 DEF Replay, ReplayFailed, ReplayedWell, MainTypes, Types, MainPcs, SessionTypes, Workers
<1>6. CASE ReplayFails
  BY <1>0, SupervisorAssumption, <1>6 DEF ReplayFails, ReplayFailed, Ends, MainTypes, Types, MainPcs, SessionTypes, Workers
<1>7. CASE Open
  BY <1>0, SupervisorAssumption, <1>7 DEF Open, MainTypes, Types, MainPcs, SessionTypes, Workers
<1>8. CASE Serve
  BY <1>0, SupervisorAssumption, <1>8 DEF Serve, Waits, MainTypes, Types, MainPcs, SessionTypes, Workers
<1>9. CASE ServeOutputEnded
  BY <1>0, SupervisorAssumption, <1>9 DEF ServeOutputEnded, Ends, Waits, MainTypes, Types, MainPcs, SessionTypes, Workers
<1>10. CASE Died
  BY <1>0, SupervisorAssumption, <1>10 DEF Died, MainTypes, Types, MainPcs, SessionTypes, Workers
<1>11. CASE Drain
  BY <1>0, SupervisorAssumption, <1>11 DEF Drain, Waits, MainTypes, Types, MainPcs, SessionTypes, Workers
<1>12. CASE DrainTimesOut
  BY <1>0, SupervisorAssumption, <1>12 DEF DrainTimesOut, Idle, MainTypes, Types, MainPcs, SessionTypes, Workers
<1>13. CASE Abandon
  BY <1>0, SupervisorAssumption, <1>13 DEF Abandon, MainTypes, Types, MainPcs, SessionTypes, Workers
<1>14. CASE TakePending
  BY <1>0, SupervisorAssumption, <1>14 DEF TakePending, MainTypes, Types, MainPcs, SessionTypes, Workers
<1>15. CASE AnswerPending
  BY <1>0, SupervisorAssumption, <1>15 DEF AnswerPending, EndTheLine, MainTypes, Types, MainPcs, SessionTypes, Workers
<1>16. CASE EndLineAndStop
  BY <1>0, SupervisorAssumption, <1>16 DEF EndLineAndStop, EndTheLine, MainTypes, Types, MainPcs, SessionTypes, Workers
<1>17. CASE ShutDown
  BY <1>0, SupervisorAssumption, <1>17 DEF ShutDown, Ends, Waits, MainTypes, Types, MainPcs, SessionTypes, Workers
<1>18. CASE LastWords
  BY <1>0, SupervisorAssumption, <1>18 DEF LastWords, Waits, MainTypes, Types, MainPcs, SessionTypes, Workers
<1>19. CASE LastWordsTimeOut
  BY <1>0, SupervisorAssumption, <1>19 DEF LastWordsTimeOut, Idle, MainTypes, Types, MainPcs, SessionTypes, Workers
<1> QED
  BY <1>u, <1>1, <1>2, <1>3, <1>4, <1>5, <1>6, <1>7, <1>8, <1>9, <1>10, <1>11, <1>12, <1>13, <1>14, <1>15, <1>16, <1>17, <1>18, <1>19, Writers DEF Written, Main

\* The pumps' stay in theirs.
LEMMA PumpTypesStep ==
    ASSUME Inv1, [Next]_vars
    PROVE  PumpTypes'
<1>0. Types /\ InHand /\ Lifecycle /\ AbandonedIsSilent
  BY DEF Inv1
<1>u. CASE UNCHANGED <<pump, chunk, swallow, abandoned, out>>
  BY <1>0, SetFacts, EmptySeq, HeadTailProperties, <1>u DEF Types, PumpTypes
<1>1. ASSUME NEW k \in Workers, PumpReads(k) PROVE PumpTypes'
  <2>1. PICK n \in 1..Len(pipe[k]) : chunk' = [chunk EXCEPT ![k] = SubSeq(pipe[k], 1, n)]
    BY <1>1 DEF PumpReads
  <2>2. pipe[k] \in Seq(Pieces) /\ n \in 1..Len(pipe[k])
    BY <1>0 DEF Types, WorkerTypes
  <2>3. SubSeq(pipe[k], 1, n) \in Seq(Pieces)
    BY <2>2, SubSeqProperties
  <2>4. pump' \in [Workers -> PumpPcs] /\ \A j \in Workers : pump'[j] = "noting" => j # k /\ pump[j] = "noting"
    BY <1>0, <1>1 DEF PumpReads, Types, PumpTypes, PumpPcs
  <2> QED
    BY <1>0, <2>1, <2>3, <2>4, <1>1 DEF PumpReads, Types, PumpTypes
<1>2. ASSUME NEW k \in Workers, PumpEnds(k) PROVE PumpTypes'
  BY <1>0, SetFacts, EmptySeq, HeadTailProperties, <1>2 DEF PumpEnds, Send, Event, PumpTypes, Types, PumpPcs, Numbers
<1>3. ASSUME NEW k \in Workers, PumpLocks(k) PROVE PumpTypes'
  <2>1. <<>> \in Seq(Pieces)
    BY EmptySeq
  <2>2. chunk' \in [Workers -> Seq(Pieces)] /\ out' \in Numbers
    BY <1>0, <2>1, <1>3 DEF PumpLocks, Types, PumpTypes, Numbers
  <2>3. pump' \in [Workers -> PumpPcs] /\ pump'[k] # "noting"
        /\ \A j \in Workers : j # k => pump'[j] = pump[j] /\ chunk'[j] = chunk[j]
    BY <1>0, <1>3 DEF PumpLocks, Types, PumpTypes, PumpPcs
  <2> QED
    BY <1>0, <2>2, <2>3, <1>3 DEF PumpLocks, Types, PumpTypes
<1>4. ASSUME NEW k \in Workers, PumpWrites(k) PROVE PumpTypes'
  <2>1. chunk[k] \in Seq(Pieces) /\ chunk[k] # <<>>
    BY <1>0, <1>4 DEF PumpWrites, Types, PumpTypes
  <2>2. Tail(chunk[k]) \in Seq(Pieces)
    BY <2>1, HeadTailProperties
  <2>3. CASE Head(chunk[k]).ends
    <3>1. pump' = [pump EXCEPT ![k] = "noting"] /\ UNCHANGED <<chunk, swallow, abandoned, out>>
      BY <2>3, <1>4 DEF PumpWrites
    <3> QED
      BY <1>0, <2>1, <3>1 DEF Types, PumpTypes, PumpPcs
  <2>4. CASE ~Head(chunk[k]).ends
    <3>1. chunk' = [chunk EXCEPT ![k] = Tail(chunk[k])] /\ UNCHANGED <<pump, swallow, abandoned, out>>
      BY <2>4, <1>4 DEF PumpWrites
    <3>2. pump[k] = "writing"
      BY <1>4 DEF PumpWrites
    <3> QED
      BY <1>0, <2>2, <3>1, <3>2 DEF Types, PumpTypes
  <2> QED
    BY <2>3, <2>4
<1>5. ASSUME NEW k \in Workers, PumpNotes(k) PROVE PumpTypes'
  BY <1>0, SetFacts, EmptySeq, HeadTailProperties, <1>5 DEF PumpNotes, PumpTypes, Types, PumpPcs, Numbers
<1>6. ASSUME NEW k \in Workers, PumpSwallows(k) PROVE PumpTypes'
  BY <1>0, SetFacts, EmptySeq, HeadTailProperties, <1>6 DEF PumpSwallows, Send, Event, PumpTypes, Types, PumpPcs, Numbers
<1>7. ASSUME NEW k \in Workers, PumpUnlocks(k) PROVE PumpTypes'
  BY <1>0, SetFacts, EmptySeq, HeadTailProperties, <1>7 DEF PumpUnlocks, PumpTypes, Types, PumpPcs, Numbers
<1>8. CASE Snapshot
  BY <1>0, SetFacts, EmptySeq, HeadTailProperties, <1>8 DEF Snapshot, PumpTypes, Types, PumpPcs, Numbers
<1>9. CASE ReplayFails
  BY <1>0, SetFacts, EmptySeq, HeadTailProperties, <1>9 DEF ReplayFails, ReplayFailed, Ends, PumpTypes, Types, PumpPcs, Numbers
<1>10. CASE Abandon
  BY <1>0, SetFacts, EmptySeq, HeadTailProperties, <1>10 DEF Abandon, PumpTypes, Types, PumpPcs, Numbers
<1> QED
  BY <1>u, <1>1, <1>2, <1>3, <1>4, <1>5, <1>6, <1>7, <1>8, <1>9, <1>10, Writers DEF Written

\* The workers' stay in theirs.
LEMMA WorkerTypesStep ==
    ASSUME Inv1, [Next]_vars
    PROVE  WorkerTypes'
<1>0. Types /\ InHand /\ Lifecycle /\ AbandonedIsSilent
  BY DEF Inv1
<1>u. CASE UNCHANGED <<alive, writer, given, inbox, half, pipe>>
  BY <1>0, SetFacts, <1>u DEF Types, WorkerTypes
<1>1. CASE ReaderWrites
  <2>0. line.to \in Workers /\ line.of \in Lines
    BY <1>0, <1>1 DEF ReaderWrites, Types, ReaderTypes
  <2>1. UNCHANGED <<alive, writer, half, pipe>>
    BY <1>1 DEF ReaderWrites
  <2>2. CASE alive[line.to] /\ ~line.cancel
    <3>1. given' = [given EXCEPT ![line.to] = given[line.to] \cup {line.of}]
          /\ inbox' = [inbox EXCEPT ![line.to] = inbox[line.to] \cup ({line.of} \cap Ids)]
      BY <2>2, <1>1 DEF ReaderWrites
    <3>2. given' \in [Workers -> SUBSET Lines]
      BY <1>0, <2>0, <3>1 DEF Types, WorkerTypes
    <3>3. inbox' \in [Workers -> SUBSET Ids]
      BY <1>0, <2>0, <3>1 DEF Types, WorkerTypes
    <3> QED
      BY <1>0, <2>1, <3>2, <3>3 DEF Types, WorkerTypes
  <2>3. CASE ~(alive[line.to] /\ ~line.cancel)
    <3>1. UNCHANGED <<given, inbox>>
      BY <2>3, <1>1 DEF ReaderWrites
    <3> QED
      BY <1>0, <2>1, <3>1 DEF Types, WorkerTypes
  <2> QED
    BY <2>2, <2>3
<1>2. ASSUME NEW k \in Workers, NEW i \in Ids, WorkerBegins(k, i) PROVE WorkerTypes'
  <2>1. Append(pipe[k], [id |-> i, ends |-> FALSE, ok |-> TRUE]) \in Seq(Pieces)
    BY <1>0, PieceFacts, AppendProperties DEF Types, WorkerTypes
  <2> QED
    BY <1>0, <2>1, <1>2 DEF WorkerBegins, Types, WorkerTypes, readerVars
<1>3. ASSUME NEW k \in Workers, NEW ok \in BOOLEAN, WorkerEnds(k, ok) PROVE WorkerTypes'
  <2>0. half[k] \in Ids
    BY <1>0, <1>3 DEF WorkerEnds, Types, WorkerTypes
  <2>1. Append(pipe[k], [id |-> half[k], ends |-> TRUE, ok |-> ok]) \in Seq(Pieces)
    BY <1>0, <2>0, PieceFacts, AppendProperties DEF Types, WorkerTypes
  <2> QED
    BY <1>0, <2>0, <2>1, <1>3 DEF WorkerEnds, Types, WorkerTypes, readerVars
<1>4. ASSUME NEW k \in Workers, NEW open \in BOOLEAN, WorkerDies(k, open) PROVE WorkerTypes'
  BY <1>0, SetFacts, <1>4 DEF WorkerDies, readerVars, WorkerTypes, Types, MainTypes, ReaderTypes
<1>5. ASSUME NEW k \in Workers, OutputCloses(k) PROVE WorkerTypes'
  BY <1>0, SetFacts, <1>5 DEF OutputCloses, readerVars, WorkerTypes, Types, MainTypes, ReaderTypes
<1>6. ASSUME NEW k \in Workers, PumpReads(k) PROVE WorkerTypes'
  <2>1. PICK n \in 1..Len(pipe[k]) : pipe' = [pipe EXCEPT ![k] = SubSeq(pipe[k], n + 1, Len(pipe[k]))]
    BY <1>6 DEF PumpReads
  <2>2. pipe[k] \in Seq(Pieces) /\ n \in 1..Len(pipe[k])
    BY <1>0 DEF Types, WorkerTypes
  <2>3. SubSeq(pipe[k], n + 1, Len(pipe[k])) \in Seq(Pieces)
    BY <2>2, SubSeqProperties, LenProperties
  <2> QED
    BY <1>0, <2>1, <2>3, <1>6 DEF PumpReads, Types, WorkerTypes, readerVars
<1>7. CASE Spawn
  BY <1>0, SetFacts, <1>7 DEF Spawn, Waits, readerVars, WorkerTypes, Types, MainTypes, ReaderTypes
<1>8. CASE Snapshot
  <2>1. UNCHANGED <<alive, writer, half, pipe>> /\ number \in Workers
    BY <1>0, <1>8 DEF Snapshot, Types, MainTypes
  <2>2. CASE UNCHANGED <<given, inbox>>
    BY <1>0, <2>1, <2>2 DEF Types, WorkerTypes
  <2>3. CASE /\ given' = [given EXCEPT ![number] = given[number] \cup {Hello}]
             /\ inbox' = [inbox EXCEPT ![number] = inbox[number] \cup {Hello}]
    BY <1>0, <2>1, <2>3, SetFacts DEF Types, WorkerTypes
  <2> QED
    BY <1>8, <2>2, <2>3 DEF Snapshot
<1>9. CASE Replay
  BY <1>0, SetFacts, <1>9 DEF Replay, ReplayFailed, ReplayedWell, workerVars, WorkerTypes, Types, MainTypes, ReaderTypes
<1>10. CASE ReplayFails
  BY <1>0, SetFacts, <1>10 DEF ReplayFails, ReplayFailed, Ends, readerVars, WorkerTypes, Types, MainTypes, ReaderTypes
<1>11. CASE ServeOutputEnded
  BY <1>0, SetFacts, <1>11 DEF ServeOutputEnded, Ends, Waits, readerVars, WorkerTypes, Types, MainTypes, ReaderTypes
<1>12. CASE ShutDown
  BY <1>0, SetFacts, <1>12 DEF ShutDown, Ends, Waits, readerVars, WorkerTypes, Types, MainTypes, ReaderTypes
<1> QED
  BY <1>u, <1>1, <1>2, <1>3, <1>4, <1>5, <1>6, <1>7, <1>8, <1>9, <1>10, <1>11, <1>12, Writers DEF Written

\* The client's stay in theirs.
LEMMA ClientTypesStep ==
    ASSUME Inv1, [Next]_vars
    PROVE  ClientTypes'
<1>0. Types /\ InHand /\ Lifecycle /\ AbandonedIsSilent
  BY DEF Inv1
<1>u. CASE UNCHANGED <<results, errors, partial, midLine, torn>>
  BY <1>0, SetFacts, <1>u DEF Types, ClientTypes
<1>1. ASSUME NEW k \in Workers, PumpWrites(k) PROVE ClientTypes'
  <2>1. chunk[k] \in Seq(Pieces) /\ chunk[k] # <<>>
    BY <1>0, <1>1 DEF PumpWrites, Types, PumpTypes
  <2>2. Head(chunk[k]).id \in Ids /\ Head(chunk[k]).ends \in BOOLEAN
    BY <2>1, HeadTailProperties, PieceFacts
  <2>3. errors' = errors /\ errors \in [Ids -> Nat] /\ results \in [Ids -> Nat] /\ partial \in Ids \cup {None}
    BY <1>0, <1>1 DEF PumpWrites, Types, ClientTypes
  <2>4. torn' \in BOOLEAN /\ midLine' \in BOOLEAN
    BY <1>0, <2>2, <1>1, Zenon DEF PumpWrites, ClientReads, Types, ClientTypes
  <2>5. CASE Head(chunk[k]).ends
    <3>1. partial' = None /\ results' = [results EXCEPT ![Head(chunk[k]).id] = results[Head(chunk[k]).id] + 1]
      BY <2>5, <1>1 DEF PumpWrites, ClientReads
    <3>2. results' \in [Ids -> Nat]
      BY <2>2, <2>3, <3>1
    <3> QED
      BY <2>3, <2>4, <3>1, <3>2 DEF ClientTypes
  <2>6. CASE ~Head(chunk[k]).ends
    <3>1. partial' = Head(chunk[k]).id /\ results' = results
      BY <2>6, <1>1 DEF PumpWrites, ClientReads
    <3> QED
      BY <2>2, <2>3, <2>4, <3>1 DEF ClientTypes
  <2> QED
    BY <2>5, <2>6
<1>2. CASE AnswerPending
  <2>1. results' = results /\ results \in [Ids -> Nat] /\ errors \in [Ids -> Nat]
    BY <1>0, <1>2 DEF AnswerPending, Types, ClientTypes
  <2>2. errors' = [i \in Ids |-> IF i \in taken THEN errors[i] + 1 ELSE errors[i]]
    BY <1>2 DEF AnswerPending
  <2>3. errors' \in [Ids -> Nat]
    BY <2>1, <2>2
  <2>4. partial' \in Ids \cup {None}
    BY <1>0, <1>2 DEF AnswerPending, EndTheLine, Types, ClientTypes
  <2>5. torn' \in BOOLEAN /\ midLine' \in BOOLEAN
    BY <1>0, <1>2, Zenon DEF AnswerPending, EndTheLine, Types, ClientTypes
  <2> QED
    BY <2>1, <2>3, <2>4, <2>5 DEF ClientTypes
<1>3. CASE EndLineAndStop
  BY <1>0, SetFacts, <1>3 DEF EndLineAndStop, EndTheLine, ClientTypes, Types, MainTypes
<1> QED
  BY <1>u, <1>1, <1>2, <1>3, Writers DEF Written

\* The channel carries events.
LEMMA EventsStep ==
    ASSUME Inv1, [Next]_vars
    PROVE  events' \in Seq(Events)
<1>0. Types /\ InHand /\ Lifecycle /\ AbandonedIsSilent
  BY DEF Inv1
<1>u. CASE UNCHANGED <<events>>
  BY <1>0, <1>u DEF Types
<1>1. CASE ReaderGone
  BY <1>0, <1>1, EventFacts, SetFacts, AppendProperties DEF ReaderGone, Send, Types
<1>2. ASSUME NEW k \in Workers, PumpEnds(k) PROVE events' \in Seq(Events)
  BY <1>0, <1>2, EventFacts, AppendProperties DEF PumpEnds, Send, Types
<1>3. ASSUME NEW k \in Workers, PumpSwallows(k) PROVE events' \in Seq(Events)
  <2>1. chunk[k] \in Seq(Pieces) /\ chunk[k] # <<>>
    BY <1>0, <1>3 DEF PumpSwallows, Types, PumpTypes
  <2>2. Head(chunk[k]).ok \in BOOLEAN
    BY <2>1, HeadTailProperties, PieceFacts
  <2>3. CASE Head(chunk[k]).ends /\ Head(chunk[k]).id = Hello
    <3>1. events' = Append(events, Event("Replayed", k, Head(chunk[k]).ok))
      BY <2>3, <1>3 DEF PumpSwallows, Send
    <3>2. Event("Replayed", k, Head(chunk[k]).ok) \in Events
      BY <2>2, EventFacts
    <3> QED
      BY <1>0, <3>1, <3>2, AppendProperties DEF Types
  <2>4. CASE ~(Head(chunk[k]).ends /\ Head(chunk[k]).id = Hello)
    <3>1. events' = events
      BY <2>4, <1>3 DEF PumpSwallows
    <3> QED
      BY <1>0, <3>1 DEF Types
  <2> QED
    BY <2>3, <2>4
<1>4. CASE Replay
  BY <1>0, <1>4, EmptySeq, HeadTailProperties DEF Replay, Types
<1>5. CASE ReplayFails
  BY <1>0, <1>5, EmptySeq, HeadTailProperties DEF ReplayFails, Types
<1>6. CASE Serve
  BY <1>0, <1>6, EmptySeq, HeadTailProperties DEF Serve, Types
<1>7. CASE ServeOutputEnded
  BY <1>0, <1>7, EmptySeq, HeadTailProperties DEF ServeOutputEnded, Types
<1>8. CASE Drain
  BY <1>0, <1>8, EmptySeq, HeadTailProperties DEF Drain, Types
<1>9. CASE LastWords
  BY <1>0, <1>9, EmptySeq, HeadTailProperties DEF LastWords, Types
<1> QED
  BY <1>u, <1>1, <1>2, <1>3, <1>4, <1>5, <1>6, <1>7, <1>8, <1>9, Writers DEF Written

\* Together.
LEMMA TypesStep ==
    ASSUME Inv1, [Next]_vars PROVE Types'
  BY SessionTypesStep, ReaderTypesStep, MainTypesStep, PumpTypesStep, WorkerTypesStep, ClientTypesStep,
     EventsStep DEF Types

\* What is left of a sequence when its first element is taken.
LEMMA TailElements ==
    ASSUME NEW S, NEW s \in Seq(S), s # <<>>
    PROVE  /\ Len(s) \in Nat \ {0} /\ Head(s) = s[1] /\ Head(s) \in S
           /\ Tail(s) \in Seq(S) /\ Len(Tail(s)) = Len(s) - 1
           /\ \A n \in 1..Len(Tail(s)) : n + 1 \in 1..Len(s) /\ Tail(s)[n] = s[n + 1]
  BY HeadTailProperties, LenProperties, EmptySeq

\* What is in a sequence when one more is put at its end.
LEMMA AppendElements ==
    ASSUME NEW S, NEW s \in Seq(S), NEW e \in S
    PROVE  /\ Len(s) \in Nat /\ Append(s, e) \in Seq(S) /\ Len(Append(s, e)) = Len(s) + 1
           /\ Append(s, e)[Len(s) + 1] = e
           /\ \A n \in 1..Len(s) : n \in 1..Len(Append(s, e)) /\ Append(s, e)[n] = s[n]
           /\ \A n \in 1..Len(Append(s, e)) : n \in 1..Len(s) \/ n = Len(s) + 1
  BY AppendProperties, LenProperties

\* The reader's line is for a worker that was opened.
LEMMA InHandStep ==
    ASSUME Inv1, [Next]_vars
    PROVE  InHand'
<1>0. Types /\ InHand /\ Lifecycle /\ AbandonedIsSilent
  BY DEF Inv1
<1>u. CASE UNCHANGED <<reader, line, number, main, cancelled>>
  BY <1>0, SetFacts, <1>u DEF InHand
<1>1. CASE ReaderAccepts
  BY <1>0, SetFacts, <1>1 DEF ReaderAccepts, mainVars, clientVars, InHand, Lifecycle, Served, Types, MainTypes, ReaderTypes, SessionTypes
<1>2. CASE ReaderWrites
  BY <1>0, SetFacts, <1>2 DEF ReaderWrites, NoLine, mainVars, clientVars, InHand, Lifecycle, Served, Types, MainTypes, ReaderTypes, SessionTypes
<1>3. CASE ReaderGone
  BY <1>0, SetFacts, <1>3 DEF ReaderGone, Send, Event, mainVars, clientVars, InHand, Lifecycle, Served, Types, MainTypes, ReaderTypes, SessionTypes
<1>4. ASSUME NEW l \in Lines, ClientSends(l) PROVE InHand'
  BY <1>0, SetFacts, <1>4 DEF ClientSends, NoLine, mainVars, InHand, Lifecycle, Served, Types, MainTypes, ReaderTypes, SessionTypes
<1>5. ASSUME NEW r \in Requests, ClientCancels(r) PROVE InHand'
  BY <1>0, SetFacts, <1>5 DEF ClientCancels, NoLine, mainVars, InHand, Lifecycle, Served, Types, MainTypes, ReaderTypes, SessionTypes
<1>6. CASE ClientCloses
  BY <1>0, SetFacts, <1>6 DEF ClientCloses, mainVars, clientVars, InHand, Lifecycle, Served, Types, MainTypes, ReaderTypes, SessionTypes
<1>7. CASE NoNewWorker
  BY <1>0, SetFacts, <1>7 DEF NoNewWorker, Idle, readerVars, clientVars, InHand, Lifecycle, Served, Types, MainTypes, ReaderTypes, SessionTypes
<1>8. CASE SpawnFails
  BY <1>0, SetFacts, <1>8 DEF SpawnFails, Idle, readerVars, clientVars, InHand, Lifecycle, Served, Types, MainTypes, ReaderTypes, SessionTypes
<1>9. CASE Spawn
  BY <1>0, SetFacts, <1>9 DEF Spawn, Waits, readerVars, clientVars, InHand, Lifecycle, Served, Types, MainTypes, ReaderTypes, SessionTypes
<1>10. CASE Snapshot
  BY <1>0, SetFacts, <1>10 DEF Snapshot, clientVars, InHand, Lifecycle, Served, Types, MainTypes, ReaderTypes, SessionTypes
<1>11. CASE Replay
  BY <1>0, SetFacts, <1>11 DEF Replay, ReplayFailed, ReplayedWell, clientVars, InHand, Lifecycle, Served, Types, MainTypes, ReaderTypes, SessionTypes
<1>12. CASE ReplayFails
  BY <1>0, SetFacts, <1>12 DEF ReplayFails, ReplayFailed, Ends, readerVars, clientVars, InHand, Lifecycle, Served, Types, MainTypes, ReaderTypes, SessionTypes
<1>13. CASE Open
  BY <1>0, SetFacts, <1>13 DEF Open, readerVars, clientVars, InHand, Lifecycle, Served, Types, MainTypes, ReaderTypes, SessionTypes
<1>14. CASE Serve
  BY <1>0, SetFacts, <1>14 DEF Serve, Waits, readerVars, clientVars, InHand, Lifecycle, Served, Types, MainTypes, ReaderTypes, SessionTypes
<1>15. CASE ServeOutputEnded
  BY <1>0, SetFacts, <1>15 DEF ServeOutputEnded, Ends, Waits, readerVars, clientVars, InHand, Lifecycle, Served, Types, MainTypes, ReaderTypes, SessionTypes
<1>16. CASE Died
  BY <1>0, SetFacts, <1>16 DEF Died, readerVars, clientVars, InHand, Lifecycle, Served, Types, MainTypes, ReaderTypes, SessionTypes
<1>17. CASE Drain
  BY <1>0, SetFacts, <1>17 DEF Drain, Waits, readerVars, clientVars, InHand, Lifecycle, Served, Types, MainTypes, ReaderTypes, SessionTypes
<1>18. CASE DrainTimesOut
  BY <1>0, SetFacts, <1>18 DEF DrainTimesOut, Idle, readerVars, clientVars, InHand, Lifecycle, Served, Types, MainTypes, ReaderTypes, SessionTypes
<1>19. CASE Abandon
  BY <1>0, SetFacts, <1>19 DEF Abandon, readerVars, clientVars, InHand, Lifecycle, Served, Types, MainTypes, ReaderTypes, SessionTypes
<1>20. CASE TakePending
  BY <1>0, SetFacts, <1>20 DEF TakePending, readerVars, clientVars, InHand, Lifecycle, Served, Types, MainTypes, ReaderTypes, SessionTypes
<1>21. CASE AnswerPending
  <2>1. number \in Nat /\ (reader = "writing" => line.to \in Nat /\ line.to <= number)
    BY <1>0, SetFacts, <1>21 DEF AnswerPending, InHand, Types, MainTypes, ReaderTypes
  <2>2. UNCHANGED <<reader, line, cancelled>> /\ ((number' = number /\ main' = "exited") \/ number' = number + 1)
    BY <1>21 DEF AnswerPending, readerVars
  <2>3. number' = number + 1 => (reader = "writing" => line.to <= number' /\ line.to # number')
    BY <2>1
  <2> QED
    BY <1>0, <2>1, <2>2, <2>3 DEF InHand
<1>22. CASE EndLineAndStop
  BY <1>0, SetFacts, <1>22 DEF EndLineAndStop, EndTheLine, readerVars, InHand, Lifecycle, Served, Types, MainTypes, ReaderTypes, SessionTypes
<1>23. CASE ShutDown
  BY <1>0, SetFacts, <1>23 DEF ShutDown, Ends, Waits, readerVars, clientVars, InHand, Lifecycle, Served, Types, MainTypes, ReaderTypes, SessionTypes
<1>24. CASE LastWords
  BY <1>0, SetFacts, <1>24 DEF LastWords, Waits, readerVars, clientVars, InHand, Lifecycle, Served, Types, MainTypes, ReaderTypes, SessionTypes
<1>25. CASE LastWordsTimeOut
  BY <1>0, SetFacts, <1>25 DEF LastWordsTimeOut, Idle, readerVars, clientVars, InHand, Lifecycle, Served, Types, MainTypes, ReaderTypes, SessionTypes
<1> QED
  BY <1>u, <1>1, <1>2, <1>3, <1>4, <1>5, <1>6, <1>7, <1>8, <1>9, <1>10, <1>11, <1>12, <1>13, <1>14, <1>15, <1>16, <1>17, <1>18, <1>19, <1>20, <1>21, <1>22, <1>23, <1>24, <1>25, Writers DEF Written, Main

\* A dead worker stays dead.
LEMMA GivenUpStep ==
    ASSUME Inv1, [Next]_vars
    PROVE  GivenUp'
<1>0. Types /\ InHand /\ Lifecycle /\ AbandonedIsSilent
  BY DEF Inv1
<1>u. CASE UNCHANGED <<main, number, abandoned, alive>>
  BY <1>0, SetFacts, <1>u DEF GivenUp, Lifecycle
<1>1. ASSUME NEW k \in Workers, NEW open \in BOOLEAN, WorkerDies(k, open) PROVE GivenUp'
  BY <1>0, SetFacts, <1>1 DEF WorkerDies, mainVars, pumpVars, GivenUp, Lifecycle, Types, MainTypes, MainPcs, PumpTypes, WorkerTypes
<1>2. CASE NoNewWorker
  BY <1>0, SetFacts, <1>2 DEF NoNewWorker, Idle, pumpVars, workerVars, GivenUp, Lifecycle, Types, MainTypes, MainPcs, PumpTypes, WorkerTypes
<1>3. CASE SpawnFails
  BY <1>0, SetFacts, <1>3 DEF SpawnFails, Idle, pumpVars, workerVars, GivenUp, Lifecycle, Types, MainTypes, MainPcs, PumpTypes, WorkerTypes
<1>4. CASE Spawn
  BY <1>0, SetFacts, <1>4 DEF Spawn, Waits, pumpVars, GivenUp, Lifecycle, Types, MainTypes, MainPcs, PumpTypes, WorkerTypes
<1>5. CASE Snapshot
  BY <1>0, SetFacts, <1>5 DEF Snapshot, GivenUp, Lifecycle, Types, MainTypes, MainPcs, PumpTypes, WorkerTypes
<1>6. CASE Replay
  BY <1>0, SetFacts, <1>6 DEF Replay, ReplayFailed, ReplayedWell, pumpVars, workerVars, GivenUp, Lifecycle, Types, MainTypes, MainPcs, PumpTypes, WorkerTypes
<1>7. CASE ReplayFails
  BY <1>0, SetFacts, <1>7 DEF ReplayFails, ReplayFailed, Ends, GivenUp, Lifecycle, Types, MainTypes, MainPcs, PumpTypes, WorkerTypes
<1>8. CASE Open
  BY <1>0, SetFacts, <1>8 DEF Open, pumpVars, workerVars, GivenUp, Lifecycle, Types, MainTypes, MainPcs, PumpTypes, WorkerTypes
<1>9. CASE Serve
  BY <1>0, SetFacts, <1>9 DEF Serve, Waits, pumpVars, workerVars, GivenUp, Lifecycle, Types, MainTypes, MainPcs, PumpTypes, WorkerTypes
<1>10. CASE ServeOutputEnded
  BY <1>0, SetFacts, <1>10 DEF ServeOutputEnded, Ends, Waits, pumpVars, GivenUp, Lifecycle, Types, MainTypes, MainPcs, PumpTypes, WorkerTypes
<1>11. CASE Died
  BY <1>0, SetFacts, <1>11 DEF Died, pumpVars, workerVars, GivenUp, Lifecycle, Types, MainTypes, MainPcs, PumpTypes, WorkerTypes
<1>12. CASE Drain
  BY <1>0, SetFacts, <1>12 DEF Drain, Waits, pumpVars, workerVars, GivenUp, Lifecycle, Types, MainTypes, MainPcs, PumpTypes, WorkerTypes
<1>13. CASE DrainTimesOut
  BY <1>0, SetFacts, <1>13 DEF DrainTimesOut, Idle, pumpVars, workerVars, GivenUp, Lifecycle, Types, MainTypes, MainPcs, PumpTypes, WorkerTypes
<1>14. CASE Abandon
  BY <1>0, SetFacts, <1>14 DEF Abandon, workerVars, GivenUp, Lifecycle, Types, MainTypes, MainPcs, PumpTypes, WorkerTypes
<1>15. CASE TakePending
  BY <1>0, SetFacts, <1>15 DEF TakePending, pumpVars, workerVars, GivenUp, Lifecycle, Types, MainTypes, MainPcs, PumpTypes, WorkerTypes
<1>16. CASE AnswerPending
  BY <1>0, SetFacts, <1>16 DEF AnswerPending, EndTheLine, pumpVars, workerVars, GivenUp, Lifecycle, Types, MainTypes, MainPcs, PumpTypes, WorkerTypes
<1>17. CASE EndLineAndStop
  BY <1>0, SetFacts, <1>17 DEF EndLineAndStop, EndTheLine, pumpVars, workerVars, GivenUp, Lifecycle, Types, MainTypes, MainPcs, PumpTypes, WorkerTypes
<1>18. CASE ShutDown
  BY <1>0, SetFacts, <1>18 DEF ShutDown, Ends, Waits, pumpVars, GivenUp, Lifecycle, Types, MainTypes, MainPcs, PumpTypes, WorkerTypes
<1>19. CASE LastWords
  BY <1>0, SetFacts, <1>19 DEF LastWords, Waits, pumpVars, workerVars, GivenUp, Lifecycle, Types, MainTypes, MainPcs, PumpTypes, WorkerTypes
<1>20. CASE LastWordsTimeOut
  BY <1>0, SetFacts, <1>20 DEF LastWordsTimeOut, Idle, pumpVars, workerVars, GivenUp, Lifecycle, Types, MainTypes, MainPcs, PumpTypes, WorkerTypes
<1> QED
  BY <1>u, <1>1, <1>2, <1>3, <1>4, <1>5, <1>6, <1>7, <1>8, <1>9, <1>10, <1>11, <1>12, <1>13, <1>14, <1>15, <1>16, <1>17, <1>18, <1>19, <1>20, Writers DEF Written, Main

\* A client that has gone is known to have.
LEMMA GoneStep ==
    ASSUME Inv1, [Next]_vars
    PROVE  Gone'
<1>0. Types /\ InHand /\ Lifecycle /\ AbandonedIsSilent
  BY DEF Inv1
<1>u. CASE UNCHANGED <<reader, events, clientGone>>
  BY <1>0, SetFacts, <1>u DEF Gone, Lifecycle
<1>1. CASE ReaderAccepts
  BY <1>0, SetFacts, <1>1 DEF ReaderAccepts, Gone, Lifecycle, Types
<1>2. CASE ReaderWrites
  BY <1>0, SetFacts, <1>2 DEF ReaderWrites, NoLine, session, Gone, Lifecycle, Types
<1>3. CASE ReaderGone
  <2>1. clientGone' = clientGone /\ clientGone
    BY <1>0, <1>3 DEF ReaderGone, session, Lifecycle, Gone
  <2> QED
    BY <2>1 DEF Gone
<1>4. ASSUME NEW l \in Lines, ClientSends(l) PROVE Gone'
  BY <1>0, SetFacts, <1>4 DEF ClientSends, NoLine, session, Gone, Lifecycle, Types
<1>5. ASSUME NEW r \in Requests, ClientCancels(r) PROVE Gone'
  BY <1>0, SetFacts, <1>5 DEF ClientCancels, NoLine, session, Gone, Lifecycle, Types
<1>6. CASE ClientCloses
  BY <1>0, SetFacts, <1>6 DEF ClientCloses, Gone, Lifecycle, Types
<1>7. ASSUME NEW k \in Workers, PumpEnds(k) PROVE Gone'
  <2>1. UNCHANGED <<reader, clientGone>> /\ events' = Append(events, Event("OutputEnded", k, TRUE))
    BY <1>7 DEF PumpEnds, Send, readerVars, session
  <2>2. Event("OutputEnded", k, TRUE) \in Events /\ Event("OutputEnded", k, TRUE).kind # "ClientGone"
    BY EventFacts
  <2>3. events \in Seq(Events)
    BY <1>0 DEF Types
  <2>4. \A e \in Events : events' = Append(events, e) =>
           \A n \in 1..Len(events') : (n \in 1..Len(events) /\ events'[n] = events[n]) \/ events'[n] = e
    BY <2>3, AppendElements
  <2>5. \A n \in 1..Len(events') : (n \in 1..Len(events) /\ events'[n] = events[n]) \/ events'[n].kind # "ClientGone"
    BY <2>1, <2>2, <2>4
  <2> QED
    BY <1>0, <2>1, <2>5 DEF Lifecycle, Gone
<1>8. ASSUME NEW k \in Workers, PumpSwallows(k) PROVE Gone'
  <2>1. UNCHANGED <<reader, clientGone>>
    BY <1>8 DEF PumpSwallows, readerVars, session
  <2>2. CASE events' = events
    BY <1>0, <2>1, <2>2 DEF Lifecycle, Gone
  <2>3. CASE events' = Append(events, Event("Replayed", k, Head(chunk[k]).ok))
    <3>1. Head(chunk[k]).ok \in BOOLEAN
      BY <1>0, <1>8, TailElements, PieceFacts DEF PumpSwallows, Types, PumpTypes
    <3>2. Event("Replayed", k, Head(chunk[k]).ok) \in Events /\ Event("Replayed", k, Head(chunk[k]).ok).kind # "ClientGone"
      BY <3>1, EventFacts
    <3> QED
      BY <1>0, <2>1, <2>3, <3>2, AppendElements DEF Types, Lifecycle, Gone
  <2> QED
    BY <1>8, <2>2, <2>3 DEF PumpSwallows, Send
<1>9. CASE Replay
  <2>1. UNCHANGED <<reader, clientGone>>
    BY <1>9 DEF Replay, readerVars, session
  <2>2. CASE events # <<>>
    <3>1. events' = Tail(events)
      BY <2>2, <1>9 DEF Replay
    <3> QED
      BY <1>0, <2>1, <2>2, <3>1, TailElements DEF Types, Lifecycle, Gone
  <2>3. CASE events = <<>>
    <3>1. events' = events
      BY <2>3, <1>9 DEF Replay
    <3> QED
      BY <1>0, <2>1, <3>1 DEF Lifecycle, Gone
  <2> QED
    BY <2>2, <2>3
<1>10. CASE ReplayFails
  <2>1. UNCHANGED <<reader, clientGone>>
    BY <1>10 DEF ReplayFails, readerVars, session
  <2>2. CASE events # <<>>
    <3>1. events' = Tail(events)
      BY <2>2, <1>10 DEF ReplayFails
    <3> QED
      BY <1>0, <2>1, <2>2, <3>1, TailElements DEF Types, Lifecycle, Gone
  <2>3. CASE events = <<>>
    <3>1. events' = events
      BY <2>3, <1>10 DEF ReplayFails
    <3> QED
      BY <1>0, <2>1, <3>1 DEF Lifecycle, Gone
  <2> QED
    BY <2>2, <2>3
<1>11. CASE Serve
  <2>1. UNCHANGED <<reader, clientGone>>
    BY <1>11 DEF Serve, readerVars, session, Waits
  <2>2. CASE events # <<>>
    <3>1. events' = Tail(events)
      BY <2>2, <1>11 DEF Serve
    <3> QED
      BY <1>0, <2>1, <2>2, <3>1, TailElements DEF Types, Lifecycle, Gone
  <2>3. CASE events = <<>>
    <3>1. events' = events
      BY <2>3, <1>11 DEF Serve
    <3> QED
      BY <1>0, <2>1, <3>1 DEF Lifecycle, Gone
  <2> QED
    BY <2>2, <2>3
<1>12. CASE ServeOutputEnded
  <2>1. UNCHANGED <<reader, clientGone>>
    BY <1>12 DEF ServeOutputEnded, readerVars, session, Waits
  <2>2. CASE events # <<>>
    <3>1. events' = Tail(events)
      BY <2>2, <1>12 DEF ServeOutputEnded
    <3> QED
      BY <1>0, <2>1, <2>2, <3>1, TailElements DEF Types, Lifecycle, Gone
  <2>3. CASE events = <<>>
    <3>1. events' = events
      BY <2>3, <1>12 DEF ServeOutputEnded
    <3> QED
      BY <1>0, <2>1, <3>1 DEF Lifecycle, Gone
  <2> QED
    BY <2>2, <2>3
<1>13. CASE Drain
  <2>1. UNCHANGED <<reader, clientGone>>
    BY <1>13 DEF Drain, readerVars, session, Waits
  <2>2. CASE events # <<>>
    <3>1. events' = Tail(events)
      BY <2>2, <1>13 DEF Drain
    <3> QED
      BY <1>0, <2>1, <2>2, <3>1, TailElements DEF Types, Lifecycle, Gone
  <2>3. CASE events = <<>>
    <3>1. events' = events
      BY <2>3, <1>13 DEF Drain
    <3> QED
      BY <1>0, <2>1, <3>1 DEF Lifecycle, Gone
  <2> QED
    BY <2>2, <2>3
<1>14. CASE LastWords
  <2>1. UNCHANGED <<reader, clientGone>>
    BY <1>14 DEF LastWords, readerVars, session, Waits
  <2>2. CASE events # <<>>
    <3>1. events' = Tail(events)
      BY <2>2, <1>14 DEF LastWords
    <3> QED
      BY <1>0, <2>1, <2>2, <3>1, TailElements DEF Types, Lifecycle, Gone
  <2>3. CASE events = <<>>
    <3>1. events' = events
      BY <2>3, <1>14 DEF LastWords
    <3> QED
      BY <1>0, <2>1, <3>1 DEF Lifecycle, Gone
  <2> QED
    BY <2>2, <2>3
<1> QED
  BY <1>u, <1>1, <1>2, <1>3, <1>4, <1>5, <1>6, <1>7, <1>8, <1>9, <1>10, <1>11, <1>12, <1>13, <1>14, Writers DEF Written

\* Only the current worker is served.
LEMMA ServedStep ==
    ASSUME Inv1, [Next]_vars
    PROVE  Served'
<1>0. Types /\ InHand /\ Lifecycle /\ AbandonedIsSilent
  BY DEF Inv1
<1>u. CASE UNCHANGED <<worker, number, main, clientGone>>
  BY <1>0, SetFacts, <1>u DEF Served, Lifecycle
<1>1. CASE ClientCloses
  BY <1>0, SetFacts, <1>1 DEF ClientCloses, mainVars, Served, Lifecycle, Types, MainTypes, MainPcs
<1>2. CASE NoNewWorker
  BY <1>0, SetFacts, <1>2 DEF NoNewWorker, Idle, session, Served, Lifecycle, Types, MainTypes, MainPcs
<1>3. CASE SpawnFails
  BY <1>0, SetFacts, <1>3 DEF SpawnFails, Idle, session, Served, Lifecycle, Types, MainTypes, MainPcs
<1>4. CASE Spawn
  BY <1>0, SetFacts, <1>4 DEF Spawn, Waits, session, Served, Lifecycle, Types, MainTypes, MainPcs
<1>5. CASE Snapshot
  BY <1>0, SetFacts, <1>5 DEF Snapshot, session, Served, Lifecycle, Types, MainTypes, MainPcs
<1>6. CASE Replay
  BY <1>0, SetFacts, <1>6 DEF Replay, ReplayFailed, ReplayedWell, session, Served, Lifecycle, Types, MainTypes, MainPcs
<1>7. CASE ReplayFails
  BY <1>0, SetFacts, <1>7 DEF ReplayFails, ReplayFailed, Ends, session, Served, Lifecycle, Types, MainTypes, MainPcs
<1>8. CASE Open
  BY <1>0, SetFacts, <1>8 DEF Open, Served, Lifecycle, Types, MainTypes, MainPcs
<1>9. CASE Serve
  <2>1. UNCHANGED <<worker, number, clientGone>>
    BY <1>9 DEF Serve, session, Waits
  <2>2. CASE events = <<>>
    BY <1>0, <2>1, <2>2, <1>9 DEF Serve, Lifecycle, Served
  <2>3. CASE events # <<>>
    <3>1. ~clientGone => Head(events).kind # "ClientGone"
      BY <1>0, <2>3, TailElements DEF Types, Lifecycle, Gone
    <3> QED
      BY <1>0, <2>1, <2>3, <3>1, <1>9 DEF Serve, Lifecycle, Served
  <2> QED
    BY <2>2, <2>3
<1>10. CASE ServeOutputEnded
  BY <1>0, SetFacts, <1>10 DEF ServeOutputEnded, Ends, Waits, session, Served, Lifecycle, Types, MainTypes, MainPcs
<1>11. CASE Died
  BY <1>0, SetFacts, <1>11 DEF Died, Served, Lifecycle, Types, MainTypes, MainPcs
<1>12. CASE Drain
  BY <1>0, SetFacts, <1>12 DEF Drain, Waits, session, Served, Lifecycle, Types, MainTypes, MainPcs
<1>13. CASE DrainTimesOut
  BY <1>0, SetFacts, <1>13 DEF DrainTimesOut, Idle, session, Served, Lifecycle, Types, MainTypes, MainPcs
<1>14. CASE Abandon
  BY <1>0, SetFacts, <1>14 DEF Abandon, session, Served, Lifecycle, Types, MainTypes, MainPcs
<1>15. CASE TakePending
  BY <1>0, SetFacts, <1>15 DEF TakePending, Served, Lifecycle, Types, MainTypes, MainPcs
<1>16. CASE AnswerPending
  BY <1>0, SetFacts, <1>16 DEF AnswerPending, EndTheLine, session, Served, Lifecycle, Types, MainTypes, MainPcs
<1>17. CASE EndLineAndStop
  BY <1>0, SetFacts, <1>17 DEF EndLineAndStop, EndTheLine, session, Served, Lifecycle, Types, MainTypes, MainPcs
<1>18. CASE ShutDown
  BY <1>0, SetFacts, <1>18 DEF ShutDown, Ends, Waits, session, Served, Lifecycle, Types, MainTypes, MainPcs
<1>19. CASE LastWords
  BY <1>0, SetFacts, <1>19 DEF LastWords, Waits, session, Served, Lifecycle, Types, MainTypes, MainPcs
<1>20. CASE LastWordsTimeOut
  BY <1>0, SetFacts, <1>20 DEF LastWordsTimeOut, Idle, session, Served, Lifecycle, Types, MainTypes, MainPcs
<1> QED
  BY <1>u, <1>1, <1>2, <1>3, <1>4, <1>5, <1>6, <1>7, <1>8, <1>9, <1>10, <1>11, <1>12, <1>13, <1>14, <1>15, <1>16, <1>17, <1>18, <1>19, <1>20, Writers DEF Written, Main

\* What was taken stays until it is answered.
LEMMA TakenStep ==
    ASSUME Inv1, [Next]_vars
    PROVE  Taken'
<1>0. Types /\ InHand /\ Lifecycle /\ AbandonedIsSilent
  BY DEF Inv1
<1>u. CASE UNCHANGED <<taken, main>>
  BY <1>0, SetFacts, <1>u DEF Taken, Lifecycle
<1>1. CASE NoNewWorker
  BY <1>0, SetFacts, <1>1 DEF NoNewWorker, Idle, Taken, Lifecycle, Types, MainTypes, MainPcs
<1>2. CASE SpawnFails
  BY <1>0, SetFacts, <1>2 DEF SpawnFails, Idle, Taken, Lifecycle, Types, MainTypes, MainPcs
<1>3. CASE Spawn
  BY <1>0, SetFacts, <1>3 DEF Spawn, Waits, Taken, Lifecycle, Types, MainTypes, MainPcs
<1>4. CASE Snapshot
  BY <1>0, SetFacts, <1>4 DEF Snapshot, Taken, Lifecycle, Types, MainTypes, MainPcs
<1>5. CASE Replay
  BY <1>0, SetFacts, <1>5 DEF Replay, ReplayFailed, ReplayedWell, Taken, Lifecycle, Types, MainTypes, MainPcs
<1>6. CASE ReplayFails
  BY <1>0, SetFacts, <1>6 DEF ReplayFails, ReplayFailed, Ends, Taken, Lifecycle, Types, MainTypes, MainPcs
<1>7. CASE Open
  BY <1>0, SetFacts, <1>7 DEF Open, Taken, Lifecycle, Types, MainTypes, MainPcs
<1>8. CASE Serve
  BY <1>0, SetFacts, <1>8 DEF Serve, Waits, Taken, Lifecycle, Types, MainTypes, MainPcs
<1>9. CASE ServeOutputEnded
  BY <1>0, SetFacts, <1>9 DEF ServeOutputEnded, Ends, Waits, Taken, Lifecycle, Types, MainTypes, MainPcs
<1>10. CASE Died
  BY <1>0, SetFacts, <1>10 DEF Died, Taken, Lifecycle, Types, MainTypes, MainPcs
<1>11. CASE Drain
  BY <1>0, SetFacts, <1>11 DEF Drain, Waits, Taken, Lifecycle, Types, MainTypes, MainPcs
<1>12. CASE DrainTimesOut
  BY <1>0, SetFacts, <1>12 DEF DrainTimesOut, Idle, Taken, Lifecycle, Types, MainTypes, MainPcs
<1>13. CASE Abandon
  BY <1>0, SetFacts, <1>13 DEF Abandon, Taken, Lifecycle, Types, MainTypes, MainPcs
<1>14. CASE TakePending
  BY <1>0, SetFacts, <1>14 DEF TakePending, Taken, Lifecycle, Types, MainTypes, MainPcs
<1>15. CASE AnswerPending
  BY <1>0, SetFacts, <1>15 DEF AnswerPending, EndTheLine, Taken, Lifecycle, Types, MainTypes, MainPcs
<1>16. CASE EndLineAndStop
  BY <1>0, SetFacts, <1>16 DEF EndLineAndStop, EndTheLine, Taken, Lifecycle, Types, MainTypes, MainPcs
<1>17. CASE ShutDown
  BY <1>0, SetFacts, <1>17 DEF ShutDown, Ends, Waits, Taken, Lifecycle, Types, MainTypes, MainPcs
<1>18. CASE LastWords
  BY <1>0, SetFacts, <1>18 DEF LastWords, Waits, Taken, Lifecycle, Types, MainTypes, MainPcs
<1>19. CASE LastWordsTimeOut
  BY <1>0, SetFacts, <1>19 DEF LastWordsTimeOut, Idle, Taken, Lifecycle, Types, MainTypes, MainPcs
<1> QED
  BY <1>u, <1>1, <1>2, <1>3, <1>4, <1>5, <1>6, <1>7, <1>8, <1>9, <1>10, <1>11, <1>12, <1>13, <1>14, <1>15, <1>16, <1>17, <1>18, <1>19, Writers DEF Written, Main

\* Former workers stay so.
LEMMA FormerStep ==
    ASSUME Inv1, [Next]_vars
    PROVE  Former'
<1>0. Types /\ InHand /\ Lifecycle /\ AbandonedIsSilent
  BY DEF Inv1
<1>u. CASE UNCHANGED <<number, abandoned, alive>>
  BY <1>0, SetFacts, <1>u DEF Former, Lifecycle
<1>1. ASSUME NEW k \in Workers, NEW open \in BOOLEAN, WorkerDies(k, open) PROVE Former'
  BY <1>0, SetFacts, <1>1 DEF WorkerDies, mainVars, pumpVars, Former, Lifecycle, Types, MainTypes, MainPcs, PumpTypes, WorkerTypes, GivenUp, ToCome
<1>2. CASE Spawn
  BY <1>0, SetFacts, <1>2 DEF Spawn, Waits, pumpVars, Former, Lifecycle, Types, MainTypes, MainPcs, PumpTypes, WorkerTypes, GivenUp, ToCome
<1>3. CASE ReplayFails
  BY <1>0, SetFacts, <1>3 DEF ReplayFails, ReplayFailed, Ends, Former, Lifecycle, Types, MainTypes, MainPcs, PumpTypes, WorkerTypes, GivenUp, ToCome
<1>4. CASE ServeOutputEnded
  BY <1>0, SetFacts, <1>4 DEF ServeOutputEnded, Ends, Waits, pumpVars, Former, Lifecycle, Types, MainTypes, MainPcs, PumpTypes, WorkerTypes, GivenUp, ToCome
<1>5. CASE Abandon
  BY <1>0, SetFacts, <1>5 DEF Abandon, workerVars, Former, Lifecycle, Types, MainTypes, MainPcs, PumpTypes, WorkerTypes, GivenUp, ToCome
<1>6. CASE AnswerPending
  BY <1>0, SetFacts, <1>6 DEF AnswerPending, EndTheLine, pumpVars, workerVars, Former, Lifecycle, Types, MainTypes, MainPcs, PumpTypes, WorkerTypes, GivenUp, ToCome
<1>7. CASE ShutDown
  BY <1>0, SetFacts, <1>7 DEF ShutDown, Ends, Waits, pumpVars, Former, Lifecycle, Types, MainTypes, MainPcs, PumpTypes, WorkerTypes, GivenUp, ToCome
<1> QED
  BY <1>u, <1>1, <1>2, <1>3, <1>4, <1>5, <1>6, <1>7, Writers DEF Written

\* A worker that has not been started has done nothing.
LEMMA ToComeStep ==
    ASSUME Inv1, [Next]_vars
    PROVE  ToCome'
<1>0. Types /\ InHand /\ Lifecycle /\ AbandonedIsSilent
  BY DEF Inv1
<1>u. CASE UNCHANGED <<number, main, pump, chunk, pipe, half, inbox, given, swallow, abandoned, alive, writer>>
  BY <1>0, SetFacts, <1>u DEF ToCome, Lifecycle, Fresh
<1>1. CASE ReaderWrites
  <2>1. UNCHANGED <<number, main, pump, chunk, pipe, half, swallow, abandoned, alive, writer>>
    BY <1>1 DEF ReaderWrites, mainVars, pumpVars
  <2>2. line.to \in Workers /\ line.to <= number /\ (line.to = number => main \notin {"top", "snapshot"})
    BY <1>0, <1>1 DEF ReaderWrites, InHand, Types, ReaderTypes
  <2>3. \A j \in Workers : j # line.to => given'[j] = given[j] /\ inbox'[j] = inbox[j]
    BY <1>0, <1>1 DEF ReaderWrites, Types, WorkerTypes
  <2>4. \A j \in Workers : j > number \/ (j = number /\ main \in {"top", "snapshot"}) => j # line.to
    BY <1>0, <2>2, SetFacts DEF Types, MainTypes
  <2> QED
    BY <1>0, <2>1, <2>3, <2>4 DEF Lifecycle, ToCome, Fresh
<1>2. ASSUME NEW k \in Workers, NEW i \in Ids, WorkerBegins(k, i) PROVE ToCome'
  BY <1>0, SetFacts, <1>2 DEF WorkerBegins, readerVars, mainVars, pumpVars, ToCome, Lifecycle, Types, MainTypes, MainPcs, Fresh, PumpTypes, WorkerTypes, InHand, ReaderTypes
<1>3. ASSUME NEW k \in Workers, NEW ok \in BOOLEAN, WorkerEnds(k, ok) PROVE ToCome'
  BY <1>0, SetFacts, <1>3 DEF WorkerEnds, readerVars, mainVars, pumpVars, ToCome, Lifecycle, Types, MainTypes, MainPcs, Fresh, PumpTypes, WorkerTypes, InHand, ReaderTypes
<1>4. ASSUME NEW k \in Workers, NEW open \in BOOLEAN, WorkerDies(k, open) PROVE ToCome'
  BY <1>0, SetFacts, <1>4 DEF WorkerDies, readerVars, mainVars, pumpVars, ToCome, Lifecycle, Types, MainTypes, MainPcs, Fresh, PumpTypes, WorkerTypes, InHand, ReaderTypes
<1>5. ASSUME NEW k \in Workers, OutputCloses(k) PROVE ToCome'
  BY <1>0, SetFacts, <1>5 DEF OutputCloses, readerVars, mainVars, pumpVars, ToCome, Lifecycle, Types, MainTypes, MainPcs, Fresh, PumpTypes, WorkerTypes, InHand, ReaderTypes
<1>6. ASSUME NEW k \in Workers, PumpReads(k) PROVE ToCome'
  <2>1. UNCHANGED <<number, main, half, inbox, given, abandoned, alive, writer>>
    BY <1>6 DEF PumpReads, readerVars, mainVars, workerVars
  <2>2. pump[k] \in {"reading", "chunk", "writing", "noting"}
    BY <1>6 DEF PumpReads
  <2>3. \A j \in Workers : j # k => pump'[j] = pump[j] /\ chunk'[j] = chunk[j] /\ pipe'[j] = pipe[j] /\ swallow'[j] = swallow[j]
    BY <1>0, <1>6 DEF PumpReads, workerVars, Types, PumpTypes, WorkerTypes
  <2>4. ~Fresh(k) /\ \A j \in Workers : j # k /\ Fresh(j) => Fresh(j)'
    BY <2>1, <2>2, <2>3 DEF Fresh
  <2> QED
    BY <1>0, <2>1, <2>4 DEF Lifecycle, ToCome
<1>7. ASSUME NEW k \in Workers, PumpEnds(k) PROVE ToCome'
  <2>1. UNCHANGED <<number, main, half, inbox, given, abandoned, alive, writer>>
    BY <1>7 DEF PumpEnds, readerVars, mainVars, workerVars
  <2>2. pump[k] \in {"reading", "chunk", "writing", "noting"}
    BY <1>7 DEF PumpEnds
  <2>3. \A j \in Workers : j # k => pump'[j] = pump[j] /\ chunk'[j] = chunk[j] /\ pipe'[j] = pipe[j] /\ swallow'[j] = swallow[j]
    BY <1>0, <1>7 DEF PumpEnds, workerVars, Types, PumpTypes, WorkerTypes
  <2>4. ~Fresh(k) /\ \A j \in Workers : j # k /\ Fresh(j) => Fresh(j)'
    BY <2>1, <2>2, <2>3 DEF Fresh
  <2> QED
    BY <1>0, <2>1, <2>4 DEF Lifecycle, ToCome
<1>8. ASSUME NEW k \in Workers, PumpLocks(k) PROVE ToCome'
  <2>1. UNCHANGED <<number, main, half, inbox, given, abandoned, alive, writer>>
    BY <1>8 DEF PumpLocks, readerVars, mainVars, workerVars
  <2>2. pump[k] \in {"reading", "chunk", "writing", "noting"}
    BY <1>8 DEF PumpLocks
  <2>3. \A j \in Workers : j # k => pump'[j] = pump[j] /\ chunk'[j] = chunk[j] /\ pipe'[j] = pipe[j] /\ swallow'[j] = swallow[j]
    BY <1>0, <1>8 DEF PumpLocks, workerVars, Types, PumpTypes, WorkerTypes
  <2>4. ~Fresh(k) /\ \A j \in Workers : j # k /\ Fresh(j) => Fresh(j)'
    BY <2>1, <2>2, <2>3 DEF Fresh
  <2> QED
    BY <1>0, <2>1, <2>4 DEF Lifecycle, ToCome
<1>9. ASSUME NEW k \in Workers, PumpWrites(k) PROVE ToCome'
  <2>1. UNCHANGED <<number, main, half, inbox, given, abandoned, alive, writer>>
    BY <1>9 DEF PumpWrites, readerVars, mainVars, workerVars
  <2>2. pump[k] \in {"reading", "chunk", "writing", "noting"}
    BY <1>9 DEF PumpWrites
  <2>3. \A j \in Workers : j # k => pump'[j] = pump[j] /\ chunk'[j] = chunk[j] /\ pipe'[j] = pipe[j] /\ swallow'[j] = swallow[j]
    BY <1>0, <1>9 DEF PumpWrites, workerVars, Types, PumpTypes, WorkerTypes
  <2>4. ~Fresh(k) /\ \A j \in Workers : j # k /\ Fresh(j) => Fresh(j)'
    BY <2>1, <2>2, <2>3 DEF Fresh
  <2> QED
    BY <1>0, <2>1, <2>4 DEF Lifecycle, ToCome
<1>10. ASSUME NEW k \in Workers, PumpNotes(k) PROVE ToCome'
  <2>1. UNCHANGED <<number, main, half, inbox, given, abandoned, alive, writer>>
    BY <1>10 DEF PumpNotes, readerVars, mainVars, workerVars
  <2>2. pump[k] \in {"reading", "chunk", "writing", "noting"}
    BY <1>10 DEF PumpNotes
  <2>3. \A j \in Workers : j # k => pump'[j] = pump[j] /\ chunk'[j] = chunk[j] /\ pipe'[j] = pipe[j] /\ swallow'[j] = swallow[j]
    BY <1>0, <1>10 DEF PumpNotes, workerVars, Types, PumpTypes, WorkerTypes
  <2>4. ~Fresh(k) /\ \A j \in Workers : j # k /\ Fresh(j) => Fresh(j)'
    BY <2>1, <2>2, <2>3 DEF Fresh
  <2> QED
    BY <1>0, <2>1, <2>4 DEF Lifecycle, ToCome
<1>11. ASSUME NEW k \in Workers, PumpSwallows(k) PROVE ToCome'
  <2>1. UNCHANGED <<number, main, half, inbox, given, abandoned, alive, writer>>
    BY <1>11 DEF PumpSwallows, readerVars, mainVars, workerVars
  <2>2. pump[k] \in {"reading", "chunk", "writing", "noting"}
    BY <1>11 DEF PumpSwallows
  <2>3. \A j \in Workers : j # k => pump'[j] = pump[j] /\ chunk'[j] = chunk[j] /\ pipe'[j] = pipe[j] /\ swallow'[j] = swallow[j]
    BY <1>0, <1>11 DEF PumpSwallows, workerVars, Types, PumpTypes, WorkerTypes
  <2>4. ~Fresh(k) /\ \A j \in Workers : j # k /\ Fresh(j) => Fresh(j)'
    BY <2>1, <2>2, <2>3 DEF Fresh
  <2> QED
    BY <1>0, <2>1, <2>4 DEF Lifecycle, ToCome
<1>12. ASSUME NEW k \in Workers, PumpUnlocks(k) PROVE ToCome'
  <2>1. UNCHANGED <<number, main, half, inbox, given, abandoned, alive, writer>>
    BY <1>12 DEF PumpUnlocks, readerVars, mainVars, workerVars
  <2>2. pump[k] \in {"reading", "chunk", "writing", "noting"}
    BY <1>12 DEF PumpUnlocks
  <2>3. \A j \in Workers : j # k => pump'[j] = pump[j] /\ chunk'[j] = chunk[j] /\ pipe'[j] = pipe[j] /\ swallow'[j] = swallow[j]
    BY <1>0, <1>12 DEF PumpUnlocks, workerVars, Types, PumpTypes, WorkerTypes
  <2>4. ~Fresh(k) /\ \A j \in Workers : j # k /\ Fresh(j) => Fresh(j)'
    BY <2>1, <2>2, <2>3 DEF Fresh
  <2> QED
    BY <1>0, <2>1, <2>4 DEF Lifecycle, ToCome
<1>13. CASE NoNewWorker
  BY <1>0, SetFacts, <1>13 DEF NoNewWorker, Idle, readerVars, pumpVars, workerVars, ToCome, Lifecycle, Types, MainTypes, MainPcs, Fresh, PumpTypes, WorkerTypes, InHand, ReaderTypes
<1>14. CASE SpawnFails
  BY <1>0, SetFacts, <1>14 DEF SpawnFails, Idle, readerVars, pumpVars, workerVars, ToCome, Lifecycle, Types, MainTypes, MainPcs, Fresh, PumpTypes, WorkerTypes, InHand, ReaderTypes
<1>15. CASE Spawn
  BY <1>0, SetFacts, <1>15 DEF Spawn, Waits, readerVars, pumpVars, ToCome, Lifecycle, Types, MainTypes, MainPcs, Fresh, PumpTypes, WorkerTypes, InHand, ReaderTypes
<1>16. CASE Snapshot
  BY <1>0, SetFacts, <1>16 DEF Snapshot, ToCome, Lifecycle, Types, MainTypes, MainPcs, Fresh, PumpTypes, WorkerTypes, InHand, ReaderTypes
<1>17. CASE Replay
  BY <1>0, SetFacts, <1>17 DEF Replay, ReplayFailed, ReplayedWell, pumpVars, workerVars, ToCome, Lifecycle, Types, MainTypes, MainPcs, Fresh, PumpTypes, WorkerTypes, InHand, ReaderTypes
<1>18. CASE ReplayFails
  BY <1>0, SetFacts, <1>18 DEF ReplayFails, ReplayFailed, Ends, readerVars, ToCome, Lifecycle, Types, MainTypes, MainPcs, Fresh, PumpTypes, WorkerTypes, InHand, ReaderTypes
<1>19. CASE Open
  BY <1>0, SetFacts, <1>19 DEF Open, readerVars, pumpVars, workerVars, ToCome, Lifecycle, Types, MainTypes, MainPcs, Fresh, PumpTypes, WorkerTypes, InHand, ReaderTypes
<1>20. CASE Serve
  BY <1>0, SetFacts, <1>20 DEF Serve, Waits, readerVars, pumpVars, workerVars, ToCome, Lifecycle, Types, MainTypes, MainPcs, Fresh, PumpTypes, WorkerTypes, InHand, ReaderTypes
<1>21. CASE ServeOutputEnded
  BY <1>0, SetFacts, <1>21 DEF ServeOutputEnded, Ends, Waits, readerVars, pumpVars, ToCome, Lifecycle, Types, MainTypes, MainPcs, Fresh, PumpTypes, WorkerTypes, InHand, ReaderTypes
<1>22. CASE Died
  BY <1>0, SetFacts, <1>22 DEF Died, readerVars, pumpVars, workerVars, ToCome, Lifecycle, Types, MainTypes, MainPcs, Fresh, PumpTypes, WorkerTypes, InHand, ReaderTypes
<1>23. CASE Drain
  BY <1>0, SetFacts, <1>23 DEF Drain, Waits, readerVars, pumpVars, workerVars, ToCome, Lifecycle, Types, MainTypes, MainPcs, Fresh, PumpTypes, WorkerTypes, InHand, ReaderTypes
<1>24. CASE DrainTimesOut
  BY <1>0, SetFacts, <1>24 DEF DrainTimesOut, Idle, readerVars, pumpVars, workerVars, ToCome, Lifecycle, Types, MainTypes, MainPcs, Fresh, PumpTypes, WorkerTypes, InHand, ReaderTypes
<1>25. CASE Abandon
  BY <1>0, SetFacts, <1>25 DEF Abandon, readerVars, workerVars, ToCome, Lifecycle, Types, MainTypes, MainPcs, Fresh, PumpTypes, WorkerTypes, InHand, ReaderTypes
<1>26. CASE TakePending
  BY <1>0, SetFacts, <1>26 DEF TakePending, readerVars, pumpVars, workerVars, ToCome, Lifecycle, Types, MainTypes, MainPcs, Fresh, PumpTypes, WorkerTypes, InHand, ReaderTypes
<1>27. CASE AnswerPending
  BY <1>0, SetFacts, <1>27 DEF AnswerPending, EndTheLine, readerVars, pumpVars, workerVars, ToCome, Lifecycle, Types, MainTypes, MainPcs, Fresh, PumpTypes, WorkerTypes, InHand, ReaderTypes
<1>28. CASE EndLineAndStop
  BY <1>0, SetFacts, <1>28 DEF EndLineAndStop, EndTheLine, readerVars, pumpVars, workerVars, ToCome, Lifecycle, Types, MainTypes, MainPcs, Fresh, PumpTypes, WorkerTypes, InHand, ReaderTypes
<1>29. CASE ShutDown
  BY <1>0, SetFacts, <1>29 DEF ShutDown, Ends, Waits, readerVars, pumpVars, ToCome, Lifecycle, Types, MainTypes, MainPcs, Fresh, PumpTypes, WorkerTypes, InHand, ReaderTypes
<1>30. CASE LastWords
  BY <1>0, SetFacts, <1>30 DEF LastWords, Waits, readerVars, pumpVars, workerVars, ToCome, Lifecycle, Types, MainTypes, MainPcs, Fresh, PumpTypes, WorkerTypes, InHand, ReaderTypes
<1>31. CASE LastWordsTimeOut
  BY <1>0, SetFacts, <1>31 DEF LastWordsTimeOut, Idle, readerVars, pumpVars, workerVars, ToCome, Lifecycle, Types, MainTypes, MainPcs, Fresh, PumpTypes, WorkerTypes, InHand, ReaderTypes
<1> QED
  BY <1>u, <1>1, <1>2, <1>3, <1>4, <1>5, <1>6, <1>7, <1>8, <1>9, <1>10, <1>11, <1>12, <1>13, <1>14, <1>15, <1>16, <1>17, <1>18, <1>19, <1>20, <1>21, <1>22, <1>23, <1>24, <1>25, <1>26, <1>27, <1>28, <1>29, <1>30, <1>31, Writers DEF Written, Main

\* Standard output has one holder.
LEMMA HoldsStep ==
    ASSUME Inv1, [Next]_vars
    PROVE  Holds'
<1>0. Types /\ InHand /\ Lifecycle /\ AbandonedIsSilent
  BY DEF Inv1
<1>u. CASE UNCHANGED <<pump, out>>
  BY <1>0, SetFacts, <1>u DEF Holds, Lifecycle
<1>1. ASSUME NEW k \in Workers, PumpReads(k) PROVE Holds'
  BY <1>0, SetFacts, <1>1 DEF PumpReads, Holds, Lifecycle, Types, MainTypes, MainPcs, PumpTypes, ToCome, Fresh
<1>2. ASSUME NEW k \in Workers, PumpEnds(k) PROVE Holds'
  BY <1>0, SetFacts, <1>2 DEF PumpEnds, Send, Event, Holds, Lifecycle, Types, MainTypes, MainPcs, PumpTypes, ToCome, Fresh
<1>3. ASSUME NEW k \in Workers, PumpLocks(k) PROVE Holds'
  <2>1. CASE abandoned[k]
    <3>1. pump' = [pump EXCEPT ![k] = "ended"] /\ out' = out /\ pump[k] = "chunk"
      BY <2>1, <1>3 DEF PumpLocks
    <3> QED
      BY <1>0, <3>1 DEF Holds, Lifecycle, Types, PumpTypes
  <2>2. CASE ~abandoned[k]
    <3>1. pump' = [pump EXCEPT ![k] = "writing"] /\ out' = k /\ out = None
      BY <2>2, <1>3 DEF PumpLocks
    <3> QED
      BY <1>0, <3>1, SetFacts DEF Holds, Lifecycle, Types, PumpTypes
  <2> QED
    BY <2>1, <2>2
<1>4. ASSUME NEW k \in Workers, PumpWrites(k) PROVE Holds'
  BY <1>0, SetFacts, <1>4 DEF PumpWrites, ClientReads, Holds, Lifecycle, Types, MainTypes, MainPcs, PumpTypes, ToCome, Fresh
<1>5. ASSUME NEW k \in Workers, PumpNotes(k) PROVE Holds'
  BY <1>0, SetFacts, <1>5 DEF PumpNotes, Holds, Lifecycle, Types, MainTypes, MainPcs, PumpTypes, ToCome, Fresh
<1>6. ASSUME NEW k \in Workers, PumpUnlocks(k) PROVE Holds'
  BY <1>0, SetFacts, <1>6 DEF PumpUnlocks, Holds, Lifecycle, Types, MainTypes, MainPcs, PumpTypes, ToCome, Fresh
<1>7. CASE Snapshot
  BY <1>0, SetFacts, <1>7 DEF Snapshot, Holds, Lifecycle, Types, MainTypes, MainPcs, PumpTypes, ToCome, Fresh
<1> QED
  BY <1>u, <1>1, <1>2, <1>3, <1>4, <1>5, <1>6, <1>7, Writers DEF Written

\* A pump without a chunk has none.
LEMMA EmptyStep ==
    ASSUME Inv1, [Next]_vars
    PROVE  Empty'
<1>0. Types /\ InHand /\ Lifecycle /\ AbandonedIsSilent
  BY DEF Inv1
<1>u. CASE UNCHANGED <<pump, chunk>>
  BY <1>0, SetFacts, <1>u DEF Empty, Lifecycle
<1>1. ASSUME NEW k \in Workers, PumpReads(k) PROVE Empty'
  BY <1>0, SetFacts, <1>1 DEF PumpReads, Empty, Lifecycle, Types, MainTypes, MainPcs, PumpTypes, ToCome, Fresh
<1>2. ASSUME NEW k \in Workers, PumpEnds(k) PROVE Empty'
  BY <1>0, SetFacts, <1>2 DEF PumpEnds, Send, Event, Empty, Lifecycle, Types, MainTypes, MainPcs, PumpTypes, ToCome, Fresh
<1>3. ASSUME NEW k \in Workers, PumpLocks(k) PROVE Empty'
  BY <1>0, SetFacts, <1>3 DEF PumpLocks, Empty, Lifecycle, Types, MainTypes, MainPcs, PumpTypes, ToCome, Fresh
<1>4. ASSUME NEW k \in Workers, PumpWrites(k) PROVE Empty'
  BY <1>0, SetFacts, <1>4 DEF PumpWrites, ClientReads, Empty, Lifecycle, Types, MainTypes, MainPcs, PumpTypes, ToCome, Fresh
<1>5. ASSUME NEW k \in Workers, PumpNotes(k) PROVE Empty'
  BY <1>0, SetFacts, <1>5 DEF PumpNotes, Empty, Lifecycle, Types, MainTypes, MainPcs, PumpTypes, ToCome, Fresh
<1>6. ASSUME NEW k \in Workers, PumpSwallows(k) PROVE Empty'
  BY <1>0, SetFacts, <1>6 DEF PumpSwallows, Send, Event, Empty, Lifecycle, Types, MainTypes, MainPcs, PumpTypes, ToCome, Fresh
<1>7. ASSUME NEW k \in Workers, PumpUnlocks(k) PROVE Empty'
  BY <1>0, SetFacts, <1>7 DEF PumpUnlocks, Empty, Lifecycle, Types, MainTypes, MainPcs, PumpTypes, ToCome, Fresh
<1>8. CASE Snapshot
  BY <1>0, SetFacts, <1>8 DEF Snapshot, Empty, Lifecycle, Types, MainTypes, MainPcs, PumpTypes, ToCome, Fresh
<1> QED
  BY <1>u, <1>1, <1>2, <1>3, <1>4, <1>5, <1>6, <1>7, <1>8, Writers DEF Written

\* Only the current worker's pump writes.
LEMMA AbandonedIsSilentStep ==
    ASSUME Inv1, [Next]_vars
    PROVE  AbandonedIsSilent'
<1>0. Types /\ InHand /\ Lifecycle /\ AbandonedIsSilent
  BY DEF Inv1
<1>u. CASE UNCHANGED <<pump, number>>
  BY <1>0, SetFacts, <1>u DEF AbandonedIsSilent
<1>1. ASSUME NEW k \in Workers, PumpReads(k) PROVE AbandonedIsSilent'
  BY <1>0, SetFacts, <1>1 DEF PumpReads, mainVars, AbandonedIsSilent, Lifecycle, Types, MainTypes, MainPcs, PumpTypes, ToCome, Fresh, Former, Holds
<1>2. ASSUME NEW k \in Workers, PumpEnds(k) PROVE AbandonedIsSilent'
  BY <1>0, SetFacts, <1>2 DEF PumpEnds, Send, Event, mainVars, AbandonedIsSilent, Lifecycle, Types, MainTypes, MainPcs, PumpTypes, ToCome, Fresh, Former, Holds
<1>3. ASSUME NEW k \in Workers, PumpLocks(k) PROVE AbandonedIsSilent'
  BY <1>0, SetFacts, <1>3 DEF PumpLocks, mainVars, AbandonedIsSilent, Lifecycle, Types, MainTypes, MainPcs, PumpTypes, ToCome, Fresh, Former, Holds
<1>4. ASSUME NEW k \in Workers, PumpWrites(k) PROVE AbandonedIsSilent'
  BY <1>0, SetFacts, <1>4 DEF PumpWrites, ClientReads, mainVars, AbandonedIsSilent, Lifecycle, Types, MainTypes, MainPcs, PumpTypes, ToCome, Fresh, Former, Holds
<1>5. ASSUME NEW k \in Workers, PumpNotes(k) PROVE AbandonedIsSilent'
  BY <1>0, SetFacts, <1>5 DEF PumpNotes, mainVars, AbandonedIsSilent, Lifecycle, Types, MainTypes, MainPcs, PumpTypes, ToCome, Fresh, Former, Holds
<1>6. ASSUME NEW k \in Workers, PumpUnlocks(k) PROVE AbandonedIsSilent'
  BY <1>0, SetFacts, <1>6 DEF PumpUnlocks, mainVars, AbandonedIsSilent, Lifecycle, Types, MainTypes, MainPcs, PumpTypes, ToCome, Fresh, Former, Holds
<1>7. CASE Snapshot
  BY <1>0, SetFacts, <1>7 DEF Snapshot, AbandonedIsSilent, Lifecycle, Types, MainTypes, MainPcs, PumpTypes, ToCome, Fresh, Former, Holds
<1>8. CASE AnswerPending
  BY <1>0, SetFacts, <1>8 DEF AnswerPending, EndTheLine, pumpVars, AbandonedIsSilent, Lifecycle, Types, MainTypes, MainPcs, PumpTypes, ToCome, Fresh, Former, Holds
<1> QED
  BY <1>u, <1>1, <1>2, <1>3, <1>4, <1>5, <1>6, <1>7, <1>8, Writers DEF Written

\* The first invariant is inductive.
LEMMA Inv1Step ==
    ASSUME Inv1, [Next]_vars PROVE Inv1'
  BY TypesStep, InHandStep, GivenUpStep, ServedStep, GoneStep, TakenStep, FormerStep, ToComeStep, HoldsStep, EmptyStep,
     AbandonedIsSilentStep DEF Inv1, Lifecycle

\* It holds at first.
LEMMA Inv1Init ==
    ASSUME Init PROVE Inv1
<1>0. <<>> \in Seq(Pieces) /\ <<>> \in Seq(Events) /\ Len(<<>>) = 0
  BY EmptySeq
<1>1. Types
  <2>1. SessionTypes /\ ReaderTypes /\ MainTypes
    BY SetFacts, SupervisorAssumption DEF Init, NoLine, SessionTypes, ReaderTypes, MainTypes, MainPcs, Numbers
  <2>2. PumpTypes
    BY <1>0 DEF Init, PumpTypes, PumpPcs, Numbers
  <2>3. WorkerTypes
    BY <1>0 DEF Init, WorkerTypes
  <2>4. ClientTypes
    BY DEF Init, ClientTypes
  <2> QED
    BY <1>0, <2>1, <2>2, <2>3, <2>4 DEF Types, Init
<1>2. InHand /\ AbandonedIsSilent
  BY DEF Init, NoLine, InHand, AbandonedIsSilent
<1>3. GivenUp /\ Served /\ Taken
  BY DEF Init, GivenUp, Served, Taken
<1>4. Former /\ ToCome /\ Holds /\ Empty
  BY SetFacts DEF Init, Former, ToCome, Fresh, Holds, Empty
<1>5. Gone
  BY <1>0 DEF Init, Gone
<1> QED
  BY <1>1, <1>2, <1>3, <1>4, <1>5 DEF Inv1, Lifecycle

\* AbandonedIsSilent, for any number of requests and workers: no pump writes
\* once its worker is a former one (pump, one_worker).
THEOREM AbandonedAreSilent == Spec => []AbandonedIsSilent
<1>1. Init => Inv1
  BY Inv1Init
<1>2. Inv1 /\ [Next]_vars => Inv1'
  BY Inv1Step
<1>3. Inv1 => AbandonedIsSilent
  BY DEF Inv1
<1> QED
  BY <1>1, <1>2, <1>3, PTL DEF Spec
-----------------------------------------------------------------------------
\* A step out of a session that has not ended starts in one.
LEMMA RunningBefore ==
    ASSUME [Next]_vars, Running' PROVE Running
<1>1. CASE main' = main
  BY <1>1 DEF Running
<1>2. CASE Main
  BY <1>2 DEF Running, Main, NoNewWorker, SpawnFails, Spawn, Snapshot, Replay, ReplayFails, Open, Serve,
     ServeOutputEnded, Died, Drain, DrainTimesOut, Abandon, TakePending, AnswerPending, EndLineAndStop,
     ShutDown, LastWords, LastWordsTimeOut
<1> QED
  BY <1>1, <1>2, Writers DEF Written

\* Without its first piece, the rest goes on after it.
LEMMA AlternatesTail ==
    ASSUME NEW s \in Seq(Pieces), s # <<>>, NEW x, NEW h, Alternates(s, x, h)
    PROVE  /\ x = IF Head(s).ends THEN Head(s).id ELSE None
           /\ Alternates(Tail(s), IF Head(s).ends THEN None ELSE Head(s).id, h)
<1>1. /\ Len(s) \in Nat \ {0} /\ Head(s) = s[1]
      /\ Tail(s) \in Seq(Pieces) /\ Len(Tail(s)) = Len(s) - 1
      /\ \A n \in 1..Len(Tail(s)) : n + 1 \in 1..Len(s) /\ Tail(s)[n] = s[n + 1]
  BY TailElements
<1>2. x = IF Head(s).ends THEN Head(s).id ELSE None
  BY <1>1 DEF Alternates
<1> DEFINE y == IF Head(s).ends THEN None ELSE Head(s).id
<1>3. ASSUME NEW n \in 1..Len(Tail(s))
      PROVE  IF n = 1 THEN y = IF Tail(s)[n].ends THEN Tail(s)[n].id ELSE None
             ELSE /\ Tail(s)[n].ends <=> ~Tail(s)[n - 1].ends
                  /\ Tail(s)[n].ends => Tail(s)[n].id = Tail(s)[n - 1].id
  <2>1. n + 1 \in 1..Len(s) /\ n + 1 # 1 /\ (n + 1) - 1 = n /\ Tail(s)[n] = s[n + 1]
    BY <1>1
  <2>2. (s[n + 1].ends <=> ~s[n].ends) /\ (s[n + 1].ends => s[n + 1].id = s[n].id)
    BY <2>1 DEF Alternates
  <2>3. n # 1 => n - 1 \in 1..Len(Tail(s)) /\ Tail(s)[n - 1] = s[n]
    BY <1>1
  <2> QED
    BY <1>1, <2>1, <2>2, <2>3
<1>4. h = IF Tail(s) = <<>> THEN y ELSE IF Tail(s)[Len(Tail(s))].ends THEN None ELSE Tail(s)[Len(Tail(s))].id
  <2>1. h = IF s[Len(s)].ends THEN None ELSE s[Len(s)].id
    BY DEF Alternates
  <2>2. CASE Tail(s) = <<>>
    <3>0. Tail(s) \in Seq(Pieces) /\ Len(s) \in Nat /\ Len(Tail(s)) = Len(s) - 1
      BY <1>1
    <3>1. Len(Tail(s)) = 0
      BY <2>2, <3>0, EmptySeq, Zenon
    <3>2. Len(s) = 1
      <4>1. \A m \in Nat : m - 1 = 0 => m = 1
        OBVIOUS
      <4> QED
        BY <3>0, <3>1, <4>1, Zenon
    <3> QED
      BY <1>1, <2>1, <2>2, <3>2
  <2>3. CASE Tail(s) # <<>>
    <3>1. Len(Tail(s)) \in 1..Len(Tail(s))
      BY <1>1, <2>3, EmptySeq
    <3> QED
      BY <1>1, <2>1, <2>3, <3>1
  <2> QED
    BY <2>2, <2>3
<1> HIDE DEF y
<1>5. Alternates(Tail(s), y, h)
  BY <1>3, <1>4 DEF Alternates
<1> QED
  BY <1>2, <1>5 DEF y

\* One more piece goes on where the last one left off.
LEMMA AlternatesAppend ==
    ASSUME NEW s \in Seq(Pieces), NEW e \in Pieces, NEW x, NEW h,
           Alternates(s, x, h), h = IF e.ends THEN e.id ELSE None
    PROVE  Alternates(Append(s, e), x, IF e.ends THEN None ELSE e.id)
<1> DEFINE t == Append(s, e)
<1>1. /\ Len(s) \in Nat /\ t \in Seq(Pieces) /\ Len(t) = Len(s) + 1 /\ t[Len(s) + 1] = e
      /\ \A n \in 1..Len(s) : n \in 1..Len(t) /\ t[n] = s[n]
      /\ \A n \in 1..Len(t) : n \in 1..Len(s) \/ n = Len(s) + 1
  BY AppendElements
<1>2. t # <<>>
  BY <1>1, EmptySeq
<1> HIDE DEF t
<1>3. ASSUME NEW n \in 1..Len(t)
      PROVE  IF n = 1 THEN x = IF t[n].ends THEN t[n].id ELSE None
             ELSE /\ t[n].ends <=> ~t[n - 1].ends
                  /\ t[n].ends => t[n].id = t[n - 1].id
  <2>1. CASE n \in 1..Len(s)
    <3>1. t[n] = s[n] /\ (n # 1 => n - 1 \in 1..Len(s) /\ t[n - 1] = s[n - 1])
      BY <1>1, <2>1
    <3> QED
      BY <2>1, <3>1 DEF Alternates
  <2>2. CASE n = Len(s) + 1 /\ s = <<>>
    <3>1. n = 1 /\ t[n] = e
      BY <1>1, <2>2, EmptySeq
    <3>2. x = h
      BY <2>2 DEF Alternates
    <3> QED
      BY <3>1, <3>2
  <2>3. CASE n = Len(s) + 1 /\ s # <<>>
    <3>1. n # 1 /\ n - 1 = Len(s) /\ Len(s) \in 1..Len(s) /\ t[n] = e /\ t[n - 1] = s[Len(s)]
      BY <1>1, <2>3, EmptySeq
    <3>2. h = IF s[Len(s)].ends THEN None ELSE s[Len(s)].id
      BY <2>3 DEF Alternates
    <3>3. s[Len(s)].id # None /\ e.id # None
      BY <3>1, ElementOfSeq, PieceFacts, SetFacts
    <3> QED
      BY <3>1, <3>2, <3>3
  <2> QED
    BY <1>1, <2>1, <2>2, <2>3
<1>4. t[Len(t)] = e
  BY <1>1
<1>5. Alternates(t, x, IF e.ends THEN None ELSE e.id)
  BY <1>2, <1>3, <1>4 DEF Alternates
<1> QED
  BY <1>5 DEF t

\* Taking the first of what is in hand takes the first of the whole.
LEMMA TailOfConcat ==
    ASSUME NEW S, NEW c \in Seq(S), NEW p \in Seq(S), c # <<>>
    PROVE  /\ c \o p \in Seq(S) /\ c \o p # <<>> /\ Head(c \o p) = Head(c)
           /\ Tail(c \o p) = Tail(c) \o p
<1>1. Len(c) \in Nat \ {0} /\ Len(p) \in Nat /\ Head(c) = c[1]
  BY TailElements, LenProperties
<1>2. /\ c \o p \in Seq(S) /\ Len(c \o p) = Len(c) + Len(p)
      /\ \A i \in 1..Len(c) + Len(p) : (c \o p)[i] = IF i <= Len(c) THEN c[i] ELSE p[i - Len(c)]
  BY ConcatProperties
<1>3. c \o p # <<>>
  BY <1>1, <1>2, EmptySeq
<1>4. Head(c \o p) = Head(c)
  BY <1>1, <1>2, <1>3, TailElements
<1>5. /\ Tail(c) \in Seq(S) /\ Len(Tail(c)) = Len(c) - 1
      /\ \A n \in 1..Len(Tail(c)) : Tail(c)[n] = c[n + 1]
      /\ Tail(c \o p) \in Seq(S) /\ Len(Tail(c \o p)) = Len(c \o p) - 1
      /\ \A n \in 1..Len(Tail(c \o p)) : Tail(c \o p)[n] = (c \o p)[n + 1]
  BY <1>2, <1>3, HeadTailProperties
<1>6. /\ Tail(c) \o p \in Seq(S) /\ Len(Tail(c) \o p) = Len(Tail(c)) + Len(p)
      /\ \A i \in 1..Len(Tail(c)) + Len(p) :
            (Tail(c) \o p)[i] = IF i <= Len(Tail(c)) THEN Tail(c)[i] ELSE p[i - Len(Tail(c))]
  BY <1>5, ConcatProperties
<1>7. Len(Tail(c \o p)) = Len(Tail(c) \o p)
  BY <1>1, <1>2, <1>5, <1>6
<1>8. ASSUME NEW n \in 1..Len(Tail(c \o p)) PROVE Tail(c \o p)[n] = (Tail(c) \o p)[n]
  <2>1. n + 1 \in 1..Len(c) + Len(p) /\ n \in 1..Len(Tail(c)) + Len(p)
    BY <1>1, <1>2, <1>5
  <2>2. (n + 1) - Len(c) = n - Len(Tail(c)) /\ (n + 1 <= Len(c) <=> n <= Len(Tail(c)))
    BY <1>1, <1>5
  <2>3. n <= Len(Tail(c)) => Tail(c)[n] = c[n + 1]
    BY <1>1, <1>5
  <2> QED
    BY <1>2, <1>5, <1>6, <2>1, <2>2, <2>3
<1>9. Tail(c \o p) = Tail(c) \o p
  BY <1>5, <1>6, <1>7, <1>8, SeqEqual
<1> QED
  BY <1>2, <1>3, <1>4, <1>9

\* What is put at the end of the pipe is at the end of the whole.
LEMMA AppendOfConcat ==
    ASSUME NEW S, NEW c \in Seq(S), NEW p \in Seq(S), NEW e \in S
    PROVE  c \o Append(p, e) = Append(c \o p, e)
<1>1. <<e>> \in Seq(S)
  OBVIOUS
<1>2. Append(p, e) = p \o <<e>>
  BY AppendIsConcat
<1>3. c \o p \in Seq(S)
  BY ConcatProperties
<1>4. Append(c \o p, e) = (c \o p) \o <<e>>
  BY <1>3, AppendIsConcat
<1> QED
  BY <1>1, <1>2, <1>4, ConcatAssociative

\* What is left of an output is pieces.
LEMMA StreamType ==
    ASSUME Types, NEW k \in Workers
    PROVE  Stream(k) \in Seq(Pieces) /\ Rest(k) \in Seq(Pieces) /\ pipe[k] \in Seq(Pieces)
<1>1. chunk[k] \in Seq(Pieces) /\ pipe[k] \in Seq(Pieces) /\ (pump[k] = "noting" => chunk[k] # <<>>)
  BY DEF Types, PumpTypes, WorkerTypes
<1>2. Rest(k) \in Seq(Pieces)
  BY <1>1, HeadTailProperties DEF Rest
<1> QED
  BY <1>1, <1>2, ConcatProperties DEF Stream

\* A piece written, or swallowed, is the first of what is left.
LEMMA StreamPops ==
    ASSUME Inv1, NEW k \in Workers, PumpWrites(k) \/ PumpSwallows(k)
    PROVE  /\ Stream(k) # <<>> /\ Head(Stream(k)) = Head(chunk[k]) /\ Stream(k)' = Tail(Stream(k))
           /\ k = number /\ chunk[k] \in Seq(Pieces) /\ chunk[k] # <<>> /\ pump[k] = "writing"
<1>1. chunk[k] \in Seq(Pieces) /\ chunk[k] # <<>> /\ pipe[k] \in Seq(Pieces) /\ pump[k] = "writing"
  BY DEF Inv1, Types, PumpTypes, WorkerTypes, PumpWrites, PumpSwallows
<1>2. k = number
  BY <1>1 DEF Inv1, AbandonedIsSilent
<1>3. Stream(k) = chunk[k] \o pipe[k]
  BY <1>1 DEF Stream, Rest
<1>4. pipe'[k] = pipe[k] /\ Rest(k)' = Tail(chunk[k])
  <2>1. CASE PumpWrites(k) /\ Head(chunk[k]).ends
    <3>1. pump' = [pump EXCEPT ![k] = "noting"] /\ chunk' = chunk /\ pipe' = pipe
      BY <2>1 DEF PumpWrites, workerVars
    <3> QED
      BY <3>1 DEF Inv1, Types, PumpTypes, Rest
  <2>2. CASE PumpWrites(k) /\ ~Head(chunk[k]).ends
    <3>1. chunk' = [chunk EXCEPT ![k] = Tail(chunk[k])] /\ pump' = pump /\ pipe' = pipe
      BY <2>2 DEF PumpWrites, workerVars
    <3> QED
      BY <1>1, <3>1 DEF Inv1, Types, PumpTypes, Rest
  <2>3. CASE PumpSwallows(k)
    <3>1. chunk' = [chunk EXCEPT ![k] = Tail(chunk[k])] /\ pump' = pump /\ pipe' = pipe
      BY <2>3 DEF PumpSwallows, workerVars
    <3> QED
      BY <1>1, <3>1 DEF Inv1, Types, PumpTypes, Rest
  <2> QED
    BY <2>1, <2>2, <2>3
<1>5. Stream(k)' = Tail(chunk[k]) \o pipe[k]
  BY <1>4 DEF Stream
<1>6. chunk[k] \o pipe[k] # <<>> /\ Head(chunk[k] \o pipe[k]) = Head(chunk[k])
      /\ Tail(chunk[k] \o pipe[k]) = Tail(chunk[k]) \o pipe[k]
  <2>1. \A c, p \in Seq(Pieces) : c # <<>> =>
           c \o p # <<>> /\ Head(c \o p) = Head(c) /\ Tail(c \o p) = Tail(c) \o p
    BY TailOfConcat
  <2> QED
    BY <1>1, <2>1, Zenon
<1> QED
  BY <1>1, <1>2, <1>3, <1>5, <1>6

\* A piece a worker writes is the last of what is left.
LEMMA StreamGrows ==
    ASSUME Types, NEW k \in Workers, NEW e \in Pieces,
           pipe' = [pipe EXCEPT ![k] = Append(pipe[k], e)], UNCHANGED <<pump, chunk>>
    PROVE  Stream(k)' = Append(Stream(k), e) /\ \A j \in Workers : j # k => Stream(j)' = Stream(j)
<1>1. Rest(k)' = Rest(k) /\ pipe'[k] = Append(pipe[k], e)
  BY DEF Rest, Types, WorkerTypes
<1>2. Stream(k)' = Rest(k) \o Append(pipe[k], e)
  BY <1>1 DEF Stream
<1>3. Stream(k)' = Append(Stream(k), e)
  <2>1. Rest(k) \in Seq(Pieces) /\ pipe[k] \in Seq(Pieces)
    BY StreamType
  <2>2. Rest(k) \o Append(pipe[k], e) = Append(Rest(k) \o pipe[k], e)
    BY <2>1, AppendOfConcat
  <2> QED
    BY <1>2, <2>2 DEF Stream
<1>4. \A j \in Workers : j # k => Stream(j)' = Stream(j)
  BY DEF Stream, Rest, Types, WorkerTypes
<1> QED
  BY <1>3, <1>4

\* The other steps of a pump leave what is left of the output.
LEMMA StreamStays ==
    ASSUME Inv1, NEW k \in Workers, NEW j \in Workers, Pumping(j)',
           PumpReads(k) \/ PumpEnds(k) \/ PumpLocks(k) \/ PumpNotes(k) \/ PumpUnlocks(k)
    PROVE  Pumping(j) /\ Stream(j)' = Stream(j)
<1>0. /\ chunk \in [Workers -> Seq(Pieces)] /\ pipe \in [Workers -> Seq(Pieces)] /\ pump \in [Workers -> PumpPcs]
      /\ pump[k] = "reading" => chunk[k] = <<>>
  BY DEF Inv1, Types, PumpTypes, WorkerTypes, Lifecycle, Empty
<1>1. CASE PumpReads(k)
  <2>1. PICK n \in 1..Len(pipe[k]) : /\ chunk' = [chunk EXCEPT ![k] = SubSeq(pipe[k], 1, n)]
                                     /\ pipe' = [pipe EXCEPT ![k] = SubSeq(pipe[k], n + 1, Len(pipe[k]))]
    BY <1>1 DEF PumpReads
  <2>2. pump[k] = "reading" /\ pump' = [pump EXCEPT ![k] = "chunk"]
    BY <1>1 DEF PumpReads
  <2>3. CASE j # k
    BY <1>0, <2>1, <2>2, <2>3 DEF Pumping, Stream, Rest
  <2>4. CASE j = k
    <3>1. pipe[k] \in Seq(Pieces) /\ Len(pipe[k]) \in Nat
      BY <1>0, LenProperties
    <3>2. Rest(k) = <<>> /\ Stream(k) = pipe[k]
      BY <1>0, <2>2, ConcatEmptySeq DEF Rest, Stream
    <3>3. Stream(k)' = SubSeq(pipe[k], 1, n) \o SubSeq(pipe[k], n + 1, Len(pipe[k]))
      BY <1>0, <2>1, <2>2 DEF Rest, Stream
    <3>4. SubSeq(pipe[k], 1, n) \o SubSeq(pipe[k], n + 1, Len(pipe[k])) = SubSeq(pipe[k], 1, Len(pipe[k]))
      <4>1. 1 \in 1..Len(pipe[k]) + 1 /\ n \in 1 - 1..Len(pipe[k]) /\ Len(pipe[k]) \in n..Len(pipe[k])
        BY <3>1
      <4> QED
        BY <3>1, <4>1, ConcatAdjacentSubSeq
    <3>5. SubSeq(pipe[k], 1, Len(pipe[k])) = pipe[k]
      BY <3>1
    <3> QED
      BY <2>2, <2>4, <3>2, <3>3, <3>4, <3>5 DEF Pumping
  <2> QED
    BY <2>3, <2>4
<1>2. CASE PumpEnds(k)
  <2>1. pump' = [pump EXCEPT ![k] = "ended"] /\ chunk' = chunk /\ pipe' = pipe
    BY <1>2 DEF PumpEnds, workerVars
  <2> QED
    BY <1>0, <2>1 DEF Pumping, Stream, Rest
<1>3. CASE PumpLocks(k)
  <2>1. pipe' = pipe /\ pump[k] = "chunk"
    BY <1>3 DEF PumpLocks, workerVars
  <2>2. CASE abandoned[k]
    <3>1. pump' = [pump EXCEPT ![k] = "ended"] /\ chunk' = [chunk EXCEPT ![k] = <<>>]
      BY <1>3, <2>2 DEF PumpLocks
    <3> QED
      BY <1>0, <2>1, <3>1 DEF Pumping, Stream, Rest
  <2>3. CASE ~abandoned[k]
    <3>1. pump' = [pump EXCEPT ![k] = "writing"] /\ chunk' = chunk
      BY <1>3, <2>3 DEF PumpLocks
    <3> QED
      BY <1>0, <2>1, <3>1 DEF Pumping, Stream, Rest
  <2> QED
    BY <2>2, <2>3
<1>4. CASE PumpNotes(k)
  <2>1. pump[k] = "noting" /\ pump' = [pump EXCEPT ![k] = "writing"]
        /\ chunk' = [chunk EXCEPT ![k] = Tail(chunk[k])] /\ pipe' = pipe
    BY <1>4 DEF PumpNotes, workerVars
  <2> QED
    BY <1>0, <2>1 DEF Pumping, Stream, Rest
<1>5. CASE PumpUnlocks(k)
  <2>1. pump[k] = "writing" /\ pump' = [pump EXCEPT ![k] = "reading"] /\ chunk' = chunk /\ pipe' = pipe
    BY <1>5 DEF PumpUnlocks, workerVars
  <2> QED
    BY <1>0, <2>1 DEF Pumping, Stream, Rest
<1> QED
  BY <1>1, <1>2, <1>3, <1>4, <1>5

\* The new worker has said nothing, and the client is between lines.
LEMMA StreamStarts ==
    ASSUME Inv1, Snapshot, NEW k \in Workers, k = number
    PROVE  /\ Stream(k)' = <<>> /\ half'[k] = None /\ given[k] = {} /\ inbox[k] = {} /\ ~swallow[k]
           /\ \A j \in Workers : j # k => Stream(j)' = Stream(j)
<1>1. Fresh(k) /\ UNCHANGED <<chunk, pipe, half>> /\ pump' = [pump EXCEPT ![k] = "reading"]
  BY DEF Inv1, Lifecycle, ToCome, Snapshot
<1>2. Rest(k)' = <<>> /\ pipe'[k] = <<>>
  BY <1>1 DEF Inv1, Types, PumpTypes, Rest, Fresh
<1>3. Stream(k)' = <<>> \o <<>>
  BY <1>2 DEF Stream
<1>4. <<>> \o <<>> = <<>>
  BY ConcatEmptySeq, EmptySeq
<1>5. \A j \in Workers : j # k => Stream(j)' = Stream(j)
  BY <1>1 DEF Inv1, Types, PumpTypes, Stream, Rest
<1> QED
  BY <1>1, <1>3, <1>4, <1>5 DEF Fresh

\* A pump that notes has a whole line.
LEMMA NotesStep ==
    ASSUME Inv1, Inv2, [Next]_vars
    PROVE  Notes'
<1>0. Types /\ InHand /\ Lifecycle /\ AbandonedIsSilent
  BY DEF Inv1
<1>00. Notes /\ HalfLine /\ Flow /\ ~torn
  BY DEF Inv2
<1>u. CASE UNCHANGED <<pump, chunk, swallow>>
  BY <1>0, <1>00, <1>u DEF Notes
<1>1. ASSUME NEW k \in Workers, PumpReads(k) PROVE Notes'
  <2>1. PICK c : chunk' = [chunk EXCEPT ![k] = c]
    BY <1>1 DEF PumpReads
  <2>2. swallow' = swallow /\ pump' = [pump EXCEPT ![k] = "chunk"]
    BY <1>1 DEF PumpReads
  <2> QED
    BY <1>0, <1>00, <2>1, <2>2 DEF Types, PumpTypes, Notes
<1>2. ASSUME NEW k \in Workers, PumpEnds(k) PROVE Notes'
  BY <1>0, <1>00, <1>2 DEF PumpEnds, Send, Event, Notes, Types, PumpTypes, MainTypes
<1>3. ASSUME NEW k \in Workers, PumpLocks(k) PROVE Notes'
  BY <1>0, <1>00, <1>3 DEF PumpLocks, Notes, Types, PumpTypes, MainTypes
<1>4. ASSUME NEW k \in Workers, PumpWrites(k) PROVE Notes'
  <2>1. pump[k] = "writing" /\ ~swallow[k] /\ swallow' = swallow
    BY <1>4 DEF PumpWrites
  <2>2. CASE Head(chunk[k]).ends
    <3>1. pump' = [pump EXCEPT ![k] = "noting"] /\ chunk' = chunk
      BY <2>2, <1>4 DEF PumpWrites
    <3> QED
      BY <1>0, <1>00, <2>1, <2>2, <3>1 DEF Types, PumpTypes, Notes
  <2>3. CASE ~Head(chunk[k]).ends
    <3>1. pump' = pump /\ chunk' = [chunk EXCEPT ![k] = Tail(chunk[k])]
      BY <2>3, <1>4 DEF PumpWrites
    <3> QED
      BY <1>0, <1>00, <2>1, <3>1 DEF Types, PumpTypes, Notes
  <2> QED
    BY <2>2, <2>3
<1>5. ASSUME NEW k \in Workers, PumpNotes(k) PROVE Notes'
  BY <1>0, <1>00, <1>5 DEF PumpNotes, Notes, Types, PumpTypes, MainTypes
<1>6. ASSUME NEW k \in Workers, PumpSwallows(k) PROVE Notes'
  <2>1. pump[k] = "writing" /\ pump' = pump /\ chunk' = [chunk EXCEPT ![k] = Tail(chunk[k])]
    BY <1>6 DEF PumpSwallows
  <2>2. \A j \in Workers : j # k => swallow'[j] = swallow[j]
    BY <1>0, <1>6 DEF PumpSwallows, Types, PumpTypes
  <2> QED
    BY <1>0, <1>00, <2>1, <2>2 DEF Types, PumpTypes, Notes
<1>7. ASSUME NEW k \in Workers, PumpUnlocks(k) PROVE Notes'
  BY <1>0, <1>00, <1>7 DEF PumpUnlocks, Notes, Types, PumpTypes, MainTypes
<1>8. CASE Snapshot
  BY <1>0, <1>00, <1>8 DEF Snapshot, Notes, Types, PumpTypes, MainTypes
<1> QED
  BY <1>u, <1>1, <1>2, <1>3, <1>4, <1>5, <1>6, <1>7, <1>8, Writers DEF Written

\* The client's half line is known.
LEMMA HalfLineStep ==
    ASSUME Inv1, Inv2, [Next]_vars
    PROVE  HalfLine'
<1>0. Types /\ InHand /\ Lifecycle /\ AbandonedIsSilent
  BY DEF Inv1
<1>00. Notes /\ HalfLine /\ Flow /\ ~torn
  BY DEF Inv2
<1>u. CASE UNCHANGED <<midLine, partial, main>>
  BY <1>0, <1>00, <1>u DEF HalfLine
<1>1. ASSUME NEW k \in Workers, PumpWrites(k) PROVE HalfLine'
  <2>1. chunk[k] \in Seq(Pieces) /\ chunk[k] # <<>> /\ k = number /\ pump[k] = "writing" /\ main' = main
    BY <1>1, StreamPops DEF PumpWrites, mainVars
  <2>2. Head(chunk[k]).id \in Ids /\ Head(chunk[k]).ends \in BOOLEAN
    BY <2>1, TailElements, PieceFacts
  <2>3. main \notin {"top", "snapshot"}
    BY <1>0, <2>1 DEF Lifecycle, ToCome, Fresh
  <2>4. CASE Head(chunk[k]).ends
    BY <2>1, <2>3, <2>4, <1>1 DEF PumpWrites, ClientReads, HalfLine
  <2>5. CASE ~Head(chunk[k]).ends
    <3>1. partial' = Head(chunk[k]).id /\ midLine'
      BY <2>5, <1>1 DEF PumpWrites, ClientReads
    <3>2. partial' # None
      BY <2>2, <3>1, SetFacts
    <3> QED
      BY <2>1, <2>3, <3>1, <3>2 DEF HalfLine
  <2> QED
    BY <2>2, <2>4, <2>5
<1>2. CASE NoNewWorker
  BY <1>0, <1>00, <1>2 DEF NoNewWorker, Idle, clientVars, HalfLine
<1>3. CASE SpawnFails
  BY <1>0, <1>00, <1>3 DEF SpawnFails, Idle, clientVars, HalfLine
<1>4. CASE Spawn
  BY <1>0, <1>00, <1>4 DEF Spawn, Waits, clientVars, HalfLine
<1>5. CASE Snapshot
  BY <1>0, <1>00, <1>5 DEF Snapshot, clientVars, HalfLine
<1>6. CASE Replay
  BY <1>0, <1>00, <1>6 DEF Replay, ReplayFailed, ReplayedWell, clientVars, HalfLine
<1>7. CASE ReplayFails
  BY <1>0, <1>00, <1>7 DEF ReplayFails, ReplayFailed, Ends, clientVars, HalfLine
<1>8. CASE Open
  BY <1>0, <1>00, <1>8 DEF Open, clientVars, HalfLine
<1>9. CASE Serve
  BY <1>0, <1>00, <1>9 DEF Serve, Waits, clientVars, HalfLine
<1>10. CASE ServeOutputEnded
  BY <1>0, <1>00, <1>10 DEF ServeOutputEnded, Ends, Waits, clientVars, HalfLine
<1>11. CASE Died
  BY <1>0, <1>00, <1>11 DEF Died, clientVars, HalfLine
<1>12. CASE Drain
  BY <1>0, <1>00, <1>12 DEF Drain, Waits, clientVars, HalfLine
<1>13. CASE DrainTimesOut
  BY <1>0, <1>00, <1>13 DEF DrainTimesOut, Idle, clientVars, HalfLine
<1>14. CASE Abandon
  BY <1>0, <1>00, <1>14 DEF Abandon, clientVars, HalfLine
<1>15. CASE TakePending
  BY <1>0, <1>00, <1>15 DEF TakePending, clientVars, HalfLine
<1>16. CASE AnswerPending
  <2>1. partial' = (IF midLine THEN None ELSE partial) /\ ~midLine'
    BY <1>16 DEF AnswerPending, EndTheLine
  <2> QED
    BY <1>00, <2>1 DEF HalfLine
<1>17. CASE EndLineAndStop
  <2>1. partial' = (IF midLine THEN None ELSE partial) /\ ~midLine'
    BY <1>17 DEF EndLineAndStop, EndTheLine
  <2> QED
    BY <1>00, <2>1 DEF HalfLine
<1>18. CASE ShutDown
  BY <1>0, <1>00, <1>18 DEF ShutDown, Ends, Waits, clientVars, HalfLine
<1>19. CASE LastWords
  BY <1>0, <1>00, <1>19 DEF LastWords, Waits, clientVars, HalfLine
<1>20. CASE LastWordsTimeOut
  BY <1>0, <1>00, <1>20 DEF LastWordsTimeOut, Idle, clientVars, HalfLine
<1> QED
  BY <1>u, <1>1, <1>2, <1>3, <1>4, <1>5, <1>6, <1>7, <1>8, <1>9, <1>10, <1>11, <1>12, <1>13, <1>14, <1>15, <1>16, <1>17, <1>18, <1>19, <1>20, Writers DEF Written, Main

\* The current worker's output goes on where the client is.
LEMMA FlowStep ==
    ASSUME Inv1, Inv2, [Next]_vars
    PROVE  Flow'
<1>0. Types /\ InHand /\ Lifecycle /\ AbandonedIsSilent
  BY DEF Inv1
<1>00. Notes /\ HalfLine /\ Flow /\ ~torn
  BY DEF Inv2
<1>u. CASE UNCHANGED <<number, pump, chunk, pipe, half, swallow, partial>>
  <2>1. SUFFICES ASSUME NEW j \in Workers, (j = number /\ Running /\ Pumping(j))' PROVE GoesOn(j)'
    BY DEF Flow
  <2>2. GoesOn(j)
    BY <1>00, <1>u, <2>1, RunningBefore DEF Flow, Pumping
  <2>3. Stream(j)' = Stream(j)
    BY <1>u DEF Stream, Rest
  <2> QED
    BY <1>u, <2>2, <2>3 DEF GoesOn
<1>1. ASSUME NEW k \in Workers, NEW i \in Ids, WorkerBegins(k, i) PROVE Flow'
  <2>1. SUFFICES ASSUME NEW j \in Workers, (j = number /\ Running /\ Pumping(j))' PROVE GoesOn(j)'
    BY DEF Flow
  <2>2. UNCHANGED <<number, swallow, partial, pump, chunk>> /\ Running
    BY <1>1 DEF WorkerBegins, mainVars, pumpVars, clientVars
  <2>3. GoesOn(j)
    BY <1>00, <2>1, <2>2 DEF Flow, Pumping
  <2>4. PICK e \in Pieces : /\ e = [id |-> i, ends |-> FALSE, ok |-> TRUE] /\ e.id = i /\ e.ends = FALSE
                            /\ half[k] = IF e.ends THEN e.id ELSE None
    BY <1>1, PieceFacts DEF WorkerBegins
  <2>5. \A m \in Workers : m # k => Stream(m)' = Stream(m) /\ half'[m] = half[m]
    BY <1>0, <2>2, <2>4, <1>1, StreamGrows DEF WorkerBegins, Types, WorkerTypes
  <2>6. CASE j # k
    BY <2>2, <2>3, <2>5, <2>6 DEF GoesOn
  <2>7. CASE j = k
    <3>1. Stream(k)' = Append(Stream(k), e) /\ Stream(k) \in Seq(Pieces)
      BY <1>0, <2>2, <2>4, <1>1, StreamGrows, StreamType DEF WorkerBegins
    <3>2. PICK x \in Ids \cup {None} : /\ Alternates(Stream(k), x, half[k])
                                        /\ IF swallow[k] THEN partial = None ELSE x = partial
      BY <2>3, <2>7 DEF GoesOn
    <3>3. Alternates(Append(Stream(k), e), x, IF e.ends THEN None ELSE e.id)
      BY <2>4, <3>1, <3>2, AlternatesAppend
    <3>4. half'[k] = IF e.ends THEN None ELSE e.id
      BY <1>0, <2>4, <1>1 DEF WorkerBegins, Types, WorkerTypes
    <3>5. Alternates(Stream(k)', x, half'[k])
      BY <3>1, <3>3, <3>4
    <3> QED
      BY <2>2, <2>7, <3>2, <3>5 DEF GoesOn
  <2> QED
    BY <2>6, <2>7
<1>2. ASSUME NEW k \in Workers, NEW ok \in BOOLEAN, WorkerEnds(k, ok) PROVE Flow'
  <2>1. SUFFICES ASSUME NEW j \in Workers, (j = number /\ Running /\ Pumping(j))' PROVE GoesOn(j)'
    BY DEF Flow
  <2>2. UNCHANGED <<number, swallow, partial, pump, chunk>> /\ Running
    BY <1>2 DEF WorkerEnds, mainVars, pumpVars, clientVars
  <2>3. GoesOn(j)
    BY <1>00, <2>1, <2>2 DEF Flow, Pumping
  <2>4. PICK e \in Pieces : /\ e = [id |-> half[k], ends |-> TRUE, ok |-> ok] /\ e.id = half[k] /\ e.ends = TRUE
                            /\ half[k] = IF e.ends THEN e.id ELSE None
    <3>1. half[k] \in Ids
      BY <1>0, <1>2 DEF WorkerEnds, Types, WorkerTypes
    <3> QED
      BY <3>1, PieceFacts
  <2>5. \A m \in Workers : m # k => Stream(m)' = Stream(m) /\ half'[m] = half[m]
    BY <1>0, <2>2, <2>4, <1>2, StreamGrows DEF WorkerEnds, Types, WorkerTypes
  <2>6. CASE j # k
    BY <2>2, <2>3, <2>5, <2>6 DEF GoesOn
  <2>7. CASE j = k
    <3>1. Stream(k)' = Append(Stream(k), e) /\ Stream(k) \in Seq(Pieces)
      BY <1>0, <2>2, <2>4, <1>2, StreamGrows, StreamType DEF WorkerEnds
    <3>2. PICK x \in Ids \cup {None} : /\ Alternates(Stream(k), x, half[k])
                                        /\ IF swallow[k] THEN partial = None ELSE x = partial
      BY <2>3, <2>7 DEF GoesOn
    <3>3. Alternates(Append(Stream(k), e), x, IF e.ends THEN None ELSE e.id)
      BY <2>4, <3>1, <3>2, AlternatesAppend
    <3>4. half'[k] = IF e.ends THEN None ELSE e.id
      BY <1>0, <2>4, <1>2 DEF WorkerEnds, Types, WorkerTypes
    <3>5. Alternates(Stream(k)', x, half'[k])
      BY <3>1, <3>3, <3>4
    <3> QED
      BY <2>2, <2>7, <3>2, <3>5 DEF GoesOn
  <2> QED
    BY <2>6, <2>7
<1>3. ASSUME NEW k \in Workers, PumpReads(k) PROVE Flow'
  <2>1. SUFFICES ASSUME NEW j \in Workers, (j = number /\ Running /\ Pumping(j))' PROVE GoesOn(j)'
    BY DEF Flow
  <2>2. Pumping(j) /\ Stream(j)' = Stream(j)
    BY <2>1, <1>3, StreamStays
  <2>3. UNCHANGED <<number, half, swallow, partial>> /\ Running
    BY <1>3 DEF PumpReads, mainVars, workerVars, clientVars
  <2>4. GoesOn(j)
    BY <1>00, <2>1, <2>2, <2>3 DEF Flow
  <2> QED
    BY <2>2, <2>3, <2>4 DEF GoesOn
<1>4. ASSUME NEW k \in Workers, PumpEnds(k) PROVE Flow'
  <2>1. SUFFICES ASSUME NEW j \in Workers, (j = number /\ Running /\ Pumping(j))' PROVE GoesOn(j)'
    BY DEF Flow
  <2>2. Pumping(j) /\ Stream(j)' = Stream(j)
    BY <2>1, <1>4, StreamStays
  <2>3. UNCHANGED <<number, half, swallow, partial>> /\ Running
    BY <1>4 DEF PumpEnds, mainVars, workerVars, clientVars
  <2>4. GoesOn(j)
    BY <1>00, <2>1, <2>2, <2>3 DEF Flow
  <2> QED
    BY <2>2, <2>3, <2>4 DEF GoesOn
<1>5. ASSUME NEW k \in Workers, PumpLocks(k) PROVE Flow'
  <2>1. SUFFICES ASSUME NEW j \in Workers, (j = number /\ Running /\ Pumping(j))' PROVE GoesOn(j)'
    BY DEF Flow
  <2>2. Pumping(j) /\ Stream(j)' = Stream(j)
    BY <2>1, <1>5, StreamStays
  <2>3. UNCHANGED <<number, half, swallow, partial>> /\ Running
    BY <1>5 DEF PumpLocks, mainVars, workerVars, clientVars
  <2>4. GoesOn(j)
    BY <1>00, <2>1, <2>2, <2>3 DEF Flow
  <2> QED
    BY <2>2, <2>3, <2>4 DEF GoesOn
<1>6. ASSUME NEW k \in Workers, PumpWrites(k) PROVE Flow'
  <2>1. SUFFICES ASSUME NEW j \in Workers, (j = number /\ Running /\ Pumping(j))' PROVE GoesOn(j)'
    BY DEF Flow
  <2>2. UNCHANGED <<number, half>> /\ Running
    BY <1>6 DEF PumpWrites, mainVars, workerVars
  <2>3. /\ Stream(k) # <<>> /\ Head(Stream(k)) = Head(chunk[k]) /\ Stream(k)' = Tail(Stream(k))
        /\ k = number /\ chunk[k] \in Seq(Pieces) /\ chunk[k] # <<>> /\ pump[k] = "writing"
    BY <1>6, StreamPops
  <2>4. j = k /\ Stream(k) \in Seq(Pieces)
    BY <1>0, <2>1, <2>2, <2>3, StreamType
  <2>5. PICK p \in Pieces : p = Head(chunk[k]) /\ p.id \in Ids /\ p.ends \in BOOLEAN
    BY <2>3, TailElements, PieceFacts
  <2>6. PICK x \in Ids \cup {None} : /\ Alternates(Stream(k), x, half[k])
                                      /\ IF swallow[k] THEN partial = None ELSE x = partial
    BY <1>00, <2>2, <2>3 DEF Flow, Pumping, GoesOn
  <2>7. PICK y : y = IF p.ends THEN None ELSE p.id
    OBVIOUS
  <2>8. /\ x = (IF p.ends THEN p.id ELSE None) /\ Alternates(Stream(k)', y, half'[k]) /\ y \in Ids \cup {None}
    <3>1. x = (IF Head(Stream(k)).ends THEN Head(Stream(k)).id ELSE None)
          /\ Alternates(Tail(Stream(k)), IF Head(Stream(k)).ends THEN None ELSE Head(Stream(k)).id, half[k])
      BY <2>3, <2>4, <2>6, AlternatesTail
    <3>2. Alternates(Tail(Stream(k)), y, half[k])
      BY <2>3, <2>5, <2>7, <3>1
    <3> QED
      BY <2>2, <2>3, <2>5, <2>7, <3>1, <3>2
  <2>9. partial' = y /\ swallow'[k] = swallow[k] /\ ~swallow[k]
    BY <2>5, <2>7, <1>6 DEF PumpWrites, ClientReads
  <2> QED
    BY <2>4, <2>8, <2>9 DEF GoesOn
<1>7. ASSUME NEW k \in Workers, PumpNotes(k) PROVE Flow'
  <2>1. SUFFICES ASSUME NEW j \in Workers, (j = number /\ Running /\ Pumping(j))' PROVE GoesOn(j)'
    BY DEF Flow
  <2>2. Pumping(j) /\ Stream(j)' = Stream(j)
    BY <2>1, <1>7, StreamStays
  <2>3. UNCHANGED <<number, half, swallow, partial>> /\ Running
    BY <1>7 DEF PumpNotes, mainVars, workerVars, clientVars
  <2>4. GoesOn(j)
    BY <1>00, <2>1, <2>2, <2>3 DEF Flow
  <2> QED
    BY <2>2, <2>3, <2>4 DEF GoesOn
<1>8. ASSUME NEW k \in Workers, PumpSwallows(k) PROVE Flow'
  <2>1. SUFFICES ASSUME NEW j \in Workers, (j = number /\ Running /\ Pumping(j))' PROVE GoesOn(j)'
    BY DEF Flow
  <2>2. UNCHANGED <<number, half>> /\ Running
    BY <1>8 DEF PumpSwallows, mainVars, workerVars
  <2>3. /\ Stream(k) # <<>> /\ Head(Stream(k)) = Head(chunk[k]) /\ Stream(k)' = Tail(Stream(k))
        /\ k = number /\ chunk[k] \in Seq(Pieces) /\ chunk[k] # <<>> /\ pump[k] = "writing"
    BY <1>8, StreamPops
  <2>4. j = k /\ Stream(k) \in Seq(Pieces)
    BY <1>0, <2>1, <2>2, <2>3, StreamType
  <2>5. PICK p \in Pieces : p = Head(chunk[k]) /\ p.id \in Ids /\ p.ends \in BOOLEAN
    BY <2>3, TailElements, PieceFacts
  <2>6. PICK x \in Ids \cup {None} : /\ Alternates(Stream(k), x, half[k])
                                      /\ IF swallow[k] THEN partial = None ELSE x = partial
    BY <1>00, <2>2, <2>3 DEF Flow, Pumping, GoesOn
  <2>7. PICK y : y = IF p.ends THEN None ELSE p.id
    OBVIOUS
  <2>8. /\ x = (IF p.ends THEN p.id ELSE None) /\ Alternates(Stream(k)', y, half'[k]) /\ y \in Ids \cup {None}
    <3>1. x = (IF Head(Stream(k)).ends THEN Head(Stream(k)).id ELSE None)
          /\ Alternates(Tail(Stream(k)), IF Head(Stream(k)).ends THEN None ELSE Head(Stream(k)).id, half[k])
      BY <2>3, <2>4, <2>6, AlternatesTail
    <3>2. Alternates(Tail(Stream(k)), y, half[k])
      BY <2>3, <2>5, <2>7, <3>1
    <3> QED
      BY <2>2, <2>3, <2>5, <2>7, <3>1, <3>2
  <2>9. partial' = partial /\ swallow[k] /\ partial = None
    BY <2>6, <1>8 DEF PumpSwallows, clientVars
  <2>10. ~swallow'[k] => y = None
    BY <1>0, <2>5, <2>7, <2>9, <1>8 DEF PumpSwallows, Types, PumpTypes
  <2> QED
    BY <2>4, <2>8, <2>9, <2>10 DEF GoesOn
<1>9. ASSUME NEW k \in Workers, PumpUnlocks(k) PROVE Flow'
  <2>1. SUFFICES ASSUME NEW j \in Workers, (j = number /\ Running /\ Pumping(j))' PROVE GoesOn(j)'
    BY DEF Flow
  <2>2. Pumping(j) /\ Stream(j)' = Stream(j)
    BY <2>1, <1>9, StreamStays
  <2>3. UNCHANGED <<number, half, swallow, partial>> /\ Running
    BY <1>9 DEF PumpUnlocks, mainVars, workerVars, clientVars
  <2>4. GoesOn(j)
    BY <1>00, <2>1, <2>2, <2>3 DEF Flow
  <2> QED
    BY <2>2, <2>3, <2>4 DEF GoesOn
<1>10. CASE Snapshot
  <2>1. SUFFICES ASSUME NEW j \in Workers, (j = number /\ Running /\ Pumping(j))' PROVE GoesOn(j)'
    BY DEF Flow
  <2>2. number' = number /\ partial' = partial /\ j = number
    BY <2>1, <1>10 DEF Snapshot, clientVars
  <2>3. Stream(j)' = <<>> /\ half'[j] = None
    BY <2>2, <1>10, StreamStarts
  <2>4. partial = None
    BY <1>00, <1>10 DEF Snapshot, HalfLine
  <2>5. Alternates(Stream(j)', None, half'[j])
    BY <2>3 DEF Alternates
  <2> QED
    BY <2>2, <2>4, <2>5 DEF GoesOn
<1>11. CASE AnswerPending
  <2>1. SUFFICES ASSUME NEW j \in Workers, (j = number /\ Running /\ Pumping(j))' PROVE GoesOn(j)'
    BY DEF Flow
  <2>2. number' = number + 1 /\ pump' = pump
    BY <2>1, <1>11 DEF AnswerPending, pumpVars, Running
  <2>3. pump[j] = "none"
    BY <1>0, <2>1, <2>2 DEF Types, MainTypes, Lifecycle, ToCome, Fresh
  <2> QED
    BY <2>1, <2>2, <2>3 DEF Pumping
<1>12. CASE EndLineAndStop
  BY <1>12 DEF EndLineAndStop, Flow, Running
<1> QED
  BY <1>u, <1>1, <1>2, <1>3, <1>4, <1>5, <1>6, <1>7, <1>8, <1>9, <1>10, <1>11, <1>12, Writers DEF Written

\* No line is torn by a step.
LEMMA NotTornStep ==
    ASSUME Inv1, Inv2, [Next]_vars
    PROVE  ~torn'
<1>0. Types /\ InHand /\ Lifecycle /\ AbandonedIsSilent
  BY DEF Inv1
<1>00. Notes /\ HalfLine /\ Flow /\ ~torn
  BY DEF Inv2
<1>u. CASE UNCHANGED <<torn>>
  BY <1>00, <1>u DEF Inv2
<1>1. ASSUME NEW k \in Workers, PumpWrites(k) PROVE ~torn'
  <2>3. /\ Stream(k) # <<>> /\ Head(Stream(k)) = Head(chunk[k])
        /\ k = number /\ chunk[k] \in Seq(Pieces) /\ chunk[k] # <<>> /\ pump[k] = "writing" /\ ~swallow[k] /\ Running
    BY <1>1, StreamPops DEF PumpWrites
  <2>4. Stream(k) \in Seq(Pieces)
    BY <1>0, StreamType
  <2>6. PICK x \in Ids \cup {None} : Alternates(Stream(k), x, half[k]) /\ x = partial
    BY <1>00, <2>3 DEF Flow, Pumping, GoesOn
  <2>7. x = IF Head(Stream(k)).ends THEN Head(Stream(k)).id ELSE None
    BY <2>3, <2>4, <2>6, AlternatesTail
  <2> QED
    BY <1>00, <2>3, <2>6, <2>7, <1>1 DEF PumpWrites, ClientReads
<1>2. CASE AnswerPending
  BY <1>00, <1>2 DEF AnswerPending, EndTheLine, HalfLine
<1>3. CASE EndLineAndStop
  BY <1>00, <1>3 DEF EndLineAndStop, EndTheLine, HalfLine
<1> QED
  BY <1>u, <1>1, <1>2, <1>3, Writers DEF Written

\* The second invariant is inductive.
LEMMA Inv2Step ==
    ASSUME Inv1, Inv2, [Next]_vars PROVE Inv2'
  BY NotesStep, HalfLineStep, FlowStep, NotTornStep DEF Inv2

\* It holds at first.
LEMMA Inv2Init ==
    ASSUME Init PROVE Inv2
  BY DEF Init, Inv2, Notes, HalfLine, Flow, Pumping

\* NoLineIsTorn, for any number of requests and workers: no line of the
\* client's starts or ends in the middle of another (pump, answer_pending_and_say).
THEOREM LinesAreWhole == Spec => []NoLineIsTorn
<1>1. Init => Inv1 /\ Inv2
  BY Inv1Init, Inv2Init
<1>2. Inv1 /\ Inv2 /\ [Next]_vars => Inv1' /\ Inv2'
  BY Inv1Step, Inv2Step
<1>3. Inv2 => NoLineIsTorn
  BY DEF Inv2, NoLineIsTorn
<1> QED
  BY <1>1, <1>2, <1>3, PTL DEF Spec
-----------------------------------------------------------------------------
\* What a worker is given, and by whom.
LEMMA GivenGrows ==
    ASSUME Inv1, [Next]_vars, NEW k \in Workers
    PROVE  /\ given[k] \subseteq given'[k]
           /\ \A l \in given'[k] \ given[k] :
                 \/ ReaderWrites /\ l = line.of /\ k = line.to /\ ~line.cancel /\ alive[k]
                 \/ Snapshot /\ l = Hello /\ hello = "answered" /\ k = number /\ alive[k]
                 \/ Replay /\ l = Initialized /\ initialized /\ k = number /\ alive[k]
<1>0. given \in [Workers -> SUBSET Lines]
  BY DEF Inv1, Types, WorkerTypes
<1>u. CASE given' = given
  BY <1>u
<1>1. CASE ReaderWrites
  <2>1. line.to \in Workers
    BY <1>1 DEF Inv1, Types, ReaderTypes, ReaderWrites
  <2>2. CASE alive[line.to] /\ ~line.cancel
    <3>1. given' = [given EXCEPT ![line.to] = given[line.to] \cup {line.of}]
      BY <1>1, <2>2 DEF ReaderWrites
    <3> QED
      BY <1>0, <1>1, <2>1, <2>2, <3>1
  <2>3. CASE ~(alive[line.to] /\ ~line.cancel)
    BY <1>1, <2>3 DEF ReaderWrites
  <2> QED
    BY <2>2, <2>3
<1>2. CASE Snapshot
  <2>1. number \in Workers
    BY <1>2 DEF Inv1, Types, MainTypes, Snapshot
  <2>2. CASE hello = "answered" /\ alive[number]
    <3>1. given' = [given EXCEPT ![number] = given[number] \cup {Hello}]
      BY <1>2, <2>2 DEF Snapshot
    <3> QED
      BY <1>0, <1>2, <2>1, <2>2, <3>1
  <2>3. CASE ~(hello = "answered" /\ alive[number])
    BY <1>2, <2>3 DEF Snapshot
  <2> QED
    BY <2>2, <2>3
<1>3. CASE Replay
  <2>1. number \in Workers
    BY <1>3 DEF Inv1, Types, MainTypes, Replay
  <2>2. CASE ReplayedWell(Head(events)) /\ initialized /\ alive[number]
    <3>1. given' = [given EXCEPT ![number] = given[number] \cup {Initialized}]
      BY <1>3, <2>2 DEF Replay
    <3> QED
      BY <1>0, <1>3, <2>1, <2>2, <3>1
  <2>3. CASE ~(ReplayedWell(Head(events)) /\ initialized /\ alive[number])
    BY <1>3, <2>3 DEF Replay
  <2> QED
    BY <2>2, <2>3
<1> QED
  BY <1>u, <1>1, <1>2, <1>3, Writers DEF Written

\* What the client gets a result for, and from whom.
LEMMA ResultsGrow ==
    ASSUME Inv1, [Next]_vars, NEW i \in Ids
    PROVE  \/ results'[i] = results[i]
           \/ /\ results'[i] = results[i] + 1
              /\ \E k \in Workers : PumpWrites(k) /\ i = Head(chunk[k]).id /\ Head(chunk[k]).ends
<1>0. results \in [Ids -> Nat]
  BY DEF Inv1, Types, ClientTypes
<1>u. CASE results' = results
  BY <1>u
<1>1. ASSUME NEW k \in Workers, PumpWrites(k)
      PROVE  \/ results'[i] = results[i]
             \/ results'[i] = results[i] + 1 /\ i = Head(chunk[k]).id /\ Head(chunk[k]).ends
  <2>1. CASE Head(chunk[k]).ends
    <3>1. results' = [results EXCEPT ![Head(chunk[k]).id] = results[Head(chunk[k]).id] + 1]
      BY <1>1, <2>1 DEF PumpWrites, ClientReads
    <3> QED
      BY <1>0, <2>1, <3>1
  <2>2. CASE ~Head(chunk[k]).ends
    BY <1>1, <2>2 DEF PumpWrites, ClientReads
  <2> QED
    BY <2>1, <2>2
<1> QED
  BY <1>u, <1>1, Writers DEF Written

\* The first piece in hand is of what was given.
LEMMA HeadWasGiven ==
    ASSUME Types, OfGivens, NEW k \in Workers, chunk[k] # <<>>
    PROVE  Head(chunk[k]).id \in given[k] \cap Ids /\ Head(chunk[k]) = chunk[k][1] /\ Head(chunk[k]).ends \in BOOLEAN
<1>1. chunk[k] \in Seq(Pieces)
  BY DEF Types, PumpTypes
<1>2. Len(chunk[k]) \in Nat \ {0} /\ Head(chunk[k]) = chunk[k][1] /\ Head(chunk[k]) \in Pieces
  BY <1>1, TailElements
<1>3. 1 \in 1..Len(chunk[k])
  BY <1>2
<1> QED
  BY <1>2, <1>3, PieceFacts DEF OfGivens, OfGiven

\* A worker says nothing but of what it was given.
LEMMA OfGivensStep ==
    ASSUME Inv1, Inv3, [Next]_vars
    PROVE  OfGivens'
<1>0. Types /\ InHand /\ Lifecycle /\ AbandonedIsSilent
  BY DEF Inv1
<1>00. /\ OfGivens /\ Answered /\ Unsent /\ Held /\ Noted
       /\ HelloKnown /\ InitializedKnown /\ KnowsHello /\ KnowsInitialized
  BY DEF Inv3
<1>u. CASE UNCHANGED <<inbox, given, half, pipe, chunk>>
  BY <1>0, <1>00, SetFacts, <1>u DEF OfGivens, OfGiven
<1>1. CASE ReaderWrites
  BY <1>0, <1>00, SetFacts, <1>1 DEF ReaderWrites, NoLine, pumpVars, OfGivens, Types, OfGiven, WorkerTypes, PumpTypes, MainTypes, ReaderTypes
<1>2. ASSUME NEW k \in Workers, NEW i \in Ids, WorkerBegins(k, i) PROVE OfGivens'
  <2>1. [id |-> i, ends |-> FALSE, ok |-> TRUE] \in Pieces /\ [id |-> i, ends |-> FALSE, ok |-> TRUE].id = i
    BY PieceFacts
  <2>2. PICK e \in Pieces : e.id = i /\ pipe' = [pipe EXCEPT ![k] = Append(pipe[k], e)]
    BY <2>1, <1>2 DEF WorkerBegins
  <2>3. /\ UNCHANGED <<inbox, given, chunk>> /\ half' = [half EXCEPT ![k] = i] /\ i \in inbox[k]
        /\ pipe[k] \in Seq(Pieces)
    BY <1>0, <1>2 DEF WorkerBegins, readerVars, pumpVars, Types, WorkerTypes
  <2>4. ASSUME NEW j \in Workers PROVE OfGiven(j)'
    <3>1. CASE j # k
      BY <1>0, <1>00, <2>2, <2>3, <3>1 DEF OfGivens, OfGiven, Types, WorkerTypes
    <3>2. CASE j = k
      <4>1. \A n \in 1..Len(pipe'[k]) : pipe'[k][n].id \in given[k]
        <5>1. pipe'[k] = Append(pipe[k], e)
          BY <1>0, <2>2 DEF Types, WorkerTypes
        <5>2. \A n \in 1..Len(Append(pipe[k], e)) :
                 (n \in 1..Len(pipe[k]) /\ Append(pipe[k], e)[n] = pipe[k][n]) \/ Append(pipe[k], e)[n] = e
          BY <2>3, AppendElements
        <5> QED
          BY <1>00, <2>2, <2>3, <5>1, <5>2 DEF OfGivens, OfGiven
      <4>2. half'[k] = i
        BY <1>0, <2>3 DEF Types, WorkerTypes
      <4> QED
        BY <1>00, <2>3, <3>2, <4>1, <4>2 DEF OfGivens, OfGiven
    <3> QED
      BY <3>1, <3>2
  <2> QED
    BY <2>4 DEF OfGivens
<1>3. ASSUME NEW k \in Workers, NEW ok \in BOOLEAN, WorkerEnds(k, ok) PROVE OfGivens'
  <2>0. half[k] \in Ids /\ half[k] \in inbox[k]
    BY <1>0, <1>00, <1>3 DEF WorkerEnds, Types, WorkerTypes, OfGivens, OfGiven
  <2>1. [id |-> half[k], ends |-> TRUE, ok |-> ok] \in Pieces /\ [id |-> half[k], ends |-> TRUE, ok |-> ok].id = half[k]
    BY <2>0, PieceFacts
  <2>2. PICK e \in Pieces : e.id = half[k] /\ pipe' = [pipe EXCEPT ![k] = Append(pipe[k], e)]
    BY <2>1, <1>3 DEF WorkerEnds
  <2>3. /\ UNCHANGED <<given, chunk>> /\ half' = [half EXCEPT ![k] = None]
        /\ inbox' = [inbox EXCEPT ![k] = inbox[k] \ {half[k]}] /\ pipe[k] \in Seq(Pieces)
    BY <1>0, <1>3 DEF WorkerEnds, readerVars, pumpVars, Types, WorkerTypes
  <2>4. ASSUME NEW j \in Workers PROVE OfGiven(j)'
    <3>1. CASE j # k
      BY <1>0, <1>00, <2>2, <2>3, <3>1 DEF OfGivens, OfGiven, Types, WorkerTypes
    <3>2. CASE j = k
      <4>1. \A n \in 1..Len(pipe'[k]) : pipe'[k][n].id \in given[k]
        <5>1. pipe'[k] = Append(pipe[k], e)
          BY <1>0, <2>2 DEF Types, WorkerTypes
        <5>2. \A n \in 1..Len(Append(pipe[k], e)) :
                 (n \in 1..Len(pipe[k]) /\ Append(pipe[k], e)[n] = pipe[k][n]) \/ Append(pipe[k], e)[n] = e
          BY <2>3, AppendElements
        <5> QED
          BY <1>00, <2>0, <2>2, <2>3, <5>1, <5>2 DEF OfGivens, OfGiven
      <4>2. half'[k] = None /\ inbox'[k] \subseteq inbox[k]
        BY <1>0, <2>3 DEF Types, WorkerTypes
      <4> QED
        BY <1>00, <2>3, <3>2, <4>1, <4>2 DEF OfGivens, OfGiven
    <3> QED
      BY <3>1, <3>2
  <2> QED
    BY <2>4 DEF OfGivens
<1>4. ASSUME NEW k \in Workers, PumpReads(k) PROVE OfGivens'
  <2>1. PICK n \in 1..Len(pipe[k]) : /\ chunk' = [chunk EXCEPT ![k] = SubSeq(pipe[k], 1, n)]
                                     /\ pipe' = [pipe EXCEPT ![k] = SubSeq(pipe[k], n + 1, Len(pipe[k]))]
    BY <1>4 DEF PumpReads
  <2>2. UNCHANGED <<inbox, given, half>> /\ pipe[k] \in Seq(Pieces) /\ Len(pipe[k]) \in Nat
    BY <1>0, <1>4, LenProperties DEF PumpReads, readerVars, Types, WorkerTypes
  <2>3. /\ \A m \in 1..Len(SubSeq(pipe[k], 1, n)) : m \in 1..Len(pipe[k]) /\ SubSeq(pipe[k], 1, n)[m] = pipe[k][m]
        /\ \A m \in 1..Len(SubSeq(pipe[k], n + 1, Len(pipe[k]))) :
              n + m \in 1..Len(pipe[k]) /\ SubSeq(pipe[k], n + 1, Len(pipe[k]))[m] = pipe[k][n + m]
    <3>1. \A m \in 1..Len(pipe[k]) : pipe[k][m] \in Pieces
      BY <2>2, ElementOfSeq
    <3>2. \A a, b \in Int : (\A m \in a..b : pipe[k][m] \in Pieces) =>
             /\ Len(SubSeq(pipe[k], a, b)) = IF a <= b THEN b - a + 1 ELSE 0
             /\ \A m \in 1..b - a + 1 : SubSeq(pipe[k], a, b)[m] = pipe[k][a + m - 1]
      BY SubSeqProperties
    <3>3. /\ Len(SubSeq(pipe[k], 1, n)) = n
          /\ \A m \in 1..n : SubSeq(pipe[k], 1, n)[m] = pipe[k][m]
      BY <2>2, <3>1, <3>2
    <3>4. /\ Len(SubSeq(pipe[k], n + 1, Len(pipe[k]))) = Len(pipe[k]) - n
          /\ \A m \in 1..Len(pipe[k]) - n : SubSeq(pipe[k], n + 1, Len(pipe[k]))[m] = pipe[k][n + m]
      <4>1. n + 1 \in Int /\ \A m \in n + 1..Len(pipe[k]) : pipe[k][m] \in Pieces
        BY <2>2, <3>1
      <4>2. /\ Len(SubSeq(pipe[k], n + 1, Len(pipe[k]))) = IF n + 1 <= Len(pipe[k]) THEN Len(pipe[k]) - (n + 1) + 1 ELSE 0
            /\ \A m \in 1..Len(pipe[k]) - (n + 1) + 1 :
                  SubSeq(pipe[k], n + 1, Len(pipe[k]))[m] = pipe[k][n + 1 + m - 1]
        BY <2>2, <3>2, <4>1
      <4> QED
        BY <2>2, <4>2
    <3> QED
      BY <2>2, <3>3, <3>4
  <2>4. /\ \A m \in 1..Len(SubSeq(pipe[k], 1, n)) : SubSeq(pipe[k], 1, n)[m].id \in given[k]
        /\ \A m \in 1..Len(SubSeq(pipe[k], n + 1, Len(pipe[k]))) : SubSeq(pipe[k], n + 1, Len(pipe[k]))[m].id \in given[k]
    BY <1>00, <2>3 DEF OfGivens, OfGiven
  <2> QED
    BY <1>0, <1>00, <2>1, <2>2, <2>4 DEF OfGivens, OfGiven, Types, PumpTypes, WorkerTypes
<1>5. ASSUME NEW k \in Workers, PumpLocks(k) PROVE OfGivens'
  <2>1. UNCHANGED <<inbox, given, half, pipe>>
    BY <1>5 DEF PumpLocks, readerVars, workerVars
  <2>2. CASE chunk' = chunk
    BY <1>00, <2>1, <2>2 DEF OfGivens, OfGiven
  <2>3. CASE chunk' = [chunk EXCEPT ![k] = <<>>]
    <3>1. Len(<<>>) = 0
      OBVIOUS
    <3> QED
      BY <1>0, <1>00, <2>1, <2>3, <3>1 DEF OfGivens, OfGiven, Types, PumpTypes
  <2> QED
    BY <1>5, <2>2, <2>3 DEF PumpLocks
<1>6. ASSUME NEW k \in Workers, PumpWrites(k) PROVE OfGivens'
  <2>1. UNCHANGED <<inbox, given, half, pipe>> /\ chunk[k] \in Seq(Pieces) /\ chunk[k] # <<>>
    BY <1>0, <1>6 DEF PumpWrites, readerVars, workerVars, Types, PumpTypes
  <2>2. CASE chunk' = chunk
    BY <1>00, <2>1, <2>2 DEF OfGivens, OfGiven
  <2>3. CASE chunk' = [chunk EXCEPT ![k] = Tail(chunk[k])]
    <3>1. \A n \in 1..Len(Tail(chunk[k])) : n + 1 \in 1..Len(chunk[k]) /\ Tail(chunk[k])[n] = chunk[k][n + 1]
      BY <2>1, TailElements
    <3> QED
      BY <1>0, <1>00, <2>1, <2>3, <3>1 DEF OfGivens, OfGiven, Types, PumpTypes
  <2> QED
    BY <1>6, <2>2, <2>3 DEF PumpWrites
<1>7. ASSUME NEW k \in Workers, PumpNotes(k) PROVE OfGivens'
  <2>1. UNCHANGED <<inbox, given, half, pipe>> /\ chunk[k] \in Seq(Pieces) /\ chunk[k] # <<>>
    BY <1>0, <1>7 DEF PumpNotes, readerVars, workerVars, Types, PumpTypes
  <2>2. chunk' = [chunk EXCEPT ![k] = Tail(chunk[k])]
    BY <1>7 DEF PumpNotes
  <2>3. \A n \in 1..Len(Tail(chunk[k])) : n + 1 \in 1..Len(chunk[k]) /\ Tail(chunk[k])[n] = chunk[k][n + 1]
    BY <2>1, TailElements
  <2> QED
    BY <1>0, <1>00, <2>1, <2>2, <2>3 DEF OfGivens, OfGiven, Types, PumpTypes
<1>8. ASSUME NEW k \in Workers, PumpSwallows(k) PROVE OfGivens'
  <2>1. UNCHANGED <<inbox, given, half, pipe>> /\ chunk[k] \in Seq(Pieces) /\ chunk[k] # <<>>
    BY <1>0, <1>8 DEF PumpSwallows, readerVars, workerVars, Types, PumpTypes
  <2>2. chunk' = [chunk EXCEPT ![k] = Tail(chunk[k])]
    BY <1>8 DEF PumpSwallows
  <2>3. \A n \in 1..Len(Tail(chunk[k])) : n + 1 \in 1..Len(chunk[k]) /\ Tail(chunk[k])[n] = chunk[k][n + 1]
    BY <2>1, TailElements
  <2> QED
    BY <1>0, <1>00, <2>1, <2>2, <2>3 DEF OfGivens, OfGiven, Types, PumpTypes
<1>9. CASE Snapshot
  <2>1. UNCHANGED <<half, pipe, chunk>> /\ number \in Workers
    BY <1>0, <1>9 DEF Snapshot, Types, MainTypes
  <2>2. CASE UNCHANGED <<given, inbox>>
    BY <1>00, <2>1, <2>2 DEF OfGivens, OfGiven
  <2>3. CASE /\ given' = [given EXCEPT ![number] = given[number] \cup {Hello}]
             /\ inbox' = [inbox EXCEPT ![number] = inbox[number] \cup {Hello}]
    BY <1>0, <1>00, <2>1, <2>3 DEF OfGivens, OfGiven, Types, WorkerTypes
  <2> QED
    BY <1>9, <2>2, <2>3 DEF Snapshot
<1>10. CASE Replay
  BY <1>0, <1>00, SetFacts, <1>10 DEF Replay, ReplayFailed, ReplayedWell, pumpVars, workerVars, OfGivens, Types, OfGiven, WorkerTypes, PumpTypes, MainTypes, ReaderTypes
<1> QED
  BY <1>u, <1>1, <1>2, <1>3, <1>4, <1>5, <1>6, <1>7, <1>8, <1>9, <1>10, Writers DEF Written

\* An answer is of a request that was given.
LEMMA AnsweredStep ==
    ASSUME Inv1, Inv3, [Next]_vars
    PROVE  Answered'
<1>0. Types /\ InHand /\ Lifecycle /\ AbandonedIsSilent
  BY DEF Inv1
<1>00. /\ OfGivens /\ Answered /\ Unsent /\ Held /\ Noted
       /\ HelloKnown /\ InitializedKnown /\ KnowsHello /\ KnowsInitialized
  BY DEF Inv3
<1>1. SUFFICES ASSUME NEW i \in Ids, results'[i] > 0 PROVE \E k \in Workers : i \in given'[k]
  BY DEF Answered, NotGiven
<1>2. CASE results'[i] = results[i]
  BY <1>00, <1>1, <1>2, GivenGrows DEF Answered, NotGiven
<1>3. CASE results'[i] # results[i]
  <2>1. PICK k \in Workers : PumpWrites(k) /\ i = Head(chunk[k]).id
    BY <1>3, ResultsGrow
  <2>2. i \in given[k]
    BY <1>0, <1>00, <2>1, HeadWasGiven DEF PumpWrites
  <2> QED
    BY <2>2, GivenGrows
<1> QED
  BY <1>2, <1>3

\* What was not sent was not given.
LEMMA UnsentStep ==
    ASSUME Inv1, Inv3, [Next]_vars
    PROVE  Unsent'
<1>0. Types /\ InHand /\ Lifecycle /\ AbandonedIsSilent
  BY DEF Inv1
<1>00. /\ OfGivens /\ Answered /\ Unsent /\ Held /\ Noted
       /\ HelloKnown /\ InitializedKnown /\ KnowsHello /\ KnowsInitialized
  BY DEF Inv3
<1>1. SUFFICES ASSUME NEW i \in Ids, NEW k \in Workers, i \in given'[k] PROVE i \in sent'
  BY DEF Unsent, NotGiven
<1>2. sent \subseteq sent'
  BY Writers DEF Written, ClientSends
<1>3. CASE i \in given[k]
  BY <1>00, <1>2, <1>3 DEF Unsent, NotGiven
<1>4. CASE ReaderWrites /\ i = line.of
  BY <1>00, <1>2, <1>4 DEF ReaderWrites, Held
<1>5. CASE i = Hello /\ hello = "answered"
  <2>1. ~NotGiven(Hello)
    BY <1>00, <1>5, SetFacts DEF HelloKnown, Answered
  <2> QED
    BY <1>00, <1>2, <1>5, <2>1, SetFacts DEF Unsent
<1> QED
  BY <1>1, <1>3, <1>4, <1>5, GivenGrows, SetFacts

\* What the reader has was not given.
LEMMA HeldStep ==
    ASSUME Inv1, Inv3, [Next]_vars
    PROVE  Held'
<1>0. Types /\ InHand /\ Lifecycle /\ AbandonedIsSilent
  BY DEF Inv1
<1>00. /\ OfGivens /\ Answered /\ Unsent /\ Held /\ Noted
       /\ HelloKnown /\ InitializedKnown /\ KnowsHello /\ KnowsInitialized
  BY DEF Inv3
<1>u. CASE UNCHANGED <<reader, line, sent, given>>
  BY <1>0, <1>00, SetFacts, <1>u DEF Held, NotGiven
<1>1. CASE ReaderAccepts
  BY <1>0, <1>00, SetFacts, <1>1 DEF ReaderAccepts, clientVars, Held, Types, NotGiven, WorkerTypes, MainTypes, ReaderTypes, Unsent, HelloKnown, Answered, InHand
<1>2. CASE ReaderWrites
  BY <1>0, <1>00, SetFacts, <1>2 DEF ReaderWrites, NoLine, clientVars, Held, Types, NotGiven, WorkerTypes, MainTypes, ReaderTypes, Unsent, HelloKnown, Answered, InHand
<1>3. CASE ReaderGone
  BY <1>0, <1>00, SetFacts, <1>3 DEF ReaderGone, Send, Event, clientVars, Held, Types, NotGiven, WorkerTypes, MainTypes, ReaderTypes, Unsent, HelloKnown, Answered, InHand
<1>4. ASSUME NEW l \in Lines, ClientSends(l) PROVE Held'
  BY <1>0, <1>00, SetFacts, <1>4 DEF ClientSends, NoLine, Held, Types, NotGiven, WorkerTypes, MainTypes, ReaderTypes, Unsent, HelloKnown, Answered, InHand
<1>5. ASSUME NEW r \in Requests, ClientCancels(r) PROVE Held'
  BY <1>0, <1>00, SetFacts, <1>5 DEF ClientCancels, NoLine, Held, Types, NotGiven, WorkerTypes, MainTypes, ReaderTypes, Unsent, HelloKnown, Answered, InHand
<1>6. CASE ClientCloses
  BY <1>0, <1>00, SetFacts, <1>6 DEF ClientCloses, clientVars, Held, Types, NotGiven, WorkerTypes, MainTypes, ReaderTypes, Unsent, HelloKnown, Answered, InHand
<1>7. CASE Snapshot
  <2>1. UNCHANGED <<reader, line, sent>>
    BY <1>7 DEF Snapshot, clientVars
  <2>2. ASSUME reader \in {"waiting", "writing"}, ~line.cancel, line.of \in Ids, NEW k \in Workers, line.of \in given'[k]
        PROVE  FALSE
    <3>1. line.of \notin given[k]
      BY <1>00, <2>2 DEF Held, NotGiven
    <3>2. line.of = Hello /\ hello = "answered"
      BY <2>2, <3>1, GivenGrows, <1>7 DEF Snapshot, Replay, ReaderWrites
    <3>3. ~NotGiven(Hello)
      BY <1>00, <3>2, SetFacts DEF HelloKnown, Answered
    <3> QED
      BY <1>00, <2>2, <3>2, <3>3 DEF Held
  <2> QED
    BY <1>00, <2>1, <2>2 DEF Held, NotGiven
<1>8. CASE Replay
  BY <1>0, <1>00, SetFacts, <1>8 DEF Replay, ReplayFailed, ReplayedWell, clientVars, Held, Types, NotGiven, WorkerTypes, MainTypes, ReaderTypes, Unsent, HelloKnown, Answered, InHand
<1> QED
  BY <1>u, <1>1, <1>2, <1>3, <1>4, <1>5, <1>6, <1>7, <1>8, Writers DEF Written

\* What is being noted is with the client.
LEMMA NotedStep ==
    ASSUME Inv1, Inv3, [Next]_vars
    PROVE  Noted'
<1>0. Types /\ InHand /\ Lifecycle /\ AbandonedIsSilent
  BY DEF Inv1
<1>00. /\ OfGivens /\ Answered /\ Unsent /\ Held /\ Noted
       /\ HelloKnown /\ InitializedKnown /\ KnowsHello /\ KnowsInitialized
  BY DEF Inv3
<1>u. CASE UNCHANGED <<pump, chunk, results>>
  BY <1>0, <1>00, SetFacts, <1>u DEF Noted, Noting
<1>1. ASSUME NEW k \in Workers, PumpReads(k) PROVE Noted'
  BY <1>0, <1>00, SetFacts, <1>1 DEF PumpReads, clientVars, Noted, Types, Noting, PumpTypes, ClientTypes, MainTypes
<1>2. ASSUME NEW k \in Workers, PumpEnds(k) PROVE Noted'
  BY <1>0, <1>00, SetFacts, <1>2 DEF PumpEnds, Send, Event, clientVars, Noted, Types, Noting, PumpTypes, ClientTypes, MainTypes
<1>3. ASSUME NEW k \in Workers, PumpLocks(k) PROVE Noted'
  BY <1>0, <1>00, SetFacts, <1>3 DEF PumpLocks, clientVars, Noted, Types, Noting, PumpTypes, ClientTypes, MainTypes
<1>4. ASSUME NEW k \in Workers, PumpWrites(k) PROVE Noted'
  <2>1. SUFFICES ASSUME NEW i \in Ids, NEW j \in Workers, pump'[j] = "noting", Head(chunk'[j]).id = i
                 PROVE  results'[i] > 0
    BY DEF Noted, Noting
  <2>2. results[i] \in Nat
    BY <1>0 DEF Types, ClientTypes
  <2>3. CASE j # k
    <3>1. pump[j] = pump'[j] /\ chunk[j] = chunk'[j]
      BY <1>0, <2>3, <1>4 DEF PumpWrites, Types, PumpTypes
    <3>2. results[i] > 0
      BY <1>00, <2>1, <3>1 DEF Noted, Noting
    <3> QED
      BY <2>2, <3>2, ResultsGrow
  <2>4. CASE j = k
    <3>1. Head(chunk[k]).ends /\ chunk' = chunk
      BY <1>0, <2>1, <2>4, <1>4 DEF PumpWrites, Types, PumpTypes
    <3>2. results' = [results EXCEPT ![i] = results[i] + 1]
      BY <2>1, <2>4, <3>1, <1>4 DEF PumpWrites, ClientReads
    <3> QED
      BY <1>0, <2>2, <3>2 DEF Types, ClientTypes
  <2> QED
    BY <2>3, <2>4
<1>5. ASSUME NEW k \in Workers, PumpNotes(k) PROVE Noted'
  BY <1>0, <1>00, SetFacts, <1>5 DEF PumpNotes, clientVars, Noted, Types, Noting, PumpTypes, ClientTypes, MainTypes
<1>6. ASSUME NEW k \in Workers, PumpSwallows(k) PROVE Noted'
  BY <1>0, <1>00, SetFacts, <1>6 DEF PumpSwallows, Send, Event, clientVars, Noted, Types, Noting, PumpTypes, ClientTypes, MainTypes
<1>7. ASSUME NEW k \in Workers, PumpUnlocks(k) PROVE Noted'
  BY <1>0, <1>00, SetFacts, <1>7 DEF PumpUnlocks, clientVars, Noted, Types, Noting, PumpTypes, ClientTypes, MainTypes
<1>8. CASE Snapshot
  BY <1>0, <1>00, SetFacts, <1>8 DEF Snapshot, clientVars, Noted, Types, Noting, PumpTypes, ClientTypes, MainTypes
<1> QED
  BY <1>u, <1>1, <1>2, <1>3, <1>4, <1>5, <1>6, <1>7, <1>8, Writers DEF Written

\* The session knows of the initialize.
LEMMA HelloKnownStep ==
    ASSUME Inv1, Inv3, [Next]_vars
    PROVE  HelloKnown'
<1>0. Types /\ InHand /\ Lifecycle /\ AbandonedIsSilent
  BY DEF Inv1
<1>00. /\ OfGivens /\ Answered /\ Unsent /\ Held /\ Noted
       /\ HelloKnown /\ InitializedKnown /\ KnowsHello /\ KnowsInitialized
  BY DEF Inv3
<1>u. CASE UNCHANGED <<hello, results, pump, chunk>>
  BY <1>0, <1>00, SetFacts, <1>u DEF HelloKnown, Noting
<1>1. CASE ReaderAccepts
  <2>1. UNCHANGED <<results, pump, chunk>> /\ reader = "waiting"
    BY <1>1 DEF ReaderAccepts, pumpVars, clientVars
  <2>2. CASE line.of # Hello
    <3>1. hello' = hello
      BY <2>2, <1>1 DEF ReaderAccepts
    <3> QED
      BY <1>00, <2>1, <3>1 DEF HelloKnown, Noting
  <2>3. CASE line.of = Hello
    <3>1. ~line.cancel
      BY <1>0, <2>3, SupervisorAssumption DEF InHand
    <3>2. NotGiven(Hello)
      BY <1>00, <2>1, <2>3, <3>1, SetFacts DEF Held
    <3>3. ~(results[Hello] > 0)
      BY <1>00, <3>2, SetFacts DEF Answered
    <3>4. hello' = "asked"
      BY <2>3, <1>1 DEF ReaderAccepts
    <3> QED
      BY <2>1, <3>3, <3>4 DEF HelloKnown
  <2> QED
    BY <2>2, <2>3
<1>2. ASSUME NEW k \in Workers, PumpReads(k) PROVE HelloKnown'
  BY <1>0, <1>00, SetFacts, <1>2 DEF PumpReads, session, clientVars, HelloKnown, Types, Noting, Noted, PumpTypes, ClientTypes, MainTypes, NotGiven, Held, InHand, Answered, ReaderTypes
<1>3. ASSUME NEW k \in Workers, PumpEnds(k) PROVE HelloKnown'
  BY <1>0, <1>00, SetFacts, <1>3 DEF PumpEnds, Send, Event, session, clientVars, HelloKnown, Types, Noting, Noted, PumpTypes, ClientTypes, MainTypes, NotGiven, Held, InHand, Answered, ReaderTypes
<1>4. ASSUME NEW k \in Workers, PumpLocks(k) PROVE HelloKnown'
  <2>1. UNCHANGED <<hello, results>> /\ pump[k] = "chunk"
    BY <1>4 DEF PumpLocks, session, clientVars
  <2>2. \A j \in Workers : j # k => pump'[j] = pump[j] /\ chunk'[j] = chunk[j]
    BY <1>0, <1>4 DEF PumpLocks, Types, PumpTypes
  <2>3. Noting(Hello) => Noting(Hello)'
    BY <2>1, <2>2 DEF Noting
  <2> QED
    BY <1>00, <2>1, <2>3 DEF HelloKnown
<1>5. ASSUME NEW k \in Workers, PumpWrites(k) PROVE HelloKnown'
  <2>0. results[Hello] \in Nat /\ hello' = hello
    BY <1>0, <1>5, SetFacts DEF PumpWrites, session, Types, ClientTypes
  <2>1. CASE results'[Hello] = results[Hello]
    <3>1. \A j \in Workers : pump[j] = "noting" => j # k
      BY <1>5 DEF PumpWrites
    <3>2. Noting(Hello) => Noting(Hello)'
      BY <1>0, <3>1, <1>5 DEF PumpWrites, Noting, Types, PumpTypes
    <3> QED
      BY <1>00, <2>0, <2>1, <3>2 DEF HelloKnown
  <2>2. CASE results'[Hello] # results[Hello]
    <3>1. results'[Hello] > 0
      BY <2>0, <2>2, ResultsGrow, SetFacts
    <3>2. Head(chunk[k]).ends /\ Head(chunk[k]).id = Hello
      BY <1>0, <2>2, <1>5, SetFacts DEF PumpWrites, ClientReads, Types, ClientTypes
    <3>3. pump'[k] = "noting" /\ chunk' = chunk
      BY <1>0, <3>2, <1>5 DEF PumpWrites, Types, PumpTypes
    <3>4. Noting(Hello)'
      BY <3>2, <3>3 DEF Noting
    <3> QED
      BY <3>1, <3>4 DEF HelloKnown
  <2> QED
    BY <2>1, <2>2
<1>6. ASSUME NEW k \in Workers, PumpNotes(k) PROVE HelloKnown'
  BY <1>0, <1>00, SetFacts, <1>6 DEF PumpNotes, clientVars, HelloKnown, Types, Noting, Noted, PumpTypes, ClientTypes, MainTypes, NotGiven, Held, InHand, Answered, ReaderTypes
<1>7. ASSUME NEW k \in Workers, PumpSwallows(k) PROVE HelloKnown'
  BY <1>0, <1>00, SetFacts, <1>7 DEF PumpSwallows, Send, Event, session, clientVars, HelloKnown, Types, Noting, Noted, PumpTypes, ClientTypes, MainTypes, NotGiven, Held, InHand, Answered, ReaderTypes
<1>8. ASSUME NEW k \in Workers, PumpUnlocks(k) PROVE HelloKnown'
  BY <1>0, <1>00, SetFacts, <1>8 DEF PumpUnlocks, session, clientVars, HelloKnown, Types, Noting, Noted, PumpTypes, ClientTypes, MainTypes, NotGiven, Held, InHand, Answered, ReaderTypes
<1>9. CASE Snapshot
  <2>1. UNCHANGED <<results, chunk, hello>>
    BY <1>9 DEF Snapshot, session, clientVars
  <2>2. number \in Workers /\ pump[number] = "none" /\ pump' = [pump EXCEPT ![number] = "reading"]
    BY <1>0, <1>9 DEF Snapshot, Types, MainTypes, Lifecycle, ToCome, Fresh
  <2>3. Noting(Hello) => Noting(Hello)'
    BY <1>0, <2>1, <2>2 DEF Noting, Types, PumpTypes
  <2> QED
    BY <1>00, <2>1, <2>3 DEF HelloKnown
<1> QED
  BY <1>u, <1>1, <1>2, <1>3, <1>4, <1>5, <1>6, <1>7, <1>8, <1>9, Writers DEF Written

\* The client goes on once it has its response.
LEMMA InitializedKnownStep ==
    ASSUME Inv1, Inv3, [Next]_vars
    PROVE  InitializedKnown'
<1>0. Types /\ InHand /\ Lifecycle /\ AbandonedIsSilent
  BY DEF Inv1
<1>00. /\ OfGivens /\ Answered /\ Unsent /\ Held /\ Noted
       /\ HelloKnown /\ InitializedKnown /\ KnowsHello /\ KnowsInitialized
  BY DEF Inv3
<1>u. CASE UNCHANGED <<initialized, sent, results>>
  BY <1>0, <1>00, SetFacts, <1>u DEF InitializedKnown
<1>1. CASE ReaderAccepts
  BY <1>0, <1>00, SetFacts, <1>1 DEF ReaderAccepts, clientVars, InitializedKnown, Types, PumpTypes, ClientTypes, MainTypes, Held
<1>2. ASSUME NEW l \in Lines, ClientSends(l) PROVE InitializedKnown'
  BY <1>0, <1>00, SetFacts, <1>2 DEF ClientSends, NoLine, session, InitializedKnown, Types, PumpTypes, ClientTypes, MainTypes, Held
<1>3. ASSUME NEW k \in Workers, PumpWrites(k) PROVE InitializedKnown'
  <2>1. UNCHANGED <<initialized, sent>> /\ results[Hello] \in Nat
    BY <1>0, <1>3, SetFacts DEF PumpWrites, session, Types, ClientTypes
  <2>2. results[Hello] > 0 => results'[Hello] > 0
    BY <2>1, ResultsGrow, SetFacts
  <2> QED
    BY <1>00, <2>1, <2>2 DEF InitializedKnown
<1> QED
  BY <1>u, <1>1, <1>2, <1>3, Writers DEF Written

\* The current worker was given the initialize.
LEMMA KnowsHelloStep ==
    ASSUME Inv1, Inv3, [Next]_vars
    PROVE  KnowsHello'
<1>0. Types /\ InHand /\ Lifecycle /\ AbandonedIsSilent
  BY DEF Inv1
<1>00. /\ OfGivens /\ Answered /\ Unsent /\ Held /\ Noted
       /\ HelloKnown /\ InitializedKnown /\ KnowsHello /\ KnowsInitialized
  BY DEF Inv3
<1>u. CASE UNCHANGED <<main, number, hello, alive, given>>
  BY <1>0, <1>00, SetFacts, <1>u DEF KnowsHello
<1>1. CASE ReaderAccepts
  BY <1>0, <1>00, SetFacts, <1>1 DEF ReaderAccepts, mainVars, workerVars, KnowsHello, Types, WorkerTypes, PumpTypes, MainTypes, ReaderTypes, Lifecycle, ToCome, GivenUp, Former, AbandonedIsSilent, OfGivens, OfGiven
<1>2. CASE ReaderWrites
  <2>1. UNCHANGED <<main, number, hello, alive>>
    BY <1>2 DEF ReaderWrites, session, mainVars
  <2> QED
    BY <1>00, <2>1, GivenGrows DEF KnowsHello
<1>3. ASSUME NEW k \in Workers, NEW open \in BOOLEAN, WorkerDies(k, open) PROVE KnowsHello'
  BY <1>0, <1>00, SetFacts, <1>3 DEF WorkerDies, session, readerVars, mainVars, KnowsHello, Types, WorkerTypes, PumpTypes, MainTypes, ReaderTypes, Lifecycle, ToCome, GivenUp, Former, AbandonedIsSilent, OfGivens, OfGiven
<1>4. ASSUME NEW k \in Workers, PumpNotes(k) PROVE KnowsHello'
  <2>1. UNCHANGED <<main, number, alive, given>>
    BY <1>4 DEF PumpNotes, readerVars, mainVars, workerVars
  <2>2. CASE Head(chunk[k]).id # Hello
    <3>1. hello' = hello
      BY <2>2, <1>4 DEF PumpNotes
    <3> QED
      BY <1>00, <2>1, <3>1 DEF KnowsHello
  <2>3. CASE Head(chunk[k]).id = Hello
    <3>1. k = number /\ chunk[k] # <<>>
      BY <1>0, <1>4 DEF PumpNotes, AbandonedIsSilent, Types, PumpTypes
    <3>2. Hello \in given[k]
      BY <1>0, <1>00, <2>3, <3>1, HeadWasGiven
    <3> QED
      BY <2>1, <3>1, <3>2 DEF KnowsHello
  <2> QED
    BY <2>2, <2>3
<1>5. CASE NoNewWorker
  BY <1>0, <1>00, SetFacts, <1>5 DEF NoNewWorker, Idle, session, readerVars, workerVars, KnowsHello, Types, WorkerTypes, PumpTypes, MainTypes, ReaderTypes, Lifecycle, ToCome, GivenUp, Former, AbandonedIsSilent, OfGivens, OfGiven
<1>6. CASE SpawnFails
  BY <1>0, <1>00, SetFacts, <1>6 DEF SpawnFails, Idle, session, readerVars, workerVars, KnowsHello, Types, WorkerTypes, PumpTypes, MainTypes, ReaderTypes, Lifecycle, ToCome, GivenUp, Former, AbandonedIsSilent, OfGivens, OfGiven
<1>7. CASE Spawn
  BY <1>0, <1>00, SetFacts, <1>7 DEF Spawn, Waits, session, readerVars, KnowsHello, Types, WorkerTypes, PumpTypes, MainTypes, ReaderTypes, Lifecycle, ToCome, GivenUp, Former, AbandonedIsSilent, OfGivens, OfGiven
<1>8. CASE Snapshot
  BY <1>0, <1>00, SetFacts, <1>8 DEF Snapshot, session, KnowsHello, Types, WorkerTypes, PumpTypes, MainTypes, ReaderTypes, Lifecycle, ToCome, GivenUp, Former, AbandonedIsSilent, OfGivens, OfGiven
<1>9. CASE Replay
  BY <1>0, <1>00, SetFacts, <1>9 DEF Replay, ReplayFailed, ReplayedWell, session, workerVars, KnowsHello, Types, WorkerTypes, PumpTypes, MainTypes, ReaderTypes, Lifecycle, ToCome, GivenUp, Former, AbandonedIsSilent, OfGivens, OfGiven
<1>10. CASE ReplayFails
  BY <1>0, <1>00, SetFacts, <1>10 DEF ReplayFails, ReplayFailed, Ends, session, readerVars, KnowsHello, Types, WorkerTypes, PumpTypes, MainTypes, ReaderTypes, Lifecycle, ToCome, GivenUp, Former, AbandonedIsSilent, OfGivens, OfGiven
<1>11. CASE Open
  BY <1>0, <1>00, SetFacts, <1>11 DEF Open, readerVars, workerVars, KnowsHello, Types, WorkerTypes, PumpTypes, MainTypes, ReaderTypes, Lifecycle, ToCome, GivenUp, Former, AbandonedIsSilent, OfGivens, OfGiven
<1>12. CASE Serve
  BY <1>0, <1>00, SetFacts, <1>12 DEF Serve, Waits, session, readerVars, workerVars, KnowsHello, Types, WorkerTypes, PumpTypes, MainTypes, ReaderTypes, Lifecycle, ToCome, GivenUp, Former, AbandonedIsSilent, OfGivens, OfGiven
<1>13. CASE ServeOutputEnded
  BY <1>0, <1>00, SetFacts, <1>13 DEF ServeOutputEnded, Ends, Waits, session, readerVars, KnowsHello, Types, WorkerTypes, PumpTypes, MainTypes, ReaderTypes, Lifecycle, ToCome, GivenUp, Former, AbandonedIsSilent, OfGivens, OfGiven
<1>14. CASE Died
  BY <1>0, <1>00, SetFacts, <1>14 DEF Died, readerVars, workerVars, KnowsHello, Types, WorkerTypes, PumpTypes, MainTypes, ReaderTypes, Lifecycle, ToCome, GivenUp, Former, AbandonedIsSilent, OfGivens, OfGiven
<1>15. CASE Drain
  BY <1>0, <1>00, SetFacts, <1>15 DEF Drain, Waits, session, readerVars, workerVars, KnowsHello, Types, WorkerTypes, PumpTypes, MainTypes, ReaderTypes, Lifecycle, ToCome, GivenUp, Former, AbandonedIsSilent, OfGivens, OfGiven
<1>16. CASE DrainTimesOut
  BY <1>0, <1>00, SetFacts, <1>16 DEF DrainTimesOut, Idle, session, readerVars, workerVars, KnowsHello, Types, WorkerTypes, PumpTypes, MainTypes, ReaderTypes, Lifecycle, ToCome, GivenUp, Former, AbandonedIsSilent, OfGivens, OfGiven
<1>17. CASE Abandon
  BY <1>0, <1>00, SetFacts, <1>17 DEF Abandon, session, readerVars, workerVars, KnowsHello, Types, WorkerTypes, PumpTypes, MainTypes, ReaderTypes, Lifecycle, ToCome, GivenUp, Former, AbandonedIsSilent, OfGivens, OfGiven
<1>18. CASE TakePending
  BY <1>0, <1>00, SetFacts, <1>18 DEF TakePending, readerVars, workerVars, KnowsHello, Types, WorkerTypes, PumpTypes, MainTypes, ReaderTypes, Lifecycle, ToCome, GivenUp, Former, AbandonedIsSilent, OfGivens, OfGiven
<1>19. CASE AnswerPending
  BY <1>0, <1>00, SetFacts, <1>19 DEF AnswerPending, EndTheLine, session, readerVars, workerVars, KnowsHello, Types, WorkerTypes, PumpTypes, MainTypes, ReaderTypes, Lifecycle, ToCome, GivenUp, Former, AbandonedIsSilent, OfGivens, OfGiven
<1>20. CASE EndLineAndStop
  BY <1>0, <1>00, SetFacts, <1>20 DEF EndLineAndStop, EndTheLine, session, readerVars, workerVars, KnowsHello, Types, WorkerTypes, PumpTypes, MainTypes, ReaderTypes, Lifecycle, ToCome, GivenUp, Former, AbandonedIsSilent, OfGivens, OfGiven
<1>21. CASE ShutDown
  BY <1>0, <1>00, SetFacts, <1>21 DEF ShutDown, Ends, Waits, session, readerVars, KnowsHello, Types, WorkerTypes, PumpTypes, MainTypes, ReaderTypes, Lifecycle, ToCome, GivenUp, Former, AbandonedIsSilent, OfGivens, OfGiven
<1>22. CASE LastWords
  BY <1>0, <1>00, SetFacts, <1>22 DEF LastWords, Waits, session, readerVars, workerVars, KnowsHello, Types, WorkerTypes, PumpTypes, MainTypes, ReaderTypes, Lifecycle, ToCome, GivenUp, Former, AbandonedIsSilent, OfGivens, OfGiven
<1>23. CASE LastWordsTimeOut
  BY <1>0, <1>00, SetFacts, <1>23 DEF LastWordsTimeOut, Idle, session, readerVars, workerVars, KnowsHello, Types, WorkerTypes, PumpTypes, MainTypes, ReaderTypes, Lifecycle, ToCome, GivenUp, Former, AbandonedIsSilent, OfGivens, OfGiven
<1> QED
  BY <1>u, <1>1, <1>2, <1>3, <1>4, <1>5, <1>6, <1>7, <1>8, <1>9, <1>10, <1>11, <1>12, <1>13, <1>14, <1>15, <1>16, <1>17, <1>18, <1>19, <1>20, <1>21, <1>22, <1>23, Writers DEF Written, Main

\* And the notification.
LEMMA KnowsInitializedStep ==
    ASSUME Inv1, Inv3, [Next]_vars
    PROVE  KnowsInitialized'
<1>0. Types /\ InHand /\ Lifecycle /\ AbandonedIsSilent
  BY DEF Inv1
<1>00. /\ OfGivens /\ Answered /\ Unsent /\ Held /\ Noted
       /\ HelloKnown /\ InitializedKnown /\ KnowsHello /\ KnowsInitialized
  BY DEF Inv3
<1>u. CASE UNCHANGED <<worker, main, number, alive, initialized, given, reader, line>>
  BY <1>0, <1>00, SetFacts, <1>u DEF KnowsInitialized
<1>1. CASE ReaderAccepts
  BY <1>0, <1>00, SetFacts, <1>1 DEF ReaderAccepts, mainVars, workerVars, KnowsInitialized, Types, WorkerTypes, MainTypes, ReaderTypes, SessionTypes, Lifecycle, Served, ToCome, GivenUp, InHand
<1>2. CASE ReaderWrites
  <2>1. UNCHANGED <<worker, main, number, alive, initialized>>
    BY <1>2 DEF ReaderWrites, session, mainVars
  <2>2. CASE line.of = Initialized /\ line.to = number /\ alive[number]
    <3>1. ~line.cancel /\ line.to \in Workers
      BY <1>0, <2>2, <1>2, SetFacts DEF InHand, ReaderWrites, Types, ReaderTypes
    <3>2. given' = [given EXCEPT ![line.to] = given[line.to] \cup {line.of}]
      BY <2>2, <3>1, <1>2 DEF ReaderWrites
    <3>3. Initialized \in given'[number]
      BY <1>0, <2>2, <3>1, <3>2 DEF Types, WorkerTypes
    <3> QED
      BY <2>1, <3>3 DEF KnowsInitialized
  <2>3. CASE ~(line.of = Initialized /\ line.to = number /\ alive[number])
    <3>1. (worker # None \/ main = "open") => number \in Workers
      BY <1>0 DEF Types, SessionTypes, Numbers, Lifecycle, Served, MainTypes
    <3> QED
      BY <1>00, <2>1, <2>3, <3>1, GivenGrows DEF KnowsInitialized
  <2> QED
    BY <2>2, <2>3
<1>3. CASE ReaderGone
  BY <1>0, <1>00, SetFacts, <1>3 DEF ReaderGone, Send, Event, session, mainVars, workerVars, KnowsInitialized, Types, WorkerTypes, MainTypes, ReaderTypes, SessionTypes, Lifecycle, Served, ToCome, GivenUp, InHand
<1>4. ASSUME NEW l \in Lines, ClientSends(l) PROVE KnowsInitialized'
  BY <1>0, <1>00, SetFacts, <1>4 DEF ClientSends, NoLine, session, mainVars, workerVars, KnowsInitialized, Types, WorkerTypes, MainTypes, ReaderTypes, SessionTypes, Lifecycle, Served, ToCome, GivenUp, InHand
<1>5. ASSUME NEW r \in Requests, ClientCancels(r) PROVE KnowsInitialized'
  BY <1>0, <1>00, SetFacts, <1>5 DEF ClientCancels, NoLine, session, mainVars, workerVars, KnowsInitialized, Types, WorkerTypes, MainTypes, ReaderTypes, SessionTypes, Lifecycle, Served, ToCome, GivenUp, InHand
<1>6. CASE ClientCloses
  BY <1>0, <1>00, SetFacts, <1>6 DEF ClientCloses, mainVars, workerVars, KnowsInitialized, Types, WorkerTypes, MainTypes, ReaderTypes, SessionTypes, Lifecycle, Served, ToCome, GivenUp, InHand
<1>7. ASSUME NEW k \in Workers, NEW open \in BOOLEAN, WorkerDies(k, open) PROVE KnowsInitialized'
  BY <1>0, <1>00, SetFacts, <1>7 DEF WorkerDies, session, readerVars, mainVars, KnowsInitialized, Types, WorkerTypes, MainTypes, ReaderTypes, SessionTypes, Lifecycle, Served, ToCome, GivenUp, InHand
<1>8. CASE NoNewWorker
  BY <1>0, <1>00, SetFacts, <1>8 DEF NoNewWorker, Idle, session, readerVars, workerVars, KnowsInitialized, Types, WorkerTypes, MainTypes, ReaderTypes, SessionTypes, Lifecycle, Served, ToCome, GivenUp, InHand
<1>9. CASE SpawnFails
  BY <1>0, <1>00, SetFacts, <1>9 DEF SpawnFails, Idle, session, readerVars, workerVars, KnowsInitialized, Types, WorkerTypes, MainTypes, ReaderTypes, SessionTypes, Lifecycle, Served, ToCome, GivenUp, InHand
<1>10. CASE Spawn
  BY <1>0, <1>00, SetFacts, <1>10 DEF Spawn, Waits, session, readerVars, KnowsInitialized, Types, WorkerTypes, MainTypes, ReaderTypes, SessionTypes, Lifecycle, Served, ToCome, GivenUp, InHand
<1>11. CASE Snapshot
  <2>1. main = "snapshot" /\ UNCHANGED <<worker, number, alive, initialized, reader, line>>
    BY <1>11 DEF Snapshot, session
  <2>2. worker = None
    BY <1>0, <2>1 DEF Lifecycle, Served
  <2>3. CASE hello = "answered"
    <3>1. main' = "replaying"
      BY <2>3, <1>11 DEF Snapshot
    <3> QED
      BY <2>1, <2>2, <3>1 DEF KnowsInitialized
  <2>4. CASE hello # "answered"
    <3>1. ~Noting(Hello)
      BY <1>0, <2>1 DEF Noting, AbandonedIsSilent, Lifecycle, ToCome, Fresh
    <3>2. ~initialized
      BY <1>00, <2>4, <3>1 DEF HelloKnown, InitializedKnown
    <3> QED
      BY <2>1, <3>2 DEF KnowsInitialized
  <2> QED
    BY <2>3, <2>4
<1>12. CASE Replay
  BY <1>0, <1>00, SetFacts, <1>12 DEF Replay, ReplayFailed, ReplayedWell, session, workerVars, KnowsInitialized, Types, WorkerTypes, MainTypes, ReaderTypes, SessionTypes, Lifecycle, Served, ToCome, GivenUp, InHand
<1>13. CASE ReplayFails
  BY <1>0, <1>00, SetFacts, <1>13 DEF ReplayFails, ReplayFailed, Ends, session, readerVars, KnowsInitialized, Types, WorkerTypes, MainTypes, ReaderTypes, SessionTypes, Lifecycle, Served, ToCome, GivenUp, InHand
<1>14. CASE Open
  BY <1>0, <1>00, SetFacts, <1>14 DEF Open, readerVars, workerVars, KnowsInitialized, Types, WorkerTypes, MainTypes, ReaderTypes, SessionTypes, Lifecycle, Served, ToCome, GivenUp, InHand
<1>15. CASE Serve
  BY <1>0, <1>00, SetFacts, <1>15 DEF Serve, Waits, session, readerVars, workerVars, KnowsInitialized, Types, WorkerTypes, MainTypes, ReaderTypes, SessionTypes, Lifecycle, Served, ToCome, GivenUp, InHand
<1>16. CASE ServeOutputEnded
  BY <1>0, <1>00, SetFacts, <1>16 DEF ServeOutputEnded, Ends, Waits, session, readerVars, KnowsInitialized, Types, WorkerTypes, MainTypes, ReaderTypes, SessionTypes, Lifecycle, Served, ToCome, GivenUp, InHand
<1>17. CASE Died
  BY <1>0, <1>00, SetFacts, <1>17 DEF Died, readerVars, workerVars, KnowsInitialized, Types, WorkerTypes, MainTypes, ReaderTypes, SessionTypes, Lifecycle, Served, ToCome, GivenUp, InHand
<1>18. CASE Drain
  BY <1>0, <1>00, SetFacts, <1>18 DEF Drain, Waits, session, readerVars, workerVars, KnowsInitialized, Types, WorkerTypes, MainTypes, ReaderTypes, SessionTypes, Lifecycle, Served, ToCome, GivenUp, InHand
<1>19. CASE DrainTimesOut
  BY <1>0, <1>00, SetFacts, <1>19 DEF DrainTimesOut, Idle, session, readerVars, workerVars, KnowsInitialized, Types, WorkerTypes, MainTypes, ReaderTypes, SessionTypes, Lifecycle, Served, ToCome, GivenUp, InHand
<1>20. CASE Abandon
  BY <1>0, <1>00, SetFacts, <1>20 DEF Abandon, session, readerVars, workerVars, KnowsInitialized, Types, WorkerTypes, MainTypes, ReaderTypes, SessionTypes, Lifecycle, Served, ToCome, GivenUp, InHand
<1>21. CASE TakePending
  BY <1>0, <1>00, SetFacts, <1>21 DEF TakePending, readerVars, workerVars, KnowsInitialized, Types, WorkerTypes, MainTypes, ReaderTypes, SessionTypes, Lifecycle, Served, ToCome, GivenUp, InHand
<1>22. CASE AnswerPending
  BY <1>0, <1>00, SetFacts, <1>22 DEF AnswerPending, EndTheLine, session, readerVars, workerVars, KnowsInitialized, Types, WorkerTypes, MainTypes, ReaderTypes, SessionTypes, Lifecycle, Served, ToCome, GivenUp, InHand
<1>23. CASE EndLineAndStop
  BY <1>0, <1>00, SetFacts, <1>23 DEF EndLineAndStop, EndTheLine, session, readerVars, workerVars, KnowsInitialized, Types, WorkerTypes, MainTypes, ReaderTypes, SessionTypes, Lifecycle, Served, ToCome, GivenUp, InHand
<1>24. CASE ShutDown
  BY <1>0, <1>00, SetFacts, <1>24 DEF ShutDown, Ends, Waits, session, readerVars, KnowsInitialized, Types, WorkerTypes, MainTypes, ReaderTypes, SessionTypes, Lifecycle, Served, ToCome, GivenUp, InHand
<1>25. CASE LastWords
  BY <1>0, <1>00, SetFacts, <1>25 DEF LastWords, Waits, session, readerVars, workerVars, KnowsInitialized, Types, WorkerTypes, MainTypes, ReaderTypes, SessionTypes, Lifecycle, Served, ToCome, GivenUp, InHand
<1>26. CASE LastWordsTimeOut
  BY <1>0, <1>00, SetFacts, <1>26 DEF LastWordsTimeOut, Idle, session, readerVars, workerVars, KnowsInitialized, Types, WorkerTypes, MainTypes, ReaderTypes, SessionTypes, Lifecycle, Served, ToCome, GivenUp, InHand
<1> QED
  BY <1>u, <1>1, <1>2, <1>3, <1>4, <1>5, <1>6, <1>7, <1>8, <1>9, <1>10, <1>11, <1>12, <1>13, <1>14, <1>15, <1>16, <1>17, <1>18, <1>19, <1>20, <1>21, <1>22, <1>23, <1>24, <1>25, <1>26, Writers DEF Written, Main

\* The third invariant is inductive.
LEMMA Inv3Step ==
    ASSUME Inv1, Inv3, [Next]_vars PROVE Inv3'
  BY OfGivensStep, AnsweredStep, UnsentStep, HeldStep, NotedStep, HelloKnownStep, InitializedKnownStep,
     KnowsHelloStep, KnowsInitializedStep DEF Inv3

\* It holds at first.
LEMMA Inv3Init ==
    ASSUME Init PROVE Inv3
<1>1. OfGivens
  BY EmptySeq DEF Init, OfGivens, OfGiven
<1> QED
  BY <1>1, SetFacts DEF Init, Inv3, Answered, Unsent, NotGiven, Held, Noted, Noting, HelloKnown, InitializedKnown,
     KnowsHello, KnowsInitialized

\* WorkerKnowsTheClient, for any number of requests and workers: a live worker
\* that gets requests was given the initialize and the notification of the
\* client (one_worker, replay).
THEOREM KnowsTheClient == Spec => []WorkerKnowsTheClient
<1>1. Init => Inv1 /\ Inv3
  BY Inv1Init, Inv3Init
<1>2. Inv1 /\ Inv3 /\ [Next]_vars => Inv1' /\ Inv3'
  BY Inv1Step, Inv3Step
<1>3. Inv1 /\ Inv3 => WorkerKnowsTheClient
  BY SetFacts DEF Inv1, Inv3, Types, SessionTypes, Numbers, Lifecycle, Served, KnowsHello, KnowsInitialized,
     WorkerKnowsTheClient
<1> QED
  BY <1>1, <1>2, <1>3, PTL DEF Spec
-----------------------------------------------------------------------------
\* Nothing becomes pending while there is no worker.
LEMMA NonePendingStep ==
    ASSUME Inv1, Inv3, Inv4, [Next]_vars
    PROVE  NonePending'
<1>0. Types /\ InHand /\ Lifecycle /\ AbandonedIsSilent
  BY DEF Inv1
<1>00. NonePending /\ Tracked /\ Noted
  BY DEF Inv3, Inv4
<1>u. CASE UNCHANGED <<main, pending>>
  BY <1>0, <1>00, <1>u DEF NonePending
<1>1. CASE ReaderAccepts
  BY <1>0, <1>00, <1>1 DEF ReaderAccepts, mainVars, NonePending, Lifecycle, Served
<1>2. ASSUME NEW k \in Workers, PumpNotes(k) PROVE NonePending'
  BY <1>0, <1>00, <1>2 DEF PumpNotes, mainVars, NonePending, Lifecycle, Served
<1>3. CASE NoNewWorker
  BY <1>0, <1>00, <1>3 DEF NoNewWorker, Idle, session, NonePending, Lifecycle, Served
<1>4. CASE SpawnFails
  BY <1>0, <1>00, <1>4 DEF SpawnFails, Idle, session, NonePending, Lifecycle, Served
<1>5. CASE Spawn
  BY <1>0, <1>00, <1>5 DEF Spawn, Waits, session, NonePending, Lifecycle, Served
<1>6. CASE Snapshot
  BY <1>0, <1>00, <1>6 DEF Snapshot, session, NonePending, Lifecycle, Served
<1>7. CASE Replay
  BY <1>0, <1>00, <1>7 DEF Replay, ReplayFailed, ReplayedWell, session, NonePending, Lifecycle, Served
<1>8. CASE ReplayFails
  BY <1>0, <1>00, <1>8 DEF ReplayFails, ReplayFailed, Ends, session, NonePending, Lifecycle, Served
<1>9. CASE Open
  BY <1>0, <1>00, <1>9 DEF Open, NonePending, Lifecycle, Served
<1>10. CASE Serve
  BY <1>0, <1>00, <1>10 DEF Serve, Waits, session, NonePending, Lifecycle, Served
<1>11. CASE ServeOutputEnded
  BY <1>0, <1>00, <1>11 DEF ServeOutputEnded, Ends, Waits, session, NonePending, Lifecycle, Served
<1>12. CASE Died
  BY <1>0, <1>00, <1>12 DEF Died, NonePending, Lifecycle, Served
<1>13. CASE Drain
  BY <1>0, <1>00, <1>13 DEF Drain, Waits, session, NonePending, Lifecycle, Served
<1>14. CASE DrainTimesOut
  BY <1>0, <1>00, <1>14 DEF DrainTimesOut, Idle, session, NonePending, Lifecycle, Served
<1>15. CASE Abandon
  BY <1>0, <1>00, <1>15 DEF Abandon, session, NonePending, Lifecycle, Served
<1>16. CASE TakePending
  BY <1>0, <1>00, <1>16 DEF TakePending, NonePending, Lifecycle, Served
<1>17. CASE AnswerPending
  BY <1>0, <1>00, <1>17 DEF AnswerPending, EndTheLine, session, NonePending, Lifecycle, Served
<1>18. CASE EndLineAndStop
  BY <1>0, <1>00, <1>18 DEF EndLineAndStop, EndTheLine, session, NonePending, Lifecycle, Served
<1>19. CASE ShutDown
  BY <1>0, <1>00, <1>19 DEF ShutDown, Ends, Waits, session, NonePending, Lifecycle, Served
<1>20. CASE LastWords
  BY <1>0, <1>00, <1>20 DEF LastWords, Waits, session, NonePending, Lifecycle, Served
<1>21. CASE LastWordsTimeOut
  BY <1>0, <1>00, <1>21 DEF LastWordsTimeOut, Idle, session, NonePending, Lifecycle, Served
<1> QED
  BY <1>u, <1>1, <1>2, <1>3, <1>4, <1>5, <1>6, <1>7, <1>8, <1>9, <1>10, <1>11, <1>12, <1>13, <1>14, <1>15, <1>16, <1>17, <1>18, <1>19, <1>20, <1>21, Writers DEF Written, Main

\* No request is lost sight of.
LEMMA TrackedStep ==
    ASSUME Inv1, Inv3, Inv4, [Next]_vars
    PROVE  Tracked'
<1>0. Types /\ InHand /\ Lifecycle /\ AbandonedIsSilent
  BY DEF Inv1
<1>00. NonePending /\ Tracked /\ Noted
  BY DEF Inv3, Inv4
<1>u. CASE UNCHANGED <<sent, results, errors, cancelled, pending, taken, reader, line>>
  BY <1>0, <1>00, SetFacts, <1>u DEF Tracked, Answers
<1>1. CASE ReaderAccepts
  BY <1>0, <1>00, SetFacts, <1>1 DEF ReaderAccepts, mainVars, clientVars, Tracked, Answers, Lifecycle, Taken, InHand
<1>2. CASE ReaderWrites
  BY <1>0, <1>00, SetFacts, <1>2 DEF ReaderWrites, NoLine, session, mainVars, clientVars, Tracked, Answers, Lifecycle, Taken, InHand
<1>3. CASE ReaderGone
  BY <1>0, <1>00, SetFacts, <1>3 DEF ReaderGone, Send, Event, session, mainVars, clientVars, Tracked, Answers, Lifecycle, Taken, InHand
<1>4. ASSUME NEW l \in Lines, ClientSends(l) PROVE Tracked'
  BY <1>0, <1>00, SetFacts, <1>4 DEF ClientSends, NoLine, session, mainVars, Tracked, Answers, Lifecycle, Taken, InHand
<1>5. ASSUME NEW r \in Requests, ClientCancels(r) PROVE Tracked'
  BY <1>0, <1>00, SetFacts, <1>5 DEF ClientCancels, NoLine, session, mainVars, Tracked, Answers, Lifecycle, Taken, InHand
<1>6. CASE ClientCloses
  BY <1>0, <1>00, SetFacts, <1>6 DEF ClientCloses, mainVars, clientVars, Tracked, Answers, Lifecycle, Taken, InHand
<1>7. ASSUME NEW k \in Workers, PumpWrites(k) PROVE Tracked'
  <2>1. UNCHANGED <<sent, cancelled, pending, taken, reader, line, errors>>
    BY <1>7 DEF PumpWrites, session, readerVars, mainVars
  <2>2. \A i \in Ids : results[i] \in Nat /\ errors[i] \in Nat
    BY <1>0 DEF Types, ClientTypes
  <2>3. \A i \in Ids : Answers(i) > 0 => Answers(i)' > 0
    BY <2>1, <2>2, ResultsGrow DEF Answers
  <2> QED
    BY <1>00, <2>1, <2>3 DEF Tracked
<1>8. ASSUME NEW k \in Workers, PumpNotes(k) PROVE Tracked'
  <2>1. UNCHANGED <<sent, cancelled, taken, reader, line, errors, results>>
    BY <1>8 DEF PumpNotes, readerVars, mainVars, clientVars
  <2>2. PICK m : m = Head(chunk[k]).id /\ pending' = pending \ {m}
    BY <1>8 DEF PumpNotes
  <2>3. m \in Ids => results[m] > 0
    BY <1>00, <2>2, <1>8 DEF Noted, Noting, PumpNotes
  <2>4. m \in Ids => Answers(m) > 0
    BY <1>0, <2>3 DEF Answers, Types, ClientTypes
  <2> QED
    BY <1>00, <2>1, <2>2, <2>4 DEF Tracked, Answers
<1>9. CASE TakePending
  BY <1>0, <1>00, SetFacts, <1>9 DEF TakePending, readerVars, clientVars, Tracked, Answers, Lifecycle, Taken, InHand
<1>10. CASE AnswerPending
  <2>1. UNCHANGED <<sent, cancelled, pending, reader, line, results>>
    BY <1>10 DEF AnswerPending, session, readerVars
  <2>2. \A i \in Ids : results[i] \in Nat /\ errors[i] \in Nat
    BY <1>0 DEF Types, ClientTypes
  <2>3. \A i \in Ids : errors'[i] = IF i \in taken THEN errors[i] + 1 ELSE errors[i]
    BY <1>10 DEF AnswerPending
  <2>4. \A i \in Ids : (Answers(i) > 0 \/ i \in taken) => Answers(i)' > 0
    BY <2>1, <2>2, <2>3 DEF Answers
  <2> QED
    BY <1>00, <2>1, <2>4 DEF Tracked
<1> QED
  BY <1>u, <1>1, <1>2, <1>3, <1>4, <1>5, <1>6, <1>7, <1>8, <1>9, <1>10, Writers DEF Written

\* The fourth invariant is inductive.
LEMMA Inv4Step ==
    ASSUME Inv1, Inv3, Inv4, [Next]_vars PROVE Inv4'
  BY NonePendingStep, TrackedStep DEF Inv4

\* It holds at first.
LEMMA Inv4Init ==
    ASSUME Init PROVE Inv4
  BY DEF Init, Inv4, NonePending, Tracked

\* NothingForgotten, for any number of requests and workers, and however slow
\* a pump is: when a worker is started, each request read by then was answered
\* or cancelled, except the one line that waits (read_client, one_worker).
THEOREM NoneForgotten == Spec => []NothingForgotten
<1>1. Init => Inv1 /\ Inv3 /\ Inv4
  BY Inv1Init, Inv3Init, Inv4Init
<1>2. Inv1 /\ Inv3 /\ Inv4 /\ [Next]_vars => Inv1' /\ Inv3' /\ Inv4'
  BY Inv1Step, Inv3Step, Inv4Step
<1>3. Inv1 /\ Inv4 => NothingForgotten
  BY DEF Inv1, Lifecycle, Taken, Inv4, NonePending, Tracked, NothingForgotten
<1> QED
  BY <1>1, <1>2, <1>3, PTL DEF Spec
-----------------------------------------------------------------------------
\* What comes into the channel, and from whom.
LEMMA EventsGrow ==
    ASSUME Inv1, [Next]_vars, NEW n \in 1..Len(events')
    PROVE  \/ \E m \in 1..Len(events) : events'[n] = events[m]
           \/ events'[n].kind = "ClientGone"
           \/ \E k \in Workers : PumpEnds(k) /\ events'[n].kind = "OutputEnded" /\ events'[n].number = k
           \/ \E k \in Workers : /\ PumpSwallows(k) /\ Head(chunk[k]).ends /\ Head(chunk[k]).id = Hello
                                 /\ events'[n].kind = "Replayed" /\ events'[n].number = k
<1>0. events \in Seq(Events)
  BY DEF Inv1, Types
<1>u. CASE events' = events
  BY <1>u
<1>t. CASE events # <<>> /\ events' = Tail(events)
  <2>1. \A m \in 1..Len(Tail(events)) : m + 1 \in 1..Len(events) /\ Tail(events)[m] = events[m + 1]
    BY <1>0, <1>t, TailElements
  <2> QED
    BY <1>t, <2>1
<1>a. ASSUME NEW e \in Events, events' = Append(events, e)
      PROVE  (\E m \in 1..Len(events) : events'[n] = events[m]) \/ events'[n] = e
  BY <1>0, <1>a, AppendElements
<1>1. CASE ReaderGone
  <2>1. Event("ClientGone", 0, TRUE) \in Events /\ Event("ClientGone", 0, TRUE).kind = "ClientGone"
    BY SetFacts DEF Event, Events
  <2>2. events' = Append(events, Event("ClientGone", 0, TRUE))
    BY <1>1 DEF ReaderGone, Send
  <2> QED
    BY <1>a, <2>1, <2>2
<1>2. ASSUME NEW k \in Workers, PumpEnds(k)
      PROVE  \/ \E m \in 1..Len(events) : events'[n] = events[m]
             \/ events'[n].kind = "OutputEnded" /\ events'[n].number = k
  <2>1. PICK e \in Events : events' = Append(events, e) /\ e.kind = "OutputEnded" /\ e.number = k
    <3>1. events' = Append(events, Event("OutputEnded", k, TRUE))
      BY <1>2 DEF PumpEnds, Send
    <3>2. /\ Event("OutputEnded", k, TRUE) \in Events /\ Event("OutputEnded", k, TRUE).kind = "OutputEnded"
          /\ Event("OutputEnded", k, TRUE).number = k
      BY EventFacts
    <3> QED
      BY <3>1, <3>2
  <2> QED
    BY <1>a, <2>1
<1>3. ASSUME NEW k \in Workers, PumpSwallows(k)
      PROVE  \/ \E m \in 1..Len(events) : events'[n] = events[m]
             \/ /\ Head(chunk[k]).ends /\ Head(chunk[k]).id = Hello
                /\ events'[n].kind = "Replayed" /\ events'[n].number = k
  <2>1. CASE Head(chunk[k]).ends /\ Head(chunk[k]).id = Hello
    <3>1. Head(chunk[k]).ok \in BOOLEAN
      BY <1>3, TailElements, PieceFacts DEF PumpSwallows, Inv1, Types, PumpTypes
    <3>2. PICK e \in Events : events' = Append(events, e) /\ e.kind = "Replayed" /\ e.number = k
      BY <1>3, <2>1, <3>1, EventFacts DEF PumpSwallows, Send
    <3> QED
      BY <1>a, <2>1, <3>2
  <2>2. CASE ~(Head(chunk[k]).ends /\ Head(chunk[k]).id = Hello)
    <3>1. events' = events
      BY <1>3, <2>2 DEF PumpSwallows
    <3> QED
      BY <1>u, <3>1
  <2> QED
    BY <2>1, <2>2
<1>4. CASE Replay \/ ReplayFails \/ Serve \/ ServeOutputEnded \/ Drain \/ LastWords
  <2>1. events' = events \/ (events # <<>> /\ events' = Tail(events))
    BY <1>4 DEF Replay, ReplayFails, Serve, ServeOutputEnded, Drain, LastWords
  <2> QED
    BY <1>u, <1>t, <2>1
<1> QED
  BY <1>u, <1>1, <1>2, <1>3, <1>4, Writers DEF Written

\* A pump that has ended stays so, and none is told to swallow once it has started.
LEMMA PumpGoesOn ==
    ASSUME Inv1, [Next]_vars, NEW j \in Workers
    PROVE  /\ pump[j] = "ended" => pump'[j] = "ended"
           /\ pump[j] # "none" => pump'[j] # "none"
           /\ pump[j] # "none" /\ ~swallow[j] => ~swallow'[j]
<1> DEFINE Goal == /\ pump[j] = "ended" => pump'[j] = "ended"
                   /\ pump[j] # "none" => pump'[j] # "none"
                   /\ pump[j] # "none" /\ ~swallow[j] => ~swallow'[j]
<1> SUFFICES Goal
  OBVIOUS
<1>0. Types /\ InHand /\ Lifecycle /\ AbandonedIsSilent
  BY DEF Inv1
<1>u. CASE UNCHANGED <<pump, swallow>>
  BY <1>0, <1>u DEF Types
<1>1. ASSUME NEW k \in Workers, PumpReads(k) PROVE Goal
  BY <1>0, <1>1 DEF PumpReads, Types, PumpTypes, MainTypes, Lifecycle, ToCome, Fresh
<1>2. ASSUME NEW k \in Workers, PumpEnds(k) PROVE Goal
  BY <1>0, <1>2 DEF PumpEnds, Send, Event, Types, PumpTypes, MainTypes, Lifecycle, ToCome, Fresh
<1>3. ASSUME NEW k \in Workers, PumpLocks(k) PROVE Goal
  BY <1>0, <1>3 DEF PumpLocks, Types, PumpTypes, MainTypes, Lifecycle, ToCome, Fresh
<1>4. ASSUME NEW k \in Workers, PumpWrites(k) PROVE Goal
  BY <1>0, <1>4 DEF PumpWrites, ClientReads, Types, PumpTypes, MainTypes, Lifecycle, ToCome, Fresh
<1>5. ASSUME NEW k \in Workers, PumpNotes(k) PROVE Goal
  BY <1>0, <1>5 DEF PumpNotes, Types, PumpTypes, MainTypes, Lifecycle, ToCome, Fresh
<1>6. ASSUME NEW k \in Workers, PumpSwallows(k) PROVE Goal
  <2>1. pump' = pump
    BY <1>6 DEF PumpSwallows
  <2>2. swallow' = swallow \/ swallow' = [swallow EXCEPT ![k] = FALSE]
    BY <1>6 DEF PumpSwallows
  <2> QED
    BY <1>0, <2>1, <2>2 DEF Types, PumpTypes
<1>7. ASSUME NEW k \in Workers, PumpUnlocks(k) PROVE Goal
  BY <1>0, <1>7 DEF PumpUnlocks, Types, PumpTypes, MainTypes, Lifecycle, ToCome, Fresh
<1>8. CASE Snapshot
  BY <1>0, <1>8 DEF Snapshot, Types, PumpTypes, MainTypes, Lifecycle, ToCome, Fresh
<1> HIDE DEF Goal
<1> QED
  BY <1>u, <1>1, <1>2, <1>3, <1>4, <1>5, <1>6, <1>7, <1>8, Writers DEF Written

\* What was heard stays so.
LEMMA HeardStep ==
    ASSUME Inv1, Inv3, Inv4, Inv5, [Next]_vars
    PROVE  Heard'
<1>0. Types /\ InHand /\ Lifecycle /\ AbandonedIsSilent
  BY DEF Inv1
<1>00. /\ OfGivens /\ Answered /\ Unsent /\ Held /\ Noted /\ HelloKnown /\ NonePending /\ Heard /\ Quiet
       /\ UnsentUntouched /\ WaitingUntouched /\ PendingUnanswered /\ TakenUnanswered /\ HeldIsNotLost
       /\ GivenIsNotLost /\ OnlyHello /\ Debts /\ AnsweredOnce /\ LostIsNeverRun
  BY DEF Inv3, Inv4, Inv5, Unanswered
<1>1. SUFFICES ASSUME NEW n \in 1..Len(events')
      PROVE  /\ events'[n].kind = "OutputEnded" => pump'[events'[n].number] = "ended"
             /\ events'[n].kind = "Replayed" => ~swallow'[events'[n].number] /\ pump'[events'[n].number] # "none"
  BY DEF Heard
<1>2. ASSUME NEW m \in 1..Len(events), events'[n] = events[m]
      PROVE  /\ events'[n].kind = "OutputEnded" => pump'[events'[n].number] = "ended"
             /\ events'[n].kind = "Replayed" => ~swallow'[events'[n].number] /\ pump'[events'[n].number] # "none"
  <2>1. events[m] \in Events
    BY <1>0, ElementOfSeq DEF Types
  <2>2. PICK k \in Workers : k = events[m].number
    BY <2>1 DEF Events
  <2> QED
    BY <1>00, <1>2, <2>2, PumpGoesOn DEF Heard
<1>3. ASSUME NEW k \in Workers, PumpEnds(k) PROVE pump'[k] = "ended"
  BY <1>0, <1>3 DEF PumpEnds, Types, PumpTypes
<1>4. ASSUME NEW k \in Workers, PumpSwallows(k), Head(chunk[k]).ends, Head(chunk[k]).id = Hello
      PROVE  ~swallow'[k] /\ pump'[k] # "none"
  BY <1>0, <1>4 DEF PumpSwallows, Types, PumpTypes
<1> QED
  BY <1>2, <1>3, <1>4, EventsGrow

\* A worker is given up on when its pump is quiet.
LEMMA QuietStep ==
    ASSUME StallPastGrace = FALSE, Inv1, Inv3, Inv4, Inv5, [Next]_vars
    PROVE  Quiet'
<1>0. Types /\ InHand /\ Lifecycle /\ AbandonedIsSilent
  BY DEF Inv1
<1>00. /\ OfGivens /\ Answered /\ Unsent /\ Held /\ Noted /\ HelloKnown /\ NonePending /\ Heard /\ Quiet
       /\ UnsentUntouched /\ WaitingUntouched /\ PendingUnanswered /\ TakenUnanswered /\ HeldIsNotLost
       /\ GivenIsNotLost /\ OnlyHello /\ Debts /\ AnsweredOnce /\ LostIsNeverRun
  BY DEF Inv3, Inv4, Inv5, Unanswered
<1>u. CASE UNCHANGED <<main, outputEnded, number, pump, pipe>>
  BY <1>0, <1>00, SetFacts, <1>u DEF Quiet
<1>1. ASSUME NEW k \in Workers, NEW i \in Ids, WorkerBegins(k, i) PROVE Quiet'
  <2>1. UNCHANGED <<main, outputEnded, number, pump>> /\ alive[k]
    BY <1>1 DEF WorkerBegins, mainVars, pumpVars
  <2>2. main \in {"abandoning", "taking", "answering"} => k # number
    BY <1>0, <2>1 DEF Lifecycle, GivenUp
  <2>3. \A j \in Workers : j # k => pipe'[j] = pipe[j]
    BY <1>0, <1>1 DEF WorkerBegins, Types, WorkerTypes
  <2>4. main \in {"abandoning", "taking", "answering"} => number \in Workers
    BY <1>0 DEF Types, MainTypes
  <2> QED
    BY <1>00, <2>1, <2>2, <2>3, <2>4 DEF Quiet
<1>2. ASSUME NEW k \in Workers, NEW ok \in BOOLEAN, WorkerEnds(k, ok) PROVE Quiet'
  <2>1. UNCHANGED <<main, outputEnded, number, pump>> /\ alive[k]
    BY <1>2 DEF WorkerEnds, mainVars, pumpVars
  <2>2. main \in {"abandoning", "taking", "answering"} => k # number
    BY <1>0, <2>1 DEF Lifecycle, GivenUp
  <2>3. \A j \in Workers : j # k => pipe'[j] = pipe[j]
    BY <1>0, <1>2 DEF WorkerEnds, Types, WorkerTypes
  <2>4. main \in {"abandoning", "taking", "answering"} => number \in Workers
    BY <1>0 DEF Types, MainTypes
  <2> QED
    BY <1>00, <2>1, <2>2, <2>3, <2>4 DEF Quiet
<1>3. ASSUME NEW k \in Workers, PumpReads(k) PROVE Quiet'
  <2>1. UNCHANGED <<main, outputEnded, number>> /\ pump[k] = "reading" /\ pipe[k] # <<>>
    BY <1>3 DEF PumpReads, mainVars
  <2>2. \A j \in Workers : j # k => pipe'[j] = pipe[j] /\ pump'[j] = pump[j]
    BY <1>0, <1>3 DEF PumpReads, Types, WorkerTypes, PumpTypes
  <2>3. main \in {"died", "abandoning", "taking", "answering"} => number \in Workers
    BY <1>0 DEF Types, MainTypes
  <2> QED
    BY <1>00, <2>1, <2>2, <2>3 DEF Quiet
<1>4. ASSUME NEW k \in Workers, PumpEnds(k) PROVE Quiet'
  BY <1>0, <1>00, SetFacts, <1>4 DEF PumpEnds, Send, Event, mainVars, workerVars, Quiet, Types, MainTypes, PumpTypes, WorkerTypes, Lifecycle, GivenUp
<1>5. ASSUME NEW k \in Workers, PumpLocks(k) PROVE Quiet'
  BY <1>0, <1>00, SetFacts, <1>5 DEF PumpLocks, mainVars, workerVars, Quiet, Types, MainTypes, PumpTypes, WorkerTypes, Lifecycle, GivenUp
<1>6. ASSUME NEW k \in Workers, PumpWrites(k) PROVE Quiet'
  BY <1>0, <1>00, SetFacts, <1>6 DEF PumpWrites, ClientReads, mainVars, workerVars, Quiet, Types, MainTypes, PumpTypes, WorkerTypes, Lifecycle, GivenUp
<1>7. ASSUME NEW k \in Workers, PumpNotes(k) PROVE Quiet'
  BY <1>0, <1>00, SetFacts, <1>7 DEF PumpNotes, mainVars, workerVars, Quiet, Types, MainTypes, PumpTypes, WorkerTypes, Lifecycle, GivenUp
<1>8. ASSUME NEW k \in Workers, PumpUnlocks(k) PROVE Quiet'
  BY <1>0, <1>00, SetFacts, <1>8 DEF PumpUnlocks, mainVars, workerVars, Quiet, Types, MainTypes, PumpTypes, WorkerTypes, Lifecycle, GivenUp
<1>9. CASE NoNewWorker
  BY <1>0, <1>00, SetFacts, <1>9 DEF NoNewWorker, Idle, pumpVars, workerVars, Quiet, Types, MainTypes, PumpTypes, WorkerTypes, Lifecycle, GivenUp
<1>10. CASE SpawnFails
  BY <1>0, <1>00, SetFacts, <1>10 DEF SpawnFails, Idle, pumpVars, workerVars, Quiet, Types, MainTypes, PumpTypes, WorkerTypes, Lifecycle, GivenUp
<1>11. CASE Spawn
  BY <1>0, <1>00, SetFacts, <1>11 DEF Spawn, Waits, pumpVars, Quiet, Types, MainTypes, PumpTypes, WorkerTypes, Lifecycle, GivenUp
<1>12. CASE Snapshot
  BY <1>0, <1>00, SetFacts, <1>12 DEF Snapshot, Quiet, Types, MainTypes, PumpTypes, WorkerTypes, Lifecycle, GivenUp
<1>13. CASE Replay
  BY <1>0, <1>00, SetFacts, <1>13 DEF Replay, ReplayFailed, ReplayedWell, pumpVars, workerVars, Quiet, Types, MainTypes, PumpTypes, WorkerTypes, Lifecycle, GivenUp
<1>14. CASE ReplayFails
  BY <1>0, <1>00, SetFacts, <1>14 DEF ReplayFails, ReplayFailed, Ends, Quiet, Types, MainTypes, PumpTypes, WorkerTypes, Lifecycle, GivenUp
<1>15. CASE Open
  BY <1>0, <1>00, SetFacts, <1>15 DEF Open, pumpVars, workerVars, Quiet, Types, MainTypes, PumpTypes, WorkerTypes, Lifecycle, GivenUp
<1>16. CASE Serve
  BY <1>0, <1>00, SetFacts, <1>16 DEF Serve, Waits, pumpVars, workerVars, Quiet, Types, MainTypes, PumpTypes, WorkerTypes, Lifecycle, GivenUp
<1>17. CASE ServeOutputEnded
  <2>1. events # <<>> /\ number \in Workers
    BY <1>0, <1>17 DEF ServeOutputEnded, Types, MainTypes
  <2>2. Head(events) = events[1] /\ 1 \in 1..Len(events)
    BY <1>0, <2>1, TailElements DEF Types
  <2>3. Head(events).kind = "OutputEnded" /\ Head(events).number = number => pump[number] = "ended"
    BY <1>00, <2>2 DEF Heard
  <2>4. main' \in {"died", "givingUp"} /\ UNCHANGED <<number, pump>> /\ pump[number] = "ended"
    BY <2>3, <1>17 DEF ServeOutputEnded, Waits, pumpVars
  <2> QED
    BY <2>4 DEF Quiet
<1>18. CASE Died
  BY <1>0, <1>00, SetFacts, <1>18 DEF Died, pumpVars, workerVars, Quiet, Types, MainTypes, PumpTypes, WorkerTypes, Lifecycle, GivenUp
<1>19. CASE Drain
  <2>1. events # <<>> /\ number \in Workers
    BY <1>0, <1>19 DEF Drain, Types, MainTypes
  <2>2. Head(events) = events[1] /\ 1 \in 1..Len(events)
    BY <1>0, <2>1, TailElements DEF Types
  <2>3. Head(events).kind = "OutputEnded" /\ Head(events).number = number => pump[number] = "ended"
    BY <1>00, <2>2 DEF Heard
  <2>4. UNCHANGED <<number, pump, pipe>>
    BY <1>19 DEF Drain, Waits, pumpVars, workerVars
  <2>5. main' = "draining" \/ (main' = "abandoning" /\ Head(events).kind = "OutputEnded" /\ Head(events).number = number)
    BY <1>19 DEF Drain
  <2> QED
    BY <2>3, <2>4, <2>5 DEF Quiet
<1>20. CASE DrainTimesOut
  <2>1. main' = "abandoning" /\ pump[number] = "reading" /\ pipe[number] = <<>> /\ UNCHANGED <<number, pump, pipe>>
    BY <1>20 DEF DrainTimesOut, GraceRunsOut, Idle, pumpVars, workerVars
  <2> QED
    BY <2>1 DEF Quiet
<1>21. CASE Abandon
  BY <1>0, <1>00, SetFacts, <1>21 DEF Abandon, workerVars, Quiet, Types, MainTypes, PumpTypes, WorkerTypes, Lifecycle, GivenUp
<1>22. CASE TakePending
  BY <1>0, <1>00, SetFacts, <1>22 DEF TakePending, pumpVars, workerVars, Quiet, Types, MainTypes, PumpTypes, WorkerTypes, Lifecycle, GivenUp
<1>23. CASE AnswerPending
  BY <1>0, <1>00, SetFacts, <1>23 DEF AnswerPending, EndTheLine, pumpVars, workerVars, Quiet, Types, MainTypes, PumpTypes, WorkerTypes, Lifecycle, GivenUp
<1>24. CASE EndLineAndStop
  BY <1>0, <1>00, SetFacts, <1>24 DEF EndLineAndStop, EndTheLine, pumpVars, workerVars, Quiet, Types, MainTypes, PumpTypes, WorkerTypes, Lifecycle, GivenUp
<1>25. CASE ShutDown
  BY <1>0, <1>00, SetFacts, <1>25 DEF ShutDown, Ends, Waits, pumpVars, Quiet, Types, MainTypes, PumpTypes, WorkerTypes, Lifecycle, GivenUp
<1>26. CASE LastWords
  BY <1>0, <1>00, SetFacts, <1>26 DEF LastWords, Waits, pumpVars, workerVars, Quiet, Types, MainTypes, PumpTypes, WorkerTypes, Lifecycle, GivenUp
<1>27. CASE LastWordsTimeOut
  BY <1>0, <1>00, SetFacts, <1>27 DEF LastWordsTimeOut, Idle, pumpVars, workerVars, Quiet, Types, MainTypes, PumpTypes, WorkerTypes, Lifecycle, GivenUp
<1> QED
  BY <1>u, <1>1, <1>2, <1>3, <1>4, <1>5, <1>6, <1>7, <1>8, <1>9, <1>10, <1>11, <1>12, <1>13, <1>14, <1>15, <1>16, <1>17, <1>18, <1>19, <1>20, <1>21, <1>22, <1>23, <1>24, <1>25, <1>26, <1>27, Writers DEF Written, Main

\* What was not sent is untouched.
LEMMA UnsentUntouchedStep ==
    ASSUME Inv1, Inv3, Inv4, Inv5, [Next]_vars
    PROVE  UnsentUntouched'
<1>0. Types /\ InHand /\ Lifecycle /\ AbandonedIsSilent
  BY DEF Inv1
<1>00. /\ OfGivens /\ Answered /\ Unsent /\ Held /\ Noted /\ HelloKnown /\ NonePending /\ Heard /\ Quiet
       /\ UnsentUntouched /\ WaitingUntouched /\ PendingUnanswered /\ TakenUnanswered /\ HeldIsNotLost
       /\ GivenIsNotLost /\ OnlyHello /\ Debts /\ AnsweredOnce /\ LostIsNeverRun
  BY DEF Inv3, Inv4, Inv5, Unanswered
<1>u. CASE UNCHANGED <<sent, errors, pending, taken>>
  BY <1>0, <1>00, <1>u DEF UnsentUntouched
<1>1. CASE ReaderAccepts
  BY <1>0, <1>00, <1>1 DEF ReaderAccepts, mainVars, clientVars, UnsentUntouched, Held
<1>2. ASSUME NEW l \in Lines, ClientSends(l) PROVE UnsentUntouched'
  BY <1>0, <1>00, <1>2 DEF ClientSends, NoLine, session, mainVars, UnsentUntouched, Held
<1>3. ASSUME NEW k \in Workers, PumpNotes(k) PROVE UnsentUntouched'
  BY <1>0, <1>00, <1>3 DEF PumpNotes, mainVars, clientVars, UnsentUntouched, Held
<1>4. CASE TakePending
  BY <1>0, <1>00, <1>4 DEF TakePending, clientVars, UnsentUntouched, Held
<1>5. CASE AnswerPending
  BY <1>0, <1>00, <1>5 DEF AnswerPending, EndTheLine, session, UnsentUntouched, Held
<1> QED
  BY <1>u, <1>1, <1>2, <1>3, <1>4, <1>5, Writers DEF Written

\* What waits is untouched.
LEMMA WaitingUntouchedStep ==
    ASSUME Inv1, Inv3, Inv4, Inv5, [Next]_vars
    PROVE  WaitingUntouched'
<1>0. Types /\ InHand /\ Lifecycle /\ AbandonedIsSilent
  BY DEF Inv1
<1>00. /\ OfGivens /\ Answered /\ Unsent /\ Held /\ Noted /\ HelloKnown /\ NonePending /\ Heard /\ Quiet
       /\ UnsentUntouched /\ WaitingUntouched /\ PendingUnanswered /\ TakenUnanswered /\ HeldIsNotLost
       /\ GivenIsNotLost /\ OnlyHello /\ Debts /\ AnsweredOnce /\ LostIsNeverRun
  BY DEF Inv3, Inv4, Inv5, Unanswered
<1>u. CASE UNCHANGED <<reader, line, errors, pending, taken>>
  BY <1>0, <1>00, <1>u DEF WaitingUntouched
<1>1. CASE ReaderAccepts
  BY <1>0, <1>00, <1>1 DEF ReaderAccepts, mainVars, clientVars, WaitingUntouched, UnsentUntouched
<1>2. CASE ReaderWrites
  BY <1>0, <1>00, <1>2 DEF ReaderWrites, NoLine, session, mainVars, clientVars, WaitingUntouched, UnsentUntouched
<1>3. CASE ReaderGone
  BY <1>0, <1>00, <1>3 DEF ReaderGone, Send, Event, session, mainVars, clientVars, WaitingUntouched, UnsentUntouched
<1>4. ASSUME NEW l \in Lines, ClientSends(l) PROVE WaitingUntouched'
  BY <1>0, <1>00, <1>4 DEF ClientSends, NoLine, session, mainVars, WaitingUntouched, UnsentUntouched
<1>5. ASSUME NEW r \in Requests, ClientCancels(r) PROVE WaitingUntouched'
  BY <1>0, <1>00, <1>5 DEF ClientCancels, NoLine, session, mainVars, WaitingUntouched, UnsentUntouched
<1>6. CASE ClientCloses
  BY <1>0, <1>00, <1>6 DEF ClientCloses, mainVars, clientVars, WaitingUntouched, UnsentUntouched
<1>7. ASSUME NEW k \in Workers, PumpNotes(k) PROVE WaitingUntouched'
  BY <1>0, <1>00, <1>7 DEF PumpNotes, readerVars, mainVars, clientVars, WaitingUntouched, UnsentUntouched
<1>8. CASE TakePending
  BY <1>0, <1>00, <1>8 DEF TakePending, readerVars, clientVars, WaitingUntouched, UnsentUntouched
<1>9. CASE AnswerPending
  BY <1>0, <1>00, <1>9 DEF AnswerPending, EndTheLine, session, readerVars, WaitingUntouched, UnsentUntouched
<1> QED
  BY <1>u, <1>1, <1>2, <1>3, <1>4, <1>5, <1>6, <1>7, <1>8, <1>9, Writers DEF Written

\* What is pending has no answer.
LEMMA PendingUnansweredStep ==
    ASSUME Inv1, Inv3, Inv4, Inv5, [Next]_vars
    PROVE  PendingUnanswered'
<1>0. Types /\ InHand /\ Lifecycle /\ AbandonedIsSilent
  BY DEF Inv1
<1>00. /\ OfGivens /\ Answered /\ Unsent /\ Held /\ Noted /\ HelloKnown /\ NonePending /\ Heard /\ Quiet
       /\ UnsentUntouched /\ WaitingUntouched /\ PendingUnanswered /\ TakenUnanswered /\ HeldIsNotLost
       /\ GivenIsNotLost /\ OnlyHello /\ Debts /\ AnsweredOnce /\ LostIsNeverRun
  BY DEF Inv3, Inv4, Inv5, Unanswered
<1>u. CASE UNCHANGED <<pending, errors, results, pump, chunk>>
  BY <1>0, <1>00, SetFacts, <1>u DEF PendingUnanswered, Noting
<1>1. CASE ReaderAccepts
  <2>n. \A i \in Ids : results[i] \in Nat /\ errors[i] \in Nat
    BY <1>0 DEF Types, ClientTypes
  <2>1. UNCHANGED <<errors, results, pump, chunk>> /\ reader = "waiting"
    BY <1>1 DEF ReaderAccepts, pumpVars, clientVars
  <2>2. CASE line.cancel
    BY <1>00, <2>1, <2>2, <1>1 DEF ReaderAccepts, PendingUnanswered, Noting
  <2>3. CASE ~line.cancel
    <3>1. pending' = pending \cup ({line.of} \cap Ids)
      BY <2>3, <1>1 DEF ReaderAccepts
    <3>2. line.of \in Ids => NotGiven(line.of) /\ errors[line.of] = 0
      BY <1>00, <2>1, <2>3 DEF Held, WaitingUntouched
    <3>3. line.of \in Ids => results[line.of] = 0
      BY <1>00, <2>n, <3>2 DEF Answered
    <3> QED
      BY <1>00, <2>1, <3>1, <3>2, <3>3 DEF PendingUnanswered, Noting
  <2> QED
    BY <1>0, <2>2, <2>3 DEF Types, ReaderTypes
<1>2. ASSUME NEW k \in Workers, PumpReads(k) PROVE PendingUnanswered'
  BY <1>0, <1>00, SetFacts, <1>2 DEF PumpReads, session, clientVars, PendingUnanswered, Noting, Types, PumpTypes, MainTypes, SessionTypes
<1>3. ASSUME NEW k \in Workers, PumpEnds(k) PROVE PendingUnanswered'
  BY <1>0, <1>00, SetFacts, <1>3 DEF PumpEnds, Send, Event, session, clientVars, PendingUnanswered, Noting, Types, PumpTypes, MainTypes, SessionTypes
<1>4. ASSUME NEW k \in Workers, PumpLocks(k) PROVE PendingUnanswered'
  BY <1>0, <1>00, SetFacts, <1>4 DEF PumpLocks, session, clientVars, PendingUnanswered, Noting, Types, PumpTypes, MainTypes, SessionTypes
<1>5. ASSUME NEW k \in Workers, PumpWrites(k) PROVE PendingUnanswered'
  <2>n. \A i \in Ids : results[i] \in Nat /\ errors[i] \in Nat
    BY <1>0 DEF Types, ClientTypes
  <2>1. UNCHANGED <<errors, pending>> /\ pump[k] = "writing"
    BY <1>5 DEF PumpWrites, session
  <2>2. SUFFICES ASSUME NEW i \in pending PROVE errors[i] = 0 /\ (results'[i] = 0 \/ Noting(i)')
    BY <2>1 DEF PendingUnanswered
  <2>3. i \in Ids /\ errors[i] = 0 /\ (results[i] = 0 \/ Noting(i))
    BY <1>0, <1>00 DEF Types, SessionTypes, PendingUnanswered
  <2>4. Noting(i) => Noting(i)'
    <3>1. \A j \in Workers : pump[j] = "noting" => j # k /\ pump'[j] = pump[j] /\ chunk'[j] = chunk[j]
      BY <1>0, <2>1, <1>5 DEF PumpWrites, Types, PumpTypes
    <3> QED
      BY <3>1 DEF Noting
  <2>5. CASE results'[i] = results[i]
    BY <2>3, <2>4, <2>5
  <2>6. CASE results'[i] # results[i]
    <3>1. Head(chunk[k]).ends /\ Head(chunk[k]).id = i
      BY <1>0, <2>3, <2>6, <1>5 DEF PumpWrites, ClientReads, Types, ClientTypes
    <3>2. pump'[k] = "noting" /\ chunk' = chunk
      BY <1>0, <3>1, <1>5 DEF PumpWrites, Types, PumpTypes
    <3>3. Noting(i)'
      BY <3>1, <3>2 DEF Noting
    <3> QED
      BY <2>3, <3>3
  <2> QED
    BY <2>5, <2>6
<1>6. ASSUME NEW k \in Workers, PumpNotes(k) PROVE PendingUnanswered'
  <2>1. UNCHANGED <<errors, results>> /\ pump[k] = "noting" /\ pending' = pending \ {Head(chunk[k]).id}
    BY <1>6 DEF PumpNotes, clientVars
  <2>2. \A j \in Workers : pump[j] = "noting" => j = k
    BY <1>0, <2>1 DEF AbandonedIsSilent
  <2>3. \A i \in pending' : ~Noting(i)
    BY <2>1, <2>2 DEF Noting
  <2> QED
    BY <1>00, <2>1, <2>3 DEF PendingUnanswered
<1>7. ASSUME NEW k \in Workers, PumpSwallows(k) PROVE PendingUnanswered'
  BY <1>0, <1>00, SetFacts, <1>7 DEF PumpSwallows, Send, Event, session, clientVars, PendingUnanswered, Noting, Types, PumpTypes, MainTypes, SessionTypes
<1>8. ASSUME NEW k \in Workers, PumpUnlocks(k) PROVE PendingUnanswered'
  BY <1>0, <1>00, SetFacts, <1>8 DEF PumpUnlocks, session, clientVars, PendingUnanswered, Noting, Types, PumpTypes, MainTypes, SessionTypes
<1>9. CASE Snapshot
  <2>1. UNCHANGED <<errors, results, pending, chunk>>
    BY <1>9 DEF Snapshot, session, clientVars
  <2>2. number \in Workers /\ pump[number] = "none" /\ pump' = [pump EXCEPT ![number] = "reading"]
    BY <1>0, <1>9 DEF Snapshot, Types, MainTypes, Lifecycle, ToCome, Fresh
  <2>3. \A i \in pending : Noting(i) => Noting(i)'
    BY <1>0, <2>1, <2>2 DEF Noting, Types, PumpTypes
  <2> QED
    BY <1>00, <2>1, <2>3 DEF PendingUnanswered
<1>10. CASE TakePending
  BY <1>0, <1>00, SetFacts, <1>10 DEF TakePending, pumpVars, clientVars, PendingUnanswered, Noting, Types, PumpTypes, MainTypes, SessionTypes
<1>11. CASE AnswerPending
  <2>1. pending' = {}
    BY <1>00, <1>11 DEF AnswerPending, session, NonePending
  <2> QED
    BY <2>1 DEF PendingUnanswered
<1> QED
  BY <1>u, <1>1, <1>2, <1>3, <1>4, <1>5, <1>6, <1>7, <1>8, <1>9, <1>10, <1>11, Writers DEF Written

\* What was taken has no answer.
LEMMA TakenUnansweredStep ==
    ASSUME Inv1, Inv3, Inv4, Inv5, [Next]_vars
    PROVE  TakenUnanswered'
<1>0. Types /\ InHand /\ Lifecycle /\ AbandonedIsSilent
  BY DEF Inv1
<1>00. /\ OfGivens /\ Answered /\ Unsent /\ Held /\ Noted /\ HelloKnown /\ NonePending /\ Heard /\ Quiet
       /\ UnsentUntouched /\ WaitingUntouched /\ PendingUnanswered /\ TakenUnanswered /\ HeldIsNotLost
       /\ GivenIsNotLost /\ OnlyHello /\ Debts /\ AnsweredOnce /\ LostIsNeverRun
  BY DEF Inv3, Inv4, Inv5, Unanswered
<1>u. CASE UNCHANGED <<main, taken, results, errors>>
  BY <1>0, <1>00, <1>u DEF TakenUnanswered, Answers
<1>1. ASSUME NEW k \in Workers, PumpWrites(k) PROVE TakenUnanswered'
  <2>1. main' = main /\ k = number /\ pump[k] = "writing"
    BY <1>1, StreamPops DEF PumpWrites, mainVars
  <2>2. main # "answering"
    BY <1>00, <2>1 DEF Quiet
  <2> QED
    BY <2>1, <2>2 DEF TakenUnanswered
<1>2. CASE NoNewWorker
  BY <1>0, <1>00, <1>2 DEF NoNewWorker, Idle, clientVars, TakenUnanswered, Answers
<1>3. CASE SpawnFails
  BY <1>0, <1>00, <1>3 DEF SpawnFails, Idle, clientVars, TakenUnanswered, Answers
<1>4. CASE Spawn
  BY <1>0, <1>00, <1>4 DEF Spawn, Waits, clientVars, TakenUnanswered, Answers
<1>5. CASE Snapshot
  BY <1>0, <1>00, <1>5 DEF Snapshot, clientVars, TakenUnanswered, Answers
<1>6. CASE Replay
  BY <1>0, <1>00, <1>6 DEF Replay, ReplayFailed, ReplayedWell, clientVars, TakenUnanswered, Answers
<1>7. CASE ReplayFails
  BY <1>0, <1>00, <1>7 DEF ReplayFails, ReplayFailed, Ends, clientVars, TakenUnanswered, Answers
<1>8. CASE Open
  BY <1>0, <1>00, <1>8 DEF Open, clientVars, TakenUnanswered, Answers
<1>9. CASE Serve
  BY <1>0, <1>00, <1>9 DEF Serve, Waits, clientVars, TakenUnanswered, Answers
<1>10. CASE ServeOutputEnded
  BY <1>0, <1>00, <1>10 DEF ServeOutputEnded, Ends, Waits, clientVars, TakenUnanswered, Answers
<1>11. CASE Died
  BY <1>0, <1>00, <1>11 DEF Died, clientVars, TakenUnanswered, Answers
<1>12. CASE Drain
  BY <1>0, <1>00, <1>12 DEF Drain, Waits, clientVars, TakenUnanswered, Answers
<1>13. CASE DrainTimesOut
  BY <1>0, <1>00, <1>13 DEF DrainTimesOut, Idle, clientVars, TakenUnanswered, Answers
<1>14. CASE Abandon
  BY <1>0, <1>00, <1>14 DEF Abandon, clientVars, TakenUnanswered, Answers
<1>15. CASE TakePending
  <2>n. \A i \in Ids : results[i] \in Nat /\ errors[i] \in Nat
    BY <1>0 DEF Types, ClientTypes
  <2>1. main = "taking" => \A j \in Workers : pump[j] # "noting"
    BY <1>0, <1>00 DEF AbandonedIsSilent, Quiet
  <2>2. main' = "answering" => main = "taking"
    BY <1>15 DEF TakePending
  <2>3. taken' = pending /\ UNCHANGED <<results, errors>>
    BY <1>15 DEF TakePending, clientVars
  <2>4. main = "taking" => \A i \in pending : i \in Ids /\ errors[i] = 0 /\ results[i] = 0
    BY <1>0, <1>00, <2>1 DEF PendingUnanswered, Noting, Types, SessionTypes
  <2> QED
    BY <2>2, <2>3, <2>4 DEF TakenUnanswered, Answers
<1>16. CASE AnswerPending
  BY <1>0, <1>00, <1>16 DEF AnswerPending, EndTheLine, TakenUnanswered, Answers
<1>17. CASE EndLineAndStop
  BY <1>0, <1>00, <1>17 DEF EndLineAndStop, EndTheLine, TakenUnanswered, Answers
<1>18. CASE ShutDown
  BY <1>0, <1>00, <1>18 DEF ShutDown, Ends, Waits, clientVars, TakenUnanswered, Answers
<1>19. CASE LastWords
  BY <1>0, <1>00, <1>19 DEF LastWords, Waits, clientVars, TakenUnanswered, Answers
<1>20. CASE LastWordsTimeOut
  BY <1>0, <1>00, <1>20 DEF LastWordsTimeOut, Idle, clientVars, TakenUnanswered, Answers
<1> QED
  BY <1>u, <1>1, <1>2, <1>3, <1>4, <1>5, <1>6, <1>7, <1>8, <1>9, <1>10, <1>11, <1>12, <1>13, <1>14, <1>15, <1>16, <1>17, <1>18, <1>19, <1>20, Writers DEF Written, Main

\* No request gets a second answer.
LEMMA AnsweredOnceStep ==
    ASSUME Inv1, Inv3, Inv4, Inv5, [Next]_vars
    PROVE  AnsweredOnce'
<1>0. Types /\ InHand /\ Lifecycle /\ AbandonedIsSilent
  BY DEF Inv1
<1>00. /\ OfGivens /\ Answered /\ Unsent /\ Held /\ Noted /\ HelloKnown /\ NonePending /\ Heard /\ Quiet
       /\ UnsentUntouched /\ WaitingUntouched /\ PendingUnanswered /\ TakenUnanswered /\ HeldIsNotLost
       /\ GivenIsNotLost /\ OnlyHello /\ Debts /\ AnsweredOnce /\ LostIsNeverRun
  BY DEF Inv3, Inv4, Inv5, Unanswered
<1>u. CASE UNCHANGED <<results, errors>>
  BY <1>0, <1>00, <1>u DEF AnsweredOnce, Answers
<1>1. ASSUME NEW k \in Workers, PumpWrites(k) PROVE AnsweredOnce'
  <2>n. \A i \in Ids : results[i] \in Nat /\ errors[i] \in Nat
    BY <1>0 DEF Types, ClientTypes
  <2>1. /\ Stream(k) # <<>> /\ Head(Stream(k)) = Head(chunk[k]) /\ k = number /\ pump[k] = "writing"
        /\ ~swallow[k] /\ Running /\ chunk[k] # <<>> /\ errors' = errors
    BY <1>1, StreamPops DEF PumpWrites
  <2>2. SUFFICES ASSUME NEW i \in Ids PROVE results'[i] + errors[i] <= 1
    BY <2>1 DEF AnsweredOnce, Answers
  <2>3. CASE results'[i] = results[i]
    BY <1>00, <2>3 DEF AnsweredOnce, Answers
  <2>4. CASE results'[i] # results[i]
    <3>1. Head(chunk[k]).ends /\ Head(chunk[k]).id = i /\ results'[i] = results[i] + 1
      BY <1>0, <2>2, <2>4, <1>1 DEF PumpWrites, ClientReads, Types, ClientTypes
    <3>2. Stream(k) \in Seq(Pieces) /\ 1 \in 1..Len(Stream(k)) /\ Head(Stream(k)) = Stream(k)[1]
      <4>1. Stream(k) \in Seq(Pieces)
        BY <1>0, StreamType
      <4> QED
        BY <2>1, <4>1, TailElements
    <3>3. Ending(Stream(k), 1, i)
      BY <2>1, <3>1, <3>2 DEF Ending
    <3>4. NotYet(k) /\ Owes(k, i)
      BY <1>00, <2>1, <3>3 DEF Debts, Pumping, Owes
    <3>5. results[i] = 0
      BY <2>1, <3>4 DEF NotYet
    <3>6. i \in given[k]
      BY <1>0, <1>00, <2>1, <3>1, HeadWasGiven
    <3>7. errors[i] = 0
      BY <1>00, <2>1, <3>6 DEF GivenIsNotLost
    <3> QED
      BY <3>1, <3>5, <3>7
  <2> QED
    BY <2>3, <2>4
<1>2. CASE AnswerPending
  <2>n. \A i \in Ids : results[i] \in Nat /\ errors[i] \in Nat
    BY <1>0 DEF Types, ClientTypes
  <2>1. results' = results /\ main = "answering"
    BY <1>2 DEF AnswerPending
  <2>2. \A i \in Ids : errors'[i] = IF i \in taken THEN errors[i] + 1 ELSE errors[i]
    BY <1>2 DEF AnswerPending
  <2>3. \A i \in taken : Answers(i) = 0
    BY <1>00, <2>1 DEF TakenUnanswered
  <2> QED
    BY <1>00, <2>n, <2>1, <2>2, <2>3 DEF AnsweredOnce, Answers
<1> QED
  BY <1>u, <1>1, <1>2, Writers DEF Written

\* What had its error is not run.
LEMMA LostIsNeverRunStep ==
    ASSUME Inv1, Inv3, Inv4, Inv5, [Next]_vars
    PROVE  LostIsNeverRun'
<1>0. Types /\ InHand /\ Lifecycle /\ AbandonedIsSilent
  BY DEF Inv1
<1>00. /\ OfGivens /\ Answered /\ Unsent /\ Held /\ Noted /\ HelloKnown /\ NonePending /\ Heard /\ Quiet
       /\ UnsentUntouched /\ WaitingUntouched /\ PendingUnanswered /\ TakenUnanswered /\ HeldIsNotLost
       /\ GivenIsNotLost /\ OnlyHello /\ Debts /\ AnsweredOnce /\ LostIsNeverRun
  BY DEF Inv3, Inv4, Inv5, Unanswered
<1>u. CASE UNCHANGED <<errors, given, alive>>
  BY <1>0, <1>00, <1>u DEF LostIsNeverRun
<1>1. CASE ReaderWrites
  <2>1. UNCHANGED <<errors, alive>>
    BY <1>1 DEF ReaderWrites, clientVars
  <2>2. SUFFICES ASSUME NEW i \in Ids, NEW k \in Workers, errors[i] > 0, i \in given'[k] PROVE ~alive[k]
    BY <2>1 DEF LostIsNeverRun
  <2>3. CASE i \in given[k]
    BY <1>00, <2>2, <2>3 DEF LostIsNeverRun
  <2>4. CASE i \notin given[k]
    <3>1. i = line.of /\ k = line.to /\ ~line.cancel
      BY <2>2, <2>4, <1>1, GivenGrows, SetFacts DEF ReaderWrites, Snapshot, Replay
    <3> QED
      BY <1>00, <2>2, <3>1, <1>1 DEF ReaderWrites, HeldIsNotLost
  <2> QED
    BY <2>3, <2>4
<1>2. ASSUME NEW k \in Workers, NEW open \in BOOLEAN, WorkerDies(k, open) PROVE LostIsNeverRun'
  BY <1>0, <1>00, <1>2 DEF WorkerDies, readerVars, clientVars, LostIsNeverRun, Types, WorkerTypes, MainTypes
<1>3. CASE Spawn
  <2>1. UNCHANGED <<errors, given>> /\ alive' = [alive EXCEPT ![number] = TRUE] /\ number \in Workers
    BY <1>3 DEF Spawn, Waits, readerVars, clientVars
  <2>2. given[number] = {}
    BY <1>0, <2>1, <1>3 DEF Spawn, Lifecycle, ToCome, Fresh
  <2> QED
    BY <1>0, <1>00, <2>1, <2>2 DEF LostIsNeverRun, Types, WorkerTypes
<1>4. CASE Snapshot
  <2>n. \A i \in Ids : results[i] \in Nat /\ errors[i] \in Nat
    BY <1>0 DEF Types, ClientTypes
  <2>1. UNCHANGED <<errors, alive>>
    BY <1>4 DEF Snapshot, clientVars
  <2>2. SUFFICES ASSUME NEW i \in Ids, NEW k \in Workers, errors[i] > 0, i \in given'[k] PROVE ~alive[k]
    BY <2>1 DEF LostIsNeverRun
  <2>3. CASE i \in given[k]
    BY <1>00, <2>2, <2>3 DEF LostIsNeverRun
  <2>4. CASE i \notin given[k]
    <3>1. i = Hello /\ hello = "answered"
      BY <2>2, <2>4, <1>4, GivenGrows, SetFacts DEF ReaderWrites, Snapshot, Replay
    <3>2. errors[Hello] = 0
      BY <1>00, <2>n, <3>1, SetFacts DEF HelloKnown, AnsweredOnce, Answers
    <3> QED
      BY <2>2, <3>1, <3>2
  <2> QED
    BY <2>3, <2>4
<1>5. CASE Replay
  <2>1. UNCHANGED <<errors, alive>>
    BY <1>5 DEF Replay, clientVars, workerVars
  <2>2. \A k \in Workers, i \in Ids : i \in given'[k] => i \in given[k]
    BY <1>5, GivenGrows, SetFacts DEF ReaderWrites, Snapshot, Replay
  <2> QED
    BY <1>00, <2>1, <2>2 DEF LostIsNeverRun
<1>6. CASE ReplayFails
  BY <1>0, <1>00, <1>6 DEF ReplayFails, ReplayFailed, Ends, readerVars, clientVars, LostIsNeverRun, Types, WorkerTypes, MainTypes
<1>7. CASE ServeOutputEnded
  BY <1>0, <1>00, <1>7 DEF ServeOutputEnded, Ends, Waits, readerVars, clientVars, LostIsNeverRun, Types, WorkerTypes, MainTypes
<1>8. CASE AnswerPending
  <2>1. alive' = alive /\ main = "answering" /\ given' = given
    BY <1>8 DEF AnswerPending, workerVars, readerVars
  <2>2. \A k \in Workers : ~alive[k]
    BY <1>0, <2>1, SetFacts DEF Lifecycle, GivenUp, Former, ToCome, Types, MainTypes
  <2> QED
    BY <2>1, <2>2 DEF LostIsNeverRun
<1>9. CASE ShutDown
  BY <1>0, <1>00, <1>9 DEF ShutDown, Ends, Waits, readerVars, clientVars, LostIsNeverRun, Types, WorkerTypes, MainTypes
<1> QED
  BY <1>u, <1>1, <1>2, <1>3, <1>4, <1>5, <1>6, <1>7, <1>8, <1>9, Writers DEF Written

\* The reader holds nothing that had its error.
LEMMA HeldIsNotLostStep ==
    ASSUME Inv1, Inv3, Inv4, Inv5, [Next]_vars
    PROVE  HeldIsNotLost'
<1>0. Types /\ InHand /\ Lifecycle /\ AbandonedIsSilent
  BY DEF Inv1
<1>00. /\ OfGivens /\ Answered /\ Unsent /\ Held /\ Noted /\ HelloKnown /\ NonePending /\ Heard /\ Quiet
       /\ UnsentUntouched /\ WaitingUntouched /\ PendingUnanswered /\ TakenUnanswered /\ HeldIsNotLost
       /\ GivenIsNotLost /\ OnlyHello /\ Debts /\ AnsweredOnce /\ LostIsNeverRun
  BY DEF Inv3, Inv4, Inv5, Unanswered
<1>u. CASE UNCHANGED <<reader, line, errors, alive, number>>
  BY <1>00, <1>u, RunningBefore DEF HeldIsNotLost
<1>1. CASE ReaderAccepts
  <2>1. UNCHANGED <<errors, alive>> /\ reader = "waiting" /\ line' = [line EXCEPT !.to = worker]
    BY <1>1 DEF ReaderAccepts, workerVars, clientVars
  <2>2. line'.of = line.of /\ line'.cancel = line.cancel
    BY <1>0, <2>1 DEF Types, ReaderTypes
  <2>3. line.of \in Ids /\ ~line.cancel => errors[line.of] = 0
    BY <1>00, <2>1 DEF WaitingUntouched
  <2> QED
    BY <2>1, <2>2, <2>3 DEF HeldIsNotLost
<1>2. CASE ReaderWrites
  BY <1>0, <1>00, SetFacts, <1>2 DEF ReaderWrites, NoLine, mainVars, clientVars, HeldIsNotLost, Types, ReaderTypes
<1>3. CASE ReaderGone
  BY <1>0, <1>00, SetFacts, <1>3 DEF ReaderGone, Send, Event, mainVars, workerVars, clientVars, HeldIsNotLost, Types, ReaderTypes
<1>4. ASSUME NEW l \in Lines, ClientSends(l) PROVE HeldIsNotLost'
  BY <1>0, <1>00, SetFacts, <1>4 DEF ClientSends, NoLine, mainVars, workerVars, HeldIsNotLost, Types, ReaderTypes
<1>5. ASSUME NEW r \in Requests, ClientCancels(r) PROVE HeldIsNotLost'
  BY <1>0, <1>00, SetFacts, <1>5 DEF ClientCancels, NoLine, mainVars, workerVars, HeldIsNotLost, Types, ReaderTypes
<1>6. CASE ClientCloses
  BY <1>0, <1>00, SetFacts, <1>6 DEF ClientCloses, mainVars, workerVars, clientVars, HeldIsNotLost, Types, ReaderTypes
<1>7. ASSUME NEW k \in Workers, NEW open \in BOOLEAN, WorkerDies(k, open) PROVE HeldIsNotLost'
  <2>1. UNCHANGED <<reader, line, errors, number>> /\ alive' = [alive EXCEPT ![k] = FALSE]
    BY <1>7 DEF WorkerDies, readerVars, mainVars, clientVars
  <2>2. reader = "writing" => (alive'[line.to] => alive[line.to])
    BY <1>0, <2>1 DEF Types, ReaderTypes, WorkerTypes
  <2> QED
    BY <1>00, <2>1, <2>2, RunningBefore DEF HeldIsNotLost
<1>8. CASE Spawn
  <2>1. UNCHANGED <<errors, reader, line, number>> /\ alive' = [alive EXCEPT ![number] = TRUE] /\ main = "top"
    BY <1>8 DEF Spawn, Waits, readerVars, clientVars
  <2>2. reader = "writing" => line.to \in Workers /\ line.to # number
    BY <1>0, <2>1 DEF Types, ReaderTypes, InHand
  <2>3. reader = "writing" => alive'[line.to] = alive[line.to]
    BY <1>0, <2>1, <2>2 DEF Types, WorkerTypes
  <2> QED
    BY <1>00, <2>1, <2>2, <2>3 DEF HeldIsNotLost, Running
<1>9. CASE ReplayFails
  <2>1. UNCHANGED <<reader, line, errors, number>> /\ alive' = [alive EXCEPT ![number] = FALSE]
    BY <1>9 DEF ReplayFails, ReplayFailed, Ends, readerVars, clientVars
  <2>2. reader = "writing" => (alive'[line.to] => alive[line.to])
    BY <1>0, <2>1 DEF Types, ReaderTypes, WorkerTypes
  <2> QED
    BY <1>00, <2>1, <2>2, RunningBefore DEF HeldIsNotLost
<1>10. CASE ServeOutputEnded
  <2>1. UNCHANGED <<reader, line, errors, number>> /\ alive' = [alive EXCEPT ![number] = FALSE]
    BY <1>10 DEF ServeOutputEnded, Ends, Waits, readerVars, clientVars
  <2>2. reader = "writing" => (alive'[line.to] => alive[line.to])
    BY <1>0, <2>1 DEF Types, ReaderTypes, WorkerTypes
  <2> QED
    BY <1>00, <2>1, <2>2, RunningBefore DEF HeldIsNotLost
<1>11. CASE AnswerPending
  <2>1. UNCHANGED <<reader, line, alive>> /\ main = "answering"
    BY <1>11 DEF AnswerPending, workerVars, readerVars
  <2>2. \A k \in Workers : ~alive[k]
    BY <1>0, <2>1, SetFacts DEF Lifecycle, GivenUp, Former, ToCome, Types, MainTypes
  <2>3. reader = "writing" => line.to \in Workers /\ line.to <= number
    BY <1>0 DEF Types, ReaderTypes, InHand
  <2>4. Running' => number' = number + 1
    BY <1>11 DEF AnswerPending, Running
  <2>5. reader = "writing" /\ Running' => line.to # number'
    BY <1>0, <2>3, <2>4, SetFacts DEF Types, MainTypes
  <2> QED
    BY <2>1, <2>2, <2>3, <2>5 DEF HeldIsNotLost
<1>12. CASE ShutDown
  <2>1. UNCHANGED <<reader, line, errors, number>> /\ alive' = [alive EXCEPT ![number] = FALSE]
    BY <1>12 DEF ShutDown, Ends, Waits, readerVars, clientVars
  <2>2. reader = "writing" => (alive'[line.to] => alive[line.to])
    BY <1>0, <2>1 DEF Types, ReaderTypes, WorkerTypes
  <2> QED
    BY <1>00, <2>1, <2>2, RunningBefore DEF HeldIsNotLost
<1> QED
  BY <1>u, <1>1, <1>2, <1>3, <1>4, <1>5, <1>6, <1>7, <1>8, <1>9, <1>10, <1>11, <1>12, Writers DEF Written

\* Nor was the current worker given any.
LEMMA GivenIsNotLostStep ==
    ASSUME Inv1, Inv3, Inv4, Inv5, [Next]_vars
    PROVE  GivenIsNotLost'
<1>0. Types /\ InHand /\ Lifecycle /\ AbandonedIsSilent
  BY DEF Inv1
<1>00. /\ OfGivens /\ Answered /\ Unsent /\ Held /\ Noted /\ HelloKnown /\ NonePending /\ Heard /\ Quiet
       /\ UnsentUntouched /\ WaitingUntouched /\ PendingUnanswered /\ TakenUnanswered /\ HeldIsNotLost
       /\ GivenIsNotLost /\ OnlyHello /\ Debts /\ AnsweredOnce /\ LostIsNeverRun
  BY DEF Inv3, Inv4, Inv5, Unanswered
<1>u. CASE UNCHANGED <<number, given, errors>>
  BY <1>00, <1>u, RunningBefore DEF GivenIsNotLost
<1>1. CASE ReaderWrites
  <2>1. UNCHANGED <<number, errors>> /\ Running
    BY <1>1 DEF ReaderWrites, mainVars, clientVars
  <2>2. SUFFICES ASSUME NEW k \in Workers, k = number, NEW i \in Ids, i \in given'[k] PROVE errors[i] = 0
    BY <2>1 DEF GivenIsNotLost
  <2>3. CASE i \in given[k]
    BY <1>00, <2>1, <2>2, <2>3 DEF GivenIsNotLost
  <2>4. CASE i \notin given[k]
    <3>1. i = line.of /\ k = line.to /\ ~line.cancel
      BY <2>2, <2>4, <1>1, GivenGrows, SetFacts DEF ReaderWrites, Snapshot, Replay
    <3> QED
      BY <1>00, <2>1, <2>2, <3>1, <1>1 DEF ReaderWrites, HeldIsNotLost
  <2> QED
    BY <2>3, <2>4
<1>2. CASE Snapshot
  <2>n. \A i \in Ids : results[i] \in Nat /\ errors[i] \in Nat
    BY <1>0 DEF Types, ClientTypes
  <2>1. UNCHANGED <<number, errors>> /\ Running
    BY <1>2 DEF Snapshot, clientVars, Running
  <2>2. SUFFICES ASSUME NEW k \in Workers, k = number, NEW i \in Ids, i \in given'[k] PROVE errors[i] = 0
    BY <2>1 DEF GivenIsNotLost
  <2>3. CASE i \in given[k]
    BY <1>00, <2>1, <2>2, <2>3 DEF GivenIsNotLost
  <2>4. CASE i \notin given[k]
    <3>1. i = Hello /\ hello = "answered"
      BY <2>2, <2>4, <1>2, GivenGrows, SetFacts DEF ReaderWrites, Snapshot, Replay
    <3> QED
      BY <1>00, <2>n, <3>1, SetFacts DEF HelloKnown, AnsweredOnce, Answers
  <2> QED
    BY <2>3, <2>4
<1>3. CASE Replay
  <2>1. UNCHANGED <<number, errors>> /\ Running
    BY <1>3 DEF Replay, clientVars, Running
  <2>2. \A k \in Workers, i \in Ids : i \in given'[k] => i \in given[k]
    BY <1>3, GivenGrows, SetFacts DEF ReaderWrites, Snapshot, Replay
  <2> QED
    BY <1>00, <2>1, <2>2 DEF GivenIsNotLost
<1>4. CASE AnswerPending
  <2>1. given' = given /\ (Running' => number' = number + 1)
    BY <1>4 DEF AnswerPending, readerVars, Running
  <2>2. \A k \in Workers : Running' /\ k = number' => given[k] = {}
    BY <1>0, <2>1 DEF Types, MainTypes, Lifecycle, ToCome, Fresh
  <2> QED
    BY <2>1, <2>2 DEF GivenIsNotLost
<1> QED
  BY <1>u, <1>1, <1>2, <1>3, <1>4, Writers DEF Written

\* A worker that swallows was given the initialize alone.
LEMMA OnlyHelloStep ==
    ASSUME Inv1, Inv3, Inv4, Inv5, [Next]_vars
    PROVE  OnlyHello'
<1>0. Types /\ InHand /\ Lifecycle /\ AbandonedIsSilent
  BY DEF Inv1
<1>00. /\ OfGivens /\ Answered /\ Unsent /\ Held /\ Noted /\ HelloKnown /\ NonePending /\ Heard /\ Quiet
       /\ UnsentUntouched /\ WaitingUntouched /\ PendingUnanswered /\ TakenUnanswered /\ HeldIsNotLost
       /\ GivenIsNotLost /\ OnlyHello /\ Debts /\ AnsweredOnce /\ LostIsNeverRun
  BY DEF Inv3, Inv4, Inv5, Unanswered
<1>u. CASE UNCHANGED <<number, swallow, given, worker, reader, line, main>>
  BY <1>0, <1>00, <1>u DEF OnlyHello
<1>1. CASE ReaderAccepts
  <2>1. UNCHANGED <<number, swallow, given, worker, main>> /\ worker # None
    BY <1>1 DEF ReaderAccepts, mainVars, pumpVars
  <2> QED
    BY <1>00, <2>1 DEF OnlyHello
<1>2. CASE ReaderWrites
  <2>1. UNCHANGED <<number, swallow, worker, main>> /\ reader = "writing" /\ reader' = "reading"
    BY <1>2 DEF ReaderWrites, mainVars, pumpVars, session
  <2>2. \A k \in Workers : k # line.to => given'[k] = given[k]
    BY <1>0, <1>2 DEF ReaderWrites, Types, WorkerTypes, ReaderTypes
  <2> QED
    BY <1>00, <2>1, <2>2 DEF OnlyHello
<1>3. CASE ReaderGone
  BY <1>0, <1>00, <1>3 DEF ReaderGone, Send, Event, session, mainVars, pumpVars, OnlyHello, Lifecycle, Served
<1>4. ASSUME NEW l \in Lines, ClientSends(l) PROVE OnlyHello'
  BY <1>0, <1>00, <1>4 DEF ClientSends, NoLine, session, mainVars, pumpVars, OnlyHello, Lifecycle, Served
<1>5. ASSUME NEW r \in Requests, ClientCancels(r) PROVE OnlyHello'
  BY <1>0, <1>00, <1>5 DEF ClientCancels, NoLine, session, mainVars, pumpVars, OnlyHello, Lifecycle, Served
<1>6. CASE ClientCloses
  BY <1>0, <1>00, <1>6 DEF ClientCloses, mainVars, pumpVars, OnlyHello, Lifecycle, Served
<1>7. ASSUME NEW k \in Workers, PumpSwallows(k) PROVE OnlyHello'
  <2>1. UNCHANGED <<number, given, worker, reader, line, main>>
    BY <1>7 DEF PumpSwallows, session, readerVars, mainVars
  <2>2. \A j \in Workers : swallow'[j] => swallow[j]
    BY <1>0, <1>7 DEF PumpSwallows, Types, PumpTypes
  <2> QED
    BY <1>00, <2>1, <2>2 DEF OnlyHello
<1>8. CASE NoNewWorker
  <2>1. \A k \in Workers : k = number => ~swallow[k]
    BY <1>0, <1>8 DEF NoNewWorker, Lifecycle, ToCome, Fresh
  <2>2. UNCHANGED <<number, swallow>>
    BY <1>8 DEF NoNewWorker, Waits, Idle, pumpVars
  <2> QED
    BY <2>1, <2>2 DEF OnlyHello
<1>9. CASE SpawnFails
  <2>1. \A k \in Workers : k = number => ~swallow[k]
    BY <1>0, <1>9 DEF SpawnFails, Lifecycle, ToCome, Fresh
  <2>2. UNCHANGED <<number, swallow>>
    BY <1>9 DEF SpawnFails, Waits, Idle, pumpVars
  <2> QED
    BY <2>1, <2>2 DEF OnlyHello
<1>10. CASE Spawn
  <2>1. \A k \in Workers : k = number => ~swallow[k]
    BY <1>0, <1>10 DEF Spawn, Lifecycle, ToCome, Fresh
  <2>2. UNCHANGED <<number, swallow>>
    BY <1>10 DEF Spawn, Waits, Idle, pumpVars
  <2> QED
    BY <2>1, <2>2 DEF OnlyHello
<1>11. CASE Snapshot
  <2>1. UNCHANGED <<number, worker, reader, line>> /\ main = "snapshot"
    BY <1>11 DEF Snapshot, session
  <2>2. worker = None
    BY <1>0, <2>1 DEF Lifecycle, Served
  <2>3. SUFFICES ASSUME NEW k \in Workers, k = number, swallow'[k]
                 PROVE  given'[k] \subseteq {Hello} /\ (reader = "writing" => line.to # k) /\ main' = "replaying"
    BY <2>1, <2>2 DEF OnlyHello
  <2>4. given[k] = {} /\ ~swallow[k]
    BY <2>3, <1>11, StreamStarts
  <2>5. hello = "answered" /\ main' = "replaying"
    BY <2>3, <2>4, <1>11 DEF Snapshot
  <2>6. given'[k] \subseteq {Hello}
    BY <2>4, <1>11, GivenGrows DEF ReaderWrites, Snapshot, Replay
  <2>7. reader = "writing" => line.to # k
    BY <1>0, <2>1, <2>3 DEF InHand
  <2> QED
    BY <2>5, <2>6, <2>7
<1>12. CASE Replay
  <2>1. UNCHANGED <<number, worker, reader, line, swallow>> /\ main = "replaying" /\ number \in Workers
    BY <1>0, <1>12 DEF Replay, session, pumpVars, Types, MainTypes
  <2>2. CASE ReplayedWell(Head(events))
    <3>1. Head(events) = events[1] /\ 1 \in 1..Len(events)
      BY <1>0, <1>12, TailElements DEF Types, Replay
    <3>2. ~swallow[number]
      BY <1>00, <2>2, <3>1 DEF Heard, ReplayedWell
    <3> QED
      BY <2>1, <3>2 DEF OnlyHello
  <2>3. CASE ~ReplayedWell(Head(events))
    <3>1. given' = given /\ main' \in {"shutDown", "replaying"}
      BY <2>3, <1>12 DEF Replay
    <3> QED
      BY <1>00, <2>1, <3>1 DEF OnlyHello
  <2> QED
    BY <2>2, <2>3
<1>13. CASE ReplayFails
  BY <1>0, <1>00, <1>13 DEF ReplayFails, ReplayFailed, Ends, session, readerVars, OnlyHello, Lifecycle, Served
<1>14. CASE Open
  BY <1>0, <1>00, <1>14 DEF Open, readerVars, pumpVars, OnlyHello, Lifecycle, Served
<1>15. CASE Serve
  BY <1>0, <1>00, <1>15 DEF Serve, Waits, session, readerVars, pumpVars, OnlyHello, Lifecycle, Served
<1>16. CASE ServeOutputEnded
  BY <1>0, <1>00, <1>16 DEF ServeOutputEnded, Ends, Waits, session, readerVars, pumpVars, OnlyHello, Lifecycle, Served
<1>17. CASE Died
  BY <1>0, <1>00, <1>17 DEF Died, readerVars, pumpVars, OnlyHello, Lifecycle, Served
<1>18. CASE Drain
  BY <1>0, <1>00, <1>18 DEF Drain, Waits, session, readerVars, pumpVars, OnlyHello, Lifecycle, Served
<1>19. CASE DrainTimesOut
  BY <1>0, <1>00, <1>19 DEF DrainTimesOut, Idle, session, readerVars, pumpVars, OnlyHello, Lifecycle, Served
<1>20. CASE Abandon
  BY <1>0, <1>00, <1>20 DEF Abandon, session, readerVars, OnlyHello, Lifecycle, Served
<1>21. CASE TakePending
  BY <1>00, <1>21 DEF TakePending, readerVars, pumpVars, OnlyHello
<1>22. CASE AnswerPending
  <2>1. UNCHANGED <<swallow, given, worker, reader, line>> /\ main = "answering"
    BY <1>22 DEF AnswerPending, session, readerVars, pumpVars
  <2>2. CASE number' = number
    BY <1>00, <2>1, <2>2 DEF OnlyHello
  <2>3. CASE number' = number + 1
    <3>1. \A k \in Workers : k = number' => ~swallow[k]
      BY <1>0, <2>3 DEF Types, MainTypes, Lifecycle, ToCome, Fresh
    <3> QED
      BY <2>1, <3>1 DEF OnlyHello
  <2> QED
    BY <1>22, <2>2, <2>3 DEF AnswerPending
<1>23. CASE EndLineAndStop
  BY <1>0, <1>00, <1>23 DEF EndLineAndStop, EndTheLine, session, readerVars, pumpVars, OnlyHello, Lifecycle, Served
<1>24. CASE ShutDown
  BY <1>0, <1>00, <1>24 DEF ShutDown, Ends, Waits, session, readerVars, pumpVars, OnlyHello, Lifecycle, Served
<1>25. CASE LastWords
  BY <1>0, <1>00, <1>25 DEF LastWords, Waits, session, readerVars, pumpVars, OnlyHello, Lifecycle, Served
<1>26. CASE LastWordsTimeOut
  BY <1>0, <1>00, <1>26 DEF LastWordsTimeOut, Idle, session, readerVars, pumpVars, OnlyHello, Lifecycle, Served
<1> QED
  BY <1>u, <1>1, <1>2, <1>3, <1>4, <1>5, <1>6, <1>7, <1>8, <1>9, <1>10, <1>11, <1>12, <1>13, <1>14, <1>15, <1>16, <1>17, <1>18, <1>19, <1>20, <1>21, <1>22, <1>23, <1>24, <1>25, <1>26, Writers DEF Written, Main

\* The endings left when the first piece is taken are those after it.
LEMMA EndingTail ==
    ASSUME NEW s \in Seq(Pieces), s # <<>>, NEW n \in Nat, NEW i, Ending(Tail(s), n, i)
    PROVE  n + 1 \in Nat /\ n + 1 # 1 /\ Ending(s, n + 1, i)
<1>1. Len(Tail(s)) \in Nat /\ \A m \in 1..Len(Tail(s)) : m + 1 \in 1..Len(s) /\ Tail(s)[m] = s[m + 1]
  BY TailElements, LenProperties
<1> QED
  BY <1>1 DEF Ending

\* A piece more is an ending more at most.
LEMMA EndingAppend ==
    ASSUME NEW s \in Seq(Pieces), NEW e \in Pieces, NEW n \in Nat, NEW i, Ending(Append(s, e), n, i)
    PROVE  Ending(s, n, i) \/ (n = Len(s) + 1 /\ e.ends /\ e.id = i)
<1>1. /\ Append(s, e)[Len(s) + 1] = e
      /\ \A m \in 1..Len(s) : Append(s, e)[m] = s[m]
      /\ \A m \in 1..Len(Append(s, e)) : m \in 1..Len(s) \/ m = Len(s) + 1
  BY AppendElements
<1> QED
  BY <1>1 DEF Ending

\* Every ending is of what was given.
LEMMA EndingIsGiven ==
    ASSUME Types, OfGivens, NEW k \in Workers, NEW n \in Nat, NEW i, Ending(Stream(k), n, i)
    PROVE  i \in given[k]
<1>0. Rest(k) \in Seq(Pieces) /\ pipe[k] \in Seq(Pieces) /\ chunk[k] \in Seq(Pieces)
  BY StreamType DEF Types, PumpTypes
<1>1. /\ Len(Rest(k)) \in Nat /\ Len(pipe[k]) \in Nat /\ Len(Stream(k)) = Len(Rest(k)) + Len(pipe[k])
      /\ \A m \in 1..Len(Rest(k)) + Len(pipe[k]) :
            Stream(k)[m] = IF m <= Len(Rest(k)) THEN Rest(k)[m] ELSE pipe[k][m - Len(Rest(k))]
  BY <1>0, ConcatProperties, LenProperties DEF Stream
<1>2. n \in 1..Len(Rest(k)) + Len(pipe[k]) /\ Stream(k)[n].id = i
  BY <1>1 DEF Ending
<1>3. CASE n <= Len(Rest(k))
  <2>1. n \in 1..Len(Rest(k)) /\ Stream(k)[n] = Rest(k)[n]
    BY <1>1, <1>2, <1>3
  <2>2. CASE pump[k] # "noting"
    <3>1. Rest(k) = chunk[k]
      BY <2>2 DEF Rest
    <3> QED
      BY <1>2, <2>1, <3>1 DEF OfGivens, OfGiven
  <2>3. CASE pump[k] = "noting"
    <3>1. Rest(k) = Tail(chunk[k]) /\ chunk[k] # <<>>
      BY <2>3 DEF Rest, Types, PumpTypes
    <3>2. \A m \in 1..Len(Tail(chunk[k])) : m + 1 \in 1..Len(chunk[k]) /\ Tail(chunk[k])[m] = chunk[k][m + 1]
      BY <1>0, <3>1, TailElements
    <3>3. n + 1 \in 1..Len(chunk[k]) /\ Stream(k)[n] = chunk[k][n + 1]
      BY <2>1, <3>1, <3>2
    <3> QED
      BY <1>2, <3>3 DEF OfGivens, OfGiven
  <2> QED
    BY <2>2, <2>3
<1>4. CASE ~(n <= Len(Rest(k)))
  <2>1. n - Len(Rest(k)) \in 1..Len(pipe[k]) /\ Stream(k)[n] = pipe[k][n - Len(Rest(k))]
    BY <1>1, <1>2, <1>4
  <2> QED
    BY <1>2, <2>1 DEF OfGivens, OfGiven
<1> QED
  BY <1>3, <1>4

\* Each answer is to come once, and has not come.
LEMMA DebtsStep ==
    ASSUME Inv1, Inv3, Inv4, Inv5, [Next]_vars
    PROVE  Debts'
<1>0. Types /\ InHand /\ Lifecycle /\ AbandonedIsSilent
  BY DEF Inv1
<1>00. /\ OfGivens /\ Answered /\ Unsent /\ Held /\ Noted /\ HelloKnown /\ NonePending /\ Heard /\ Quiet
       /\ UnsentUntouched /\ WaitingUntouched /\ PendingUnanswered /\ TakenUnanswered /\ HeldIsNotLost
       /\ GivenIsNotLost /\ OnlyHello /\ Debts /\ AnsweredOnce /\ LostIsNeverRun
  BY DEF Inv3, Inv4, Inv5, Unanswered
<1>u. CASE UNCHANGED <<number, pump, chunk, pipe, swallow, inbox, results>>
  <2>1. SUFFICES ASSUME NEW j \in Workers, (j = number /\ Running /\ Pumping(j))' PROVE (OneOfEach(j) /\ NotYet(j))'
    BY DEF Debts
  <2>2. OneOfEach(j) /\ NotYet(j)
    BY <1>00, <1>u, <2>1, RunningBefore DEF Debts, Pumping
  <2>3. Stream(j)' = Stream(j)
    BY <1>u DEF Stream, Rest
  <2> QED
    BY <1>u, <2>2, <2>3 DEF OneOfEach, NotYet, Owes
<1>1. CASE ReaderWrites
  <2>1. SUFFICES ASSUME NEW j \in Workers, (j = number /\ Running /\ Pumping(j))' PROVE (OneOfEach(j) /\ NotYet(j))'
    BY DEF Debts
  <2>2. UNCHANGED <<number, pump, chunk, pipe, swallow, results>> /\ Running /\ reader = "writing"
    BY <1>1 DEF ReaderWrites, mainVars, pumpVars, clientVars
  <2>3. OneOfEach(j) /\ NotYet(j)
    BY <1>00, <2>1, <2>2 DEF Debts, Pumping
  <2>4. Stream(j)' = Stream(j)
    BY <2>2 DEF Stream, Rest
  <2>5. CASE inbox'[j] = inbox[j]
    BY <2>2, <2>3, <2>4, <2>5 DEF OneOfEach, NotYet, Owes
  <2>6. CASE inbox'[j] # inbox[j]
    <3>1. ~line.cancel /\ inbox'[j] = inbox[j] \cup ({line.of} \cap Ids)
      BY <1>0, <2>6, <1>1 DEF ReaderWrites, Types, WorkerTypes
    <3>2. line.of \in Ids /\ inbox'[j] = inbox[j] \cup {line.of}
      BY <2>6, <3>1
    <3>3. NotGiven(line.of)
      BY <1>00, <2>2, <3>1, <3>2 DEF Held
    <3>4. results[line.of] = 0
      BY <1>0, <1>00, <3>2, <3>3 DEF Answered, Types, ClientTypes
    <3>5. \A n \in Nat : ~Ending(Stream(j), n, line.of)
      BY <1>0, <1>00, <3>3, EndingIsGiven DEF NotGiven
    <3>6. OneOfEach(j)'
      BY <2>3, <2>4, <3>2, <3>5 DEF OneOfEach
    <3>7. NotYet(j)'
      BY <2>2, <2>3, <2>4, <3>2, <3>4 DEF NotYet, Owes
    <3> QED
      BY <3>6, <3>7
  <2> QED
    BY <2>5, <2>6
<1>2. ASSUME NEW k \in Workers, NEW i \in Ids, WorkerBegins(k, i) PROVE Debts'
  <2>1. SUFFICES ASSUME NEW j \in Workers, (j = number /\ Running /\ Pumping(j))' PROVE (OneOfEach(j) /\ NotYet(j))'
    BY DEF Debts
  <2>2. UNCHANGED <<number, pump, chunk, swallow, results>> /\ Running
    BY <1>2 DEF WorkerBegins, mainVars, pumpVars, clientVars
  <2>3. OneOfEach(j) /\ NotYet(j)
    BY <1>00, <2>1, <2>2 DEF Debts, Pumping
  <2>4. PICK e \in Pieces : e = [id |-> i, ends |-> FALSE, ok |-> TRUE] /\ e.ends = FALSE
    BY PieceFacts
  <2>5. CASE j # k
    <3>1. Stream(j)' = Stream(j) /\ inbox'[j] = inbox[j]
      BY <1>0, <2>2, <2>4, <2>5, <1>2, StreamGrows DEF WorkerBegins, Types, WorkerTypes
    <3> QED
      BY <2>2, <2>3, <3>1 DEF OneOfEach, NotYet, Owes
  <2>6. CASE j = k
    <3>1. Stream(k)' = Append(Stream(k), e) /\ Stream(k) \in Seq(Pieces)
      BY <1>0, <2>2, <2>4, <1>2, StreamGrows, StreamType DEF WorkerBegins
    <3>2. \A n \in Nat, m \in Ids : Ending(Stream(k)', n, m) => Ending(Stream(k), n, m)
      BY <2>4, <3>1, EndingAppend
    <3>3. inbox' = inbox
      BY <1>2 DEF WorkerBegins
    <3>8. OneOfEach(k)'
      BY <2>3, <2>6, <3>2, <3>3 DEF OneOfEach
    <3>9. NotYet(k)'
      BY <2>2, <2>3, <2>6, <3>2, <3>3 DEF NotYet, Owes
    <3> QED
      BY <2>6, <3>8, <3>9
  <2> QED
    BY <2>5, <2>6
<1>3. ASSUME NEW k \in Workers, NEW ok \in BOOLEAN, WorkerEnds(k, ok) PROVE Debts'
  <2>1. SUFFICES ASSUME NEW j \in Workers, (j = number /\ Running /\ Pumping(j))' PROVE (OneOfEach(j) /\ NotYet(j))'
    BY DEF Debts
  <2>2. UNCHANGED <<number, pump, chunk, swallow, results>> /\ Running
    BY <1>3 DEF WorkerEnds, mainVars, pumpVars, clientVars
  <2>3. OneOfEach(j) /\ NotYet(j)
    BY <1>00, <2>1, <2>2 DEF Debts, Pumping
  <2>0. half[k] \in Ids /\ half[k] \in inbox[k]
    BY <1>0, <1>00, <1>3 DEF WorkerEnds, Types, WorkerTypes, OfGivens, OfGiven
  <2>4. PICK e \in Pieces : e = [id |-> half[k], ends |-> TRUE, ok |-> ok] /\ e.id = half[k]
    BY <2>0, PieceFacts
  <2>5. CASE j # k
    <3>1. Stream(j)' = Stream(j) /\ inbox'[j] = inbox[j]
      BY <1>0, <2>2, <2>4, <2>5, <1>3, StreamGrows DEF WorkerEnds, Types, WorkerTypes
    <3> QED
      BY <2>2, <2>3, <3>1 DEF OneOfEach, NotYet, Owes
  <2>6. CASE j = k
    <3>1. Stream(k)' = Append(Stream(k), e) /\ Stream(k) \in Seq(Pieces)
      BY <1>0, <2>2, <2>4, <1>3, StreamGrows, StreamType DEF WorkerEnds
    <3>2. \A n \in Nat, m \in Ids : Ending(Stream(k)', n, m) =>
             Ending(Stream(k), n, m) \/ (n = Len(Stream(k)) + 1 /\ m = half[k])
      BY <2>4, <3>1, EndingAppend
    <3>3. inbox'[k] = inbox[k] \ {half[k]}
      BY <1>0, <1>3 DEF WorkerEnds, Types, WorkerTypes
    <3>4. \A n \in Nat : ~Ending(Stream(k), n, half[k])
      BY <2>0, <2>3, <2>6 DEF OneOfEach
    <3>8. OneOfEach(k)'
      BY <2>0, <2>3, <2>6, <3>2, <3>3, <3>4 DEF OneOfEach
    <3>9. NotYet(k)'
      BY <2>0, <2>2, <2>3, <2>6, <3>2, <3>3 DEF NotYet, Owes
    <3> QED
      BY <2>6, <3>8, <3>9
  <2> QED
    BY <2>5, <2>6
<1>4. ASSUME NEW k \in Workers, PumpReads(k) PROVE Debts'
  <2>1. SUFFICES ASSUME NEW j \in Workers, (j = number /\ Running /\ Pumping(j))' PROVE (OneOfEach(j) /\ NotYet(j))'
    BY DEF Debts
  <2>2. Pumping(j) /\ Stream(j)' = Stream(j)
    BY <2>1, <1>4, StreamStays
  <2>3. UNCHANGED <<number, inbox, swallow, results>> /\ Running
    BY <1>4 DEF PumpReads, mainVars, workerVars, clientVars
  <2>4. OneOfEach(j) /\ NotYet(j)
    BY <1>00, <2>1, <2>2, <2>3 DEF Debts
  <2> QED
    BY <2>2, <2>3, <2>4 DEF OneOfEach, NotYet, Owes
<1>5. ASSUME NEW k \in Workers, PumpEnds(k) PROVE Debts'
  <2>1. SUFFICES ASSUME NEW j \in Workers, (j = number /\ Running /\ Pumping(j))' PROVE (OneOfEach(j) /\ NotYet(j))'
    BY DEF Debts
  <2>2. Pumping(j) /\ Stream(j)' = Stream(j)
    BY <2>1, <1>5, StreamStays
  <2>3. UNCHANGED <<number, inbox, swallow, results>> /\ Running
    BY <1>5 DEF PumpEnds, mainVars, workerVars, clientVars
  <2>4. OneOfEach(j) /\ NotYet(j)
    BY <1>00, <2>1, <2>2, <2>3 DEF Debts
  <2> QED
    BY <2>2, <2>3, <2>4 DEF OneOfEach, NotYet, Owes
<1>6. ASSUME NEW k \in Workers, PumpLocks(k) PROVE Debts'
  <2>1. SUFFICES ASSUME NEW j \in Workers, (j = number /\ Running /\ Pumping(j))' PROVE (OneOfEach(j) /\ NotYet(j))'
    BY DEF Debts
  <2>2. Pumping(j) /\ Stream(j)' = Stream(j)
    BY <2>1, <1>6, StreamStays
  <2>3. UNCHANGED <<number, inbox, swallow, results>> /\ Running
    BY <1>6 DEF PumpLocks, mainVars, workerVars, clientVars
  <2>4. OneOfEach(j) /\ NotYet(j)
    BY <1>00, <2>1, <2>2, <2>3 DEF Debts
  <2> QED
    BY <2>2, <2>3, <2>4 DEF OneOfEach, NotYet, Owes
<1>7. ASSUME NEW k \in Workers, PumpWrites(k) PROVE Debts'
  <2>1. SUFFICES ASSUME NEW j \in Workers, (j = number /\ Running /\ Pumping(j))' PROVE (OneOfEach(j) /\ NotYet(j))'
    BY DEF Debts
  <2>2. UNCHANGED <<number, inbox>> /\ Running
    BY <1>7 DEF PumpWrites, mainVars, workerVars
  <2>3. /\ Stream(k) # <<>> /\ Head(Stream(k)) = Head(chunk[k]) /\ Stream(k)' = Tail(Stream(k))
        /\ k = number /\ chunk[k] \in Seq(Pieces) /\ chunk[k] # <<>> /\ pump[k] = "writing"
    BY <1>7, StreamPops
  <2>4. j = k /\ Stream(k) \in Seq(Pieces)
    BY <1>0, <2>1, <2>2, <2>3, StreamType
  <2>5. OneOfEach(k) /\ NotYet(k)
    BY <1>00, <2>2, <2>3 DEF Debts, Pumping
  <2>6. 1 \in 1..Len(Stream(k)) /\ Stream(k)[1] = Head(chunk[k]) /\ Head(chunk[k]).id \in Ids
    <3>1. Len(Stream(k)) \in Nat \ {0} /\ Head(Stream(k)) = Stream(k)[1] /\ Head(Stream(k)) \in Pieces
      BY <2>3, <2>4, TailElements
    <3> QED
      BY <2>3, <3>1, PieceFacts
  <2>7. \A n \in Nat, i \in Ids : Ending(Stream(k)', n, i) => n + 1 \in Nat /\ n + 1 # 1 /\ Ending(Stream(k), n + 1, i)
    BY <2>3, <2>4, EndingTail
  <2>8. OneOfEach(k)'
    <3>1. SUFFICES ASSUME NEW i \in Ids, NEW n \in Nat, Ending(Stream(k)', n, i)
                   PROVE  i \notin inbox[k] /\ \A m \in Nat : Ending(Stream(k)', m, i) => m = n
      BY <2>2 DEF OneOfEach
    <3>2. Ending(Stream(k), n + 1, i) /\ n + 1 \in Nat
      BY <2>7, <3>1
    <3>3. ASSUME NEW m \in Nat, Ending(Stream(k)', m, i) PROVE m = n
      <4>1. Ending(Stream(k), m + 1, i) /\ m + 1 \in Nat
        BY <2>7, <3>3
      <4>2. m + 1 = n + 1
        BY <2>5, <3>2, <4>1 DEF OneOfEach
      <4> QED
        BY <4>2
    <3> QED
      BY <2>5, <3>2, <3>3 DEF OneOfEach
  <2>9. ASSUME NEW i \in Ids, Owes(k, i)' PROVE Owes(k, i) /\ ~(Head(chunk[k]).ends /\ Head(chunk[k]).id = i)
    <3>0. Head(chunk[k]).ends /\ Head(chunk[k]).id = i => Ending(Stream(k), 1, i)
      BY <2>6 DEF Ending
    <3>1. CASE i \in inbox[k]
      BY <2>5, <3>0, <3>1 DEF OneOfEach, Owes
    <3>2. CASE i \notin inbox[k]
      <4>1. PICK n \in Nat : Ending(Stream(k)', n, i)
        BY <2>2, <2>9, <3>2 DEF Owes
      <4>2. n + 1 \in Nat /\ n + 1 # 1 /\ Ending(Stream(k), n + 1, i)
        BY <2>7, <4>1
      <4>3. ~Ending(Stream(k), 1, i)
        BY <2>5, <4>2 DEF OneOfEach
      <4> QED
        BY <3>0, <4>2, <4>3 DEF Owes
    <3> QED
      BY <3>1, <3>2
  <2>10. NotYet(k)'
    <3>1. ~swallow[k]
      BY <1>7 DEF PumpWrites
    <3>2. ASSUME NEW i \in Ids, Owes(k, i)' PROVE results'[i] = 0
      <4>1. results[i] = 0
        BY <2>5, <2>9, <3>1, <3>2 DEF NotYet
      <4>2. results'[i] = results[i]
        BY <1>0, <2>9, <3>2, <1>7 DEF PumpWrites, ClientReads, Types, ClientTypes
      <4> QED
        BY <4>1, <4>2
    <3> QED
      BY <3>2 DEF NotYet
  <2> QED
    BY <2>4, <2>8, <2>10
<1>8. ASSUME NEW k \in Workers, PumpNotes(k) PROVE Debts'
  <2>1. SUFFICES ASSUME NEW j \in Workers, (j = number /\ Running /\ Pumping(j))' PROVE (OneOfEach(j) /\ NotYet(j))'
    BY DEF Debts
  <2>2. Pumping(j) /\ Stream(j)' = Stream(j)
    BY <2>1, <1>8, StreamStays
  <2>3. UNCHANGED <<number, inbox, swallow, results>> /\ Running
    BY <1>8 DEF PumpNotes, mainVars, workerVars, clientVars
  <2>4. OneOfEach(j) /\ NotYet(j)
    BY <1>00, <2>1, <2>2, <2>3 DEF Debts
  <2> QED
    BY <2>2, <2>3, <2>4 DEF OneOfEach, NotYet, Owes
<1>9. ASSUME NEW k \in Workers, PumpSwallows(k) PROVE Debts'
  <2>1. SUFFICES ASSUME NEW j \in Workers, (j = number /\ Running /\ Pumping(j))' PROVE (OneOfEach(j) /\ NotYet(j))'
    BY DEF Debts
  <2>2. UNCHANGED <<number, inbox>> /\ Running
    BY <1>9 DEF PumpSwallows, mainVars, workerVars
  <2>3. /\ Stream(k) # <<>> /\ Head(Stream(k)) = Head(chunk[k]) /\ Stream(k)' = Tail(Stream(k))
        /\ k = number /\ chunk[k] \in Seq(Pieces) /\ chunk[k] # <<>> /\ pump[k] = "writing"
    BY <1>9, StreamPops
  <2>4. j = k /\ Stream(k) \in Seq(Pieces)
    BY <1>0, <2>1, <2>2, <2>3, StreamType
  <2>5. OneOfEach(k) /\ NotYet(k)
    BY <1>00, <2>2, <2>3 DEF Debts, Pumping
  <2>6. 1 \in 1..Len(Stream(k)) /\ Stream(k)[1] = Head(chunk[k]) /\ Head(chunk[k]).id \in Ids
    <3>1. Len(Stream(k)) \in Nat \ {0} /\ Head(Stream(k)) = Stream(k)[1] /\ Head(Stream(k)) \in Pieces
      BY <2>3, <2>4, TailElements
    <3> QED
      BY <2>3, <3>1, PieceFacts
  <2>7. \A n \in Nat, i \in Ids : Ending(Stream(k)', n, i) => n + 1 \in Nat /\ n + 1 # 1 /\ Ending(Stream(k), n + 1, i)
    BY <2>3, <2>4, EndingTail
  <2>8. OneOfEach(k)'
    <3>1. SUFFICES ASSUME NEW i \in Ids, NEW n \in Nat, Ending(Stream(k)', n, i)
                   PROVE  i \notin inbox[k] /\ \A m \in Nat : Ending(Stream(k)', m, i) => m = n
      BY <2>2 DEF OneOfEach
    <3>2. Ending(Stream(k), n + 1, i) /\ n + 1 \in Nat
      BY <2>7, <3>1
    <3>3. ASSUME NEW m \in Nat, Ending(Stream(k)', m, i) PROVE m = n
      <4>1. Ending(Stream(k), m + 1, i) /\ m + 1 \in Nat
        BY <2>7, <3>3
      <4>2. m + 1 = n + 1
        BY <2>5, <3>2, <4>1 DEF OneOfEach
      <4> QED
        BY <4>2
    <3> QED
      BY <2>5, <3>2, <3>3 DEF OneOfEach
  <2>9. ASSUME NEW i \in Ids, Owes(k, i)' PROVE Owes(k, i) /\ ~(Head(chunk[k]).ends /\ Head(chunk[k]).id = i)
    <3>0. Head(chunk[k]).ends /\ Head(chunk[k]).id = i => Ending(Stream(k), 1, i)
      BY <2>6 DEF Ending
    <3>1. CASE i \in inbox[k]
      BY <2>5, <3>0, <3>1 DEF OneOfEach, Owes
    <3>2. CASE i \notin inbox[k]
      <4>1. PICK n \in Nat : Ending(Stream(k)', n, i)
        BY <2>2, <2>9, <3>2 DEF Owes
      <4>2. n + 1 \in Nat /\ n + 1 # 1 /\ Ending(Stream(k), n + 1, i)
        BY <2>7, <4>1
      <4>3. ~Ending(Stream(k), 1, i)
        BY <2>5, <4>2 DEF OneOfEach
      <4> QED
        BY <3>0, <4>2, <4>3 DEF Owes
    <3> QED
      BY <3>1, <3>2
  <2>10. NotYet(k)'
    <3>1. CASE swallow'[k]
      BY <3>1 DEF NotYet
    <3>2. CASE ~swallow'[k]
      <4>1. swallow[k] /\ Head(chunk[k]).ends /\ Head(chunk[k]).id = Hello
        BY <3>2, <1>9 DEF PumpSwallows
      <4>2. given[k] \subseteq {Hello}
        BY <1>00, <2>3, <4>1 DEF OnlyHello
      <4>3. ASSUME NEW i \in Ids, Owes(k, i)' PROVE FALSE
        <5>1. Owes(k, i) /\ i # Hello
          BY <2>9, <4>1, <4>3
        <5>2. i \in given[k]
          BY <1>0, <1>00, <5>1, EndingIsGiven DEF Owes, OfGivens, OfGiven
        <5> QED
          BY <4>2, <5>1, <5>2
      <4> QED
        BY <4>3 DEF NotYet
    <3> QED
      BY <3>1, <3>2
  <2> QED
    BY <2>4, <2>8, <2>10
<1>10. ASSUME NEW k \in Workers, PumpUnlocks(k) PROVE Debts'
  <2>1. SUFFICES ASSUME NEW j \in Workers, (j = number /\ Running /\ Pumping(j))' PROVE (OneOfEach(j) /\ NotYet(j))'
    BY DEF Debts
  <2>2. Pumping(j) /\ Stream(j)' = Stream(j)
    BY <2>1, <1>10, StreamStays
  <2>3. UNCHANGED <<number, inbox, swallow, results>> /\ Running
    BY <1>10 DEF PumpUnlocks, mainVars, workerVars, clientVars
  <2>4. OneOfEach(j) /\ NotYet(j)
    BY <1>00, <2>1, <2>2, <2>3 DEF Debts
  <2> QED
    BY <2>2, <2>3, <2>4 DEF OneOfEach, NotYet, Owes
<1>11. CASE Snapshot
  <2>1. SUFFICES ASSUME NEW j \in Workers, (j = number /\ Running /\ Pumping(j))' PROVE (OneOfEach(j) /\ NotYet(j))'
    BY DEF Debts
  <2>2. number' = number /\ j = number
    BY <2>1, <1>11 DEF Snapshot
  <2>3. Stream(j)' = <<>> /\ inbox[j] = {} /\ ~swallow[j]
    BY <2>2, <1>11, StreamStarts
  <2>4. \A n \in Nat, i \in Ids : ~Ending(Stream(j)', n, i)
    BY <2>3 DEF Ending
  <2>5. ~swallow'[j] => inbox'[j] = {}
    BY <1>0, <2>2, <2>3, <1>11 DEF Snapshot, Types, PumpTypes
  <2>6. OneOfEach(j)'
    BY <2>4 DEF OneOfEach
  <2>7. NotYet(j)'
    BY <2>4, <2>5 DEF NotYet, Owes
  <2> QED
    BY <2>6, <2>7
<1>12. CASE AnswerPending
  <2>1. SUFFICES ASSUME NEW j \in Workers, (j = number /\ Running /\ Pumping(j))' PROVE (OneOfEach(j) /\ NotYet(j))'
    BY DEF Debts
  <2>2. number' = number + 1 /\ pump' = pump
    BY <2>1, <1>12 DEF AnswerPending, pumpVars, Running
  <2>3. pump[j] = "none"
    BY <1>0, <2>1, <2>2 DEF Types, MainTypes, Lifecycle, ToCome, Fresh
  <2> QED
    BY <2>1, <2>2, <2>3 DEF Pumping
<1> QED
  BY <1>u, <1>1, <1>2, <1>3, <1>4, <1>5, <1>6, <1>7, <1>8, <1>9, <1>10, <1>11, <1>12, Writers DEF Written

\* The fifth invariant is inductive, when no pump stalls past the grace.
LEMMA Inv5Step ==
    ASSUME StallPastGrace = FALSE, Inv1, Inv3, Inv4, Inv5, [Next]_vars PROVE Inv5'
  BY HeardStep, QuietStep, UnsentUntouchedStep, WaitingUntouchedStep, PendingUnansweredStep, TakenUnansweredStep,
     HeldIsNotLostStep, GivenIsNotLostStep, OnlyHelloStep, DebtsStep, AnsweredOnceStep, LostIsNeverRunStep
     DEF Inv5, Unanswered

\* It holds at first.
LEMMA Inv5Init ==
    ASSUME Init PROVE Inv5
<1>1. Heard
  BY EmptySeq DEF Init, Heard
<1>2. Unanswered /\ AnsweredOnce
  BY DEF Init, Unanswered, UnsentUntouched, WaitingUntouched, PendingUnanswered, TakenUnanswered, AnsweredOnce, Answers
<1> QED
  BY <1>1, <1>2 DEF Init, Inv5, Quiet, HeldIsNotLost, GivenIsNotLost, OnlyHello, Debts, Pumping, LostIsNeverRun

\* Together.
LEMMA AllInvariants ==
    ASSUME StallPastGrace = FALSE
    PROVE  Spec => [](Inv1 /\ Inv3 /\ Inv4 /\ Inv5)
<1>1. Init => Inv1 /\ Inv3 /\ Inv4 /\ Inv5
  BY Inv1Init, Inv3Init, Inv4Init, Inv5Init
<1>2. Inv1 /\ Inv3 /\ Inv4 /\ Inv5 /\ [Next]_vars => Inv1' /\ Inv3' /\ Inv4' /\ Inv5'
  BY Inv1Step, Inv3Step, Inv4Step, Inv5Step
<1> QED
  BY <1>1, <1>2, PTL DEF Spec

\* AnsweredOnce, for any number of requests and workers, when no pump that has
\* output in its hands takes longer than EXIT_GRACE over it: no request has two
\* answers (pump, answer_pending_and_say).
THEOREM AnswersComeOnce ==
    ASSUME StallPastGrace = FALSE
    PROVE  Spec => []AnsweredOnce
<1>1. Inv5 => AnsweredOnce
  BY DEF Inv5
<1> QED
  BY <1>1, AllInvariants, PTL

\* LostIsNeverRun, likewise: a request answered by an error was given to no
\* worker that lives ("A request is never retried here", supervisor.rs:23).
THEOREM LostIsNotRun ==
    ASSUME StallPastGrace = FALSE
    PROVE  Spec => []LostIsNeverRun
<1>1. Inv5 => LostIsNeverRun
  BY DEF Inv5
<1> QED
  BY <1>1, AllInvariants, PTL
-----------------------------------------------------------------------------
\* The requests some worker was given, and those a living one was.
Ran == {i \in Ids : \E k \in Workers : i \in given[k]}
RunBy == {i \in Ids : \E k \in Workers : alive[k] /\ i \in given[k]}

\* A step that changes nothing of what the client sees or of what is run is none
\* of the service's.
LEMMA StuttersOrImplements ==
    ASSUME UNCHANGED <<sent, cancelled, results, errors>>, Ran' = Ran, RunBy' = RunBy
    PROVE  UNCHANGED Promise!serviceVars
  BY DEF Ran, RunBy, Promise!serviceVars

\* A worker's end takes from what is run, and changes nothing else.
LEMMA EndImplements ==
    ASSUME Types, NEW k \in Workers, alive' = [alive EXCEPT ![k] = FALSE],
           UNCHANGED <<sent, cancelled, results, errors, given>>
    PROVE  Promise!ServiceNext
<1>1. Ran' = Ran
  BY DEF Ran
<1>2. \A j \in Workers : alive'[j] => alive[j]
  BY DEF Types, WorkerTypes
<1>3. RunBy' \subseteq RunBy
  BY <1>2 DEF RunBy
<1>4. PICK S \in SUBSET Ids : RunBy' = RunBy \ S
  <2>1. RunBy \ RunBy' \in SUBSET Ids /\ RunBy' = RunBy \ (RunBy \ RunBy')
    BY <1>3 DEF RunBy
  <2> QED
    BY <2>1
<1>5. Promise!Dies(S)
  BY <1>1, <1>4 DEF Promise!Dies, Ran, RunBy
<1>6. S \in SUBSET Promise!Ids
  BY <1>4 DEF Promise!Ids, Ids
<1> QED
  BY <1>5, <1>6 DEF Promise!ServiceNext

\* One request more is given to a worker that lives.
LEMMA GivenImplements ==
    ASSUME Types, [Next]_vars, NEW k \in Workers, NEW l \in Lines, alive[k],
           given' = [given EXCEPT ![k] = given[k] \cup {l}],
           UNCHANGED <<sent, cancelled, results, errors, alive>>
    PROVE  /\ l \notin Ids => Ran' = Ran /\ RunBy' = RunBy
           /\ l \in Ids => Ran' = Ran \cup {l} /\ RunBy' = RunBy \cup {l}
<1>1. \A j \in Workers : given'[j] = IF j = k THEN given[j] \cup {l} ELSE given[j]
  BY DEF Types, WorkerTypes
<1>a. \A j \in Workers, x \in Ids : x \in given'[j] <=> x \in given[j] \/ (j = k /\ x = l)
  BY <1>1
<1>2. l \notin Ids => Ran' = Ran /\ RunBy' = RunBy
  BY <1>1 DEF Ran, RunBy
<1>3. ASSUME l \in Ids PROVE Ran' = Ran \cup {l} /\ RunBy' = RunBy \cup {l}
  <2>1. \A i \in Ids : (\E j \in Workers : i \in given'[j]) <=> (i = l \/ \E j \in Workers : i \in given[j])
    BY <1>a, Zenon
  <2>2. \A i \in Ids : (\E j \in Workers : alive[j] /\ i \in given'[j])
                       <=> (i = l \/ \E j \in Workers : alive[j] /\ i \in given[j])
    BY <1>a, Zenon
  <2> QED
    BY <1>3, <2>1, <2>2 DEF Ran, RunBy
<1> QED
  BY <1>2, <1>3

\* Every step of the parent, of its client and of its workers is one of the
\* service's, or none.
LEMMA StepImplements ==
    ASSUME Inv1, Inv3, Inv4, Inv5, [Next]_vars
    PROVE  [Promise!ServiceNext]_(Promise!serviceVars)
<1>0. Types /\ InHand /\ Lifecycle
  BY DEF Inv1
<1>00. /\ OfGivens /\ Answered /\ Unsent /\ Held /\ HelloKnown /\ UnsentUntouched /\ TakenUnanswered
       /\ HeldIsNotLost /\ AnsweredOnce
  BY DEF Inv3, Inv5, Unanswered
<1>n. \A i \in Ids : results[i] \in Nat /\ errors[i] \in Nat
  BY <1>0 DEF Types, ClientTypes
<1>i. Promise!Ids = Ids
  BY DEF Promise!Ids, Ids
<1>u. CASE UNCHANGED <<sent, cancelled, results, errors, given, alive>>
  <2>1. Ran' = Ran /\ RunBy' = RunBy
    BY <1>u DEF Ran, RunBy
  <2> QED
    BY <1>u, <2>1, StuttersOrImplements
<1>1. ASSUME NEW l \in Lines, ClientSends(l) PROVE Promise!ServiceNext
  <2>1. /\ l \notin sent /\ (l # Hello => results[Hello] > 0) /\ sent' = sent \cup {l}
        /\ UNCHANGED <<cancelled, results, errors, given, alive>>
    BY <1>1 DEF ClientSends, workerVars
  <2>2. Ran' = Ran /\ RunBy' = RunBy
    BY <2>1 DEF Ran, RunBy
  <2>3. Promise!Asks(l)
    BY <2>1, <2>2 DEF Promise!Asks, Ran, RunBy
  <2>4. l \in Ids \cup {Initialized}
    BY DEF Lines
  <2> QED
    BY <1>i, <2>3, <2>4 DEF Promise!ServiceNext
<1>2. ASSUME NEW r \in Requests, ClientCancels(r) PROVE Promise!ServiceNext
  <2>1. /\ r \in sent \ cancelled /\ results[r] = 0 /\ errors[r] = 0 /\ cancelled' = cancelled \cup {r}
        /\ UNCHANGED <<sent, results, errors, given, alive>>
    BY <1>2 DEF ClientCancels, workerVars
  <2>2. Ran' = Ran /\ RunBy' = RunBy
    BY <2>1 DEF Ran, RunBy
  <2>3. Promise!CancelsOne(r)
    BY <2>1, <2>2 DEF Promise!CancelsOne, Promise!NoAnswer, Ran, RunBy
  <2> QED
    BY <2>3 DEF Promise!ServiceNext
<1>3. ASSUME NEW k \in Workers, PumpWrites(k) PROVE [Promise!ServiceNext]_(Promise!serviceVars)
  <2> DEFINE i == Head(chunk[k]).id
  <2>1. UNCHANGED <<sent, cancelled, errors, given, alive>> /\ chunk[k] # <<>>
    BY <1>3 DEF PumpWrites, readerVars, workerVars
  <2>2. Ran' = Ran /\ RunBy' = RunBy
    BY <2>1 DEF Ran, RunBy
  <2>3. CASE ~Head(chunk[k]).ends
    <3>1. results' = results
      BY <1>3, <2>3 DEF PumpWrites, ClientReads
    <3> QED
      BY <2>1, <2>2, <3>1, StuttersOrImplements
  <2>4. CASE Head(chunk[k]).ends
    <3>1. results' = [results EXCEPT ![i] = results[i] + 1]
      BY <1>3, <2>4 DEF PumpWrites, ClientReads
    <3>2. i \in given[k] /\ i \in Ids
      BY <1>0, <1>00, <2>1, HeadWasGiven
    <3>3. AnsweredOnce'
      BY AnsweredOnceStep
    <3> HIDE DEF i
    <3>4. results'[i] = results[i] + 1
      BY <1>0, <3>1, <3>2 DEF Types, ClientTypes
    <3>5. results[i] = 0 /\ errors[i] = 0
      BY <1>n, <2>1, <3>2, <3>3, <3>4 DEF AnsweredOnce, Answers
    <3>6. results' = [results EXCEPT ![i] = 1]
      BY <3>1, <3>5
    <3>7. i \in Ran
      BY <3>2 DEF Ran
    <3>8. Promise!AnswersOne(i)
      BY <2>1, <2>2, <3>5, <3>6, <3>7 DEF Promise!AnswersOne, Promise!NoAnswer, Ran, RunBy
    <3> QED
      BY <1>i, <3>2, <3>8 DEF Promise!ServiceNext
  <2> QED
    BY <2>3, <2>4
<1>4. CASE AnswerPending
  <2>1. /\ main = "answering" /\ UNCHANGED <<sent, cancelled, results, given, alive>>
        /\ errors' = [i \in Ids |-> IF i \in taken THEN errors[i] + 1 ELSE errors[i]]
    BY <1>4 DEF AnswerPending, readerVars, workerVars
  <2>2. Ran' = Ran /\ RunBy' = RunBy
    BY <2>1 DEF Ran, RunBy
  <2>3. \A k \in Workers : ~alive[k]
    BY <1>0, <2>1, SetFacts DEF Lifecycle, GivenUp, Former, ToCome, Types, MainTypes
  <2>4. RunBy = {}
    BY <2>3 DEF RunBy
  <2>5. taken \subseteq Ids /\ \A i \in taken : results[i] + errors[i] = 0
    BY <1>0, <1>00, <2>1 DEF TakenUnanswered, Answers, Types, MainTypes
  <2>6. \A i \in taken : results[i] = 0 /\ errors[i] = 0
    BY <1>n, <2>5
  <2>7. taken \subseteq sent
    BY <1>00, <2>5 DEF UnsentUntouched
  <2>8. errors' = [i \in Ids |-> IF i \in taken THEN 1 ELSE errors[i]]
    BY <2>1, <2>6
  <2>9. Promise!Loses(taken)
    BY <1>i, <2>1, <2>2, <2>4, <2>6, <2>7, <2>8 DEF Promise!Loses, Promise!NoAnswer, Ran, RunBy
  <2> QED
    BY <1>i, <2>5, <2>9 DEF Promise!ServiceNext
<1>5. CASE ReaderWrites
  <2>1. UNCHANGED <<sent, cancelled, results, errors, alive>> /\ line.to \in Workers /\ line.of \in Lines
    BY <1>0, <1>5 DEF ReaderWrites, clientVars, Types, ReaderTypes
  <2>2. CASE ~(alive[line.to] /\ ~line.cancel)
    <3>1. given' = given
      BY <1>5, <2>2 DEF ReaderWrites
    <3> QED
      BY <1>u, <2>1, <3>1
  <2>3. CASE alive[line.to] /\ ~line.cancel
    <3>a. PICK i, k : i = line.of /\ k = line.to
      OBVIOUS
    <3>1. given' = [given EXCEPT ![k] = given[k] \cup {i}]
      BY <1>5, <2>3, <3>a DEF ReaderWrites
    <3>2. reader = "writing" /\ i \in sent /\ (i \in Ids => NotGiven(i) /\ (errors[i] > 0 => ~alive[k]))
      BY <1>00, <1>5, <2>3, <3>a DEF ReaderWrites, Held, HeldIsNotLost
    <3>3. i \in Lines /\ k \in Workers /\ alive[k]
      BY <2>1, <2>3, <3>a
    <3>4. /\ i \notin Ids => Ran' = Ran /\ RunBy' = RunBy
          /\ i \in Ids => Ran' = Ran \cup {i} /\ RunBy' = RunBy \cup {i}
      BY <1>0, <2>1, <3>1, <3>3, GivenImplements
    <3>5. CASE i \notin Ids
      BY <2>1, <3>4, <3>5, StuttersOrImplements
    <3>6. CASE i \in Ids
      <4>1. errors[i] = 0 /\ results[i] = 0
        BY <1>00, <1>n, <3>2, <3>3, <3>6 DEF Answered
      <4>2. i \in sent \ Ran
        BY <3>2, <3>6 DEF Ran, NotGiven
      <4>3. Promise!Runs(i)
        BY <2>1, <3>4, <3>6, <4>1, <4>2 DEF Promise!Runs, Promise!NoAnswer, Ran, RunBy
      <4> QED
        BY <1>i, <3>6, <4>3 DEF Promise!ServiceNext
    <3> QED
      BY <3>5, <3>6
  <2> QED
    BY <2>2, <2>3
<1>6. CASE Snapshot
  <2>1. UNCHANGED <<sent, cancelled, results, errors, alive>> /\ number \in Workers
    BY <1>0, <1>6 DEF Snapshot, clientVars, Types, MainTypes
  <2>2. CASE ~(hello = "answered" /\ alive[number])
    <3>1. given' = given
      BY <1>6, <2>2 DEF Snapshot
    <3> QED
      BY <1>u, <2>1, <3>1
  <2>3. CASE hello = "answered" /\ alive[number]
    <3>1. given' = [given EXCEPT ![number] = given[number] \cup {Hello}]
      BY <1>6, <2>3 DEF Snapshot
    <3>2. results[Hello] > 0 /\ ~NotGiven(Hello) /\ Hello \in Ids
      BY <1>00, <2>3, SetFacts DEF HelloKnown, Answered
    <3>3. Ran' = Ran \cup {Hello} /\ RunBy' = RunBy \cup {Hello}
      BY <1>0, <2>1, <2>3, <3>1, <3>2, SetFacts, GivenImplements
    <3>4. Hello \in Ran
      BY <3>2 DEF Ran, NotGiven
    <3>5. Ran' = Ran
      BY <3>3, <3>4
    <3>6. Promise!TakesOver
      BY <2>1, <3>2, <3>3, <3>5 DEF Promise!TakesOver, Ran, RunBy
    <3> QED
      BY <3>6 DEF Promise!ServiceNext
  <2> QED
    BY <2>2, <2>3
<1>7. CASE Replay
  <2>1. UNCHANGED <<sent, cancelled, results, errors, alive>> /\ number \in Workers
    BY <1>0, <1>7 DEF Replay, clientVars, workerVars, Types, MainTypes
  <2>2. \A k \in Workers, i \in Ids : i \in given'[k] <=> i \in given[k]
    BY <1>7, GivenGrows, SetFacts DEF ReaderWrites, Snapshot, Replay
  <2>3. Ran' = Ran /\ RunBy' = RunBy
    BY <2>1, <2>2 DEF Ran, RunBy
  <2> QED
    BY <2>1, <2>3, StuttersOrImplements
<1>8. ASSUME NEW k \in Workers, NEW open \in BOOLEAN, WorkerDies(k, open) PROVE Promise!ServiceNext
  <2>1. /\ alive' = [alive EXCEPT ![k] = FALSE]
        /\ UNCHANGED <<sent, cancelled, results, errors, given>>
    BY <1>8 DEF WorkerDies, readerVars, clientVars
  <2> QED
    BY <1>0, <2>1, EndImplements
<1>9. CASE ReplayFails \/ ServeOutputEnded \/ ShutDown
  <2>1. /\ alive' = [alive EXCEPT ![number] = FALSE] /\ number \in Workers
        /\ UNCHANGED <<sent, cancelled, results, errors, given>>
    BY <1>0, <1>9 DEF ReplayFails, ServeOutputEnded, ShutDown, Waits, Ends, readerVars, clientVars, Types, MainTypes
  <2> QED
    BY <1>0, <2>1, EndImplements
<1>10. CASE Spawn
  <2>1. /\ UNCHANGED <<sent, cancelled, results, errors, given>> /\ number \in Workers
        /\ alive' = [alive EXCEPT ![number] = TRUE]
    BY <1>10 DEF Spawn, Waits, readerVars, clientVars
  <2>2. given[number] = {}
    BY <1>0, <2>1, <1>10 DEF Spawn, Lifecycle, ToCome, Fresh
  <2>3. \A k \in Workers : k # number => alive'[k] = alive[k]
    BY <1>0, <2>1 DEF Types, WorkerTypes
  <2>4. Ran' = Ran /\ RunBy' = RunBy
    BY <2>1, <2>2, <2>3 DEF Ran, RunBy
  <2> QED
    BY <2>1, <2>4, StuttersOrImplements
<1> QED
  BY <1>u, <1>1, <1>2, <1>3, <1>4, <1>5, <1>6, <1>7, <1>8, <1>9, <1>10, Writers DEF Written

\* The parent keeps what its client is promised, for any number of requests and
\* workers and wherever a worker dies, when no pump that has output in its hands
\* takes longer than EXIT_GRACE over it: "A request is never retried here"
\* (supervisor.rs:23), a request has one answer, of the worker that ran it or an
\* error once it is not run, and a new worker takes over an answered initialize.
THEOREM KeepsThePromise ==
    ASSUME StallPastGrace = FALSE
    PROVE  Spec => ImplementsService
<1>1. Init => Promise!ServiceInit
  <2> SUFFICES ASSUME Init PROVE Promise!ServiceInit
    OBVIOUS
  <2>1. Ran = {} /\ RunBy = {}
    BY DEF Init, Ran, RunBy
  <2> QED
    BY <2>1 DEF Init, Promise!ServiceInit, Promise!Ids, Ids, Ran, RunBy
<1>2. Inv1 /\ Inv3 /\ Inv4 /\ Inv5 /\ [Next]_vars => [Promise!ServiceNext]_(Promise!serviceVars)
  BY StepImplements
<1> QED
  BY <1>1, <1>2, AllInvariants, PTL DEF Spec, ImplementsService, Promise!ServiceSpec
=============================================================================
