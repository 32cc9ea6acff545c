----------------------------- MODULE Supervisor -----------------------------
(***************************************************************************)
(* The parent of n0xis-mcp (crates/n0xis-mcp/src/supervisor.rs): it hands  *)
(* a client's lines to a worker, copies the worker's output back, and when *)
(* the worker dies answers what was lost and starts another.  Its threads  *)
(* are the main one (run, one_worker), the reader of the client            *)
(* (read_client) and one pump per worker.  They share the session (under   *)
(* its mutex: one step each), standard output (a lock held over several    *)
(* steps) and a channel of events to the main thread.                      *)
(*                                                                         *)
(* A line is an id; JSON-RPC ids are distinct.  A response goes through    *)
(* the pipe in two pieces, so that a worker can die in the middle of one.  *)
(***************************************************************************)
EXTENDS Naturals, Sequences, FiniteSets

CONSTANTS
    Requests,        \* the ids of the client's requests
    Hello,           \* the id of its initialize
    Initialized,     \* its notifications/initialized, which has no id
    None,
    MostDeaths,      \* MOST_DEATHS
    MaxWorkers,      \* bound of the model: the worker of this number lives on
    StallPastGrace   \* whether a pump that still has output in its hands may
                     \* take longer than EXIT_GRACE over it (a client that is
                     \* slow to read), or is always done by then

Ids == Requests \cup {Hello}
Lines == Ids \cup {Initialized}
Workers == 0..MaxWorkers

ASSUME SupervisorAssumption ==
    /\ Hello \notin Requests /\ Initialized \notin Ids
    /\ None \notin Lines \cup Workers
    /\ MostDeaths \in Nat /\ MaxWorkers \in Nat /\ StallPastGrace \in BOOLEAN

Pieces == [id: Ids, ends: BOOLEAN, ok: BOOLEAN]
Events == [kind: {"ClientGone", "OutputEnded", "Replayed"}, number: Workers, ok: BOOLEAN]

VARIABLES
    \* Session
    worker,      \* the number of the worker requests go to, or None
    pending,     \* requests with no response yet
    hello,       \* "none", "asked", or "answered": the client has its response
    initialized, \* the client has sent Initialized
    answered,    \* answered_since_death
    clientGone,
    \* the reader
    reader, line, given,
    \* the main thread
    main, number, outputEnded, taken, wasAnswered, deaths, events,
    \* the pumps
    pump, chunk, swallow, abandoned,
    \* standard output
    out,         \* who holds its lock
    midLine,
    \* the workers (external): what each was given and has yet to answer, the
    \* half line it is writing, its output pipe and whether that has a writer
    alive, inbox, half, pipe, writer,
    \* the client (external), as it sees the session
    sent, cancelled, results, errors, partial, torn

session == <<worker, pending, hello, initialized, answered, clientGone>>
readerVars == <<reader, line, given>>
mainVars == <<main, number, outputEnded, taken, wasAnswered, deaths>>
pumpVars == <<pump, chunk, swallow, abandoned>>
workerVars == <<alive, inbox, half, pipe, writer>>
clientVars == <<sent, cancelled, results, errors, partial, torn>>
vars == <<session, readerVars, mainVars, events, pumpVars, out, midLine, workerVars, clientVars>>

MainPcs == {"top", "snapshot", "replaying", "open", "serving", "died", "draining",
            "abandoning", "taking", "answering", "givingUp", "endingLine",
            "shutDown", "lastWords", "exited"}
PumpPcs == {"none", "reading", "chunk", "writing", "noting", "ended"}

TypeOK ==
    /\ worker \in Workers \cup {None}
    /\ pending \subseteq Ids
    /\ hello \in {"none", "asked", "answered"}
    /\ initialized \in BOOLEAN /\ answered \in BOOLEAN /\ clientGone \in BOOLEAN
    /\ reader \in {"reading", "waiting", "writing", "closing", "gone"}
    /\ line \in [cancel: BOOLEAN, of: Lines \cup {None}, to: Workers \cup {None}]
    /\ given \in [Workers -> SUBSET Lines]
    /\ main \in MainPcs /\ number \in 0..(MaxWorkers + 1)
    /\ outputEnded \in BOOLEAN /\ taken \subseteq Ids /\ wasAnswered \in BOOLEAN
    /\ deaths \in 0..(MostDeaths + 1)
    /\ events \in Seq(Events)
    /\ pump \in [Workers -> PumpPcs]
    /\ chunk \in [Workers -> Seq(Pieces)]
    /\ swallow \in [Workers -> BOOLEAN]
    /\ abandoned \in [Workers -> BOOLEAN]
    /\ out \in Workers \cup {None} /\ midLine \in BOOLEAN
    /\ alive \in [Workers -> BOOLEAN] /\ inbox \in [Workers -> SUBSET Ids]
    /\ half \in [Workers -> Ids \cup {None}]
    /\ pipe \in [Workers -> Seq(Pieces)] /\ writer \in [Workers -> BOOLEAN]
    /\ sent \subseteq Lines /\ cancelled \subseteq Ids
    /\ results \in [Ids -> Nat] /\ errors \in [Ids -> Nat]
    /\ partial \in Ids \cup {None} /\ torn \in BOOLEAN

NoLine == [cancel |-> FALSE, of |-> None, to |-> None]

Init ==
    /\ worker = None /\ pending = {} /\ hello = "none"
    /\ initialized = FALSE /\ answered = FALSE /\ clientGone = FALSE
    /\ reader = "reading" /\ line = NoLine /\ given = [k \in Workers |-> {}]
    /\ main = "top" /\ number = 0 /\ outputEnded = FALSE /\ taken = {}
    /\ wasAnswered = FALSE /\ deaths = 0 /\ events = <<>>
    /\ pump = [k \in Workers |-> "none"] /\ chunk = [k \in Workers |-> <<>>]
    /\ swallow = [k \in Workers |-> FALSE] /\ abandoned = [k \in Workers |-> FALSE]
    /\ out = None /\ midLine = FALSE
    /\ alive = [k \in Workers |-> FALSE] /\ inbox = [k \in Workers |-> {}]
    /\ half = [k \in Workers |-> None] /\ pipe = [k \in Workers |-> <<>>]
    /\ writer = [k \in Workers |-> FALSE]
    /\ sent = {} /\ cancelled = {}
    /\ results = [i \in Ids |-> 0] /\ errors = [i \in Ids |-> 0]
    /\ partial = None /\ torn = FALSE

Running == main # "exited"
Event(kind, k, ok) == [kind |-> kind, number |-> k, ok |-> ok]
Send(e) == events' = Append(events, e)

-----------------------------------------------------------------------------
(* read_client, and the client behind it. *)

\* A line arrives: initialize first, then, once that is answered, the rest.
ClientSends(l) ==
    /\ Running /\ reader = "reading"
    /\ l \notin sent
    /\ l # Hello => results[Hello] > 0
    /\ sent' = sent \cup {l}
    /\ reader' = "waiting" /\ line' = [NoLine EXCEPT !.of = l]
    /\ UNCHANGED <<session, given, mainVars, events, pumpVars, out, midLine, workerVars,
                   cancelled, results, errors, partial, torn>>

\* notifications/cancelled, for a request the client has had no answer to.
ClientCancels(r) ==
    /\ Running /\ reader = "reading"
    /\ r \in (sent \cap Requests) \ cancelled
    /\ results[r] = 0 /\ errors[r] = 0
    /\ cancelled' = cancelled \cup {r}
    /\ reader' = "waiting" /\ line' = [NoLine EXCEPT !.of = r, !.cancel = TRUE]
    /\ UNCHANGED <<session, given, mainVars, events, pumpVars, out, midLine, workerVars,
                   sent, results, errors, partial, torn>>

\* Under the session's lock, once there is a worker: track the line, and
\* take the worker it goes to.
ReaderAccepts ==
    /\ Running /\ reader = "waiting" /\ worker # None
    /\ reader' = "writing" /\ line' = [line EXCEPT !.to = worker]
    /\ pending' = IF line.cancel THEN pending \ {line.of}
                  ELSE pending \cup ({line.of} \cap Ids)
    /\ hello' = IF line.of = Hello THEN "asked" ELSE hello
    /\ initialized' = (initialized \/ line.of = Initialized)
    /\ UNCHANGED <<worker, answered, clientGone, given, mainVars, events, pumpVars, out,
                   midLine, workerVars, clientVars>>

\* With a mistake: the line goes to the worker there is when it is written.
WriteToTheLatest ==
    /\ Running /\ reader = "writing"
    /\ reader' = "reading" /\ line' = NoLine
    /\ IF worker # None /\ ~line.cancel
       THEN /\ given' = [given EXCEPT ![worker] = @ \cup {line.of}]
            /\ inbox' = [inbox EXCEPT ![worker] = @ \cup ({line.of} \cap Ids)]
       ELSE UNCHANGED <<given, inbox>>
    /\ UNCHANGED <<session, mainVars, events, pumpVars, out, midLine, alive, half, pipe,
                   writer, clientVars>>

\* Not under the lock.  A failed write is a worker that has died.
ReaderWrites ==
    /\ Running /\ reader = "writing"
    /\ reader' = "reading" /\ line' = NoLine
    /\ IF alive[line.to] /\ ~line.cancel
       THEN /\ given' = [given EXCEPT ![line.to] = @ \cup {line.of}]
            /\ inbox' = [inbox EXCEPT ![line.to] = @ \cup ({line.of} \cap Ids)]
       ELSE UNCHANGED <<given, inbox>>
    /\ UNCHANGED <<session, mainVars, events, pumpVars, out, midLine, alive, half, pipe,
                   writer, clientVars>>

ClientCloses ==
    /\ Running /\ reader = "reading"
    /\ reader' = "closing"
    /\ clientGone' = TRUE /\ worker' = None
    /\ UNCHANGED <<pending, hello, initialized, answered, line, given, mainVars, events,
                   pumpVars, out, midLine, workerVars, clientVars>>

ReaderGone ==
    /\ Running /\ reader = "closing"
    /\ reader' = "gone"
    /\ Send(Event("ClientGone", 0, TRUE))
    /\ UNCHANGED <<session, line, given, mainVars, pumpVars, out, midLine, workerVars, clientVars>>

Reader == ReaderAccepts \/ ReaderWrites \/ ReaderGone
Client == (\E l \in Lines : ClientSends(l)) \/ (\E r \in Requests : ClientCancels(r)) \/ ClientCloses

-----------------------------------------------------------------------------
(* The workers (external): the server proper, as this parent sees it. *)

\* The first piece of a response.
WorkerBegins(k, i) ==
    /\ Running /\ alive[k] /\ writer[k] /\ half[k] = None
    /\ i \in inbox[k]
    /\ half' = [half EXCEPT ![k] = i]
    /\ pipe' = [pipe EXCEPT ![k] = Append(@, [id |-> i, ends |-> FALSE, ok |-> TRUE])]
    /\ UNCHANGED <<session, readerVars, mainVars, events, pumpVars, out, midLine, alive,
                   inbox, writer, clientVars>>

\* The last one; ok tells a result from an error.
WorkerEnds(k, ok) ==
    /\ Running /\ alive[k] /\ writer[k] /\ half[k] # None
    /\ half' = [half EXCEPT ![k] = None]
    /\ pipe' = [pipe EXCEPT ![k] = Append(@, [id |-> half[k], ends |-> TRUE, ok |-> ok])]
    /\ inbox' = [inbox EXCEPT ![k] = @ \ {half[k]}]
    /\ UNCHANGED <<session, readerVars, mainVars, events, pumpVars, out, midLine, alive,
                   writer, clientVars>>

\* A worker exits: it has crashed, or its input has been closed.  A process
\* it started may keep its output open.
WorkerDies(k, open) ==
    /\ Running /\ alive[k] /\ (k < MaxWorkers \/ clientGone)
    /\ alive' = [alive EXCEPT ![k] = FALSE]
    /\ writer' = [writer EXCEPT ![k] = @ /\ open]
    /\ UNCHANGED <<session, readerVars, mainVars, events, pumpVars, out, midLine, inbox,
                   half, pipe, clientVars>>

\* A worker closes its output and stays, or the process that kept a dead
\* worker's output open exits.
OutputCloses(k) ==
    /\ Running /\ writer[k] /\ (k < MaxWorkers \/ clientGone)
    /\ writer' = [writer EXCEPT ![k] = FALSE]
    /\ UNCHANGED <<session, readerVars, mainVars, events, pumpVars, out, midLine, alive,
                   inbox, half, pipe, clientVars>>

Worker(k) ==
    \/ \E i \in Ids : WorkerBegins(k, i)
    \/ \E ok \in BOOLEAN : WorkerEnds(k, ok)
    \/ \E open \in BOOLEAN : WorkerDies(k, open)
    \/ OutputCloses(k)

-----------------------------------------------------------------------------
(* pump: copies worker k's output to the client by chunks. *)

PumpReads(k) ==
    /\ Running /\ pump[k] = "reading" /\ pipe[k] # <<>>
    /\ \E n \in 1..Len(pipe[k]) :
          /\ chunk' = [chunk EXCEPT ![k] = SubSeq(pipe[k], 1, n)]
          /\ pipe' = [pipe EXCEPT ![k] = SubSeq(pipe[k], n + 1, Len(pipe[k]))]
    /\ pump' = [pump EXCEPT ![k] = "chunk"]
    /\ UNCHANGED <<session, readerVars, mainVars, events, swallow, abandoned, out, midLine,
                   alive, inbox, half, writer, clientVars>>

\* read gives 0: the end of the output.
PumpEnds(k) ==
    /\ Running /\ pump[k] = "reading" /\ pipe[k] = <<>> /\ ~writer[k]
    /\ pump' = [pump EXCEPT ![k] = "ended"]
    /\ Send(Event("OutputEnded", k, TRUE))
    /\ UNCHANGED <<session, readerVars, mainVars, chunk, swallow, abandoned, out, midLine,
                   workerVars, clientVars>>

\* With a mistake: it is not looked at under the lock.
PumpWritesOn(k) ==
    /\ Running /\ pump[k] = "chunk" /\ out = None
    /\ pump' = [pump EXCEPT ![k] = "writing"] /\ out' = k
    /\ UNCHANGED <<session, readerVars, mainVars, events, chunk, swallow, abandoned, midLine,
                   workerVars, clientVars>>

\* Standard output's lock, and under it whether this worker was given up on.
PumpLocks(k) ==
    /\ Running /\ pump[k] = "chunk" /\ out = None
    /\ IF abandoned[k]
       THEN pump' = [pump EXCEPT ![k] = "ended"] /\ chunk' = [chunk EXCEPT ![k] = <<>>]
            /\ UNCHANGED out
       ELSE pump' = [pump EXCEPT ![k] = "writing"] /\ out' = k /\ UNCHANGED chunk
    /\ UNCHANGED <<session, readerVars, mainVars, events, swallow, abandoned,
                   midLine, workerVars, clientVars>>

\* What the client makes of a piece: the end of the line it is in the middle
\* of, or, between lines, the start of one.
ClientReads(p) ==
    IF p.ends
    THEN /\ torn' = (torn \/ partial # p.id)
         /\ partial' = None
         /\ results' = [results EXCEPT ![p.id] = @ + 1]
    ELSE /\ torn' = (torn \/ partial # None)
         /\ partial' = p.id
         /\ UNCHANGED results

\* A piece is written and, with its end, the line is known for what it is.
PumpWrites(k) ==
    /\ Running /\ pump[k] = "writing" /\ chunk[k] # <<>> /\ ~swallow[k]
    /\ LET p == Head(chunk[k]) IN
       /\ ClientReads(p)
       /\ midLine' = ~p.ends
       /\ IF p.ends
          THEN pump' = [pump EXCEPT ![k] = "noting"] /\ UNCHANGED chunk
          ELSE chunk' = [chunk EXCEPT ![k] = Tail(@)] /\ UNCHANGED pump
    /\ UNCHANGED <<session, readerVars, mainVars, events, swallow, abandoned, out,
                   workerVars, sent, cancelled, errors>>

\* With a mistake: the response stays pending.
NoteForgets(k) ==
    /\ Running /\ pump[k] = "noting"
    /\ hello' = IF Head(chunk[k]).id = Hello THEN "answered" ELSE hello
    /\ chunk' = [chunk EXCEPT ![k] = Tail(@)]
    /\ pump' = [pump EXCEPT ![k] = "writing"]
    /\ UNCHANGED <<worker, pending, answered, initialized, clientGone, readerVars, mainVars,
                   events, swallow, abandoned, out, midLine, workerVars, clientVars>>

\* Session::answered, once the client has the response.
PumpNotes(k) ==
    /\ Running /\ pump[k] = "noting"
    /\ LET i == Head(chunk[k]).id IN
       /\ answered' = (answered \/ i \in pending)
       /\ pending' = pending \ {i}
       /\ hello' = IF i = Hello THEN "answered" ELSE hello
    /\ chunk' = [chunk EXCEPT ![k] = Tail(@)]
    /\ pump' = [pump EXCEPT ![k] = "writing"]
    /\ UNCHANGED <<worker, initialized, clientGone, readerVars, mainVars, events, swallow,
                   abandoned, out, midLine, workerVars, clientVars>>

\* The response to the initialize given again is swallowed.
PumpSwallows(k) ==
    /\ Running /\ pump[k] = "writing" /\ chunk[k] # <<>> /\ swallow[k]
    /\ LET p == Head(chunk[k]) IN
       IF p.ends /\ p.id = Hello
       THEN /\ swallow' = [swallow EXCEPT ![k] = FALSE]
            /\ Send(Event("Replayed", k, p.ok))
       ELSE UNCHANGED <<swallow, events>>
    /\ chunk' = [chunk EXCEPT ![k] = Tail(@)]
    /\ UNCHANGED <<session, readerVars, mainVars, pump, abandoned, out, midLine, workerVars,
                   clientVars>>

PumpUnlocks(k) ==
    /\ Running /\ pump[k] = "writing" /\ chunk[k] = <<>>
    /\ pump' = [pump EXCEPT ![k] = "reading"]
    /\ out' = None
    /\ UNCHANGED <<session, readerVars, mainVars, events, chunk, swallow, abandoned, midLine,
                   workerVars, clientVars>>

Pump(k) ==
    \/ PumpReads(k)
    \/ PumpEnds(k)
    \/ PumpLocks(k)
    \/ PumpWrites(k)
    \/ PumpNotes(k)
    \/ PumpSwallows(k)
    \/ PumpUnlocks(k)

-----------------------------------------------------------------------------
(* The main thread: run, one_worker and what they call. *)

Waits == UNCHANGED <<session, readerVars, pumpVars, out, midLine, clientVars>>
Idle == UNCHANGED <<session, readerVars, events, pumpVars, out, midLine, workerVars, clientVars>>

\* What becomes of a worker that is waited for and killed if it stays.
Ends(k) ==
    /\ alive' = [alive EXCEPT ![k] = FALSE]
    /\ \E open \in BOOLEAN : writer' = [writer EXCEPT ![k] = @ /\ open]
    /\ UNCHANGED <<inbox, half, pipe>>

NoNewWorker ==
    /\ main = "top" /\ number > 0 /\ clientGone
    /\ main' = "exited"
    /\ UNCHANGED <<number, outputEnded, taken, wasAnswered, deaths>>
    /\ Idle

SpawnFails ==
    /\ main = "top" /\ (number = 0 \/ ~clientGone)
    /\ main' = "givingUp"
    /\ UNCHANGED <<number, outputEnded, taken, wasAnswered, deaths>>
    /\ Idle

Spawn ==
    /\ main = "top" /\ (number = 0 \/ ~clientGone) /\ number \in Workers
    /\ main' = "snapshot" /\ outputEnded' = FALSE
    /\ alive' = [alive EXCEPT ![number] = TRUE]
    /\ writer' = [writer EXCEPT ![number] = TRUE]
    /\ UNCHANGED <<number, taken, wasAnswered, deaths, events, inbox, half, pipe>>
    /\ Waits

\* What the new worker is given again is read here, once; the pump starts.
\* The write fails, unnoticed, if the worker has died.
Snapshot ==
    /\ main = "snapshot"
    /\ pump' = [pump EXCEPT ![number] = "reading"]
    /\ IF hello = "answered"
       THEN /\ main' = "replaying"
            /\ swallow' = [swallow EXCEPT ![number] = TRUE]
            /\ IF alive[number]
               THEN /\ given' = [given EXCEPT ![number] = @ \cup {Hello}]
                    /\ inbox' = [inbox EXCEPT ![number] = @ \cup {Hello}]
               ELSE UNCHANGED <<given, inbox>>
       ELSE main' = "open" /\ UNCHANGED <<swallow, given, inbox>>
    /\ UNCHANGED <<session, reader, line, number, outputEnded, taken, wasAnswered, deaths, events,
                   chunk, abandoned, out, midLine, alive, half, pipe, writer, clientVars>>

\* The next event while the answer to the initialize given again is awaited.
ReplayedWell(e) == e.kind = "Replayed" /\ e.number = number /\ e.ok
ReplayFailed(e) ==
    \/ e.kind = "Replayed" /\ e.number = number /\ ~e.ok
    \/ e.kind = "OutputEnded" /\ e.number = number

\* With a mistake: notifications/initialized is not given again.
ReplayOnlyHello ==
    /\ main = "replaying" /\ events # <<>>
    /\ LET e == Head(events) IN
       /\ ~ReplayFailed(e)
       /\ main' = IF ReplayedWell(e) THEN "open"
                  ELSE IF e.kind = "ClientGone" THEN "shutDown" ELSE "replaying"
    /\ events' = Tail(events)
    /\ UNCHANGED <<session, readerVars, number, outputEnded, taken, wasAnswered, deaths,
                   pumpVars, out, midLine, workerVars, clientVars>>

\* notifications/initialized follows.  It is the one read with the initialize:
\* the reader changes neither while there is no worker.
Replay ==
    /\ main = "replaying" /\ events # <<>>
    /\ LET e == Head(events) IN
       /\ ~ReplayFailed(e)
       /\ main' = IF ReplayedWell(e) THEN "open"
                  ELSE IF e.kind = "ClientGone" THEN "shutDown" ELSE "replaying"
       /\ given' = IF ReplayedWell(e) /\ initialized /\ alive[number]
                   THEN [given EXCEPT ![number] = @ \cup {Initialized}] ELSE given
    /\ events' = Tail(events)
    /\ UNCHANGED <<session, reader, line, number, outputEnded, taken, wasAnswered, deaths,
                   pumpVars, out, midLine, workerVars, clientVars>>

\* With a mistake: no deadline.
ReplayWaits ==
    /\ main = "replaying" /\ events # <<>> /\ ReplayFailed(Head(events))
    /\ events' = Tail(events)
    /\ outputEnded' = (Head(events).kind = "OutputEnded")
    /\ Ends(number)
    /\ abandoned' = [abandoned EXCEPT ![number] = TRUE]
    /\ main' = "givingUp"
    /\ UNCHANGED <<session, readerVars, number, taken, wasAnswered, deaths, pump, chunk,
                   swallow, out, midLine, clientVars>>

\* An error, the end of its output, or REPLAY_DEADLINE: this worker is killed.
ReplayFails ==
    /\ main = "replaying"
    /\ events # <<>> => ReplayFailed(Head(events))
    /\ events' = IF events = <<>> THEN <<>> ELSE Tail(events)
    /\ outputEnded' = (events # <<>> /\ Head(events).kind = "OutputEnded")
    /\ Ends(number)
    /\ abandoned' = [abandoned EXCEPT ![number] = TRUE]
    /\ main' = "givingUp"
    /\ UNCHANGED <<session, readerVars, number, taken, wasAnswered, deaths, pump, chunk,
                   swallow, out, midLine, clientVars>>

\* Requests go to this worker from here on, and a line that waits is woken.
Open ==
    /\ main = "open"
    /\ IF clientGone
       THEN main' = "shutDown" /\ UNCHANGED worker
       ELSE main' = "serving" /\ worker' = number
    /\ UNCHANGED <<pending, hello, initialized, answered, clientGone, readerVars, number,
                   outputEnded, taken, wasAnswered, deaths, events, pumpVars, out, midLine,
                   workerVars, clientVars>>

\* With a mistake: the end of the output is the only sign of a death.
ServeWithoutPoll ==
    /\ main = "serving" /\ events # <<>>
    /\ LET e == Head(events) IN
       /\ ~(e.kind = "OutputEnded" /\ e.number = number)
       /\ main' = IF e.kind = "ClientGone" THEN "shutDown" ELSE "serving"
    /\ events' = Tail(events)
    /\ UNCHANGED <<number, outputEnded, taken, wasAnswered, deaths, workerVars>>
    /\ Waits

\* An event that says nothing of this worker's end, or POLL; then try_wait.
Serve ==
    /\ main = "serving"
    /\ events = <<>> => ~alive[number]
    /\ IF events = <<>> THEN main' = "died" /\ UNCHANGED events
       ELSE LET e == Head(events) IN
            /\ ~(e.kind = "OutputEnded" /\ e.number = number)
            /\ main' = IF e.kind = "ClientGone" THEN "shutDown"
                       ELSE IF alive[number] THEN "serving" ELSE "died"
            /\ events' = Tail(events)
    /\ UNCHANGED <<number, outputEnded, taken, wasAnswered, deaths, workerVars>>
    /\ Waits

\* The worker closed its output: it exits within EXIT_GRACE or is killed.
\* One that cannot be waited for ends the session.
ServeOutputEnded ==
    /\ main = "serving" /\ events # <<>>
    /\ Head(events).kind = "OutputEnded" /\ Head(events).number = number
    /\ events' = Tail(events)
    /\ outputEnded' = TRUE
    /\ Ends(number)
    /\ main' \in {"died", "givingUp"}
    /\ UNCHANGED <<number, taken, wasAnswered, deaths>>
    /\ Waits

\* With a mistake: requests still go to the worker that died.
DiedStillOpen ==
    /\ main = "died"
    /\ main' = IF outputEnded THEN "abandoning" ELSE "draining"
    /\ UNCHANGED <<number, outputEnded, taken, wasAnswered, deaths>>
    /\ Idle

\* From here a line read waits for the next worker.
Died ==
    /\ main = "died"
    /\ worker' = None
    /\ main' = IF outputEnded THEN "abandoning" ELSE "draining"
    /\ UNCHANGED <<pending, hello, initialized, answered, clientGone, readerVars, number,
                   outputEnded, taken, wasAnswered, deaths, events, pumpVars, out, midLine,
                   workerVars, clientVars>>

\* Whether EXIT_GRACE may pass with the pump of worker k not done: something
\* else holds its output open, or the pump is slow.
GraceRunsOut(k) ==
    \/ writer[k] /\ pipe[k] = <<>> /\ pump[k] = "reading"
    \/ StallPastGrace

\* wait_for_output.
Drain ==
    /\ main = "draining" /\ events # <<>>
    /\ events' = Tail(events)
    /\ main' = IF Head(events).kind = "OutputEnded" /\ Head(events).number = number
               THEN "abandoning" ELSE "draining"
    /\ UNCHANGED <<number, outputEnded, taken, wasAnswered, deaths, workerVars>>
    /\ Waits

DrainTimesOut ==
    /\ main = "draining" /\ events = <<>> /\ GraceRunsOut(number)
    /\ main' = "abandoning"
    /\ UNCHANGED <<number, outputEnded, taken, wasAnswered, deaths>>
    /\ Idle

Abandon ==
    /\ main = "abandoning"
    /\ abandoned' = [abandoned EXCEPT ![number] = TRUE]
    /\ main' = "taking"
    /\ UNCHANGED <<session, readerVars, number, outputEnded, taken, wasAnswered, deaths,
                   events, pump, chunk, swallow, out, midLine, workerVars, clientVars>>

\* answer_pending_and_say, under the session's lock.
TakePending ==
    /\ main \in {"taking", "givingUp"}
    /\ taken' = pending /\ pending' = {}
    /\ wasAnswered' = answered /\ answered' = FALSE
    /\ main' = IF main = "taking" THEN "answering" ELSE "endingLine"
    /\ UNCHANGED <<worker, hello, initialized, clientGone, readerVars, number, outputEnded,
                   deaths, events, pumpVars, out, midLine, workerVars, clientVars>>

\* With a mistake: the line is left.
LeaveTheLine ==
    /\ out = None
    /\ midLine' = FALSE
    /\ UNCHANGED partial
    /\ torn' = (torn \/ partial # None)

\* And under standard output's: a line left unended is ended.
EndTheLine ==
    /\ out = None
    /\ midLine' = FALSE
    /\ partial' = IF midLine THEN None ELSE partial
    /\ torn' = (torn \/ (~midLine /\ partial # None))

\* What was taken is answered by an error; then run counts the deaths of the
\* last DEATH_WINDOW.
AnswerPending ==
    /\ main = "answering"
    /\ EndTheLine
    /\ errors' = [i \in Ids |-> IF i \in taken THEN errors[i] + 1 ELSE errors[i]]
    /\ taken' = {}
    /\ \E recent \in 0..(IF wasAnswered THEN 0 ELSE deaths) :
          /\ deaths' = recent + 1
          /\ IF deaths' > MostDeaths
             THEN main' = "exited" /\ UNCHANGED number
             ELSE main' = "top" /\ number' = number + 1
    /\ UNCHANGED <<session, readerVars, outputEnded, wasAnswered, events, pumpVars, out,
                   workerVars, sent, cancelled, results>>

EndLineAndStop ==
    /\ main = "endingLine"
    /\ EndTheLine
    /\ main' = "exited"
    /\ UNCHANGED <<session, readerVars, number, outputEnded, taken, wasAnswered, deaths,
                   events, pumpVars, out, workerVars, sent, cancelled, results, errors>>

\* shut_down: the worker exits within SHUTDOWN_DEADLINE or is killed.
ShutDown ==
    /\ main = "shutDown"
    /\ Ends(number)
    /\ main' = IF outputEnded THEN "exited" ELSE "lastWords"
    /\ UNCHANGED <<number, outputEnded, taken, wasAnswered, deaths, events>>
    /\ Waits

\* Any worker's OutputEnded will do.
LastWords ==
    /\ main = "lastWords" /\ events # <<>>
    /\ events' = Tail(events)
    /\ main' = IF Head(events).kind = "OutputEnded" THEN "exited" ELSE "lastWords"
    /\ UNCHANGED <<number, outputEnded, taken, wasAnswered, deaths, workerVars>>
    /\ Waits

LastWordsTimeOut ==
    /\ main = "lastWords" /\ events = <<>> /\ GraceRunsOut(number)
    /\ main' = "exited"
    /\ UNCHANGED <<number, outputEnded, taken, wasAnswered, deaths>>
    /\ Idle

Main ==
    \/ NoNewWorker \/ SpawnFails \/ Spawn
    \/ Snapshot \/ Replay \/ ReplayFails \/ Open
    \/ Serve \/ ServeOutputEnded \/ Died \/ Drain \/ DrainTimesOut \/ Abandon
    \/ TakePending \/ AnswerPending \/ EndLineAndStop
    \/ ShutDown \/ LastWords \/ LastWordsTimeOut

Exited == main = "exited" /\ UNCHANGED vars

Next ==
    \/ Reader \/ Client
    \/ \E k \in Workers : Worker(k) \/ Pump(k)
    \/ Main
    \/ Exited

\* The threads of the parent are scheduled.  Nothing is assumed of the client
\* or of a worker, except that a pump's write to the client comes to an end.
Spec ==
    /\ Init /\ [][Next]_vars
    /\ WF_vars(Main) /\ WF_vars(Reader)
    /\ \A k \in Workers : WF_vars(Pump(k))

-----------------------------------------------------------------------------
Answers(i) == results[i] + errors[i]

\* A request has one answer: "each request with no response yet gets a
\* JSON-RPC error" (supervisor.rs:18), and no other does.
AnsweredOnce == \A i \in Ids : Answers(i) <= 1

\* Nothing a worker that has ended was given is forgotten: when the next one
\* is started, each request read by then was answered or cancelled, except the
\* one line read since, which waits for it (read_client against one_worker).
NothingForgotten ==
    main \in {"top", "snapshot", "replaying", "open"} =>
        \A i \in sent \cap Ids :
            \/ Answers(i) > 0 \/ i \in cancelled
            \/ reader = "waiting" /\ line.of = i

\* A request answered by an error is not run: no live worker was given it, nor
\* will be ("A request is never retried here", supervisor.rs:23).
LostIsNeverRun ==
    \A i \in Ids, k \in Workers : errors[i] > 0 /\ i \in given[k] => ~alive[k]

\* What the client sees of the session is one server (Service): with a worker's
\* death anywhere, a request is run by one worker at most, and answered once, by
\* that worker or, when it runs no more, by an error.
Promise == INSTANCE Service WITH
    ran <- {i \in Ids : \E k \in Workers : i \in given[k]},
    running <- {i \in Ids : \E k \in Workers : alive[k] /\ i \in given[k]}

ImplementsService == Promise!ServiceSpec

\* A client reads whole lines, and lines that were ended for it: no line starts
\* or ends in the middle of another (supervisor.rs:25-29).
NoLineIsTorn == ~torn

\* A live worker that gets requests was given the initialize the client has the
\* response to, and the notifications/initialized it has sent
\* (supervisor.rs:21-23).
WorkerKnowsTheClient ==
    worker # None /\ alive[worker] /\ hello = "answered" =>
        /\ Hello \in given[worker]
        /\ \/ ~initialized
           \/ Initialized \in given[worker]
           \/ reader = "writing" /\ line.of = Initialized

\* "nothing of a worker given up on follows the answers written for it"
\* (supervisor.rs:454): no pump writes once its worker is a former one.
AbandonedIsSilent == \A k \in Workers : pump[k] \in {"writing", "noting"} => k = number

\* A request lost with a worker is answered, unless the client closes or the
\* session cannot go on: a death is noticed although something else holds the
\* dead worker's output open.
DeathIsAnswered ==
    \A i \in Ids :
        (i \in pending /\ main = "serving" /\ ~alive[number])
            ~> (Answers(i) > 0 \/ i \in cancelled \/ main = "exited")

\* A line that waits for a worker does not wait for ever: a worker that does not
\* answer the initialize given again ends the session instead.
WaitingLineGoesOn == reader = "waiting" ~> (reader # "waiting" \/ main = "exited")
=============================================================================
