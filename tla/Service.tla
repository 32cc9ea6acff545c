------------------------------ MODULE Service ------------------------------
(***************************************************************************)
(* What a client of n0xis-mcp is promised, whatever processes come and go  *)
(* behind it: one server.  A request is run once at most, "never retried", *)
(* and has one answer at most: that of the process that ran it, or, when   *)
(* that is gone, an error, after which it is not running and never runs.   *)
(* A process that takes over knows the session it takes over.              *)
(***************************************************************************)
EXTENDS Naturals

CONSTANTS Requests, Hello, Initialized

Ids == Requests \cup {Hello}

VARIABLES
    sent,       \* what the client has sent
    cancelled,  \* the requests it has asked to be cancelled
    results,    \* the answers it has, by id: of a worker's,
    errors,     \* and of requests that were lost
    ran,        \* the requests some process was given
    running     \* those a living one was

serviceVars == <<sent, cancelled, results, errors, ran, running>>

ServiceInit ==
    /\ sent = {} /\ cancelled = {} /\ ran = {} /\ running = {}
    /\ results = [i \in Ids |-> 0] /\ errors = [i \in Ids |-> 0]

NoAnswer(i) == results[i] = 0 /\ errors[i] = 0

\* The client sends a line, its initialize before any other.
Asks(l) ==
    /\ l \notin sent /\ (l # Hello => results[Hello] > 0)
    /\ sent' = sent \cup {l}
    /\ UNCHANGED <<cancelled, results, errors, ran, running>>

CancelsOne(r) ==
    /\ r \in sent \ cancelled /\ NoAnswer(r)
    /\ cancelled' = cancelled \cup {r}
    /\ UNCHANGED <<sent, results, errors, ran, running>>

\* A process is given a request, which no other was.
Runs(i) ==
    /\ i \in sent \ ran /\ NoAnswer(i)
    /\ ran' = ran \cup {i} /\ running' = running \cup {i}
    /\ UNCHANGED <<sent, cancelled, results, errors>>

\* The next one is given the initialize again, which is answered.
TakesOver ==
    /\ results[Hello] > 0
    /\ running' = running \cup {Hello}
    /\ UNCHANGED <<sent, cancelled, results, errors, ran>>

\* A process is gone, with what it was given.
Dies(S) ==
    /\ running' = running \ S
    /\ UNCHANGED <<sent, cancelled, results, errors, ran>>

\* The answer to a request that was run, at once or as a process's last words.
AnswersOne(i) ==
    /\ i \in ran /\ NoAnswer(i)
    /\ results' = [results EXCEPT ![i] = 1]
    /\ UNCHANGED <<sent, cancelled, errors, ran, running>>

\* What is lost is answered by errors.
Loses(S) ==
    /\ S \subseteq sent \ running /\ \A i \in S : NoAnswer(i)
    /\ errors' = [i \in Ids |-> IF i \in S THEN 1 ELSE errors[i]]
    /\ UNCHANGED <<sent, cancelled, results, ran, running>>

ServiceNext ==
    \/ \E l \in Ids \cup {Initialized} : Asks(l)
    \/ \E r \in Requests : CancelsOne(r)
    \/ \E i \in Ids : Runs(i) \/ AnswersOne(i)
    \/ TakesOver
    \/ \E S \in SUBSET Ids : Dies(S) \/ Loses(S)

ServiceSpec == ServiceInit /\ [][ServiceNext]_serviceVars
=============================================================================
