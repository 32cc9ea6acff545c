----------------------------- MODULE RemoteAgent ----------------------------
(***************************************************************************)
(* A memory source in another process (n0xis-sources, remote.rs): connect  *)
(* starts it and asks for its label by a deadline; then the host's threads *)
(* send one request each and read one line back, over one pair of pipes;   *)
(* drop says quit and ends the process.  The other side is serve_stdio,    *)
(* which may also end at any time.                                         *)
(*                                                                         *)
(* A request is the thread that made it, "label" or "quit"; a response is  *)
(* the request it answers, or "noise", a line that is not JSON, which a    *)
(* shell between the two may print.  remote.rs has no deadline but the     *)
(* handshake's, so a thread may wait for ever.                             *)
(***************************************************************************)
EXTENDS Naturals, Sequences

CONSTANTS
    Callers,   \* the host's threads that read, write or ask
    MaxAsks    \* how often each asks

\* The words for what is no caller are none.
ASSUME RemoteAssumption ==
    /\ MaxAsks \in Nat
    /\ \A c \in Callers : c \notin {"free", "label", "noise", "none", "error"}

VARIABLES
    agent,     \* the host: "connect", "hello", "open", "dropped" or "failed"
    peer,      \* the process: "none", "serves", "ended" or "reaped"
    requests,  \* the lines on their way to it
    replies,   \* the lines on their way back
    noise,     \* a line that is no reply was printed
    lock,      \* who holds RemoteIo: a caller or "free"
    caller,    \* caller -> "idle", "locked", "asked"
    asks,      \* caller -> how often it asked
    got        \* caller -> what it was last given, or "none" or "error"

remoteVars == <<agent, peer, requests, replies, noise, lock, caller, asks, got>>

RemoteInit ==
    /\ agent = "connect" /\ peer = "none" /\ lock = "free" /\ noise = FALSE
    /\ requests = <<>> /\ replies = <<>>
    /\ caller = [c \in Callers |-> "idle"]
    /\ asks = [c \in Callers |-> 0]
    /\ got = [c \in Callers |-> "none"]

\* connect: the process is started and greeted.  It may not start, and it may
\* take no line: then the attempt is over and the process, running or not, is
\* left as it is, nobody's to wait for.
Connect ==
    /\ agent = "connect"
    /\ \/ agent' = "hello" /\ peer' = "serves" /\ requests' = <<"label">>
       \/ agent' = "failed" /\ peer' \in {"none", "serves", "ended"} /\ UNCHANGED requests
    /\ UNCHANGED <<replies, noise, lock, caller, asks, got>>

\* The first line is taken for the handshake's, if it is JSON; an error, an end
\* and HANDSHAKE_TIMEOUT end the process and the attempt.
Handshake ==
    /\ agent = "hello"
    /\ \/ /\ replies # <<>> /\ Head(replies) # "noise"
          /\ agent' = "open" /\ replies' = Tail(replies)
          /\ UNCHANGED <<peer, requests>>
       \/ agent' = "failed" /\ peer' = "reaped" /\ requests' = <<>> /\ replies' = <<>>
    /\ UNCHANGED <<noise, lock, caller, asks, got>>

\* Mutant: the lock is not held from the request to its reply.
AskUnlocked(c) ==
    /\ agent = "open" /\ caller[c] = "idle" /\ asks[c] < MaxAsks
    /\ caller' = [caller EXCEPT ![c] = "asked"]
    /\ asks' = [asks EXCEPT ![c] = @ + 1]
    /\ requests' = Append(requests, c)
    /\ UNCHANGED <<agent, peer, replies, noise, lock, got>>

\* roundtrip: the request is written under the lock.
Ask(c) ==
    /\ agent = "open" /\ lock = "free" /\ caller[c] = "idle" /\ asks[c] < MaxAsks
    /\ asks' = [asks EXCEPT ![c] = @ + 1]
    /\ IF peer = "serves"
       THEN /\ lock' = c /\ requests' = Append(requests, c)
            /\ caller' = [caller EXCEPT ![c] = "asked"]
            /\ UNCHANGED got
       ELSE /\ got' = [got EXCEPT ![c] = "error"]
            /\ UNCHANGED <<lock, requests, caller>>
    /\ UNCHANGED <<agent, peer, replies, noise>>

\* roundtrip: one line is read, and the lock let go of, whatever the line is.
ReadReply(c) ==
    /\ caller[c] = "asked"
    /\ \/ /\ replies # <<>>
          /\ got' = [got EXCEPT ![c] = IF Head(replies) = "noise" THEN "error" ELSE Head(replies)]
          /\ replies' = Tail(replies)
       \/ /\ replies = <<>> /\ peer # "serves"
          /\ got' = [got EXCEPT ![c] = "error"] /\ UNCHANGED replies
    /\ caller' = [caller EXCEPT ![c] = "idle"]
    /\ lock' = "free"
    /\ UNCHANGED <<agent, peer, requests, noise, asks>>

\* drop: nobody uses the agent any more; quit, kill and wait.
Drop ==
    /\ agent = "open" /\ \A c \in Callers : caller[c] = "idle"
    /\ agent' = "dropped" /\ peer' = "reaped"
    /\ requests' = <<>> /\ replies' = <<>>
    /\ UNCHANGED <<noise, lock, caller, asks, got>>

\* serve_stdio: one line in, one line out.
Serve ==
    /\ peer = "serves" /\ requests # <<>>
    /\ replies' = Append(replies, Head(requests))
    /\ requests' = Tail(requests)
    /\ UNCHANGED <<agent, peer, noise, lock, caller, asks, got>>

\* Something between the two prints a line of its own.
Prints ==
    /\ peer = "serves" /\ ~noise
    /\ noise' = TRUE
    /\ replies' = Append(replies, "noise")
    /\ UNCHANGED <<agent, peer, requests, lock, caller, asks, got>>

PeerEnds ==
    /\ peer = "serves"
    /\ peer' = "ended"
    /\ UNCHANGED <<agent, requests, replies, noise, lock, caller, asks, got>>

RemoteNext ==
    \/ Connect \/ Handshake \/ Drop \/ Serve \/ Prints \/ PeerEnds
    \/ \E c \in Callers : Ask(c) \/ ReadReply(c)

RemoteSpec == RemoteInit /\ [][RemoteNext]_remoteVars
-----------------------------------------------------------------------------
\* A thread is given the bytes it asked for and never another's, as long as
\* every line on the pipe is the server's own.
ReplyIsForItsRequest ==
    ~noise => \A c \in Callers : got[c] \in {c, "none", "error"}
=============================================================================
