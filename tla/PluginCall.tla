----------------------------- MODULE PluginCall -----------------------------
(***************************************************************************)
(* One exchange with a plugin (n0xis-sources, plugin.rs, call_once): a     *)
(* child process is given one line and answers with one, by a deadline     *)
(* that starts with it.  A thread writes the request and another reads the *)
(* reply; neither is joined.  The plugin may do anything: not read, not    *)
(* write, write what is no answer, exit at any time, leave a process of    *)
(* its own behind that holds its pipes.                                    *)
(***************************************************************************)
EXTENDS Naturals

VARIABLES
    fits,     \* the request fits the pipe: it is written though nobody reads
    host,     \* where call_once is
    process,  \* the plugin: "none", "runs", "zombie", and once waited for
              \* "reaped" or, if it was the host that ended it, "killed"
    reads,    \* the plugin has read its request, or closed its input
    heir,     \* a process of the plugin's holds its pipes
    said,     \* what is in the plugin's output
    writer,   \* the writing thread: "none", "writes", "wrote" or "sent"
    reader,   \* the reading thread: "none", "reads" or what it brought back
    expired,  \* the deadline has passed
    result    \* what call_once returns

pluginVars == <<fits, host, process, reads, heir, said, writer, reader, expired, result>>

Lines == {"answer", "null", "no json", "too large"}
Outcomes == Lines \cup {"eof", "failed"}
Results == {"none", "answer", "Spawn", "NullReply", "BadReply", "ReplyTooLarge", "Io",
            "NoReply", "TimedOut: writing", "TimedOut: reply"}

PluginTypeOK ==
    /\ host \in {"spawn", "recv", "pending", "kill", "exit", "done"}
    /\ process \in {"none", "runs", "zombie", "reaped", "killed"}
    /\ writer \in {"none", "writes", "wrote", "sent"}
    /\ reader \in {"none", "reads"} \cup Outcomes
    /\ said \in {"nothing"} \cup Lines
    /\ result \in Results
    /\ fits \in BOOLEAN /\ reads \in BOOLEAN /\ heir \in BOOLEAN /\ expired \in BOOLEAN

PluginInit ==
    /\ fits \in BOOLEAN
    /\ host = "spawn" /\ process = "none" /\ writer = "none" /\ reader = "none"
    /\ reads = FALSE /\ heir = FALSE /\ said = "nothing"
    /\ expired = FALSE /\ result = "none"
-----------------------------------------------------------------------------
(* The plugin, and time.                                                   *)

PluginReads ==
    /\ process = "runs" /\ ~reads
    /\ reads' = TRUE
    /\ UNCHANGED <<fits, host, process, heir, said, writer, reader, expired, result>>

PluginSays ==
    /\ process = "runs" /\ said = "nothing"
    /\ said' \in Lines
    /\ UNCHANGED <<fits, host, process, reads, heir, writer, reader, expired, result>>

PluginForks ==
    /\ process = "runs" /\ ~heir
    /\ heir' = TRUE
    /\ UNCHANGED <<fits, host, process, reads, said, writer, reader, expired, result>>

PluginExits ==
    /\ process = "runs"
    /\ process' = "zombie"
    /\ UNCHANGED <<fits, host, reads, heir, said, writer, reader, expired, result>>

HeirEnds ==
    /\ heir /\ process # "runs"
    /\ heir' = FALSE
    /\ UNCHANGED <<fits, host, process, reads, said, writer, reader, expired, result>>

DeadlinePasses ==
    /\ host # "spawn" /\ ~expired
    /\ expired' = TRUE
    /\ UNCHANGED <<fits, host, process, reads, heir, said, writer, reader, result>>

\* Nobody holds the plugin's ends of its pipes.
PipesClosed == process # "runs" /\ ~heir
-----------------------------------------------------------------------------
(* The two threads.                                                        *)

\* The request is in the pipe, or cannot be written any more.
WriterWrites ==
    /\ writer = "writes" /\ (fits \/ reads \/ PipesClosed)
    /\ writer' = "wrote"
    /\ UNCHANGED <<fits, host, process, reads, heir, said, reader, expired, result>>

\* The host is told, and the plugin's input is closed.
WriterSends ==
    /\ writer = "wrote"
    /\ writer' = "sent"
    /\ UNCHANGED <<fits, host, process, reads, heir, said, reader, expired, result>>

\* read_reply: a bounded line, or the end of the output, or an error.
ReaderReads ==
    /\ reader = "reads"
    /\ \/ said # "nothing" /\ reader' \in {said, "failed"}
       \/ said = "nothing" /\ PipesClosed /\ reader' = "eof"
    /\ UNCHANGED <<fits, host, process, reads, heir, said, writer, expired, result>>
-----------------------------------------------------------------------------
(* call_once.                                                              *)

Spawn ==
    /\ host = "spawn"
    /\ \/ /\ host' = "recv" /\ process' = "runs"
          /\ writer' = "writes" /\ reader' = "reads" /\ UNCHANGED result
       \/ host' = "done" /\ result' = "Spawn" /\ UNCHANGED <<process, writer, reader>>
    /\ UNCHANGED <<fits, reads, heir, said, expired>>

ResultOf(outcome) ==
    CASE outcome = "answer"    -> "answer"
      [] outcome = "null"      -> "NullReply"
      [] outcome = "no json"   -> "BadReply"
      [] outcome = "too large" -> "ReplyTooLarge"
      [] outcome = "eof"       -> "NoReply"
      [] outcome = "failed"    -> "Io"

\* Mutant: whatever came back, the plugin is left to finish.
LeaveIt ==
    /\ host = "recv" /\ reader \in Outcomes
    /\ result' = ResultOf(reader)
    /\ host' = IF reader = "answer" THEN "exit" ELSE "done"
    /\ UNCHANGED <<fits, process, reads, heir, said, writer, reader, expired>>

\* Mutant: the deadline starts with the reply.
RecvForever ==
    /\ host = "recv" /\ reader \in Outcomes
    /\ result' = ResultOf(reader)
    /\ host' = IF reader \in {"answer", "eof"} THEN "exit" ELSE "kill"
    /\ UNCHANGED <<fits, process, reads, heir, said, writer, reader, expired>>

\* recv_timeout: what the reader brought back, or the deadline.  An answer and
\* an end of output leave the plugin the rest of the time.
Recv ==
    /\ host = "recv"
    /\ \/ /\ reader \in Outcomes
          /\ result' = ResultOf(reader)
          /\ host' = IF reader \in {"answer", "eof"} THEN "exit" ELSE "kill"
       \/ /\ expired /\ reader = "reads"
          /\ host' = "pending" /\ UNCHANGED result
    /\ UNCHANGED <<fits, process, reads, heir, said, writer, reader, expired>>

\* Mutant: the writer is asked once the plugin is dead.
AskAfterTheKill ==
    /\ host = "pending"
    /\ process' = IF process = "runs" THEN "killed" ELSE process
    /\ IF process = "runs" THEN UNCHANGED <<host, result>>
       ELSE /\ host' = "done"
            /\ result' = IF writer = "sent" THEN "TimedOut: reply" ELSE "TimedOut: writing"
    /\ UNCHANGED <<fits, reads, heir, said, writer, reader, expired>>

\* The writer is asked before the plugin is killed.
AskTheWriter ==
    /\ host = "pending"
    /\ result' = IF writer = "sent" THEN "TimedOut: reply" ELSE "TimedOut: writing"
    /\ host' = "kill"
    /\ UNCHANGED <<fits, process, reads, heir, said, writer, reader, expired>>

\* kill_and_reap
KillAndReap ==
    /\ host = "kill"
    /\ process' = IF process = "runs" THEN "killed" ELSE "reaped"
    /\ host' = "done"
    /\ UNCHANGED <<fits, reads, heir, said, writer, reader, expired, result>>

\* wait_for_exit: try_wait until the deadline.
WaitForExit ==
    /\ host = "exit"
    /\ \/ process = "zombie" /\ process' = "reaped" /\ host' = "done"
       \/ process = "runs" /\ expired /\ host' = "kill" /\ UNCHANGED process
    /\ UNCHANGED <<fits, reads, heir, said, writer, reader, expired, result>>
-----------------------------------------------------------------------------
HostStep == Spawn \/ Recv \/ AskTheWriter \/ KillAndReap \/ WaitForExit
ThreadStep == WriterWrites \/ WriterSends \/ ReaderReads

PluginNext ==
    \/ HostStep \/ ThreadStep \/ DeadlinePasses
    \/ PluginReads \/ PluginSays \/ PluginForks \/ PluginExits \/ HeirEnds

PluginSpec == PluginInit /\ [][PluginNext]_pluginVars
-----------------------------------------------------------------------------
\* "Kill the process and collect its exit, so no zombie outlives the call":
\* whatever the plugin does and whenever, call_once returns with no process left.
NoChildIsLeft == host = "done" => process \in {"none", "reaped", "killed"}

\* "killing the process breaks the pipe, which ends a blocked write at once and
\* would report a plugin that never read its input as one that did": a plugin
\* that the host had to kill is blamed for its reply only if it had its request.
BlamesTheRightStep ==
    result = "TimedOut: reply" /\ process = "killed" => fits \/ reads

\* The call returns by its deadline, whatever the plugin and the processes it
\* leaves behind do, and neither thread is waited for.
CallReturns == host = "spawn" ~> host = "done"
=============================================================================
