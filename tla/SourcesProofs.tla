--------------------------- MODULE SourcesProofs ---------------------------
(***************************************************************************)
(* Proofs about the two conversations n0xis-sources holds with a process   *)
(* it started: a call of a plugin, and a session with a remote agent.      *)
(***************************************************************************)
EXTENDS PluginCall, RemoteAgent, SequenceTheorems, TLAPS

(* A plugin.  The process lives as long as call_once has it in its hands;  *)
(* what the writer has done is evidence about the plugin only while the    *)
(* plugin runs, for a dead one's pipe breaks and ends any write.           *)

PluginInv ==
    /\ PluginTypeOK
    /\ host = "spawn" => process = "none" /\ writer = "none" /\ result = "none"
    /\ process = "none" => host \in {"spawn", "done"} /\ result # "TimedOut: reply"
    /\ process \in {"reaped", "killed"} => host = "done"
    /\ writer \in {"wrote", "sent"} /\ process = "runs" => fits \/ reads
    /\ result = "TimedOut: reply" => writer = "sent"
    /\ NoChildIsLeft
    /\ BlamesTheRightStep

\* The plugin and the clock: none of them is the host.
LEMMA PluginActs ==
    ASSUME PluginInv,
           PluginReads \/ PluginSays \/ PluginForks \/ PluginExits \/ HeirEnds \/ DeadlinePasses
    PROVE  PluginInv'
<1>1. CASE PluginReads
  BY <1>1 DEF PluginInv, PluginTypeOK, PluginReads, NoChildIsLeft, BlamesTheRightStep
<1>2. CASE PluginSays
  BY <1>2, ZenonT(60) DEF PluginInv, PluginTypeOK, PluginSays, NoChildIsLeft, BlamesTheRightStep
<1>3. CASE PluginForks
  BY <1>3, ZenonT(60) DEF PluginInv, PluginTypeOK, PluginForks, NoChildIsLeft, BlamesTheRightStep
<1>4. CASE PluginExits
  BY <1>4, ZenonT(60) DEF PluginInv, PluginTypeOK, PluginExits, NoChildIsLeft, BlamesTheRightStep
<1>5. CASE HeirEnds
  BY <1>5, ZenonT(60) DEF PluginInv, PluginTypeOK, HeirEnds, NoChildIsLeft, BlamesTheRightStep
<1>6. CASE DeadlinePasses
  BY <1>6, ZenonT(60) DEF PluginInv, PluginTypeOK, DeadlinePasses, NoChildIsLeft, BlamesTheRightStep
<1> QED
  BY <1>1, <1>2, <1>3, <1>4, <1>5, <1>6

\* The two threads: the writer is done because the request is in the pipe, was
\* read, or nobody is there to read it.
LEMMA ThreadActs == ASSUME PluginInv, ThreadStep PROVE PluginInv'
<1>1. CASE WriterWrites
  BY <1>1, ZenonT(60) DEF PluginInv, PluginTypeOK, WriterWrites, PipesClosed, NoChildIsLeft, BlamesTheRightStep
<1>2. CASE WriterSends
  BY <1>2, ZenonT(60) DEF PluginInv, PluginTypeOK, WriterSends, NoChildIsLeft, BlamesTheRightStep
<1>3. CASE ReaderReads
  BY <1>3, ZenonT(60) DEF PluginInv, PluginTypeOK, ReaderReads, Outcomes, NoChildIsLeft, BlamesTheRightStep
<1> QED
  BY <1>1, <1>2, <1>3 DEF ThreadStep

\* What the reader brought back is never taken for a plugin that did not reply
\* in time.
LEMMA ResultOfOutcome ==
    ASSUME NEW o \in Outcomes PROVE ResultOf(o) \in Results \ {"TimedOut: reply"}
  BY DEF Outcomes, Lines, ResultOf, Results

\* call_once itself: the writer is asked while the plugin lives, the plugin is
\* killed after that, and no return leaves one behind.
LEMMA HostActs == ASSUME PluginInv, HostStep PROVE PluginInv'
<1>1. CASE Spawn
  BY <1>1 DEF PluginInv, PluginTypeOK, Spawn, Results, NoChildIsLeft, BlamesTheRightStep
<1>2. CASE Recv
  <2>1. CASE reader \in Outcomes
    <3>1. reader # "reads"
      BY <2>1 DEF Outcomes, Lines
    <3> QED
      BY <1>2, <2>1, <3>1, ResultOfOutcome
      DEF PluginInv, PluginTypeOK, Recv, NoChildIsLeft, BlamesTheRightStep
  <2>2. CASE reader \notin Outcomes
    BY <1>2, <2>2 DEF PluginInv, PluginTypeOK, Recv, NoChildIsLeft, BlamesTheRightStep
  <2> QED
    BY <2>1, <2>2
<1>3. CASE AskTheWriter
  BY <1>3, ZenonT(60) DEF PluginInv, PluginTypeOK, AskTheWriter, Results, NoChildIsLeft, BlamesTheRightStep
<1>4. CASE KillAndReap
  BY <1>4 DEF PluginInv, PluginTypeOK, KillAndReap, NoChildIsLeft, BlamesTheRightStep
<1>5. CASE WaitForExit
  BY <1>5 DEF PluginInv, PluginTypeOK, WaitForExit, NoChildIsLeft, BlamesTheRightStep
<1> QED
  BY <1>1, <1>2, <1>3, <1>4, <1>5 DEF HostStep

\* PluginInv is inductive.
LEMMA PluginInductive == PluginSpec => []PluginInv
<1>1. PluginInit => PluginInv
  BY DEF PluginInit, PluginInv, PluginTypeOK, Results, NoChildIsLeft, BlamesTheRightStep
<1>2. PluginInv /\ [PluginNext]_pluginVars => PluginInv'
  <2> SUFFICES ASSUME PluginInv, [PluginNext]_pluginVars PROVE PluginInv'
    OBVIOUS
  <2>1. CASE PluginNext
    BY <2>1, PluginActs, ThreadActs, HostActs DEF PluginNext
  <2>2. CASE UNCHANGED pluginVars
    <3>1. PluginTypeOK'
      BY <2>2, ZenonT(60) DEF pluginVars, PluginInv, PluginTypeOK
    <3>2. NoChildIsLeft'
      BY <2>2 DEF pluginVars, PluginInv, NoChildIsLeft
    <3>3. BlamesTheRightStep'
      BY <2>2 DEF pluginVars, PluginInv, BlamesTheRightStep
    <3> QED
      BY <2>2, <3>1, <3>2, <3>3 DEF pluginVars, PluginInv
  <2> QED
    BY <2>1, <2>2
<1> QED
  BY <1>1, <1>2, PTL DEF PluginSpec

\* call_once returns with no process left behind, whatever the plugin does.
THEOREM NoChildLeft == PluginSpec => []NoChildIsLeft
<1>1. PluginInv => NoChildIsLeft
  BY DEF PluginInv
<1> QED
  BY <1>1, PluginInductive, PTL

\* A plugin killed for its reply had its request.
THEOREM BlameIsRight == PluginSpec => []BlamesTheRightStep
<1>1. PluginInv => BlamesTheRightStep
  BY DEF PluginInv
<1> QED
  BY <1>1, PluginInductive, PTL
-----------------------------------------------------------------------------
(* A remote agent.  While every line is the server's own there is at most  *)
(* one line on the two pipes together: the handshake's, or the one of the  *)
(* caller that holds the lock.  A process that has ended may keep the line *)
(* of a caller that gave up on it, but nobody writes to it any more.       *)

RemoteTypeOK ==
    /\ agent \in {"connect", "hello", "open", "dropped", "failed"}
    /\ peer \in {"none", "serves", "ended", "reaped"}
    /\ lock \in Callers \cup {"free"}
    /\ requests \in Seq(Callers \cup {"label"})
    /\ replies \in Seq(Callers \cup {"label", "noise"})
    /\ noise \in BOOLEAN
    /\ caller \in [Callers -> {"idle", "asked"}]
    /\ asks \in [Callers -> 0..MaxAsks]
    /\ got \in [Callers -> Callers \cup {"label", "none", "error"}]

\* The one line on its way, there or back.
OneLine(l) ==
    \/ requests = <<l>> /\ replies = <<>>
    \/ requests = <<>> /\ replies = <<l>>

\* RemoteIo is held from the request to its reply.
LockIsTheAsker ==
    /\ \A c \in Callers : caller[c] = "asked" <=> lock = c
    /\ agent # "open" => lock = "free"

PipesHoldOneLine ==
    /\ agent = "connect" => requests = <<>> /\ replies = <<>>
    /\ agent = "hello" => OneLine("label")
    /\ agent = "open" /\ lock = "free" =>
          replies = <<>> /\ (peer = "serves" => requests = <<>>)
    /\ agent = "open" /\ lock # "free" => OneLine(lock)

RemoteInv ==
    /\ RemoteTypeOK
    /\ LockIsTheAsker
    /\ agent = "connect" => peer = "none"
    /\ agent = "dropped" => peer = "reaped"
    /\ ~noise => PipesHoldOneLine
    /\ ReplyIsForItsRequest

\* connect, the handshake and drop: no caller is asking.
LEMMA HostOpensAndDrops ==
    ASSUME RemoteInv, Connect \/ Handshake \/ Drop PROVE RemoteInv'
<1>1. CASE Connect
  <2>0. RemoteTypeOK'
    <3>1. <<"label">> \in Seq(Callers \cup {"label"})
      OBVIOUS
    <3>2. CASE agent' = "hello" /\ peer' = "serves" /\ requests' = <<"label">>
      BY <1>1, <3>1, <3>2 DEF RemoteInv, RemoteTypeOK, Connect
    <3>3. CASE agent' = "failed" /\ peer' \in {"none", "serves", "ended"} /\ UNCHANGED requests
      BY <1>1, <3>3 DEF RemoteInv, RemoteTypeOK, Connect
    <3> QED
      BY <1>1, <3>2, <3>3 DEF Connect
  <2>1. LockIsTheAsker' /\ ReplyIsForItsRequest'
    BY <1>1 DEF RemoteInv, LockIsTheAsker, ReplyIsForItsRequest, Connect
  <2>2. ~noise => PipesHoldOneLine'
    BY <1>1 DEF RemoteInv, RemoteTypeOK, PipesHoldOneLine, OneLine, Connect
  <2> QED
    BY <1>1, <2>0, <2>1, <2>2 DEF RemoteInv, Connect
<1>2. CASE Handshake
  <2>0. replies # <<>> => Tail(replies) \in Seq(Callers \cup {"label", "noise"})
    BY HeadTailProperties DEF RemoteInv, RemoteTypeOK
  <2>1. RemoteTypeOK'
    BY <1>2, <2>0, EmptySeq DEF RemoteInv, RemoteTypeOK, Handshake
  <2>2. LockIsTheAsker' /\ ReplyIsForItsRequest'
    BY <1>2 DEF RemoteInv, LockIsTheAsker, ReplyIsForItsRequest, Handshake
  <2>3. ~noise => PipesHoldOneLine'
    <3>1. ~noise => OneLine("label")
      BY <1>2 DEF RemoteInv, PipesHoldOneLine, Handshake
    <3>2. Tail(<<"label">>) = <<>>
      OBVIOUS
    <3> QED
      BY <1>2, <3>1, <3>2 DEF RemoteInv, LockIsTheAsker, PipesHoldOneLine, OneLine, Handshake
  <2> QED
    BY <1>2, <2>1, <2>2, <2>3 DEF RemoteInv, Handshake
<1>3. CASE Drop
  <2>1. RemoteTypeOK' /\ LockIsTheAsker' /\ ReplyIsForItsRequest'
    BY <1>3 DEF RemoteInv, RemoteTypeOK, LockIsTheAsker, ReplyIsForItsRequest, Drop
  <2>2. ~noise => PipesHoldOneLine'
    BY <1>3 DEF RemoteInv, PipesHoldOneLine, OneLine, Drop
  <2> QED
    BY <1>3, <2>1, <2>2 DEF RemoteInv, Drop
<1> QED
  BY <1>1, <1>2, <1>3

\* A thread asks only when it has the lock, and then both pipes are empty.
LEMMA CallerAsks ==
    ASSUME RemoteInv, NEW c \in Callers, Ask(c) PROVE RemoteInv'
<1> USE RemoteAssumption
<1>1. RemoteTypeOK'
  <2>1. asks' \in [Callers -> 0..MaxAsks]
    BY DEF RemoteInv, RemoteTypeOK, Ask
  <2>2. got' \in [Callers -> Callers \cup {"label", "none", "error"}]
    BY DEF RemoteInv, RemoteTypeOK, Ask
  <2>3. caller' \in [Callers -> {"idle", "asked"}] /\ lock' \in Callers \cup {"free"}
    BY DEF RemoteInv, RemoteTypeOK, Ask
  <2>4. requests' \in Seq(Callers \cup {"label"})
    <3>1. c \in Callers \cup {"label"} /\ requests \in Seq(Callers \cup {"label"})
      BY DEF RemoteInv, RemoteTypeOK
    <3>2. Append(requests, c) \in Seq(Callers \cup {"label"})
      BY <3>1, AppendProperties
    <3> QED
      BY <3>1, <3>2 DEF Ask
  <2> QED
    BY <2>1, <2>2, <2>3, <2>4 DEF RemoteInv, RemoteTypeOK, Ask
<1>2. LockIsTheAsker'
  BY DEF RemoteInv, RemoteTypeOK, LockIsTheAsker, Ask
<1>3. ~noise => PipesHoldOneLine'
  <2>1. Append(<<>>, c) = <<c>>
    OBVIOUS
  <2> QED
    BY <2>1 DEF RemoteInv, PipesHoldOneLine, OneLine, Ask
<1>4. ReplyIsForItsRequest'
  BY DEF RemoteInv, RemoteTypeOK, ReplyIsForItsRequest, Ask
<1> QED
  BY <1>1, <1>2, <1>3, <1>4 DEF RemoteInv, Ask

\* The one line there is to read is the asker's own, and then there is none.
LEMMA CallerReads ==
    ASSUME RemoteInv, NEW c \in Callers, ReadReply(c) PROVE RemoteInv'
<1> USE RemoteAssumption
<1>0. agent = "open" /\ lock = c
  BY DEF RemoteInv, LockIsTheAsker, ReadReply
<1>1. RemoteTypeOK'
  <2>0. replies # <<>> => /\ Head(replies) \in Callers \cup {"label", "noise"}
                          /\ Tail(replies) \in Seq(Callers \cup {"label", "noise"})
    BY HeadTailProperties DEF RemoteInv, RemoteTypeOK
  <2>1. replies' \in Seq(Callers \cup {"label", "noise"})
    BY <2>0 DEF RemoteInv, RemoteTypeOK, ReadReply
  <2>2. got' \in [Callers -> Callers \cup {"label", "none", "error"}]
    BY <2>0 DEF RemoteInv, RemoteTypeOK, ReadReply
  <2> QED
    BY <2>1, <2>2 DEF RemoteInv, RemoteTypeOK, ReadReply
<1>2. LockIsTheAsker'
  BY <1>0 DEF RemoteInv, RemoteTypeOK, LockIsTheAsker, ReadReply
<1>3. ~noise => PipesHoldOneLine'
  BY <1>0, SMTT(40) DEF RemoteInv, RemoteTypeOK, PipesHoldOneLine, OneLine, ReadReply
<1>4. ReplyIsForItsRequest'
  BY <1>0 DEF RemoteInv, RemoteTypeOK, PipesHoldOneLine, OneLine, ReplyIsForItsRequest, ReadReply
<1> QED
  BY <1>0, <1>1, <1>2, <1>3, <1>4 DEF RemoteInv, ReadReply

\* The other process: a line served moves from one pipe to the other.
LEMMA PeerActs ==
    ASSUME RemoteInv, Serve \/ Prints \/ PeerEnds PROVE RemoteInv'
<1>1. CASE Serve
  <2>1. RemoteTypeOK' /\ LockIsTheAsker' /\ ReplyIsForItsRequest'
    BY <1>1 DEF RemoteInv, RemoteTypeOK, LockIsTheAsker, ReplyIsForItsRequest, Serve
  <2>2. ~noise => PipesHoldOneLine'
    <3>1. agent \notin {"connect", "dropped"}
      BY <1>1 DEF RemoteInv, Serve
    <3>2. \A l : /\ Head(<<l>>) = l /\ Tail(<<l>>) = <<>> /\ <<l>> # <<>>
                 /\ Append(<<>>, l) = <<l>>
      OBVIOUS
    <3> QED
      BY <1>1, <3>1, <3>2 DEF RemoteInv, PipesHoldOneLine, OneLine, Serve
  <2> QED
    BY <1>1, <2>1, <2>2 DEF RemoteInv, Serve
<1>2. CASE Prints
  BY <1>2 DEF RemoteInv, RemoteTypeOK, LockIsTheAsker, ReplyIsForItsRequest, Prints
<1>3. CASE PeerEnds
  <2>1. RemoteTypeOK' /\ LockIsTheAsker' /\ ReplyIsForItsRequest'
    BY <1>3 DEF RemoteInv, RemoteTypeOK, LockIsTheAsker, ReplyIsForItsRequest, PeerEnds
  <2>2. ~noise => PipesHoldOneLine'
    BY <1>3 DEF RemoteInv, PipesHoldOneLine, OneLine, PeerEnds
  <2> QED
    BY <1>3, <2>1, <2>2 DEF RemoteInv, PeerEnds
<1> QED
  BY <1>1, <1>2, <1>3

\* A thread is given what it asked for and never another's reply, for any
\* number of threads and of requests, while every line is the server's own.
THEOREM ReplyMatches == RemoteSpec => []ReplyIsForItsRequest
<1>1. RemoteInit => RemoteInv
  <2> SUFFICES ASSUME RemoteInit PROVE RemoteInv
    OBVIOUS
  <2>1. RemoteTypeOK
    <3>1. requests \in Seq(Callers \cup {"label"}) /\ replies \in Seq(Callers \cup {"label", "noise"})
      BY EmptySeq, Zenon DEF RemoteInit
    <3>2. asks \in [Callers -> 0..MaxAsks]
      BY RemoteAssumption DEF RemoteInit
    <3> QED
      BY <3>1, <3>2 DEF RemoteInit, RemoteTypeOK
  <2>2. LockIsTheAsker /\ ReplyIsForItsRequest /\ PipesHoldOneLine
    BY RemoteAssumption DEF RemoteInit, LockIsTheAsker, PipesHoldOneLine, ReplyIsForItsRequest
  <2> QED
    BY <2>1, <2>2 DEF RemoteInit, RemoteInv
<1>2. RemoteInv /\ [RemoteNext]_remoteVars => RemoteInv'
  <2> SUFFICES ASSUME RemoteInv, [RemoteNext]_remoteVars PROVE RemoteInv'
    OBVIOUS
  <2>1. CASE RemoteNext
    BY <2>1, HostOpensAndDrops, CallerAsks, CallerReads, PeerActs DEF RemoteNext
  <2>2. CASE UNCHANGED remoteVars
    BY <2>2, Zenon DEF remoteVars, RemoteInv, RemoteTypeOK, LockIsTheAsker, PipesHoldOneLine,
                       OneLine, ReplyIsForItsRequest
  <2> QED
    BY <2>1, <2>2
<1>3. RemoteInv => ReplyIsForItsRequest
  BY DEF RemoteInv
<1> QED
  BY <1>1, <1>2, <1>3, PTL DEF RemoteSpec
=============================================================================
