------------------------------ MODULE MCParts ------------------------------
(***************************************************************************)
(* The components that share no state, checked in one run: a behaviour is  *)
(* one of the part that was chosen, and the others rest where they start,  *)
(* or, if they must end, where they end.                                   *)
(***************************************************************************)
EXTENDS PluginCall, RemoteAgent, LineScan, MCTrust, Store, Annotations, DebugLinux,
        Notice, MCPatchJournal, TLC

CONSTANTS t1, t2, t3

VARIABLE part

Parts == {"plugin", "remote", "scan", "trust", "store", "annotations", "debug",
          "notice", "bytes", "byte", "registers"}
partsVars == <<part, pluginVars, remoteVars, scanVars, trustVars, storeVars, annVars, vars,
               noticeVars, patchVars>>

\* A call of a plugin and a session of the debugger that are over.
PluginRests ==
    /\ fits = TRUE /\ host = "done" /\ process = "none" /\ writer = "none" /\ reader = "none"
    /\ reads = FALSE /\ heir = FALSE /\ said = "nothing" /\ expired = FALSE /\ result = "none"

DebugRests ==
    /\ mode = "break" /\ tracer = "end"
    /\ life = [t \in Threads |-> "run"] /\ report = [t \in Threads |-> "none"]
    /\ child = [t \in Threads |-> t] /\ rip = [t \in Threads |-> Away]
    /\ ran = [t \in Threads |-> 0] /\ passes = [t \in Threads |-> 0]
    /\ traced = {} /\ holds = {} /\ planted = FALSE /\ crashed = FALSE
    /\ tids = {} /\ stopped = {} /\ armed = {} /\ patched = FALSE /\ misses = 0 /\ late = {}

\* What the other parts start with, when they are not the one looked at.
PartsInit ==
    /\ part \in Parts
    /\ IF part = "plugin" THEN PluginInit ELSE PluginRests
    /\ IF part = "debug" THEN Init ELSE DebugRests
    /\ RemoteInit
    /\ ScanInit /\ (part # "scan" => fields = <<>>)
    /\ TrustInit /\ (part # "trust" => chain = <<>>)
    /\ StoreInit /\ (part # "store" => kind = "registry")
    /\ AnnInit /\ (part # "annotations" => slots = {} /\ disk = FromVersion1([m \in Maps |-> {}]))
    /\ NoticeInit /\ copy = [p \in Processes |-> CHOOSE c \in Copies : TRUE]
    /\ (part # "notice" => release = [c \in Copies |-> 1])
    /\ PatchInit

\* Runs that change bytes, one after the other: three at both addresses, and
\* four at one of them.
InTurn ==
    /\ \A r \in PatchRuns : run'[r].kind # "watch"
    /\ Cardinality({r \in PatchRuns : run'[r].pc \notin Ended}) <= 1

ThreeRuns == \A r \in PatchRuns : r > 3 => run'[r] = IdleRun

AtOneAddress ==
    \A r \in PatchRuns : run'[r].pc = "recording" => DOMAIN run'[r].rec.after = {1}

\* Four runs at the registers, two of them at once.
RegistersOnly == \A r \in PatchRuns : run'[r].kind \notin {"apply", "plant"}

PartsNext ==
    /\ UNCHANGED part
    /\ \/ /\ part = "plugin" /\ PluginNext
          /\ UNCHANGED <<remoteVars, scanVars, trustVars, storeVars, annVars, vars, noticeVars, patchVars>>
       \/ /\ part = "remote" /\ RemoteNext
          /\ UNCHANGED <<pluginVars, scanVars, trustVars, storeVars, annVars, vars, noticeVars, patchVars>>
       \/ /\ part = "scan" /\ ScanNext
          /\ UNCHANGED <<pluginVars, remoteVars, trustVars, storeVars, annVars, vars, noticeVars, patchVars>>
       \/ /\ part = "trust" /\ TrustNext
          /\ UNCHANGED <<pluginVars, remoteVars, scanVars, storeVars, annVars, vars, noticeVars, patchVars>>
       \/ /\ part = "store" /\ StoreNext
          /\ UNCHANGED <<pluginVars, remoteVars, scanVars, trustVars, annVars, vars, noticeVars, patchVars>>
       \/ /\ part = "annotations" /\ AnnNext
          /\ UNCHANGED <<pluginVars, remoteVars, scanVars, trustVars, storeVars, vars, noticeVars, patchVars>>
       \/ /\ part = "debug" /\ Next
          /\ UNCHANGED <<pluginVars, remoteVars, scanVars, trustVars, storeVars, annVars, noticeVars, patchVars>>
       \/ /\ part = "notice" /\ NoticeNext
          /\ UNCHANGED <<pluginVars, remoteVars, scanVars, trustVars, storeVars, annVars, vars, patchVars>>
       \/ /\ \/ part = "bytes" /\ PatchNext /\ InTurn /\ ThreeRuns
             \/ part = "byte" /\ PatchNext /\ InTurn /\ AtOneAddress
          /\ UNCHANGED <<pluginVars, remoteVars, scanVars, trustVars, storeVars, annVars, vars, noticeVars>>
       \/ /\ part = "registers" /\ PatchNext /\ RegistersOnly
          /\ UNCHANGED <<pluginVars, remoteVars, scanVars, trustVars, storeVars, annVars, vars, noticeVars>>

\* The threads of the host and of the tracer run, and time passes.
PartsSpec ==
    /\ PartsInit /\ [][PartsNext]_partsVars
    /\ WF_pluginVars(part = "plugin" /\ HostStep)
    /\ WF_pluginVars(part = "plugin" /\ DeadlinePasses)
    /\ WF_vars(part = "debug" /\ TracerStep)
-----------------------------------------------------------------------------
\* A quote in a string, an object that reads like a response and has a list.
MCValues == {<<"7">>, <<"\"", "\\", "\"", "}", ",", "\"">>,
             <<"{", "\"", "id", "\"", ":", "9", ",", "\"", "error", "\"", ":",
               "[", "8", ",", "\"", "result", "\"", "]", "}">>}

\* The last is past the bound, and is cut to another.
MCIds == {<<"1">>, <<"1", "2", "3", "4">>, <<"\"", "\\", "\"", "\"">>,
          <<"1", "2", "3", "4", "5">>}
=============================================================================
