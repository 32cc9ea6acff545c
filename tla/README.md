# N0xis: a TLA+ model of its concurrent and failure-prone parts

N0xis is a reverse-engineering and live-memory toolkit: one analysis engine in
eighteen crates, behind a command line (`n0x`) and an MCP server (`n0xis-mcp`).
Most of it is sequential and pure, and well served by its tests. This project
models the parts where correctness depends on what happens *between* two
steps: processes that share files, threads that share a session or a target,
and kills, failures and deadlines that fall anywhere; and, of the analysis, the
graph algorithms whose correctness is a statement about every path.

| file | what it is |
|---|---|
| `Install.tla` | `n0x update`, `update.auto` and `--rollback` on the files beside a binary (`n0xis-update/src/install.rs`) |
| `Installation.tla` | what those promise the user, abstractly |
| `InstallProofs.tla` | TLAPS proofs: invariants of `Install`, and that it implements `Installation` |
| `MCInstall.tla`, `MCInstall.cfg` | instances for TLC |
| `Supervisor.tla` | the parent process of `n0xis-mcp` (`n0xis-mcp/src/supervisor.rs`) |
| `Service.tla` | what a client of `n0xis-mcp` is promised, abstractly |
| `SupervisorProofs.tla` | TLAPS proofs: the six invariants of `Supervisor`, and that it implements `Service` |
| `MCSupervisor.tla`, `MCSupervisor*.cfg` | instances for TLC |
| `Notice.tla` | the daily check and its line, by every command of a user (`n0xis-update/src/notice.rs`) |
| `NoticeProofs.tla` | TLAPS proofs about `Notice` |
| `MCNoticeTwice.cfg` | two commands and the turn of a second between them |
| `PatchJournal.tla` | the record kept of every change to a target (`n0xis-project/src/patch.rs`, `n0xis-frontend/src/watch.rs`) |
| `PatchProofs.tla` | TLAPS proofs about `PatchJournal` |
| `MCPatchJournal.tla`, `MCFailedApply.cfg` | an instance for TLC; a write that fails in part |
| `PluginCall.tla` | one exchange with a plugin, by a deadline (`n0xis-sources/src/plugin.rs`) |
| `RemoteAgent.tla` | a memory source in another process, shared by threads (`n0xis-sources/src/remote.rs`) |
| `SourcesProofs.tla` | TLAPS proofs about `PluginCall` and `RemoteAgent` |
| `DebugLinux.tla` | a breakpoint or watchpoint session under ptrace (`n0xis-sources/src/dbg_linux.rs`) |
| `DebugLinuxProofs.tla` | TLAPS proofs about `DebugLinux` |
| `LineScan.tla` | which request a worker's line answers, byte by byte (`n0xis-mcp/src/supervisor.rs`) |
| `Trust.tla` | the chain of release keys and the choice of a manifest (`n0xis-update/src/trust.rs`, `lib.rs`) |
| `MCTrust.tla`, `MCTrustCrowded.cfg` | an instance for TLC; a file of junk up to the bound |
| `SequenceProofs.tla` | TLAPS proofs by induction over a sequence: about `Trust` and `LineScan` |
| `Store.tla` | how the small files of a project are read and written (`n0xis-project/src/store.rs`, `plugins.rs`, `table.rs`, `annotate.rs`) |
| `Annotations.tla` | what a project remembers of a function, and the settling of old keys (`n0xis-project/src/annotate.rs`) |
| `ProjectProofs.tla` | TLAPS proofs about `Store` and `Annotations` |
| `MCParts.tla`, `MCParts.cfg` | `Notice`, `PatchJournal` and `PluginCall` to `Annotations`, nine components that share no state, in one run |
| `MCDebugLinux.tla`, `MCTargetSurvives.cfg` | a debugging session alone |
| `Dominators.tla` | dominators, post-dominators, frontiers (`n0xis-core/src/dom.rs`) |
| `Ssa.tla` | into SSA form and out of it (`n0xis-core/src/ssa.rs`, `coalesce.rs`) |
| `Structure.tla` | blocks into `if`, `while`, `do`, `switch` (`n0xis-core/src/structure.rs`) |
| `MCAnalysis.tla`, `MCAnalysis.cfg`, `MCEntryLoop.cfg`, `MCOuterContinue.cfg` | instances for TLC |
| `PROJECT.json` | components, runs, the map from definitions to source lines, hazards, findings, theorems |

## Inventory

| component | state it keeps | operations | interacts with | hard behaviour | what makes it correct |
|---|---|---|---|---|---|
| install and rollback, `n0xis-update/install.rs` | per component: the target, `.previous`, `.previous.json`, `.update-hold`, four temporaries, a kernel lock | `install` (user, auto), `rollback` | any number of processes over one directory; the manifest fetch before it | a kill between any two system calls; a failing rename; another run during the fetch or the wait for a lock | a target is always one whole file; what is replaced is kept and vouched for; nothing gone back from comes again by itself |
| manifest fetch, trust, `n0xis-update/{lib,trust,manifest,net}.rs` | a chain of keys in the user's directory | `fetch_manifest`, `verify`, `remember` | network; install | several addresses that disagree; an unlocked read-modify-write of the chain | the highest version that verifies; junk in the chain keeps no real key out |
| daily check and notice, `n0xis-update/notice.rs` | two stamps, a state file, a lock | `at_start`, `run_check` | every command of every terminal; install | commands started together, a clock set back, a check as long as an install | one check and one line a day |
| MCP supervisor, `n0xis-mcp/supervisor.rs` | the session (worker, pending requests, the client's initialize), standard output, a channel | three kinds of threads: reader, main, one pump per worker | the client's and the worker's pipes | a worker that dies anywhere, also in mid-line; a pipe held open past its process; deadlines | every request answered once; lines whole; a new worker in the state the client believes in |
| patch journal, `n0xis-project/patch.rs` | one record file per patch or armed debug register | `record_before_writing`, `apply`, `undo`, `settle_*` | a live process's memory | a kill between record and write; overlapping patches | what was changed can be put back, and nothing else is |
| store, tables, annotations, caches, `n0xis-project` | files under `.n0x/` | read, replace, add, remove | several commands at once | lost updates; a file half written | a reader sees a whole file; an addition is not lost |
| sources, `n0xis-sources` | breakpoints and debug registers in a target; a plugin's or remote agent's process | `call_once`, `await_hit`, `watch` | operating system, plugins, an agent over a pipe | a deadline that races a late reply; an interrupt with a breakpoint in place | nothing planted is left; a call returns by its deadline |
| image readers, `n0xis-sources`, `n0xis-pdb`, `n0xis-wasm` | none | parsing | pipeline | malformed input | bounds |
| analysis, `n0xis-core` | none | `DomTree`, `SsaPass`, `coalesce_vars`, `destruct_ssa`, `structure`, and many rewriting passes | pipeline | every shape of a graph: unreachable blocks, aborts, irreducible loops | what is printed does what the machine does |
| decoding, `n0xis-arch`, `n0xis-wasm-arch` | none | tables | pipeline | - | agrees with the manuals |
| pipeline | content-addressed caches | wires source, architecture and passes | project | a stale cache entry | an answer from a cache is the answer |
| frontends, contracts, managed and game formats | none between requests | dispatch, (de)serialisation, matching | everything | - | - |

Network, TLS, signatures, processes, pipes and the file system are external;
they appear only as the outcomes the code distinguishes.

## Install

One *run* is one process. Its program counter `pc` says between which two
system calls it is, so `Kill` may stop it anywhere and leaves the disk as it is
(the kernel releases its locks). A file is its content; two files have one
sha256 exactly when they are one content.

| code | actions |
|---|---|
| `Updater::for_running`, `fetch_manifest` | `Start`, `BeginFetch` (the `Seen` before the fetch), `Fetched`, `NothingToInstall` |
| `install`: the locks | `LockForInstall`, `LockRefused`, `ChangedDuringUpdate`, `SweepChanging` |
| `prepare`, `keep_a_copy` | `Download`, `Verify`, `KeepACopy`, `WriteRecord`, `NotWritable`, `PrepareFails` |
| `commit` and after it | `BeginCommit`, `RenamePrevious`, `RenameRecord`, `PutInPlace`, `RemoveHold`, `CommitFails`, `EndInstall` |
| `rollback`, `write_hold` | `StartRollback`, `RollbackLock`, `RollbackCheck`, `RollbackRefused`, `WriteHold`, `RenameHold`, `SwapBack`, `EndRollback` |
| the user | `PutByOtherMeans` |

`changed[r]` stands for the comparison `Seen::of(target) != found.before`: it
becomes true when the running file is replaced after the run looked. `wentBack`
is a history variable. Two things are assumed of the user: a file is not put in
place by hand while a run holds its lock, and is not one of the release's own.
A failed disk operation leaves the disk as it was; a rename is atomic, as the
code assumes. A removal that fails is ignored, as `sweep` and `Temp`'s drop do
(`Removals`): the leftover stays, `stuck` remembers where the last sweep left
one, and `TempsAreFree` speaks of the others, since there `create_new` does
meet it and the run says so. The bytes of a download, digests, permissions and ownership
checks, and the Windows way of moving a running binary aside are abstracted to
their outcomes.

`Installation` is the user's view: per component the installed file, the file
`--rollback` would put back, and the version gone back from. The refinement
mapping computes the second from the disk as `rollback` does (`CanGoBack`).

### Runs

* `install` has two scopes, in one run, over three releases (the sibling is
  unchanged in the last) and a build of the user's own. *Two runs*, both
  components, from the first release: every pair of runs interleaved at every
  step, and an order of commits that matters. *Three runs*, from any release,
  where no sibling is beside the binary: an install, a rollback killed halfway,
  and a third run over what they left. Two are not enough for a hold to bar
  anything or for a rollback to meet another's leftovers. The runs are
  interchangeable, hence the symmetry.

Each run stops once, so the specification ends: `CHECK_DEADLOCK FALSE`.

### Proofs

For every set of runs, components, releases and files that satisfies
`InstallAssumption` and `OtherFilesAssumption`, `InstallProofs` proves
`TypeCorrect`, `HoldCovers`, `MainComesLast`, `TempsFree`, `NothingIsLost`,
`SeenIsCurrent` and `Refinement`.

The inductive invariant is `IInv == TypeOK /\ RunInv /\ FileInv`. None of the
properties is inductive by itself. `RunInv` says of every run what it knows at
its program counter: which locks it holds (every file it writes is one it has
locked), which temporaries exist and what they contain, that a record about to
be renamed names the target as it is now, that the components still to be
prepared have no leftovers but where a removal failed. `FileInv` says of every component,
whoever is running: a record names two different files, of which the installed
one is its release's; the hold covers the version gone back from, and a
rollback that could take place now would go back from a later version still
(without which renaming the new hold over the old could uncover it). The proof has one lemma per action; `Frame` and `FileFrame`
carry the facts about every other run and component across a step, from the
locks being exclusive. `Refinement` follows with `OnlyThreeMove` (only
`PutInPlace`, `SwapBack` and `PutByOtherMeans` change a target) and `KeptOf`
(what a step does to the kept file of each component). TLC checks `IInv`'s
consequences on the instances; the theorems hold without the bounds.

## Supervisor

Three kinds of threads share the session (under a mutex, one step each), the
lock of standard output (held over several steps, so a variable: `out`) and a
channel of events.

| code | actions |
|---|---|
| `read_client` | `ClientSends`, `ClientCancels`, `ReaderAccepts`, `ReaderWrites`, `ClientCloses`, `ReaderGone` |
| `pump` | `PumpReads`, `PumpEnds`, `PumpLocks`, `PumpWrites`, `PumpNotes`, `PumpSwallows`, `PumpUnlocks` |
| `run`, `one_worker` | `NoNewWorker`, `SpawnFails`, `Spawn`, `Snapshot`, `Replay`, `ReplayFails`, `Open`, `Serve`, `ServeOutputEnded`, `Died`, `Abandon` |
| `wait_for_output`, `answer_pending_and_say` | `Drain`, `DrainTimesOut`, `TakePending`, `AnswerPending`, `EndLineAndStop` |
| `shut_down` | `ShutDown`, `LastWords`, `LastWordsTimeOut` |
| external: the worker, what it starts, the client | `WorkerBegins`, `WorkerEnds`, `WorkerDies`, `OutputCloses`, `ClientReads` |

A line is an id. A response goes through a worker's pipe in two pieces, so a
worker can die in mid-line; a chunk is any prefix of the pipe. A deadline may
pass whenever the channel is empty, with one exception that is a parameter:
`StallPastGrace` says whether `EXIT_GRACE` may pass while a pump still has
output to copy (a client that does not read), or only when another process
holds the dead worker's pipe open.

`Service` is the client's view, in which there are no workers, pipes or threads:
what was sent and cancelled, the answers and errors it has, which requests were
ever run and which are running. A request is run once at most; it has one answer
at most, which is one of a run or an error given when it is not running, and
with an answer it is not started any more; only the initialize, once answered, is
given again, to the process that takes over. The refinement mapping
(`Promise`) reads the last two off the workers: what some worker was given, and
what a living one was.

### Runs

* `supervisor` (no stall, two requests, two workers): one answer for each
  request, nothing forgotten at a death, and each step is one of `Service` or
  none (`ImplementsService`). That nothing answered by an error is run
  (`LostIsNeverRun`) follows from the last.
* `supervisor_stalls` (stall, one request, two workers): no line is torn, a
  former worker is silent, a new worker knows the client.
* `supervisor_live`: a lost request is answered and a waiting line goes on.
  Fairness is weak fairness of the parent's own threads. The channel's receive
  has a timeout everywhere, so the main thread always comes to a next step; a
  pump does unless the client stops reading for good. Nothing is assumed of
  workers or of the client.

Bounds: the worker of number `MaxWorkers` = 1 stays until the client closes, so
there is one death in mid-session and one at its end; `MostDeaths` = 1 reaches
both sides of its comparison. The parent's exit is a stuttering step, so
deadlock is checked. `Initialized` and cancellation are not resent by the
client; ids are distinct, as JSON-RPC asks.

### Proofs

`SupervisorProofs` proves all six invariants for every number of requests and
of workers, in five layers, each an inductive invariant relative to the ones
below it.

* `Inv1` is the life of a worker: what the main thread has in hand at each of
  its steps, that former workers are dead and abandoned and later ones
  untouched, that the pump which writes is the holder of standard output. It
  gives `AbandonedAreSilent`.
* `Inv2` is the stream: what is left of the current worker's output, chunk and
  pipe together, is a sequence of line beginnings and ends that goes on exactly
  where the client stands (`GoesOn`), and the half line the client has is the
  one `mid_line` says. It gives `LinesAreWhole`.
* `Inv3` says who knows what: a worker speaks only of what it was given, the
  session knows of the client's initialize what the client knows of it unless a
  pump is between the write and the note (`Noting`), and the current worker
  knows what the session knows. It gives `KnowsTheClient`.
* `Inv4` tracks each request the client sent: answered, cancelled, pending,
  taken, or the line that waits. It gives `NoneForgotten`.
* `Inv5` needs `StallPastGrace = FALSE`, as the run does: a worker is given up
  on when its pump is through with its output (`Quiet`), each of its answers is
  to come once and has not come (`Debts`), and what is pending or taken has no
  answer. It gives `AnswersComeOnce` and `LostIsNotRun`; without the assumption
  both are false, as told under the disagreements.

The layers are separate because the first four hold however slow a pump is.
The two questions the runs ask of one request and of two are thereby answered
for any number; the two liveness properties remain TLC's.

`KeepsThePromise` says that `Supervisor` implements `Service`, under the same
assumption. `StepImplements` goes through the actions; most change nothing the
client can see, and the others need what the layers say. A line the reader holds
was given to no worker, and has had an error only if the worker it is for is
dead, so that giving it to a living one is its first run (`GivenImplements`); a response that reaches the client is of a request given to
some worker and is its only answer, by `AnsweredOnce` in the state after it; what
is taken and answered by errors has no answer, and no worker lives at that step,
so that none of it is running.

## Notice

A command reads the clock once, may print one line, and may start a detached
check; all commands and checks of a user share two stamps, a lock and a state
file. One action is one access to one of these.

| code | actions |
|---|---|
| `at_start`, `take_line` | `AtStart`, `ReadState`, `ReadNoticeStamp`, `ChooseLine`, `WriteNoticeStamp`, `PrintLine` |
| `start_check_if_due` | `FirstLook`, `TryLock`, `LookAgain`, `Claim`, `StartCheck` |
| `background_check`, `run_check` | `CheckReadsState`, `FetchFails`, `Fetch`, `WriteState` |
| the clock, Ctrl-C, a shutdown | `Tick`, `SetClockBack`, `KillCommand`, `CheckDies` |

The install of `update.auto` is one step of `Fetch`, which moves the file or
does not; `Install` has its steps. A line or a state is the version and the
install it names. The clock goes on, or is set back, between any two steps; no
command holds it up. Two history variables serve the properties: `setBack`, the
clock is behind the last claim for having been set back, and `overtaken`, the
commands that were under way when another claimed the check.

* `parts`, with two commands, two copies, two releases, a day of two ticks and
  three ticks: a line about an install is printed by the file that moved and is
  of an install that took place (`NoticeIsTrue`); a day is claimed a second time
  only by a command that was under way at the claim and had read an earlier
  second (`OnlyTheOvertakenCheckAgain`). So of commands that read one second one
  claims, and one started after a claim leaves it alone for a day. Two commands:
  one whose check installs something and one, of the same copy or of another,
  that meets it anywhere; the copies may be of different
  releases to begin with. Three ticks hold two days' claims and a clock set back
  between them.
* `checks_twice`: two commands of one copy, and what the module's first line
  says, one check a day (`OneCheckADay`). It is not so (see below).

Each command runs once, so the specification ends: `CHECK_DEADLOCK FALSE`.

`NoticeProofs` proves `TypeCorrect`, `NoticeTrue` and `OvertakenOnly` for every
number of commands, copies and releases and every length of a day, without a
condition on the clock. `NoticeTrue` needs that an install named anywhere took
place: in the state file, in a command's copy of it, in the line it has chosen,
in what a check is about to write (`TruthInv`). `OvertakenOnly` needs that only
the holder of the lock is between its second look and its claim, that it looked
at the stamp as it still is, and that a stamp ahead of a command's own second is
there because the clock was set back or because the command was overtaken by
the claim (`ClaimInv`).

## PatchJournal

A run of `patch apply`, `patch undo`, `debug await-hit` or `debug watch` is one
process. Each writes a record under `.n0x/patches/` before it changes the
target, and settles the record afterwards; what a killed run leaves in the
target and in the journal is all the next one has.

| code | actions |
|---|---|
| `apply` | `StartApply`, `WriteTarget`, `TakeBack` |
| `record_before_writing`, `record_before_arming`, `write_record` | `OpenRecord`, `FinishRecord` |
| `await-hit` as the journal sees it | `StartPlant`, `WriteTarget`, `RestoreByte`, `SettlePlanted` |
| `watch` as the journal sees it | `StartWatch`, `Arm`, `Disarm`, `SettleArmed` |
| `undo`, `patch_undo_watch` | `StartUndo`, `UndoWrite`, `UndoSave`, `UndoWatch` |
| signals, the target | `KillRun`, `TargetExits` |

A write that fails may have landed up to some address (`Beginnings`), in `apply`
and in `undo`. A thread's debug register is what it is armed with: an address
and the bits of type and length, as `held_in` compares them. `Arm` is `arm_dr`
on the threads that stop: it adds its bits to the ones it finds, and keeps what
it found for `Disarm` to put back; in some threads only the write of the address
works. `SettleArmed` and `UndoWatch` look for the record's own slot
(`Holding`). `patch undo --force` is left out: it is the user overriding what is
promised. `Unreachable` says whether attaching to a live target may fail when a
record is settled; the run has it `FALSE` (see below).

* `parts`, on bytes (runs one after the other, two byte values; three runs at
  two addresses, four at one): a byte that is not the target's own is covered by
  a record that can be undone, but for the *loose* ones
  (`OnlyLooseBytesAreOffRecord`). Three runs: patches that overlap in part, a
  killed session followed by a patch over its byte and an undo, an undo killed
  or failed in part and one more of the same record. Four: two patches, and
  their undos in the wrong order. Runs are one at a time because two
  `patch apply` at one address race for the bytes themselves, which no journal
  can repair.
* `parts`, on registers (four runs, two at once, two threads, two slots that
  differ in address and bits): what a register is armed with is on record
  (`ArmedIsOnRecord`), unless it was armed over what a killed run had left.
  Four runs: two that arm different slots, the first killed, and two undos that
  see some of the threads.
* `failed_apply`: two runs, and no byte excepted (`EveryChangeIsOnRecord`). It
  is not so (see below).

`PatchProofs` proves both for every number of runs, addresses, values, threads
and slots. `ArmedOnRecord` holds however many runs there are at once, from
`JournalInv`: what each run goes by is its own record as the journal has it, an
undo goes by the record of a run that is past recording it, one run traces at a
time, and what the registers hold is on record, and so is what the tracer found
in them and will put back (`RegisterInv`). `ChangesOnRecord` is proved of runs
one after the other (`AtOnce = 1`), from `BalanceInv`: of each address that is
not loose the records whose bytes are in the target lead, each from its `before`
to its `after`, from the original value to the present one. As a count, for each
value as many records lead to it as from it, but for the original and the
present one (`Balanced`); so a byte that is not the original has a record that
leads to it, which is the one that can be undone. Nothing weaker is inductive:
an undo in the middle of the sequence leaves no order of the records in which
each meets the next.

The history variables came out of this proof: `landed` (per address, the records
whose byte went in and was not put back) and `loose` (the addresses written by
an apply that failed, or by the undo of a record whose byte was not in). As
first stated, without them, the property held on four runs and failed with five:
an undo killed between its write and the save leaves its record applied, and
when another patch brings the same bytes, that record can be undone over it,
which no record then covers.

## The parts of one run

`parts` checks nine components that share no state, `Notice` and `PatchJournal`
and these seven: a behaviour is one of the part that was chosen first, and the
others rest.

**PluginCall.** `Spawn`, `Recv`, `AskTheWriter`, `KillAndReap`, `WaitForExit`
are `call_once`; `WriterWrites`, `WriterSends`, `ReaderReads` its two threads;
the plugin (`PluginReads`, `PluginSays`, `PluginForks`, `PluginExits`,
`HeirEnds`) may do anything at any moment. No process outlives the call, a
plugin killed at its deadline is blamed for the step it was at, and the call
returns. Fairness: the host's own steps, and that the deadline passes; nothing
of the plugin or of the two threads, which the code never joins.

**RemoteAgent.** `Connect`, `Handshake`, `Ask`, `ReadReply`, `Drop` are
`RemoteAgent`; `Serve` is `serve_stdio`. Replies have no id, so the lock held
over a round trip is what makes a reply that of its request. `Connect` may fail
to start the process or to greet it, and then leaves it unreaped. There is no
deadline but the handshake's: a thread may wait for ever, so nothing is claimed
to end.

`SourcesProofs` proves, whatever the plugin does, `NoChildLeft` and
`BlameIsRight`: a writer that is done is evidence that the plugin has its
request only while the plugin runs, because a dead one's pipe ends any write
(`PluginInv`). `ReplyMatches`, for any number of threads and requests, rests on
there being one line in the two pipes together while every line is the
server's, that of the thread which holds the lock (`RemoteInv`).

**LineScan.** `Feed` is `LineScan::feed` on one token, by `InStringByte` or
`StructuralByte`; `Finish` is the newline. The reference is the line itself, as
fields. Values include a quoted quote, an object that reads like a response,
and ids at and past `MAX_ID_BYTES`; two lines follow each other, so that what
one leaves behind would show in the next. A duplicate key, which the code
answers by the first and a parser by the last, is outside JSON-RPC and left
out, and so is a response whose id is escaped differently than the request's.
`ScanAssumption` says of the values only that they are JSON: brackets and
strings closed (`Reading` is where a reader of JSON is in a value), nothing
outside them that would end the member, no newline; an id is plain bytes or one
string. `Members` are the bytes of the fields, one after the other. White space
passes between any two tokens, any amount of it (`FeedSpace`; `lexed` is where a
reader of JSON is in the line).

`SequenceProofs` proves `ScanIsExact` for any number of fields, any such values
and any `MaxIdBytes` (`ScanFindsTheAnswer`). The property speaks of the end of a
line; to get there `ScanInv` says what the scan is at every place in it, which is
that it is a function of the place: before, in and after the key of a field or
at the n-th token of its value (`BeforeKey`, `InKey`, `AfterKey`, `InValue`), it
has the depth and the part of a string that a reader of JSON has there, the
outcomes named so far, and of the id the first `MaxIdBytes` bytes with a mark if
there were more. Or it is settled, and what it will say is already what the line
says (`Settled`), since no later field can change that: keys come once, and a
method excludes an outcome. There is a lemma per kind of token; white space changes
none of it, but that it may end an id, which is whole by then (`SpaceIsNothing`). TLC checked
`ScanInv` with a bound of no, one and four bytes first.

**Trust.** `Load` is `Trust::rooted_at`, `FetchOne` one address of
`fetch_manifest`, `Remember` the write of `remember`, from what `FetchOne` read
of the file. The file may hold anything, also more links than the
`CHAIN_MAX_LINKS` that a run loads (`KeysFrom`); `remember` walks all of it. No
key is believed that the root's signatures do not lead to (`Endorsed`, the least
set closed under them). While what the file proves, read to its end, leaves room
under the bound, a run that remembers can leave a file from which a later run,
which reads no further than the bound, has every key of it and the new one
(`JunkCrowdsNothingOut`), unless the file has that very manifest already, where
`remember` returns early. `key_crowded_out` is without the exception
(`JunkNeverCrowdsOut`, see below). The instance has a bound of two and files of
up to three links, in every order. A signature is taken to prove what it proves.

`SequenceProofs` proves both, `NothingIsGranted` and `JunkIsHarmless`, for every
file, every set of manifests and any number of runs. A walk is over a sequence
of any length, so the proof is by induction on it: `UpTo` is an induction over
a *set* of numbers, which the provers can instantiate, from the library's
least-element theorem; by it the recursion of `walk` has a solution
(`PrefixExists`, `WalkedIs`), a walk stays inside every closed set of keys, and
the links it keeps prove by themselves what the whole file did (`Sound`,
`WalkSound`). That the file still proves the key which signed the new manifest
(`HasRoom`) is a condition that two runs at once cannot break and three can,
found when the proof failed (see the disagreements).

**Store.** `Begin` reads and decides; `WriteTemp` and `Rename` are
`write_replacing`; `Truncate` and `Fill` are `fs::write`, through an empty file
and a partial one; `Kill` falls anywhere. Only the registry of plugins is
promised to be whole, and is: the old contents or the new, with what one
command after another saved. Of two commands at once the later wins.

**Annotations.** `SetField`, `SetVar`, `RemoveRecord` are the commands; `Rekey`
is the settling that precedes a change of a variable, by the variables the
function has then, and `Reanalyse` changes those between commands. Settling
changes nothing a reader sees, and every value is in the record or in its
history.

`ProjectProofs` proves `RegistryWhole` for any number of commands and entries:
a command that has not written holds its change of what it read (`RegistryInv`),
so that replacing the file is that change as long as nobody wrote in between;
and `SettlingIsSilent` and `ValuesAreAnswerable` for any number of changes, from
only reinterpreted keys being left under the earlier naming, and each value that
leaves the record being told by its history (`AnnInv`).

**DebugLinux.** The target's threads (`Execute`, `Clone`, `Exit`) run between
any two steps of the tracer.

| code | actions |
|---|---|
| `seize_group`, planting | `Seize`, `Seized` |
| `stop_bounded`, arming | `StopBounded`, `ArmAll`, `ContinueAll` |
| `classify` and the two wait loops | `Classify`, `BreakpointHit`, `WatchpointHit`, `GiveUp` |
| `Session::drop` | `Drain`, `Drained`, `StopBounded`, `AllStopped`, `Restore`, `Detach`, `Detached` |

`Length` is the length of the instruction at the breakpoint: at 1 the address
behind it is where the `int3` leaves a thread, and the rewind of (2b) cannot
tell the two apart, so the run has 2. `ChildFirst` says whether a cloned
thread's own stop may be waited for before its parent's report; the run has it
`FALSE`, and `target_survives` has it `TRUE`. Two threads and room for a third,
once past the instruction each: enough for two to hit together, for one to be
cloned at every moment of the session, and for one to exit. Fairness is weak
fairness of the tracer's steps: each of its waits has a bound of its own or is
`WNOHANG`.

`DebugLinuxProofs` proves, for any number of threads and with `ChildFirst`
`FALSE`, `SurvivesTheSession`, `SessionLeavesNothing` and, for `Length` other
than 1, `RunsOnce`. The invariant `DebugInv` relates three views of a thread:
what it does (`life`, `rip`), what it has reported (`Reported`, `Cloned`: the
child of an unread clone report is known to nobody) and what the session's
lists say of it (`Listed`: a traced thread that lives is listed or has its
first report still to be read; a stopped one without a report is in `stopped`).
Only together do they say that at the restore every thread which could meet
the byte is stopped. `RunsOnce` adds that a thread behind the breakpoint stays
stopped until it is rewound. Both assumptions are necessary: for `ChildFirst`
see `target_survives`, for `Length` the disagreements below.

The `CHECK_DEADLOCK FALSE` of this run is for parts that end.

## The analysis passes

A function goes through the passes, and then what they made is executed beside
the machine, block by block along its paths (but for two kinds, below); a
property compares what each reads or runs.

| code | definitions |
|---|---|
| `dom.rs` | `BlockGraph`, `ImmediateTree` (`PostOrder`, `Meet`, `FixedPoint`), `TreeSpans`, `Dominates`, `Forward`, `ReverseTree`, `DominanceFrontier` |
| `build_ssa` | `PhiBlocks`, `RenameTree` (`RenameBlock`, `RenameStmt`, `Unwind`), `Condition`, `UnrenamedCondition`, `Build` |
| `retarget_float_returns` | `Retarget` (`Unread`, `ComputedHere`) |
| `coalesce.rs` | `LiveOut`, `Interference`, `CoalesceVars`, `EdgeCopies`, `CopiesLeaving` |
| `structure_once` | `Facts`, `EmitNode`, `EmitBlock`, `EmitIfElse`, `EmitSwitch`, `EmitLoop` (`TopTest`, `BottomTest`, `Endless`), `StructureOnce` |
| `structure_within` | `LayOut`, `Marks` |

* `analysis`: the dominators against the paths on every graph of three and four
  blocks with at most two successors; SSA, coalescing and the edge copies on
  eight shapes (joins, nested and two-entry loops, a middle exit, an unreached
  block) with every choice of bodies that compute, compare, clobber flags and
  store, and again with bodies of a vector register for the choice of the
  returned one; structuring on every graph of three blocks with and without
  lines, on the eight shapes with every kind of line, and on ten larger shapes. `x` is counted modulo 3, so a version too old
  by one or two iterations shows. `DepthLimit` = 4 is low enough to be met.
* `CleanTextRunsTheSame` is about text that needed no fallback, of functions
  without the edges of `outer_continue`, without a switch in a loop, where the
  arm's own `break` takes the place of the loop's, and without a `for` whose
  body continues (`StepOvertaken`, below).
* `entry_loop`, `outer_continue`: see below. The shapes of `analysis` have no
  loop at the entry for that reason; its graphs of three and four blocks do,
  but have no statements.

Reduced: a statement reads one variable; memory, calls and rendering are left
out. A block may end in a tail call: `Retarget` passes over it, and what it
computed is its callee's. Left out of `retarget_float_returns` are the results
in two vector registers or in a pair (`float2`, `pair`, `ssa.rs:696-701`), and of
the paths two kinds: the edge of a block the entry does not reach into a join
it does, for which the join's phis have no input (`ssa.rs:843-845`), so that
there is nothing to compare; and exception edges, which the graphs here do not
have. In `Structure`, not modelled are the copies of a split back edge that join
a loop's body (`latch_of`, `copies_may_join_the_body`), the condition
`test_reads_only_what_reaches_it` (what is tested here is always there),
`switch_index` and what it prints, the emission budget and `MAX_DUP_LINES`,
which functions this small do not reach.

## Disagreements met while modelling

Six are runs that show a violation:

* `target_survives` (`dbg_linux.rs:447`): when the stop of a cloned thread is
  waited for before its parent's report, `classify` continues the child, and
  the parent's report continues it again. If it has trapped meanwhile, it goes
  on at `addr + 1`. Continuing it only if it is in `stopped` would do.
* `entry_loop` (`dom.rs:236`): the first block of a function, as a loop head
  with one back edge, has one predecessor and gets no phi. Counting the entry
  as a predecessor of block 0 would do.
* `outer_continue` (`structure.rs:190`): a `continue` for a loop that is not
  the innermost one. A `goto` there, as for anything else, would do.
* `checks_twice` (`notice.rs:103`): when the second turns between two commands
  started together, the later may claim first; the earlier then finds a stamp in
  its future, takes it for a clock set back and claims again. Reading the clock
  under the lock would do.
* `failed_apply` (`patch.rs:293`): a write over several bytes that fails may have
  landed in part, and `apply` takes its record back all the same; the bytes that
  landed are then on no record. Keeping the record when the bytes read back are
  not `before` would do.
* `key_crowded_out` (`trust.rs:109`): with junk up to the bound before the link of
  a real key, a run does not read as far, is told of the key again and goes to
  remember it; `remember` walks the whole file, finds the link there and returns
  without writing. The file stays as it is, and every later run is without the
  key. Returning early only when nothing would be dropped would do.

Others are described by the models and narrowed out of the properties:

* Structure: `split_trailing_step` moves the last line of a loop's body into a
  `for`'s head without looking for a `continue` in what is left, which then
  runs the step that the machine passes over (`structure.rs:944`; the comment
  calls it "a pure text reformat of an already-correct `while` body"). It takes
  a loop from which no return is reached, laid out before its head, so that the
  post-dominator of a branch in it is the step's block: `Rotated`.
* Update: the version is read in `for_running` and the file looked at in
  `fetch_manifest` (`lib.rs:234`); a binary replaced between the two is not
  noticed, so an older release can go over a newer one, and its record says
  `from` a version that was not there. Looking in `for_running` would close it.
* Supervisor: with `StallPastGrace`, a pump past its `abandoned` check when the
  grace runs out writes its response, and the request also gets the error,
  because `answer_pending_and_say` takes the pending requests before it waits
  for standard output (`supervisor.rs:603`). `shut_down` takes an earlier
  worker's late `OutputEnded` for this one's (`supervisor.rs:644`).
* Notice: the notice's own stamp has no lock, so two commands may print a line,
  and one may write back a `spoken_of` the other has changed (`notice.rs:134`).
* Patch journal: a record whose write never happened can be undone without
  `--force` if the target holds those bytes for another reason, and then writes
  back bytes that may be out of date (`patch.rs:215`); such addresses are `loose`.
  A record is rewritten in place, so a kill there leaves one that cannot be read
  (`patch.rs:234`). `await-hit` over a left-over `0xCC` records it as the
  original. With `Unreachable`, a target that is alive but cannot be attached to
  is settled as gone.
* Debug registers: `arm_dr` adds its bits to what it finds in DR7
  (`dbg_linux.rs:410`). Over the slot a killed run has left, the register gets the
  new address and the union of the bits of both; when that is not what was asked
  for, neither record's slot matches it, and no `patch undo` finds it if this run
  is killed too. `regs[t].mixed` marks it. Clearing the slot's bits before setting
  them would do.
* Debugger: with `Length` = 1 an instruction that has run is rewound and runs
  again; a thread cloned by a seized one during `seize_group` fails the session
  with `EPERM`; a thread cloned between the drain and the stop stays traced
  (`late`), and stopped until the tracer exits.
* Trust: of two runs that remember different keys at once, the later write drops
  the earlier's link (`trust.rs:106`), and a third run that loaded in between
  holds a key the file no longer proves. A manifest signed by that key is then
  remembered as a link that proves nothing, and goes at the next write. Such a
  race costs a link and grants nothing; the comment on `remember` counts a lost
  change of key as affordable.
* Remote agent: a line on the pipe that is not the server's shifts every later
  reply by one (`noise`); `connect` does not reap the process when its first
  write fails.
* Store: annotations killed between the truncation and the write are read as
  empty afterwards, without a word; `table add` takes a table it cannot parse
  for an empty one and writes it.
* Structure: a `goto` to the head of a `while` whose header has no lines lands
  behind its test.

## What is proved and what is only checked

Proved with TLAPS, for every value of the constants, are the theorems named in
the sections above: the invariants and action properties of `Install`,
`Supervisor`, `Notice`, `PatchJournal`, `PluginCall`, `RemoteAgent`,
`DebugLinux`, `LineScan`, `Trust`, `Store` and `Annotations`, that `Install`
implements `Installation`, and that `Supervisor` implements `Service`. Where a theorem has a hypothesis on a constant, the code does
not secure what is claimed without it, and the section says how it fails:

| hypothesis | of | what it stands for |
|---|---|---|
| `StallPastGrace = FALSE` | `AnswersComeOnce`, `LostIsNotRun`, `KeepsThePromise` | the client reads, so that a pump is done within `EXIT_GRACE` |
| `~Unreachable` | `ChangesOnRecord` | a target that is alive can be attached to |
| `AtOnce = 1` | `ChangesOnRecord` | commands that change one target come one after the other |
| `ChildFirst = FALSE` | the three of `DebugLinux` | a clone is reported before its child's first stop is |
| `Length # 1` | `RunsOnce` | the instruction at the breakpoint is longer than the `int3` |

The layers of `SupervisorProofs` were checked by TLC with one and two requests
before they were proved.

Only model-checked, and why:

* `DeathIsAnswered`, `WaitingLineGoesOn`, `CallReturns`, `SessionEnds`: liveness
  under fairness, which the prover does not do.
* the properties of `Dominators`, `Ssa` and `Structure`, which are what
  `RECURSIVE` operators compute; in a module that has one the prover has no SMT
  solver.

## Not modelled

* The settings that turn the daily check off (`config.rs`), HTTP, the fields of
  a manifest, letting go of inherited handles.
* `patch undo --force`; the session, selection and caches of a project, each a
  single value with nothing between its steps; the Windows debugger, whose
  system calls are others; the unwinder; reads of a live process.
* The passes of `n0xis-core` that rewrite terms or recognise patterns (lifting,
  `optimize.rs`, `typeinfer.rs`, `rtti.rs`, `switch.rs`, `decomp.rs`), the
  decoders of `n0xis-arch`, the readers of image, managed and game formats:
  pure functions from large inputs, with no state and no interleaving. A model
  would be a copy of the code, and an instance small enough for TLC would say
  less than their tests do. These are most of the repository's lines.
* The frontends' parsing of arguments and dispatch, the wire types, and
  everything the operating system does.
