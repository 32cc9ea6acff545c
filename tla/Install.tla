------------------------------ MODULE Install ------------------------------
(***************************************************************************)
(* n0x update, update.auto and n0x update --rollback, as                   *)
(* crates/n0xis-update/src/install.rs performs them on the files beside    *)
(* the installed binary.  Any number of processes ("runs") work on the     *)
(* same directory, each may be killed between any two system calls, and    *)
(* every disk operation may fail.  One action is one operation that        *)
(* another process, or the next run after a kill, can observe.             *)
(*                                                                         *)
(* A file is its content (two files have one sha256 exactly when they are  *)
(* one content).  Beside every component's target there may be its         *)
(* .previous, the record .previous.json, the hold .update-hold, the four   *)
(* temporaries of an unfinished run, and the kernel lock of .update-lock.  *)
(***************************************************************************)
EXTENDS Naturals

CONSTANTS
    Runs,        \* the processes that update or roll back
    Components,  \* what a manifest names and is installed here
    Main,        \* the running component: the one whose binary a run is
    Versions,    \* release versions, ordered as numbers
    Files,       \* file contents
    OtherFiles,  \* contents a user puts in place by other means
    Entry,       \* Entry[v][c]: the file release v's manifest names for c
    VersionOf,   \* the version a binary answers to --version
    None         \* no file, no record, no lock holder

NoVersion == 0
Siblings == Components \ {Main}
Released(c) == {Entry[v][c] : v \in Versions}

Records == [from: Versions \cup {NoVersion}, to: Versions,
            previous: Files, installed: Files]

ASSUME InstallAssumption ==
    /\ Main \in Components
    /\ Versions \subseteq Nat \ {NoVersion}
    /\ Entry \in [Versions -> [Components -> Files]]
    /\ VersionOf \in [Files -> Versions]
    /\ OtherFiles \subseteq Files
    /\ None \notin Files \cup Runs \cup Records

\* What a user puts in place by hand is a build of their own.
ASSUME OtherFilesAssumption ==
    \A c \in Components : OtherFiles \cap Released(c) = {}

VARIABLES
    target,       \* the installed file of each component
    previous,     \* .previous
    record,       \* .previous.json
    hold,         \* .update-hold: the version --rollback went back from
    newFile,      \* .update-new
    previousNew,  \* .previous-new
    recordNew,    \* .previous.json.new
    holdNew,      \* .update-hold-new
    lock,         \* who holds .update-lock
    pc,           \* where each run is
    asked,        \* Asked::User or Asked::Auto
    current,      \* Updater.current: the version of the image that runs
    version,      \* the manifest's version; for a rollback its record's
    changed,      \* Seen::of(target) now differs from Found.before
    todo,         \* planned and not yet locked
    changing,     \* locked, to be prepared
    prepared,     \* prepared: its three temps go when the run ends
    left,         \* prepared and not yet committed
    item,         \* the component a run is at
    wentBack,     \* history: what a finished swap of --rollback went back
                  \* from, until the user installs something
    stuck         \* history: where the last sweep could not remove a file

disk == <<target, previous, record, hold, newFile, previousNew, recordNew, holdNew>>
locals == <<asked, current, version, changed, todo, changing, prepared, left, item>>
past == <<wentBack, stuck>>
vars == <<disk, lock, pc, locals, past>>

UpdatePcs == {"started", "fetching", "locking", "preparing", "downloaded",
              "keeping", "recording", "committing", "previousRenamed",
              "recordRenamed", "inPlace"}
RollbackPcs == {"rollback", "checking", "holding", "holdWritten",
                "swapping", "swapped"}
Pcs == {"idle", "done", "dead"} \cup UpdatePcs \cup RollbackPcs
Live(r) == pc[r] \in UpdatePcs \cup RollbackPcs

TypeOK ==
    /\ target \in [Components -> Files]
    /\ previous \in [Components -> Files \cup {None}]
    /\ record \in [Components -> Records \cup {None}]
    /\ hold \in [Components -> Versions \cup {NoVersion}]
    /\ newFile \in [Components -> Files \cup {None}]
    /\ previousNew \in [Components -> Files \cup {None}]
    /\ recordNew \in [Components -> Records \cup {None}]
    /\ holdNew \in [Components -> Versions \cup {NoVersion}]
    /\ lock \in [Components -> Runs \cup {None}]
    /\ pc \in [Runs -> Pcs]
    /\ asked \in [Runs -> {"User", "Auto"}]
    /\ current \in [Runs -> Versions \cup {NoVersion}]
    /\ version \in [Runs -> Versions \cup {NoVersion}]
    /\ changed \in [Runs -> BOOLEAN]
    /\ todo \in [Runs -> SUBSET Components]
    /\ changing \in [Runs -> SUBSET Components]
    /\ prepared \in [Runs -> SUBSET Components]
    /\ left \in [Runs -> SUBSET Components]
    /\ item \in [Runs -> Components]
    /\ wentBack \in [Components -> Versions \cup {NoVersion}] /\ stuck \subseteq Components

\* A release is installed, and nothing has been updated yet.
Init ==
    /\ \E v \in Versions : target = [c \in Components |-> Entry[v][c]]
    /\ previous = [c \in Components |-> None]
    /\ record = [c \in Components |-> None]
    /\ hold = [c \in Components |-> NoVersion]
    /\ newFile = [c \in Components |-> None]
    /\ previousNew = [c \in Components |-> None]
    /\ recordNew = [c \in Components |-> None]
    /\ holdNew = [c \in Components |-> NoVersion]
    /\ lock = [c \in Components |-> None]
    /\ pc = [r \in Runs |-> "idle"]
    /\ asked = [r \in Runs |-> "User"]
    /\ current = [r \in Runs |-> NoVersion]
    /\ version = [r \in Runs |-> NoVersion]
    /\ changed = [r \in Runs |-> FALSE]
    /\ todo = [r \in Runs |-> {}]
    /\ changing = [r \in Runs |-> {}]
    /\ prepared = [r \in Runs |-> {}]
    /\ left = [r \in Runs |-> {}]
    /\ item = [r \in Runs |-> Main]
    /\ wentBack = [c \in Components |-> NoVersion] /\ stuck = {}

-----------------------------------------------------------------------------
(* Steps every run shares. *)

\* What is left of a process is nothing: its locks are the kernel's to
\* release, its memory is gone.
Leaves(r, how) ==
    /\ pc' = [pc EXCEPT ![r] = how]
    /\ lock' = [c \in Components |-> IF lock[c] = r THEN None ELSE lock[c]]
    /\ asked' = [asked EXCEPT ![r] = "User"]
    /\ current' = [current EXCEPT ![r] = NoVersion]
    /\ version' = [version EXCEPT ![r] = NoVersion]
    /\ changed' = [changed EXCEPT ![r] = FALSE]
    /\ todo' = [todo EXCEPT ![r] = {}]
    /\ changing' = [changing EXCEPT ![r] = {}]
    /\ prepared' = [prepared EXCEPT ![r] = {}]
    /\ left' = [left EXCEPT ![r] = {}]
    /\ item' = [item EXCEPT ![r] = Main]

\* What is left of a temporary when it is removed from the components in S: a
\* removal may fail, and nothing is said of it.
Removals(file, none, S) == {[c \in Components |-> IF c \in G THEN none ELSE file[c]] : G \in SUBSET S}

\* The temporaries of the components in S are removed: Drop for Temp.
DropTemps(S) ==
    /\ newFile' \in Removals(newFile, None, S)
    /\ previousNew' \in Removals(previousNew, None, S)
    /\ recordNew' \in Removals(recordNew, None, S)

Unmade(new, prev, rec, c) == new[c] = None /\ prev[c] = None /\ rec[c] = None

\* With a mistake: the hold's temporary is forgotten.
SweepForgetsHoldNew(S) ==
    /\ DropTemps(S)
    /\ UNCHANGED holdNew
    /\ stuck' = (stuck \ S) \cup {c \in S : ~Unmade(newFile', previousNew', recordNew', c)}

\* sweep: under the lock these exact names are a dead run's.
Sweep(S) ==
    /\ DropTemps(S)
    /\ holdNew' \in Removals(holdNew, NoVersion, S)
    /\ stuck' = (stuck \ S) \cup {c \in S : \/ ~Unmade(newFile', previousNew', recordNew', c)
                                            \/ holdNew'[c] # NoVersion}

\* put_in_place: one rename.  Every run that has looked at the running
\* binary before its fetch would now see another file there.
Replace(c, f) ==
    /\ target' = [target EXCEPT ![c] = f]
    /\ changed' = [r \in Runs |-> changed[r] \/ (c = Main /\ pc[r] \in UpdatePcs \ {"started"})]

\* A kill, a power cut, a reboot: at any moment, and the disk stays as it is.
Kill(r) ==
    /\ Live(r)
    /\ Leaves(r, "dead")
    /\ UNCHANGED <<disk, past>>

\* A user puts a build of their own in place, while no run is at it.
PutByOtherMeans(c, f) ==
    /\ lock[c] = None
    /\ Replace(c, f)
    /\ UNCHANGED <<previous, record, hold, newFile, previousNew, recordNew, holdNew,
                   lock, pc, asked, current, version, todo, changing, prepared,
                   left, item, past>>

-----------------------------------------------------------------------------
(* n0x update and update.auto. *)

\* Updater::for_running: the version is that of the image that was started.
Start(r, a) ==
    /\ pc[r] = "idle"
    /\ pc' = [pc EXCEPT ![r] = "started"]
    /\ asked' = [asked EXCEPT ![r] = a]
    /\ current' = [current EXCEPT ![r] = VersionOf[target[Main]]]
    /\ UNCHANGED <<disk, lock, version, changed, todo, changing, prepared, left, item, past>>

\* fetch_manifest looks at the running binary first (Found.before).
BeginFetch(r) ==
    /\ pc[r] = "started"
    /\ pc' = [pc EXCEPT ![r] = "fetching"]
    /\ changed' = [changed EXCEPT ![r] = FALSE]
    /\ UNCHANGED <<disk, lock, asked, current, version, todo, changing, prepared, left, item, past>>

\* The addresses gave a verified manifest of version v.  The plan is the
\* running component and those siblings in S: the others are not beside the
\* binary, or their entries do not read.
Fetched(r, v, S) ==
    /\ pc[r] = "fetching"
    /\ v > current[r]
    /\ pc' = [pc EXCEPT ![r] = "locking"]
    /\ version' = [version EXCEPT ![r] = v]
    /\ todo' = [todo EXCEPT ![r] = {Main} \cup S]
    /\ UNCHANGED <<disk, lock, asked, current, changed, changing, prepared, left, item, past>>

\* No manifest, one no newer than this build, or one with no entry for it.
NothingToInstall(r) ==
    /\ pc[r] = "fetching"
    /\ Leaves(r, "done")
    /\ UNCHANGED <<disk, past>>

\* The running file comes first.
NextToLock(r) == IF Main \in todo[r] THEN {Main} ELSE todo[r]

\* With a mistake: the version gone back from is not held itself.
HeldBelow(r, c) == asked[r] = "Auto" /\ hold[c] # NoVersion /\ version[r] < hold[c]

\* update.auto leaves alone what a hold names.
Held(r, c) == asked[r] = "Auto" /\ hold[c] # NoVersion /\ version[r] <= hold[c]

\* With a mistake: the file seen before the fetch is not compared.
LockWithoutLooking(r, c) ==
    /\ pc[r] = "locking"
    /\ c \in NextToLock(r)
    /\ lock[c] = None
    /\ ~Held(r, c)
    /\ lock' = [lock EXCEPT ![c] = r]
    /\ todo' = [todo EXCEPT ![r] = @ \ {c}]
    /\ changing' = IF target[c] = Entry[version[r]][c]
                   THEN changing ELSE [changing EXCEPT ![r] = @ \cup {c}]
    /\ UNCHANGED <<disk, pc, asked, current, version, changed, prepared, left, item, past>>

\* The lock is taken, and under it the file is looked at: already the one
\* the manifest names, or one to change.
LockForInstall(r, c) ==
    /\ pc[r] = "locking"
    /\ c \in NextToLock(r)
    /\ lock[c] = None
    /\ ~Held(r, c)
    /\ \/ target[c] = Entry[version[r]][c]
       \/ ~(c = Main /\ changed[r])
    /\ lock' = [lock EXCEPT ![c] = r]
    /\ todo' = [todo EXCEPT ![r] = @ \ {c}]
    /\ changing' = IF target[c] = Entry[version[r]][c]
                   THEN changing ELSE [changing EXCEPT ![r] = @ \cup {c}]
    /\ UNCHANGED <<disk, pc, asked, current, version, changed, prepared, left, item, past>>

\* Held, locked by another run past LOCK_PATIENCE, or not to be locked at
\* all: the running component ends the run, a sibling is skipped.
LockRefused(r, c) ==
    /\ pc[r] = "locking"
    /\ c \in NextToLock(r)
    /\ IF c = Main
       THEN Leaves(r, "done")
       ELSE /\ todo' = [todo EXCEPT ![r] = @ \ {c}]
            /\ UNCHANGED <<lock, pc, asked, current, version, changed, changing, prepared, left, item>>
    /\ UNCHANGED <<disk, past>>

\* Why::ChangedDuringUpdate: under the lock the running file is not the one
\* seen before the fetch.
ChangedDuringUpdate(r) ==
    /\ pc[r] = "locking"
    /\ Main \in todo[r]
    /\ lock[Main] = None
    /\ target[Main] # Entry[version[r]][Main]
    /\ changed[r]
    /\ Leaves(r, "done")
    /\ UNCHANGED <<disk, past>>

SweepChanging(r) ==
    /\ pc[r] = "locking"
    /\ todo[r] = {}
    /\ Sweep(changing[r])
    /\ pc' = [pc EXCEPT ![r] = "preparing"]
    /\ UNCHANGED <<target, previous, record, hold, lock, locals, wentBack>>

\* prepare takes the running component first too.
NextToPrepare(r) == IF Main \in changing[r] THEN {Main} ELSE changing[r]

\* create_private and the download; the file that arrives is any file.
Download(r, c, f) ==
    /\ pc[r] = "preparing"
    /\ c \in NextToPrepare(r)
    /\ newFile[c] = None
    /\ newFile' = [newFile EXCEPT ![c] = f]
    /\ item' = [item EXCEPT ![r] = c]
    /\ pc' = [pc EXCEPT ![r] = "downloaded"]
    /\ UNCHANGED <<target, previous, record, hold, previousNew, recordNew, holdNew, lock,
                   asked, current, version, changed, todo, changing, prepared, left, past>>

\* The size and sha256 of the file on the disk are the manifest's, and the
\* running component's new file answers --version with the manifest's.
Verify(r) ==
    LET c == item[r] IN
    /\ pc[r] = "downloaded"
    /\ newFile[c] = Entry[version[r]][c]
    /\ c = Main => VersionOf[newFile[c]] = version[r]
    /\ pc' = [pc EXCEPT ![r] = "keeping"]
    /\ UNCHANGED <<disk, lock, locals, past>>

KeepACopy(r) ==
    LET c == item[r] IN
    /\ pc[r] = "keeping"
    /\ previousNew[c] = None
    /\ previousNew' = [previousNew EXCEPT ![c] = target[c]]
    /\ pc' = [pc EXCEPT ![r] = "recording"]
    /\ UNCHANGED <<target, previous, record, hold, newFile, recordNew, holdNew,
                   lock, locals, past>>

WriteRecord(r) ==
    LET c == item[r] IN
    /\ pc[r] = "recording"
    /\ recordNew[c] = None
    /\ recordNew' = [recordNew EXCEPT ![c] =
                        [from |-> IF c = Main THEN current[r] ELSE NoVersion,
                         to |-> version[r],
                         previous |-> previousNew[c], installed |-> newFile[c]]]
    /\ prepared' = [prepared EXCEPT ![r] = @ \cup {c}]
    /\ changing' = [changing EXCEPT ![r] = @ \ {c}]
    /\ pc' = [pc EXCEPT ![r] = "preparing"]
    /\ UNCHANGED <<target, previous, record, hold, newFile, previousNew, holdNew, lock,
                   asked, current, version, changed, todo, left, item, past>>

\* After a refusal in prepare: the running component's ends the run, a
\* sibling's skips that sibling.
SkipOrLeave(r, c) ==
    IF c = Main
    THEN Leaves(r, "done")
    ELSE /\ changing' = [changing EXCEPT ![r] = @ \ {c}]
         /\ pc' = [pc EXCEPT ![r] = "preparing"]
         /\ UNCHANGED <<lock, asked, current, version, changed, todo, prepared, left, item>>

\* .update-new could not be created: nothing of this component to drop.
NotWritable(r, c) ==
    /\ pc[r] = "preparing"
    /\ c \in NextToPrepare(r)
    /\ SkipOrLeave(r, c)
    /\ UNCHANGED <<disk, past>>

\* The download, a comparison, the new file's --version or the disk failed.
PrepareFails(r) ==
    /\ pc[r] \in {"downloaded", "keeping", "recording"}
    /\ DropTemps({item[r]})
    /\ SkipOrLeave(r, item[r])
    /\ UNCHANGED <<target, previous, record, hold, holdNew, past>>

BeginCommit(r) ==
    /\ pc[r] = "preparing"
    /\ changing[r] = {}
    /\ pc' = [pc EXCEPT ![r] = "committing"]
    /\ left' = [left EXCEPT ![r] = prepared[r]]
    /\ UNCHANGED <<disk, lock, asked, current, version, changed, todo, changing, prepared, item, past>>

\* With a mistake: the order of prepare.
MainCommitsFirst(r) == IF Main \in left[r] THEN {Main} ELSE left[r]

\* The running component last.
NextToCommit(r) == IF left[r] \subseteq {Main} THEN left[r] ELSE left[r] \ {Main}

\* commit, first rename: replace_previous.
RenamePrevious(r, c) ==
    /\ pc[r] = "committing"
    /\ c \in NextToCommit(r)
    /\ item' = [item EXCEPT ![r] = c]
    /\ left' = [left EXCEPT ![r] = @ \ {c}]
    /\ previous' = [previous EXCEPT ![c] = previousNew[c]]
    /\ previousNew' = [previousNew EXCEPT ![c] = None]
    /\ pc' = [pc EXCEPT ![r] = "previousRenamed"]
    /\ UNCHANGED <<target, record, hold, newFile, recordNew, holdNew, lock, asked,
                   current, version, changed, todo, changing, prepared, past>>

\* Second rename: now the record vouches for .previous.
RenameRecord(r) ==
    LET c == item[r] IN
    /\ pc[r] = "previousRenamed"
    /\ record' = [record EXCEPT ![c] = recordNew[c]]
    /\ recordNew' = [recordNew EXCEPT ![c] = None]
    /\ pc' = [pc EXCEPT ![r] = "recordRenamed"]
    /\ UNCHANGED <<target, previous, hold, newFile, previousNew, holdNew, lock, locals, past>>

\* Third rename: put_in_place.
PutInPlace(r) ==
    LET c == item[r] IN
    /\ pc[r] = "recordRenamed"
    /\ Replace(c, newFile[c])
    /\ newFile' = [newFile EXCEPT ![c] = None]
    /\ pc' = [pc EXCEPT ![r] = IF asked[r] = "User" THEN "inPlace" ELSE "committing"]
    /\ wentBack' = IF asked[r] = "User" THEN [wentBack EXCEPT ![c] = NoVersion] ELSE wentBack
    /\ UNCHANGED <<previous, record, hold, previousNew, recordNew, holdNew, lock, asked,
                   current, version, todo, changing, prepared, left, item, stuck>>

\* The user's own update ends the hold; the removal's failure is ignored.
RemoveHold(r) ==
    /\ pc[r] = "inPlace"
    /\ hold' \in {hold, [hold EXCEPT ![item[r]] = NoVersion]}
    /\ pc' = [pc EXCEPT ![r] = "committing"]
    /\ UNCHANGED <<target, previous, record, newFile, previousNew, recordNew, holdNew,
                   lock, locals, past>>

\* With a mistake: the first rename's failure is not looked at.
CommitGoesOn(r, c) ==
    /\ pc[r] = "committing" /\ c \in NextToCommit(r)
    /\ left' = [left EXCEPT ![r] = @ \ {c}]
    /\ item' = [item EXCEPT ![r] = c]
    /\ pc' = [pc EXCEPT ![r] = "previousRenamed"]
    /\ UNCHANGED <<disk, lock, asked, current, version, changed, todo, changing, prepared, past>>

\* A rename failed: that component's commit is over, the others go on.
CommitFails(r, c) ==
    /\ \/ pc[r] = "committing" /\ c \in NextToCommit(r)
       \/ pc[r] \in {"previousRenamed", "recordRenamed"} /\ c = item[r]
    /\ left' = [left EXCEPT ![r] = @ \ {c}]
    /\ pc' = [pc EXCEPT ![r] = "committing"]
    /\ UNCHANGED <<disk, lock, asked, current, version, changed, todo, changing, prepared, item, past>>

\* The report, or split_result: the temps go, then the locks.
EndInstall(r) ==
    /\ pc[r] = "committing"
    /\ left[r] = {}
    /\ DropTemps(prepared[r])
    /\ Leaves(r, "done")
    /\ UNCHANGED <<target, previous, record, hold, holdNew, past>>

-----------------------------------------------------------------------------
(* n0x update --rollback, about one file. *)

\* With a mistake: the sweep does not wait for the lock.
SweepBeforeLock(r, c) ==
    /\ pc[r] = "idle"
    /\ previous[c] # None
    /\ pc' = [pc EXCEPT ![r] = "rollback"]
    /\ item' = [item EXCEPT ![r] = c]
    /\ Sweep({c})
    /\ UNCHANGED <<target, previous, record, hold, lock, asked, current, version, changed,
                   todo, changing, prepared, left, wentBack>>

\* Before the lock: with no .previous the refusal leaves no file behind.
StartRollback(r, c) ==
    /\ pc[r] = "idle"
    /\ previous[c] # None
    /\ pc' = [pc EXCEPT ![r] = "rollback"]
    /\ item' = [item EXCEPT ![r] = c]
    /\ UNCHANGED <<disk, lock, asked, current, version, changed, todo, changing, prepared, left, past>>

RollbackLock(r) ==
    LET c == item[r] IN
    /\ pc[r] = "rollback"
    /\ lock[c] = None
    /\ lock' = [lock EXCEPT ![c] = r]
    /\ Sweep({c})
    /\ pc' = [pc EXCEPT ![r] = "checking"]
    /\ UNCHANGED <<target, previous, record, hold, locals, wentBack>>

\* kept_for: what is kept is what its record says.
Vouched(c) ==
    /\ previous[c] # None
    /\ record[c] # None
    /\ record[c].previous = previous[c]

\* A rollback may move the file: what is kept is vouched for, it is not what
\* is installed already, and what is installed is what the update left.
CanGoBack(c) ==
    /\ Vouched(c)
    /\ target[c] # record[c].previous
    /\ target[c] = record[c].installed

\* With a mistake: no hold before the swap.
RollbackWithoutHold(r) ==
    LET c == item[r] IN
    /\ pc[r] = "checking"
    /\ CanGoBack(c)
    /\ version' = [version EXCEPT ![r] = record[c].to]
    /\ pc' = [pc EXCEPT ![r] = "swapping"]
    /\ UNCHANGED <<disk, lock, asked, current, changed, todo, changing, prepared, left, item, past>>

\* What was found under the lock.
RollbackCheck(r) ==
    LET c == item[r] IN
    /\ pc[r] = "checking"
    /\ CanGoBack(c)
    /\ version' = [version EXCEPT ![r] = record[c].to]
    /\ pc' = [pc EXCEPT ![r] = "holding"]
    /\ UNCHANGED <<disk, lock, asked, current, changed, todo, changing, prepared, left, item, past>>

\* UpdateInProgress, NoPrevious, PreviousDoesNotMatch, "nothing changed",
\* NotWhatWasInstalled, or the hold or the swap failed: the file stays.
RollbackRefused(r) ==
    LET c == item[r] IN
    /\ \/ pc[r] = "rollback"
       \/ pc[r] = "checking" /\ ~CanGoBack(c)
       \/ pc[r] \in {"holding", "holdWritten", "swapping"}
    /\ holdNew' \in Removals(holdNew, NoVersion, IF pc[r] = "holdWritten" THEN {c} ELSE {})
    /\ Leaves(r, "done")
    /\ UNCHANGED <<target, previous, record, hold, newFile, previousNew, recordNew, past>>

\* write_hold, by rename and before the swap.
WriteHold(r) ==
    LET c == item[r] IN
    /\ pc[r] = "holding"
    /\ holdNew[c] = NoVersion
    /\ holdNew' = [holdNew EXCEPT ![c] = version[r]]
    /\ pc' = [pc EXCEPT ![r] = "holdWritten"]
    /\ UNCHANGED <<target, previous, record, hold, newFile, previousNew, recordNew,
                   lock, locals, past>>

RenameHold(r) ==
    LET c == item[r] IN
    /\ pc[r] = "holdWritten"
    /\ hold' = [hold EXCEPT ![c] = holdNew[c]]
    /\ holdNew' = [holdNew EXCEPT ![c] = NoVersion]
    /\ pc' = [pc EXCEPT ![r] = "swapping"]
    /\ UNCHANGED <<target, previous, record, newFile, previousNew, recordNew, lock,
                   locals, past>>

SwapBack(r) ==
    LET c == item[r] IN
    /\ pc[r] = "swapping"
    /\ Replace(c, previous[c])
    /\ previous' = [previous EXCEPT ![c] = None]
    /\ wentBack' = [wentBack EXCEPT ![c] = version[r]]
    /\ pc' = [pc EXCEPT ![r] = "swapped"]
    /\ UNCHANGED <<record, hold, newFile, previousNew, recordNew, holdNew, lock, asked,
                   current, version, todo, changing, prepared, left, item, stuck>>

\* The record's removal may fail, and nothing is said of it.
EndRollback(r) ==
    /\ pc[r] = "swapped"
    /\ record' \in {record, [record EXCEPT ![item[r]] = None]}
    /\ Leaves(r, "done")
    /\ UNCHANGED <<target, previous, hold, newFile, previousNew, recordNew, holdNew, past>>

-----------------------------------------------------------------------------
Prepare(r) ==
    \/ \E c \in Components, f \in Files : Download(r, c, f)
    \/ Verify(r)
    \/ KeepACopy(r)
    \/ WriteRecord(r)
    \/ \E c \in Components : NotWritable(r, c)
    \/ PrepareFails(r)

Commit(r) ==
    \/ BeginCommit(r)
    \/ \E c \in Components : RenamePrevious(r, c)
    \/ RenameRecord(r)
    \/ PutInPlace(r)
    \/ RemoveHold(r)
    \/ \E c \in Components : CommitFails(r, c)
    \/ EndInstall(r)

Update(r) ==
    \/ \E a \in {"User", "Auto"} : Start(r, a)
    \/ BeginFetch(r)
    \/ \E v \in Versions, S \in SUBSET Siblings : Fetched(r, v, S)
    \/ NothingToInstall(r)
    \/ \E c \in Components : LockForInstall(r, c)
    \/ \E c \in Components : LockRefused(r, c)
    \/ ChangedDuringUpdate(r)
    \/ SweepChanging(r)
    \/ Prepare(r)
    \/ Commit(r)

Rollback(r) ==
    \/ \E c \in Components : StartRollback(r, c)
    \/ RollbackLock(r)
    \/ RollbackCheck(r)
    \/ RollbackRefused(r)
    \/ WriteHold(r)
    \/ RenameHold(r)
    \/ SwapBack(r)
    \/ EndRollback(r)

Next ==
    \/ \E r \in Runs : Update(r) \/ Rollback(r) \/ Kill(r)
    \/ \E c \in Components, f \in OtherFiles : PutByOtherMeans(c, f)

Spec == Init /\ [][Next]_vars

-----------------------------------------------------------------------------
(* Properties. *)

\* Run r's commit moves a component in this step.
Moves(r) == pc[r] = "recordRenamed" /\ target'[item[r]] # target[item[r]]

\* An install that moves a file leaves beside it exactly the file it
\* replaced, vouched for by a record that names both (install.rs, the order
\* of commit's renames and reading what is installed only under the lock: "a
\* run that waited out another would go on to keep the new file as .previous
\* and lose the old one").
InstallKeepsWhatItReplaces ==
    [][\A r \in Runs : Moves(r) =>
          LET c == item[r] IN
          /\ previous'[c] = target[c]
          /\ record'[c] # None
          /\ record'[c].previous = target[c]
          /\ record'[c].installed = target'[c]]_vars

\* The hold is on the disk before the swap and stays there: whatever dies in
\* between, a version gone back from is named by the hold until the user
\* installs one (write_hold before put_in_place in rollback).
HoldCoversRollback == \A c \in Components : wentBack[c] <= hold[c]

\* The running file is moved only if nothing has replaced it since this run
\* looked at it before its fetch, the minute in which nothing is held
\* (Seen, ChangedDuringUpdate).
UntouchedSinceFetch ==
    [][\A r \in Runs : Moves(r) /\ item[r] = Main => ~changed[r]]_vars

\* While a prepared sibling is not yet committed the running file is not the
\* new one, so a run killed here is run again by the old binary, which still
\* sees something to do ("The running component last" in install).
RunningComponentLast ==
    \A r \in Runs :
        /\ pc[r] \in {"committing", "previousRenamed", "recordRenamed", "inPlace"}
        /\ Main \in prepared[r]
        /\ \/ left[r] \cap Siblings # {}
           \/ pc[r] \in {"previousRenamed", "recordRenamed"} /\ item[r] # Main
        => target[Main] # Entry[version[r]][Main]

\* create_new never meets what a dead run left: every temporary a run is about
\* to create is gone when it gets there, unless the sweep under the lock could
\* not remove it.
TempsAreFree ==
    \A r \in Runs :
        /\ pc[r] = "preparing" =>
              \A c \in changing[r] \ stuck :
                  newFile[c] = None /\ previousNew[c] = None /\ recordNew[c] = None
        /\ item[r] \notin stuck =>
              /\ pc[r] \in {"downloaded", "keeping"} => previousNew[item[r]] = None
              /\ pc[r] \in {"downloaded", "keeping", "recording"} => recordNew[item[r]] = None
              /\ pc[r] \in {"checking", "holding"} => holdNew[item[r]] = NoVersion

\* What the user sees of it: the file --rollback would put back is the
\* abstract kept file (install and rollback implement Installation).
Abstract == INSTANCE Installation WITH
    installed <- target,
    kept <- [c \in Components |-> IF CanGoBack(c) THEN previous[c] ELSE None],
    barred <- wentBack

ImplementsInstallation == Abstract!ASpec
=============================================================================
