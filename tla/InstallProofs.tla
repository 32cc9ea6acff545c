--------------------------- MODULE InstallProofs ---------------------------
(***************************************************************************)
(* Proofs about Install, for any number of runs, components and releases.  *)
(* The inductive invariant says what a run that holds a lock knows of the  *)
(* files behind it (RunInv) and what a record says whoever is running      *)
(* (FileInv).  A run knows only of files it holds the lock of, so a step   *)
(* of one run disturbs no other's knowledge (lemma Frame).                 *)
(***************************************************************************)
EXTENDS Install, TLAPS

USE DEF past

PreparePcs == {"preparing", "downloaded", "keeping", "recording"}
MidCommitPcs == {"previousRenamed", "recordRenamed"}
CommitPcs == {"committing", "inPlace"} \cup MidCommitPcs
LockedRollbackPcs == {"checking", "holding", "holdWritten", "swapping", "swapped"}

\* The components run r has still to move, or is moving.
Pending(r) ==
    changing[r] \cup (IF pc[r] \in PreparePcs THEN prepared[r] ELSE left[r])
                \cup (IF pc[r] \in MidCommitPcs THEN {item[r]} ELSE {})

\* What a run holds and at which point.
Shape(r) ==
    /\ \A c \in changing[r] \cup prepared[r] : lock[c] = r
    /\ pc[r] \in LockedRollbackPcs => lock[item[r]] = r
    /\ pc[r] \notin {"locking"} \cup PreparePcs => changing[r] = {}
    /\ pc[r] \notin PreparePcs \cup CommitPcs => prepared[r] = {}
    /\ pc[r] \notin CommitPcs => left[r] = {}
    /\ left[r] \subseteq prepared[r]
    /\ changing[r] \cap prepared[r] = {}
    /\ pc[r] \in {"downloaded", "keeping", "recording"} => item[r] \in changing[r]
    /\ pc[r] \in MidCommitPcs \cup {"inPlace"} => item[r] \in prepared[r] \ left[r]
    /\ pc[r] \in {"locking", "holding", "holdWritten", "swapping"} \cup PreparePcs \cup CommitPcs
          => version[r] \in Versions

\* r's record of c, before or after its rename.
Describes(rec, r, c) ==
    /\ rec # None
    /\ rec.previous = target[c]
    /\ rec.installed = Entry[version[r]][c]
    /\ rec.to = version[r]

\* What stands ready for a component r has prepared.
Ready(r, c) ==
    /\ newFile[c] = Entry[version[r]][c]
    /\ previousNew[c] = target[c]
    /\ Describes(recordNew[c], r, c)

\* What r knows of the files behind its locks.
Knows(r) ==
    /\ \A c \in Pending(r) :
          /\ target[c] # Entry[version[r]][c]
          /\ asked[r] = "Auto" => version[r] > hold[c]
          /\ c = Main => ~changed[r]
    /\ pc[r] \in PreparePcs => \A c \in prepared[r] : Ready(r, c)
    /\ \A c \in left[r] : Ready(r, c)
    /\ pc[r] \in {"keeping", "recording"} => newFile[item[r]] = Entry[version[r]][item[r]]
    /\ pc[r] = "recording" => previousNew[item[r]] = target[item[r]]
    /\ pc[r] \in MidCommitPcs => newFile[item[r]] = Entry[version[r]][item[r]]
    /\ pc[r] \in MidCommitPcs => previous[item[r]] = target[item[r]]
    /\ pc[r] = "previousRenamed" => Describes(recordNew[item[r]], r, item[r])
    /\ pc[r] = "recordRenamed" => Describes(record[item[r]], r, item[r])
    /\ pc[r] \in {"holding", "holdWritten", "swapping"} =>
          CanGoBack(item[r]) /\ version[r] = record[item[r]].to
    /\ pc[r] = "holdWritten" => holdNew[item[r]] = version[r]
    /\ pc[r] = "swapping" => hold[item[r]] = version[r]
    /\ pc[r] = "swapped" => previous[item[r]] = None
    /\ pc[r] = "inPlace" => wentBack[item[r]] = NoVersion

\* While siblings are left the running component is too.
MainLast(r) ==
    /\ Main \in prepared[r]
    /\ pc[r] \in CommitPcs
    /\ \/ left[r] \cap Siblings # {}
       \/ pc[r] \in MidCommitPcs /\ item[r] # Main
    => Main \in left[r]

\* A temporary about to be created is not there, unless the sweep could not
\* remove it.
FreeTemps(r) ==
    /\ pc[r] = "preparing" =>
          \A c \in changing[r] \ stuck : newFile[c] = None /\ previousNew[c] = None /\ recordNew[c] = None
    /\ pc[r] \in {"downloaded", "keeping", "recording"} =>
          \A c \in changing[r] \ stuck :
              /\ c # item[r] => newFile[c] = None
              /\ c # item[r] \/ pc[r] # "recording" => previousNew[c] = None
              /\ recordNew[c] = None
    /\ pc[r] \in {"checking", "holding"} /\ item[r] \notin stuck => holdNew[item[r]] = NoVersion

RunInv(r) == Shape(r) /\ Knows(r) /\ MainLast(r) /\ FreeTemps(r)

\* What a record says of its component, and that the hold covers what was
\* gone back from before and after the next rollback.
FileInv(c) ==
    /\ record[c] # None =>
          /\ record[c].previous # record[c].installed
          /\ record[c].installed = Entry[record[c].to][c]
    /\ CanGoBack(c) => wentBack[c] < record[c].to
    /\ wentBack[c] <= hold[c]

IInv ==
    /\ TypeOK
    /\ \A r \in Runs : RunInv(r)
    /\ \A c \in Components : FileInv(c)

-----------------------------------------------------------------------------
\* The files behind lock c stay as they are.
SameFiles(c) ==
    /\ lock'[c] = lock[c]
    /\ target'[c] = target[c]
    /\ previous'[c] = previous[c]
    /\ record'[c] = record[c]
    /\ hold'[c] = hold[c]
    /\ newFile'[c] = newFile[c]
    /\ previousNew'[c] = previousNew[c]
    /\ recordNew'[c] = recordNew[c]
    /\ holdNew'[c] = holdNew[c]
    /\ wentBack'[c] = wentBack[c]
    /\ c \in stuck' <=> c \in stuck

\* A step touches neither q's memory nor a file whose lock q holds.
Untouched(q) ==
    /\ pc'[q] = pc[q]
    /\ asked'[q] = asked[q]
    /\ version'[q] = version[q]
    /\ changing'[q] = changing[q]
    /\ prepared'[q] = prepared[q]
    /\ left'[q] = left[q]
    /\ item'[q] = item[q]
    /\ lock[Main] = q => changed'[q] = changed[q]
    /\ \A c \in Components : lock[c] = q => SameFiles(c)

\* The temporaries of a prepared component are removed, or some are not.
LEMMA Dropped ==
    ASSUME TypeOK, NEW S, DropTemps(S)
    PROVE  /\ newFile' \in [Components -> Files \cup {None}]
           /\ previousNew' \in [Components -> Files \cup {None}]
           /\ recordNew' \in [Components -> Records \cup {None}]
           /\ \A c \in Components : c \notin S =>
                newFile'[c] = newFile[c] /\ previousNew'[c] = previousNew[c] /\ recordNew'[c] = recordNew[c]
<1>1. newFile' \in [Components -> Files \cup {None}]
      /\ \A c \in Components : newFile'[c] = newFile[c] \/ (c \in S /\ newFile'[c] = None)
  <2>1. PICK G \in SUBSET S : newFile' = [c \in Components |-> IF c \in G THEN None ELSE newFile[c]]
    BY DEF DropTemps, Removals
  <2> QED BY <2>1 DEF TypeOK
<1>2. previousNew' \in [Components -> Files \cup {None}]
      /\ \A c \in Components : previousNew'[c] = previousNew[c] \/ (c \in S /\ previousNew'[c] = None)
  <2>1. PICK G \in SUBSET S : previousNew' = [c \in Components |-> IF c \in G THEN None ELSE previousNew[c]]
    BY DEF DropTemps, Removals
  <2> QED BY <2>1 DEF TypeOK
<1>3. recordNew' \in [Components -> Records \cup {None}]
      /\ \A c \in Components : recordNew'[c] = recordNew[c] \/ (c \in S /\ recordNew'[c] = None)
  <2>1. PICK G \in SUBSET S : recordNew' = [c \in Components |-> IF c \in G THEN None ELSE recordNew[c]]
    BY DEF DropTemps, Removals
  <2> QED BY <2>1 DEF TypeOK
<1> QED BY <1>1, <1>2, <1>3

\* What the sweep could not remove it says so of.
LEMMA Swept ==
    ASSUME TypeOK, NEW S \in SUBSET Components, Sweep(S)
    PROVE  /\ newFile' \in [Components -> Files \cup {None}]
           /\ previousNew' \in [Components -> Files \cup {None}]
           /\ recordNew' \in [Components -> Records \cup {None}]
           /\ holdNew' \in [Components -> Versions \cup {NoVersion}]
           /\ stuck' \subseteq Components
           /\ \A c \in Components \ S :
                /\ newFile'[c] = newFile[c] /\ previousNew'[c] = previousNew[c]
                /\ recordNew'[c] = recordNew[c] /\ holdNew'[c] = holdNew[c]
                /\ c \in stuck' <=> c \in stuck
           /\ \A c \in S \ stuck' :
                /\ newFile'[c] = None /\ previousNew'[c] = None
                /\ recordNew'[c] = None /\ holdNew'[c] = NoVersion
<1>1. holdNew' \in [Components -> Versions \cup {NoVersion}]
      /\ \A c \in Components : holdNew'[c] = holdNew[c] \/ (c \in S /\ holdNew'[c] = NoVersion)
  <2>1. PICK G \in SUBSET S : holdNew' = [c \in Components |-> IF c \in G THEN NoVersion ELSE holdNew[c]]
    BY DEF Sweep, Removals
  <2> QED BY <2>1 DEF TypeOK
<1>2. DropTemps(S)
  BY DEF Sweep
<1>3. stuck' \subseteq Components
  BY DEF TypeOK, Sweep
<1>4. \A c \in S \ stuck' : Unmade(newFile', previousNew', recordNew', c) /\ holdNew'[c] = NoVersion
  BY DEF Sweep
<1>5. \A c \in Components \ S : c \in stuck' <=> c \in stuck
  BY DEF Sweep
<1> QED BY <1>1, <1>2, <1>3, <1>4, <1>5, Dropped DEF Unmade

\* A run's knowledge is only about the files it holds the lock of
\* (lock_for_install and rollback read nothing before take_lock that they
\* rely on later).
LEMMA Frame ==
    ASSUME TypeOK, NEW q \in Runs, RunInv(q), Untouched(q)
    PROVE  RunInv(q)'
<1> USE InstallAssumption
<1>0. /\ changing[q] \subseteq Components /\ prepared[q] \subseteq Components
      /\ left[q] \subseteq Components /\ item[q] \in Components
  BY DEF TypeOK
<1>1. Shape(q)'
  BY <1>0 DEF RunInv, Shape, Untouched, SameFiles
<1>2. \A c \in Pending(q) : lock[c] = q
  BY <1>0 DEF RunInv, Shape, Pending
<1>3. Pending(q)' = Pending(q)
  BY DEF Pending, Untouched
<1>4. Knows(q)'
  <2>1. \A c \in Components : lock[c] = q /\ Ready(q, c) => Ready(q, c)'
    BY DEF Ready, Describes, Untouched, SameFiles
  <2>2. pc[q] \in LockedRollbackPcs \cup MidCommitPcs \cup {"inPlace", "downloaded", "keeping", "recording"}
           => lock[item[q]] = q
    BY <1>0 DEF RunInv, Shape
  <2>3. Pending(q) \subseteq Components
    BY <1>0 DEF Pending
  <2>4. \A c \in Pending(q)' :
          /\ target'[c] # Entry[version'[q]][c]
          /\ asked'[q] = "Auto" => version'[q] > hold'[c]
          /\ c = Main => ~changed'[q]
    BY <1>2, <1>3, <2>3 DEF RunInv, Knows, Untouched, SameFiles
  <2>5. /\ pc'[q] \in PreparePcs => \A c \in prepared'[q] : Ready(q, c)'
        /\ \A c \in left'[q] : Ready(q, c)'
    BY <1>0, <2>1 DEF RunInv, Shape, Knows, Untouched
  <2>6. CASE pc[q] \in {"holding", "holdWritten", "swapping", "swapped"}
    BY <1>0, <2>2, <2>4, <2>5, <2>6
       DEF RunInv, Knows, Untouched, SameFiles, CanGoBack, Vouched, LockedRollbackPcs, MidCommitPcs
  <2>7. CASE pc[q] \in {"keeping", "recording", "inPlace"} \cup MidCommitPcs
    BY <1>0, <2>2, <2>4, <2>5, <2>7
       DEF RunInv, Knows, Untouched, SameFiles, Describes, MidCommitPcs
  <2>8. CASE pc[q] \notin {"holding", "holdWritten", "swapping", "swapped"} \cup
                          {"keeping", "recording", "inPlace"} \cup MidCommitPcs
    BY <2>4, <2>5, <2>8 DEF Knows, Untouched, MidCommitPcs
  <2> QED BY <2>6, <2>7, <2>8
<1>5. MainLast(q)'
  BY DEF RunInv, MainLast, Untouched
<1>6. FreeTemps(q)'
  BY <1>0 DEF RunInv, Shape, FreeTemps, Untouched, SameFiles, LockedRollbackPcs
<1> QED BY <1>1, <1>4, <1>5, <1>6 DEF RunInv
\* A step that moves no file, record or hold leaves what they say alone.
LEMMA FileFrame ==
    ASSUME NEW c \in Components, FileInv(c), target'[c] = target[c], previous'[c] = previous[c],
           record'[c] = record[c], hold'[c] = hold[c], wentBack'[c] = wentBack[c]
    PROVE  FileInv(c)'
  BY DEF FileInv, CanGoBack, Vouched

\* Versions are numbers above NoVersion.
LEMMA VersionFacts ==
    ASSUME TypeOK
    PROVE  /\ \A v \in Versions : v \in Nat /\ v > 0
           /\ \A c \in Components : hold[c] \in Nat /\ wentBack[c] \in Nat
<1>1. \A v \in Versions : v \in Nat /\ v > 0
  BY InstallAssumption DEF NoVersion
<1>2. \A c \in Components : hold[c] \in Versions \cup {0} /\ wentBack[c] \in Versions \cup {0}
  BY DEF TypeOK, NoVersion
<1> QED BY <1>1, <1>2

\* A run that ends knows nothing, and lets go of its own locks only.
LEMMA LeavesInv ==
    ASSUME TypeOK, NEW r \in Runs, NEW how \in {"done", "dead"}, Leaves(r, how)
    PROVE  /\ RunInv(r)'
           /\ \A q \in Runs \ {r} :
                 /\ pc'[q] = pc[q] /\ asked'[q] = asked[q] /\ version'[q] = version[q]
                 /\ changing'[q] = changing[q] /\ prepared'[q] = prepared[q]
                 /\ left'[q] = left[q] /\ item'[q] = item[q] /\ changed'[q] = changed[q]
                 /\ \A c \in Components : lock[c] = q => lock'[c] = q
           /\ pc' \in [Runs -> Pcs] /\ asked' \in [Runs -> {"User", "Auto"}]
           /\ current' \in [Runs -> Versions \cup {NoVersion}]
           /\ version' \in [Runs -> Versions \cup {NoVersion}]
           /\ changed' \in [Runs -> BOOLEAN]
           /\ todo' \in [Runs -> SUBSET Components]
           /\ changing' \in [Runs -> SUBSET Components]
           /\ prepared' \in [Runs -> SUBSET Components]
           /\ left' \in [Runs -> SUBSET Components]
           /\ item' \in [Runs -> Components]
           /\ lock' \in [Components -> Runs \cup {None}]
<1> USE InstallAssumption DEF TypeOK, Leaves
<1>1. /\ pc'[r] = how /\ changing'[r] = {} /\ prepared'[r] = {} /\ left'[r] = {}
  OBVIOUS
<1>2. RunInv(r)'
  BY <1>1 DEF RunInv, Shape, Knows, MainLast, FreeTemps, Pending, PreparePcs, CommitPcs,
              MidCommitPcs, LockedRollbackPcs
<1> QED BY <1>2 DEF Pcs

\* A run that starts has no lock yet, so there is nothing it must know.
LEMMA StartStep ==
    ASSUME IInv, NEW r \in Runs, NEW a \in {"User", "Auto"}, Start(r, a)
    PROVE  IInv'
<1> USE InstallAssumption
<1>1. TypeOK'
  BY DEF IInv, TypeOK, NoVersion, Pcs, RollbackPcs, UpdatePcs, Start, disk
<1>2. \A q \in Runs \ {r} : Untouched(q)
  BY DEF IInv, RunInv, Shape, TypeOK, PreparePcs, CommitPcs, MidCommitPcs,
     LockedRollbackPcs, Untouched, SameFiles, Start, disk
<1>3. RunInv(r)'
  <2>1. Shape(r)'
    BY DEF IInv, RunInv, Shape, TypeOK, PreparePcs, CommitPcs, MidCommitPcs,
       LockedRollbackPcs, Start
  <2>2. Knows(r)'
    <3>1. /\ pc'[r] = "started" /\ changing'[r] = {} /\ prepared'[r] = {} /\ left'[r] = {}
      BY ZenonT(60) DEF IInv, RunInv, Shape, TypeOK, PreparePcs, CommitPcs, MidCommitPcs, Start
    <3>2. Pending(r)' = {}
      BY <3>1 DEF Pending, PreparePcs, MidCommitPcs
    <3> QED BY <3>1, <3>2 DEF Knows, PreparePcs, MidCommitPcs
  <2>3. MainLast(r)'
    BY DEF IInv, RunInv, Shape, MainLast, TypeOK, CommitPcs, MidCommitPcs, Siblings, Start
  <2>4. FreeTemps(r)'
    BY DEF IInv, RunInv, Shape, FreeTemps, TypeOK, PreparePcs, LockedRollbackPcs, Start,
       disk
  <2> QED BY <2>1, <2>2, <2>3, <2>4 DEF RunInv
<1>4. \A d \in Components : FileInv(d)'
  BY FileFrame DEF IInv, Start, disk
<1> QED BY <1>1, <1>2, <1>3, <1>4, Frame DEF IInv

\* Seen, taken before the fetch, is about the present file.
LEMMA BeginFetchStep ==
    ASSUME IInv, NEW r \in Runs, BeginFetch(r)
    PROVE  IInv'
<1> USE InstallAssumption
<1>1. TypeOK'
  BY DEF IInv, TypeOK, NoVersion, Pcs, RollbackPcs, UpdatePcs, BeginFetch, disk
<1>2. \A q \in Runs \ {r} : Untouched(q)
  BY DEF IInv, RunInv, Shape, TypeOK, PreparePcs, CommitPcs, MidCommitPcs,
     LockedRollbackPcs, Untouched, SameFiles, BeginFetch, disk
<1>3. RunInv(r)'
  <2>1. Shape(r)'
    BY DEF IInv, RunInv, Shape, TypeOK, PreparePcs, CommitPcs, MidCommitPcs,
       LockedRollbackPcs, BeginFetch
  <2>2. Knows(r)'
    BY DEF IInv, RunInv, Shape, Knows, Pending, Ready, Describes, TypeOK, NoVersion,
       PreparePcs, CommitPcs, MidCommitPcs, BeginFetch, disk
  <2>3. MainLast(r)'
    BY DEF IInv, RunInv, Shape, MainLast, TypeOK, CommitPcs, MidCommitPcs, Siblings,
       BeginFetch
  <2>4. FreeTemps(r)'
    BY DEF IInv, RunInv, Shape, FreeTemps, TypeOK, PreparePcs, LockedRollbackPcs,
       BeginFetch, disk
  <2> QED BY <2>1, <2>2, <2>3, <2>4 DEF RunInv
<1>4. \A d \in Components : FileInv(d)'
  BY FileFrame DEF IInv, BeginFetch, disk
<1> QED BY <1>1, <1>2, <1>3, <1>4, Frame DEF IInv

\* The manifest names the version; still no lock is held.
LEMMA FetchedStep ==
    ASSUME IInv, NEW r \in Runs, NEW v \in Versions, NEW S \in SUBSET Siblings, Fetched(r, v, S)
    PROVE  IInv'
<1> USE InstallAssumption
<1>1. TypeOK'
  BY DEF IInv, TypeOK, NoVersion, Pcs, RollbackPcs, UpdatePcs, Fetched, disk, Siblings
<1>2. \A q \in Runs \ {r} : Untouched(q)
  BY DEF IInv, RunInv, Shape, TypeOK, PreparePcs, CommitPcs, MidCommitPcs,
     LockedRollbackPcs, Untouched, SameFiles, Fetched, disk
<1>3. RunInv(r)'
  <2>1. Shape(r)'
    BY DEF IInv, RunInv, Shape, TypeOK, PreparePcs, CommitPcs, MidCommitPcs,
       LockedRollbackPcs, Fetched, Siblings
  <2>2. Knows(r)'
    <3>1. /\ pc'[r] = "locking" /\ changing'[r] = {} /\ prepared'[r] = {} /\ left'[r] = {}
      BY ZenonT(60) DEF IInv, RunInv, Shape, TypeOK, PreparePcs, CommitPcs, MidCommitPcs, Fetched
    <3>2. Pending(r)' = {}
      BY <3>1 DEF Pending, PreparePcs, MidCommitPcs
    <3> QED BY <3>1, <3>2 DEF Knows, PreparePcs, MidCommitPcs
  <2>3. MainLast(r)'
    BY DEF IInv, RunInv, Shape, MainLast, TypeOK, CommitPcs, MidCommitPcs, Siblings, Fetched
  <2>4. FreeTemps(r)'
    BY DEF IInv, RunInv, Shape, FreeTemps, TypeOK, PreparePcs, LockedRollbackPcs, Fetched,
       disk
  <2> QED BY <2>1, <2>2, <2>3, <2>4 DEF RunInv
<1>4. \A d \in Components : FileInv(d)'
  BY FileFrame DEF IInv, Fetched, disk
<1> QED BY <1>1, <1>2, <1>3, <1>4, Frame DEF IInv

\* Under the lock a component is looked at afresh: it is to be changed only if
\* it is not the new file already and no hold bars it.
LEMMA LockForInstallStep ==
    ASSUME IInv, NEW r \in Runs, NEW c \in Components, LockForInstall(r, c)
    PROVE  IInv'
<1> USE InstallAssumption
<1>1. TypeOK'
  BY DEF IInv, TypeOK, NoVersion, Pcs, RollbackPcs, UpdatePcs, LockForInstall, disk,
     NextToLock
<1>2. \A q \in Runs \ {r} : Untouched(q)
  BY DEF IInv, RunInv, Shape, TypeOK, PreparePcs, CommitPcs, MidCommitPcs,
     LockedRollbackPcs, Untouched, SameFiles, LockForInstall, disk, NextToLock
<1>3. RunInv(r)'
  <2>0. /\ pc[r] = "locking" /\ pc'[r] = "locking" /\ prepared[r] = {} /\ left[r] = {}
        /\ prepared' = prepared /\ left' = left /\ item' = item /\ version' = version
        /\ version[r] \in Versions /\ lock'[c] = r /\ changing'[r] \subseteq changing[r] \cup {c}
        /\ \A d \in changing[r] : lock'[d] = r
    <3>1. /\ pc[r] = "locking" /\ pc' = pc /\ prepared' = prepared /\ left' = left
          /\ item' = item /\ version' = version
      BY DEF LockForInstall
    <3>2. prepared[r] = {} /\ left[r] = {} /\ version[r] \in Versions
      BY <3>1 DEF IInv, RunInv, Shape, PreparePcs, CommitPcs, MidCommitPcs
    <3>3. lock'[c] = r /\ \A d \in changing[r] : lock'[d] = r
      BY DEF IInv, RunInv, Shape, TypeOK, LockForInstall
    <3>4. changing'[r] \subseteq changing[r] \cup {c}
      BY DEF IInv, TypeOK, LockForInstall
    <3> QED BY <3>1, <3>2, <3>3, <3>4
  <2>1. Shape(r)'
    BY <2>0 DEF Shape, PreparePcs, CommitPcs, MidCommitPcs, LockedRollbackPcs
  <2>2. Knows(r)'
    <3>1. Pending(r)' = changing'[r] /\ changing[r] \subseteq Pending(r)
      BY <2>0 DEF Pending, PreparePcs, MidCommitPcs
    <3>2. \A d \in Pending(r)' :
            /\ target[d] # Entry[version[r]][d]
            /\ asked[r] = "Auto" => version[r] > hold[d]
            /\ d = Main => ~changed[r]
      <4>1. CASE target[c] = Entry[version[r]][c]
        BY <3>1, <4>1 DEF IInv, RunInv, Knows, LockForInstall
      <4>2. CASE target[c] # Entry[version[r]][c]
        <5>1. /\ asked[r] = "Auto" => version[r] > hold[c]
              /\ c = Main => ~changed[r]
          <6>1. hold[c] \in Nat /\ version[r] \in Nat /\ version[r] > 0
            BY <2>0, VersionFacts DEF IInv
          <6> QED BY <4>2, <6>1 DEF LockForInstall, Held, NoVersion
        <5> QED BY <2>0, <3>1, <4>2, <5>1 DEF IInv, RunInv, Knows
      <4> QED BY <4>1, <4>2
    <3> QED BY <2>0, <3>2 DEF Knows, LockForInstall, disk, PreparePcs, MidCommitPcs
  <2>3. MainLast(r)'
    BY DEF IInv, RunInv, Shape, MainLast, TypeOK, CommitPcs, MidCommitPcs, Siblings,
       LockForInstall, NextToLock
  <2>4. FreeTemps(r)'
    BY DEF IInv, RunInv, Shape, FreeTemps, TypeOK, PreparePcs, LockedRollbackPcs,
       LockForInstall, disk, NextToLock
  <2> QED BY <2>1, <2>2, <2>3, <2>4 DEF RunInv
<1>4. \A d \in Components : FileInv(d)'
  BY FileFrame DEF IInv, LockForInstall, disk
<1> QED BY <1>1, <1>2, <1>3, <1>4, Frame DEF IInv

\* The sweep of the temporaries makes room for this run's own.
LEMMA SweepChangingStep ==
    ASSUME IInv, NEW r \in Runs, SweepChanging(r)
    PROVE  IInv'
<1> USE InstallAssumption
<1>0. /\ newFile' \in [Components -> Files \cup {None}]
      /\ previousNew' \in [Components -> Files \cup {None}]
      /\ recordNew' \in [Components -> Records \cup {None}]
      /\ holdNew' \in [Components -> Versions \cup {NoVersion}]
      /\ stuck' \subseteq Components
      /\ \A c \in Components \ changing[r] :
           /\ newFile'[c] = newFile[c] /\ previousNew'[c] = previousNew[c]
           /\ recordNew'[c] = recordNew[c] /\ holdNew'[c] = holdNew[c]
           /\ c \in stuck' <=> c \in stuck
      /\ \A c \in changing[r] \ stuck' :
           /\ newFile'[c] = None /\ previousNew'[c] = None
           /\ recordNew'[c] = None /\ holdNew'[c] = NoVersion
  <2>1. changing[r] \in SUBSET Components /\ Sweep(changing[r])
    BY DEF IInv, TypeOK, SweepChanging
  <2> QED BY <2>1, Swept DEF IInv
<1>1. TypeOK'
  BY <1>0 DEF IInv, TypeOK, NoVersion, Pcs, RollbackPcs, UpdatePcs, SweepChanging, locals
<1>2. \A q \in Runs \ {r} : Untouched(q)
  BY <1>0 DEF IInv, RunInv, Shape, TypeOK, PreparePcs, CommitPcs, MidCommitPcs,
     LockedRollbackPcs, Untouched, SameFiles, SweepChanging, locals
<1>3. RunInv(r)'
  <2>1. Shape(r)'
    BY DEF IInv, RunInv, Shape, TypeOK, PreparePcs, CommitPcs, MidCommitPcs,
       LockedRollbackPcs, SweepChanging, locals
  <2>2. Knows(r)'
    <3>1. /\ pc[r] = "locking" /\ pc'[r] = "preparing" /\ changing' = changing /\ prepared' = prepared
          /\ left' = left /\ prepared[r] = {} /\ left[r] = {} /\ version' = version
          /\ asked' = asked /\ changed' = changed
      BY ZenonT(60) DEF IInv, RunInv, Shape, TypeOK, PreparePcs, CommitPcs, MidCommitPcs,
         SweepChanging, locals
    <3>2. Pending(r)' = Pending(r)
      BY <3>1 DEF Pending, PreparePcs, MidCommitPcs
    <3> QED BY <3>1, <3>2 DEF IInv, RunInv, Knows, SweepChanging, PreparePcs, MidCommitPcs
  <2>3. MainLast(r)'
    BY DEF IInv, RunInv, Shape, MainLast, TypeOK, CommitPcs, MidCommitPcs, Siblings,
       SweepChanging, locals
  <2>4. FreeTemps(r)'
    BY <1>0 DEF IInv, RunInv, Shape, FreeTemps, TypeOK, PreparePcs, LockedRollbackPcs,
       SweepChanging, locals
  <2> QED BY <2>1, <2>2, <2>3, <2>4 DEF RunInv
<1>4. \A d \in Components : FileInv(d)'
  BY <1>0, FileFrame DEF IInv, SweepChanging, disk
<1> QED BY <1>1, <1>2, <1>3, <1>4, Frame DEF IInv

\* .update-new is created where there was none.
LEMMA DownloadStep ==
    ASSUME IInv, NEW r \in Runs, NEW c \in Components, NEW f \in Files, Download(r, c, f)
    PROVE  IInv'
<1> USE InstallAssumption
<1>1. TypeOK'
  BY DEF IInv, TypeOK, NoVersion, Pcs, RollbackPcs, UpdatePcs, Download, NextToPrepare
<1>2. \A q \in Runs \ {r} : Untouched(q)
  BY DEF IInv, RunInv, Shape, TypeOK, PreparePcs, CommitPcs, MidCommitPcs,
     LockedRollbackPcs, Untouched, SameFiles, Download, NextToPrepare
<1>3. RunInv(r)'
  <2>1. Shape(r)'
    BY ZenonT(60) DEF IInv, RunInv, Shape, TypeOK, PreparePcs, CommitPcs, MidCommitPcs,
       LockedRollbackPcs, Download, NextToPrepare
  <2>2. Knows(r)'
    BY DEF IInv, RunInv, Shape, Knows, Pending, Ready, Describes, TypeOK, NoVersion,
       PreparePcs, CommitPcs, MidCommitPcs, Download, NextToPrepare
  <2>3. MainLast(r)'
    BY DEF IInv, RunInv, Shape, MainLast, TypeOK, CommitPcs, MidCommitPcs, Siblings,
       Download, NextToPrepare
  <2>4. FreeTemps(r)'
    BY DEF IInv, RunInv, Shape, FreeTemps, TypeOK, PreparePcs, LockedRollbackPcs, Download,
       NextToPrepare
  <2> QED BY <2>1, <2>2, <2>3, <2>4 DEF RunInv
<1>4. \A d \in Components : FileInv(d)'
  BY FileFrame DEF IInv, Download, disk
<1> QED BY <1>1, <1>2, <1>3, <1>4, Frame DEF IInv

\* A download that passes is the file the manifest names.
LEMMA VerifyStep ==
    ASSUME IInv, NEW r \in Runs, Verify(r)
    PROVE  IInv'
<1> USE InstallAssumption
<1>1. TypeOK'
  BY DEF IInv, TypeOK, NoVersion, Pcs, RollbackPcs, UpdatePcs, Verify, disk, locals
<1>2. \A q \in Runs \ {r} : Untouched(q)
  BY DEF IInv, RunInv, Shape, TypeOK, PreparePcs, CommitPcs, MidCommitPcs,
     LockedRollbackPcs, Untouched, SameFiles, Verify, disk, locals
<1>3. RunInv(r)'
  <2>1. Shape(r)'
    BY ZenonT(60) DEF IInv, RunInv, Shape, TypeOK, PreparePcs, CommitPcs, MidCommitPcs,
       LockedRollbackPcs, Verify, locals
  <2>2. Knows(r)'
    BY DEF IInv, RunInv, Shape, Knows, Pending, Ready, Describes, TypeOK, NoVersion,
       PreparePcs, CommitPcs, MidCommitPcs, Verify, disk, locals
  <2>3. MainLast(r)'
    BY DEF IInv, RunInv, Shape, MainLast, TypeOK, CommitPcs, MidCommitPcs, Siblings, Verify,
       locals
  <2>4. FreeTemps(r)'
    BY DEF IInv, RunInv, Shape, FreeTemps, TypeOK, PreparePcs, LockedRollbackPcs, Verify,
       disk, locals
  <2> QED BY <2>1, <2>2, <2>3, <2>4 DEF RunInv
<1>4. \A d \in Components : FileInv(d)'
  BY FileFrame DEF IInv, Verify, disk
<1> QED BY <1>1, <1>2, <1>3, <1>4, Frame DEF IInv

\* The copy kept is of the file the lock protects.
LEMMA KeepACopyStep ==
    ASSUME IInv, NEW r \in Runs, KeepACopy(r)
    PROVE  IInv'
<1> USE InstallAssumption
<1>1. TypeOK'
  BY DEF IInv, TypeOK, NoVersion, Pcs, RollbackPcs, UpdatePcs, KeepACopy, locals
<1>2. \A q \in Runs \ {r} : Untouched(q)
  BY DEF IInv, RunInv, Shape, TypeOK, PreparePcs, CommitPcs, MidCommitPcs,
     LockedRollbackPcs, Untouched, SameFiles, KeepACopy, locals
<1>3. RunInv(r)'
  <2>1. Shape(r)'
    BY ZenonT(60) DEF IInv, RunInv, Shape, TypeOK, PreparePcs, CommitPcs, MidCommitPcs,
       LockedRollbackPcs, KeepACopy, locals
  <2>2. Knows(r)'
    BY DEF IInv, RunInv, Shape, Knows, Pending, Ready, Describes, TypeOK, NoVersion,
       PreparePcs, CommitPcs, MidCommitPcs, KeepACopy, locals
  <2>3. MainLast(r)'
    BY DEF IInv, RunInv, Shape, MainLast, TypeOK, CommitPcs, MidCommitPcs, Siblings,
       KeepACopy, locals
  <2>4. FreeTemps(r)'
    BY DEF IInv, RunInv, Shape, FreeTemps, TypeOK, PreparePcs, LockedRollbackPcs, KeepACopy,
       locals
  <2> QED BY <2>1, <2>2, <2>3, <2>4 DEF RunInv
<1>4. \A d \in Components : FileInv(d)'
  BY FileFrame DEF IInv, KeepACopy, disk
<1> QED BY <1>1, <1>2, <1>3, <1>4, Frame DEF IInv

\* The record describes the copy and the new file, which makes the component
\* Ready.
LEMMA WriteRecordStep ==
    ASSUME IInv, NEW r \in Runs, WriteRecord(r)
    PROVE  IInv'
<1> USE InstallAssumption
<1>1. TypeOK'
  <2>1. recordNew' \in [Components -> Records \cup {None}]
    <3>1. /\ newFile[item[r]] \in Files /\ previousNew[item[r]] \in Files
          /\ version[r] \in Versions /\ item[r] \in Components
      <4>1. pc[r] = "recording" /\ item[r] \in Components /\ target[item[r]] \in Files
        BY DEF IInv, TypeOK, WriteRecord
      <4>2. version[r] \in Versions
        BY <4>1 DEF IInv, RunInv, Shape, PreparePcs
      <4>3. newFile[item[r]] = Entry[version[r]][item[r]] /\ previousNew[item[r]] = target[item[r]]
        BY <4>1 DEF IInv, RunInv, Knows
      <4> QED BY <4>1, <4>2, <4>3
    <3>2. (IF item[r] = Main THEN current[r] ELSE NoVersion) \in Versions \cup {NoVersion}
      BY DEF IInv, TypeOK, NoVersion
    <3>3. PICK rec \in Records : recordNew' = [recordNew EXCEPT ![item[r]] = rec]
      BY <3>1, <3>2 DEF WriteRecord, Records
    <3> QED BY <3>1, <3>3 DEF IInv, TypeOK
  <2>2. /\ prepared' \in [Runs -> SUBSET Components]
        /\ changing' \in [Runs -> SUBSET Components]
        /\ pc' \in [Runs -> Pcs]
    BY DEF IInv, TypeOK, Pcs, UpdatePcs, WriteRecord
  <2> QED BY <2>1, <2>2 DEF IInv, TypeOK, WriteRecord
<1>2. \A q \in Runs \ {r} : Untouched(q)
  BY DEF IInv, RunInv, Shape, TypeOK, PreparePcs, CommitPcs, MidCommitPcs,
     LockedRollbackPcs, Untouched, SameFiles, WriteRecord, Records
<1>3. RunInv(r)'
  <2>0. /\ pc[r] = "recording" /\ pc'[r] = "preparing" /\ item[r] \in changing[r] /\ lock' = lock
        /\ prepared'[r] = prepared[r] \cup {item[r]} /\ changing'[r] = changing[r] \ {item[r]}
        /\ left' = left /\ left[r] = {} /\ version' = version
    <3>1. pc[r] = "recording" /\ lock' = lock /\ left' = left /\ version' = version
      BY DEF WriteRecord
    <3>2. item[r] \in changing[r] /\ left[r] = {}
      BY <3>1 DEF IInv, RunInv, Shape, CommitPcs, MidCommitPcs
    <3>3. /\ pc'[r] = "preparing"
          /\ prepared'[r] = prepared[r] \cup {item[r]} /\ changing'[r] = changing[r] \ {item[r]}
      BY DEF IInv, TypeOK, WriteRecord
    <3> QED BY <3>1, <3>2, <3>3
  <2>1. Shape(r)'
    BY <2>0 DEF IInv, RunInv, Shape, PreparePcs, CommitPcs, MidCommitPcs, LockedRollbackPcs
  <2>2. Knows(r)'
    BY DEF IInv, RunInv, Shape, Knows, Pending, Ready, Describes, TypeOK, NoVersion,
       PreparePcs, CommitPcs, MidCommitPcs, WriteRecord, Records
  <2>3. MainLast(r)'
    BY DEF IInv, RunInv, Shape, MainLast, TypeOK, CommitPcs, MidCommitPcs, Siblings,
       WriteRecord, Records
  <2>4. FreeTemps(r)'
    BY DEF IInv, RunInv, Shape, FreeTemps, TypeOK, PreparePcs, LockedRollbackPcs,
       WriteRecord, Records
  <2> QED BY <2>1, <2>2, <2>3, <2>4 DEF RunInv
<1>4. \A d \in Components : FileInv(d)'
  BY FileFrame DEF IInv, WriteRecord, disk
<1> QED BY <1>1, <1>2, <1>3, <1>4, Frame DEF IInv

\* The commit begins with everything prepared still to move.
LEMMA BeginCommitStep ==
    ASSUME IInv, NEW r \in Runs, BeginCommit(r)
    PROVE  IInv'
<1> USE InstallAssumption
<1>1. TypeOK'
  BY DEF IInv, TypeOK, NoVersion, Pcs, RollbackPcs, UpdatePcs, BeginCommit, disk
<1>2. \A q \in Runs \ {r} : Untouched(q)
  BY DEF IInv, RunInv, Shape, TypeOK, PreparePcs, CommitPcs, MidCommitPcs,
     LockedRollbackPcs, Untouched, SameFiles, BeginCommit, disk
<1>3. RunInv(r)'
  <2>1. Shape(r)'
    BY DEF IInv, RunInv, Shape, TypeOK, PreparePcs, CommitPcs, MidCommitPcs,
       LockedRollbackPcs, BeginCommit
  <2>2. Knows(r)'
    BY DEF IInv, RunInv, Shape, Knows, Pending, Ready, Describes, TypeOK, NoVersion,
       PreparePcs, CommitPcs, MidCommitPcs, BeginCommit, disk
  <2>3. MainLast(r)'
    BY DEF IInv, RunInv, Shape, MainLast, TypeOK, CommitPcs, MidCommitPcs, Siblings,
       BeginCommit
  <2>4. FreeTemps(r)'
    BY DEF IInv, RunInv, Shape, FreeTemps, TypeOK, PreparePcs, LockedRollbackPcs,
       BeginCommit, disk
  <2> QED BY <2>1, <2>2, <2>3, <2>4 DEF RunInv
<1>4. \A d \in Components : FileInv(d)'
  BY FileFrame DEF IInv, BeginCommit, disk
<1> QED BY <1>1, <1>2, <1>3, <1>4, Frame DEF IInv

\* The first rename; siblings go before the running component.
LEMMA RenamePreviousStep ==
    ASSUME IInv, NEW r \in Runs, NEW c \in Components, RenamePrevious(r, c)
    PROVE  IInv'
<1> USE InstallAssumption
<1>1. TypeOK'
  BY DEF IInv, TypeOK, NoVersion, Pcs, RollbackPcs, UpdatePcs, RenamePrevious, NextToCommit,
     Siblings
<1>2. \A q \in Runs \ {r} : Untouched(q)
  BY DEF IInv, RunInv, Shape, TypeOK, PreparePcs, CommitPcs, MidCommitPcs,
     LockedRollbackPcs, Untouched, SameFiles, RenamePrevious, NextToCommit
<1>3. RunInv(r)'
  <2>1. Shape(r)'
    BY ZenonT(60) DEF IInv, RunInv, Shape, TypeOK, PreparePcs, CommitPcs, MidCommitPcs,
       LockedRollbackPcs, RenamePrevious, NextToCommit, Siblings
  <2>2. Knows(r)'
    BY DEF IInv, RunInv, Shape, Knows, Pending, Ready, Describes, TypeOK, NoVersion,
       PreparePcs, CommitPcs, MidCommitPcs, RenamePrevious, NextToCommit
  <2>3. MainLast(r)'
    BY DEF IInv, RunInv, Shape, MainLast, TypeOK, CommitPcs, MidCommitPcs, Siblings,
       RenamePrevious, NextToCommit
  <2>4. FreeTemps(r)'
    BY DEF IInv, RunInv, Shape, FreeTemps, TypeOK, PreparePcs, LockedRollbackPcs,
       RenamePrevious, NextToCommit
  <2> QED BY <2>1, <2>2, <2>3, <2>4 DEF RunInv
<1>4. \A d \in Components : FileInv(d)'
  BY DEF IInv, RunInv, Shape, Knows, MainLast, FreeTemps, Pending, Ready, Describes, TypeOK,
     FileInv, CanGoBack, Vouched, NoVersion, PreparePcs, CommitPcs, MidCommitPcs,
     LockedRollbackPcs, UpdatePcs, RenamePrevious, NextToCommit, Siblings
<1> QED BY <1>1, <1>2, <1>3, <1>4, Frame DEF IInv

\* The second rename: the record beside the target now vouches for .previous.
LEMMA RenameRecordStep ==
    ASSUME IInv, NEW r \in Runs, RenameRecord(r)
    PROVE  IInv'
<1> USE InstallAssumption
<1>1. TypeOK'
  BY DEF IInv, TypeOK, NoVersion, Pcs, RollbackPcs, UpdatePcs, RenameRecord, locals, Records
<1>2. \A q \in Runs \ {r} : Untouched(q)
  BY DEF IInv, RunInv, Shape, TypeOK, PreparePcs, CommitPcs, MidCommitPcs,
     LockedRollbackPcs, Untouched, SameFiles, RenameRecord, locals, Records
<1>3. RunInv(r)'
  <2>1. Shape(r)'
    BY DEF IInv, RunInv, Shape, TypeOK, PreparePcs, CommitPcs, MidCommitPcs,
       LockedRollbackPcs, RenameRecord, locals, Records
  <2>2. Knows(r)'
    BY DEF IInv, RunInv, Shape, Knows, Pending, Ready, Describes, TypeOK, NoVersion,
       PreparePcs, CommitPcs, MidCommitPcs, RenameRecord, locals, Records
  <2>3. MainLast(r)'
    BY DEF IInv, RunInv, Shape, MainLast, TypeOK, CommitPcs, MidCommitPcs, Siblings,
       RenameRecord, locals, Records
  <2>4. FreeTemps(r)'
    BY DEF IInv, RunInv, Shape, FreeTemps, TypeOK, PreparePcs, LockedRollbackPcs,
       RenameRecord, locals, Records
  <2> QED BY <2>1, <2>2, <2>3, <2>4 DEF RunInv
<1>4. \A d \in Components : FileInv(d)'
  BY DEF IInv, RunInv, Shape, Knows, MainLast, FreeTemps, Pending, Ready, Describes, TypeOK,
     FileInv, CanGoBack, Vouched, NoVersion, PreparePcs, CommitPcs, MidCommitPcs,
     LockedRollbackPcs, UpdatePcs, RenameRecord, locals, Records
<1> QED BY <1>1, <1>2, <1>3, <1>4, Frame DEF IInv

\* The third rename moves the target; the record keeps FileInv true of it.
LEMMA PutInPlaceStep ==
    ASSUME IInv, NEW r \in Runs, PutInPlace(r)
    PROVE  IInv'
<1> USE InstallAssumption
<1>0. /\ item[r] \in Components /\ version[r] \in Versions
      /\ newFile[item[r]] = Entry[version[r]][item[r]] /\ newFile[item[r]] \in Files
  <2>1. pc[r] = "recordRenamed" /\ item[r] \in Components
    BY DEF IInv, TypeOK, PutInPlace
  <2>2. version[r] \in Versions
    BY <2>1 DEF IInv, RunInv, Shape, CommitPcs, MidCommitPcs
  <2>3. newFile[item[r]] = Entry[version[r]][item[r]]
    BY <2>1 DEF IInv, RunInv, Knows, MidCommitPcs
  <2> QED BY <2>1, <2>2, <2>3, ZenonT(60) DEF InstallAssumption
<1>1. TypeOK'
  BY <1>0 DEF IInv, TypeOK, Pcs, UpdatePcs, NoVersion, PutInPlace, Replace
<1>2. \A q \in Runs \ {r} : Untouched(q)
  BY DEF IInv, RunInv, Shape, TypeOK, PreparePcs, CommitPcs, MidCommitPcs,
     LockedRollbackPcs, UpdatePcs, Untouched, SameFiles, PutInPlace, Replace
<1>3. RunInv(r)'
  <2>1. Shape(r)'
    BY DEF IInv, RunInv, Shape, TypeOK, PreparePcs, CommitPcs, MidCommitPcs,
       LockedRollbackPcs, UpdatePcs, PutInPlace, Replace
  <2>2. Knows(r)'
    BY DEF IInv, RunInv, Shape, Knows, Pending, Ready, Describes, TypeOK, NoVersion,
       PreparePcs, CommitPcs, MidCommitPcs, UpdatePcs, PutInPlace, Replace
  <2>3. MainLast(r)'
    BY DEF IInv, RunInv, Shape, MainLast, TypeOK, CommitPcs, MidCommitPcs, UpdatePcs,
       Siblings, PutInPlace, Replace
  <2>4. FreeTemps(r)'
    BY DEF IInv, RunInv, Shape, FreeTemps, TypeOK, PreparePcs, LockedRollbackPcs, UpdatePcs,
       PutInPlace, Replace
  <2> QED BY <2>1, <2>2, <2>3, <2>4 DEF RunInv
<1>4. \A d \in Components : FileInv(d)'
  <2>1. /\ previous[item[r]] = target[item[r]] /\ Describes(record[item[r]], r, item[r])
        /\ target[item[r]] # Entry[version[r]][item[r]]
        /\ asked[r] = "Auto" => version[r] > hold[item[r]]
    BY DEF IInv, RunInv, Knows, Pending, MidCommitPcs, PutInPlace
  <2>2. FileInv(item[r])'
    <3>1. asked[r] = "Auto" => wentBack'[item[r]] = wentBack[item[r]]
      BY <1>0 DEF PutInPlace
    <3>2. asked[r] # "Auto" => wentBack'[item[r]] = NoVersion
      BY <1>0 DEF IInv, TypeOK, PutInPlace
    <3>3. /\ wentBack[item[r]] \in Nat /\ hold[item[r]] \in Nat /\ version[r] \in Nat /\ version[r] > 0
          /\ wentBack[item[r]] <= hold[item[r]]
      BY <1>0, VersionFacts DEF IInv, FileInv
    <3> QED
      BY <1>0, <2>1, <3>1, <3>2, <3>3 DEF FileInv, Describes, CanGoBack, NoVersion,
         PutInPlace
  <2>3. \A d \in Components \ {item[r]} : FileInv(d)'
    <3>1. \A d \in Components \ {item[r]} :
            /\ target'[d] = target[d] /\ previous'[d] = previous[d] /\ record'[d] = record[d]
            /\ hold'[d] = hold[d] /\ wentBack'[d] = wentBack[d]
      BY <1>0 DEF IInv, TypeOK, PutInPlace, Replace
    <3> QED BY <3>1, FileFrame DEF IInv
  <2> QED BY <2>2, <2>3 DEF PutInPlace
<1> QED BY <1>1, <1>2, <1>3, <1>4, Frame DEF IInv

\* A hold ends only after the user's own install moved the file.
LEMMA RemoveHoldStep ==
    ASSUME IInv, NEW r \in Runs, RemoveHold(r)
    PROVE  IInv'
<1> USE InstallAssumption
<1>1. TypeOK'
  BY DEF IInv, TypeOK, NoVersion, Pcs, RollbackPcs, UpdatePcs, RemoveHold, locals
<1>2. \A q \in Runs \ {r} : Untouched(q)
  BY DEF IInv, RunInv, Shape, TypeOK, PreparePcs, CommitPcs, MidCommitPcs,
     LockedRollbackPcs, Untouched, SameFiles, RemoveHold, locals
<1>3. RunInv(r)'
  <2>1. Shape(r)'
    BY ZenonT(60) DEF IInv, RunInv, Shape, TypeOK, PreparePcs, CommitPcs, MidCommitPcs,
       LockedRollbackPcs, RemoveHold, locals
  <2>0. /\ pc[r] = "inPlace" /\ pc'[r] = "committing" /\ changing' = changing /\ prepared' = prepared
        /\ left' = left /\ changing[r] = {} /\ version' = version /\ item' = item
        /\ asked' = asked /\ changed' = changed /\ item[r] \in prepared[r] \ left[r]
    <3>1. /\ pc[r] = "inPlace" /\ changing' = changing /\ prepared' = prepared
          /\ left' = left /\ version' = version /\ item' = item
          /\ asked' = asked /\ changed' = changed
      BY DEF RemoveHold, locals
    <3>2. changing[r] = {} /\ item[r] \in prepared[r] \ left[r]
      BY <3>1 DEF IInv, RunInv, Shape, PreparePcs
    <3>3. pc'[r] = "committing"
      BY DEF IInv, TypeOK, RemoveHold
    <3> QED BY <3>1, <3>2, <3>3
  <2>2. Knows(r)'
    <3>1. Pending(r)' = left[r] /\ Pending(r) = left[r]
      BY <2>0 DEF Pending, PreparePcs, MidCommitPcs
    <3>2. \A d \in left[r] : hold'[d] = hold[d]
      BY <2>0 DEF IInv, TypeOK, RemoveHold
    <3>3. \A d \in left[r] : Ready(r, d)'
      BY <2>0 DEF IInv, RunInv, Knows, Ready, Describes, RemoveHold
    <3> QED BY <2>0, <3>1, <3>2, <3>3 DEF IInv, RunInv, Knows, RemoveHold, PreparePcs,
               MidCommitPcs
  <2>3. MainLast(r)'
    BY DEF IInv, RunInv, Shape, MainLast, TypeOK, CommitPcs, MidCommitPcs, Siblings,
       RemoveHold, locals
  <2>4. FreeTemps(r)'
    BY DEF IInv, RunInv, Shape, FreeTemps, TypeOK, PreparePcs, LockedRollbackPcs,
       RemoveHold, locals
  <2> QED BY <2>1, <2>2, <2>3, <2>4 DEF RunInv
<1>4. \A d \in Components : FileInv(d)'
  <2>1. wentBack[item[r]] = NoVersion /\ item[r] \in Components
    BY DEF IInv, RunInv, Knows, TypeOK, RemoveHold
  <2>2. ASSUME NEW d \in Components PROVE FileInv(d)'
    <3>1. CASE hold'[d] = hold[d]
      BY <3>1, FileFrame DEF IInv, RemoveHold
    <3>2. CASE hold'[d] # hold[d]
      <4>1. d = item[r] /\ hold'[d] = NoVersion
        BY <2>1, <3>2 DEF IInv, TypeOK, RemoveHold
      <4> QED BY <2>1, <4>1 DEF IInv, FileInv, CanGoBack, Vouched, NoVersion, RemoveHold
    <3> QED BY <3>1, <3>2
  <2> QED BY <2>2
<1> QED BY <1>1, <1>2, <1>3, <1>4, Frame DEF IInv

\* A rename that fails leaves this component and goes on to the others.
LEMMA CommitFailsStep ==
    ASSUME IInv, NEW r \in Runs, NEW c \in Components, CommitFails(r, c)
    PROVE  IInv'
<1> USE InstallAssumption
<1>1. TypeOK'
  BY DEF IInv, TypeOK, NoVersion, Pcs, RollbackPcs, UpdatePcs, CommitFails, disk,
     NextToCommit, Siblings
<1>2. \A q \in Runs \ {r} : Untouched(q)
  BY DEF IInv, RunInv, Shape, TypeOK, PreparePcs, CommitPcs, MidCommitPcs,
     LockedRollbackPcs, Untouched, SameFiles, CommitFails, disk, NextToCommit
<1>3. RunInv(r)'
  <2>1. Shape(r)'
    BY ZenonT(60) DEF IInv, RunInv, Shape, TypeOK, PreparePcs, CommitPcs, MidCommitPcs,
       LockedRollbackPcs, CommitFails, NextToCommit, Siblings
  <2>2. Knows(r)'
    BY DEF IInv, RunInv, Shape, Knows, Pending, Ready, Describes, TypeOK, NoVersion,
       PreparePcs, CommitPcs, MidCommitPcs, CommitFails, disk, NextToCommit
  <2>3. MainLast(r)'
    BY DEF IInv, RunInv, Shape, MainLast, TypeOK, CommitPcs, MidCommitPcs, Siblings,
       CommitFails, NextToCommit
  <2>4. FreeTemps(r)'
    BY DEF IInv, RunInv, Shape, FreeTemps, TypeOK, PreparePcs, LockedRollbackPcs,
       CommitFails, disk, NextToCommit
  <2> QED BY <2>1, <2>2, <2>3, <2>4 DEF RunInv
<1>4. \A d \in Components : FileInv(d)'
  BY FileFrame DEF IInv, CommitFails, disk
<1> QED BY <1>1, <1>2, <1>3, <1>4, Frame DEF IInv

\* A rollback before its lock knows nothing.
LEMMA StartRollbackStep ==
    ASSUME IInv, NEW r \in Runs, NEW c \in Components, StartRollback(r, c)
    PROVE  IInv'
<1> USE InstallAssumption
<1>1. TypeOK'
  BY DEF IInv, TypeOK, NoVersion, Pcs, RollbackPcs, UpdatePcs, StartRollback, disk
<1>2. \A q \in Runs \ {r} : Untouched(q)
  BY DEF IInv, RunInv, Shape, TypeOK, PreparePcs, CommitPcs, MidCommitPcs,
     LockedRollbackPcs, Untouched, SameFiles, StartRollback, disk
<1>3. RunInv(r)'
  <2>1. Shape(r)'
    BY DEF IInv, RunInv, Shape, TypeOK, PreparePcs, CommitPcs, MidCommitPcs,
       LockedRollbackPcs, StartRollback
  <2>2. Knows(r)'
    BY DEF IInv, RunInv, Shape, Knows, Pending, Ready, Describes, TypeOK, NoVersion,
       PreparePcs, CommitPcs, MidCommitPcs, StartRollback, disk
  <2>3. MainLast(r)'
    BY DEF IInv, RunInv, Shape, MainLast, TypeOK, CommitPcs, MidCommitPcs, Siblings,
       StartRollback
  <2>4. FreeTemps(r)'
    BY DEF IInv, RunInv, Shape, FreeTemps, TypeOK, PreparePcs, LockedRollbackPcs,
       StartRollback, disk
  <2> QED BY <2>1, <2>2, <2>3, <2>4 DEF RunInv
<1>4. \A d \in Components : FileInv(d)'
  BY FileFrame DEF IInv, StartRollback, disk
<1> QED BY <1>1, <1>2, <1>3, <1>4, Frame DEF IInv

\* The lock, and no .update-hold temporary after the sweep.
LEMMA RollbackLockStep ==
    ASSUME IInv, NEW r \in Runs, RollbackLock(r)
    PROVE  IInv'
<1> USE InstallAssumption
<1>0. /\ newFile' \in [Components -> Files \cup {None}]
      /\ previousNew' \in [Components -> Files \cup {None}]
      /\ recordNew' \in [Components -> Records \cup {None}]
      /\ holdNew' \in [Components -> Versions \cup {NoVersion}]
      /\ stuck' \subseteq Components
      /\ \A c \in Components \ {item[r]} :
           /\ newFile'[c] = newFile[c] /\ previousNew'[c] = previousNew[c]
           /\ recordNew'[c] = recordNew[c] /\ holdNew'[c] = holdNew[c]
           /\ c \in stuck' <=> c \in stuck
      /\ \A c \in {item[r]} \ stuck' :
           /\ newFile'[c] = None /\ previousNew'[c] = None
           /\ recordNew'[c] = None /\ holdNew'[c] = NoVersion
  <2>1. {item[r]} \in SUBSET Components /\ Sweep({item[r]})
    BY DEF IInv, TypeOK, RollbackLock
  <2> QED BY <2>1, Swept DEF IInv
<1>1. TypeOK'
  BY <1>0 DEF IInv, TypeOK, NoVersion, Pcs, RollbackPcs, UpdatePcs, RollbackLock, locals
<1>2. \A q \in Runs \ {r} : Untouched(q)
  BY <1>0 DEF IInv, RunInv, Shape, TypeOK, PreparePcs, CommitPcs, MidCommitPcs,
     LockedRollbackPcs, Untouched, SameFiles, RollbackLock, locals
<1>3. RunInv(r)'
  <2>1. Shape(r)'
    BY ZenonT(60) DEF IInv, RunInv, Shape, TypeOK, PreparePcs, CommitPcs, MidCommitPcs,
       LockedRollbackPcs, RollbackLock, locals
  <2>2. Knows(r)'
    <3>1. /\ pc[r] = "rollback" /\ pc'[r] = "checking" /\ changing' = changing /\ prepared' = prepared
          /\ left' = left /\ changing[r] = {} /\ left[r] = {}
      BY ZenonT(60) DEF IInv, RunInv, Shape, TypeOK, PreparePcs, CommitPcs, MidCommitPcs,
         RollbackLock, locals
    <3>2. Pending(r)' = {}
      BY <3>1 DEF Pending, PreparePcs, MidCommitPcs
    <3> QED BY <3>1, <3>2 DEF Knows, PreparePcs, MidCommitPcs
  <2>3. MainLast(r)'
    BY DEF IInv, RunInv, Shape, MainLast, TypeOK, CommitPcs, MidCommitPcs, Siblings,
       RollbackLock, locals
  <2>4. FreeTemps(r)'
    BY <1>0 DEF IInv, RunInv, Shape, FreeTemps, TypeOK, PreparePcs, LockedRollbackPcs,
       RollbackLock, locals
  <2> QED BY <2>1, <2>2, <2>3, <2>4 DEF RunInv
<1>4. \A d \in Components : FileInv(d)'
  BY <1>0, FileFrame DEF IInv, RollbackLock, disk
<1> QED BY <1>1, <1>2, <1>3, <1>4, Frame DEF IInv

\* What is found under the lock is what the hold will name.
LEMMA RollbackCheckStep ==
    ASSUME IInv, NEW r \in Runs, RollbackCheck(r)
    PROVE  IInv'
<1> USE InstallAssumption
<1>1. TypeOK'
  BY DEF IInv, TypeOK, NoVersion, Pcs, RollbackPcs, UpdatePcs, RollbackCheck, disk,
     CanGoBack, Vouched, Records
<1>2. \A q \in Runs \ {r} : Untouched(q)
  BY DEF IInv, RunInv, Shape, TypeOK, PreparePcs, CommitPcs, MidCommitPcs,
     LockedRollbackPcs, Untouched, SameFiles, RollbackCheck, disk, CanGoBack, Vouched,
     Records
<1>3. RunInv(r)'
  <2>0. /\ pc[r] = "checking" /\ pc'[r] = "holding" /\ lock' = lock /\ changing' = changing
        /\ prepared' = prepared /\ left' = left /\ item' = item
        /\ changing[r] = {} /\ prepared[r] = {} /\ left[r] = {} /\ lock[item[r]] = r
        /\ item[r] \in Components
    BY ZenonT(60) DEF IInv, RunInv, Shape, TypeOK, PreparePcs, CommitPcs, MidCommitPcs,
       LockedRollbackPcs,
           RollbackCheck
  <2>10. CanGoBack(item[r]) /\ version'[r] = record[item[r]].to /\ version'[r] \in Versions
    BY <2>0 DEF IInv, TypeOK, RollbackCheck, CanGoBack, Vouched, Records
  <2>1. Shape(r)'
    BY <2>0, <2>10 DEF Shape, PreparePcs, CommitPcs, MidCommitPcs, LockedRollbackPcs
  <2>2. Knows(r)'
    <3>1. Pending(r)' = {}
      BY <2>0 DEF Pending, PreparePcs, MidCommitPcs
    <3>2. CanGoBack(item[r])'
      BY <2>0, <2>10 DEF CanGoBack, Vouched, RollbackCheck, disk
    <3> QED BY <2>0, <2>10, <3>1, <3>2 DEF Knows, RollbackCheck, disk, PreparePcs,
               MidCommitPcs
  <2>3. MainLast(r)'
    BY DEF IInv, RunInv, Shape, MainLast, TypeOK, CommitPcs, MidCommitPcs, Siblings,
       RollbackCheck, CanGoBack, Vouched, Records
  <2>4. FreeTemps(r)'
    BY DEF IInv, RunInv, Shape, FreeTemps, TypeOK, PreparePcs, LockedRollbackPcs,
       RollbackCheck, disk, CanGoBack, Vouched, Records
  <2> QED BY <2>1, <2>2, <2>3, <2>4 DEF RunInv
<1>4. \A d \in Components : FileInv(d)'
  BY FileFrame DEF IInv, RollbackCheck, disk
<1> QED BY <1>1, <1>2, <1>3, <1>4, Frame DEF IInv

\* The hold is written aside first.
LEMMA WriteHoldStep ==
    ASSUME IInv, NEW r \in Runs, WriteHold(r)
    PROVE  IInv'
<1> USE InstallAssumption
<1>1. TypeOK'
  BY DEF IInv, TypeOK, NoVersion, Pcs, RollbackPcs, UpdatePcs, WriteHold, locals, CanGoBack,
     Vouched
<1>2. \A q \in Runs \ {r} : Untouched(q)
  BY DEF IInv, RunInv, Shape, TypeOK, PreparePcs, CommitPcs, MidCommitPcs,
     LockedRollbackPcs, Untouched, SameFiles, WriteHold, locals, CanGoBack, Vouched
<1>3. RunInv(r)'
  <2>1. Shape(r)'
    BY ZenonT(60) DEF IInv, RunInv, Shape, TypeOK, PreparePcs, CommitPcs, MidCommitPcs,
       LockedRollbackPcs, WriteHold, locals, CanGoBack, Vouched
  <2>2. Knows(r)'
    BY DEF IInv, RunInv, Shape, Knows, Pending, Ready, Describes, TypeOK, NoVersion,
       PreparePcs, CommitPcs, MidCommitPcs, WriteHold, locals, CanGoBack, Vouched
  <2>3. MainLast(r)'
    BY DEF IInv, RunInv, Shape, MainLast, TypeOK, CommitPcs, MidCommitPcs, Siblings,
       WriteHold, locals, CanGoBack, Vouched
  <2>4. FreeTemps(r)'
    BY DEF IInv, RunInv, Shape, FreeTemps, TypeOK, PreparePcs, LockedRollbackPcs, WriteHold,
       locals, CanGoBack, Vouched
  <2> QED BY <2>1, <2>2, <2>3, <2>4 DEF RunInv
<1>4. \A d \in Components : FileInv(d)'
  BY FileFrame DEF IInv, WriteHold, disk
<1> QED BY <1>1, <1>2, <1>3, <1>4, Frame DEF IInv

\* The hold is on the disk; FileInv says it is above the one before it.
LEMMA RenameHoldStep ==
    ASSUME IInv, NEW r \in Runs, RenameHold(r)
    PROVE  IInv'
<1> USE InstallAssumption
<1>0. /\ pc[r] = "holdWritten" /\ changing[r] = {} /\ prepared[r] = {} /\ left[r] = {}
      /\ item[r] \in Components /\ CanGoBack(item[r]) /\ version[r] = record[item[r]].to
      /\ holdNew[item[r]] = version[r]
  BY DEF IInv, RunInv, Shape, Knows, TypeOK, PreparePcs, CommitPcs, MidCommitPcs, RenameHold
<1>1. TypeOK'
  BY DEF IInv, TypeOK, Pcs, RollbackPcs, RenameHold, locals
<1>2. \A q \in Runs \ {r} : Untouched(q)
  BY DEF IInv, RunInv, Shape, TypeOK, PreparePcs, CommitPcs, MidCommitPcs,
     LockedRollbackPcs, Untouched, SameFiles, RenameHold, locals, CanGoBack, Vouched
<1>3. RunInv(r)'
  <2>1. Shape(r)'
    BY DEF IInv, RunInv, Shape, TypeOK, PreparePcs, CommitPcs, MidCommitPcs,
       LockedRollbackPcs, RenameHold, locals, CanGoBack, Vouched
  <2>2. Knows(r)'
    <3>0. pc'[r] = "swapping" /\ hold'[item[r]] = version[r]
      BY <1>0 DEF IInv, TypeOK, RenameHold
    <3>1. Pending(r)' = {}
      BY <1>0, <3>0 DEF Pending, PreparePcs, MidCommitPcs, RenameHold, locals
    <3>2. CanGoBack(item[r])'
      BY <1>0 DEF CanGoBack, Vouched, RenameHold, locals
    <3> QED BY <1>0, <3>0, <3>1, <3>2 DEF Knows, RenameHold, locals, PreparePcs,
               MidCommitPcs
  <2>3. MainLast(r)'
    BY DEF IInv, RunInv, Shape, MainLast, TypeOK, CommitPcs, MidCommitPcs, Siblings,
       RenameHold, locals, CanGoBack, Vouched
  <2>4. FreeTemps(r)'
    BY DEF IInv, RunInv, Shape, FreeTemps, TypeOK, PreparePcs, LockedRollbackPcs,
       RenameHold, locals, CanGoBack, Vouched
  <2> QED BY <2>1, <2>2, <2>3, <2>4 DEF RunInv
<1>4. \A d \in Components : FileInv(d)'
  <2>1. FileInv(item[r])'
    <3>1. FileInv(item[r]) /\ hold'[item[r]] = version[r] /\ wentBack[item[r]] \in Nat /\ version[r] \in Nat
      <4>1. FileInv(item[r]) /\ version[r] \in Versions
        BY <1>0 DEF IInv, RunInv, Shape
      <4>2. hold'[item[r]] = version[r]
        BY <1>0 DEF IInv, TypeOK, RenameHold
      <4> QED BY <1>0, <4>1, <4>2, VersionFacts DEF IInv
    <3> QED BY <1>0, <3>1 DEF FileInv, CanGoBack, Vouched, RenameHold, locals
  <2>2. \A d \in Components \ {item[r]} : FileInv(d)'
    <3>1. \A d \in Components \ {item[r]} :
            /\ target'[d] = target[d] /\ previous'[d] = previous[d] /\ record'[d] = record[d]
            /\ hold'[d] = hold[d] /\ wentBack'[d] = wentBack[d]
      BY <1>0 DEF IInv, TypeOK, RenameHold
    <3> QED BY <3>1, FileFrame DEF IInv
  <2> QED BY <2>1, <2>2 DEF RenameHold, locals
<1> QED BY <1>1, <1>2, <1>3, <1>4, Frame DEF IInv

\* The swap comes after the hold that covers it.
LEMMA SwapBackStep ==
    ASSUME IInv, NEW r \in Runs, SwapBack(r)
    PROVE  IInv'
<1> USE InstallAssumption
<1>0. /\ pc[r] = "swapping" /\ changing[r] = {} /\ prepared[r] = {} /\ left[r] = {}
      /\ item[r] \in Components /\ version[r] \in Versions /\ hold[item[r]] = version[r]
      /\ previous[item[r]] \in Files
  <2>1. pc[r] = "swapping" /\ item[r] \in Components
    BY DEF IInv, TypeOK, SwapBack
  <2>2. /\ changing[r] = {} /\ prepared[r] = {} /\ left[r] = {} /\ version[r] \in Versions
    BY <2>1 DEF IInv, RunInv, Shape, PreparePcs, CommitPcs, MidCommitPcs
  <2>3. hold[item[r]] = version[r] /\ previous[item[r]] # None
    BY <2>1 DEF IInv, RunInv, Knows, CanGoBack, Vouched
  <2>4. previous[item[r]] \in Files \cup {None}
    BY <2>1 DEF IInv, TypeOK
  <2> QED BY <2>1, <2>2, <2>3, <2>4
<1>1. TypeOK'
  BY <1>0 DEF IInv, TypeOK, Pcs, RollbackPcs, SwapBack, Replace
<1>2. \A q \in Runs \ {r} : Untouched(q)
  BY DEF IInv, RunInv, Shape, TypeOK, PreparePcs, CommitPcs, MidCommitPcs,
     LockedRollbackPcs, UpdatePcs, Untouched, SameFiles, SwapBack, Replace, CanGoBack,
     Vouched
<1>3. RunInv(r)'
  <2>1. Shape(r)'
    BY DEF IInv, RunInv, Shape, TypeOK, PreparePcs, CommitPcs, MidCommitPcs,
       LockedRollbackPcs, UpdatePcs, SwapBack, Replace, CanGoBack, Vouched
  <2>2. Knows(r)'
    <3>0. pc'[r] = "swapped" /\ previous'[item[r]] = None
      BY <1>0 DEF IInv, TypeOK, SwapBack
    <3>1. Pending(r)' = {}
      BY <1>0, <3>0 DEF Pending, PreparePcs, MidCommitPcs, SwapBack
    <3> QED BY <1>0, <3>0, <3>1 DEF Knows, SwapBack, PreparePcs, MidCommitPcs
  <2>3. MainLast(r)'
    BY DEF IInv, RunInv, Shape, MainLast, TypeOK, CommitPcs, MidCommitPcs, UpdatePcs,
       Siblings, SwapBack, Replace, CanGoBack, Vouched
  <2>4. FreeTemps(r)'
    BY DEF IInv, RunInv, Shape, FreeTemps, TypeOK, PreparePcs, LockedRollbackPcs, UpdatePcs,
       SwapBack, Replace, CanGoBack, Vouched
  <2> QED BY <2>1, <2>2, <2>3, <2>4 DEF RunInv
<1>4. \A d \in Components : FileInv(d)'
  <2>1. FileInv(item[r])'
    <3>1. /\ FileInv(item[r]) /\ previous'[item[r]] = None /\ wentBack'[item[r]] = version[r]
          /\ version[r] \in Nat
      BY <1>0 DEF IInv, TypeOK, SwapBack
    <3> QED BY <1>0, <3>1 DEF FileInv, CanGoBack, Vouched, SwapBack
  <2>2. \A d \in Components \ {item[r]} : FileInv(d)'
    <3>1. \A d \in Components \ {item[r]} :
            /\ target'[d] = target[d] /\ previous'[d] = previous[d] /\ record'[d] = record[d]
            /\ hold'[d] = hold[d] /\ wentBack'[d] = wentBack[d]
      BY <1>0 DEF IInv, TypeOK, SwapBack, Replace
    <3> QED BY <3>1, FileFrame DEF IInv
  <2> QED BY <2>1, <2>2 DEF SwapBack
<1> QED BY <1>1, <1>2, <1>3, <1>4, Frame DEF IInv

\* Steps that end a run.
LEMMA KillStep ==
    ASSUME IInv, NEW r \in Runs, NEW how \in {"done", "dead"}, Leaves(r, how),
           UNCHANGED <<disk, past>>
    PROVE  IInv'
<1>1. /\ RunInv(r)'
      /\ \A q \in Runs \ {r} : Untouched(q)
  BY LeavesInv DEF IInv, Untouched, SameFiles, disk
<1>2. TypeOK'
  BY LeavesInv DEF IInv, TypeOK, disk
<1>3. \A d \in Components : FileInv(d)'
  BY FileFrame DEF IInv, disk
<1> QED BY <1>1, <1>2, <1>3, Frame DEF IInv

\* A lock that is taken ends the run, or leaves a sibling out.
LEMMA LockRefusedStep ==
    ASSUME IInv, NEW r \in Runs, NEW c \in Components, LockRefused(r, c)
    PROVE  IInv'
<1>1. CASE c = Main
  BY <1>1, KillStep DEF LockRefused
<1>2. CASE c # Main
  <2>0. /\ UNCHANGED <<lock, pc, asked, current, version, changed, changing, prepared, left, item>>
        /\ UNCHANGED <<disk, past>>
        /\ todo' = [todo EXCEPT ![r] = @ \ {c}]
    BY <1>2 DEF LockRefused
  <2>1. TypeOK'
    BY <2>0 DEF IInv, TypeOK, disk
  <2>2. \A q \in Runs : Untouched(q)
    BY <2>0 DEF Untouched, SameFiles, disk
  <2>3. \A d \in Components : FileInv(d)'
    BY <2>0, FileFrame DEF IInv, disk
  <2> QED BY <2>1, <2>2, <2>3, Frame DEF IInv
<1> QED BY <1>1, <1>2

\* A component that cannot be prepared: its temporaries are gone or were
\* never made.
LEMMA SkipOrLeaveStep ==
    ASSUME IInv, NEW r \in Runs, NEW c \in Components, SkipOrLeave(r, c), c \in changing[r],
           pc[r] \in PreparePcs,
           UNCHANGED <<target, previous, record, hold, holdNew, past>>,
           \/ pc[r] = "preparing" /\ UNCHANGED <<newFile, previousNew, recordNew>>
           \/ pc[r] # "preparing" /\ c = item[r] /\ DropTemps({c})
    PROVE  IInv'
<1> USE InstallAssumption
<1>0. /\ \A d \in Components \ {c} :
            newFile'[d] = newFile[d] /\ previousNew'[d] = previousNew[d] /\ recordNew'[d] = recordNew[d]
      /\ newFile' \in [Components -> Files \cup {None}]
      /\ previousNew' \in [Components -> Files \cup {None}]
      /\ recordNew' \in [Components -> Records \cup {None}]
  BY Dropped DEF IInv, TypeOK
<1>1. lock[c] = r
  BY DEF IInv, RunInv, Shape
<1>2. \A d \in Components : FileInv(d)'
  BY FileFrame DEF IInv
<1>3. CASE c = Main
  <2>1. Leaves(r, "done")
    BY <1>3 DEF SkipOrLeave
  <2>2. TypeOK'
    BY <1>0, <2>1, LeavesInv DEF IInv, TypeOK
  <2>3. \A q \in Runs \ {r} : Untouched(q)
    BY <1>0, <1>1, <2>1, LeavesInv DEF IInv, Untouched, SameFiles
  <2>4. RunInv(r)'
    BY <2>1, LeavesInv DEF IInv
  <2> QED BY <1>2, <2>2, <2>3, <2>4, Frame DEF IInv
<1>4. CASE c # Main
  <2>0. /\ changing' = [changing EXCEPT ![r] = @ \ {c}]
        /\ pc' = [pc EXCEPT ![r] = "preparing"]
        /\ UNCHANGED <<lock, asked, current, version, changed, todo, prepared, left, item>>
    BY <1>4 DEF SkipOrLeave
  <2>1. TypeOK'
    BY <1>0, <2>0 DEF IInv, TypeOK, Pcs, UpdatePcs
  <2>2. \A q \in Runs \ {r} : Untouched(q)
    BY <1>0, <1>1, <2>0 DEF IInv, TypeOK, Untouched, SameFiles
  <2>3. pc'[r] = "preparing" /\ changing'[r] = changing[r] \ {c}
    BY <2>0 DEF IInv, TypeOK
  <2>4. Shape(r)'
    BY <2>0, <2>3 DEF IInv, RunInv, Shape, PreparePcs, CommitPcs, MidCommitPcs,
       LockedRollbackPcs
  <2>5. Knows(r)'
    <3>1. Pending(r)' \subseteq Pending(r) /\ left[r] = {}
      BY <2>0, <2>3 DEF IInv, RunInv, Shape, Pending, PreparePcs, CommitPcs, MidCommitPcs
    <3>2. \A d \in prepared[r] : d \in Components /\ d # c /\ Ready(r, d)
      BY DEF IInv, TypeOK, RunInv, Shape, Knows
    <3>3. \A d \in prepared[r] : Ready(r, d)'
      BY <1>0, <2>0, <3>2 DEF Ready, Describes
    <3> QED BY <2>0, <2>3, <3>1, <3>3 DEF IInv, RunInv, Knows, MidCommitPcs
  <2>6. MainLast(r)'
    BY <2>3 DEF MainLast, CommitPcs, MidCommitPcs
  <2>7. FreeTemps(r)'
    BY <1>0, <2>0, <2>3 DEF IInv, TypeOK, RunInv, FreeTemps, PreparePcs
  <2> QED BY <1>2, <2>1, <2>2, <2>4, <2>5, <2>6, <2>7, Frame DEF IInv, RunInv
<1> QED BY <1>3, <1>4

\* The component's .update-new could not be created.
LEMMA NotWritableStep ==
    ASSUME IInv, NEW r \in Runs, NEW c \in Components, NotWritable(r, c)
    PROVE  IInv'
  BY SkipOrLeaveStep DEF NotWritable, NextToPrepare, disk, PreparePcs

\* The component's temporaries go with it.
LEMMA PrepareFailsStep ==
    ASSUME IInv, NEW r \in Runs, PrepareFails(r)
    PROVE  IInv'
<1>1. pc[r] \in {"downloaded", "keeping", "recording"} /\ item[r] \in changing[r] /\ item[r] \in Components
  BY DEF IInv, TypeOK, RunInv, Shape, PrepareFails
<1> QED BY <1>1, SkipOrLeaveStep DEF PrepareFails, PreparePcs

\* What was not committed is dropped before the locks are.
LEMMA EndInstallStep ==
    ASSUME IInv, NEW r \in Runs, EndInstall(r)
    PROVE  IInv'
<1>0. Leaves(r, "done") /\ DropTemps(prepared[r]) /\ UNCHANGED <<target, previous, record, hold, holdNew, past>>
  BY DEF EndInstall
<1>1. TypeOK'
  BY <1>0, Dropped, LeavesInv DEF IInv, TypeOK
<1>2. \A d \in prepared[r] : lock[d] = r
  BY DEF IInv, RunInv, Shape
<1>3. \A q \in Runs \ {r} : Untouched(q)
  BY <1>0, <1>2, Dropped, LeavesInv DEF IInv, Untouched, SameFiles
<1>4. RunInv(r)'
  BY <1>0, LeavesInv DEF IInv
<1>5. \A d \in Components : FileInv(d)'
  BY <1>0, FileFrame DEF IInv
<1> QED BY <1>1, <1>3, <1>4, <1>5, Frame DEF IInv

\* A rollback that is refused moves no file.
LEMMA RollbackRefusedStep ==
    ASSUME IInv, NEW r \in Runs, RollbackRefused(r)
    PROVE  IInv'
<1>0. /\ Leaves(r, "done")
      /\ UNCHANGED <<target, previous, record, hold, newFile, previousNew, recordNew, past>>
  BY DEF RollbackRefused
<1>a. /\ holdNew' \in [Components -> Versions \cup {NoVersion}]
      /\ \A c \in Components : pc[r] # "holdWritten" \/ c # item[r] => holdNew'[c] = holdNew[c]
  <2>1. PICK G \in SUBSET (IF pc[r] = "holdWritten" THEN {item[r]} ELSE {}) :
           holdNew' = [c \in Components |-> IF c \in G THEN NoVersion ELSE holdNew[c]]
    BY DEF RollbackRefused, Removals
  <2> QED BY <2>1 DEF IInv, TypeOK
<1>1. TypeOK'
  BY <1>0, <1>a, LeavesInv DEF IInv, TypeOK
<1>2. pc[r] = "holdWritten" => lock[item[r]] = r
  BY DEF IInv, RunInv, Shape, LockedRollbackPcs
<1>3. \A q \in Runs \ {r}, c \in Components : lock[c] = q => holdNew'[c] = holdNew[c]
  BY <1>a, <1>2 DEF IInv, TypeOK
<1>4. \A q \in Runs \ {r} : Untouched(q)
  BY <1>0, <1>3, LeavesInv DEF IInv, Untouched, SameFiles
<1>5. RunInv(r)'
  BY <1>0, LeavesInv DEF IInv
<1>6. \A d \in Components : FileInv(d)'
  BY <1>0, FileFrame DEF IInv
<1> QED BY <1>1, <1>4, <1>5, <1>6, Frame DEF IInv

\* Whether or not its removal works, the record of a file gone back from no
\* longer finds a .previous.
LEMMA EndRollbackStep ==
    ASSUME IInv, NEW r \in Runs, EndRollback(r)
    PROVE  IInv'
<1>0. /\ Leaves(r, "done") /\ pc[r] = "swapped" /\ item[r] \in Components
      /\ UNCHANGED <<target, previous, hold, newFile, previousNew, recordNew, holdNew, past>>
  BY DEF IInv, TypeOK, EndRollback
<1>1. TypeOK'
  <2>1. record' \in [Components -> Records \cup {None}]
    BY DEF IInv, TypeOK, EndRollback
  <2> QED BY <1>0, <2>1, LeavesInv DEF IInv, TypeOK
<1>2. lock[item[r]] = r /\ previous[item[r]] = None
  BY <1>0 DEF IInv, RunInv, Shape, Knows, LockedRollbackPcs
<1>3. \A c \in Components \ {item[r]} : record'[c] = record[c]
  BY DEF IInv, TypeOK, EndRollback
<1>4. \A q \in Runs \ {r} : Untouched(q)
  BY <1>0, <1>2, <1>3, LeavesInv DEF IInv, Untouched, SameFiles
<1>5. RunInv(r)'
  BY <1>0, LeavesInv DEF IInv
<1>6. ASSUME NEW d \in Components PROVE FileInv(d)'
  <2>1. CASE record'[d] = record[d]
    BY <1>0, <2>1, FileFrame DEF IInv
  <2>2. CASE record'[d] # record[d]
    <3>1. d = item[r] /\ record'[d] = None
      BY <1>3, <2>2 DEF IInv, TypeOK, EndRollback
    <3> QED BY <1>0, <3>1 DEF IInv, FileInv, CanGoBack, Vouched
  <2> QED BY <2>1, <2>2
<1> QED BY <1>1, <1>4, <1>5, <1>6, Frame DEF IInv

\* A file put by other means is in no release, so no record describes it.
LEMMA PutByOtherMeansStep ==
    ASSUME IInv, NEW c \in Components, NEW f \in OtherFiles, PutByOtherMeans(c, f)
    PROVE  IInv'
<1> USE InstallAssumption
<1>1. TypeOK'
  BY DEF IInv, TypeOK, PutByOtherMeans, Replace
<1>2. \A q \in Runs : Untouched(q)
  BY DEF IInv, TypeOK, PutByOtherMeans, Replace, Untouched, SameFiles
<1>3. ASSUME NEW d \in Components PROVE FileInv(d)'
  <2>1. CASE d # c
    <3>1. target'[d] = target[d]
      BY <2>1 DEF IInv, TypeOK, PutByOtherMeans, Replace
    <3> QED BY <3>1, FileFrame DEF IInv, PutByOtherMeans
  <2>2. CASE d = c
    <3>1. target'[d] = f
      BY <2>2 DEF IInv, TypeOK, PutByOtherMeans, Replace
    <3>2. record[d] # None => record[d].installed \in Released(d)
      BY DEF IInv, FileInv, TypeOK, Records, Released
    <3>3. record[d] # None => record[d].installed # f
      BY <3>2, OtherFilesAssumption
    <3> QED BY <3>1, <3>3 DEF IInv, FileInv, CanGoBack, Vouched, PutByOtherMeans
  <2> QED BY <2>1, <2>2
<1> QED BY <1>1, <1>2, <1>3, Frame DEF IInv

-----------------------------------------------------------------------------
\* The invariant holds of a fresh installation.
LEMMA InitInv == Init => IInv
<1> SUFFICES ASSUME Init PROVE IInv
  OBVIOUS
<1> USE InstallAssumption
<1>1. TypeOK
  BY DEF Init, TypeOK, Pcs
<1>2. \A r \in Runs : RunInv(r)
  BY DEF Init, RunInv, Shape, Knows, MainLast, FreeTemps, Pending, PreparePcs, CommitPcs,
         MidCommitPcs, LockedRollbackPcs
<1>3. \A c \in Components : FileInv(c)
  BY DEF Init, FileInv, CanGoBack, Vouched, NoVersion
<1> QED BY <1>1, <1>2, <1>3 DEF IInv

\* Every action of install.rs preserves it.
LEMMA NextInv == IInv /\ [Next]_vars => IInv'
<1> SUFFICES ASSUME IInv, [Next]_vars PROVE IInv'
  OBVIOUS
<1>1. ASSUME NEW r \in Runs, Update(r) PROVE IInv'
  <2>1. CASE Prepare(r)
    BY <2>1, DownloadStep, VerifyStep, KeepACopyStep, WriteRecordStep, NotWritableStep,
       PrepareFailsStep DEF Prepare
  <2>2. CASE Commit(r)
    BY <2>2, BeginCommitStep, RenamePreviousStep, RenameRecordStep, PutInPlaceStep,
       RemoveHoldStep, CommitFailsStep, EndInstallStep DEF Commit
  <2>3. CASE NothingToInstall(r) \/ ChangedDuringUpdate(r)
    BY <2>3, KillStep DEF NothingToInstall, ChangedDuringUpdate
  <2> QED
    BY <1>1, <2>1, <2>2, <2>3, StartStep, BeginFetchStep, FetchedStep, LockForInstallStep,
       LockRefusedStep, SweepChangingStep DEF Update
<1>2. ASSUME NEW r \in Runs, Rollback(r) PROVE IInv'
  BY <1>2, StartRollbackStep, RollbackLockStep, RollbackCheckStep, RollbackRefusedStep,
     WriteHoldStep, RenameHoldStep, SwapBackStep, EndRollbackStep DEF Rollback
<1>3. ASSUME NEW r \in Runs, Kill(r) PROVE IInv'
  BY <1>3, KillStep DEF Kill
<1>4. CASE UNCHANGED vars
  <2>1. UNCHANGED <<disk, lock, pc, locals, past>>
    BY <1>4 DEF vars
  <2>2. TypeOK'
    BY <2>1 DEF IInv, TypeOK, disk, locals
  <2>3. \A q \in Runs : Untouched(q)
    BY <2>1 DEF Untouched, SameFiles, disk, locals
  <2>4. \A d \in Components : FileInv(d)'
    BY <2>1, FileFrame DEF IInv, disk
  <2> QED BY <2>2, <2>3, <2>4, Frame DEF IInv
<1> QED BY <1>1, <1>2, <1>3, <1>4, PutByOtherMeansStep DEF Next

\* The inductive invariant of install and rollback.
THEOREM Invariance == Spec => []IInv
<1> QED BY InitInv, NextInv, PTL DEF Spec
-----------------------------------------------------------------------------
(* What the invariant gives: the properties that the runs check. *)

\* The hold covers every rollback, whatever dies between the hold and the
\* swap, for any number of runs, components and releases.
THEOREM HoldCovers == Spec => []HoldCoversRollback
<1>1. IInv => HoldCoversRollback
  BY DEF IInv, FileInv, HoldCoversRollback
<1> QED BY <1>1, Invariance, PTL

\* The variables always have their types: a target is always a whole file.
THEOREM TypeCorrect == Spec => []TypeOK
<1>1. IInv => TypeOK
  BY DEF IInv
<1> QED BY <1>1, Invariance, PTL

\* The running component is committed last, so a killed run can be resumed.
THEOREM MainComesLast == Spec => []RunningComponentLast
<1>1. IInv => RunningComponentLast
  <2> SUFFICES ASSUME IInv, NEW r \in Runs,
                      pc[r] \in {"committing", "previousRenamed", "recordRenamed", "inPlace"},
                      Main \in prepared[r],
                      \/ left[r] \cap Siblings # {}
                      \/ pc[r] \in {"previousRenamed", "recordRenamed"} /\ item[r] # Main
               PROVE  target[Main] # Entry[version[r]][Main]
    BY DEF RunningComponentLast
  <2>1. Main \in left[r]
    BY DEF IInv, RunInv, MainLast, CommitPcs, MidCommitPcs
  <2>2. Main \in Pending(r)
    BY <2>1 DEF Pending, PreparePcs
  <2> QED BY <2>2 DEF IInv, RunInv, Knows
<1> QED BY <1>1, Invariance, PTL

\* No run meets a dead run's temporary where it is about to create its own,
\* unless its sweep could not remove it.
THEOREM TempsFree == Spec => []TempsAreFree
<1>1. IInv => TempsAreFree
  <2> SUFFICES ASSUME IInv, NEW r \in Runs
               PROVE  /\ pc[r] = "preparing" => \A c \in changing[r] \ stuck :
                            newFile[c] = None /\ previousNew[c] = None /\ recordNew[c] = None
                      /\ item[r] \notin stuck =>
                           /\ pc[r] \in {"downloaded", "keeping"} => previousNew[item[r]] = None
                           /\ pc[r] \in {"downloaded", "keeping", "recording"} => recordNew[item[r]] = None
                           /\ pc[r] \in {"checking", "holding"} => holdNew[item[r]] = NoVersion
    BY DEF TempsAreFree
  <2>1. pc[r] \in {"downloaded", "keeping", "recording"} => item[r] \in changing[r]
    BY DEF IInv, RunInv, Shape
  <2> QED BY <2>1 DEF IInv, RunInv, FreeTemps
<1> QED BY <1>1, Invariance, PTL

\* A target changes in three ways only.
LEMMA OnlyThreeMove ==
    ASSUME IInv, [Next]_vars, NEW c \in Components, target'[c] # target[c]
    PROVE  \/ \E q \in Runs : PutInPlace(q) /\ item[q] = c
           \/ \E q \in Runs : SwapBack(q) /\ item[q] = c
           \/ \E f \in OtherFiles : PutByOtherMeans(c, f)
<1>1. ASSUME NEW q \in Runs, Update(q) PROVE PutInPlace(q) /\ item[q] = c
  <2>1. CASE Prepare(q)
    BY <2>1 DEF Prepare, Download, Verify, KeepACopy, WriteRecord, NotWritable,
       PrepareFails, disk
  <2>2. CASE Commit(q)
    <3>1. PutInPlace(q)
      BY <2>2 DEF Commit, BeginCommit, RenamePrevious, RenameRecord, RemoveHold,
         CommitFails,
                  EndInstall, disk
    <3> QED BY <3>1 DEF IInv, TypeOK, PutInPlace, Replace
  <2> QED
    BY <1>1, <2>1, <2>2 DEF Update, Start, BeginFetch, Fetched, NothingToInstall,
       LockForInstall,
                       LockRefused, ChangedDuringUpdate, SweepChanging, disk
<1>2. ASSUME NEW q \in Runs, Rollback(q) PROVE SwapBack(q) /\ item[q] = c
  <2>1. SwapBack(q)
    BY <1>2 DEF Rollback, StartRollback, RollbackLock, RollbackCheck, RollbackRefused,
       WriteHold,
                RenameHold, EndRollback, disk
  <2> QED BY <2>1 DEF IInv, TypeOK, SwapBack, Replace
<1>3. ASSUME NEW d \in Components, NEW f \in OtherFiles, PutByOtherMeans(d, f)
      PROVE  PutByOtherMeans(c, f)
  BY <1>3 DEF IInv, TypeOK, PutByOtherMeans, Replace
<1> QED BY <1>1, <1>2, <1>3 DEF Next, Kill, vars, disk

\* A file behind a committing run's lock is moved by that run alone.
LEMMA MovesIsPutInPlace ==
    ASSUME IInv, [Next]_vars, NEW r \in Runs, Moves(r)
    PROVE  PutInPlace(r)
<1> DEFINE c == item[r]
<1>1. c \in Components /\ target'[c] # target[c] /\ pc[r] = "recordRenamed"
  BY DEF IInv, TypeOK, Moves
<1>2. lock[c] = r
  BY <1>1 DEF IInv, RunInv, Shape, MidCommitPcs
<1>3. ASSUME NEW q \in Runs, PutInPlace(q), item[q] = c PROVE q = r
  BY <1>2, <1>3 DEF IInv, RunInv, Shape, PutInPlace, MidCommitPcs
<1>4. ASSUME NEW q \in Runs, SwapBack(q), item[q] = c PROVE FALSE
  <2>1. pc[q] = "swapping" /\ lock[c] = q
    BY <1>4 DEF IInv, RunInv, Shape, SwapBack, LockedRollbackPcs
  <2> QED BY <1>1, <1>2, <2>1
<1>5. ASSUME NEW f \in OtherFiles, PutByOtherMeans(c, f) PROVE FALSE
  BY <1>2, <1>5, InstallAssumption DEF PutByOtherMeans
<1> QED BY <1>1, <1>3, <1>4, <1>5, OnlyThreeMove

\* An install keeps what it replaces, beside it and vouched for.
THEOREM NothingIsLost == Spec => InstallKeepsWhatItReplaces
<1>1. ASSUME IInv, [Next]_vars, NEW r \in Runs, Moves(r)
      PROVE  /\ previous'[item[r]] = target[item[r]]
             /\ record'[item[r]] # None
             /\ record'[item[r]].previous = target[item[r]]
             /\ record'[item[r]].installed = target'[item[r]]
  <2>1. PutInPlace(r) /\ item[r] \in Components
    BY <1>1, MovesIsPutInPlace DEF IInv, TypeOK
  <2>2. /\ previous[item[r]] = target[item[r]] /\ Describes(record[item[r]], r, item[r])
        /\ newFile[item[r]] = Entry[version[r]][item[r]]
    BY <1>1, <2>1 DEF IInv, RunInv, Knows, PutInPlace, MidCommitPcs
  <2>3. target'[item[r]] = newFile[item[r]]
    BY <1>1, <2>1 DEF IInv, TypeOK, PutInPlace, Replace
  <2> QED BY <2>1, <2>2, <2>3 DEF PutInPlace, Describes
<1>2. IInv /\ [Next]_vars =>
        [\A r \in Runs : Moves(r) =>
           LET c == item[r] IN
           /\ previous'[c] = target[c]
           /\ record'[c] # None
           /\ record'[c].previous = target[c]
           /\ record'[c].installed = target'[c]]_vars
  BY <1>1
<1> QED BY <1>2, Invariance, PTL DEF Spec, InstallKeepsWhatItReplaces

\* The running file is moved only if it is the one seen before the fetch.
THEOREM SeenIsCurrent == Spec => UntouchedSinceFetch
<1>1. ASSUME IInv, [Next]_vars, NEW r \in Runs, Moves(r), item[r] = Main PROVE ~changed[r]
  <2>1. pc[r] = "recordRenamed"
    BY <1>1 DEF Moves
  <2>2. Main \in Pending(r)
    BY <1>1, <2>1 DEF Pending, MidCommitPcs
  <2> QED BY <1>1, <2>2 DEF IInv, RunInv, Knows
<1>2. IInv /\ [Next]_vars => [\A r \in Runs : Moves(r) /\ item[r] = Main => ~changed[r]]_vars
  BY <1>1
<1> QED BY <1>2, Invariance, PTL DEF Spec, UntouchedSinceFetch
-----------------------------------------------------------------------------
(* Install implements Installation. *)

\* The file --rollback would put back.
Kept == [c \in Components |-> IF CanGoBack(c) THEN previous[c] ELSE None]

\* Only six actions change anything the abstract state is made of.
LEMMA AbstractFrame ==
    ASSUME [Next]_vars
    PROVE  \/ UNCHANGED <<target, previous, record, wentBack>>
           \/ \E r \in Runs, c \in Components : RenamePrevious(r, c)
           \/ \E r \in Runs : RenameRecord(r) \/ PutInPlace(r) \/ SwapBack(r) \/ EndRollback(r)
           \/ \E c \in Components, f \in OtherFiles : PutByOtherMeans(c, f)
<1>1. ASSUME NEW r \in Runs, Update(r)
      PROVE  \/ UNCHANGED <<target, previous, record, wentBack>>
             \/ \E c \in Components : RenamePrevious(r, c)
             \/ RenameRecord(r) \/ PutInPlace(r)
  <2>1. CASE Prepare(r)
    BY <2>1 DEF Prepare, Download, Verify, KeepACopy, WriteRecord, NotWritable,
       PrepareFails, disk
  <2>2. CASE Commit(r)
    BY <2>2 DEF Commit, BeginCommit, RemoveHold, CommitFails, EndInstall, disk
  <2> QED
    BY <1>1, <2>1, <2>2 DEF Update, Start, BeginFetch, Fetched, NothingToInstall,
       LockForInstall,
                       LockRefused, ChangedDuringUpdate, SweepChanging, disk
<1>2. ASSUME NEW r \in Runs, Rollback(r)
      PROVE  UNCHANGED <<target, previous, record, wentBack>> \/ SwapBack(r) \/ EndRollback(r)
  BY <1>2 DEF Rollback, StartRollback, RollbackLock, RollbackCheck, RollbackRefused,
     WriteHold,
              RenameHold, disk
<1> QED BY <1>1, <1>2 DEF Next, Kill, vars, disk

\* A step on the files of one component changes no other's kept file.
LEMMA KeptOf ==
    ASSUME NEW c \in Components,
           \A d \in Components \ {c} :
              target'[d] = target[d] /\ previous'[d] = previous[d] /\ record'[d] = record[d]
    PROVE  Kept' = [Kept EXCEPT ![c] = IF CanGoBack(c)' THEN previous'[c] ELSE None]
<1>1. \A d \in Components \ {c} : CanGoBack(d)' = CanGoBack(d)
  BY DEF CanGoBack, Vouched
<1> QED BY <1>1 DEF Kept

\* Every step of install.rs is one of Installation, or changes nothing it shows.
LEMMA StepRefines ==
    ASSUME IInv, [Next]_vars
    PROVE  [Abstract!ANext]_(Abstract!avars)
<1> USE InstallAssumption
<1>1. CASE UNCHANGED <<target, previous, record, wentBack>>
  <2>1. UNCHANGED <<target, Kept, wentBack>>
    BY <1>1 DEF Kept, CanGoBack, Vouched
  <2> QED BY <2>1 DEF Abstract!avars, Kept
<1>2. ASSUME NEW r \in Runs, NEW c \in Components, RenamePrevious(r, c)
      PROVE  [Abstract!ANext]_(Abstract!avars)
  <2>1. /\ \A d \in Components \ {c} :
              target'[d] = target[d] /\ previous'[d] = previous[d] /\ record'[d] = record[d]
        /\ previous'[c] = target[c] /\ UNCHANGED <<target, record, wentBack>>
    BY <1>2 DEF IInv, RunInv, Knows, Ready, TypeOK, RenamePrevious, NextToCommit
  <2>2. ~CanGoBack(c)'
    BY <2>1 DEF CanGoBack, Vouched
  <2>3. Kept' = [Kept EXCEPT ![c] = None]
    BY <2>1, <2>2, KeptOf
  <2>4. Abstract!Forgets(c)
    BY <2>1, <2>3 DEF Abstract!Forgets, Kept
  <2> QED BY <2>4 DEF Abstract!ANext
<1>3. ASSUME NEW r \in Runs, RenameRecord(r)
      PROVE  [Abstract!ANext]_(Abstract!avars)
  <2>0. PICK c \in Components : c = item[r]
    BY DEF IInv, TypeOK
  <2>1. /\ \A d \in Components \ {c} : record'[d] = record[d]
        /\ record'[c] = recordNew[c] /\ UNCHANGED <<target, previous, wentBack>>
    BY <1>3, <2>0 DEF IInv, TypeOK, RenameRecord
  <2>2. Describes(recordNew[c], r, c)
    BY <1>3, <2>0 DEF IInv, RunInv, Knows, RenameRecord
  <2>3. ~CanGoBack(c)'
    BY <2>1, <2>2 DEF CanGoBack, Describes
  <2>4. Kept' = [Kept EXCEPT ![c] = None]
    BY <2>1, <2>3, KeptOf
  <2>5. Abstract!Forgets(c)
    BY <2>1, <2>4 DEF Abstract!Forgets, Kept
  <2> QED BY <2>5 DEF Abstract!ANext
<1>4. ASSUME NEW r \in Runs, PutInPlace(r)
      PROVE  [Abstract!ANext]_(Abstract!avars)
  <2>0. PICK c \in Components : c = item[r]
    BY DEF IInv, TypeOK
  <2>1. /\ pc[r] = "recordRenamed" /\ version[r] \in Versions /\ item' = item
    BY <1>4 DEF IInv, RunInv, Shape, PutInPlace, CommitPcs, MidCommitPcs
  <2>2. /\ previous[c] = target[c] /\ Describes(record[c], r, c)
        /\ newFile[c] = Entry[version[r]][c] /\ target[c] # Entry[version[r]][c]
        /\ asked[r] = "Auto" => version[r] > hold[c]
    <3>1. c \in Pending(r)
      BY <2>0, <2>1 DEF Pending, MidCommitPcs
    <3> QED BY <2>0, <2>1, <3>1 DEF IInv, RunInv, Knows, MidCommitPcs
  <2>3. /\ target' = [target EXCEPT ![c] = Entry[version[r]][c]]
        /\ UNCHANGED <<previous, record>>
        /\ wentBack' = IF asked[r] = "User" THEN [wentBack EXCEPT ![c] = NoVersion] ELSE wentBack
    BY <1>4, <2>0, <2>2 DEF PutInPlace, Replace
  <2>4. CanGoBack(c)' /\ previous'[c] = target[c]
    <3>1. target'[c] = Entry[version[r]][c] /\ target[c] \in Files
      BY <2>3 DEF IInv, TypeOK
    <3> QED BY <2>2, <2>3, <3>1 DEF CanGoBack, Vouched, Describes
  <2>5. Kept' = [Kept EXCEPT ![c] = target[c]]
    <3>1. \A d \in Components \ {c} : target'[d] = target[d]
      BY <2>3 DEF IInv, TypeOK
    <3> QED BY <2>3, <2>4, <3>1, KeptOf
  <2>6. PICK v \in Versions : v = version[r]
    BY <2>1
  <2>7. CASE asked[r] = "User"
    <3>1. Abstract!UserInstalls(c, v)
      BY <2>3, <2>5, <2>6, <2>7 DEF Abstract!UserInstalls, Kept, NoVersion
    <3> QED BY <3>1 DEF Abstract!ANext
  <2>8. CASE asked[r] # "User"
    <3>1. version[r] > wentBack[c]
      <4>1. asked[r] = "Auto"
        BY <2>8 DEF IInv, TypeOK
      <4>2. wentBack[c] <= hold[c] /\ wentBack[c] \in Nat /\ hold[c] \in Nat /\ version[r] \in Nat
        BY <2>1, VersionFacts DEF IInv, FileInv
      <4> QED BY <2>2, <4>1, <4>2
    <3>2. Abstract!AutoInstalls(c, v)
      BY <2>3, <2>5, <2>6, <2>8, <3>1 DEF Abstract!AutoInstalls, Kept
    <3> QED BY <3>2 DEF Abstract!ANext
  <2> QED BY <2>7, <2>8
<1>5. ASSUME NEW r \in Runs, SwapBack(r)
      PROVE  [Abstract!ANext]_(Abstract!avars)
  <2>0. PICK c \in Components : c = item[r]
    BY DEF IInv, TypeOK
  <2>1. pc[r] = "swapping" /\ version[r] \in Versions
    BY <1>5 DEF IInv, RunInv, Shape, SwapBack
  <2>2. CanGoBack(c) /\ version[r] = record[c].to
    BY <2>0, <2>1 DEF IInv, RunInv, Knows
  <2>3. /\ target' = [target EXCEPT ![c] = previous[c]] /\ record' = record
        /\ previous' = [previous EXCEPT ![c] = None]
        /\ wentBack' = [wentBack EXCEPT ![c] = version[r]]
    BY <1>5, <2>0 DEF SwapBack, Replace
  <2>4. ~CanGoBack(c)'
    BY <2>3 DEF IInv, TypeOK, CanGoBack, Vouched
  <2>5. Kept' = [Kept EXCEPT ![c] = None]
    <3>1. \A d \in Components \ {c} : target'[d] = target[d] /\ previous'[d] = previous[d]
      BY <2>3 DEF IInv, TypeOK
    <3> QED BY <2>3, <2>4, <3>1, KeptOf
  <2>6. Kept[c] = previous[c] /\ previous[c] # None /\ target[c] = Entry[version[r]][c]
    BY <2>2 DEF IInv, FileInv, Kept, CanGoBack, Vouched
  <2>7. PICK v \in Versions : v = version[r]
    BY <2>1
  <2>8. Abstract!GoesBack(c, v)
    BY <2>3, <2>5, <2>6, <2>7 DEF Abstract!GoesBack, Kept
  <2> QED BY <2>8 DEF Abstract!ANext
<1>6. ASSUME NEW r \in Runs, EndRollback(r)
      PROVE  [Abstract!ANext]_(Abstract!avars)
  <2>1. /\ previous[item[r]] = None /\ item[r] \in Components
    BY <1>6 DEF IInv, RunInv, Knows, TypeOK, EndRollback
  <2>2. /\ \A d \in Components \ {item[r]} : record'[d] = record[d]
        /\ UNCHANGED <<target, previous, wentBack>>
    BY <1>6 DEF IInv, TypeOK, EndRollback
  <2>3. \A d \in Components : CanGoBack(d)' = CanGoBack(d)
    BY <2>1, <2>2 DEF CanGoBack, Vouched
  <2>4. Kept' = Kept
    BY <2>2, <2>3 DEF Kept
  <2> QED BY <2>2, <2>4 DEF Abstract!avars, Kept
<1>7. ASSUME NEW c \in Components, NEW f \in OtherFiles, PutByOtherMeans(c, f)
      PROVE  [Abstract!ANext]_(Abstract!avars)
  <2>1. target' = [target EXCEPT ![c] = f] /\ UNCHANGED <<previous, record, wentBack>>
    BY <1>7 DEF PutByOtherMeans, Replace
  <2>2. ~CanGoBack(c)'
    <3>1. record[c] # None => record[c].installed \in Released(c)
      BY DEF IInv, FileInv, TypeOK, Records, Released
    <3>2. record[c] # None => record[c].installed # f
      BY <3>1, OtherFilesAssumption
    <3>3. target'[c] = f
      BY <2>1 DEF IInv, TypeOK
    <3> QED BY <2>1, <3>2, <3>3 DEF CanGoBack, Vouched
  <2>3. Kept' = [Kept EXCEPT ![c] = None]
    <3>1. \A d \in Components \ {c} : target'[d] = target[d]
      BY <2>1 DEF IInv, TypeOK
    <3> QED BY <2>1, <2>2, <3>1, KeptOf
  <2>4. Abstract!PutByHand(c, f)
    BY <2>1, <2>3 DEF Abstract!PutByHand, Kept
  <2> QED BY <2>4 DEF Abstract!ANext
<1> QED BY <1>1, <1>2, <1>3, <1>4, <1>5, <1>6, <1>7, AbstractFrame

\* update, update.auto and --rollback keep the promises of Installation,
\* whatever processes run and wherever they are killed.
THEOREM Refinement == Spec => ImplementsInstallation
<1>1. Init => Abstract!AInit
  <2> SUFFICES ASSUME Init PROVE Abstract!AInit
    OBVIOUS
  <2>1. [c \in Components |-> IF CanGoBack(c) THEN previous[c] ELSE None] = [c \in Components |-> None]
    BY DEF Init, CanGoBack, Vouched
  <2> QED BY <2>1 DEF Init, Abstract!AInit, NoVersion
<1>2. IInv /\ [Next]_vars => [Abstract!ANext]_(Abstract!avars)
  BY StepRefines
<1> QED BY <1>1, <1>2, Invariance, PTL DEF Spec, ImplementsInstallation, Abstract!ASpec
=============================================================================
