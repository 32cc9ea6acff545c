------------------------------- MODULE Notice -------------------------------
(***************************************************************************)
(* The daily check and its notice (crates/n0xis-update/src/notice.rs).     *)
(* Every command in a terminal may print one line (take_line) and may      *)
(* start a detached check (start_check_if_due, run_check); they share two  *)
(* stamps, a lock and the state file of the user's directory.  One action  *)
(* is one access to a shared file.  The install update.auto performs is    *)
(* one step here; Install has its own.                                     *)
(***************************************************************************)
EXTENDS Naturals

CONSTANTS
    Processes,  \* the commands; the check a command starts has its name
    Copies,     \* the user's binaries, by path
    Releases,   \* release versions, as numbers above 0
    Day,        \* DAY_SECONDS
    MaxTime,    \* bound of the model: the clock stops here
    Nil         \* no install to tell of, no holder of the lock

ASSUME NoticeAssumption ==
    /\ Releases \subseteq Nat \ {0}
    /\ Day \in Nat \ {0} /\ MaxTime \in Nat \ {0}

\* Installed: which file update.auto moved, and between which versions.
Installs == [from: Releases, to: Releases, path: Copies]
ASSUME NilAssumption == Nil \notin Installs \cup Processes
NoStamp == 0
NoRelease == 0

VARIABLES
    \* the user's directory
    checkStamp,   \* update-check.stamp
    checkLock,    \* update-check.lock: its holder
    noticeStamp,  \* update-notice.stamp
    state,        \* update-state.json
    \* the world
    now, setBack, \* the clock; whether it was set back behind the last claim
    release,      \* the release each copy is
    \* each command: its image, its clock, what it has read, its line
    place, copy, image, at, read, stamp, line,
    \* each check: where it is, and the state it holds
    check, held,
    \* history: what update.auto moved to which release, the lines printed,
    \* and the commands under way when another claimed the check
    moved, printed, overtaken

files == <<checkStamp, checkLock, noticeStamp, state>>
world == <<now, setBack, release>>
known == <<copy, image, read, stamp, line>>
commandVars == <<at, known>>
noticeVars == <<files, world, place, commandVars, check, held, moved, printed, overtaken>>

States == [latest: Releases \cup {NoRelease}, installed: Installs \cup {Nil}]
NoState == [latest |-> NoRelease, installed |-> Nil]
\* A line speaks of an install or of a release.
InstalledLine(i) == [NoState EXCEPT !.installed = i]
AvailableLine(v) == [NoState EXCEPT !.latest = v]
NoNotice == [at |-> NoStamp, spokenOf |-> Nil]
NoticeStamps == [at: 0..MaxTime, spokenOf: Installs \cup {Nil}]
Busy == {"started", "stateRead", "stampRead", "writing", "printing", "due",
         "locking", "locked", "claiming", "spawning"}

NoticeTypeOK ==
    /\ checkStamp \in 0..MaxTime /\ checkLock \in Processes \cup {Nil}
    /\ noticeStamp \in NoticeStamps /\ state \in States
    /\ now \in 1..MaxTime /\ setBack \in BOOLEAN
    /\ release \in [Copies -> Releases]
    /\ place \in [Processes -> Busy \cup {"idle", "done"}]
    /\ copy \in [Processes -> Copies]
    /\ image \in [Processes -> Releases \cup {NoRelease}]
    /\ at \in [Processes -> 0..MaxTime]
    /\ read \in [Processes -> States] /\ stamp \in [Processes -> NoticeStamps]
    /\ line \in [Processes -> States]
    /\ check \in [Processes -> {"none", "started", "fetching", "writing", "done"}]
    /\ held \in [Processes -> States]
    /\ moved \subseteq Copies \X Releases
    /\ printed \subseteq [by: Processes, what: States]
    /\ overtaken \subseteq Processes

NoticeInit ==
    /\ checkStamp = NoStamp /\ checkLock = Nil
    /\ noticeStamp = NoNotice /\ state = NoState
    /\ now = 1 /\ setBack = FALSE
    /\ release \in [Copies -> Releases]
    /\ place = [p \in Processes |-> "idle"]
    /\ \E c \in Copies : copy = [p \in Processes |-> c]
    /\ image = [p \in Processes |-> NoRelease]
    /\ at = [p \in Processes |-> 0]
    /\ read = [p \in Processes |-> NoState]
    /\ stamp = [p \in Processes |-> NoNotice]
    /\ line = [p \in Processes |-> NoState]
    /\ check = [p \in Processes |-> "none"] /\ held = [p \in Processes |-> NoState]
    /\ moved = {} /\ printed = {} /\ overtaken = {}

\* A stamp from the future counts as none.
ADayHasPassed(s, t) == s = NoStamp \/ s > t \/ t - s >= Day

GoTo(p, where) == place' = [place EXCEPT ![p] = where]

\* at_start returns, or its process is no more.
Return(p) == GoTo(p, "done") /\ at' = [at EXCEPT ![p] = 0]

-----------------------------------------------------------------------------
(* The clock, which no command holds up: at_start reads it once, and the   *)
(* second may turn before the command gets to its claim.                   *)

Tick ==
    /\ now < MaxTime
    /\ now' = now + 1
    /\ UNCHANGED <<files, setBack, release, place, commandVars, check, held, moved, printed, overtaken>>

SetClockBack ==
    /\ now > 1
    /\ now' = 1 /\ setBack' = TRUE
    /\ UNCHANGED <<files, release, place, commandVars, check, held, moved, printed, overtaken>>

-----------------------------------------------------------------------------
(* at_start, in a command that may speak. *)

AtStart(p, c) ==
    /\ place[p] = "idle"
    /\ GoTo(p, "started")
    /\ copy' = [copy EXCEPT ![p] = c]
    /\ image' = [image EXCEPT ![p] = release[c]]
    /\ at' = [at EXCEPT ![p] = now]
    /\ UNCHANGED <<files, world, read, stamp, line, check, held, moved, printed, overtaken>>

ReadState(p) ==
    /\ place[p] = "started"
    /\ GoTo(p, "stateRead")
    /\ read' = [read EXCEPT ![p] = state]
    /\ UNCHANGED <<files, world, copy, image, at, stamp, line, check, held, moved, printed, overtaken>>

ReadNoticeStamp(p) ==
    /\ place[p] = "stateRead"
    /\ GoTo(p, "stampRead")
    /\ stamp' = [stamp EXCEPT ![p] = noticeStamp]
    /\ UNCHANGED <<files, world, copy, image, at, read, line, check, held, moved, printed, overtaken>>

\* With a mistake: any copy at that release speaks of an install.
SpeaksOfInstallAt(p) ==
    LET i == read[p].installed IN
    i # Nil /\ i.to = image[p] /\ stamp[p].spokenOf # i

\* The install in the state is this file's, and not spoken of.
SpeaksOfInstall(p) ==
    LET i == read[p].installed IN
    i # Nil /\ i.to = image[p] /\ i.path = copy[p] /\ stamp[p].spokenOf # i

SpeaksOfLatest(p) ==
    /\ ~SpeaksOfInstall(p)
    /\ read[p].latest > image[p]
    /\ ADayHasPassed(stamp[p].at, at[p])

\* take_line is over, and what it had read with it.
LeaveTakeLine(p) ==
    /\ read' = [read EXCEPT ![p] = NoState]
    /\ stamp' = [stamp EXCEPT ![p] = NoNotice]
    /\ line' = [line EXCEPT ![p] = NoState]

\* take_line: which line, if any.
ChooseLine(p) ==
    /\ place[p] = "stampRead"
    /\ IF SpeaksOfInstall(p)
       THEN /\ GoTo(p, "writing") /\ UNCHANGED <<read, stamp>>
            /\ line' = [line EXCEPT ![p] = InstalledLine(read[p].installed)]
       ELSE IF SpeaksOfLatest(p)
       THEN /\ GoTo(p, "writing") /\ UNCHANGED <<read, stamp>>
            /\ line' = [line EXCEPT ![p] = AvailableLine(read[p].latest)]
       ELSE GoTo(p, "due") /\ LeaveTakeLine(p)
    /\ UNCHANGED <<files, world, copy, image, at, check, held, moved, printed, overtaken>>

\* The stamp comes first; one that cannot be written means no line.
WriteNoticeStamp(p, works) ==
    /\ place[p] = "writing"
    /\ IF works
       THEN /\ GoTo(p, "printing") /\ UNCHANGED <<read, stamp, line>>
            /\ noticeStamp' = [at |-> at[p],
                               spokenOf |-> IF line[p].installed # Nil THEN line[p].installed
                                            ELSE stamp[p].spokenOf]
       ELSE GoTo(p, "due") /\ LeaveTakeLine(p) /\ UNCHANGED noticeStamp
    /\ UNCHANGED <<checkStamp, checkLock, state, world, copy, image, at, check, held, moved,
                   printed, overtaken>>

PrintLine(p) ==
    /\ place[p] = "printing"
    /\ GoTo(p, "due") /\ LeaveTakeLine(p)
    /\ printed' = printed \cup {[by |-> p, what |-> line[p]]}
    /\ UNCHANGED <<files, world, copy, image, at, check, held, moved, overtaken>>

\* start_check_if_due: a first look without the lock.
FirstLook(p) ==
    /\ place[p] = "due"
    /\ IF ADayHasPassed(checkStamp, at[p]) THEN GoTo(p, "locking") /\ UNCHANGED at ELSE Return(p)
    /\ UNCHANGED <<files, world, known, check, held, moved, printed, overtaken>>

\* A command never waits for the lock.
TryLock(p) ==
    /\ place[p] = "locking"
    /\ IF checkLock = Nil
       THEN GoTo(p, "locked") /\ checkLock' = p /\ UNCHANGED at
       ELSE Return(p) /\ UNCHANGED checkLock
    /\ UNCHANGED <<checkStamp, noticeStamp, state, world, known, check, held, moved, printed, overtaken>>

\* With a mistake: the stamp is not read again under the lock.
ClaimUnseen(p) ==
    /\ place[p] = "locked"
    /\ GoTo(p, "claiming")
    /\ UNCHANGED <<files, world, commandVars, check, held, moved, printed, overtaken>>

LookAgain(p) ==
    /\ place[p] = "locked"
    /\ IF ADayHasPassed(checkStamp, at[p])
       THEN GoTo(p, "claiming") /\ UNCHANGED <<checkLock, at>>
       ELSE Return(p) /\ checkLock' = Nil
    /\ UNCHANGED <<checkStamp, noticeStamp, state, world, known, check, held, moved, printed, overtaken>>

\* A claim that cannot be written means no check.  The stamp is the second the
\* command read, which may be ahead of a clock set back meanwhile.
Claim(p, works) ==
    /\ place[p] = "claiming"
    /\ IF works
       THEN /\ GoTo(p, "spawning")
            /\ checkStamp' = at[p] /\ setBack' = (at[p] > now)
            /\ overtaken' = {q \in Processes \ {p} : place[q] \in Busy}
            /\ UNCHANGED <<checkLock, at>>
       ELSE /\ Return(p) /\ checkLock' = Nil
            /\ UNCHANGED <<checkStamp, setBack, overtaken>>
    /\ UNCHANGED <<noticeStamp, state, now, release, known, check, held, moved, printed>>

\* The check runs the file that is there by now, and takes the command's place.
StartCheck(p, works) ==
    /\ place[p] = "spawning"
    /\ Return(p)
    /\ checkLock' = Nil
    /\ check' = IF works THEN [check EXCEPT ![p] = "started"] ELSE check
    /\ image' = IF works THEN [image EXCEPT ![p] = release[copy[p]]] ELSE image
    /\ UNCHANGED <<checkStamp, noticeStamp, state, world, copy, read, stamp, line, held,
                   moved, printed, overtaken>>

\* A Ctrl-C, or a lock file that does not open: the kernel releases the lock.
KillCommand(p) ==
    /\ place[p] \in Busy
    /\ Return(p) /\ LeaveTakeLine(p)
    /\ checkLock' = IF checkLock = p THEN Nil ELSE checkLock
    /\ UNCHANGED <<checkStamp, noticeStamp, state, world, copy, image, check, held, moved,
                   printed, overtaken>>

-----------------------------------------------------------------------------
(* run_check, in the detached copy. *)

CheckReadsState(p) ==
    /\ check[p] = "started"
    /\ check' = [check EXCEPT ![p] = "fetching"]
    /\ held' = [held EXCEPT ![p] = state]
    /\ UNCHANGED <<files, world, place, commandVars, moved, printed, overtaken>>

\* No manifest: what an earlier check learned stays.
FetchFails(p) ==
    /\ check[p] = "fetching"
    /\ check' = [check EXCEPT ![p] = "writing"]
    /\ UNCHANGED <<files, world, place, commandVars, held, moved, printed, overtaken>>

\* With a mistake: what was to be installed is said to have been.
FetchSaysTooMuch(p, v, blocked, moves) ==
    LET available == v > image[p] /\ ~blocked IN
    /\ check[p] = "fetching"
    /\ check' = [check EXCEPT ![p] = "writing"]
    /\ held' = [held EXCEPT ![p] =
          [latest |-> IF available THEN v ELSE NoRelease,
           installed |-> IF available THEN [from |-> image[p], to |-> v, path |-> copy[p]]
                         ELSE @.installed]]
    /\ IF available /\ moves
       THEN release' = [release EXCEPT ![copy[p]] = v] /\ moved' = moved \cup {<<copy[p], v>>}
       ELSE UNCHANGED <<release, moved>>
    /\ UNCHANGED <<files, now, setBack, place, commandVars, printed, overtaken>>

\* A manifest of release v, blocked if it has no entry for this platform.
\* moves: update.auto is on and its install moves this file; any refusal
\* leaves the file and what the state says was installed.
Fetch(p, v, blocked, moves) ==
    LET available == v > image[p] /\ ~blocked
        installs == available /\ moves /\ release[copy[p]] # v IN
    /\ check[p] = "fetching"
    /\ check' = [check EXCEPT ![p] = "writing"]
    /\ held' = [held EXCEPT ![p] =
          [latest |-> IF available THEN v ELSE NoRelease,
           installed |-> IF installs THEN [from |-> image[p], to |-> v, path |-> copy[p]]
                         ELSE @.installed]]
    /\ IF installs
       THEN release' = [release EXCEPT ![copy[p]] = v] /\ moved' = moved \cup {<<copy[p], v>>}
       ELSE UNCHANGED <<release, moved>>
    /\ UNCHANGED <<files, now, setBack, place, commandVars, printed, overtaken>>

\* write_state: the whole state; a failure says nothing.
WriteState(p, works) ==
    /\ check[p] = "writing"
    /\ check' = [check EXCEPT ![p] = "done"]
    /\ held' = [held EXCEPT ![p] = NoState]
    /\ state' = IF works THEN held[p] ELSE state
    /\ UNCHANGED <<checkStamp, checkLock, noticeStamp, world, place, commandVars, moved, printed, overtaken>>

\* A shutdown in the check's minute.
CheckDies(p) ==
    /\ check[p] \in {"started", "fetching", "writing"}
    /\ check' = [check EXCEPT ![p] = "done"]
    /\ held' = [held EXCEPT ![p] = NoState]
    /\ UNCHANGED <<files, world, place, commandVars, moved, printed, overtaken>>

-----------------------------------------------------------------------------
Command(p) ==
    \/ \E c \in Copies : AtStart(p, c)
    \/ ReadState(p) \/ ReadNoticeStamp(p) \/ ChooseLine(p)
    \/ \E works \in BOOLEAN : WriteNoticeStamp(p, works)
    \/ PrintLine(p)
    \/ FirstLook(p) \/ TryLock(p) \/ LookAgain(p)
    \/ \E works \in BOOLEAN : Claim(p, works) \/ StartCheck(p, works)
    \/ KillCommand(p)

Check(p) ==
    \/ CheckReadsState(p)
    \/ FetchFails(p)
    \/ \E v \in Releases, blocked, moves \in BOOLEAN : Fetch(p, v, blocked, moves)
    \/ \E works \in BOOLEAN : WriteState(p, works)
    \/ CheckDies(p)

NoticeNext == Tick \/ SetClockBack \/ \E p \in Processes : Command(p) \/ Check(p)

NoticeSpec == NoticeInit /\ [][NoticeNext]_noticeVars

-----------------------------------------------------------------------------
Claims(p) == place[p] = "claiming" /\ place'[p] = "spawning"

\* notice.rs: "At most once a day a run in a terminal starts a detached copy":
\* a claim comes a day after the one before it, unless the clock was set back.
\* It is not so: a command that read the second before the one another has
\* claimed takes that stamp for one of the future, and claims again.
OneCheckADay ==
    [][\A p \in Processes :
          Claims(p) => checkStamp = NoStamp \/ setBack \/ at[p] >= checkStamp + Day]_noticeVars

\* What is so of it: only a command that was under way when another claimed,
\* and had read an earlier second, claims the day again.  Of the commands that
\* read one second one claims, and one that starts after a claim leaves it
\* alone for a day (start_check_if_due: "Read and written under one lock, or
\* runs started together each read an old stamp and each claim the day").
OnlyTheOvertakenCheckAgain ==
    [][\A p \in Processes :
          Claims(p) => \/ checkStamp = NoStamp \/ setBack \/ at[p] >= checkStamp + Day
                       \/ p \in overtaken /\ at[p] < checkStamp]_noticeVars

\* A line about an install is printed by the file that moved, and the install
\* took place (UPDATE.md: "written only from what moved, and only by the file
\* that moved").
NoticeIsTrue ==
    \A s \in printed : LET i == s.what.installed IN
                       i # Nil => copy[s.by] = i.path /\ <<i.path, i.to>> \in moved
=============================================================================
