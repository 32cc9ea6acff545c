---------------------------- MODULE NoticeProofs ----------------------------
(***************************************************************************)
(* Proofs about Notice, for any number of commands, copies and releases    *)
(* and any length of a day.                                                *)
(***************************************************************************)
EXTENDS Notice, TLAPS

(* Types.  Besides NoticeTypeOK: a command that has started has read the clock   *)
(* and the release of its file, and a check is that of a command that is   *)
(* over.                                                                   *)

StartedInv ==
    \A p \in Processes :
        /\ place[p] # "idle" => image[p] \in Releases
        /\ place[p] \in Busy => at[p] \in 1..MaxTime
        /\ check[p] # "none" => place[p] = "done"

TypeInv == NoticeTypeOK /\ StartedInv

\* The lines a command may choose.
LEMMA LinesAreStates ==
    /\ NoState \in States /\ NoState.installed = Nil
    /\ NoNotice \in NoticeStamps
    /\ \A i \in Installs : InstalledLine(i) \in States /\ InstalledLine(i).installed = i
    /\ \A v \in Releases \cup {NoRelease} : AvailableLine(v) \in States /\ AvailableLine(v).installed = Nil
  BY NoticeAssumption DEF NoState, States, InstalledLine, AvailableLine, NoNotice, NoticeStamps, NoStamp

\* What take_line leaves behind is of its type, and speaks of no install.
LEMMA LeavesNothing ==
    ASSUME NoticeTypeOK, NEW p \in Processes, LeaveTakeLine(p)
    PROVE  /\ read' \in [Processes -> States] /\ stamp' \in [Processes -> NoticeStamps]
           /\ line' \in [Processes -> States]
           /\ read'[p].installed = Nil /\ line'[p].installed = Nil
           /\ \A q \in Processes \ {p} : read'[q] = read[q] /\ line'[q] = line[q]
  BY LinesAreStates, ZenonT(60) DEF NoticeTypeOK, LeaveTakeLine

\* Every step keeps the types.
LEMMA TypeStep == ASSUME TypeInv, [NoticeNext]_noticeVars PROVE TypeInv'
<1> USE NoticeAssumption DEF TypeInv, NoticeTypeOK, StartedInv, GoTo, Return, Busy
<1>1. CASE Tick
  BY <1>1 DEF files, world, known, commandVars, Tick
<1>2. CASE SetClockBack
  BY <1>2 DEF files, world, known, commandVars, SetClockBack
<1>3. ASSUME NEW p \in Processes, NEW c \in Copies, AtStart(p, c) PROVE TypeInv'
  BY <1>3 DEF files, world, known, commandVars, AtStart
<1>4. ASSUME NEW p \in Processes, ReadState(p) PROVE TypeInv'
  BY <1>4 DEF files, world, known, commandVars, ReadState
<1>5. ASSUME NEW p \in Processes, ReadNoticeStamp(p) PROVE TypeInv'
  BY <1>5 DEF files, world, known, commandVars, ReadNoticeStamp
<1>6. ASSUME NEW p \in Processes, ChooseLine(p) PROVE TypeInv'
  <2>1. line' \in [Processes -> States] /\ read' \in [Processes -> States] /\ stamp' \in [Processes -> NoticeStamps]
    <3>1. /\ read[p].latest \in Releases \cup {NoRelease}
          /\ read[p].installed \in Installs \cup {Nil}
      BY DEF States
    <3> QED
      BY <1>6, <3>1, LinesAreStates, ZenonT(60) DEF ChooseLine, SpeaksOfInstall, LeaveTakeLine
  <2> QED
    BY <1>6, <2>1 DEF files, world, ChooseLine
<1>7. ASSUME NEW p \in Processes, NEW works \in BOOLEAN, WriteNoticeStamp(p, works) PROVE TypeInv'
  <2>1. noticeStamp' \in NoticeStamps
    BY <1>7 DEF WriteNoticeStamp, NoticeStamps, States
  <2>2. /\ read' \in [Processes -> States] /\ stamp' \in [Processes -> NoticeStamps]
        /\ line' \in [Processes -> States]
    BY <1>7, LeavesNothing DEF WriteNoticeStamp
  <2> QED
    BY <1>7, <2>1, <2>2 DEF world, known, commandVars, WriteNoticeStamp
<1>8. ASSUME NEW p \in Processes, PrintLine(p) PROVE TypeInv'
  <2>1. /\ read' \in [Processes -> States] /\ stamp' \in [Processes -> NoticeStamps]
        /\ line' \in [Processes -> States]
    BY <1>8, LeavesNothing DEF PrintLine
  <2>2. printed' \subseteq [by: Processes, what: States]
    BY <1>8 DEF PrintLine
  <2>3. UNCHANGED <<files, world, copy, image, at, check, held, moved, overtaken>> /\ place' = [place EXCEPT ![p] = "due"] /\ place[p] = "printing"
    BY <1>8 DEF PrintLine
  <2> QED
    BY <2>1, <2>2, <2>3 DEF files, world
<1>9. ASSUME NEW p \in Processes, FirstLook(p) PROVE TypeInv'
  BY <1>9 DEF files, world, known, commandVars, FirstLook
<1>10. ASSUME NEW p \in Processes, TryLock(p) PROVE TypeInv'
  BY <1>10 DEF files, world, known, commandVars, TryLock
<1>11. ASSUME NEW p \in Processes, LookAgain(p) PROVE TypeInv'
  BY <1>11 DEF files, world, known, commandVars, LookAgain
<1>12. ASSUME NEW p \in Processes, NEW works \in BOOLEAN, Claim(p, works) PROVE TypeInv'
  <2>1. checkLock' \in Processes \cup {Nil} /\ checkStamp' \in 0..MaxTime /\ overtaken' \subseteq Processes
    BY <1>12 DEF Claim
  <2>2. setBack' \in BOOLEAN
    <3>1. CASE works
      <4>1. setBack' = (at[p] > now)
        BY <1>12, <3>1 DEF Claim
      <4>2. (at[p] > now) \in BOOLEAN
        OBVIOUS
      <4> QED
        BY <4>1, <4>2
    <3>2. CASE ~works
      BY <1>12, <3>2 DEF Claim
    <3> QED
      BY <3>1, <3>2
  <2> QED
    BY <1>12, <2>1, <2>2 DEF known, commandVars, Claim
<1>13. ASSUME NEW p \in Processes, NEW works \in BOOLEAN, StartCheck(p, works) PROVE TypeInv'
  BY <1>13 DEF files, world, known, commandVars, StartCheck
<1>14. ASSUME NEW p \in Processes, KillCommand(p) PROVE TypeInv'
  <2>1. /\ read' \in [Processes -> States] /\ stamp' \in [Processes -> NoticeStamps]
        /\ line' \in [Processes -> States]
    BY <1>14, LeavesNothing DEF KillCommand
  <2>2. /\ UNCHANGED <<checkStamp, noticeStamp, state, world, copy, image, check, held, moved, printed, overtaken>>
        /\ place' = [place EXCEPT ![p] = "done"] /\ at' = [at EXCEPT ![p] = 0] /\ place[p] \in Busy
        /\ checkLock' \in Processes \cup {Nil}
    BY <1>14 DEF KillCommand
  <2> QED
    BY <2>1, <2>2 DEF world
<1>15. ASSUME NEW p \in Processes, CheckReadsState(p) PROVE TypeInv'
  BY <1>15 DEF files, world, known, commandVars, CheckReadsState
<1>16. ASSUME NEW p \in Processes, FetchFails(p) PROVE TypeInv'
  BY <1>16 DEF files, world, known, commandVars, FetchFails
<1>17. ASSUME NEW p \in Processes, NEW v \in Releases, NEW blocked \in BOOLEAN, NEW moves \in BOOLEAN, Fetch(p, v, blocked, moves) PROVE TypeInv'
  <2>1. held' \in [Processes -> States]
    <3>1. held[p].installed \in Installs \cup {Nil} /\ image[p] \in Releases /\ copy[p] \in Copies
      BY <1>17 DEF Fetch, States
    <3>2. [from |-> image[p], to |-> v, path |-> copy[p]] \in Installs
      BY <3>1 DEF Installs
    <3> QED
      BY <1>17, <3>1, <3>2 DEF Fetch, States
  <2>2. release' \in [Copies -> Releases] /\ moved' \subseteq Copies \X Releases
    BY <1>17 DEF Fetch
  <2> QED
    BY <1>17, <2>1, <2>2 DEF files, known, commandVars, Fetch
<1>18. ASSUME NEW p \in Processes, NEW works \in BOOLEAN, WriteState(p, works) PROVE TypeInv'
  BY <1>18, LinesAreStates DEF files, world, known, commandVars, WriteState
<1>19. ASSUME NEW p \in Processes, CheckDies(p) PROVE TypeInv'
  BY <1>19, LinesAreStates DEF files, world, known, commandVars, CheckDies
<1>20. CASE UNCHANGED noticeVars
  BY <1>20 DEF files, world, known, commandVars, noticeVars
<1> QED
  BY <1>1, <1>2, <1>3, <1>4, <1>5, <1>6, <1>7, <1>8, <1>9, <1>10, <1>11, <1>12, <1>13, <1>14, <1>15, <1>16, <1>17, <1>18, <1>19, <1>20 DEF NoticeNext, Command, Check

\* For every number of commands and copies: the types, and a command that has
\* started knows the clock and its release.
LEMMA TypesHold == NoticeSpec => []TypeInv
<1>1. NoticeInit => TypeInv
  <2> SUFFICES ASSUME NoticeInit PROVE TypeInv
    OBVIOUS
  <2>1. noticeStamp \in NoticeStamps /\ state \in States
    BY NoticeAssumption, LinesAreStates DEF NoticeInit, NoticeStamps, NoStamp
  <2>2. checkStamp \in 0..MaxTime /\ now \in 1..MaxTime
    BY NoticeAssumption DEF NoticeInit, NoStamp
  <2>3. at \in [Processes -> 0..MaxTime]
    BY NoticeAssumption DEF NoticeInit
  <2>4. /\ release \in [Copies -> Releases] /\ copy \in [Processes -> Copies]
        /\ image \in [Processes -> Releases \cup {NoRelease}]
    BY DEF NoticeInit
  <2>5. /\ read \in [Processes -> States] /\ line \in [Processes -> States] /\ held \in [Processes -> States]
        /\ stamp \in [Processes -> NoticeStamps]
    BY LinesAreStates DEF NoticeInit
  <2> QED
    BY <2>1, <2>2, <2>3, <2>4, <2>5 DEF NoticeInit, TypeInv, NoticeTypeOK, StartedInv, Busy
<1> QED
  BY <1>1, TypeStep, PTL DEF NoticeSpec

\* Type correctness, for every number of commands, copies and releases.
THEOREM TypeCorrect == NoticeSpec => []NoticeTypeOK
<1>1. TypeInv => NoticeTypeOK
  BY DEF TypeInv
<1> QED
  BY <1>1, TypesHold, PTL
-----------------------------------------------------------------------------
(* What a state says of an install is so, wherever a copy of that state    *)
(* is: in the file, in what a command read, in what a check holds and in   *)
(* the line a command is about to print.  A state is copied whole, and an  *)
(* install that took place stays one that did.                             *)

TookPlace(s) == s.installed # Nil => <<s.installed.path, s.installed.to>> \in moved

TruthInv ==
    /\ TookPlace(state)
    /\ \A p \in Processes :
          /\ TookPlace(read[p]) /\ TookPlace(held[p]) /\ TookPlace(line[p])
          /\ line[p].installed # Nil => line[p].installed.path = copy[p] /\ place[p] # "idle"
    /\ \A s \in printed :
          /\ s.by \in Processes /\ place[s.by] # "idle"
          /\ TookPlace(s.what)
          /\ s.what.installed # Nil => s.what.installed.path = copy[s.by]

\* To forget what was read, or a line, takes nothing from it.
LEMMA TruthKept ==
    ASSUME TruthInv, UNCHANGED <<state, copy, held, moved, printed>>,
           \A q \in Processes : /\ line'[q].installed # Nil => line'[q] = line[q]
                                /\ read'[q].installed # Nil => read'[q] = read[q],
           \A q \in Processes : place[q] # "idle" => place'[q] # "idle"
    PROVE  TruthInv'
<1>1. ASSUME NEW q \in Processes
      PROVE  /\ TookPlace(read[q])' /\ TookPlace(held[q])' /\ TookPlace(line[q])'
             /\ line'[q].installed # Nil => line'[q].installed.path = copy'[q] /\ place'[q] # "idle"
  BY DEF TruthInv, TookPlace
<1>2. ASSUME NEW s \in printed'
      PROVE  /\ s.by \in Processes /\ place'[s.by] # "idle" /\ TookPlace(s.what)'
             /\ s.what.installed # Nil => s.what.installed.path = copy'[s.by]
  BY <1>2 DEF TruthInv, TookPlace
<1>3. TookPlace(state)'
  BY DEF TruthInv, TookPlace
<1> QED
  BY <1>1, <1>2, <1>3 DEF TruthInv

\* Neither the stamp of the notice nor a kill says anything of an install.
LEMMA ForgettingStep ==
    ASSUME TypeInv, TruthInv, NEW p \in Processes,
           KillCommand(p) \/ \E works \in BOOLEAN : WriteNoticeStamp(p, works)
    PROVE  TruthInv'
<1>1. NoticeTypeOK
  BY DEF TypeInv
<1>2. \A q \in Processes : /\ line'[q].installed # Nil => line'[q] = line[q]
                           /\ read'[q].installed # Nil => read'[q] = read[q]
  BY <1>1, LeavesNothing DEF KillCommand, WriteNoticeStamp
<1>3. \A q \in Processes : place[q] # "idle" => place'[q] # "idle"
  BY <1>1 DEF KillCommand, WriteNoticeStamp, NoticeTypeOK, GoTo, Return
<1>4. UNCHANGED <<state, copy, held, moved, printed>>
  BY DEF KillCommand, WriteNoticeStamp, files
<1> QED
  BY <1>2, <1>3, <1>4, TruthKept

\* Every step copies a state or adds to what took place.
LEMMA TruthStep == ASSUME TypeInv, TypeInv', TruthInv, [NoticeNext]_noticeVars PROVE TruthInv'
<1> USE DEF TypeInv, NoticeTypeOK, TruthInv, TookPlace, GoTo, Return, Busy
<1>1. CASE Tick
  BY <1>1 DEF files, world, known, commandVars, Tick
<1>2. CASE SetClockBack
  BY <1>2 DEF files, world, known, commandVars, SetClockBack
<1>3. ASSUME NEW p \in Processes, NEW c \in Copies, AtStart(p, c) PROVE TruthInv'
  BY <1>3 DEF files, world, known, commandVars, AtStart
<1>4. ASSUME NEW p \in Processes, ReadState(p) PROVE TruthInv'
  BY <1>4 DEF files, world, known, commandVars, ReadState
<1>5. ASSUME NEW p \in Processes, ReadNoticeStamp(p) PROVE TruthInv'
  BY <1>5 DEF files, world, known, commandVars, ReadNoticeStamp
<1>6. ASSUME NEW p \in Processes, ChooseLine(p) PROVE TruthInv'
  <2>1. CASE SpeaksOfInstall(p)
    <3>1. read[p].installed \in Installs /\ read[p].installed # Nil /\ read[p].installed.path = copy[p]
      BY <2>1 DEF SpeaksOfInstall, States
    <3>2. line' = [line EXCEPT ![p] = InstalledLine(read[p].installed)] /\ place' = [place EXCEPT ![p] = "writing"]
      BY <1>6, <2>1 DEF ChooseLine
    <3>3. InstalledLine(read[p].installed).installed = read[p].installed
      BY <3>1, LinesAreStates
    <3>4. UNCHANGED <<state, copy, read, held, moved, printed>>
      BY <1>6, <2>1 DEF ChooseLine, files
    <3> QED
      BY <3>1, <3>2, <3>3, <3>4
  <2>2. CASE ~SpeaksOfInstall(p)
    <3>1. read[p].latest \in Releases \cup {NoRelease}
      BY DEF States
    <3>2. AvailableLine(read[p].latest).installed = Nil
      BY <3>1, LinesAreStates
    <3>3. /\ line'[p].installed = Nil /\ (read'[p].installed = Nil \/ read'[p] = read[p])
          /\ \A q \in Processes \ {p} : line'[q] = line[q] /\ read'[q] = read[q]
      BY <1>6, <2>2, <3>2, LeavesNothing DEF ChooseLine
    <3>4. \A q \in Processes : place'[q] = "idle" => place[q] = "idle"
      BY <1>6 DEF ChooseLine
    <3>5. UNCHANGED <<state, copy, held, moved, printed>>
      BY <1>6 DEF ChooseLine, files
    <3>6. ASSUME NEW q \in Processes
          PROVE  /\ TookPlace(read[q])' /\ TookPlace(held[q])' /\ TookPlace(line[q])'
                 /\ line'[q].installed # Nil => line'[q].installed.path = copy'[q] /\ place'[q] # "idle"
      <4>1. /\ line'[q].installed # Nil => line'[q] = line[q]
            /\ read'[q].installed # Nil => read'[q] = read[q]
        BY <3>3
      <4> QED
        BY <3>4, <3>5, <4>1
    <3>7. TookPlace(state)'
      BY <3>5
    <3> QED
      BY <3>4, <3>5, <3>6, <3>7
  <2> QED
    BY <2>1, <2>2
<1>7. ASSUME NEW p \in Processes, NEW works \in BOOLEAN, WriteNoticeStamp(p, works) PROVE TruthInv'
  <2> HIDE DEF TruthInv, TypeInv
  <2> QED
    BY <1>7, ForgettingStep
<1>8. ASSUME NEW p \in Processes, PrintLine(p) PROVE TruthInv'
  <2> DEFINE s == [by |-> p, what |-> line[p]]
  <2>1. s.by = p /\ s.what = line[p]
    OBVIOUS
  <2>2. printed' = printed \cup {s} /\ UNCHANGED <<state, copy, held, moved>>
    BY <1>8 DEF PrintLine, files
  <2>9. \A q \in Processes : /\ line'[q].installed # Nil => line'[q] = line[q]
                             /\ read'[q].installed # Nil => read'[q] = read[q]
    BY <1>8, LeavesNothing DEF PrintLine
  <2>3. \A q \in Processes : place[q] # "idle" => place'[q] # "idle"
    BY <1>8 DEF PrintLine
  <2>4. place'[p] # "idle"
    BY <1>8 DEF PrintLine
  <2>5. /\ s.what.installed # Nil => <<s.what.installed.path, s.what.installed.to>> \in moved'
        /\ s.by \in Processes
        /\ s.what.installed # Nil => s.what.installed.path = copy[s.by]
    BY <2>1, <2>2
  <2> HIDE DEF s
  <2>6. ASSUME NEW q \in printed'
        PROVE  /\ q.by \in Processes /\ place'[q.by] # "idle" /\ TookPlace(q.what)'
               /\ q.what.installed # Nil => q.what.installed.path = copy'[q.by]
    <3>1. CASE q = s
      BY <2>1, <2>2, <2>4, <2>5, <3>1
    <3>2. CASE q \in printed
      BY <2>2, <2>3, <3>2
    <3> QED
      BY <2>2, <2>6, <3>1, <3>2
  <2>7. ASSUME NEW q \in Processes
        PROVE  /\ TookPlace(read[q])' /\ TookPlace(held[q])' /\ TookPlace(line[q])'
               /\ line'[q].installed # Nil => line'[q].installed.path = copy'[q] /\ place'[q] # "idle"
    BY <2>2, <2>3, <2>9
  <2>8. TookPlace(state)'
    BY <2>2
  <2> QED
    BY <2>6, <2>7, <2>8
<1>9. ASSUME NEW p \in Processes, FirstLook(p) PROVE TruthInv'
  BY <1>9 DEF files, world, known, commandVars, FirstLook
<1>10. ASSUME NEW p \in Processes, TryLock(p) PROVE TruthInv'
  BY <1>10, SMTT(30) DEF files, world, known, commandVars, TryLock
<1>11. ASSUME NEW p \in Processes, LookAgain(p) PROVE TruthInv'
  BY <1>11, SMTT(30) DEF files, world, known, commandVars, LookAgain
<1>12. ASSUME NEW p \in Processes, NEW works \in BOOLEAN, Claim(p, works) PROVE TruthInv'
  BY <1>12, SMTT(30) DEF files, world, known, commandVars, Claim
<1>13. ASSUME NEW p \in Processes, NEW works \in BOOLEAN, StartCheck(p, works) PROVE TruthInv'
  BY <1>13 DEF files, world, known, commandVars, StartCheck
<1>14. ASSUME NEW p \in Processes, KillCommand(p) PROVE TruthInv'
  <2> HIDE DEF TruthInv, TypeInv
  <2> QED
    BY <1>14, ForgettingStep
<1>15. ASSUME NEW p \in Processes, CheckReadsState(p) PROVE TruthInv'
  BY <1>15, ZenonT(60) DEF files, world, known, commandVars, CheckReadsState
<1>16. ASSUME NEW p \in Processes, FetchFails(p) PROVE TruthInv'
  BY <1>16 DEF files, world, known, commandVars, FetchFails
<1>17. ASSUME NEW p \in Processes, NEW v \in Releases, NEW blocked \in BOOLEAN, NEW moves \in BOOLEAN, Fetch(p, v, blocked, moves) PROVE TruthInv'
  <2> DEFINE i == [from |-> image[p], to |-> v, path |-> copy[p]]
             installs == v > image[p] /\ ~blocked /\ moves /\ release[copy[p]] # v
  <2>1. moved \subseteq moved'
    BY <1>17 DEF Fetch
  <2>2. UNCHANGED <<state, copy, read, line, printed, place>>
    BY <1>17 DEF Fetch, files, known, commandVars
  <2>3. \A q \in Processes \ {p} : held'[q] = held[q]
    BY <1>17 DEF Fetch
  <2>4. CASE installs
    <3>1. held'[p].installed = i /\ <<copy[p], v>> \in moved'
      BY <1>17, <2>4 DEF Fetch
    <3>2. i.path = copy[p] /\ i.to = v
      OBVIOUS
    <3> HIDE DEF i
    <3> QED
      BY <2>1, <2>2, <2>3, <3>1, <3>2, ZenonT(60)
  <2>5. CASE ~installs
    <3>1. held'[p].installed = held[p].installed
      BY <1>17, <2>5 DEF Fetch
    <3> QED
      BY <2>1, <2>2, <2>3, <3>1, ZenonT(60)
  <2> QED
    BY <2>4, <2>5
<1>18. ASSUME NEW p \in Processes, NEW works \in BOOLEAN, WriteState(p, works) PROVE TruthInv'
  <2>1. /\ \A q \in Processes : held'[q].installed # Nil => held'[q] = held[q]
        /\ state' = state \/ state' = held[p]
    BY <1>18, LinesAreStates DEF WriteState, files
  <2>2. UNCHANGED <<copy, read, line, place, moved, printed>>
    BY <1>18 DEF WriteState, known, commandVars
  <2> QED
    BY <2>1, <2>2, ZenonT(60)
<1>19. ASSUME NEW p \in Processes, CheckDies(p) PROVE TruthInv'
  <2>1. /\ \A q \in Processes : held'[q].installed # Nil => held'[q] = held[q]
        /\ state' = state \/ state' = held[p]
    BY <1>19, LinesAreStates DEF CheckDies, files
  <2>2. UNCHANGED <<copy, read, line, place, moved, printed>>
    BY <1>19 DEF CheckDies, known, commandVars
  <2> QED
    BY <2>1, <2>2, ZenonT(60)
<1>20. CASE UNCHANGED noticeVars
  BY <1>20 DEF files, world, known, commandVars, noticeVars
<1> HIDE DEF TypeInv, NoticeTypeOK, TruthInv
<1> QED
  BY <1>1, <1>2, <1>3, <1>4, <1>5, <1>6, <1>7, <1>8, <1>9, <1>10, <1>11, <1>12, <1>13, <1>14, <1>15, <1>16, <1>17, <1>18, <1>19, <1>20 DEF NoticeNext, Command, Check

\* A line about an install is printed by the file that moved, and it moved,
\* whatever is killed when and however many copies and commands there are.
THEOREM NoticeTrue == NoticeSpec => []NoticeIsTrue
<1>1. NoticeInit => TruthInv
  BY DEF NoticeInit, TruthInv, TookPlace, NoState
<1>2. TypeInv /\ TypeInv' /\ TruthInv /\ [NoticeNext]_noticeVars => TruthInv'
  BY TruthStep
<1>3. TruthInv => NoticeIsTrue
  BY DEF TruthInv, TookPlace, NoticeIsTrue
<1> QED
  BY <1>1, <1>2, <1>3, TypesHold, PTL DEF NoticeSpec
-----------------------------------------------------------------------------
(* The daily claim.  The stamp is read again and written under one lock,   *)
(* so that what a command found of it is so when it claims.  A stamp is    *)
(* ahead of the clock only if the clock was set back, and ahead of what a  *)
(* command read only if it was set back or another claimed meanwhile.      *)

LockPcs == {"locked", "claiming", "spawning"}

ClaimInv ==
    /\ \A p \in Processes :
          /\ place[p] \in LockPcs => checkLock = p
          /\ place[p] \in Busy /\ checkStamp > at[p] => setBack \/ p \in overtaken
          /\ place[p] = "claiming" => ADayHasPassed(checkStamp, at[p])
    /\ checkStamp > now => setBack

\* Every step keeps ClaimInv, whenever the clock moves.
LEMMA ClaimStep == ASSUME TypeInv, ClaimInv, [NoticeNext]_noticeVars PROVE ClaimInv'
<1> USE NoticeAssumption, NilAssumption DEF TypeInv, NoticeTypeOK, ClaimInv, LockPcs, GoTo, Return, Busy
<1>1. CASE Tick
  BY <1>1 DEF files, known, commandVars, Tick
<1>2. CASE SetClockBack
  BY <1>2 DEF files, known, commandVars, SetClockBack
<1>3. ASSUME NEW p \in Processes, NEW c \in Copies, AtStart(p, c) PROVE ClaimInv'
  BY <1>3 DEF files, world, known, commandVars, AtStart
<1>4. ASSUME NEW p \in Processes, ReadState(p) PROVE ClaimInv'
  BY <1>4 DEF files, world, known, commandVars, ReadState
<1>5. ASSUME NEW p \in Processes, ReadNoticeStamp(p) PROVE ClaimInv'
  BY <1>5 DEF files, world, known, commandVars, ReadNoticeStamp
<1>6. ASSUME NEW p \in Processes, ChooseLine(p) PROVE ClaimInv'
  BY <1>6 DEF files, world, known, commandVars, ChooseLine
<1>7. ASSUME NEW p \in Processes, NEW works \in BOOLEAN, WriteNoticeStamp(p, works) PROVE ClaimInv'
  BY <1>7 DEF files, world, known, commandVars, WriteNoticeStamp
<1>8. ASSUME NEW p \in Processes, PrintLine(p) PROVE ClaimInv'
  BY <1>8 DEF files, world, known, commandVars, PrintLine
<1>9. ASSUME NEW p \in Processes, FirstLook(p) PROVE ClaimInv'
  BY <1>9 DEF files, world, known, commandVars, FirstLook
<1>10. ASSUME NEW p \in Processes, TryLock(p) PROVE ClaimInv'
  BY <1>10 DEF files, world, known, commandVars, TryLock
<1>11. ASSUME NEW p \in Processes, LookAgain(p) PROVE ClaimInv'
  BY <1>11 DEF files, world, known, commandVars, LookAgain
<1>12. ASSUME NEW p \in Processes, NEW works \in BOOLEAN, Claim(p, works) PROVE ClaimInv'
  BY <1>12 DEF files, world, known, commandVars, Claim
<1>13. ASSUME NEW p \in Processes, NEW works \in BOOLEAN, StartCheck(p, works) PROVE ClaimInv'
  BY <1>13 DEF files, world, known, commandVars, StartCheck
<1>14. ASSUME NEW p \in Processes, KillCommand(p) PROVE ClaimInv'
  BY <1>14 DEF files, world, known, commandVars, KillCommand
<1>15. ASSUME NEW p \in Processes, CheckReadsState(p) PROVE ClaimInv'
  BY <1>15 DEF files, world, known, commandVars, CheckReadsState
<1>16. ASSUME NEW p \in Processes, FetchFails(p) PROVE ClaimInv'
  BY <1>16 DEF files, world, known, commandVars, FetchFails
<1>17. ASSUME NEW p \in Processes, NEW v \in Releases, NEW blocked \in BOOLEAN, NEW moves \in BOOLEAN, Fetch(p, v, blocked, moves) PROVE ClaimInv'
  BY <1>17 DEF files, world, known, commandVars, Fetch
<1>18. ASSUME NEW p \in Processes, NEW works \in BOOLEAN, WriteState(p, works) PROVE ClaimInv'
  BY <1>18 DEF files, world, known, commandVars, WriteState
<1>19. ASSUME NEW p \in Processes, CheckDies(p) PROVE ClaimInv'
  BY <1>19 DEF files, world, known, commandVars, CheckDies
<1>20. CASE UNCHANGED noticeVars
  BY <1>20 DEF files, world, known, commandVars, noticeVars
<1> HIDE DEF TypeInv, NoticeTypeOK, ClaimInv
<1> QED
  BY <1>1, <1>2, <1>3, <1>4, <1>5, <1>6, <1>7, <1>8, <1>9, <1>10, <1>11, <1>12, <1>13, <1>14, <1>15, <1>16, <1>17, <1>18, <1>19, <1>20 DEF NoticeNext, Command, Check

\* For any number of commands and any movement of the clock: the day is claimed
\* again only by a command that was under way when another claimed it, and had
\* read an earlier second.
THEOREM OvertakenOnly == NoticeSpec => OnlyTheOvertakenCheckAgain
<1>1. NoticeInit => ClaimInv
  BY NoticeAssumption DEF NoticeInit, ClaimInv, LockPcs, Busy, NoStamp
<1>2. TypeInv /\ ClaimInv /\ [NoticeNext]_noticeVars => ClaimInv'
  BY ClaimStep
<1>3. TypeInv /\ ClaimInv =>
         \A p \in Processes : Claims(p) =>
             \/ checkStamp = NoStamp \/ setBack \/ at[p] >= checkStamp + Day
             \/ p \in overtaken /\ at[p] < checkStamp
  BY NoticeAssumption DEF TypeInv, NoticeTypeOK, ClaimInv, ADayHasPassed, Busy, NoStamp, Claims
<1> QED
  BY <1>1, <1>2, <1>3, TypesHold, PTL DEF NoticeSpec, OnlyTheOvertakenCheckAgain

=============================================================================
