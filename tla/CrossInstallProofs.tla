------------------------- MODULE CrossInstallProofs -------------------------
(***************************************************************************)
(* Proofs about CrossInstall, for any number of attempts, any staged tree  *)
(* and any prefix: what is replaced, that an attempt that passes has       *)
(* installed everything, and that two attempts never mix.  The invariant   *)
(* says which entries an attempt has published so far, and that an attempt *)
(* owns a file only if it owns every file before it: exclusive creation in *)
(* one order makes the first file a lock.  Whoever writes logs has         *)
(* published every file, so it is the only attempt that writes any.        *)
(***************************************************************************)
EXTENDS CrossInstall, TLAPS

Index == 1 .. Len(Entries)

\* What the entries before at[i] hold while i publishes.
PrefixPublished ==
    \A i \in Attempts : pc[i] \in {"creating", "copying"} =>
        \A n \in Index : n < at[i] /\ Entries[n] \in Files =>
            fs[Entries[n]] = File("whole", i)

CopyOpen ==
    \A i \in Attempts : pc[i] = "copying" =>
        /\ at[i] \in Index /\ Entries[at[i]] \in Files
        /\ fs[Entries[at[i]]] = File("partial", i)

AllPublished ==
    \A i \in Attempts :
        pc[i] \in {"logging", "linked", "cleaned", "relinked", "recording", "passed"} =>
            Published(i)

\* The files of an attempt are the first ones.
FirstFiles ==
    \A i \in Attempts : \A m, n \in Index :
        /\ m < n /\ Entries[m] \in Files /\ Entries[n] \in Files
        /\ fs[Entries[n]].owner = i
        => fs[Entries[m]].owner = i

Gates ==
    \A i \in Attempts :
        /\ pc[i] \in {"linked", "cleaned", "relinked", "recording", "passed"} =>
              "installed" \in links[i]
        /\ pc[i] \in {"cleaned", "relinked", "recording", "passed"} => ~workspace[i]
        /\ pc[i] \in {"relinked", "recording"} => "again" \in links[i]
        /\ pc[i] = "recording" => "moved" \in links[i]
        /\ pc[i] = "passed" /\ i \in Qualifying =>
              {"again", "moved"} \subseteq links[i]

\* What a failure would find: the workspace, until consumers were linked, and
\* no verdict but the one after the last link.
Evidence(i) ==
    /\ pc[i] = "new" => selected[i] = None /\ dispositions[i] = None
    /\ pc[i] \in {"checked", "safe", "configured", "checking", "creating",
                  "copying", "logging", "linked"} =>
          workspace[i] /\ dispositions[i] = None
    /\ pc[i] \in {"cleaned", "relinked"} => dispositions[i] = None
    /\ pc[i] = "failed" =>
          /\ workspace[i] \/ links[i] # {} \/ selected[i] = None
          /\ dispositions[i] # "PASS"

\* A log is nobody's, another program's, or of an attempt that has published;
\* one that was there before the attempts keeps them all from starting.
LateOwned(p) ==
    \/ fs[p] = Absent
    \/ fs[p].owner = "other"
    \/ \E j \in Attempts : fs[p] = File("whole", j) /\ Published(j)
    \/ fs[p].owner = "core" /\ \A i \in Attempts : pc[i] \in {"new", "failed"}

\* The directories of logs that an attempt has made, and the logs in them.
LateKept(i) ==
    /\ pc[i] = "logging" => fs["consumers-installed"] = File("directory", i)
    /\ pc[i] \in {"linked", "cleaned", "relinked", "recording", "passed"} =>
          fs["consumers-installed/log"] = File("whole", i)
    /\ pc[i] = "recording" =>
          /\ at[i] \in 1 .. 5
          /\ at[i] > 1 => fs["qualification-installed"] = File("directory", i)
          /\ at[i] > 2 => fs["qualification-installed/log"] = File("whole", i)
          /\ at[i] > 3 => fs["qualification-relocated"] = File("directory", i)
          /\ at[i] > 4 => fs["qualification-relocated/log"] = File("whole", i)
    /\ pc[i] = "passed" => \A p \in LogsOf(i) : fs[p] = File("whole", i)
    /\ pc[i] \in {"cleaned", "relinked", "recording"} => i \in Qualifying

LateInv == (\A p \in LateFiles : LateOwned(p)) /\ \A i \in Attempts : LateKept(i)

\* A log is written: by whom, and where it stands.
WritesLog(i, p) ==
    /\ p \in LateFiles /\ fs'[p] = File("whole", i)
    /\ \A q \in Paths \ {p} : fs'[q] = fs[q]
    /\ \/ /\ Link(i) /\ p = "consumers-installed/log"
          /\ pc[i] = "logging" /\ pc'[i] = "linked"
       \/ /\ CopyLogs(i) /\ p = Records[at[i]] /\ at[i] \in {2, 4}
          /\ pc[i] = "recording" /\ pc'[i] = "recording" /\ at'[i] = at[i] + 1
       \/ /\ Record(i) /\ p = "dispositions" /\ at[i] > 4
          /\ pc[i] = "recording" /\ pc'[i] = "passed"

\* A file is absent, or stays what it is, or is completed by its creator, or
\* is a log that is written.
Grows ==
    \A p \in Paths :
        \/ fs'[p] = fs[p]
        \/ fs[p] = Absent
        \/ \E i \in Attempts : WritesLog(i, p)
        \/ \E i \in Attempts :
              /\ pc[i] = "copying" /\ pc'[i] = "creating"
              /\ fs[p] = File("partial", i) /\ fs'[p] = File("whole", i)

\* So is a log: another program may have made it.
LogsGrow ==
    \A p \in LateFiles :
        \/ fs'[p] = fs[p]
        \/ fs[p] = Absent /\ fs'[p].owner = "other"
        \/ \E i \in Attempts : WritesLog(i, p)

IInv ==
    /\ TypeOK /\ PrefixPublished /\ CopyOpen /\ AllPublished /\ FirstFiles
    /\ Gates /\ ConfigurationContained /\ LateInv
    /\ \A i \in Attempts : Evidence(i)
-----------------------------------------------------------------------------
LEMMA PathFacts ==
    /\ \A n \in Index : Entries[n] \in Staged
    /\ \A p \in Staged : \E n \in Index : p = Entries[n]
    /\ Staged \subseteq Paths /\ Late \subseteq Paths /\ Staged \cap Late = {}
    /\ Files \subseteq Staged /\ Files # {}
    /\ Len(Entries) \in Nat
  BY InstallAssumption DEF Index, Staged, Paths, Files

\* The records in their order, and what is a directory of them.
LEMMA RecordFacts ==
    /\ Len(Records) = 4
    /\ Records[1] = "qualification-installed" /\ Records[2] = "qualification-installed/log"
    /\ Records[3] = "qualification-relocated" /\ Records[4] = "qualification-relocated/log"
    /\ \A n \in 1 .. 4 : Records[n] \in Late
    /\ \A n \in 1 .. 4 : Records[n] \in LogDirectories => n \in {1, 3}
    /\ \A n \in 1 .. 4 : Records[n] \in LateFiles => n \in {2, 4}
    /\ LogDirectories \cap LateFiles = {} /\ "consumers-installed" \in LogDirectories
    /\ "consumers-installed/log" \in LateFiles /\ "dispositions" \in LateFiles
    /\ LogDirectories \subseteq Late /\ LateFiles \subseteq Late
  BY DEF Records, Late, LogDirectories, LateFiles

LEMMA TypeInit == Init => TypeOK
  <1> SUFFICES ASSUME Init PROVE TypeOK
      OBVIOUS
  <1>1. fs \in [Paths -> Contents]
        BY InstallAssumption DEF Init
  <1>2. at \in [Attempts -> Nat \ {0}]
        BY PathFacts DEF Init
  <1>3. faults \in 0 .. MaxFaults
        BY InstallAssumption DEF Init
  <1> QED
      BY <1>1, <1>2, <1>3 DEF Init, TypeOK, Ended

LEMMA TypeStep == TypeOK /\ [Next]_vars => TypeOK'
  <1> SUFFICES ASSUME TypeOK, [Next]_vars PROVE TypeOK'
      OBVIOUS
  <1> USE PathFacts, InstallAssumption DEF TypeOK, Go, Ended
  <1>0. Absent \in Contents /\ \A i \in Owners : /\ File("directory", i) \in Contents
                                                 /\ File("partial", i) \in Contents
                                                 /\ File("whole", i) \in Contents
        BY DEF Absent, File, Contents
  <1>00. \A p, c : c \in Contents => [fs EXCEPT ![p] = c] \in [Paths -> Contents]
        OBVIOUS
  <1>1. ASSUME NEW i \in Attempts, Install(i) PROVE TypeOK'
    <2> i \in Owners
        BY DEF Owners
    <2>1. CASE Start(i)
          BY <2>1 DEF Start
    <2>2. CASE SafeAgain(i)
          BY <2>2 DEF SafeAgain
    <2>3. CASE Override(i)
          BY <2>3 DEF Override
    <2>4. CASE Configure(i)
          BY <2>4 DEF Configure
    <2>5. CASE Stage(i)
          BY <2>5 DEF Stage
    <2>6. CASE Preflight(i)
          BY <2>6 DEF Preflight
    <2>7. CASE Preflighted(i)
          BY <2>7 DEF Preflighted
    <2>8. CASE MakeDirectory(i)
          BY <2>8, <1>0 DEF MakeDirectory
    <2>9. CASE OpenFile(i)
          BY <2>9, <1>0 DEF OpenFile
    <2>10. CASE CopyFile(i)
      <3>1. fs' \in [Paths -> Contents] /\ at' \in [Attempts -> Nat \ {0}]
            BY <2>10, <1>0, <1>00 DEF CopyFile
      <3> QED
          BY <2>10, <3>1 DEF CopyFile
    <2>11. CASE Link(i)
          BY <2>11, <1>0 DEF Link, Write
    <2>12. CASE Clean(i)
          BY <2>12 DEF Clean
    <2>13. CASE LinkAgain(i)
          BY <2>13 DEF LinkAgain
    <2>14. CASE LinkMoved(i)
          BY <2>14 DEF LinkMoved
    <2>15. CASE Record(i)
          BY <2>15, <1>0 DEF Record, Write
    <2>16. CASE Refuse(i)
          BY <2>16 DEF Refuse, Raise
    <2>17. CASE OpenLogs(i)
          BY <2>17, <1>0 DEF OpenLogs, Create
    <2>18. CASE CopyLogs(i)
      <3> DEFINE p == Records[at[i]]
      <3>0. fs' = [fs EXCEPT ![p] = File("directory", i)] \/ fs' = [fs EXCEPT ![p] = File("whole", i)]
            BY <2>18 DEF CopyLogs, Create, Write
      <3>1. fs' \in [Paths -> Contents]
        <4> HIDE DEF p
        <4>1. File("directory", i) \in Contents /\ File("whole", i) \in Contents
              BY <1>0
        <4>2. \A c : c \in Contents => [fs EXCEPT ![p] = c] \in [Paths -> Contents]
              BY <1>00
        <4>3. /\ [fs EXCEPT ![p] = File("directory", i)] \in [Paths -> Contents]
              /\ [fs EXCEPT ![p] = File("whole", i)] \in [Paths -> Contents]
          <5> HIDE DEF TypeOK
          <5> QED
              BY <4>1, <4>2
        <4> QED
            BY <3>0, <4>3
      <3>2. at' \in [Attempts -> Nat \ {0}]
            BY <2>18 DEF CopyLogs
      <3> QED
          BY <2>18, <3>1, <3>2 DEF CopyLogs
    <2> QED
        BY <1>1, <2>1, <2>2, <2>3, <2>4, <2>5, <2>6, <2>7, <2>8, <2>9, <2>10,
           <2>11, <2>12, <2>13, <2>14, <2>15, <2>16, <2>17, <2>18 DEF Install
  <1>2. ASSUME NEW i \in Attempts, Fail(i) PROVE TypeOK'
        BY <1>2 DEF Fail, Raise
  <1>3. ASSUME NEW i \in Attempts, Crash(i) PROVE TypeOK'
        BY <1>3 DEF Crash
  <1>4. ASSUME NEW p \in Paths, OtherWrites(p) PROVE TypeOK'
    <2>1. "other" \in Owners
          BY DEF Owners
    <2> QED
        BY <1>4, <2>1, <1>0 DEF OtherWrites
  <1>5. CASE UNCHANGED vars
        BY <1>5 DEF vars
  <1> QED
      BY <1>1, <1>2, <1>3, <1>4, <1>5 DEF Next
-----------------------------------------------------------------------------
LEMMA FileFacts ==
    /\ \A s, t, i, j : File(s, i) = File(t, j) => s = t /\ i = j
    /\ \A i : File("whole", i) # Absent /\ File("partial", i) # Absent
    /\ \A i : File("directory", i) # Absent
    /\ \A s, i : File(s, i).owner = i /\ File(s, i).state = s
  BY DEF File, Absent

LEMMA GrowsStep == TypeOK /\ CopyOpen /\ [Next]_vars => Grows /\ LogsGrow
  <1> SUFFICES ASSUME TypeOK, CopyOpen, [Next]_vars PROVE Grows /\ LogsGrow
      OBVIOUS
  <1> USE PathFacts, RecordFacts DEF TypeOK, Grows, LogsGrow
  <1>1. CASE UNCHANGED fs
        BY <1>1
  <1>2. ASSUME NEW i \in Attempts, MakeDirectory(i) PROVE Grows /\ LogsGrow
        BY <1>2 DEF MakeDirectory, Index
  <1>3. ASSUME NEW i \in Attempts, OpenFile(i) PROVE Grows /\ LogsGrow
        BY <1>3 DEF OpenFile, Index
  <1>4. ASSUME NEW i \in Attempts, CopyFile(i) PROVE Grows /\ LogsGrow
    <2> DEFINE p == Entries[at[i]]
    <2>1. p \in Staged /\ fs[p] = File("partial", i)
          BY <1>4 DEF CopyFile, CopyOpen, Go
    <2>2. fs' = [fs EXCEPT ![p] = File("whole", i)]
          BY <1>4 DEF CopyFile
    <2>3. /\ pc[i] = "copying" /\ pc'[i] = "creating"
          /\ fs[p] = File("partial", i) /\ fs'[p] = File("whole", i)
          BY <1>4, <2>1, <2>2 DEF CopyFile, Go
    <2>4. \A q \in Paths \ {p} : fs'[q] = fs[q]
          BY <2>2
    <2> HIDE DEF p
    <2> QED
        BY <2>1, <2>3, <2>4
  <1>5. ASSUME NEW p \in Paths, OtherWrites(p) PROVE Grows /\ LogsGrow
    <2>1. \A q \in Paths : fs'[q] = IF q = p THEN File("whole", "other")
                                    ELSE IF q \in Above(p) /\ fs[q] = Absent
                                         THEN File("directory", "other") ELSE fs[q]
          BY <1>5 DEF OtherWrites
    <2>2. fs[p] = Absent
          BY <1>5 DEF OtherWrites
    <2>4. File("whole", "other").owner = "other" /\ File("directory", "other").owner = "other"
          BY FileFacts
    <2>3. \A q \in Paths : fs'[q] = fs[q] \/ (fs[q] = Absent /\ fs'[q].owner = "other")
          BY <2>1, <2>2, <2>4, Zenon
    <2> QED
        BY <2>3
  <1>6. ASSUME NEW i \in Attempts, NEW p \in LateFiles, WritesLog(i, p)
        PROVE  Grows /\ LogsGrow
    <2>1. \A q \in Paths \ {p} : fs'[q] = fs[q]
          BY <1>6 DEF WritesLog
    <2> QED
        BY <1>6, <2>1
  <1>7. ASSUME NEW i \in Attempts, NEW d \in LogDirectories, fs[d] = Absent, Create(i, d)
        PROVE  Grows /\ LogsGrow
    <2>1. \A q \in Paths \ {d} : fs'[q] = fs[q]
          BY <1>7 DEF Create
    <2> QED
        BY <1>7, <2>1
  <1>8. ASSUME NEW i \in Attempts, NEW p \in LateFiles, Write(i, p)
        PROVE  fs'[p] = File("whole", i) /\ \A q \in Paths \ {p} : fs'[q] = fs[q]
        BY <1>8 DEF Write
  <1>9. ASSUME NEW i \in Attempts, Link(i) PROVE Grows /\ LogsGrow
    <2>1. WritesLog(i, "consumers-installed/log")
          BY <1>8, <1>9 DEF Link, WritesLog, Go
    <2> QED
        BY <1>6, <2>1
  <1>10. ASSUME NEW i \in Attempts, Record(i) PROVE Grows /\ LogsGrow
    <2>1. at[i] > 4
          BY <1>10 DEF Record
    <2>2. WritesLog(i, "dispositions")
          BY <1>8, <1>10, <2>1 DEF Record, WritesLog, Go
    <2> QED
        BY <1>6, <2>2
  <1>11. ASSUME NEW i \in Attempts, CopyLogs(i) PROVE Grows /\ LogsGrow
    <2> DEFINE p == Records[at[i]]
    <2>1. /\ at[i] \in 1 .. 4 /\ pc[i] = "recording" /\ pc' = pc
          /\ at' = [at EXCEPT ![i] = @ + 1]
          BY <1>11 DEF CopyLogs
    <2>2. CASE p \in LogDirectories /\ fs[p] = Absent /\ Create(i, p)
          BY <1>7, <2>2
    <2>3. CASE p \in LateFiles /\ Write(i, p)
      <3>1. at[i] \in {2, 4} /\ at'[i] = at[i] + 1
            BY <2>1, <2>3
      <3>2. WritesLog(i, p)
            BY <1>8, <1>11, <2>1, <2>3, <3>1 DEF WritesLog
      <3> QED
          BY <1>6, <2>3, <3>2
    <2> QED
        BY <1>11, <2>2, <2>3 DEF CopyLogs
  <1>12. ASSUME NEW i \in Attempts, OpenLogs(i) PROVE Grows /\ LogsGrow
        BY <1>7, <1>12 DEF OpenLogs
  <1> QED
      BY <1>1, <1>2, <1>3, <1>4, <1>5, <1>9, <1>10, <1>11, <1>12
      DEF Next, Install, vars, Start, SafeAgain, Override, Configure, Stage,
          Preflight, Preflighted, Clean, LinkAgain, LinkMoved,
          Refuse, Raise, Fail, Crash

\* What an attempt has completed stays.
LEMMA WholeStays ==
    ASSUME TypeOK, Grows, NEW p \in Staged, NEW i, fs[p] = File("whole", i)
    PROVE  fs'[p] = File("whole", i)
  <1>1. p \in Paths /\ p \notin LateFiles
        BY PathFacts, RecordFacts
  <1> QED
      BY <1>1, FileFacts DEF Grows, WritesLog

\* Where an attempt stands changes by its own steps only.
LEMMA Bystander ==
    ASSUME TypeOK, [Next]_vars, NEW j \in Attempts,
           ~(Install(j) \/ Fail(j) \/ Crash(j))
    PROVE  /\ pc'[j] = pc[j] /\ at'[j] = at[j]
           /\ workspace'[j] = workspace[j] /\ links'[j] = links[j]
           /\ selected'[j] = selected[j] /\ dispositions'[j] = dispositions[j]
  BY DEF TypeOK, Next, Install, Start, SafeAgain, Override, Configure, Stage,
         Preflight, Preflighted, MakeDirectory, OpenFile, CopyFile, OpenLogs, Link,
         Clean, LinkAgain, LinkMoved, CopyLogs, Record, Refuse, Raise, Fail, Crash, Go, OtherWrites,
         vars

\* What the parts of the invariant say of one attempt.
PublishedBy(j) ==
    /\ pc[j] \in {"creating", "copying"} =>
          \A n \in Index : n < at[j] /\ Entries[n] \in Files =>
              fs[Entries[n]] = File("whole", j)
    /\ pc[j] = "copying" =>
          /\ at[j] \in Index /\ Entries[at[j]] \in Files
          /\ fs[Entries[at[j]]] = File("partial", j)
    /\ pc[j] \in {"logging", "linked", "cleaned", "relinked", "recording", "passed"} =>
          Published(j)

LEMMA PublishedByAll ==
    PrefixPublished /\ CopyOpen /\ AllPublished <=> \A j \in Attempts : PublishedBy(j)
  BY DEF PrefixPublished, CopyOpen, AllPublished, PublishedBy

\* An attempt that does not move keeps what it has published.
LEMMA PublishedStays ==
    ASSUME TypeOK, Grows, NEW j \in Attempts, PublishedBy(j),
           pc'[j] = pc[j], at'[j] = at[j]
    PROVE  PublishedBy(j)'
  <1> USE PathFacts DEF Files
  <1>1. ASSUME NEW p \in Staged, fs[p] = File("whole", j) PROVE fs'[p] = File("whole", j)
        BY <1>1, WholeStays
  <1>2. ASSUME NEW p \in Staged, fs[p] = File("partial", j), pc[j] = "copying"
        PROVE  fs'[p] = File("partial", j)
    <2>1. p \in Paths /\ p \notin LateFiles
          BY RecordFacts
    <2> QED
        BY <1>2, <2>1, FileFacts DEF Grows, WritesLog
  <1> QED
      BY <1>1, <1>2 DEF PublishedBy, Published

LEMMA PublishedMoves ==
    ASSUME TypeOK, Grows, NEW j \in Attempts, PublishedBy(j),
           Install(j) \/ Fail(j) \/ Crash(j)
    PROVE  PublishedBy(j)'
  <1> USE PathFacts DEF TypeOK, Go, Files
  <1>0. ASSUME fs' = fs, at' = at,
               pc'[j] \notin {"creating", "copying", "logging", "linked", "cleaned",
                              "relinked", "recording", "passed"}
        PROVE  PublishedBy(j)'
        BY <1>0 DEF PublishedBy, Published
  <1>1. CASE \/ Start(j) \/ SafeAgain(j) \/ Override(j) \/ Configure(j)
             \/ Refuse(j) \/ Fail(j) \/ Crash(j)
        BY <1>0, <1>1 DEF Start, SafeAgain, Override, Configure, Refuse, Fail,
           Raise, Crash
  <1>2. CASE Stage(j)
        BY <1>2 DEF Stage, PublishedBy
  <1>3. CASE Preflight(j)
        BY <1>3 DEF Preflight, PublishedBy
  <1>4. CASE Preflighted(j)
        BY <1>4 DEF Preflighted, PublishedBy, Index
  <1>5. CASE MakeDirectory(j)
    <2>1. Entries[at[j]] \in Directories
          BY <1>5 DEF MakeDirectory
    <2>2. \A p \in Staged : fs[p] = File("whole", j) => fs'[p] = File("whole", j)
          BY WholeStays
    <2>3. pc[j] = "creating" /\ pc'[j] = "creating" /\ at'[j] = at[j] + 1
          BY <1>5 DEF MakeDirectory
    <2> QED
        BY <2>1, <2>2, <2>3 DEF PublishedBy, Index
  <1>6. CASE OpenFile(j)
    <2>1. \A p \in Staged : fs[p] = File("whole", j) => fs'[p] = File("whole", j)
          BY WholeStays
    <2>2. /\ pc[j] = "creating" /\ pc'[j] = "copying" /\ at'[j] = at[j]
          /\ at[j] \in Index /\ Entries[at[j]] \in Files
          /\ fs'[Entries[at[j]]] = File("partial", j)
          BY <1>6 DEF OpenFile, Index
    <2> QED
        BY <2>1, <2>2 DEF PublishedBy, Index
  <1>7. CASE CopyFile(j)
    <2>1. \A p \in Staged : fs[p] = File("whole", j) => fs'[p] = File("whole", j)
          BY WholeStays
    <2>2. /\ pc[j] = "copying" /\ pc'[j] = "creating" /\ at'[j] = at[j] + 1
          /\ at[j] \in Index
          BY <1>7 DEF CopyFile, PublishedBy
    <2>3. fs'[Entries[at[j]]] = File("whole", j)
          BY <1>7, <2>2 DEF CopyFile, Index
    <2> QED
        BY <2>1, <2>2, <2>3 DEF PublishedBy, Index
  <1>8. CASE OpenLogs(j)
    <2>1. /\ pc[j] = "creating" /\ pc'[j] = "logging" /\ at[j] > Len(Entries)
          BY <1>8 DEF OpenLogs
    <2>2. \A p \in Files : fs[p] = File("whole", j)
          BY <2>1 DEF PublishedBy, Index
    <2>3. \A p \in Files : fs'[p] = File("whole", j)
          BY <2>2, WholeStays
    <2> QED
        BY <2>1, <2>3 DEF PublishedBy, Published
  <1>9. CASE Link(j) \/ Clean(j) \/ LinkAgain(j) \/ LinkMoved(j) \/ CopyLogs(j) \/ Record(j)
    <2>1. /\ pc[j] \in {"logging", "linked", "cleaned", "relinked", "recording"}
          /\ pc'[j] \in {"linked", "cleaned", "relinked", "recording", "passed"}
          BY <1>9 DEF Link, Clean, LinkAgain, LinkMoved, CopyLogs, Record
    <2>2. \A p \in Files : fs[p] = File("whole", j)
          BY <2>1 DEF PublishedBy, Published
    <2>3. \A p \in Files : fs'[p] = File("whole", j)
          BY <2>2, WholeStays
    <2> QED
        BY <2>1, <2>3 DEF PublishedBy, Published
  <1> QED
      BY <1>1, <1>2, <1>3, <1>4, <1>5, <1>6, <1>7, <1>8, <1>9 DEF Install

LEMMA PublishedStep ==
    IInv /\ [Next]_vars => (PrefixPublished /\ CopyOpen /\ AllPublished)'
  <1> SUFFICES ASSUME IInv, [Next]_vars, NEW j \in Attempts PROVE PublishedBy(j)'
      BY PublishedByAll DEF PrefixPublished, CopyOpen, AllPublished, PublishedBy
  <1>1. Grows /\ TypeOK /\ PublishedBy(j)
        BY GrowsStep, PublishedByAll DEF IInv
  <1>2. CASE Install(j) \/ Fail(j) \/ Crash(j)
        BY <1>1, <1>2, PublishedMoves
  <1>3. CASE pc'[j] = pc[j] /\ at'[j] = at[j]
        BY <1>1, <1>3, PublishedStays
  <1>4. CASE ~(Install(j) \/ Fail(j) \/ Crash(j))
    <2>1. pc'[j] = pc[j] /\ at'[j] = at[j]
          BY <1>1, <1>4, Bystander
    <2> QED
        BY <2>1, <1>3
  <1> QED
      BY <1>2, <1>4
-----------------------------------------------------------------------------
LEMMA FirstFilesStep == IInv /\ [Next]_vars => FirstFiles'
  <1> SUFFICES ASSUME IInv, [Next]_vars, NEW i \in Attempts,
                      NEW m \in Index, NEW n \in Index, m < n,
                      Entries[m] \in Files, Entries[n] \in Files,
                      fs'[Entries[n]].owner = i
               PROVE  fs'[Entries[m]].owner = i
      BY DEF FirstFiles
  <1> USE PathFacts DEF Files
  <1>1. Grows /\ TypeOK
        BY GrowsStep DEF IInv
  <1>0. \A p \in Staged : p \in Paths /\ p \notin LateFiles /\ p \notin Late
        BY RecordFacts
  <1>2. ASSUME NEW p \in Staged, fs[p].owner = i PROVE fs'[p].owner = i
    <2>1. fs[p] # Absent
          BY <1>2, InstallAssumption DEF Absent
    <2> QED
        BY <1>0, <1>1, <1>2, <2>1, FileFacts DEF Grows, WritesLog
  <1>3. CASE fs[Entries[n]].owner = i
    <2>1. fs[Entries[m]].owner = i
          BY <1>3 DEF IInv, FirstFiles
    <2> QED
        BY <2>1, <1>2
  <1>4. CASE fs[Entries[n]].owner # i
    <2>1. OpenFile(i) /\ Entries[at[i]] = Entries[n]
      <3> DEFINE e == Entries[n]
      <3>1. fs'[e] # fs[e] /\ e \in Paths /\ e \in Staged
            BY <1>4, <1>0
      <3>2. ASSUME NEW p \in Paths, OtherWrites(p) PROVE FALSE
        <4>1. fs'[e] = fs[e] \/ fs'[e].owner = "other"
              BY <3>1, <3>2, FileFacts DEF OtherWrites
        <4> QED
            BY <3>1, <4>1, InstallAssumption
      <3>3. ASSUME NEW j \in Attempts, MakeDirectory(j) PROVE FALSE
            BY <3>1, <3>3, <1>1 DEF MakeDirectory, TypeOK
      <3>4. ASSUME NEW j \in Attempts, CopyFile(j) PROVE FALSE
        <4>1. /\ fs[Entries[at[j]]] = File("partial", j)
              /\ fs' = [fs EXCEPT ![Entries[at[j]]] = File("whole", j)]
              BY <3>4 DEF CopyFile, IInv, CopyOpen, Go
        <4> QED
            BY <4>1, <3>1, <1>1, <1>4, FileFacts DEF TypeOK
      <3>5. ASSUME NEW j \in Attempts, OpenFile(j)
            PROVE  j = i /\ Entries[at[j]] = Entries[n]
            BY <3>1, <3>5, <1>1, FileFacts DEF OpenFile, TypeOK
      <3>6. ASSUME NEW j \in Attempts, OpenLogs(j) \/ Link(j) \/ CopyLogs(j) \/ Record(j)
            PROVE  FALSE
        <4>1. PICK p \in Late : Create(j, p) \/ Write(j, p)
              BY <3>6, RecordFacts DEF OpenLogs, Link, CopyLogs, Record
        <4>2. e # p
              BY <1>0
        <4> QED
            BY <4>1, <4>2, <3>1, <1>1 DEF Create, Write, TypeOK
      <3> HIDE DEF e
      <3>7. \A j \in Attempts : OpenFile(j) => j = i /\ Entries[at[j]] = Entries[n]
            BY <3>5
      <3> QED
          BY <3>1, <3>2, <3>3, <3>4, <3>6, <3>7
          DEF Next, Install, Start, SafeAgain, Override, Configure, Stage,
              Preflight, Preflighted, Clean, LinkAgain, LinkMoved,
              Refuse, Raise, Fail, Crash, vars
    <2>2. at[i] = n /\ pc[i] = "creating"
          BY <2>1, InstallAssumption DEF OpenFile, Go, IInv, TypeOK, Index
    <2>3. fs[Entries[m]] = File("whole", i)
          BY <2>2 DEF IInv, PrefixPublished
    <2> QED
        BY <2>3, <1>2, FileFacts
  <1> QED
      BY <1>3, <1>4

LEMMA GatesStep == IInv /\ [Next]_vars => Gates'
  <1> SUFFICES ASSUME IInv, [Next]_vars, NEW i \in Attempts
               PROVE /\ pc'[i] \in {"linked", "cleaned", "relinked", "recording", "passed"} =>
                           "installed" \in links'[i]
                     /\ pc'[i] \in {"cleaned", "relinked", "recording", "passed"} => ~workspace'[i]
                     /\ pc'[i] \in {"relinked", "recording"} => "again" \in links'[i]
                     /\ pc'[i] = "recording" => "moved" \in links'[i]
                     /\ pc'[i] = "passed" /\ i \in Qualifying =>
                           {"again", "moved"} \subseteq links'[i]
      BY DEF Gates
  <1> USE DEF IInv, TypeOK, Gates, Go
  <1>1. CASE ~(Install(i) \/ Fail(i) \/ Crash(i))
        BY <1>1, Bystander
  <1>2. CASE \/ Start(i) \/ SafeAgain(i) \/ Override(i) \/ Configure(i) \/ Stage(i)
             \/ Preflight(i) \/ Preflighted(i) \/ MakeDirectory(i)
             \/ OpenFile(i) \/ CopyFile(i) \/ OpenLogs(i)
             \/ Refuse(i) \/ Fail(i) \/ Crash(i)
        BY <1>2 DEF Start, SafeAgain, Override, Configure, Stage, Preflight,
           Preflighted, MakeDirectory, OpenFile, CopyFile, OpenLogs, Refuse, Raise,
           Fail, Crash
  <1>3. CASE Link(i)
        BY <1>3 DEF Link
  <1>4. CASE Clean(i)
        BY <1>4 DEF Clean
  <1>5. CASE LinkAgain(i)
        BY <1>5 DEF LinkAgain
  <1>6. CASE LinkMoved(i)
        BY <1>6 DEF LinkMoved
  <1>7. CASE CopyLogs(i)
        BY <1>7 DEF CopyLogs
  <1>8. CASE Record(i)
        BY <1>8 DEF Record
  <1> QED
      BY <1>1, <1>2, <1>3, <1>4, <1>5, <1>6, <1>7, <1>8 DEF Install

\* Configure takes the first candidate that fits, and only if it is valid.
LEMMA ConfigurationStep == IInv /\ [Next]_vars => ConfigurationContained'
  <1> SUFFICES ASSUME IInv, [Next]_vars, NEW i \in Attempts, selected'[i] = "core"
               PROVE  /\ i \notin Qualifying
                      /\ \E n \in {1, 2} :
                            /\ candidates'[n] = "valid"
                            /\ \A m \in 1 .. n - 1 : candidates'[m] # "outside"
      BY DEF ConfigurationContained
  <1> USE DEF IInv, TypeOK
  <1>1. candidates' = candidates
        BY DEF Next, Install, Start, SafeAgain, Override, Configure, Stage, Preflight,
           Preflighted, MakeDirectory, OpenFile, CopyFile, OpenLogs, Link, Clean,
           LinkAgain, LinkMoved, CopyLogs, Record, Refuse, Raise, Fail, Crash, OtherWrites, vars
  <1>2. CASE selected[i] = "core"
        BY <1>1, <1>2 DEF ConfigurationContained
  <1>3. CASE selected[i] # "core"
    <2>1. selected'[i] # selected[i]
          BY <1>3
    <2>2. Configure(i) /\ Usable(i) # {}
          BY <2>1 DEF Next, Install, Start, SafeAgain, Override, Configure, Stage,
             Preflight, Preflighted, MakeDirectory, OpenFile, CopyFile, OpenLogs, Link,
             Clean, LinkAgain, LinkMoved, CopyLogs, Record, Refuse, Raise, Fail, Crash, OtherWrites, vars
    <2>3. PICK n \in Usable(i) : candidates[n] = "valid"
          BY <2>2 DEF Configure
    <2>4. i \notin Qualifying /\ n \in {1, 2} /\ (n = 2 => candidates[1] # "outside")
          BY <2>3 DEF Usable
    <2>5. \A m \in 1 .. n - 1 : candidates[m] # "outside"
          BY <2>4
    <2> QED
        BY <1>1, <2>3, <2>4, <2>5
  <1> QED
      BY <1>2, <1>3

LEMMA EvidenceStep == IInv /\ [Next]_vars => \A i \in Attempts : Evidence(i)'
  <1> SUFFICES ASSUME IInv, [Next]_vars, NEW i \in Attempts PROVE Evidence(i)'
      OBVIOUS
  <1> USE DEF IInv, TypeOK, Evidence, Go
  <1>1. CASE ~(Install(i) \/ Fail(i) \/ Crash(i))
        BY <1>1, Bystander
  <1>2. CASE \/ Start(i) \/ SafeAgain(i) \/ Override(i) \/ Configure(i) \/ Stage(i)
             \/ Preflight(i) \/ Preflighted(i) \/ MakeDirectory(i)
             \/ OpenFile(i) \/ CopyFile(i) \/ OpenLogs(i)
        BY <1>2 DEF Start, SafeAgain, Override, Configure, Stage, Preflight,
           Preflighted, MakeDirectory, OpenFile, CopyFile, OpenLogs
  <1>3. CASE \/ Link(i) \/ Clean(i) \/ LinkAgain(i) \/ LinkMoved(i) \/ CopyLogs(i)
             \/ Record(i)
        BY <1>3 DEF Link, Clean, LinkAgain, LinkMoved, CopyLogs, Record
  <1>4. CASE Refuse(i) \/ Fail(i)
    <2>1. /\ pc'[i] = "failed" /\ workspace' = workspace /\ links' = links
          /\ selected' = selected /\ pc[i] \notin {"passed", "failed", "crashed"}
          /\ dispositions'[i] = IF pc[i] \in {"cleaned", "relinked", "recording"}
                                THEN "FAIL" ELSE dispositions[i]
          BY <1>4 DEF Refuse, Refused, Fail, Raise, Ended
    <2>2. workspace[i] \/ links[i] # {} \/ selected[i] = None
      <3>1. CASE pc[i] = "new"
            BY <3>1
      <3>2. CASE pc[i] \in {"checked", "safe", "configured", "checking", "creating",
                           "copying", "logging", "linked"}
            BY <3>2
      <3>3. CASE pc[i] \in {"cleaned", "relinked", "recording"}
            BY <3>3 DEF Gates
      <3> QED
          BY <2>1, <3>1, <3>2, <3>3 DEF Ended
    <2>3. dispositions'[i] # "PASS"
      <3>1. CASE pc[i] \in {"cleaned", "relinked", "recording"}
            BY <2>1, <3>1
      <3>2. CASE pc[i] \notin {"cleaned", "relinked", "recording"}
        <4>1. dispositions'[i] = None
              BY <2>1, <3>2 DEF Ended
        <4> QED
            BY <4>1, InstallAssumption
      <3> QED
          BY <3>1, <3>2
    <2> QED
        BY <2>1, <2>2, <2>3
  <1>5. CASE Crash(i)
        BY <1>5 DEF Crash
  <1> QED
      BY <1>1, <1>2, <1>3, <1>4, <1>5 DEF Install
-----------------------------------------------------------------------------
(* The logs.                                                               *)

\* Two attempts have not both published every file.
LEMMA OneOwner ==
    ASSUME NEW i, NEW j, Published(i), Published(j) PROVE i = j
  BY PathFacts, FileFacts DEF Published

\* A log of an attempt stays its log, and its directory stays.
LEMMA LogStays ==
    ASSUME IInv, LogsGrow, NEW i \in Attempts, NEW p \in LateFiles,
           fs[p] = File("whole", i)
    PROVE  fs'[p] = File("whole", i)
  <1>1. fs[p] # Absent /\ fs[p].owner = i
        BY FileFacts
  <1>2. Published(i)
    <2>1. LateOwned(p)
          BY DEF IInv, LateInv
    <2> QED
        BY <1>1, <2>1, FileFacts, InstallAssumption DEF LateOwned
  <1>3. ASSUME NEW j \in Attempts, WritesLog(j, p) PROVE i = j
    <2>1. Published(j)
          BY <1>3 DEF WritesLog, IInv, AllPublished
    <2> QED
        BY <1>2, <2>1, OneOwner
  <1> QED
      BY <1>1, <1>3 DEF LogsGrow, WritesLog

LEMMA DirectoryStays ==
    ASSUME Grows, NEW i, NEW d \in LogDirectories, fs[d] = File("directory", i)
    PROVE  fs'[d] = File("directory", i)
  <1>1. d \in Paths /\ d \notin LateFiles
        BY PathFacts, RecordFacts
  <1> QED
      BY <1>1, FileFacts DEF Grows, WritesLog

LEMMA LateOwnedStep ==
    ASSUME IInv, [Next]_vars, NEW p \in LateFiles PROVE LateOwned(p)'
  <1>0. TypeOK /\ Grows /\ LogsGrow /\ LateOwned(p)
        BY GrowsStep DEF IInv, LateInv
  <1>1. ASSUME NEW j \in Attempts, Published(j) PROVE Published(j)'
    <2>1. \A q \in Files : fs'[q] = File("whole", j)
          BY <1>0, <1>1, PathFacts, WholeStays DEF Published
    <2> QED
        BY <2>1 DEF Published
  <1>2. CASE fs'[p] = fs[p]
    <2>1. CASE fs[p] = Absent \/ fs[p].owner = "other"
          BY <1>2, <2>1 DEF LateOwned
    <2>2. ASSUME NEW j \in Attempts, fs[p] = File("whole", j), Published(j)
          PROVE  LateOwned(p)'
          BY <1>1, <1>2, <2>2 DEF LateOwned
    <2>3. CASE fs[p].owner = "core" /\ \A i \in Attempts : pc[i] \in {"new", "failed"}
      <3>1. fs[p] # Absent
            BY <2>3, InstallAssumption DEF Absent
      <3>2. \A i \in Attempts : ~Start(i)
            BY <3>1, PathFacts, RecordFacts DEF Start, PrefixSafe, GuardedAbsent
      <3>3. ASSUME NEW i \in Attempts PROVE pc'[i] \in {"new", "failed"}
        <4>1. CASE ~(Install(i) \/ Fail(i) \/ Crash(i))
              BY <4>1, <2>3, <1>0, Bystander
        <4>2. CASE Refuse(i) \/ Fail(i)
              BY <4>2, <1>0 DEF Refuse, Fail, Raise, TypeOK
        <4>3. CASE Crash(i)
              BY <4>3, <2>3 DEF Crash, Ended
        <4>4. CASE Install(i) /\ ~Refuse(i)
              BY <4>4, <2>3, <3>2
              DEF Install, SafeAgain, Override, Configure, Stage, Preflight,
                  Preflighted, MakeDirectory, OpenFile, CopyFile, OpenLogs, Link,
                  Clean, LinkAgain, LinkMoved, CopyLogs, Record, Go
        <4> QED
            BY <4>1, <4>2, <4>3, <4>4
      <3> QED
          BY <1>2, <2>3, <3>3 DEF LateOwned
    <2> QED
        BY <1>0, <2>1, <2>2, <2>3 DEF LateOwned
  <1>3. CASE fs[p] = Absent /\ fs'[p].owner = "other"
        BY <1>3 DEF LateOwned
  <1>4. ASSUME NEW i \in Attempts, WritesLog(i, p) PROVE LateOwned(p)'
    <2>1. Published(i)
          BY <1>4 DEF WritesLog, IInv, AllPublished
    <2> QED
        BY <1>1, <1>4, <2>1 DEF WritesLog, LateOwned
  <1> QED
      BY <1>0, <1>2, <1>3, <1>4 DEF LogsGrow

LEMMA LateKeptStep ==
    ASSUME IInv, [Next]_vars, NEW i \in Attempts PROVE LateKept(i)'
  <1>0. TypeOK /\ Grows /\ LogsGrow /\ LateKept(i)
        BY GrowsStep DEF IInv, LateInv
  <1>1. \A p \in LateFiles : fs[p] = File("whole", i) => fs'[p] = File("whole", i)
        BY <1>0, LogStays
  <1>2. \A d \in LogDirectories :
            fs[d] = File("directory", i) => fs'[d] = File("directory", i)
        BY <1>0, DirectoryStays
  <1>3. /\ "consumers-installed" \in LogDirectories
        /\ "qualification-installed" \in LogDirectories
        /\ "qualification-relocated" \in LogDirectories
        /\ LateFiles = {"consumers-installed/log", "qualification-installed/log",
                        "qualification-relocated/log", "dispositions"}
        BY DEF LogDirectories, LateFiles
  <1>4. ASSUME pc'[i] = pc[i], at'[i] = at[i] PROVE LateKept(i)'
    <2>1. LogsOf(i) \subseteq LateFiles
          BY <1>3 DEF LogsOf
    <2> QED
        BY <1>0, <1>1, <1>2, <1>3, <1>4, <2>1 DEF LateKept
  <1>5. ASSUME pc'[i] \notin {"logging", "linked", "cleaned", "relinked", "recording",
                              "passed"}
        PROVE  LateKept(i)'
        BY <1>5 DEF LateKept
  <1>6. CASE ~(Install(i) \/ Fail(i) \/ Crash(i))
        BY <1>0, <1>4, <1>6, Bystander
  <1>7. CASE \/ Start(i) \/ SafeAgain(i) \/ Override(i) \/ Configure(i) \/ Stage(i)
             \/ Preflight(i) \/ Preflighted(i) \/ MakeDirectory(i)
             \/ OpenFile(i) \/ CopyFile(i) \/ Refuse(i) \/ Fail(i) \/ Crash(i)
    <2>1. pc'[i] \notin {"logging", "linked", "cleaned", "relinked", "recording",
                         "passed"}
          BY <1>0, <1>7 DEF TypeOK, Go, Start, SafeAgain, Override, Configure, Stage,
             Preflight, Preflighted, MakeDirectory, OpenFile, CopyFile, Refuse, Raise,
             Fail, Crash
    <2> QED
        BY <1>5, <2>1
  <1>8. CASE OpenLogs(i)
    <2>1. pc'[i] = "logging" /\ fs' = [fs EXCEPT !["consumers-installed"] = File("directory", i)]
          BY <1>0, <1>8 DEF OpenLogs, Create, Go, TypeOK
    <2>2. fs'["consumers-installed"] = File("directory", i)
          BY <2>1, <1>0, <1>3, PathFacts, RecordFacts DEF TypeOK
    <2> QED
        BY <2>1, <2>2 DEF LateKept
  <1>9. CASE Link(i)
    <2>1. pc'[i] = "linked" /\ fs' = [fs EXCEPT !["consumers-installed/log"] = File("whole", i)]
          BY <1>0, <1>9 DEF Link, Write, Go, TypeOK
    <2>2. fs'["consumers-installed/log"] = File("whole", i)
          BY <2>1, <1>0, <1>3, PathFacts, RecordFacts DEF TypeOK
    <2> QED
        BY <2>1, <2>2 DEF LateKept
  <1>10. CASE Clean(i)
    <2>1. fs'["consumers-installed/log"] = File("whole", i)
          BY <1>0, <1>1, <1>3, <1>10 DEF Clean, Go, LateKept
    <2>2. /\ i \in Qualifying => pc'[i] = "cleaned"
          /\ i \notin Qualifying => pc'[i] = "passed"
          BY <1>0, <1>10 DEF Clean, Go, TypeOK
    <2> QED
        BY <2>1, <2>2 DEF LateKept, LogsOf
  <1>11. CASE LinkAgain(i) \/ LinkMoved(i)
    <2>1. fs'["consumers-installed/log"] = File("whole", i) /\ i \in Qualifying
          BY <1>0, <1>1, <1>3, <1>11 DEF LinkAgain, LinkMoved, Go, LateKept
    <2>2. pc'[i] = "relinked" \/ (pc'[i] = "recording" /\ at'[i] = 1)
          BY <1>0, <1>11 DEF LinkAgain, LinkMoved, Go, TypeOK
    <2> QED
        BY <2>1, <2>2 DEF LateKept
  <1>12. CASE CopyLogs(i)
    <2> DEFINE p == Records[at[i]]
    <2>1. /\ at[i] \in 1 .. 4 /\ pc[i] = "recording" /\ pc'[i] = "recording"
          /\ at'[i] = at[i] + 1
          BY <1>0, <1>12, RecordFacts DEF CopyLogs, TypeOK
    <2>2. /\ at[i] \in {1, 3} => fs'[p] = File("directory", i)
          /\ at[i] \in {2, 4} => fs'[p] = File("whole", i)
      <3>1. p \in Paths
            BY <2>1, PathFacts, RecordFacts
      <3>2. \/ at[i] \in {1, 3} /\ fs' = [fs EXCEPT ![p] = File("directory", i)]
            \/ at[i] \in {2, 4} /\ fs' = [fs EXCEPT ![p] = File("whole", i)]
            BY <1>12, <2>1, RecordFacts DEF CopyLogs, Create, Write
      <3> HIDE DEF p
      <3>3. CASE at[i] \in {1, 3} /\ fs' = [fs EXCEPT ![p] = File("directory", i)]
            BY <3>1, <3>3, <1>0 DEF TypeOK
      <3>4. CASE at[i] \in {2, 4} /\ fs' = [fs EXCEPT ![p] = File("whole", i)]
            BY <3>1, <3>4, <1>0 DEF TypeOK
      <3> QED
          BY <3>2, <3>3, <3>4
    <2>3. fs'["consumers-installed/log"] = File("whole", i) /\ i \in Qualifying
          BY <1>0, <1>1, <1>3, <2>1 DEF LateKept
    <2>4. CASE at[i] = 1
          BY <2>1, <2>2, <2>3, <2>4, RecordFacts DEF LateKept
    <2>5. CASE at[i] = 2
          BY <1>0, <1>2, <1>3, <2>1, <2>2, <2>3, <2>5, RecordFacts DEF LateKept
    <2>6. CASE at[i] = 3
          BY <1>0, <1>1, <1>2, <1>3, <2>1, <2>2, <2>3, <2>6, RecordFacts DEF LateKept
    <2>7. CASE at[i] = 4
          BY <1>0, <1>1, <1>2, <1>3, <2>1, <2>2, <2>3, <2>7, RecordFacts DEF LateKept
    <2> QED
        BY <2>1, <2>4, <2>5, <2>6, <2>7
  <1>13. CASE Record(i)
    <2>1. pc[i] = "recording" /\ pc'[i] = "passed" /\ at[i] > 4
          BY <1>0, <1>13, RecordFacts DEF Record, Go, TypeOK
    <2>2. fs'["dispositions"] = File("whole", i)
          BY <1>0, <1>13, PathFacts, RecordFacts DEF Record, Write, TypeOK
    <2>3. /\ fs'["consumers-installed/log"] = File("whole", i)
          /\ fs'["qualification-installed/log"] = File("whole", i)
          /\ fs'["qualification-relocated/log"] = File("whole", i)
          BY <1>0, <1>1, <1>3, <2>1 DEF LateKept
    <2>4. \A p \in LogsOf(i) : fs'[p] = File("whole", i)
          BY <1>3, <2>2, <2>3 DEF LogsOf
    <2> QED
        BY <2>1, <2>3, <2>4 DEF LateKept
  <1> QED
      BY <1>6, <1>7, <1>8, <1>9, <1>10, <1>11, <1>12, <1>13 DEF Install
-----------------------------------------------------------------------------
LEMMA InitIInv == Init => IInv
  <1> SUFFICES ASSUME Init PROVE IInv
      OBVIOUS
  <1>1. TypeOK
        BY TypeInit
  <1>2. FirstFiles
    <2>1. \A p \in Paths : fs[p].owner \in {None, "core"}
          BY InstallAssumption DEF Init, Absent
    <2> QED
        BY <2>1, PathFacts, InstallAssumption DEF FirstFiles
  <1>3. ConfigurationContained
        BY InstallAssumption DEF ConfigurationContained, Init
  <1>4. \A i \in Attempts : pc[i] = "new"
        BY DEF Init
  <1>5. LateInv
    <2>1. ASSUME NEW p \in LateFiles PROVE LateOwned(p)
      <3>1. p \in Paths
            BY PathFacts, RecordFacts
      <3>2. fs[p] = Absent \/ fs[p].owner = "core"
            BY <3>1, InstallAssumption DEF Init
      <3> QED
          BY <3>2, <1>4 DEF LateOwned
    <2>2. ASSUME NEW i \in Attempts PROVE LateKept(i)
          BY <1>4 DEF LateKept
    <2> QED
        BY <2>1, <2>2 DEF LateInv
  <1>6. PrefixPublished /\ CopyOpen /\ AllPublished /\ Gates
        BY <1>4 DEF PrefixPublished, CopyOpen, AllPublished, Gates
  <1>7. \A i \in Attempts : Evidence(i)
        BY <1>4 DEF Evidence, Init
  <1> QED
      BY <1>1, <1>2, <1>3, <1>5, <1>6, <1>7 DEF IInv

LEMMA StepIInv == IInv /\ [Next]_vars => IInv'
  <1> SUFFICES ASSUME IInv, [Next]_vars PROVE IInv'
      OBVIOUS
  <1>1. LateInv'
        BY LateOwnedStep, LateKeptStep DEF LateInv
  <1>2. TypeOK'
        BY TypeStep DEF IInv
  <1> QED
      BY <1>1, <1>2, PublishedStep, FirstFilesStep, GatesStep, ConfigurationStep,
         EvidenceStep DEF IInv

\* The invariant holds for any attempts, staged tree, prefix and faults.
THEOREM Inductive == Spec => []IInv
  BY InitIInv, StepIInv, PTL DEF Spec

\* Every variable keeps its type: no attempt leaves the list of entries.
THEOREM InstallTypes == Spec => []TypeOK
  <1>1. IInv => TypeOK
        BY DEF IInv
  <1> QED
      BY Inductive, <1>1, PTL

\* What writing a log replaces: only what another program has put there.
LEMMA LogOver ==
    ASSUME IInv, NEW i \in Attempts, NEW p \in LateFiles, WritesLog(i, p),
           fs[p] # Absent, fs'[p] # fs[p]
    PROVE  WritesOver(p)
  <1>0. pc[i] \in {"logging", "recording"} /\ fs'[p] = File("whole", i)
        BY DEF WritesLog
  <1>1. Published(i)
        BY <1>0 DEF IInv, AllPublished
  <1>2. fs[p].owner = "other"
    <2>1. LateOwned(p)
          BY DEF IInv, LateInv
    <2>2. ASSUME NEW j \in Attempts, fs[p] = File("whole", j), Published(j) PROVE FALSE
      <3>1. i = j
            BY <1>1, <2>2, OneOwner
      <3> QED
          BY <1>0, <2>2, <3>1
    <2> QED
        BY <1>0, <2>1, <2>2 DEF LateOwned
  <1>3. LateKept(i)
        BY DEF IInv, LateInv
  <1>4. ASSUME NEW d \in Above(p) \cap LogDirectories PROVE fs[d].owner = i
    <2>1. CASE p = "consumers-installed/log" /\ pc[i] = "logging"
      <3>1. d = "consumers-installed"
            BY <1>4, <2>1, InstallAssumption
      <3> QED
          BY <1>3, <2>1, <3>1, FileFacts DEF LateKept
    <2>2. CASE p = Records[at[i]] /\ at[i] \in {2, 4} /\ pc[i] = "recording"
      <3>1. d = Records[at[i] - 1]
            BY <1>4, <2>2, InstallAssumption
      <3>2. CASE at[i] = 2
            BY <1>3, <2>2, <3>1, <3>2, RecordFacts, FileFacts DEF LateKept
      <3>3. CASE at[i] = 4
            BY <1>3, <2>2, <3>1, <3>3, RecordFacts, FileFacts DEF LateKept
      <3> QED
          BY <2>2, <3>2, <3>3
    <2>3. CASE p = "dispositions"
          BY <1>4, <2>3, InstallAssumption
    <2> QED
        BY <2>1, <2>2, <2>3 DEF WritesLog
  <1> QED
      BY <1>0, <1>1, <1>2, <1>4 DEF WritesOver

\* "Existing files are never replaced", by any number of attempts, whatever
\* other programs write between their steps, but for a file that one of them
\* puts where a log of an installation goes, once that is published.
THEOREM NeverReplaces == Spec => NothingReplaced
  <1>1. IInv /\ [Next]_vars =>
           [\A p \in Paths :
               fs[p] # Absent /\ fs'[p] # fs[p] =>
                   \/ /\ fs[p].state = "partial" /\ fs'[p].state = "whole"
                      /\ fs'[p].owner = fs[p].owner
                   \/ WritesOver(p)]_fs
    <2> SUFFICES ASSUME IInv, [Next]_vars, NEW p \in Paths, fs[p] # Absent,
                        fs'[p] # fs[p],
                        ~(/\ fs[p].state = "partial" /\ fs'[p].state = "whole"
                          /\ fs'[p].owner = fs[p].owner)
                 PROVE  WritesOver(p)
        OBVIOUS
    <2>1. Grows
          BY GrowsStep DEF IInv
    <2>2. PICK i \in Attempts : WritesLog(i, p)
          BY <2>1, FileFacts DEF Grows
    <2> QED
        BY <2>2, LogOver DEF WritesLog
  <1> QED
      BY Inductive, <1>1, PTL DEF Spec, NothingReplaced

LEMMA NeverMix == IInv => InstallationsDoNotMix
  <1> SUFFICES ASSUME IInv, NEW i \in Attempts, NEW j \in Attempts,
                      NEW p \in Files \cup LateFiles, NEW q \in Files \cup LateFiles,
                      fs[p].owner = i, fs[q].owner = j
               PROVE  i = j
      BY DEF InstallationsDoNotMix
  <1>0. \A k \in Attempts : k \notin {"core", "other", None}
        BY InstallAssumption
  <1>1. ASSUME NEW k \in Attempts, NEW r \in LateFiles, fs[r].owner = k
        PROVE  Published(k)
    <2>1. LateOwned(r) /\ fs[r] # Absent
          BY <1>0, <1>1 DEF IInv, LateInv, Absent
    <2> QED
        BY <1>0, <1>1, <2>1, FileFacts DEF LateOwned
  <1>2. CASE p \in LateFiles
    <2>1. Published(i)
          BY <1>1, <1>2
    <2>2. CASE q \in LateFiles
          BY <1>1, <2>1, <2>2, OneOwner
    <2>3. CASE q \in Files
          BY <2>1, <2>3, FileFacts DEF Published
    <2> QED
        BY <2>2, <2>3
  <1>3. CASE p \in Files /\ q \in LateFiles
    <2>1. Published(j)
          BY <1>1, <1>3
    <2> QED
        BY <1>3, <2>1, FileFacts DEF Published
  <1>4. CASE p \in Files /\ q \in Files
    <2>1. PICK m \in Index : p = Entries[m]
          BY <1>4, PathFacts DEF Files
    <2>2. PICK n \in Index : q = Entries[n]
          BY <1>4, PathFacts DEF Files
    <2>3. m \in Int /\ n \in Int
          BY PathFacts DEF Index
    <2>4. CASE m < n
          BY <1>4, <2>1, <2>2, <2>4 DEF IInv, FirstFiles
    <2>5. CASE n < m
          BY <1>4, <2>1, <2>2, <2>5 DEF IInv, FirstFiles
    <2>6. CASE m = n
          BY <2>1, <2>2, <2>6
    <2> QED
        BY <2>3, <2>4, <2>5, <2>6
  <1> QED
      BY <1>2, <1>3, <1>4

\* An attempt that prints PASS has every file in the prefix, its own and whole,
\* and its own logs beside them, was linked against and has removed its
\* workspace; no other has a file there; its configuration was valid; and a
\* failure keeps its evidence.
THEOREM Sound == Spec => []InstallationsSound
  <1>1. ASSUME IInv PROVE InstallationsSound
    <2>1. PassMeansInstalled
          BY <1>1 DEF IInv, AllPublished, Gates, LateInv, LateKept, PassMeansInstalled
    <2>2. FailureKeepsEvidence
          BY <1>1 DEF IInv, Evidence, FailureKeepsEvidence
    <2> QED
        BY <1>1, <2>1, <2>2, NeverMix DEF IInv, InstallationsSound
  <1> QED
      BY Inductive, <1>1, PTL
=============================================================================
