-------------------------- MODULE NpmInstallProofs --------------------------
(***************************************************************************)
(* What the launcher finds is whole, for any number of versions, installs  *)
(* and faults.  The binary is only ever what the download was at the       *)
(* rename, so the invariant follows the download back: executable since    *)
(* chmod, whole since the write ended, because what was fetched passed the *)
(* comparison.                                                             *)
(***************************************************************************)
EXTENDS NpmInstall, TLAPS

\* What was fetched is the whole release from the comparison on, and the download
\* becomes whole, and then executable, on the way to the rename.
DownloadIsOnItsWay ==
  /\ step \in {"mkdir", "write", "writing", "chmod", "rm", "rename"}
       => fetched \in Arrives /\ fetched.whole
  /\ step \in {"writing", "chmod", "rm", "rename"} => download \in Files
  /\ step \in {"chmod", "rm", "rename"} => download.whole
  /\ step \in {"rm", "rename"} => download.exec

IInv == TypeOK /\ DownloadIsOnItsWay /\ BinaryIsWhole

\* Nothing is installed at first.
LEMMA InstallInit == Init => IInv
<1> SUFFICES ASSUME Init PROVE IInv
  OBVIOUS
<1>1. tries \in 0..MaxTries /\ faults \in 0..MaxFaults
  BY InstallAssumption DEF InstallAssumption, Init
<1>2. {binary, download, image} \subseteq Files \cup {None}
  BY DEF Init
<1>3. TypeOK
  BY <1>1, <1>2 DEF Init, TypeOK, Steps
<1>4. DownloadIsOnItsWay
  BY DEF Init, DownloadIsOnItsWay
<1>5. BinaryIsWhole
  BY DEF Init, BinaryIsWhole
<1>6. QED
  BY <1>3, <1>4, <1>5 DEF IInv

\* Every step of an install, of a fault and of the launcher keeps the invariant.
LEMMA InstallStep == IInv /\ [Next]_vars => IInv'
<1> SUFFICES ASSUME IInv, [Next]_vars PROVE IInv'
  OBVIOUS
<1> USE InstallAssumption DEF InstallAssumption, IInv, TypeOK, DownloadIsOnItsWay, BinaryIsWhole, Steps
<1> USE DEF InstallOnly, Goto, files, launching
<1>1. ASSUME NEW v \in Versions \cup {Unplanned}, Start(v) PROVE IInv'
  <2>1. tries' \in 0..MaxTries
    BY <1>1 DEF Start
  <2>2. UNCHANGED <<files, fetched, launching, faults>> /\ step' \in {step, "fetch"}
    BY <1>1 DEF Start
  <2>3. step = "idle" /\ version' \in Versions \cup {None} /\ faulty' \in BOOLEAN
    BY <1>1 DEF Start
  <2>4. QED
    BY <2>1, <2>2, <2>3
<1>2. CASE Fetched
  BY <1>2 DEF Fetched
<1>3. CASE LegacyFetched
  BY <1>3 DEF LegacyFetched
<1>4. ASSUME Ends, UNCHANGED files PROVE IInv'
  BY <1>4 DEF Ends
<1>5. CASE Read
  <2>1. PICK data \in Arrives, sum \in {Release, None} :
          /\ step = "read"
          /\ IF Accepts(data, sum)
               THEN step' = "mkdir" /\ fetched' = data /\ UNCHANGED files /\ InstallOnly
               ELSE UNCHANGED files /\ Ends
    BY <1>5 DEF Read
  <2>2. CASE Accepts(data, sum)
    <3>1. data = Release /\ data.whole
      BY <2>2 DEF Accepts, Release
    <3>2. QED
      BY <2>1, <2>2, <3>1
  <2>3. CASE ~Accepts(data, sum)
    BY <2>1, <2>3, <1>4
  <2>4. QED
    BY <2>2, <2>3
<1>6. CASE Mkdir
  BY <1>6 DEF Mkdir
<1>7. CASE WriteStarts
  <2>1. fetched.of \in Versions
    BY <1>7 DEF WriteStarts, Arrives
  <2>2. download' \in Files
    BY <1>7, <2>1 DEF WriteStarts, File, Files
  <2>3. QED
    BY <1>7, <2>2 DEF WriteStarts
<1>8. CASE WriteEnds
  <2>1. download' \in Files /\ download'.whole
    BY <1>8 DEF WriteEnds, Files, Arrives
  <2>2. QED
    BY <1>8, <2>1 DEF WriteEnds
<1>9. CASE Chmod
  <2>1. download' \in Files /\ download'.whole /\ download'.exec
    BY <1>9 DEF Chmod, Files
  <2>2. QED
    BY <1>9, <2>1 DEF Chmod
<1>10. CASE Rm
  BY <1>10 DEF Rm
<1>11. CASE Rename
  BY <1>11 DEF Rename
<1>12. CASE Fails
  BY <1>12, <1>4 DEF Fails
<1>13. CASE Launch \/ ChildExits \/ LauncherKilled
  BY <1>13 DEF Launch, ChildExits, LauncherKilled, LauncherOnly
<1>14. CASE UNCHANGED vars
  BY <1>14 DEF vars
<1>15. QED
  BY <1>1, <1>2, <1>3, <1>5, <1>6, <1>7, <1>8, <1>9, <1>10, <1>11, <1>12, <1>13, <1>14
     DEF Next, Install

\* Whatever failed or died, what the launcher finds and runs is whole, checked and
\* executable (lib/install.js 41-58).
THEOREM BinaryStaysWhole == Spec => []BinaryIsWhole
<1>1. IInv => BinaryIsWhole
  BY DEF IInv
<1>2. QED
  BY InstallInit, InstallStep, <1>1, PTL DEF Spec
=============================================================================
