----------------------------- MODULE NpmInstall -----------------------------
(***************************************************************************)
(* The npm package (npm/agent-master): its postinstall script downloads    *)
(* the native binary of a release, checks it and puts it in place, and its *)
(* launcher runs what is there.  An install may fail at any step, and die  *)
(* between any two; the next one finds what it left.  One install runs at  *)
(* a time.                                                                 *)
(***************************************************************************)
EXTENDS Naturals

CONSTANTS
  Versions,  \* released versions for this platform
  Unplanned, \* a version, platform or base URL that releasePlan rejects
  None,
  MaxTries,  \* bound: installs
  MaxFaults  \* bound: faults of the server, the disk or the process

ASSUME InstallAssumption == 
  {Unplanned, None} \cap Versions = {} /\ MaxTries \in Nat /\ MaxFaults \in Nat

VARIABLES
  binary,    \* vendor/agent-master
  download,  \* vendor/agent-master.download
  step,      \* what installBinary awaits; idle between installs
  version,   \* the one being installed
  fetched,   \* the bytes downloaded and checked
  launcher,  \* bin/agent-master.js: idle, running, stopped
  image,     \* the binary its child runs
  \* observation
  faulty,    \* this install met a fault
  tries, faults  \* bounds

files == <<binary, download>>
launching == <<launcher, image>>
vars == <<files, step, version, fetched, launching, faulty, tries, faults>>

\* A file: which release its bytes are of, whether they are all there, and its mode.
File(v, whole, exec) == [of |-> v, whole |-> whole, exec |-> exec]
Files == [of : Versions, whole : BOOLEAN, exec : BOOLEAN]
\* What a request may bring: a release, or bytes of another or cut short.
Arrives == [of : Versions, whole : BOOLEAN]
Steps == {"idle", "fetch", "legacy", "read", "mkdir", "write", "writing", "chmod", "rm", "rename"}

\* Types of the files, of what is fetched and of the step of an install.
TypeOK ==
  /\ {binary, download, image} \subseteq Files \cup {None}
  /\ step \in Steps /\ version \in Versions \cup {None} /\ fetched \in Arrives \cup {None}
  /\ launcher \in {"idle", "running", "stopped"}
  /\ faulty \in BOOLEAN /\ tries \in 0..MaxTries /\ faults \in 0..MaxFaults

Init ==
  /\ binary = None /\ download = None /\ step = "idle" /\ version = None /\ fetched = None
  /\ launcher = "idle" /\ image = None
  /\ faulty = FALSE /\ tries = 0 /\ faults = 0

InstallOnly == UNCHANGED <<version, launching, faulty, tries, faults>>
Goto(from, to) == step = from /\ step' = to
\* The promise rejects, and the script ends with exit code 1; or the process dies.
Ends ==
  /\ faults < MaxFaults /\ faults' = faults + 1 /\ faulty' = TRUE
  /\ step' = "idle" /\ fetched' = None
  /\ UNCHANGED <<version, launching, tries>>

----------------------------------------------------------------------------
(* installBinary *)

\* releasePlan accepts what it is asked for, or throws.
Start(v) ==
  /\ step = "idle" /\ tries < MaxTries /\ tries' = tries + 1
  /\ IF v = Unplanned THEN UNCHANGED <<step, version, faulty>>
                      ELSE step' = "fetch" /\ version' = v /\ faulty' = FALSE
  /\ UNCHANGED <<files, fetched, launching, faults>>

\* Both fetches answer: the asset is there, and SHA256SUMS is or is not.
Fetched ==
  /\ Goto("fetch", "read") \/ Goto("fetch", "legacy")
  /\ UNCHANGED <<files, fetched>> /\ InstallOnly

LegacyFetched ==
  /\ Goto("legacy", "read")
  /\ UNCHANGED <<files, fetched>> /\ InstallOnly

\* readLimited of both, checksumForAsset and the comparison.  The sums name
\* the release, or do not name the asset.  A digest tells any two apart.
Release == [of |-> version, whole |-> TRUE]
\* Mutant: the sums are read, the bytes are not compared.
AcceptsAnything(data, sum) == sum # None
Accepts(data, sum) == sum # None /\ data = sum

Read ==
  \E data \in Arrives, sum \in {Release, None} :
    /\ step = "read"
    /\ IF Accepts(data, sum)
         THEN step' = "mkdir" /\ fetched' = data /\ UNCHANGED files /\ InstallOnly
         ELSE UNCHANGED files /\ Ends

Mkdir ==
  /\ Goto("mkdir", "write")
  /\ UNCHANGED <<files, fetched>> /\ InstallOnly

\* Mutant: the file is created exclusively.
WriteStartsAnew ==
  /\ Goto("write", "writing") /\ download = None
  /\ \E exec \in BOOLEAN : download' = File(fetched.of, FALSE, exec)
  /\ UNCHANGED <<binary, fetched>> /\ InstallOnly

\* writeFile truncates what an earlier install left, whose mode it keeps; the umask may
\* take the execute bit of a new file.
WriteStarts ==
  /\ Goto("write", "writing")
  /\ \E exec \in BOOLEAN :
       download' = File(fetched.of, FALSE, IF download = None THEN exec ELSE download.exec)
  /\ UNCHANGED <<binary, fetched>> /\ InstallOnly
WriteEnds ==
  /\ Goto("writing", "chmod")
  /\ download' = [download EXCEPT !.whole = fetched.whole]
  /\ UNCHANGED <<binary, fetched>> /\ InstallOnly

Chmod ==
  /\ Goto("chmod", "rm")
  /\ download' = [download EXCEPT !.exec = TRUE]
  /\ UNCHANGED <<binary, fetched>> /\ InstallOnly

Rm ==
  /\ Goto("rm", "rename") /\ binary' = None
  /\ UNCHANGED <<download, fetched>> /\ InstallOnly

Rename ==
  /\ Goto("rename", "idle") /\ binary' = download /\ download' = None
  /\ fetched' = None /\ InstallOnly

\* A request or a call on the disk fails, or the process is killed.  A response that is
\* too large, or that is not ok with no fallback left, is such a failure.
Fails == step # "idle" /\ UNCHANGED files /\ Ends

----------------------------------------------------------------------------
(* The launcher *)

LauncherOnly == UNCHANGED <<files, step, version, fetched, faulty, tries, faults>>

\* spawn: with no binary, or one that cannot be run, the launcher exits with code 1.
Launch ==
  /\ launcher # "running"
  /\ IF binary # None /\ binary.exec THEN launcher' = "running" /\ image' = binary
                                     ELSE launcher' = "stopped" /\ image' = None
  /\ LauncherOnly

\* The child ends, and the launcher ends as it did: its code, or its signal.
ChildExits ==
  /\ launcher = "running" /\ launcher' = "stopped" /\ image' = None
  /\ LauncherOnly

\* A signal to the launcher alone kills it and leaves the child.
LauncherKilled ==
  /\ launcher = "running" /\ launcher' = "stopped" /\ UNCHANGED image
  /\ LauncherOnly

----------------------------------------------------------------------------

Install ==
  \/ Fetched \/ LegacyFetched \/ Read \/ Mkdir \/ WriteStarts \/ WriteEnds \/ Chmod \/ Rm \/ Rename
Next ==
  \/ \E v \in Versions \cup {Unplanned} : Start(v)
  \/ Install \/ Fails
  \/ Launch \/ ChildExits \/ LauncherKilled

Spec == Init /\ [][Next]_vars
\* The requests and the calls on the disk settle.
FairSpec == Spec /\ WF_vars(Install)

----------------------------------------------------------------------------
(* Properties *)

\* Whatever failed or died before, and whichever versions were tried, what the launcher
\* finds and what runs is a whole, checked and executable binary (install.js 55-58: no
\* install may expose a partial or unchecked file under that name).
BinaryIsWhole == \A f \in {binary, image} : f # None => f.whole /\ f.exec

\* An install that meets no fault itself ends with its version in place, whatever the
\* installs before it left behind.
CleanInstallSucceeds ==
  \A v \in Versions :
    (step = "fetch" /\ version = v) ~> (faulty \/ binary = File(v, TRUE, TRUE))
=============================================================================
