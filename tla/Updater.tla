------------------------------ MODULE Updater ------------------------------
(***************************************************************************)
(* The updater (core/shared/core/updater.cpp, exe/updater/main.cpp): every *)
(* process started looks for a newer version, may download it, and leaves  *)
(* the extraction to a copy of the updater executable that waits for the   *)
(* acts processes to be gone.                                              *)
(*                                                                         *)
(* A step is one access to the file system, the network or the process     *)
(* table.  A write (utils::WriteFile) truncates the file in one step and   *)
(* fills it in another; a process may be killed before any step.  A file   *)
(* is the version it belongs to, Absent, or Torn when it is not whole.     *)
(* Windows refuses to remove or to write the image of a running process.   *)
(***************************************************************************)
EXTENDS Naturals, FiniteSets

CONSTANTS
    Acts,        \* the processes acts.exe and acts-ui.exe
    Tools,       \* the processes acts-updater.exe started without -U
    Members,     \* the files of an installation; "exe", "updater", "version" are some
    MaxVersion,  \* bound on the versions that are published
    MaxWait,     \* how many times the updater looks for acts
    Commands     \* the update commands typed in an acts prompt: "force", "check"

ASSUME UpdaterAssumption ==
    /\ IsFiniteSet(Acts \cup Tools) /\ Acts \cap Tools = {}
    /\ {"exe", "updater", "version"} \subseteq Members /\ IsFiniteSet(Members)
    /\ MaxVersion \in Nat \ {0} /\ MaxWait \in Nat
    /\ Commands \subseteq {"force", "check"}

VARIABLES
    \* the server and the installation directory
    server, installed, zip, tmp, cfg,
    \* the processes: program counter, what they run, VERSION_ID, the config and
    \* the download they hold
    pc, mode, version, local, download,
    \* the copy of the updater each process started
    up,
    \* history: checks since the last period or update, whether two processes
    \* looked for one at once, and whether an extraction left a file out or two
    \* of them had different archives
    checks, overlap, damaged

dirVars  == <<installed, zip, tmp, cfg>>
procVars == <<pc, mode, version, local, download>>
histVars == <<checks, overlap, damaged>>
vars == <<server, dirVars, procVars, up, histVars>>

Procs    == Acts \cup Tools
Versions == 1..MaxVersion
Absent   == 0
Torn     == MaxVersion + 1
File     == 0..(MaxVersion + 1)

\* lastCheck + timeDelta > now is the boolean recent.
Config    == [disabled : BOOLEAN, forced : BOOLEAN, recent : BOOLEAN]
Defaults  == [disabled |-> FALSE, forced |-> FALSE, recent |-> FALSE]
TornCfg   == [torn |-> TRUE]
ReadCfg   == IF cfg = TornCfg THEN Defaults ELSE cfg

Idle == [pc |-> "off", tries |-> 0, zip |-> Absent, todo |-> {}]

TmpRuns    == \E p \in Procs : up[p].pc # "off"
ActsRuns   == \E p \in Acts : pc[p] # "off"
Locked(m)  == \/ m = "exe" /\ ActsRuns
              \/ m = "updater" /\ \E p \in Tools : pc[p] # "off"

Init ==
    /\ server = 1
    /\ installed = [m \in Members |-> 1]
    /\ zip = Absent /\ tmp = Absent /\ cfg \in Config
    /\ pc = [p \in Procs |-> "off"] /\ mode = [p \in Procs |-> "find"]
    /\ version = [p \in Procs |-> Absent]
    /\ local = [p \in Procs |-> Defaults]
    /\ download = [p \in Procs |-> Absent]
    /\ up = [p \in Procs |-> Idle]
    /\ checks = 0 /\ overlap = FALSE /\ damaged = FALSE

\* A process in FindUpdate, which has read the configuration and may write it.
Looking(p) == mode[p] \in {"find", "findForced"} /\ pc[p] \notin {"off", "running", "leaving"}

Goto(p, l) == pc' = [pc EXCEPT ![p] = l]

\* A process ends and what it held is gone.
End(p) ==
    /\ Goto(p, "off")
    /\ mode' = [mode EXCEPT ![p] = "find"]
    /\ version' = [version EXCEPT ![p] = Absent]
    /\ local' = [local EXCEPT ![p] = Defaults]
    /\ download' = [download EXCEPT ![p] = Absent]

-----------------------------------------------------------------------------
(* The environment.                                                        *)

Publish ==
    /\ server < MaxVersion /\ server' = server + 1
    /\ UNCHANGED <<dirVars, procVars, up, histVars>>

TimePasses ==
    /\ cfg' = IF cfg = TornCfg THEN cfg ELSE [cfg EXCEPT !.recent = FALSE]
    /\ local' = [p \in Procs |-> [local[p] EXCEPT !.recent = FALSE]]
    /\ checks' = 0
    /\ UNCHANGED <<server, installed, zip, tmp, pc, mode, version, download, up, overlap, damaged>>

\* A kill leaves the file that was being written torn.
Kill(p) ==
    /\ pc[p] # "off" /\ End(p)
    /\ UNCHANGED <<server, dirVars, up, histVars>>

-----------------------------------------------------------------------------
(* FindUpdate.                                                             *)

\* SyncConfig reads what is there; a file that does not parse gives the defaults.
Launch(p) ==
    /\ pc[p] = "off" /\ up[p].pc = "off"
    /\ LET image == installed[IF p \in Acts THEN "exe" ELSE "updater"] IN
          image \in Versions /\ version' = [version EXCEPT ![p] = image]
    /\ mode' = [mode EXCEPT ![p] = "find"]
    /\ local' = [local EXCEPT ![p] = ReadCfg]
    /\ overlap' = (overlap \/ \E q \in Procs : Looking(q))
    /\ checks' = IF cfg = TornCfg \/ overlap' THEN 0 ELSE checks
    /\ Goto(p, "find")
    /\ UNCHANGED <<server, dirVars, download, up, damaged>>

\* --noUpdater, or updater.disabled in the main configuration.
LaunchNoUpdater(p) ==
    /\ pc[p] = "off" /\ p \in Acts /\ up[p].pc = "off"
    /\ installed["exe"] \in Versions
    /\ version' = [version EXCEPT ![p] = installed["exe"]]
    /\ Goto(p, "running")
    /\ UNCHANGED <<server, dirVars, mode, local, download, up, histVars>>

\* acts-updater.exe -f.
LaunchForce(p) ==
    /\ pc[p] = "off" /\ p \in Tools /\ up[p].pc = "off"
    /\ installed["updater"] \in Versions
    /\ version' = [version EXCEPT ![p] = installed["updater"]]
    /\ mode' = [mode EXCEPT ![p] = "force"]
    /\ Goto(p, "clean")
    /\ UNCHANGED <<server, dirVars, local, download, up, histVars>>

NothingToCheck(c) == ~c.forced /\ (c.disabled \/ c.recent)

\* Saves the date after the check only.
Decide_SaveLater(p) ==
    /\ pc[p] = "find"
    /\ mode' = [mode EXCEPT ![p] = IF local[p].forced THEN "findForced" ELSE "find"]
    /\ IF NothingToCheck(local[p])
       THEN Goto(p, "saveSkip") /\ UNCHANGED local
       ELSE /\ Goto(p, "clean")
            /\ local' = [local EXCEPT ![p].recent = TRUE, ![p].forced = FALSE]
    /\ UNCHANGED <<server, dirVars, version, download, up, histVars>>

Decide(p) ==
    /\ pc[p] = "find"
    /\ mode' = [mode EXCEPT ![p] = IF local[p].forced THEN "findForced" ELSE "find"]
    /\ IF NothingToCheck(local[p])
       THEN Goto(p, "saveSkip") /\ UNCHANGED local
       ELSE /\ Goto(p, "saveMark")
            /\ local' = [local EXCEPT ![p].recent = TRUE, ![p].forced = FALSE]
    /\ UNCHANGED <<server, dirVars, version, download, up, histVars>>

\* SaveConfig: the file is truncated, then written from the process's own copy.
OpenConfig(p) ==
    /\ pc[p] \in {"saveSkip", "saveMark", "saveDone"}
    /\ cfg' = TornCfg
    /\ Goto(p, CASE pc[p] = "saveSkip" -> "flushSkip" [] pc[p] = "saveMark" -> "flushMark"
                 [] pc[p] = "saveDone" -> "flushDone")
    /\ UNCHANGED <<server, installed, zip, tmp, mode, version, local, download, up, histVars>>

WriteConfig(p) ==
    /\ pc[p] \in {"flushSkip", "flushMark", "flushDone"}
    /\ cfg' = local[p]
    /\ Goto(p, CASE pc[p] = "flushSkip" -> "running" [] pc[p] = "flushMark" -> "clean"
                 [] pc[p] = "flushDone" -> "leaving")
    /\ UNCHANGED <<server, installed, zip, tmp, mode, version, local, download, up, histVars>>

-----------------------------------------------------------------------------
(* CheckUpdate.  "running" is where a process goes when it returns false or *)
(* throws: FindUpdate catches, and so does the command loop.                *)

\* The commands forceupdate and checkupdate.
Command(p) ==
    /\ pc[p] = "running" /\ p \in Acts /\ up[p].pc = "off"
    /\ \E c \in Commands : mode' = [mode EXCEPT ![p] = c]
    /\ Goto(p, "clean")
    /\ UNCHANGED <<server, dirVars, version, local, download, up, histVars>>

\* Removing the image of a running updater throws.
RemoveTmp(p) ==
    /\ pc[p] = "clean"
    /\ IF TmpRuns
       THEN Goto(p, "running") /\ UNCHANGED tmp
       ELSE /\ tmp' = Absent
            /\ Goto(p, IF mode[p] \in {"findForced", "force"} THEN "download" ELSE "fetch")
    /\ UNCHANGED <<server, installed, zip, cfg, mode, version, local, download, up, histVars>>

\* Answers whether there is a newer version; the user may refuse it, and a failure is
\* an answer too.  A check decided before the period ended is one of that period.
FetchVersion(p) ==
    /\ pc[p] = "fetch"
    /\ checks' = IF mode[p] = "find" /\ local[p].recent /\ ~overlap THEN checks + 1 ELSE checks
    /\ \/ server > version[p] /\ Goto(p, "download")
       \/ Goto(p, "running")
    /\ UNCHANGED <<server, dirVars, mode, version, local, download, up, overlap, damaged>>

Download(p) ==
    /\ pc[p] = "download"
    /\ download' = [download EXCEPT ![p] = server]
    /\ Goto(p, "write")
    /\ UNCHANGED <<server, dirVars, mode, version, local, up, histVars>>

\* The network or the file system refuses.
GiveUp(p) ==
    /\ pc[p] \in {"download", "write", "copy", "spawn"}
    /\ Goto(p, "running")
    /\ UNCHANGED <<server, dirVars, mode, version, local, download, up, histVars>>

OpenZip(p) ==
    /\ pc[p] = "write"
    /\ zip' = Torn
    /\ Goto(p, "flushZip")
    /\ UNCHANGED <<server, installed, tmp, cfg, mode, version, local, download, up, histVars>>

\* WriteFile reports no short write.
WriteZip(p) ==
    /\ pc[p] = "flushZip"
    /\ zip' \in {download[p], Torn}
    /\ Goto(p, "copy")
    /\ UNCHANGED <<server, installed, tmp, cfg, mode, version, local, download, up, histVars>>

\* filesystem::copy throws when the destination exists.
CopyUpdater(p) ==
    /\ pc[p] = "copy"
    /\ IF tmp # Absent
       THEN Goto(p, "running") /\ UNCHANGED tmp
       ELSE Goto(p, "spawn") /\ tmp' = installed["updater"]
    /\ UNCHANGED <<server, installed, zip, cfg, mode, version, local, download, up, histVars>>

Spawn(p) ==
    /\ pc[p] = "spawn"
    /\ IF tmp \notin Versions \/ up[p].pc # "off"
       THEN Goto(p, "running") /\ UNCHANGED <<up, local, checks>>
       ELSE /\ up' = [up EXCEPT ![p] = [Idle EXCEPT !.pc = "wait"]]
            /\ checks' = 0
            /\ CASE mode[p] \in {"find", "findForced"} ->
                       /\ local' = [local EXCEPT ![p].recent = FALSE]
                       /\ Goto(p, "saveDone")
                 [] mode[p] = "check" -> Goto(p, "leaving") /\ UNCHANGED local
                 [] mode[p] = "force" -> Goto(p, "running") /\ UNCHANGED local
    /\ UNCHANGED <<server, dirVars, mode, version, download, overlap, damaged>>

\* The end of main; an updater tool has nothing else to do.
Exit(p) ==
    /\ pc[p] \in {"leaving", "running"} /\ End(p)
    /\ UNCHANGED <<server, dirVars, up, histVars>>

-----------------------------------------------------------------------------
(* acts-updater-tmp.exe -U: wait, then ApplyUpdate.                        *)

\* Does not look at the processes.
Poll_NoWait(p) ==
    /\ up[p].pc = "wait"
    /\ up' = [up EXCEPT ![p].pc = "apply"]
    /\ UNCHANGED <<server, dirVars, procVars, histVars>>

\* Looks once too often.
Poll_OneMore(p) ==
    /\ up[p].pc = "wait"
    /\ up' = [up EXCEPT ![p] =
                 IF up[p].tries > MaxWait THEN Idle
                 ELSE IF ActsRuns THEN [up[p] EXCEPT !.tries = @ + 1]
                 ELSE [up[p] EXCEPT !.pc = "apply"]]
    /\ UNCHANGED <<server, dirVars, procVars, histVars>>

\* Waits as long as it takes.
Poll_NoLimit(p) ==
    /\ up[p].pc = "wait"
    /\ ~ActsRuns
    /\ up' = [up EXCEPT ![p].pc = "apply"]
    /\ UNCHANGED <<server, dirVars, procVars, histVars>>

Poll(p) ==
    /\ up[p].pc = "wait"
    /\ up' = [up EXCEPT ![p] =
                 IF up[p].tries = MaxWait THEN Idle
                 ELSE IF ActsRuns THEN [up[p] EXCEPT !.tries = @ + 1]
                 ELSE [up[p] EXCEPT !.pc = "apply"]]
    /\ UNCHANGED <<server, dirVars, procVars, histVars>>

\* The whole archive is read in memory; reading a torn one throws.  Nothing keeps a
\* second updater from extracting what another process has written there since.
ReadZip(p) ==
    /\ up[p].pc = "apply"
    /\ up' = [up EXCEPT ![p] =
                 IF zip \in Versions
                 THEN [up[p] EXCEPT !.pc = "extract", !.zip = zip, !.todo = Members]
                 ELSE Idle]
    /\ damaged' = (damaged \/ (zip \in Versions /\
                       \E q \in Procs : up[q].pc = "extract" /\ up[q].zip # zip))
    /\ UNCHANGED <<server, dirVars, procVars, checks, overlap>>

\* Reads each member from the archive on the disk.
Extract_FromDisk(p) ==
    /\ up[p].pc = "extract"
    /\ \E m \in up[p].todo :
          /\ up' = [up EXCEPT ![p].todo = @ \ {m}]
          /\ \/ ~Locked(m) /\ installed' = [installed EXCEPT ![m] = zip]
                /\ UNCHANGED damaged
             \/ damaged' = TRUE /\ UNCHANGED installed
    /\ UNCHANGED <<server, zip, tmp, cfg, procVars, checks, overlap>>

\* A file that cannot be opened is skipped; a short write is not noticed.
Extract(p) ==
    /\ up[p].pc = "extract"
    /\ \E m \in up[p].todo :
          /\ up' = [up EXCEPT ![p].todo = @ \ {m}]
          /\ \/ ~Locked(m) /\ installed' = [installed EXCEPT ![m] = up[p].zip]
                /\ UNCHANGED damaged
             \/ ~Locked(m) /\ installed' = [installed EXCEPT ![m] = Torn]
                /\ damaged' = TRUE
             \/ damaged' = TRUE /\ UNCHANGED installed
    /\ UNCHANGED <<server, zip, tmp, cfg, procVars, checks, overlap>>

\* "ACTS Updated to" the version file's name.
Announce(p) ==
    /\ up[p].pc = "extract" /\ up[p].todo = {}
    /\ up' = [up EXCEPT ![p] = Idle]
    /\ UNCHANGED <<server, dirVars, procVars, histVars>>

KillUpdater(p) ==
    /\ up[p].pc # "off"
    /\ up' = [up EXCEPT ![p] = Idle]
    /\ IF up[p].pc = "extract" /\ up[p].todo # {}
       THEN /\ damaged' = TRUE
            /\ \/ UNCHANGED installed
               \/ \E m \in up[p].todo : ~Locked(m) /\ installed' = [installed EXCEPT ![m] = Torn]
       ELSE UNCHANGED <<damaged, installed>>
    /\ UNCHANGED <<server, zip, tmp, cfg, procVars, checks, overlap>>

-----------------------------------------------------------------------------

FindUpdate(p)  == Launch(p) \/ Decide(p) \/ OpenConfig(p) \/ WriteConfig(p)
CheckUpdate(p) == RemoveTmp(p) \/ FetchVersion(p) \/ Download(p) \/ GiveUp(p) \/ OpenZip(p)
                    \/ WriteZip(p) \/ CopyUpdater(p) \/ Spawn(p)
ApplyUpdate(p) == Poll(p) \/ ReadZip(p) \/ Extract(p) \/ Announce(p)

Next ==
    \/ Publish \/ TimePasses
    \/ \E p \in Procs :
          \/ FindUpdate(p) \/ LaunchNoUpdater(p) \/ LaunchForce(p) \/ Command(p)
          \/ CheckUpdate(p) \/ ApplyUpdate(p) \/ Exit(p) \/ Kill(p) \/ KillUpdater(p)

\* A started updater is scheduled; a process of the user may stay for ever.
Spec == Init /\ [][Next]_vars /\ \A p \in Procs : WF_vars(ApplyUpdate(p))

-----------------------------------------------------------------------------
(* Properties.                                                             *)

\* Where a process is between two steps.
Labels == {"off", "find", "saveSkip", "flushSkip", "saveMark", "flushMark", "clean", "fetch",
           "download", "write", "flushZip", "copy", "spawn", "saveDone", "flushDone",
           "leaving", "running"}

\* Every variable keeps its type.
TypeOK ==
    /\ server \in Versions /\ installed \in [Members -> File]
    /\ zip \in File /\ tmp \in File /\ cfg \in Config \cup {TornCfg}
    /\ version \in [Procs -> File] /\ download \in [Procs -> File]
    /\ pc \in [Procs -> Labels] /\ mode \in [Procs -> {"find", "findForced", "force", "check"}]
    /\ local \in [Procs -> Config]
    /\ up \in [Procs -> [pc : {"off", "wait", "apply", "extract"}, tries : 0..MaxWait,
                         zip : File, todo : SUBSET Members]]
    /\ checks \in Nat /\ overlap \in BOOLEAN /\ damaged \in BOOLEAN

\* Whatever is killed, refused, torn or done by several processes at once, the
\* files of an installation are of one version as long as every extraction ran
\* to its end, left no file out (l.127-145), and had no other archive than those
\* that ran beside it.
InstallWhole ==
    ~damaged /\ (\A p \in Procs : up[p].pc # "extract") =>
        \E v \in Versions : \A m \in Members : installed[m] = v

\* An extraction never replaces a file with an older one, although the archive
\* may have been written by a process that asked the server long before: the
\* updater waits for such a process (main.cpp:41-60).
NoDowngrade ==
    [][\A m \in Members : installed'[m] >= installed[m] \/ installed[m] = Torn]_vars

\* FindUpdate asks the server once per timeDelta (l.177-187): failures, kills and
\* restarts do not make it ask again, nor does another program of the installation
\* that is started next, unless the config was lost or an update started.  Two
\* processes that are in FindUpdate at once may both ask; from then on nothing
\* is counted.
CheckedOnce == checks <= 1

\* An updater never waits or works for ever: it starts the extraction or gives up,
\* also when acts is never closed (main.cpp:57-60).
UpdatersEnd == \A p \in Procs : up[p].pc # "off" ~> up[p].pc = "off"
=============================================================================
