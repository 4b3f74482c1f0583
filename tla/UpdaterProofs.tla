--------------------------- MODULE UpdaterProofs ---------------------------
(***************************************************************************)
(* What holds of Updater for any number of processes, versions and files,  *)
(* and however long an updater waits.                                      *)
(***************************************************************************)
EXTENDS Updater, TLAPS

-----------------------------------------------------------------------------
(* The inductive invariants.                                               *)

\* The updaters that run have one archive, what they have put in place is from it, and
\* without them the installation is of one version; unless something was left out.
OneArchive ==
    \A p, q \in Procs : up[p].pc = "extract" /\ up[q].pc = "extract" =>
        up[p].zip \in Versions /\ up[p].zip = up[q].zip
PutInPlace ==
    \A p \in Procs : up[p].pc = "extract" =>
        \A m \in Members \ up[p].todo : installed[m] = up[p].zip
Whole ==
    (\A p \in Procs : up[p].pc # "extract") => \E v \in Versions : \A m \in Members : installed[m] = v

WholeInv == ~damaged => OneArchive /\ PutInPlace /\ Whole

\* A process of FindUpdate between its first save and its last.
Asking(p) == Looking(p) /\ pc[p] \in {"clean", "fetch", "download", "write", "flushZip", "copy", "spawn"}

\* A counted process, alone in FindUpdate, has saved what it has decided; once the server
\* was asked, the date is in the file and in what the process may write there, and no
\* process is on its way to ask again.
Alone == \A p, q \in Procs : Looking(p) /\ Looking(q) => p = q
Saved == \A p \in Procs : Asking(p) => cfg = local[p]
Dated(p) ==
    /\ local[p].recent /\ pc[p] \notin {"saveDone", "flushDone"}
    /\ mode[p] = "findForced" \/ pc[p] \notin {"saveMark", "flushMark", "clean", "fetch"}

\* Only FindUpdate reads and saves the configuration.
Configuring ==
    \A p \in Procs :
        pc[p] \in {"find", "saveSkip", "flushSkip", "saveMark", "flushMark", "saveDone", "flushDone"} =>
            mode[p] \in {"find", "findForced"}

CheckInv ==
    /\ Configuring
    /\ overlap => checks = 0
    /\ ~overlap => Alone /\ Saved
    /\ checks \in {0, 1}
    /\ checks = 1 => /\ cfg = TornCfg \/ cfg.recent
                     /\ \A p \in Procs : Looking(p) => Dated(p)

\* When the updater does not wait for a tool: an archive on its way is not older than a
\* file of the installation, and nobody brings one while an updater has stopped waiting.
NotOlder(v) == \A m \in Members : installed[m] = Torn \/ installed[m] <= v
Bringing == {"fetch", "download", "write", "flushZip", "copy", "spawn"}

AgeInv ==
    /\ NotOlder(server)
    /\ zip = Torn \/ zip <= server
    /\ zip \in Versions => NotOlder(zip)
    /\ \A p \in Procs : pc[p] \in {"write", "flushZip"} => NotOlder(download[p]) /\ download[p] <= server
    /\ (\E p \in Procs : up[p].pc \in {"apply", "extract"}) => \A q \in Procs : pc[q] \notin Bringing
    /\ \A p \in Procs : up[p].pc = "extract" => up[p].zip = zip /\ zip \in Versions

-----------------------------------------------------------------------------
(* The types.                                                              *)

Copy == [pc : {"off", "wait", "apply", "extract"}, tries : 0..MaxWait, zip : File,
         todo : SUBSET Members]
Modes == {"find", "findForced", "force", "check"}

LEMMA Basics ==
    /\ MaxVersion \in Nat \ {0} /\ MaxWait \in Nat
    /\ Absent \in File /\ Torn \in File /\ Versions \subseteq File /\ 1 \in Versions
    /\ Defaults \in Config /\ Idle \in Copy
    /\ {"exe", "updater", "version"} \subseteq Members
<1>1. MaxVersion \in Nat \ {0} /\ MaxWait \in Nat /\ {"exe", "updater", "version"} \subseteq Members
  BY UpdaterAssumption
<1>2. Absent \in File /\ Torn \in File /\ Versions \subseteq File /\ 1 \in Versions
  BY <1>1 DEF Absent, Torn, File, Versions
<1>3. Defaults \in Config
  BY DEF Defaults, Config
<1>4. Idle \in Copy
  BY <1>1, <1>2 DEF Idle, Copy
<1> QED BY <1>1, <1>2, <1>3, <1>4

\* The steps of a process that keep the directory and the updaters.
LEMMA EndType ==
    ASSUME TypeOK, NEW p \in Procs, End(p)
    PROVE  /\ pc' \in [Procs -> Labels] /\ mode' \in [Procs -> Modes]
           /\ version' \in [Procs -> File] /\ local' \in [Procs -> Config]
           /\ download' \in [Procs -> File]
<1>1. "off" \in Labels /\ "find" \in Modes
  BY DEF Labels, Modes
<1> QED BY <1>1, Basics DEF End, Goto, TypeOK, Modes

LEMMA GotoType ==
    ASSUME TypeOK, NEW p \in Procs, NEW l \in Labels, Goto(p, l)
    PROVE  /\ pc' \in [Procs -> Labels] /\ pc'[p] = l
           /\ \A q \in Procs : q # p => pc'[q] = pc[q]
BY DEF Goto, TypeOK

LEMMA TypeStep ==
    ASSUME TypeOK, [Next]_vars
    PROVE  TypeOK'
<1> USE Basics DEF Modes, Copy
<1>1. CASE Publish
  BY <1>1 DEF Publish, TypeOK, Versions, dirVars, procVars, histVars
<1>2. CASE TimePasses
  <2>1. cfg' \in Config \cup {TornCfg} /\ local' \in [Procs -> Config]
    BY <1>2 DEF TimePasses, TypeOK, Config
  <2> QED BY <1>2, <2>1 DEF TimePasses, TypeOK
<1>3. ASSUME NEW p \in Procs, Kill(p) \/ Exit(p) PROVE TypeOK'
  <2>1. End(p)
    BY <1>3 DEF Kill, Exit
  <2>2. UNCHANGED <<server, dirVars, up, histVars>>
    BY <1>3 DEF Kill, Exit
  <2>3. /\ pc' \in [Procs -> Labels] /\ mode' \in [Procs -> Modes]
        /\ version' \in [Procs -> File] /\ local' \in [Procs -> Config]
        /\ download' \in [Procs -> File]
    BY <2>1, EndType
  <2> QED BY <2>2, <2>3 DEF TypeOK, dirVars, histVars
<1>4. ASSUME NEW p \in Procs, Launch(p) PROVE TypeOK'
  <2>1. Goto(p, "find") /\ "find" \in Labels
    BY <1>4 DEF Launch, Labels
  <2>2. pc' \in [Procs -> Labels]
    BY <2>1, GotoType
  <2>3. ReadCfg \in Config
    BY DEF ReadCfg, TypeOK
  <2>4. version' \in [Procs -> File] /\ mode' \in [Procs -> Modes] /\ local' \in [Procs -> Config]
    BY <1>4, <2>3 DEF Launch, TypeOK
  <2>5. overlap' \in BOOLEAN
    BY <1>4, Zenon DEF Launch, TypeOK
  <2>6. checks' \in Nat
    BY <1>4 DEF Launch, TypeOK
  <2> QED BY <1>4, <2>2, <2>4, <2>5, <2>6 DEF Launch, TypeOK, dirVars
<1>5. ASSUME NEW p \in Procs, LaunchNoUpdater(p) PROVE TypeOK'
  <2>1. pc' \in [Procs -> Labels]
    BY <1>5, GotoType DEF LaunchNoUpdater, Labels
  <2>2. version' \in [Procs -> File]
    BY <1>5 DEF LaunchNoUpdater, TypeOK
  <2> QED BY <1>5, <2>1, <2>2 DEF LaunchNoUpdater, TypeOK, dirVars, histVars
<1>6. ASSUME NEW p \in Procs, LaunchForce(p) PROVE TypeOK'
  <2>1. pc' \in [Procs -> Labels]
    BY <1>6, GotoType DEF LaunchForce, Labels
  <2>2. version' \in [Procs -> File] /\ mode' \in [Procs -> Modes]
    BY <1>6 DEF LaunchForce, TypeOK
  <2> QED BY <1>6, <2>1, <2>2 DEF LaunchForce, TypeOK, dirVars, histVars
<1>7. ASSUME NEW p \in Procs, Decide(p) PROVE TypeOK'
  <2>1. pc' \in [Procs -> Labels]
    BY <1>7, GotoType DEF Decide, Labels
  <2>2. mode' \in [Procs -> Modes]
    BY <1>7 DEF Decide, TypeOK
  <2>3. local' \in [Procs -> Config]
    <3>1. local[p] \in Config
      BY DEF TypeOK
    <3>2. [local[p] EXCEPT !.recent = TRUE, !.forced = FALSE] \in Config
      BY <3>1 DEF Config
    <3>3. local' = local \/ local' = [local EXCEPT ![p].recent = TRUE, ![p].forced = FALSE]
      BY <1>7 DEF Decide
    <3> QED BY <3>2, <3>3 DEF TypeOK, Config
  <2> QED BY <1>7, <2>1, <2>2, <2>3 DEF Decide, TypeOK, dirVars, histVars
<1>8. ASSUME NEW p \in Procs, OpenConfig(p) PROVE TypeOK'
  <2>1. \E l \in Labels : Goto(p, l)
    BY <1>8 DEF OpenConfig, Labels
  <2>2. pc' \in [Procs -> Labels]
    BY <2>1, GotoType
  <2> QED BY <1>8, <2>2 DEF OpenConfig, TypeOK, histVars
<1>9. ASSUME NEW p \in Procs, WriteConfig(p) PROVE TypeOK'
  <2>1. \E l \in Labels : Goto(p, l)
    BY <1>9 DEF WriteConfig, Labels
  <2>2. pc' \in [Procs -> Labels]
    BY <2>1, GotoType
  <2> QED BY <1>9, <2>2 DEF WriteConfig, TypeOK, histVars
<1>10. ASSUME NEW p \in Procs, Command(p) PROVE TypeOK'
  <2>1. pc' \in [Procs -> Labels]
    BY <1>10, GotoType DEF Command, Labels
  <2>2. mode' \in [Procs -> Modes]
    BY <1>10, UpdaterAssumption DEF Command, TypeOK
  <2> QED BY <1>10, <2>1, <2>2 DEF Command, TypeOK, dirVars, histVars
<1>11. ASSUME NEW p \in Procs, RemoveTmp(p) PROVE TypeOK'
  <2>1. pc' \in [Procs -> Labels]
    BY <1>11, GotoType DEF RemoveTmp, Labels
  <2> QED BY <1>11, <2>1 DEF RemoveTmp, TypeOK, histVars
<1>12. ASSUME NEW p \in Procs, FetchVersion(p) PROVE TypeOK'
  <2>1. pc' \in [Procs -> Labels]
    BY <1>12, GotoType DEF FetchVersion, Labels
  <2>2. checks' \in Nat
    BY <1>12 DEF FetchVersion, TypeOK
  <2> QED BY <1>12, <2>1, <2>2 DEF FetchVersion, TypeOK, dirVars
<1>13. ASSUME NEW p \in Procs, Download(p) PROVE TypeOK'
  <2>1. pc' \in [Procs -> Labels]
    BY <1>13, GotoType DEF Download, Labels
  <2>2. download' \in [Procs -> File]
    BY <1>13 DEF Download, TypeOK
  <2> QED BY <1>13, <2>1, <2>2 DEF Download, TypeOK, dirVars, histVars
<1>14. ASSUME NEW p \in Procs, GiveUp(p) PROVE TypeOK'
  <2>1. pc' \in [Procs -> Labels]
    BY <1>14, GotoType DEF GiveUp, Labels
  <2> QED BY <1>14, <2>1 DEF GiveUp, TypeOK, dirVars, histVars
<1>15. ASSUME NEW p \in Procs, OpenZip(p) PROVE TypeOK'
  <2>1. pc' \in [Procs -> Labels]
    BY <1>15, GotoType DEF OpenZip, Labels
  <2> QED BY <1>15, <2>1 DEF OpenZip, TypeOK, histVars
<1>16. ASSUME NEW p \in Procs, WriteZip(p) PROVE TypeOK'
  <2>1. pc' \in [Procs -> Labels]
    BY <1>16, GotoType DEF WriteZip, Labels
  <2>2. zip' \in File
    BY <1>16 DEF WriteZip, TypeOK
  <2> QED BY <1>16, <2>1, <2>2 DEF WriteZip, TypeOK, histVars
<1>17. ASSUME NEW p \in Procs, CopyUpdater(p) PROVE TypeOK'
  <2>1. pc' \in [Procs -> Labels]
    BY <1>17, GotoType DEF CopyUpdater, Labels
  <2>2. tmp' \in File
    BY <1>17 DEF CopyUpdater, TypeOK
  <2> QED BY <1>17, <2>1, <2>2 DEF CopyUpdater, TypeOK, histVars
<1>18. ASSUME NEW p \in Procs, Spawn(p) PROVE TypeOK'
  <2>0. mode[p] \in Modes
    BY DEF TypeOK
  <2>1. \E l \in Labels : Goto(p, l)
    BY <1>18, <2>0 DEF Spawn, Labels
  <2>2. pc' \in [Procs -> Labels]
    BY <2>1, GotoType
  <2>3. up' \in [Procs -> Copy]
    <3>1. [Idle EXCEPT !.pc = "wait"] \in Copy
      BY DEF Idle
    <3>2. up \in [Procs -> Copy]
      BY DEF TypeOK
    <3> DEFINE c == [Idle EXCEPT !.pc = "wait"]
    <3>3. up' = up \/ up' = [up EXCEPT ![p] = c]
      BY <1>18 DEF Spawn
    <3> HIDE DEF Copy, c
    <3> QED BY <3>1, <3>2, <3>3 DEF c
  <2>4. local' \in [Procs -> Config]
    <3>1. local' = local \/ local' = [local EXCEPT ![p].recent = FALSE]
      BY <1>18, <2>0 DEF Spawn
    <3>2. [local[p] EXCEPT !.recent = FALSE] \in Config /\ local \in [Procs -> Config]
      BY DEF TypeOK, Config
    <3>3. local' = local \/ local' = [local EXCEPT ![p] = [local[p] EXCEPT !.recent = FALSE]]
      BY <3>1
    <3> QED BY <3>2, <3>3
  <2>5. checks' \in Nat
    <3>1. checks' = checks \/ checks' = 0
      BY <1>18 DEF Spawn
    <3> QED BY <3>1 DEF TypeOK
  <2> QED BY <1>18, <2>2, <2>3, <2>4, <2>5 DEF Spawn, TypeOK, dirVars
<1>19. ASSUME NEW p \in Procs, NEW c \in Copy, up' = [up EXCEPT ![p] = c]
       PROVE  up' \in [Procs -> Copy]
  <2> HIDE DEF Copy
  <2> QED BY <1>19 DEF TypeOK, Copy
<1>20. ASSUME NEW p \in Procs, Poll(p) PROVE TypeOK'
  <2>1. \E c \in Copy : up' = [up EXCEPT ![p] = c]
    <3>0. up[p] \in Copy
      BY DEF TypeOK
    <3>1. up[p].tries # MaxWait => [up[p] EXCEPT !.tries = @ + 1] \in Copy
      BY <3>0
    <3>2. [up[p] EXCEPT !.pc = "apply"] \in Copy
      BY <3>0
    <3> HIDE DEF Copy
    <3> QED BY <1>20, <3>1, <3>2 DEF Poll
  <2> QED BY <1>19, <1>20, <2>1 DEF Poll, TypeOK, dirVars, procVars, histVars
<1>21. ASSUME NEW p \in Procs, ReadZip(p) PROVE TypeOK'
  <2>1. \E c \in Copy : up' = [up EXCEPT ![p] = c]
    <3>0. up[p] \in Copy
      BY DEF TypeOK
    <3>1. ASSUME zip \in Versions
          PROVE  [up[p] EXCEPT !.pc = "extract", !.zip = zip, !.todo = Members] \in Copy
      <4>1. zip \in File
        BY <3>1
      <4> QED BY <3>0, <4>1
    <3>2. up' = [up EXCEPT ![p] =
                   IF zip \in Versions
                   THEN [up[p] EXCEPT !.pc = "extract", !.zip = zip, !.todo = Members]
                   ELSE Idle]
      BY <1>21 DEF ReadZip
    <3> HIDE DEF Copy
    <3> QED BY <3>1, <3>2
  <2>2. damaged' \in BOOLEAN
    BY <1>21, Zenon DEF ReadZip
  <2> QED BY <1>19, <1>21, <2>1, <2>2 DEF ReadZip, TypeOK, dirVars, procVars
<1>22. ASSUME NEW p \in Procs, Extract(p) PROVE TypeOK'
  <2>1. PICK m \in up[p].todo :
           /\ up' = [up EXCEPT ![p].todo = @ \ {m}]
           /\ \/ ~Locked(m) /\ installed' = [installed EXCEPT ![m] = up[p].zip] /\ UNCHANGED damaged
              \/ ~Locked(m) /\ installed' = [installed EXCEPT ![m] = Torn] /\ damaged' = TRUE
              \/ damaged' = TRUE /\ UNCHANGED installed
    BY <1>22 DEF Extract
  <2>2. up[p] \in Copy /\ up[p].zip \in File
    BY DEF TypeOK
  <2>3. [up[p] EXCEPT !.todo = @ \ {m}] \in Copy
    BY <2>2
  <2>4. up' = [up EXCEPT ![p] = [up[p] EXCEPT !.todo = @ \ {m}]]
    BY <2>1
  <2>5. up' \in [Procs -> Copy]
    BY <1>19, <2>3, <2>4
  <2>6. installed' \in [Members -> File]
    <3>1. \E f \in File : installed' = [installed EXCEPT ![m] = f] \/ installed' = installed
      BY <2>1, <2>2
    <3> QED BY <3>1 DEF TypeOK
  <2>7. damaged' \in BOOLEAN
    <3>1. damaged' = damaged \/ damaged' = TRUE
      BY <2>1
    <3> QED BY <3>1, Zenon DEF TypeOK
  <2> QED BY <1>22, <2>5, <2>6, <2>7 DEF Extract, TypeOK, procVars
<1>23. ASSUME NEW p \in Procs, Announce(p) PROVE TypeOK'
  <2>1. up' = [up EXCEPT ![p] = Idle]
    BY <1>23 DEF Announce
  <2>2. up' \in [Procs -> Copy]
    BY <1>19, <2>1
  <2> QED BY <1>23, <2>2 DEF Announce, TypeOK, dirVars, procVars, histVars
<1>24. ASSUME NEW p \in Procs, KillUpdater(p) PROVE TypeOK'
  <2>1. up' = [up EXCEPT ![p] = Idle]
    BY <1>24 DEF KillUpdater
  <2>2. up' \in [Procs -> Copy]
    BY <1>19, <2>1
  <2>3. installed' \in [Members -> File] /\ damaged' \in BOOLEAN
    BY <1>24 DEF KillUpdater, TypeOK
  <2> QED BY <1>24, <2>2, <2>3 DEF KillUpdater, TypeOK, procVars
<1>25. CASE UNCHANGED vars
  BY <1>25 DEF vars, TypeOK, dirVars, procVars, histVars
<1> QED
  BY <1>1, <1>2, <1>3, <1>4, <1>5, <1>6, <1>7, <1>8, <1>9, <1>10, <1>11, <1>12, <1>13, <1>14,
     <1>15, <1>16, <1>17, <1>18, <1>20, <1>21, <1>22, <1>23, <1>24, <1>25
  DEF Next, FindUpdate, CheckUpdate, ApplyUpdate

-----------------------------------------------------------------------------
(* The extractions.                                                        *)

\* What the steps of a copy do to the copies.
LEMMA CopyFacts ==
    ASSUME TypeOK, NEW p \in Procs, NEW c, up' = [up EXCEPT ![p] = c]
    PROVE  up'[p] = c /\ \A q \in Procs : q # p => up'[q] = up[q]
BY DEF TypeOK

LEMMA PollFacts ==
    ASSUME TypeOK, NEW p \in Procs, Poll(p)
    PROVE  /\ up[p].pc = "wait" /\ up'[p].pc \in {"off", "wait", "apply"}
           /\ up'[p].pc = "apply" => ~ActsRuns
           /\ \A q \in Procs : q # p => up'[q] = up[q]
           /\ UNCHANGED <<server, dirVars, procVars, histVars>>
<1> DEFINE more == [up[p] EXCEPT !.tries = @ + 1]
           done == [up[p] EXCEPT !.pc = "apply"]
           c    == IF up[p].tries = MaxWait THEN Idle ELSE IF ActsRuns THEN more ELSE done
<1>1. up[p] \in Copy
  BY DEF TypeOK, Copy
<1>2. up' = [up EXCEPT ![p] = c] /\ up[p].pc = "wait" /\ UNCHANGED <<server, dirVars, procVars, histVars>>
  BY DEF Poll
<1>3. more.pc = up[p].pc /\ done.pc = "apply" /\ Idle.pc = "off"
  BY <1>1 DEF Copy, Idle
<1> HIDE DEF more, done
<1>4. c.pc \in {"off", "wait", "apply"} /\ (c.pc = "apply" => ~ActsRuns)
  BY <1>2, <1>3
<1> HIDE DEF c
<1>5. up'[p] = c /\ \A q \in Procs : q # p => up'[q] = up[q]
  BY <1>2, CopyFacts
<1> QED BY <1>2, <1>4, <1>5

LEMMA ReadZipFacts ==
    ASSUME TypeOK, NEW p \in Procs, ReadZip(p)
    PROVE  /\ up[p].pc = "apply"
           /\ \A q \in Procs : q # p => up'[q] = up[q]
           /\ IF zip \in Versions
              THEN up'[p].pc = "extract" /\ up'[p].zip = zip /\ up'[p].todo = Members
              ELSE up'[p].pc = "off"
           /\ damaged' = (damaged \/ (zip \in Versions /\
                             \E q \in Procs : up[q].pc = "extract" /\ up[q].zip # zip))
           /\ UNCHANGED <<server, dirVars, procVars, checks, overlap>>
<1> DEFINE read == [up[p] EXCEPT !.pc = "extract", !.zip = zip, !.todo = Members]
           c    == IF zip \in Versions THEN read ELSE Idle
<1>1. up[p] \in Copy
  BY DEF TypeOK, Copy
<1>2. up' = [up EXCEPT ![p] = c]
  BY DEF ReadZip
<1>3. read.pc = "extract" /\ read.zip = zip /\ read.todo = Members /\ Idle.pc = "off"
  BY <1>1 DEF Copy, Idle
<1> HIDE DEF read
<1>4. IF zip \in Versions THEN c.pc = "extract" /\ c.zip = zip /\ c.todo = Members ELSE c.pc = "off"
  BY <1>3
<1> HIDE DEF c
<1>5. up'[p] = c /\ \A q \in Procs : q # p => up'[q] = up[q]
  BY <1>2, CopyFacts
<1>6. IF zip \in Versions
      THEN up'[p].pc = "extract" /\ up'[p].zip = zip /\ up'[p].todo = Members
      ELSE up'[p].pc = "off"
  BY <1>4, <1>5
<1> QED BY <1>5, <1>6 DEF ReadZip

LEMMA ExtractFacts ==
    ASSUME TypeOK, NEW p \in Procs, Extract(p)
    PROVE  \E m \in up[p].todo :
              /\ up[p].pc = "extract" /\ m \in Members
              /\ up'[p].pc = "extract" /\ up'[p].zip = up[p].zip /\ up'[p].todo = up[p].todo \ {m}
              /\ \A q \in Procs : q # p => up'[q] = up[q]
              /\ \A n \in Members : n # m => installed'[n] = installed[n]
              /\ \/ installed'[m] = up[p].zip /\ UNCHANGED damaged
                 \/ installed'[m] = Torn /\ damaged' = TRUE
                 \/ UNCHANGED installed /\ damaged' = TRUE
              /\ UNCHANGED <<server, zip, tmp, cfg, procVars, checks, overlap>>
<1>1. up[p] \in Copy /\ installed \in [Members -> File]
  BY DEF TypeOK, Copy
<1>2. PICK m \in up[p].todo :
         /\ up' = [up EXCEPT ![p].todo = @ \ {m}]
         /\ \/ ~Locked(m) /\ installed' = [installed EXCEPT ![m] = up[p].zip] /\ UNCHANGED damaged
            \/ ~Locked(m) /\ installed' = [installed EXCEPT ![m] = Torn] /\ damaged' = TRUE
            \/ damaged' = TRUE /\ UNCHANGED installed
  BY DEF Extract
<1>3. m \in Members
  BY <1>1 DEF Copy
<1>4. up'[p] = [up[p] EXCEPT !.todo = @ \ {m}] /\ \A q \in Procs : q # p => up'[q] = up[q]
  BY <1>2 DEF TypeOK
<1>5. up'[p].pc = up[p].pc /\ up'[p].zip = up[p].zip /\ up'[p].todo = up[p].todo \ {m}
  BY <1>1, <1>4 DEF Copy
<1>6. \/ installed'[m] = up[p].zip /\ UNCHANGED damaged
      \/ installed'[m] = Torn /\ damaged' = TRUE
      \/ UNCHANGED installed /\ damaged' = TRUE
  BY <1>1, <1>2, <1>3
<1>7. \A n \in Members : n # m => installed'[n] = installed[n]
  BY <1>1, <1>2, <1>3
<1> QED BY <1>3, <1>4, <1>5, <1>6, <1>7 DEF Extract

LEMMA EndOfCopy ==
    ASSUME TypeOK, NEW p \in Procs, Announce(p) \/ KillUpdater(p)
    PROVE  /\ up'[p].pc = "off" /\ \A q \in Procs : q # p => up'[q] = up[q]
           /\ \/ UNCHANGED installed
              \/ \E m \in Members : /\ up[p].pc = "extract" /\ m \in up[p].todo
                                    /\ installed'[m] = Torn
                                    /\ \A n \in Members : n # m => installed'[n] = installed[n]
           /\ damaged' \/ (~damaged /\ UNCHANGED installed /\ (up[p].pc = "extract" => up[p].todo = {}))
           /\ UNCHANGED <<server, zip, tmp, cfg, procVars, checks, overlap>>
           /\ ~damaged' => ~damaged
<1>1. up' = [up EXCEPT ![p] = Idle]
  BY DEF Announce, KillUpdater
<1>2. up'[p].pc = "off" /\ \A q \in Procs : q # p => up'[q] = up[q]
  <2>1. up'[p] = Idle /\ \A q \in Procs : q # p => up'[q] = up[q]
    BY <1>1, CopyFacts
  <2> QED BY <2>1 DEF Idle
<1>3. CASE Announce(p)
  <2>1. UNCHANGED <<server, installed, zip, tmp, cfg, procVars, checks, overlap, damaged>>
        /\ up[p].todo = {}
    BY <1>3 DEF Announce, dirVars, histVars
  <2>2. damaged' \/ ~damaged
    BY <2>1, Zenon DEF TypeOK
  <2> QED BY <1>2, <2>1, <2>2
<1>4. CASE KillUpdater(p)
  <2>1. up[p] \in Copy /\ installed \in [Members -> File]
    BY DEF TypeOK, Copy
  <2>2. UNCHANGED <<server, zip, tmp, cfg, procVars, checks, overlap>>
    BY <1>4 DEF KillUpdater
  <2>3. CASE up[p].pc = "extract" /\ up[p].todo # {}
    <3>1. damaged' = TRUE /\ (UNCHANGED installed \/
             \E m \in up[p].todo : installed' = [installed EXCEPT ![m] = Torn])
      BY <1>4, <2>3 DEF KillUpdater
    <3>2. \A m \in up[p].todo : m \in Members
      BY <2>1 DEF Copy
    <3>3. CASE UNCHANGED installed
      BY <1>2, <2>2, <3>1, <3>3
    <3>4. CASE ~UNCHANGED installed
      <4>1. PICK m \in up[p].todo : installed' = [installed EXCEPT ![m] = Torn]
        BY <3>1, <3>4
      <4>2. m \in Members /\ installed'[m] = Torn
            /\ \A n \in Members : n # m => installed'[n] = installed[n]
        BY <2>1, <3>2, <4>1
      <4> QED BY <1>2, <2>2, <2>3, <3>1, <4>2
    <3> QED BY <3>3, <3>4
  <2>4. CASE ~(up[p].pc = "extract" /\ up[p].todo # {})
    BY <1>2, <1>4, <2>2, <2>4 DEF KillUpdater
  <2> QED BY <2>3, <2>4
<1> QED BY <1>3, <1>4

\* A copy that starts waits.
LEMMA SpawnFacts ==
    ASSUME TypeOK, NEW p \in Procs, Spawn(p)
    PROVE  /\ UNCHANGED <<server, installed, zip, tmp, cfg, mode, version, download, overlap, damaged>>
           /\ pc[p] = "spawn" /\ \A q \in Procs : q # p => up'[q] = up[q]
           /\ up'[p] = up[p] \/ (up[p].pc = "off" /\ up'[p].pc = "wait")
<1>1. up' = up \/ (up[p].pc = "off" /\ up' = [up EXCEPT ![p] = [Idle EXCEPT !.pc = "wait"]])
  BY DEF Spawn
<1>2. [Idle EXCEPT !.pc = "wait"].pc = "wait"
  BY DEF Idle
<1>3. up' = up \/ (up[p].pc = "off" /\ up'[p].pc = "wait" /\ \A q \in Procs : q # p => up'[q] = up[q])
  BY <1>1, <1>2, CopyFacts
<1> QED BY <1>3 DEF Spawn, dirVars

\* The steps that no copy takes.
LEMMA OtherSteps ==
    ASSUME NEW p \in Procs,
           \/ FindUpdate(p) \/ LaunchNoUpdater(p) \/ LaunchForce(p) \/ Command(p)
           \/ (CheckUpdate(p) /\ ~Spawn(p)) \/ Exit(p) \/ Kill(p)
    PROVE  UNCHANGED <<server, installed, up, damaged>>
BY DEF FindUpdate, Launch, Decide, OpenConfig, WriteConfig, LaunchNoUpdater, LaunchForce, Command,
       CheckUpdate, RemoveTmp, FetchVersion, Download, GiveUp, OpenZip, WriteZip, CopyUpdater,
       Exit, Kill, dirVars, histVars

LEMMA WholeStep ==
    ASSUME TypeOK, WholeInv, [Next]_vars
    PROVE  WholeInv'
<1>1. ASSUME UNCHANGED <<installed, damaged>>,
             \A q \in Procs : up'[q] = up[q] \/ (up[q].pc # "extract" /\ up'[q].pc # "extract")
      PROVE  WholeInv'
  BY <1>1 DEF WholeInv, OneArchive, PutInPlace, Whole
<1>2. ASSUME NEW p \in Procs, Poll(p) PROVE WholeInv'
  <2>1. up[p].pc # "extract" /\ up'[p].pc # "extract" /\ UNCHANGED <<installed, damaged>>
        /\ \A q \in Procs : q # p => up'[q] = up[q]
    BY <1>2, PollFacts DEF dirVars, histVars
  <2> QED BY <1>1, <2>1
<1>3. ASSUME NEW p \in Procs, Spawn(p) PROVE WholeInv'
  <2>1. /\ UNCHANGED <<installed, damaged>> /\ \A q \in Procs : q # p => up'[q] = up[q]
        /\ up'[p] = up[p] \/ (up[p].pc # "extract" /\ up'[p].pc # "extract")
    BY <1>3, SpawnFacts
  <2> QED BY <1>1, <2>1
<1>4. ASSUME NEW p \in Procs, ReadZip(p) PROVE WholeInv'
  <2>1. CASE zip \notin Versions
    <3>1. up[p].pc # "extract" /\ up'[p].pc # "extract" /\ UNCHANGED <<installed, damaged>>
          /\ \A q \in Procs : q # p => up'[q] = up[q]
      <4>1. damaged' = damaged
        BY <1>4, <2>1, ReadZipFacts DEF TypeOK
      <4> QED BY <1>4, <2>1, <4>1, ReadZipFacts DEF dirVars
    <3> QED BY <1>1, <3>1
  <2>2. CASE zip \in Versions
    <3> SUFFICES ASSUME ~damaged' PROVE OneArchive' /\ PutInPlace' /\ Whole'
      BY DEF WholeInv
    <3>1. /\ UNCHANGED installed /\ up'[p].pc = "extract" /\ up'[p].zip = zip
          /\ up'[p].todo = Members /\ \A q \in Procs : q # p => up'[q] = up[q]
          /\ ~damaged /\ \A q \in Procs : up[q].pc = "extract" => up[q].zip = zip
      BY <1>4, <2>2, ReadZipFacts DEF dirVars
    <3>2. OneArchive'
      BY <2>2, <3>1 DEF OneArchive
    <3>3. PutInPlace'
      BY <3>1 DEF WholeInv, PutInPlace
    <3>4. Whole'
      BY <3>1 DEF Whole
    <3> QED BY <3>2, <3>3, <3>4
  <2> QED BY <2>1, <2>2
<1>5. ASSUME NEW p \in Procs, Extract(p) PROVE WholeInv'
  <2> SUFFICES ASSUME ~damaged' PROVE OneArchive' /\ PutInPlace' /\ Whole'
    BY DEF WholeInv
  <2>1. PICK m \in up[p].todo :
           /\ up[p].pc = "extract" /\ m \in Members
           /\ up'[p].pc = "extract" /\ up'[p].zip = up[p].zip /\ up'[p].todo = up[p].todo \ {m}
           /\ \A q \in Procs : q # p => up'[q] = up[q]
           /\ \A n \in Members : n # m => installed'[n] = installed[n]
           /\ installed'[m] = up[p].zip /\ UNCHANGED damaged
    BY <1>5, ExtractFacts
  <2>2. OneArchive /\ PutInPlace
    BY <2>1 DEF WholeInv
  <2>3. \A q \in Procs : up'[q].pc = up[q].pc /\ up'[q].zip = up[q].zip
    BY <2>1
  <2>4. OneArchive'
    BY <2>2, <2>3 DEF OneArchive
  <2>5. PutInPlace'
    <3> SUFFICES ASSUME NEW q \in Procs, up'[q].pc = "extract", NEW n \in Members \ up'[q].todo
                 PROVE  installed'[n] = up'[q].zip
      BY DEF PutInPlace
    <3>1. up[q].pc = "extract" /\ up'[q].zip = up[p].zip /\ up[q].zip = up[p].zip
      BY <2>1, <2>2, <2>3 DEF OneArchive
    <3>2. CASE n = m
      BY <2>1, <3>1, <3>2
    <3>3. CASE n # m
      <4>1. n \in Members \ up[q].todo
        BY <2>1, <3>3
      <4> QED BY <2>1, <2>2, <3>1, <3>3, <4>1 DEF PutInPlace
    <3> QED BY <3>2, <3>3
  <2>6. Whole'
    BY <2>1 DEF Whole
  <2> QED BY <2>4, <2>5, <2>6
<1>6. ASSUME NEW p \in Procs, Announce(p) \/ KillUpdater(p) PROVE WholeInv'
  <2> SUFFICES ASSUME ~damaged' PROVE OneArchive' /\ PutInPlace' /\ Whole'
    BY DEF WholeInv
  <2>1. /\ up'[p].pc = "off" /\ \A q \in Procs : q # p => up'[q] = up[q]
        /\ ~damaged /\ UNCHANGED installed /\ (up[p].pc = "extract" => up[p].todo = {})
    BY <1>6, EndOfCopy
  <2>2. OneArchive /\ PutInPlace /\ Whole
    BY <2>1 DEF WholeInv
  <2>3. OneArchive' /\ PutInPlace'
    BY <2>1, <2>2 DEF OneArchive, PutInPlace
  <2>4. Whole'
    <3>1. CASE up[p].pc = "extract"
      <4>1. \A m \in Members : installed[m] = up[p].zip
        BY <2>1, <2>2, <3>1 DEF PutInPlace
      <4>2. up[p].zip \in Versions
        BY <2>2, <3>1 DEF OneArchive
      <4> QED BY <2>1, <4>1, <4>2 DEF Whole
    <3>2. CASE up[p].pc # "extract"
      BY <2>1, <2>2, <3>2 DEF Whole
    <3> QED BY <3>1, <3>2
  <2> QED BY <2>3, <2>4
<1>7. ASSUME NEW p \in Procs,
             \/ FindUpdate(p) \/ LaunchNoUpdater(p) \/ LaunchForce(p) \/ Command(p)
             \/ (CheckUpdate(p) /\ ~Spawn(p)) \/ Exit(p) \/ Kill(p)
      PROVE  WholeInv'
  BY <1>1, <1>7, OtherSteps
<1>8. CASE Publish \/ TimePasses \/ UNCHANGED vars
  <2>1. UNCHANGED <<installed, up, damaged>>
    BY <1>8 DEF Publish, TimePasses, vars, dirVars, histVars
  <2> QED BY <1>1, <2>1
<1> QED BY <1>2, <1>3, <1>4, <1>5, <1>6, <1>7, <1>8 DEF Next, ApplyUpdate

-----------------------------------------------------------------------------
(* The checks.                                                             *)

\* The steps of a process.
ProcStep(p) ==
    \/ FindUpdate(p) \/ LaunchNoUpdater(p) \/ LaunchForce(p) \/ Command(p)
    \/ CheckUpdate(p) \/ Exit(p) \/ Kill(p)

\* They leave the other processes alone.
LEMMA OthersKept ==
    ASSUME TypeOK, NEW p \in Procs, ProcStep(p), NEW q \in Procs, q # p
    PROVE  pc'[q] = pc[q] /\ mode'[q] = mode[q] /\ local'[q] = local[q]
<1>0. DOMAIN pc = Procs /\ DOMAIN mode = Procs /\ DOMAIN local = Procs
      /\ pc = [r \in Procs |-> pc[r]] /\ mode = [r \in Procs |-> mode[r]]
      /\ local = [r \in Procs |-> local[r]]
  BY DEF TypeOK
<1>1. pc'[q] = pc[q]
  <2>1. \E l \in Labels : Goto(p, l)
    <3>1. ASSUME Spawn(p) PROVE \E l \in Labels : Goto(p, l)
      <4>1. mode[p] \in Modes
        BY DEF TypeOK, Modes
      <4> QED BY <3>1, <4>1 DEF Spawn, Modes, Labels
    <3>2. ASSUME FindUpdate(p) PROVE \E l \in Labels : Goto(p, l)
      BY <3>2 DEF FindUpdate, Launch, Decide, OpenConfig, WriteConfig, Labels
    <3>3. ASSUME CheckUpdate(p), ~Spawn(p) PROVE \E l \in Labels : Goto(p, l)
      BY <3>3 DEF CheckUpdate, RemoveTmp, FetchVersion, Download, GiveUp, OpenZip, WriteZip,
         CopyUpdater, Labels
    <3>4. ASSUME LaunchNoUpdater(p) \/ LaunchForce(p) \/ Command(p) \/ Exit(p) \/ Kill(p)
          PROVE  \E l \in Labels : Goto(p, l)
      BY <3>4 DEF LaunchNoUpdater, LaunchForce, Command, Exit, Kill, End, Labels
    <3> QED BY <3>1, <3>2, <3>3, <3>4 DEF ProcStep
  <2> QED BY <2>1, GotoType
<1>2. mode' = mode \/ \E x : mode' = [mode EXCEPT ![p] = x]
  <2>1. ASSUME FindUpdate(p) PROVE mode' = mode \/ \E x : mode' = [mode EXCEPT ![p] = x]
    BY <2>1 DEF FindUpdate, Launch, Decide, OpenConfig, WriteConfig
  <2>2. ASSUME CheckUpdate(p) PROVE mode' = mode
    BY <2>2 DEF CheckUpdate, RemoveTmp, FetchVersion, Download, GiveUp, OpenZip, WriteZip,
       CopyUpdater, Spawn
  <2>3. ASSUME LaunchNoUpdater(p) \/ LaunchForce(p) \/ Command(p) \/ Exit(p) \/ Kill(p)
        PROVE  mode' = mode \/ \E x : mode' = [mode EXCEPT ![p] = x]
    BY <2>3 DEF LaunchNoUpdater, LaunchForce, Command, Exit, Kill, End
  <2> QED BY <2>1, <2>2, <2>3 DEF ProcStep
<1>3. local' = local \/ \E x : local' = [local EXCEPT ![p] = x]
  <2>1. ASSUME Decide(p) \/ Spawn(p) PROVE local' = local \/ \E x : local' = [local EXCEPT ![p] = x]
    <3>1. mode[p] \in Modes
      BY DEF TypeOK, Modes
    <3>2. \/ local' = local
          \/ local' = [local EXCEPT ![p] = [local[p] EXCEPT !.recent = TRUE, !.forced = FALSE]]
          \/ local' = [local EXCEPT ![p] = [local[p] EXCEPT !.recent = FALSE]]
      BY <2>1, <3>1 DEF Decide, Spawn, Modes
    <3> QED BY <3>2
  <2>2. ASSUME FindUpdate(p), ~Decide(p)
        PROVE  local' = local \/ \E x : local' = [local EXCEPT ![p] = x]
    BY <2>2 DEF FindUpdate, Launch, OpenConfig, WriteConfig
  <2>3. ASSUME CheckUpdate(p), ~Spawn(p) PROVE local' = local
    BY <2>3 DEF CheckUpdate, RemoveTmp, FetchVersion, Download, GiveUp, OpenZip, WriteZip,
       CopyUpdater
  <2>4. ASSUME LaunchNoUpdater(p) \/ LaunchForce(p) \/ Command(p) \/ Exit(p) \/ Kill(p)
        PROVE  local' = local \/ \E x : local' = [local EXCEPT ![p] = x]
    BY <2>4 DEF LaunchNoUpdater, LaunchForce, Command, Exit, Kill, End
  <2> QED BY <2>1, <2>2, <2>3, <2>4 DEF ProcStep
<1> QED BY <1>0, <1>1, <1>2, <1>3

\* A step after which a process is not nearer to asking, or to writing what it holds.
LEMMA QuietStep ==
    ASSUME TypeOK, CheckInv, NEW p \in Procs, ProcStep(p),
           UNCHANGED <<cfg, checks, overlap>>,
           Looking(p)' => /\ Looking(p) /\ local'[p] = local[p] /\ mode'[p] = mode[p]
                          /\ pc'[p] \in {"fetch", "download", "write", "flushZip", "copy", "spawn"}
                          /\ Asking(p)
                          /\ pc'[p] = "fetch" => pc[p] = "clean" \/ pc[p] = "fetch",
           ~Looking(p)' => pc'[p] \in {"off", "running", "leaving", "clean", "download", "fetch",
                                       "write", "flushZip", "copy", "spawn"}
    PROVE  CheckInv'
<1>1. \A q \in Procs : q # p => pc'[q] = pc[q] /\ mode'[q] = mode[q] /\ local'[q] = local[q]
  BY OthersKept
<1>2. \A q \in Procs : Looking(q)' => Looking(q)
  BY <1>1 DEF Looking
<1>3. \A q \in Procs : Asking(q)' => Asking(q) /\ local'[q] = local[q]
  BY <1>1 DEF Asking, Looking
<1>4. \A q \in Procs : Looking(q)' /\ Dated(q) => Dated(q)'
  BY <1>1 DEF Looking, Dated
<1>5. Configuring'
  BY <1>1 DEF CheckInv, Configuring, Looking
<1> QED BY <1>2, <1>3, <1>4, <1>5 DEF CheckInv, Alone, Saved

LEMMA CheckStep ==
    ASSUME TypeOK, CheckInv, [Next]_vars
    PROVE  CheckInv'
<1>0. /\ overlap \in BOOLEAN /\ checks \in {0, 1} /\ Configuring
      /\ \A q \in Procs : local[q] \in Config /\ local[q] # TornCfg
      /\ cfg \in Config \cup {TornCfg}
  <2>1. \A c \in Config : c # TornCfg
    BY DEF Config, TornCfg
  <2> QED BY <2>1 DEF TypeOK, CheckInv
\* Another process, while p is one of FindUpdate or becomes one alone.
<1>1. ASSUME NEW p \in Procs, Launch(p) PROVE CheckInv'
  <2>1. /\ pc'[p] = "find" /\ mode'[p] = "find" /\ local'[p] = ReadCfg /\ UNCHANGED cfg
        /\ overlap' = (overlap \/ \E q \in Procs : Looking(q))
        /\ checks' = IF cfg = TornCfg \/ overlap' THEN 0 ELSE checks
    BY <1>1 DEF Launch, Goto, TypeOK, dirVars
  <2>2. \A q \in Procs : q # p => pc'[q] = pc[q] /\ mode'[q] = mode[q] /\ local'[q] = local[q]
    BY <1>1, OthersKept DEF ProcStep, FindUpdate
  <2>3. Configuring'
    BY <1>0, <2>1, <2>2 DEF Configuring
  <2>4. CASE overlap'
    BY <2>1, <2>3, <2>4 DEF CheckInv
  <2>5. CASE ~overlap'
    <3>1. ~overlap /\ \A q \in Procs : ~Looking(q)
      BY <2>1, <2>5
    <3>2. \A q \in Procs : Looking(q)' => q = p
      BY <2>2, <3>1 DEF Looking
    <3>3. Alone' /\ Saved'
      BY <2>1, <3>2 DEF Alone, Saved, Asking
    <3>4. checks' \in {0, 1}
      BY <1>0, <2>1
    <3>5. ASSUME checks' = 1 PROVE cfg'.recent /\ Dated(p)'
      <4>1. checks = 1 /\ cfg # TornCfg /\ cfg.recent
        BY <2>1, <3>5 DEF CheckInv
      <4> QED BY <2>1, <4>1 DEF ReadCfg, Dated
    <3> QED BY <2>3, <2>5, <3>2, <3>3, <3>4, <3>5 DEF CheckInv
  <2> QED BY <2>4, <2>5
<1>2. ASSUME NEW p \in Procs, Decide(p) \/ OpenConfig(p) \/ WriteConfig(p) PROVE CheckInv'
  <2>1. \A q \in Procs : q # p => pc'[q] = pc[q] /\ mode'[q] = mode[q] /\ local'[q] = local[q]
    BY <1>2, OthersKept DEF ProcStep, FindUpdate
  <2>2. Looking(p) /\ ~Asking(p)
    BY <1>0, <1>2 DEF Decide, OpenConfig, WriteConfig, Configuring, Looking, Asking
  <2>3. UNCHANGED <<checks, overlap>> /\ mode'[p] \in {"find", "findForced"}
    BY <1>2, <2>2 DEF Decide, OpenConfig, WriteConfig, Looking, TypeOK, dirVars, histVars
  <2>4. Configuring'
    BY <1>0, <2>1, <2>3 DEF Configuring
  <2>5. CASE overlap
    BY <2>3, <2>4, <2>5 DEF CheckInv
  <2>6. CASE ~overlap
    <3>1. \A q \in Procs : Looking(q)' => q = p
      BY <2>1, <2>2, <2>6 DEF Looking, CheckInv, Alone
    <3>2. Asking(p)' => cfg' = local'[p]
      <4>1. CASE Decide(p) \/ OpenConfig(p)
        <5>1. pc'[p] \in {"saveSkip", "saveMark", "flushSkip", "flushMark", "flushDone"}
          BY <4>1 DEF Decide, OpenConfig, Goto, TypeOK
        <5> QED BY <5>1 DEF Asking
      <4>2. CASE WriteConfig(p)
        BY <4>2 DEF WriteConfig
      <4> QED BY <1>2, <4>1, <4>2
    <3>3. ASSUME checks = 1, Looking(p)' PROVE Dated(p)'
      <4>1. Dated(p)
        BY <2>2, <3>3 DEF CheckInv
      <4>2. CASE Decide(p)
        <5>1. mode'[p] = IF local[p].forced THEN "findForced" ELSE "find"
          BY <4>2 DEF Decide, TypeOK
        <5>2. CASE NothingToCheck(local[p])
          <6>1. pc'[p] = "saveSkip" /\ local'[p] = local[p]
            BY <4>2, <5>2 DEF Decide, Goto, TypeOK
          <6> QED BY <4>1, <5>1, <6>1 DEF Dated
        <5>3. CASE ~NothingToCheck(local[p])
          <6>1. local[p].forced
            BY <4>1, <5>3 DEF NothingToCheck, Dated
          <6>2. pc'[p] = "saveMark"
            BY <4>2, <5>3 DEF Decide, Goto, TypeOK
          <6>3. local' = [local EXCEPT ![p] = [local[p] EXCEPT !.recent = TRUE, !.forced = FALSE]]
            BY <4>2, <5>3 DEF Decide
          <6>4. [local[p] EXCEPT !.recent = TRUE, !.forced = FALSE].recent = TRUE
            BY <1>0 DEF Config
          <6>5. local'[p].recent
            BY <6>3, <6>4 DEF TypeOK
          <6> QED BY <5>1, <6>1, <6>2, <6>5 DEF Dated
        <5> QED BY <5>2, <5>3
      <4>3. CASE OpenConfig(p)
        <5>1. mode'[p] = mode[p] /\ local'[p] = local[p]
          BY <4>3 DEF OpenConfig
        <5>2. \/ pc[p] = "saveSkip" /\ pc'[p] = "flushSkip"
              \/ pc[p] = "saveMark" /\ pc'[p] = "flushMark"
              \/ pc[p] = "saveDone"
          BY <4>3 DEF OpenConfig, Goto, TypeOK
        <5> QED BY <4>1, <5>1, <5>2 DEF Dated
      <4>4. CASE WriteConfig(p)
        <5>1. mode'[p] = mode[p] /\ local'[p] = local[p]
          BY <4>4 DEF WriteConfig
        <5>2. \/ pc[p] = "flushSkip" /\ pc'[p] = "running"
              \/ pc[p] = "flushMark" /\ pc'[p] = "clean"
              \/ pc[p] = "flushDone"
          BY <4>4 DEF WriteConfig, Goto, TypeOK
        <5> QED BY <4>1, <5>1, <5>2 DEF Dated
      <4> QED BY <1>2, <4>2, <4>3, <4>4
    <3>4. ASSUME checks = 1 PROVE cfg' = TornCfg \/ cfg'.recent
      <4>1. CASE Decide(p)
        BY <3>4, <4>1 DEF Decide, dirVars, CheckInv
      <4>2. CASE OpenConfig(p)
        BY <4>2 DEF OpenConfig
      <4>3. CASE WriteConfig(p)
        BY <2>2, <3>4, <4>3 DEF WriteConfig, CheckInv, Dated
      <4> QED BY <1>2, <4>1, <4>2, <4>3
    <3>5. Alone' /\ Saved'
      BY <3>1, <3>2 DEF Alone, Saved, Asking
    <3> QED BY <1>0, <2>3, <2>4, <2>6, <3>1, <3>3, <3>4, <3>5 DEF CheckInv
  <2> QED BY <2>5, <2>6
<1>3. ASSUME NEW p \in Procs, FetchVersion(p) PROVE CheckInv'
  <2>1. \A q \in Procs : q # p => pc'[q] = pc[q] /\ mode'[q] = mode[q] /\ local'[q] = local[q]
    BY <1>3, OthersKept DEF ProcStep, CheckUpdate
  <2>2. /\ pc[p] = "fetch" /\ pc'[p] \in {"download", "running"}
        /\ UNCHANGED <<cfg, mode, local, overlap>>
        /\ checks' = IF mode[p] = "find" /\ local[p].recent /\ ~overlap THEN checks + 1 ELSE checks
    BY <1>3 DEF FetchVersion, Goto, TypeOK, dirVars
  <2>3. CASE mode[p] = "find" /\ local[p].recent /\ ~overlap
    <3>1. Looking(p) /\ Asking(p) /\ ~Dated(p)
      BY <2>2, <2>3 DEF Looking, Asking, Dated
    <3>2. checks = 0 /\ checks' = 1
      BY <1>0, <2>2, <2>3, <3>1 DEF CheckInv
    <3>3. \A q \in Procs : Looking(q)' => q = p
      BY <2>1, <2>3, <3>1 DEF Looking, CheckInv, Alone
    <3>4. cfg = local[p]
      BY <2>3, <3>1 DEF CheckInv, Saved
    <3>5. Dated(p)'
      BY <2>2, <2>3 DEF Dated
    <3>6. Configuring'
      BY <1>0, <2>1, <2>2 DEF Configuring
    <3>7. Alone' /\ Saved'
      BY <2>2, <3>3, <3>4 DEF Alone, Saved, Asking
    <3> QED BY <2>2, <2>3, <3>2, <3>3, <3>4, <3>5, <3>6, <3>7 DEF CheckInv
  <2>4. CASE ~(mode[p] = "find" /\ local[p].recent /\ ~overlap)
    <3>1. UNCHANGED <<cfg, checks, overlap>>
      BY <2>2, <2>4
    <3>2. ProcStep(p)
      BY <1>3 DEF ProcStep, CheckUpdate
    <3>3. Looking(p)' => Looking(p) /\ Asking(p) /\ pc'[p] = "download"
      BY <2>2 DEF Looking, Asking
    <3> QED BY <2>2, <3>1, <3>2, <3>3, QuietStep
  <2> QED BY <2>3, <2>4
<1>4. ASSUME NEW p \in Procs, Spawn(p) PROVE CheckInv'
  <2>0. ProcStep(p)
    BY <1>4 DEF ProcStep, CheckUpdate
  <2>1. \A q \in Procs : q # p => pc'[q] = pc[q] /\ mode'[q] = mode[q] /\ local'[q] = local[q]
    BY <2>0, OthersKept
  <2>2. pc[p] = "spawn" /\ UNCHANGED <<cfg, mode, overlap>>
    BY <1>4 DEF Spawn, dirVars
  <2>3. CASE tmp \notin Versions \/ up[p].pc # "off"
    <3>1. pc'[p] = "running" /\ UNCHANGED <<local, checks>>
      BY <1>4, <2>3 DEF Spawn, Goto, TypeOK
    <3>2. ~Looking(p)'
      BY <3>1 DEF Looking
    <3> QED BY <2>0, <2>2, <3>1, <3>2, QuietStep
  <2>4. CASE ~(tmp \notin Versions \/ up[p].pc # "off")
    <3>0. mode[p] \in Modes
      BY DEF TypeOK, Modes
    <3>1. checks' = 0
      BY <1>4, <2>4 DEF Spawn
    <3>2. \/ pc'[p] = "saveDone" /\ mode[p] \in {"find", "findForced"}
          \/ pc'[p] \in {"leaving", "running"}
      BY <1>4, <2>4, <3>0 DEF Spawn, Goto, TypeOK, Modes
    <3>3. Configuring'
      BY <1>0, <2>1, <2>2, <3>2 DEF Configuring
    <3>4. \A q \in Procs : Looking(q)' => Looking(q)
      BY <2>1, <2>2, <3>2 DEF Looking
    <3>5. \A q \in Procs : Asking(q)' => Asking(q) /\ local'[q] = local[q]
      BY <2>1, <2>2, <3>2 DEF Looking, Asking
    <3> QED BY <2>2, <3>1, <3>3, <3>4, <3>5 DEF CheckInv, Alone, Saved
  <2> QED BY <2>3, <2>4
<1>5. ASSUME NEW p \in Procs,
             \/ RemoveTmp(p) \/ Download(p) \/ GiveUp(p) \/ OpenZip(p) \/ WriteZip(p) \/ CopyUpdater(p)
      PROVE  CheckInv'
  <2>1. ProcStep(p)
    BY <1>5 DEF ProcStep, CheckUpdate
  <2>2. UNCHANGED <<cfg, checks, overlap, mode, local>>
    BY <1>5 DEF RemoveTmp, Download, GiveUp, OpenZip, WriteZip, CopyUpdater, dirVars, histVars
  <2>3. /\ pc[p] \in {"clean", "download", "write", "flushZip", "copy", "spawn"}
        /\ pc'[p] \in {"running", "fetch", "download", "write", "flushZip", "copy", "spawn"}
        /\ pc'[p] = "fetch" => pc[p] = "clean"
    BY <1>5 DEF RemoveTmp, Download, GiveUp, OpenZip, WriteZip, CopyUpdater, Goto, TypeOK
  <2>4. Looking(p)' => Looking(p) /\ Asking(p) /\ pc'[p] # "running"
    BY <2>2, <2>3 DEF Looking, Asking
  <2> QED BY <2>1, <2>2, <2>3, <2>4, QuietStep
<1>6. ASSUME NEW p \in Procs, LaunchNoUpdater(p) \/ LaunchForce(p) \/ Command(p) \/ Exit(p) \/ Kill(p)
      PROVE  CheckInv'
  <2>1. ProcStep(p)
    BY <1>6 DEF ProcStep
  <2>2. UNCHANGED <<cfg, checks, overlap>>
    BY <1>6 DEF LaunchNoUpdater, LaunchForce, Command, Exit, Kill, dirVars, histVars
  <2>3. ~Looking(p)' /\ pc'[p] \in {"running", "clean", "off"}
    <3>1. CASE LaunchNoUpdater(p)
      BY <3>1 DEF LaunchNoUpdater, Goto, TypeOK, Looking
    <3>2. CASE LaunchForce(p)
      BY <3>2 DEF LaunchForce, Goto, TypeOK, Looking
    <3>3. CASE Command(p)
      BY <3>3, UpdaterAssumption DEF Command, Goto, TypeOK, Looking
    <3>4. CASE Exit(p) \/ Kill(p)
      BY <3>4 DEF Exit, Kill, End, Goto, TypeOK, Looking
    <3> QED BY <1>6, <3>1, <3>2, <3>3, <3>4
  <2> QED BY <2>1, <2>2, <2>3, QuietStep
<1>7. ASSUME UNCHANGED <<cfg, pc, mode, local, checks, overlap>> PROVE CheckInv'
  BY <1>7 DEF CheckInv, Configuring, Alone, Saved, Dated, Asking, Looking
<1>8. CASE TimePasses
  <2>1. UNCHANGED <<pc, mode, overlap>> /\ checks' = 0
        /\ cfg' = (IF cfg = TornCfg THEN cfg ELSE [cfg EXCEPT !.recent = FALSE])
        /\ \A p \in Procs : local'[p] = [local[p] EXCEPT !.recent = FALSE]
    BY <1>8 DEF TimePasses
  <2>2. \A p \in Procs : cfg = local[p] => cfg' = local'[p]
    BY <1>0, <2>1
  <2> QED BY <2>1, <2>2 DEF CheckInv, Configuring, Alone, Saved, Asking, Looking
<1>9. CASE Publish \/ UNCHANGED vars
  BY <1>7, <1>9 DEF Publish, vars, dirVars, procVars, histVars
<1>10. ASSUME NEW p \in Procs, ApplyUpdate(p) \/ KillUpdater(p) PROVE CheckInv'
  BY <1>7, <1>10 DEF ApplyUpdate, KillUpdater, Poll, ReadZip, Extract, Announce, dirVars, procVars, histVars
<1> QED BY <1>1, <1>2, <1>3, <1>4, <1>5, <1>6, <1>8, <1>9, <1>10 DEF Next, FindUpdate, CheckUpdate

-----------------------------------------------------------------------------
(* The versions.                                                           *)

\* Where a step of the process p can lead it.
LEMMA Goes ==
    ASSUME TypeOK, NEW p \in Procs, ProcStep(p)
    PROVE  /\ pc'[p] \in Bringing => pc[p] \in Bringing \/ RemoveTmp(p)
           /\ pc'[p] \in {"write", "flushZip"} => Download(p) \/ OpenZip(p)
<1> USE DEF Bringing
<1>1. ASSUME FindUpdate(p) \/ LaunchNoUpdater(p) \/ LaunchForce(p) \/ Command(p) \/ Exit(p) \/ Kill(p)
      PROVE  pc'[p] \notin Bringing
  BY <1>1 DEF FindUpdate, Launch, Decide, OpenConfig, WriteConfig, LaunchNoUpdater, LaunchForce,
     Command, Exit, Kill, End, Goto, TypeOK, Bringing
<1>2. ASSUME FetchVersion(p) \/ GiveUp(p) \/ WriteZip(p) \/ CopyUpdater(p)
      PROVE  pc[p] \in Bringing /\ pc'[p] \notin {"write", "flushZip"}
  BY <1>2 DEF FetchVersion, GiveUp, WriteZip, CopyUpdater, Goto, TypeOK, Bringing
<1>3. ASSUME Spawn(p) PROVE pc'[p] \notin Bringing
  <2>1. mode[p] \in Modes
    BY DEF TypeOK, Modes
  <2> QED BY <1>3, <2>1 DEF Spawn, Goto, TypeOK, Modes, Bringing
<1>4. ASSUME Download(p) \/ OpenZip(p) PROVE pc[p] \in Bringing
  BY <1>4 DEF Download, OpenZip, Bringing
<1>5. ASSUME RemoveTmp(p) PROVE pc'[p] \notin {"write", "flushZip"}
  BY <1>5 DEF RemoveTmp, Goto, TypeOK
<1> QED BY <1>5, <1>1, <1>2, <1>3, <1>4 DEF ProcStep, CheckUpdate

\* The downloads of the other processes are their own.
LEMMA DownloadKept ==
    ASSUME TypeOK, NEW p \in Procs, ProcStep(p), NEW q \in Procs, q # p
    PROVE  download'[q] = download[q]
<1>1. \/ download' = download
      \/ \E x : download' = [download EXCEPT ![p] = x]
  BY DEF ProcStep, FindUpdate, Launch, Decide, OpenConfig, WriteConfig, LaunchNoUpdater, LaunchForce,
     Command, CheckUpdate, RemoveTmp, FetchVersion, Download, GiveUp, OpenZip, WriteZip, CopyUpdater,
     Spawn, Exit, Kill, End, procVars
<1> QED BY <1>1 DEF TypeOK

\* A step that brings nothing nearer.
LEMMA PlainStep ==
    ASSUME AgeInv, UNCHANGED <<server, installed, zip>>,
           \A q \in Procs : up'[q] = up[q] \/ up'[q].pc \in {"off", "wait"},
           \A q \in Procs : /\ pc'[q] \in Bringing => pc[q] \in Bringing
                            /\ pc'[q] \in {"write", "flushZip"} =>
                                  /\ pc[q] \in {"write", "flushZip"} /\ download'[q] = download[q]
    PROVE  AgeInv'
<1>1. NotOlder(server)' /\ (zip' = Torn \/ zip' <= server') /\ (zip' \in Versions => NotOlder(zip)')
  BY DEF AgeInv, NotOlder
<1>2. \A q \in Procs : pc'[q] \in {"write", "flushZip"} => NotOlder(download[q])' /\ download'[q] <= server'
  BY DEF AgeInv, NotOlder
<1>3. \A q \in Procs : up'[q].pc \in {"apply", "extract"} => up'[q] = up[q]
  OBVIOUS
<1> QED BY <1>1, <1>2, <1>3 DEF AgeInv

LEMMA AgeStep ==
    ASSUME TypeOK, AgeInv, [Next]_vars, Tools = {}
    PROVE  AgeInv'
<1>0. /\ server \in 1..MaxVersion /\ zip \in 0..(MaxVersion + 1) /\ MaxVersion \in Nat
      /\ \A m \in Members : installed[m] \in 0..(MaxVersion + 1)
      /\ \A q \in Procs : download[q] \in 0..(MaxVersion + 1)
  BY Basics DEF TypeOK, Versions, File
<1>1. CASE Publish
  <2>1. server' = server + 1 /\ UNCHANGED <<installed, zip, pc, download, up>>
    BY <1>1 DEF Publish, dirVars, procVars
  <2>2. NotOlder(server)'
    BY <1>0, <2>1 DEF AgeInv, NotOlder
  <2>3. zip' = Torn \/ zip' <= server'
    BY <1>0, <2>1 DEF AgeInv
  <2>4. \A q \in Procs : pc[q] \in {"write", "flushZip"} => NotOlder(download[q])' /\ download[q] <= server'
    BY <1>0, <2>1 DEF AgeInv, NotOlder
  <2>5. zip \in Versions => NotOlder(zip)'
    BY <2>1 DEF AgeInv, NotOlder
  <2> QED BY <2>1, <2>2, <2>3, <2>4, <2>5 DEF AgeInv, NotOlder
<1>2. CASE TimePasses \/ UNCHANGED vars
  <2>1. UNCHANGED <<server, installed, zip, pc, download, up>>
    BY <1>2 DEF TimePasses, vars, dirVars, procVars
  <2> QED BY <2>1, PlainStep
<1>3. ASSUME NEW p \in Procs, OpenZip(p) PROVE AgeInv'
  <2>1. /\ zip' = Torn /\ UNCHANGED <<server, installed, download, up>>
        /\ pc[p] = "write" /\ pc'[p] = "flushZip" /\ \A q \in Procs : q # p => pc'[q] = pc[q]
    BY <1>3 DEF OpenZip, Goto, TypeOK
  <2>2. \A q \in Procs : up[q].pc \notin {"apply", "extract"}
    BY <2>1 DEF AgeInv, Bringing
  <2>3. zip' \notin Versions
    BY <1>0, <2>1 DEF Torn, Versions
  <2>4. \A q \in Procs : pc'[q] \in {"write", "flushZip"} => pc[q] \in {"write", "flushZip"}
    BY <2>1
  <2>5. \A q \in Procs : pc'[q] \in {"write", "flushZip"} => NotOlder(download[q])' /\ download'[q] <= server'
    BY <2>1, <2>4 DEF AgeInv, NotOlder
  <2>6. NotOlder(server)'
    BY <2>1 DEF AgeInv, NotOlder
  <2> QED BY <2>1, <2>2, <2>3, <2>5, <2>6 DEF AgeInv
<1>4. ASSUME NEW p \in Procs, WriteZip(p) PROVE AgeInv'
  <2>1. /\ zip' \in {download[p], Torn} /\ UNCHANGED <<server, installed, download, up>>
        /\ pc[p] = "flushZip" /\ pc'[p] = "copy" /\ \A q \in Procs : q # p => pc'[q] = pc[q]
    BY <1>4 DEF WriteZip, Goto, TypeOK
  <2>2. \A q \in Procs : up[q].pc \notin {"apply", "extract"}
    BY <2>1 DEF AgeInv, Bringing
  <2>3. NotOlder(download[p]) /\ download[p] <= server
    BY <2>1 DEF AgeInv
  <2>4. (zip' = Torn \/ zip' <= server') /\ (zip' \in Versions => NotOlder(zip)')
    <3>1. CASE zip' = Torn
      BY <1>0, <3>1 DEF Torn, Versions
    <3>2. CASE zip' = download[p]
      BY <2>1, <2>3, <3>2 DEF NotOlder
    <3> QED BY <2>1, <3>1, <3>2
  <2>5. \A q \in Procs : pc'[q] \in {"write", "flushZip"} => NotOlder(download[q])' /\ download'[q] <= server'
    BY <2>1 DEF AgeInv, NotOlder
  <2>6. NotOlder(server)'
    BY <2>1 DEF AgeInv, NotOlder
  <2> QED BY <2>1, <2>2, <2>4, <2>5, <2>6 DEF AgeInv
<1>5. ASSUME NEW p \in Procs, Download(p) PROVE AgeInv'
  <2>1. /\ UNCHANGED <<server, installed, zip, up>> /\ download'[p] = server
        /\ pc[p] = "download" /\ pc'[p] = "write"
        /\ \A q \in Procs : q # p => pc'[q] = pc[q] /\ download'[q] = download[q]
    BY <1>5 DEF Download, Goto, TypeOK, dirVars
  <2>2. \A q \in Procs : up[q].pc \notin {"apply", "extract"}
    BY <2>1 DEF AgeInv, Bringing
  <2>3. NotOlder(server)' /\ (zip' = Torn \/ zip' <= server') /\ (zip' \in Versions => NotOlder(zip)')
    BY <2>1 DEF AgeInv, NotOlder
  <2>4. \A q \in Procs : pc'[q] \in {"write", "flushZip"} => NotOlder(download[q])' /\ download'[q] <= server'
    <3> SUFFICES ASSUME NEW q \in Procs, pc'[q] \in {"write", "flushZip"}
                 PROVE  NotOlder(download[q])' /\ download'[q] <= server'
      OBVIOUS
    <3>1. CASE q = p
      BY <1>0, <2>1, <3>1 DEF AgeInv, NotOlder
    <3>2. CASE q # p
      BY <2>1, <3>2 DEF AgeInv, NotOlder
    <3> QED BY <3>1, <3>2
  <2> QED BY <2>1, <2>2, <2>3, <2>4 DEF AgeInv
<1>6. ASSUME NEW p \in Procs, RemoveTmp(p) PROVE AgeInv'
  <2>0. ProcStep(p)
    BY <1>6 DEF ProcStep, CheckUpdate
  <2>1. UNCHANGED <<server, installed, zip, download, up>> /\ \A q \in Procs : q # p => pc'[q] = pc[q]
    BY <1>6 DEF RemoveTmp, Goto, TypeOK
  <2>2. CASE TmpRuns
    <3>1. pc'[p] = "running"
      BY <1>6, <2>2 DEF RemoveTmp, Goto, TypeOK
    <3> QED BY <2>1, <3>1, PlainStep DEF Bringing
  <2>3. CASE ~TmpRuns
    <3>1. \A q \in Procs : up[q].pc \notin {"apply", "extract"}
      BY <2>3 DEF TmpRuns
    <3>2. pc'[p] \in {"fetch", "download"}
      BY <1>6, <2>3 DEF RemoveTmp, Goto, TypeOK
    <3>3. NotOlder(server)' /\ (zip' = Torn \/ zip' <= server') /\ (zip' \in Versions => NotOlder(zip)')
      BY <2>1 DEF AgeInv, NotOlder
    <3>4. \A q \in Procs : pc'[q] \in {"write", "flushZip"} => NotOlder(download[q])' /\ download'[q] <= server'
      BY <2>1, <3>2 DEF AgeInv, NotOlder
    <3> QED BY <2>1, <3>1, <3>3, <3>4 DEF AgeInv
  <2> QED BY <2>2, <2>3
<1>7. ASSUME NEW p \in Procs, ProcStep(p), ~OpenZip(p), ~WriteZip(p), ~Download(p), ~RemoveTmp(p)
      PROVE  AgeInv'
  <2>1. UNCHANGED <<server, installed, zip>>
    BY <1>7 DEF ProcStep, FindUpdate, Launch, Decide, OpenConfig, WriteConfig, LaunchNoUpdater,
       LaunchForce, Command, CheckUpdate, FetchVersion, GiveUp, CopyUpdater, Spawn, Exit, Kill, dirVars
  <2>2. \A q \in Procs : up'[q] = up[q] \/ up'[q].pc \in {"off", "wait"}
    BY <1>7, SpawnFacts, OtherSteps DEF ProcStep
  <2>3. \A q \in Procs : q # p => pc'[q] = pc[q] /\ download'[q] = download[q]
    BY <1>7, OthersKept, DownloadKept
  <2>4. (pc'[p] \in Bringing => pc[p] \in Bringing) /\ pc'[p] \notin {"write", "flushZip"}
    BY <1>7, Goes
  <2> QED BY <2>1, <2>2, <2>3, <2>4, PlainStep
<1>8. ASSUME NEW p \in Procs, Poll(p) PROVE AgeInv'
  <2>1. /\ UNCHANGED <<server, installed, zip, pc, download>>
        /\ up'[p].pc \in {"off", "wait", "apply"} /\ (up'[p].pc = "apply" => ~ActsRuns)
        /\ \A q \in Procs : q # p => up'[q] = up[q]
    BY <1>8, PollFacts DEF dirVars, procVars
  <2>2. CASE up'[p].pc # "apply"
    <3>1. \A q \in Procs : up'[q] = up[q] \/ up'[q].pc \in {"off", "wait"}
      BY <2>1, <2>2
    <3> QED BY <2>1, <3>1, PlainStep
  <2>3. CASE up'[p].pc = "apply"
    <3>1. \A q \in Procs : pc'[q] \notin Bringing
      BY <2>1, <2>3 DEF ActsRuns, Procs, Bringing
    <3> QED BY <2>1, <2>3, <3>1 DEF AgeInv, NotOlder
  <2> QED BY <2>2, <2>3
<1>9. ASSUME NEW p \in Procs, ReadZip(p) PROVE AgeInv'
  <2>1. /\ up[p].pc = "apply" /\ \A q \in Procs : q # p => up'[q] = up[q]
        /\ IF zip \in Versions THEN up'[p].pc = "extract" /\ up'[p].zip = zip ELSE up'[p].pc = "off"
        /\ UNCHANGED <<server, installed, zip, pc, download>>
    BY <1>9, ReadZipFacts DEF dirVars, procVars
  <2>2. \A q \in Procs : pc[q] \notin Bringing
    BY <2>1 DEF AgeInv
  <2>3. \A q \in Procs : up'[q].pc = "extract" => up'[q].zip = zip /\ zip \in Versions
    BY <2>1 DEF AgeInv
  <2> QED BY <2>1, <2>2, <2>3 DEF AgeInv, NotOlder
<1>10. ASSUME NEW p \in Procs, Extract(p) PROVE AgeInv'
  <2>1. PICK m \in up[p].todo :
           /\ up[p].pc = "extract" /\ m \in Members
           /\ up'[p].pc = "extract" /\ up'[p].zip = up[p].zip
           /\ \A q \in Procs : q # p => up'[q] = up[q]
           /\ \A n \in Members : n # m => installed'[n] = installed[n]
           /\ installed'[m] = up[p].zip \/ installed'[m] = Torn \/ UNCHANGED installed
           /\ UNCHANGED <<server, zip, pc, download>>
    BY <1>10, ExtractFacts DEF procVars
  <2>2. zip \in Versions /\ up[p].zip = zip /\ zip <= server /\ \A q \in Procs : pc[q] \notin Bringing
    BY <1>0, <2>1 DEF AgeInv, Torn, Versions
  <2>3. NotOlder(zip) /\ NotOlder(server)
    BY <2>2 DEF AgeInv
  <2>4. \A n \in Members : installed'[n] \in {installed[n], zip, Torn}
    BY <2>1, <2>2
  <2>5. NotOlder(zip)' /\ NotOlder(server)'
    BY <1>0, <2>1, <2>2, <2>3, <2>4 DEF NotOlder, Versions
  <2>6. \A q \in Procs : pc'[q] \notin {"write", "flushZip"} /\ pc'[q] \notin Bringing
    BY <2>1, <2>2 DEF Bringing
  <2>7. \A q \in Procs : up'[q].pc = "extract" => up'[q].zip = zip
    BY <2>1, <2>2 DEF AgeInv
  <2> QED BY <2>1, <2>2, <2>5, <2>6, <2>7 DEF AgeInv
<1>11. ASSUME NEW p \in Procs, Announce(p) \/ KillUpdater(p) PROVE AgeInv'
  <2>1. /\ up'[p].pc = "off" /\ \A q \in Procs : q # p => up'[q] = up[q]
        /\ \A n \in Members : installed'[n] \in {installed[n], Torn}
        /\ UNCHANGED <<server, zip, pc, download>>
    BY <1>11, EndOfCopy DEF procVars
  <2>2. \A v : NotOlder(v) => \A n \in Members : installed'[n] = Torn \/ installed'[n] <= v
    BY <2>1 DEF NotOlder
  <2>3. NotOlder(server)' /\ (zip' \in Versions => NotOlder(zip)')
    BY <2>1, <2>2 DEF AgeInv, NotOlder
  <2>4. \A q \in Procs : pc'[q] \in {"write", "flushZip"} => NotOlder(download[q])' /\ download'[q] <= server'
    BY <2>1, <2>2 DEF AgeInv, NotOlder
  <2> QED BY <2>1, <2>3, <2>4 DEF AgeInv
<1> QED
  BY <1>1, <1>2, <1>3, <1>4, <1>5, <1>6, <1>7, <1>8, <1>9, <1>10, <1>11 DEF Next, ApplyUpdate, ProcStep

-----------------------------------------------------------------------------
(* The theorems.                                                           *)

LEMMA Initially == Init => TypeOK /\ WholeInv /\ CheckInv /\ AgeInv
<1> SUFFICES ASSUME Init PROVE TypeOK /\ WholeInv /\ CheckInv /\ AgeInv
  OBVIOUS
<1>1. TypeOK
  <2>1. server \in Versions /\ installed \in [Members -> File]
    BY Basics DEF Init
  <2>2. zip \in File /\ tmp \in File /\ cfg \in Config \cup {TornCfg}
    BY Basics DEF Init
  <2>3. version \in [Procs -> File] /\ download \in [Procs -> File] /\ local \in [Procs -> Config]
    BY Basics DEF Init
  <2>4. pc \in [Procs -> Labels] /\ mode \in [Procs -> Modes]
    BY DEF Init, Labels, Modes
  <2>5. up \in [Procs -> Copy]
    <3> HIDE DEF Copy
    <3> QED BY Basics DEF Init
  <2>6. checks \in Nat /\ overlap \in BOOLEAN /\ damaged \in BOOLEAN
    BY DEF Init
  <2> QED BY <2>1, <2>2, <2>3, <2>4, <2>5, <2>6 DEF TypeOK, Modes, Copy
<1>2. \A p \in Procs : up[p].pc = "off" /\ pc[p] = "off"
  BY DEF Init, Idle
<1>3. WholeInv
  <2>1. Whole
    BY Basics DEF Init, Whole
  <2> QED BY <1>2, <2>1 DEF WholeInv, OneArchive, PutInPlace
<1>4. CheckInv
  BY <1>2 DEF Init, CheckInv, Configuring, Alone, Saved, Asking, Looking
<1>5. AgeInv
  <2>1. zip \notin Versions /\ zip <= server /\ NotOlder(server)
    BY DEF Init, Absent, Versions, NotOlder
  <2> QED BY <1>2, <2>1 DEF AgeInv, Bringing
<1> QED BY <1>1, <1>3, <1>4, <1>5

\* Every variable keeps its type: no updater looks for acts more than MaxWait times
\* (main.cpp:41-60), and what is in the directory, torn files included, is one of the
\* versions that were published.
THEOREM TypeCorrect == Spec => []TypeOK
<1>1. Init => TypeOK
  BY Initially
<1>2. TypeOK /\ [Next]_vars => TypeOK'
  BY TypeStep
<1> QED BY <1>1, <1>2, PTL DEF Spec

\* ApplyUpdate (updater.cpp:105-147) leaves an installation of one version behind,
\* whatever was killed, torn, refused or asked for twice before, once it ran to its
\* end, left no file out, and no updater with another archive ran beside it.
THEOREM OneVersion == Spec => []InstallWhole
<1>1. Init => TypeOK /\ WholeInv
  BY Initially
<1>2. TypeOK /\ WholeInv /\ [Next]_vars => (TypeOK /\ WholeInv)'
  BY TypeStep, WholeStep
<1>3. WholeInv => InstallWhole
  BY DEF WholeInv, Whole, InstallWhole
<1> QED BY <1>1, <1>2, <1>3, PTL DEF Spec

\* FindUpdate (updater.cpp:170-189) saves the date before it asks the server, so that in a
\* period it asks once, whichever program of the installation is started, killed
\* or refused an update, and however many of them there are, until the file with the
\* date is torn or two of them are in FindUpdate at once.
THEOREM AskedOnce == Spec => []CheckedOnce
<1>1. Init => TypeOK /\ CheckInv
  BY Initially
<1>2. TypeOK /\ CheckInv /\ [Next]_vars => (TypeOK /\ CheckInv)'
  BY TypeStep, CheckStep
<1>3. CheckInv => CheckedOnce
  BY DEF CheckInv, CheckedOnce
<1> QED BY <1>1, <1>2, <1>3, PTL DEF Spec

\* The wait of the updater (main.cpp:41-60) keeps an extraction from putting back an older
\* version, when every process that can download is one it waits for: it does not
\* look for an acts-updater that was started by hand.
THEOREM NeverOlder ==
    ASSUME Tools = {}
    PROVE  Spec => NoDowngrade
<1>1. Init => TypeOK /\ AgeInv
  BY Initially
<1>2. TypeOK /\ AgeInv /\ [Next]_vars => (TypeOK /\ AgeInv)'
  BY TypeStep, AgeStep
<1>3. TypeOK /\ AgeInv /\ [Next]_vars =>
          [\A m \in Members : installed'[m] >= installed[m] \/ installed[m] = Torn]_vars
  <2> SUFFICES ASSUME TypeOK, AgeInv, [Next]_vars, NEW m \in Members, installed[m] # Torn
               PROVE  installed'[m] >= installed[m]
    OBVIOUS
  <2>0. MaxVersion \in Nat /\ zip \in 0..(MaxVersion + 1) /\ installed[m] \in 0..(MaxVersion + 1)
    BY Basics DEF TypeOK, File
  <2>1. ASSUME NEW p \in Procs, Extract(p) PROVE installed'[m] \in {installed[m], zip, Torn} /\ NotOlder(zip)
    <3>1. PICK n \in up[p].todo :
             /\ up[p].pc = "extract" /\ n \in Members
             /\ \A k \in Members : k # n => installed'[k] = installed[k]
             /\ installed'[n] = up[p].zip \/ installed'[n] = Torn \/ UNCHANGED installed
      BY <2>1, ExtractFacts
    <3> QED BY <3>1 DEF AgeInv
  <2>2. ASSUME NEW p \in Procs, Announce(p) \/ KillUpdater(p) PROVE installed'[m] \in {installed[m], Torn}
    BY <2>2, EndOfCopy
  <2>3. ASSUME NEW p \in Procs, ProcStep(p) \/ Poll(p) \/ ReadZip(p) PROVE installed'[m] = installed[m]
    BY <2>3, OtherSteps, SpawnFacts DEF ProcStep, CheckUpdate, Poll, ReadZip, dirVars
  <2>4. ASSUME Publish \/ TimePasses \/ UNCHANGED vars PROVE installed'[m] = installed[m]
    BY <2>4 DEF Publish, TimePasses, vars, dirVars
  <2>5. \/ installed'[m] = installed[m] \/ installed'[m] = Torn
        \/ (installed'[m] = zip /\ NotOlder(zip))
    BY <2>1, <2>2, <2>3, <2>4 DEF Next, ApplyUpdate, ProcStep
  <2>6. NotOlder(zip) => installed[m] <= zip
    BY DEF NotOlder
  <2> QED BY <2>0, <2>5, <2>6 DEF Torn
<1> QED BY <1>1, <1>2, <1>3, PTL DEF Spec, NoDowngrade
=============================================================================
