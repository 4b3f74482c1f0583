----------------------------- MODULE MCUpdater -----------------------------
(* Small instances of Updater for TLC. *)
EXTENDS Updater

CONSTANTS a1, a2, t1

OneActs == {a1}
TwoActs == {a1, a2}
OneTool == {t1}
Files   == {"exe", "updater", "version"}
None    == {}
Both    == {"force", "check"}
=============================================================================
