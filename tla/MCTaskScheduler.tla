--------------------------- MODULE MCTaskScheduler ---------------------------
(* Small instances of TaskScheduler for TLC: which thread's scripts spawn,  *)
(* cancel and release tasks.                                                *)
EXTENDS TaskScheduler

(* Tasks are spawned and released by the main script only.                  *)
HostManages == [host |-> {"spawn", "cancel", "release"}, worker |-> {"cancel"}]

(* Tasks spawn tasks too; the main script releases them.                    *)
HostReleases == [host |-> {"spawn", "cancel", "release"}, worker |-> {"spawn", "cancel"}]
=============================================================================
