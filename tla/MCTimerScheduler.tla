-------------------------- MODULE MCTimerScheduler --------------------------
(* Small instances of TimerScheduler for TLC: which thread starts and       *)
(* cancels timers, and whether the host resizes the registry.               *)
EXTENDS TimerScheduler

Everything == [host |-> {"start", "cancel", "resize"}, worker |-> {"start"}]
HostCancels == [host |-> {"start", "cancel"}, worker |-> {}]
=============================================================================
