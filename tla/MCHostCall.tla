----------------------------- MODULE MCHostCall -----------------------------
(* A small instance of HostCall for TLC. *)
EXTENDS HostCall

MCOptions ==
    [steps : {9}, loops : {1}, callbacks : {1, 2}, recursion : {1, 3}, interrupt : BOOLEAN]
MCLimits == [recursion |-> 2, stack |-> 4, retained |-> 1]
=============================================================================
