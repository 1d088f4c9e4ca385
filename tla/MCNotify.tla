------------------------------- MODULE MCNotify -------------------------------
(***************************************************************************)
(* One alert, one endpoint and two findings; limits of two stand for the   *)
(* code's three attempts, four failures and two anomalies.                 *)
(***************************************************************************)
EXTENDS Notify

SomeJobs == 1 .. 2
=============================================================================
