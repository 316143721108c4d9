----------------------------- MODULE MCJobQueue -----------------------------
(***************************************************************************)
(* Instances of JobQueue for TLC.  Two processes run the goroutines, as    *)
(* with `docker compose up --scale worker=2`, so that one can die alone.   *)
(***************************************************************************)
EXTENDS JobQueue, TLC

CONSTANTS w1, w2, w3, p1, p2, j1, j2, j3

TwoProcesses == (w1 :> p1) @@ (w2 :> p2)
ThreeWorkers == (w1 :> p1) @@ (w2 :> p1) @@ (w3 :> p2)

OnlyCode == j1 :> "code.execute"
SMSAndCode == (j1 :> "sms.send") @@ (j2 :> "code.execute")
EmailSMSAndCode == (j1 :> "email.send") @@ (j2 :> "sms.send") @@ (j3 :> "code.execute")
=============================================================================
