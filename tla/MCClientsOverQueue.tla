------------------------- MODULE MCClientsOverQueue -------------------------
(***************************************************************************)
(* An instance of ClientsOverQueue for TLC: a mail and a program, one row  *)
(* for each, one goroutine, and one call at a time.                        *)
(***************************************************************************)
EXTENDS ClientsOverQueue, TLC

CONSTANTS w1, p1, j1, j2, mail, prog

OneWorker == w1 :> p1
MailAndProgram == (j1 :> "email.send") @@ (j2 :> "code.execute")
=============================================================================
