----------------------------- MODULE MCJobQueue ------------------------------
(* Small instances of JobQueue for TLC: a draft generation and a webhook   *)
(* job, which is either one of its own or the notice about the draft.      *)
EXTENDS JobQueue

CONSTANTS draft, hook, w1, w2
=============================================================================
