----------------------------- MODULE MCJobQueue -----------------------------
(* Instances of JobQueue for TLC; the job ids are ordered, so only the     *)
(* requests that are alike could be permuted, and none are.                *)
EXTENDS JobQueue
=============================================================================
