----------------------------- MODULE MCJobQueue -----------------------------
(* Instances of JobQueue: one store to synchronise, one video to convert.  *)
EXTENDS JobQueue

CONSTANTS sync, convert

MCKeys  == {sync, convert}
MCMedia == {convert}
=============================================================================
