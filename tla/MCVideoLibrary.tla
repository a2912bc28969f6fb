--------------------------- MODULE MCVideoLibrary ---------------------------
(* Instances of VideoLibrary. *)
EXTENDS VideoLibrary
=============================================================================
