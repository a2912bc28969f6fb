--------------------------- MODULE MCFolderConfig ---------------------------
(***************************************************************************)
(* Three folders: the films of two look alike (a copy that kept its date), *)
(* the third has the same size and another date.                           *)
(***************************************************************************)
EXTENDS FolderConfig

CONSTANTS old, copy, new

ThreeFolders == {old, copy, new}

ThreeFilms   == [f \in ThreeFolders |-> [size |-> 4, mtime |-> IF f = new THEN 1 ELSE 0]]
=============================================================================
