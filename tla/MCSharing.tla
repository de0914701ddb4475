------------------------------ MODULE MCSharing ------------------------------
(***************************************************************************)
(* An instance of Sharing for TLC: two privacy levels, a view and one that *)
(* may be created, two changes and one tile request at a time.             *)
(***************************************************************************)
EXTENDS Sharing

\* Tiles are asked of the more private resource of the first view.
Resources == {<<"v1", 2>>}
=============================================================================
