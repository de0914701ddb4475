--------------------------- MODULE MCVersionHistory ---------------------------
(* Three uploads, new or historical, with any dates within the horizon.       *)
EXTENDS VersionHistory, TLC

\* The uploads differ in nothing but the dates they start with.
Interchangeable == Permutations(Upload)
=============================================================================
