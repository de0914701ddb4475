--------------------------- MODULE MCUploadSession ---------------------------
(***************************************************************************)
(* Instances of UploadSession for TLC: the circumstances to explore.       *)
(***************************************************************************)
EXTENDS UploadSession

\* Nothing unlucky, one country
Calm == [timing |-> {}, mortal |-> FALSE, requests |-> 4, files |-> {"c1"},
         level0 |-> FALSE, new |-> {}, degenerate |-> {}, unreadable |-> FALSE]

\* Two countries; files of level 0 with a new country and one whose feature is
\* not stored; the timings one client can meet, and the others with fewer
\* requests; workers that die and files that cannot be read.
Settings ==
    {[Calm EXCEPT !.files = {"c1", "c2"}],
     [Calm EXCEPT !.files = {"c1", "c2"}, !.level0 = TRUE, !.new = {"c2"}, !.requests = 3],
     [Calm EXCEPT !.level0 = TRUE],
     [Calm EXCEPT !.level0 = TRUE, !.degenerate = {"c1"}],
     [Calm EXCEPT !.level0 = TRUE, !.degenerate = {"c1"}, !.new = {"c1"}],
     [Calm EXCEPT !.timing = {"earlyPickup"}, !.requests = 5],
     [Calm EXCEPT !.timing = {"earlyPickup"}, !.level0 = TRUE],
     [Calm EXCEPT !.timing = {"askTwice"}],
     [Calm EXCEPT !.timing = {"lateKill"}],
     [Calm EXCEPT !.timing = {"concurrent"}, !.requests = 3],
     [Calm EXCEPT !.mortal = TRUE, !.unreadable = TRUE]}

\* The shortest way to a reset that meets a running validation.
Quiet == {[Calm EXCEPT !.requests = 3]}
=============================================================================
