----------------------------- MODULE MCViewTiles -----------------------------
(***************************************************************************)
(* An instance of ViewTiles for TLC: a view with two privacy levels, two   *)
(* places and two admin levels.  One approval replaces a restricted unit   *)
(* by a public one of the same place, another leaves a place empty.        *)
(***************************************************************************)
EXTENDS ViewTiles, TLC

Privacy == "a" :> 1 @@ "b" :> 2 @@ "c" :> 2 @@ "d" :> 1
Places2 == "a" :> "p" @@ "b" :> "q" @@ "c" :> "p" @@ "d" :> "p"
Admins2 == "a" :> 1 @@ "b" :> 2 @@ "c" :> 1 @@ "d" :> 1

RetiresOf == "u1" :> {"c"} @@ "u2" :> {"b"}
AddsOf == "u1" :> {"a"} @@ "u2" :> {"d"}

\* An approval and a change of the configuration that overlap, two approvals
\* one after the other, an approval that may die before or after another change,
\* and a worker that may die.
Settings ==
    {[changes |-> {"u2", "t1"}, mortal |-> {}, overlap |-> TRUE],
     [changes |-> {"u1", "u2"}, mortal |-> {}, overlap |-> FALSE],
     [changes |-> {"u2", "t1"}, mortal |-> {"u2"}, overlap |-> FALSE],
     [changes |-> {"u1"}, mortal |-> {Worker}, overlap |-> FALSE],
     [changes |-> {"t1"}, mortal |-> {Worker}, overlap |-> FALSE]}
=============================================================================
