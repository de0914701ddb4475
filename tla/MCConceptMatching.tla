------------------------- MODULE MCConceptMatching -------------------------
(***************************************************************************)
(* Instances of ConceptMatching for TLC: the layer files of a country with *)
(* provinces and districts, and how far their geometries overlap.          *)
(***************************************************************************)
EXTENDS ConceptMatching, TLC

CountryRow == [level |-> 0, parent |-> 0, place |-> "land"]
Province(p) == [level |-> 1, parent |-> 1, place |-> p]
District(i, p) == [level |-> 2, parent |-> i, place |-> p]

\* "a2" and "c" overlap "a" exactly at the thresholds, "c" overlaps "b" below
\* them.
Land == {"land", "a", "a2", "b", "c"}
LandOverlap ==
    [x \in Land \X Land |->
       IF x[1] = x[2] THEN Above
       ELSE IF {x[1], x[2]} = {"a", "a2"} \/ {x[1], x[2]} = {"a", "c"} THEN AtThreshold
       ELSE IF {x[1], x[2]} = {"b", "c"} THEN Below ELSE Disjoint]

Plain == <<CountryRow, Province("a"), Province("b")>>
Nested == <<CountryRow, Province("b"), District(2, "a")>>
Redrawn == <<CountryRow, Province("a2"), Province("b"), Province("c")>>
Shrunk == <<CountryRow, Province("a")>>
Grown == <<CountryRow, Province("a"), Province("b"), Province("c")>>

\* Three revisions, the third of them a historical one between the others.
ThreeRevisions ==
    "u1" :> {Plain, Nested} @@ "u2" :> {Redrawn, Shrunk} @@ "u3" :> {Grown}
Dates == "u1" :> 2 @@ "u2" :> 4 @@ "u3" :> 3

\* Two changes of the second upload let its reviewer confirm two dialogs.
Changes == "u1" :> 0 @@ "u2" :> 2 @@ "u3" :> 0
FourChanges == [u \in Upload |-> 4]

\* One is sixteen parts.
Parts == [k \in 0..Cardinality(Upload) |-> 2 ^ (4 - k)]

\* Two revisions with the same three provinces.
TwoRevisions == "u1" :> {Grown} @@ "u2" :> {Grown}
TwoDates == "u1" :> 2 @@ "u2" :> 4
=============================================================================
