------------------------- MODULE MCLayerValidation -------------------------
(***************************************************************************)
(* Instances of LayerValidation for TLC: the layer files to validate.      *)
(***************************************************************************)
EXTENDS LayerValidation, TLC

\* Two published countries, 1 and 2, beside each other; country 3 is new.
World == 1 :> {1, 2} @@ 2 :> {3, 4}

Units(codes, parents, places, flaws) ==
    [code : codes, parent : parents, place : places, flaws : flaws]

\* Two units of level 1 with one code or two: inside a country, across the
\* border, around each other, or with a geometry that is not valid
Provinces ==
    LET with(codes, flaws) == Units(codes, {1, 2}, {{1}, {1, 2}, {2, 3}, {3}}, flaws)
    IN  {1 :> <<f, g>> : f \in with({11}, {{}, {"SelfIntersects"}, {"Invalid"}}),
                         g \in with({11, 12}, {{}})}

\* Two published countries that claim the same ground, cells 3 to 5, and a unit
\* of level 1 in each or both in one: apart, around each other, or with
\* one or two parts in common, of one cell or two
Disputed == 1 :> 1 .. 5 @@ 2 :> 3 .. 7

Claims ==
    LET units(code) == Units({code}, {1}, {{1, 2}, {1, 2, 3, 5}, 1 .. 4, 3 .. 5}, {{}})
                       \cup Units({code}, {2}, {{3, 5, 6, 7}, 3 .. 7}, {{}})
    IN  {1 :> <<f, g>> : f \in units(11), g \in units(12)}

\* Two units of level 2 below three of level 1, of which two may have the
\* same code and one may name a country it does not lie in
Upper(code, parent) ==
    <<[code |-> 11, parent |-> 1, place |-> {1}, flaws |-> {}],
      [code |-> code, parent |-> parent, place |-> {2}, flaws |-> {}],
      [code |-> 13, parent |-> 2, place |-> {3, 4}, flaws |-> {}]>>

Districts ==
    LET sound(codes, places) == Units(codes, {11, 12, 13}, places, {{}})
        faulty == Units({NoCode}, {11}, {{1}}, {{"Degenerate"}, {"NameMissing"}})
                  \cup Units({21}, {11}, {{1}}, {{"TypeMissing"}})
    IN  {1 :> Upper(code, parent) @@ 2 :> <<f, g>> :
           code \in {11, 12, 13}, parent \in {1, 2},
           f \in sound({21}, {{1}, {3}}) \cup faulty,
           g \in sound({21}, {{1}, {3}}) \cup sound({22}, {{3}})}

\* Countries of level 0, with a unit of level 1 or alone
CountryFiles ==
    LET countries == Units({1}, {NoCode}, {{1, 2}}, {{}, {"Degenerate"}})
                     \cup Units({3}, {NoCode}, {{5}}, {{}, {"Degenerate"}})
    IN  {0 :> <<f, g>> : f, g \in countries}
        \cup {0 :> <<f, g>> @@ 1 :> <<h>> : f, g \in countries,
                h \in Units({11}, {1, 3}, {{1}, {5}}, {{}, {"RaisedPrivacy"}})}

\* Every overlap counts, except in the claims: with a tolerance of one and a
\* threshold of two, none does.  What tasks that follow each other do,
\* interleaved ones do too.
Settings ==
    [layers : Provinces, land : {World},
     tolerance : {0}, threshold : {0}, inTurn : BOOLEAN]
    \cup [layers : Claims, land : {Disputed},
          tolerance : {0, 1}, threshold : {0, 2}, inTurn : BOOLEAN]
    \cup [layers : Districts \cup CountryFiles, land : {World},
          tolerance : {0}, threshold : {0}, inTurn : {FALSE}]
=============================================================================
