-------------------------- MODULE Publication_proofs --------------------------
(***************************************************************************)
(* What follows from Publication alone, for any revisions.                 *)
(***************************************************************************)
EXTENDS Publication, TLAPS

\* Every revision has had a life, and none that is current revises a current
\* one.
Lives == life \in [Revision -> Life] /\ Replaced

\* A reader of the data never sees a revision beside the one it revises: in
\* the code two updates of two rows, in different requests (review.py).
THEOREM NeverBeside ==
    ASSUME First \cap Later = {}
    PROVE  Spec => []Replaced
<1>1. Init => Lives
  BY DEF Init, Lives, Replaced, Revision, Life
<1>2. ASSUME Lives, Next PROVE Lives'
  <2>1. CASE Ask
    BY <1>2, <2>1 DEF Ask, Lives, Replaced
  <2>2. ASSUME NEW r \in First, Retire(r) PROVE Lives'
    <3>1. life' \in [Revision -> Life]
      BY <1>2, <2>2 DEF Lives, Retire, Revision, Life
    <3>2. \A t \in Revision : life'[t] = "current" => life[t] = "current"
      BY <1>2, <2>2 DEF Lives, Retire
    <3> QED
      BY <1>2, <3>1, <3>2 DEF Lives, Replaced, Revision
  <2>3. ASSUME NEW u \in Later, Appear(u) PROVE Lives'
    <3>1. life' \in [Revision -> Life]
      BY <1>2, <2>3 DEF Lives, Appear, Revision, Life
    <3>2. \A t \in Revision \ {u} : life'[t] = life[t]
      BY <1>2, <2>3 DEF Lives, Appear
    <3>3. u \notin First
      OBVIOUS
    <3> QED
      BY <1>2, <2>3, <3>1, <3>2, <3>3 DEF Lives, Appear, Replaced, Revision
  <2>4. ASSUME NEW U \in SUBSET Later, Remove(U) PROVE Lives'
    <3>1. life' \in [Revision -> Life]
      BY <1>2, <2>4 DEF Lives, Remove, Revision, Life
    <3>2. \A t \in Revision : life'[t] = "current" => life[t] = "current"
      BY <2>4 DEF Remove
    <3> QED
      BY <1>2, <3>1, <3>2 DEF Lives, Replaced, Revision
  <2> QED
    BY <1>2, <2>1, <2>2, <2>3, <2>4 DEF Next
<1>3. Lives /\ UNCHANGED vars => Lives'
  BY DEF Lives, Replaced, vars
<1>4. Lives => Replaced
  BY DEF Lives
<1> QED
  BY <1>1, <1>2, <1>3, <1>4, PTL DEF Spec
=============================================================================
