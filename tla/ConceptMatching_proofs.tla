------------------------ MODULE ConceptMatching_proofs ------------------------
(***************************************************************************)
(* Proofs about ConceptMatching, for any uploads, layer files, geometries, *)
(* overlaps and dates.                                                     *)
(*                                                                         *)
(* FlagMeansConcept, and OneToOne when reviewers have one rematch dialog   *)
(* open at a time (ConceptInv, OneToOneInv).  The argument follows who made*)
(* a uuid.  A uuid names the unit it was made for; a unit holds its own or *)
(* one made for a unit of an approved upload (Owned), and its own if it is *)
(* flagged as new (OwnConcept).  So the uuid of a pending unit flagged as  *)
(* new is in no approved unit.  The rest says that comparisons are with    *)
(* approved units, whose columns never change again.                       *)
(*                                                                         *)
(* NothingBetterLeft (BestInv): a unit the loop has passed prefers its     *)
(* match to all that no unit before it took; as long as uploads do not meet*)
(* in review the history it was chosen from stays what it was (PendingStep,*)
(* RankKept).                                                              *)
(*                                                                         *)
(* VersionsFollowDates (VersionInv): k approved uploads are at least       *)
(* Part[k] apart, so half way between two of them there is room for one    *)
(* more.                                                                   *)
(*                                                                         *)
(* ConceptNumbers (NumberInv): the numbers in use are those up to the count*)
(* of the concepts, so that approval adds the next ones.                   *)
(*                                                                         *)
(* MatchedCodes (CodeInv): at every round of the loops the codes given so  *)
(* far follow those of the parents, are different, and until numbering are *)
(* those of the comparisons, no two of which are the same concept; the     *)
(* numbers that are free are enough for all units (EnoughNumbers).         *)
(***************************************************************************)
EXTENDS ConceptMatching, FiniteSetTheorems, SequenceTheorems,
        WellFoundedInduction, TLAPS

Columns == {"uuid", "code", "cmp", "same", "concept"}

\* The unit a uuid was made for
Owner(id) == <<id[1], id[2]>>

\* Types, as far as the argument needs them: numbers play no role in it.
Typed ==
    /\ stage \in [Upload -> Stage]
    /\ units \in [Upload -> Seq(UnitData)]
    /\ \A u \in Upload : Len(units[u]) <= MaxUnits
    /\ at \in [Upload -> Nat]
    /\ edits \in [Upload -> Nat]
    /\ DOMAIN row = Slot
    /\ \A r \in Slot : /\ DOMAIN row[r] = Columns
                       /\ row[r].same \in BOOLEAN
                       /\ row[r].uuid \in Upload \X (1..MaxUnits) \X Nat

\* Matching has not come to the unit yet.
Ahead(r) ==
    \/ stage[r[1]] \in {"none", "validated", "rejected"}
    \/ stage[r[1]] = "matching" /\ r[2] >= at[r[1]]

Blank == \A r \in Slot : Ahead(r) => row[r].cmp = None /\ ~ row[r].same

\* The loops of matching start behind a cloned country row.
Loops ==
    \A u \in Upload : stage[u] \in {"matching", "rest"} =>
      at[u] >= 1 /\ (u \in cloned => at[u] >= 2)

Owned ==
    \A r \in Slot : /\ Owner(row[r].uuid) \in Slot
                    /\ \/ Owner(row[r].uuid) = r
                       \/ stage[row[r].uuid[1]] = "approved"

IsClone(r) == r[1] \in cloned /\ r[2] = 1

OwnConcept ==
    \A r \in Slot : ~ row[r].same /\ ~ IsClone(r) => Owner(row[r].uuid) = r

Compared ==
    \A r \in Slot :
      /\ row[r].cmp # None => row[r].cmp \in ApprovedUnits /\ r \in NewUnits(r[1])
      /\ row[r].same => /\ row[r].cmp # None
                        /\ row[r].uuid = row[row[r].cmp].uuid
                        /\ row[r].uuid[1] # r[1]

ConceptInv == Typed /\ Blank /\ Loops /\ Owned /\ OwnConcept /\ Compared

-----------------------------------------------------------------------------
(* Units                                                                   *)

\* Units are slots of their upload, and None is no slot.
LEMMA UnitSlots ==
    ASSUME Typed, NEW u \in Upload
    PROVE  /\ Units(u) \subseteq Slot /\ NewUnits(u) \subseteq Units(u)
           /\ \A r \in Units(u) : r[1] = u /\ r = <<r[1], r[2]>>
           /\ None \notin Slot
  <1>1. Len(units[u]) \in Nat /\ Len(units[u]) <= MaxUnits
    BY DEF Typed
  <1>2. QED
    BY <1>1, ConceptAssumption DEF Units, NewUnits, Slot

\* Approved units are slots of approved uploads, and all of those.
LEMMA ApprovedSlots ==
    ASSUME Typed
    PROVE  /\ ApprovedUnits \subseteq Slot /\ None \notin ApprovedUnits
           /\ \A q \in ApprovedUnits : /\ q[1] \in Upload
                                       /\ stage[q[1]] = "approved"
                                       /\ q \in Units(q[1])
  BY UnitSlots DEF ApprovedUnits, Approved

-----------------------------------------------------------------------------
(* Two kinds of steps                                                      *)

\* A step that leaves uuids, comparisons and flags alone, and lets uploads
\* move on, preserves the invariant.
LEMMA QuietStep ==
    ASSUME ConceptInv, Typed', Loops',
           UNCHANGED <<units, cloned>>,
           \A u \in Upload : stage[u] = "approved" => stage'[u] = "approved",
           \A r \in Slot : /\ row'[r].uuid = row[r].uuid
                           /\ row'[r].cmp = row[r].cmp
                           /\ row'[r].same = row[r].same,
           \A r \in Slot : Ahead(r)' => Ahead(r)
    PROVE  ConceptInv'
  <1>1. Blank'
    BY DEF ConceptInv, Blank
  <1>2. ApprovedUnits \subseteq ApprovedUnits'
    BY DEF ApprovedUnits, Approved, Units
  <1>3. Owned'
    <2> SUFFICES ASSUME NEW r \in Slot
                 PROVE  /\ Owner(row'[r].uuid) \in Slot
                        /\ \/ Owner(row'[r].uuid) = r
                           \/ stage'[row'[r].uuid[1]] = "approved"
      BY DEF Owned
    <2>1. row[r].uuid[1] \in Upload
      BY DEF ConceptInv, Typed
    <2>2. QED
      BY <2>1 DEF ConceptInv, Owned
  <1>4. OwnConcept'
    BY DEF ConceptInv, OwnConcept, IsClone
  <1>5. Compared'
    <2> SUFFICES ASSUME NEW r \in Slot
                 PROVE  /\ row'[r].cmp # None => /\ row'[r].cmp \in ApprovedUnits'
                                                 /\ r \in NewUnits(r[1])'
                        /\ row'[r].same => /\ row'[r].cmp # None
                                           /\ row'[r].uuid = row'[row'[r].cmp].uuid
                                           /\ row'[r].uuid[1] # r[1]
      BY DEF Compared
    <2>1. NewUnits(r[1])' = NewUnits(r[1])
      BY DEF NewUnits, Units
    <2>2. row[r].cmp # None => row[r].cmp \in Slot
      BY ApprovedSlots DEF ConceptInv, Compared
    <2>3. QED
      BY <1>2, <2>1, <2>2 DEF ConceptInv, Compared
  <1>6. QED
    BY <1>1, <1>3, <1>4, <1>5 DEF ConceptInv

\* What may become of the columns of the unit r when its comparison is found,
\* swapped or chosen again
Sound(r, v) ==
    \/ v.cmp = None /\ ~ v.same /\ v.uuid = row[r].uuid /\ ~ row[r].same
    \/ /\ v.cmp \in ApprovedUnits /\ v.same
       /\ v.uuid = row[v.cmp].uuid
    \/ v.cmp \in ApprovedUnits /\ ~ v.same /\ Owner(v.uuid) = r

\* A step that changes one unit of a pending upload in such a way preserves
\* the invariant.
LEMMA OneUnitStep ==
    ASSUME ConceptInv, Typed', Loops',
           UNCHANGED <<units, cloned, stage>>,
           NEW r \in Slot, r \in NewUnits(r[1]),
           stage[r[1]] # "approved", Sound(r, row'[r]), ~ Ahead(r)',
           \A x \in Slot \ {r} : row'[x] = row[x],
           \A x \in Slot \ {r} : Ahead(x)' => Ahead(x)
    PROVE  ConceptInv'
  <1>1. Blank'
    BY DEF ConceptInv, Blank
  <1>2. ApprovedUnits' = ApprovedUnits /\ \A u : NewUnits(u)' = NewUnits(u)
    BY DEF ApprovedUnits, Approved, NewUnits, Units
  <1>3. \A q \in ApprovedUnits : q \in Slot /\ q # r /\ row'[q] = row[q]
    BY ApprovedSlots DEF ConceptInv
  <1>4. r \in Units(r[1]) /\ r[1] \in Upload /\ r = <<r[1], r[2]>>
    BY UnitSlots DEF ConceptInv, Slot
  <1>5. ~ IsClone(r)
    BY <1>4 DEF IsClone, NewUnits
  <1>6. ASSUME row'[r].cmp \in ApprovedUnits, row'[r].same,
               row'[r].uuid = row[row'[r].cmp].uuid
        PROVE  /\ Owner(row'[r].uuid) \in Slot
               /\ row'[r].uuid[1] \in Upload
               /\ stage[row'[r].uuid[1]] = "approved"
               /\ row'[r].uuid[1] # r[1]
    <2> DEFINE q == row'[r].cmp
    <2>1. q \in Slot /\ q[1] \in Upload /\ stage[q[1]] = "approved"
      BY <1>6, ApprovedSlots DEF ConceptInv
    <2>2. /\ Owner(row[q].uuid) \in Slot
          /\ Owner(row[q].uuid) = q \/ stage[row[q].uuid[1]] = "approved"
      BY <2>1 DEF ConceptInv, Owned
    <2>3. Owner(row[q].uuid) = q => row[q].uuid[1] = q[1]
      BY <2>1 DEF Owner
    <2>4. stage[row[q].uuid[1]] = "approved" /\ row[q].uuid[1] \in Upload
      BY <2>1, <2>2, <2>3 DEF ConceptInv, Typed
    <2>5. QED
      BY <1>6, <2>2, <2>4
  <1>7. Owned'
    <2> SUFFICES ASSUME NEW x \in Slot
                 PROVE  /\ Owner(row'[x].uuid) \in Slot
                        /\ \/ Owner(row'[x].uuid) = x
                           \/ stage[row'[x].uuid[1]] = "approved"
      BY DEF Owned
    <2>1. CASE x # r
      BY <2>1 DEF ConceptInv, Owned
    <2>2. CASE x = r
      BY <2>2, <1>5, <1>6 DEF Sound, ConceptInv, OwnConcept
    <2>3. QED
      BY <2>1, <2>2
  <1>8. OwnConcept'
    <2> SUFFICES ASSUME NEW x \in Slot, ~ row'[x].same, ~ IsClone(x)'
                 PROVE  Owner(row'[x].uuid) = x
      BY DEF OwnConcept
    <2>1. IsClone(x)' = IsClone(x)
      BY DEF IsClone
    <2>2. CASE x # r
      BY <2>1, <2>2 DEF ConceptInv, OwnConcept
    <2>3. CASE x = r
      BY <2>3, <1>5 DEF Sound, ConceptInv, OwnConcept
    <2>4. QED
      BY <2>2, <2>3
  <1>9. Compared'
    <2> SUFFICES ASSUME NEW x \in Slot
                 PROVE  /\ row'[x].cmp # None => /\ row'[x].cmp \in ApprovedUnits
                                                 /\ x \in NewUnits(x[1])
                        /\ row'[x].same => /\ row'[x].cmp # None
                                           /\ row'[x].uuid = row'[row'[x].cmp].uuid
                                           /\ row'[x].uuid[1] # x[1]
      BY <1>2 DEF Compared
    <2>1. CASE x # r
      BY <2>1, <1>3 DEF ConceptInv, Compared
    <2>2. CASE x = r
      <3>1. None \notin ApprovedUnits
        BY ApprovedSlots DEF ConceptInv
      <3>2. QED
        BY <2>2, <3>1, <1>3, <1>6 DEF Sound
    <2>3. QED
      BY <2>1, <2>2
  <1>10. QED
    BY <1>1, <1>7, <1>8, <1>9 DEF ConceptInv

-----------------------------------------------------------------------------
(* The actions                                                             *)

\* What a unit's own uuid is made of
LEMMA FreshIds ==
    ASSUME NEW r \in Slot, NEW n \in Nat
    PROVE  /\ <<r[1], r[2], n>> \in Upload \X (1..MaxUnits) \X Nat
           /\ Owner(<<r[1], r[2], n>>) = r
  BY DEF Slot, Owner

LEMMA InitConcept == Init => ConceptInv
  <1> SUFFICES ASSUME Init PROVE ConceptInv
    OBVIOUS
  <1>2. \A r \in Slot : /\ row[r].cmp = None /\ row[r].same = FALSE
                        /\ row[r].uuid = <<r[1], r[2], 0>>
                        /\ DOMAIN row[r] = Columns
    BY DEF Init, Columns
  <1>1. Typed
    <2>1. /\ stage \in [Upload -> Stage] /\ at \in [Upload -> Nat]
          /\ edits \in [Upload -> Nat] /\ DOMAIN row = Slot
      BY DEF Init, Stage
    <2>2. /\ units \in [Upload -> Seq(UnitData)]
          /\ \A u \in Upload : Len(units[u]) <= MaxUnits
      BY ConceptAssumption DEF Init
    <2>3. \A r \in Slot : /\ row[r].same \in BOOLEAN
                          /\ row[r].uuid \in Upload \X (1..MaxUnits) \X Nat
      BY <1>2, FreshIds
    <2>4. QED
      BY <1>2, <2>1, <2>2, <2>3 DEF Typed
  <1>3. \A r \in Slot : r = <<r[1], r[2]>>
    BY DEF Slot
  <1>4. Blank /\ Owned /\ OwnConcept /\ Compared
    BY <1>2, <1>3 DEF Blank, Owned, OwnConcept, Compared, Owner
  <1>5. Loops
    BY DEF Init, Loops
  <1>6. QED
    BY <1>1, <1>4, <1>5 DEF ConceptInv

LEMMA ValidateStep ==
    ASSUME ConceptInv, NEW u \in Upload, NEW s \in Shape[u],
           NEW o \in Upload \cup {None}, NEW clone \in BOOLEAN,
           Validate(u, s, o, clone)
    PROVE  ConceptInv'
  <1>1. /\ stage[u] = "none" /\ stage' = [stage EXCEPT ![u] = "validated"]
        /\ units' = [units EXCEPT ![u] = s]
        /\ cloned' = IF clone THEN cloned \cup {u} ELSE cloned
        /\ at' = at /\ edits' = edits
        /\ clone => o \in Upload /\ stage[o] = "approved"
    BY ConceptAssumption DEF Validate, Current, Approved
  <1>2. <<u, 1>> \in Slot /\ (clone => <<o, 1>> \in Slot)
    BY <1>1, ConceptAssumption DEF Slot
  <1>3. /\ DOMAIN row' = Slot
        /\ \A r \in Slot : DOMAIN row'[r] = Columns
        /\ \A r \in Slot : r # <<u, 1>> => row'[r] = row[r]
        /\ ~ clone => row' = row
        /\ clone => /\ row'[<<u, 1>>].cmp = None /\ row'[<<u, 1>>].same = FALSE
                    /\ row'[<<u, 1>>].uuid = row[<<o, 1>>].uuid
    <2>1. /\ DOMAIN row = Slot /\ \A r \in Slot : DOMAIN row[r] = Columns
      BY DEF ConceptInv, Typed
    <2>2. CASE clone
      <3>1. row' = [row EXCEPT ![<<u, 1>>] = [row[<<o, 1>>] EXCEPT
                                                !.cmp = None, !.same = FALSE]]
        BY <2>2 DEF Validate
      <3>2. QED
        BY <2>1, <2>2, <3>1, <1>2 DEF Columns
    <2>3. CASE ~ clone
      <3>1. row' = row
        BY <2>3 DEF Validate
      <3>2. QED
        BY <2>1, <2>3, <3>1
    <2>4. QED
      BY <2>2, <2>3
  <1>4. Typed'
    <2>1. s \in Seq(UnitData) /\ Len(s) <= MaxUnits
      BY ConceptAssumption
    <2>2. /\ stage' \in [Upload -> Stage] /\ units' \in [Upload -> Seq(UnitData)]
          /\ \A w \in Upload : Len(units'[w]) <= MaxUnits
      BY <1>1, <2>1 DEF ConceptInv, Typed, Stage
    <2>3. \A r \in Slot : /\ row'[r].same \in BOOLEAN
                          /\ row'[r].uuid \in Upload \X (1..MaxUnits) \X Nat
      BY <1>2, <1>3 DEF ConceptInv, Typed
    <2>4. QED
      BY <1>1, <1>3, <2>2, <2>3 DEF ConceptInv, Typed
  <1>5. \A r \in Slot : r[1] # u => (Ahead(r)' => Ahead(r))
    BY <1>1 DEF Ahead, Slot, ConceptInv, Typed
  <1>6. \A r \in Slot : r[1] = u => Ahead(r)
    BY <1>1 DEF Ahead
  <1>7. \A r \in Slot : r[1] = u => row'[r].cmp = None /\ row'[r].same = FALSE
    BY <1>3, <1>6 DEF ConceptInv, Typed, Blank
  <1>8. Blank'
    BY <1>3, <1>5, <1>7 DEF ConceptInv, Blank
  <1>9. Loops'
    BY <1>1 DEF ConceptInv, Loops, Typed
  <1>10. \A w \in Upload : stage[w] = "approved" <=> stage'[w] = "approved"
    BY <1>1 DEF ConceptInv, Typed
  <1>11. ApprovedUnits' = ApprovedUnits
    <2>1. Approved' = Approved /\ u \notin Approved
      BY <1>1, <1>10 DEF Approved
    <2>2. \A w \in Approved : Units(w)' = Units(w)
      BY <1>1, <2>1 DEF ConceptInv, Typed, Units, Approved
    <2>3. QED
      BY <2>1, <2>2 DEF ApprovedUnits
  <1>12. Owned'
    <2> SUFFICES ASSUME NEW x \in Slot
                 PROVE  /\ Owner(row'[x].uuid) \in Slot
                        /\ \/ Owner(row'[x].uuid) = x
                           \/ stage'[row'[x].uuid[1]] = "approved"
      BY DEF Owned
    <2>1. CASE row'[x] = row[x]
      <3>1. row[x].uuid[1] \in Upload
        BY DEF ConceptInv, Typed
      <3>2. QED
        BY <2>1, <3>1, <1>10 DEF ConceptInv, Owned
    <2>2. CASE clone /\ x = <<u, 1>>
      <3>1. /\ Owner(row[<<o, 1>>].uuid) \in Slot
            /\ \/ Owner(row[<<o, 1>>].uuid) = <<o, 1>>
               \/ stage[row[<<o, 1>>].uuid[1]] = "approved"
        BY <2>2, <1>2 DEF ConceptInv, Owned
      <3>2. /\ row[<<o, 1>>].uuid[1] \in Upload
            /\ stage[row[<<o, 1>>].uuid[1]] = "approved"
        BY <2>2, <3>1, <1>1, <1>2 DEF ConceptInv, Typed, Owner
      <3>3. QED
        BY <2>2, <3>1, <3>2, <1>3, <1>10
    <2>3. QED
      BY <2>1, <2>2, <1>3
  <1>13. OwnConcept'
    <2> SUFFICES ASSUME NEW x \in Slot, ~ row'[x].same, ~ IsClone(x)'
                 PROVE  Owner(row'[x].uuid) = x
      BY DEF OwnConcept
    <2>1. ~ IsClone(x)
      BY <1>1 DEF IsClone
    <2>2. row'[x] = row[x]
      <3>1. CASE clone
        <4>1. x # <<u, 1>>
          BY <3>1, <1>1 DEF IsClone
        <4>2. QED
          BY <4>1, <1>3
      <3>2. QED
        BY <3>1, <1>3
    <2>3. QED
      BY <2>1, <2>2 DEF ConceptInv, OwnConcept
  <1>14. Compared'
    <2> SUFFICES ASSUME NEW x \in Slot
                 PROVE  /\ row'[x].cmp # None => /\ row'[x].cmp \in ApprovedUnits
                                                 /\ x \in NewUnits(x[1])'
                        /\ row'[x].same => /\ row'[x].cmp # None
                                           /\ row'[x].uuid = row'[row'[x].cmp].uuid
                                           /\ row'[x].uuid[1] # x[1]
      BY <1>11 DEF Compared
    <2>1. CASE x[1] = u
      BY <2>1, <1>7
    <2>2. CASE x[1] # u
      <3>1. row'[x] = row[x] /\ NewUnits(x[1])' = NewUnits(x[1])
        BY <2>2, <1>1, <1>3 DEF NewUnits, Units, ConceptInv, Typed, Slot
      <3>2. row[x].cmp # None => row[x].cmp \in Slot /\ row[x].cmp[1] # u
        BY <1>1, ApprovedSlots DEF ConceptInv, Compared
      <3>3. row[x].cmp # None => row'[row[x].cmp] = row[row[x].cmp]
        BY <3>2, <1>3
      <3>4. QED
        BY <3>1, <3>3 DEF ConceptInv, Compared
    <2>3. QED
      BY <2>1, <2>2
  <1>15. QED
    BY <1>4, <1>8, <1>9, <1>12, <1>13, <1>14 DEF ConceptInv

LEMMA RejectStep ==
    ASSUME ConceptInv, NEW u \in Upload, Reject(u)
    PROVE  ConceptInv'
  <1>1. /\ stage[u] = "review" /\ stage' = [stage EXCEPT ![u] = "rejected"]
        /\ units' = [units EXCEPT ![u] = <<>>]
        /\ cloned' = cloned \ {u} /\ at' = at /\ edits' = edits
    BY DEF Reject
  <1>2. /\ DOMAIN row' = Slot
        /\ \A r \in Slot : r[1] # u => row'[r] = row[r]
        /\ \A r \in Slot : r[1] = u =>
             /\ DOMAIN row'[r] = Columns
             /\ row'[r].cmp = None /\ row'[r].same = FALSE
             /\ row'[r].uuid = <<r[1], r[2], 0>>
    BY DEF Reject, EmptyRow, Columns
  <1>3. Typed'
    <2>1. /\ stage' \in [Upload -> Stage] /\ units' \in [Upload -> Seq(UnitData)]
          /\ \A w \in Upload : Len(units'[w]) <= MaxUnits
      BY <1>1, ConceptAssumption DEF ConceptInv, Typed, Stage
    <2>2. \A r \in Slot : /\ DOMAIN row'[r] = Columns
                          /\ row'[r].same \in BOOLEAN
                          /\ row'[r].uuid \in Upload \X (1..MaxUnits) \X Nat
      <3> SUFFICES ASSUME NEW r \in Slot
                   PROVE  /\ DOMAIN row'[r] = Columns
                          /\ row'[r].same \in BOOLEAN
                          /\ row'[r].uuid \in Upload \X (1..MaxUnits) \X Nat
        OBVIOUS
      <3>1. CASE r[1] = u
        BY <3>1, <1>2, FreshIds
      <3>2. CASE r[1] # u
        BY <3>2, <1>2 DEF ConceptInv, Typed
      <3>3. QED
        BY <3>1, <3>2
    <2>3. QED
      BY <1>1, <1>2, <2>1, <2>2 DEF ConceptInv, Typed
  <1>4. \A r \in Slot : r[1] # u => (Ahead(r)' => Ahead(r))
    BY <1>1 DEF Ahead, Slot, ConceptInv, Typed
  <1>5. Blank'
    BY <1>2, <1>4 DEF ConceptInv, Blank
  <1>6. Loops'
    BY <1>1 DEF ConceptInv, Loops, Typed
  <1>7. \A w \in Upload : stage[w] = "approved" <=> stage'[w] = "approved"
    BY <1>1 DEF ConceptInv, Typed
  <1>8. ApprovedUnits' = ApprovedUnits
    <2>1. Approved' = Approved /\ u \notin Approved
      BY <1>1, <1>7 DEF Approved
    <2>2. \A w \in Approved : Units(w)' = Units(w)
      BY <1>1, <2>1 DEF ConceptInv, Typed, Units, Approved
    <2>3. QED
      BY <2>1, <2>2 DEF ApprovedUnits
  <1>9. Owned'
    <2> SUFFICES ASSUME NEW x \in Slot
                 PROVE  /\ Owner(row'[x].uuid) \in Slot
                        /\ \/ Owner(row'[x].uuid) = x
                           \/ stage'[row'[x].uuid[1]] = "approved"
      BY DEF Owned
    <2>1. CASE x[1] = u
      BY <2>1, <1>2 DEF Owner, Slot
    <2>2. CASE x[1] # u
      <3>1. row[x].uuid[1] \in Upload
        BY DEF ConceptInv, Typed
      <3>2. QED
        BY <2>2, <3>1, <1>2, <1>7 DEF ConceptInv, Owned
    <2>3. QED
      BY <2>1, <2>2
  <1>10. OwnConcept'
    <2> SUFFICES ASSUME NEW x \in Slot, ~ row'[x].same, ~ IsClone(x)'
                 PROVE  Owner(row'[x].uuid) = x
      BY DEF OwnConcept
    <2>1. CASE x[1] = u
      BY <2>1, <1>2 DEF Owner, Slot
    <2>2. CASE x[1] # u
      BY <2>2, <1>1, <1>2 DEF ConceptInv, OwnConcept, IsClone
    <2>3. QED
      BY <2>1, <2>2
  <1>11. Compared'
    <2> SUFFICES ASSUME NEW x \in Slot
                 PROVE  /\ row'[x].cmp # None => /\ row'[x].cmp \in ApprovedUnits
                                                 /\ x \in NewUnits(x[1])'
                        /\ row'[x].same => /\ row'[x].cmp # None
                                           /\ row'[x].uuid = row'[row'[x].cmp].uuid
                                           /\ row'[x].uuid[1] # x[1]
      BY <1>8 DEF Compared
    <2>1. CASE x[1] = u
      BY <2>1, <1>2
    <2>2. CASE x[1] # u
      <3>1. row'[x] = row[x] /\ NewUnits(x[1])' = NewUnits(x[1])
        BY <2>2, <1>1, <1>2 DEF NewUnits, Units, ConceptInv, Typed, Slot
      <3>2. row[x].cmp # None => row[x].cmp \in Slot /\ row[x].cmp[1] # u
        BY <1>1, ApprovedSlots DEF ConceptInv, Compared
      <3>3. row[x].cmp # None => row'[row[x].cmp] = row[row[x].cmp]
        BY <3>2, <1>2
      <3>4. QED
        BY <3>1, <3>3 DEF ConceptInv, Compared
    <2>3. QED
      BY <2>1, <2>2
  <1>12. QED
    BY <1>3, <1>5, <1>6, <1>9, <1>10, <1>11 DEF ConceptInv

\* The steps that leave the columns alone
LEMMA StageStep ==
    ASSUME ConceptInv, NEW u \in Upload,
           StartMatching(u) \/ StartRest(u) \/ StartCoding(u)
             \/ FinishMatching(u) \/ Approve(u)
    PROVE  ConceptInv'
  <1>1. /\ UNCHANGED <<units, cloned, row, edits>>
        /\ \E to \in Stage \ {"none", "validated", "rejected"} :
             stage' = [stage EXCEPT ![u] = to]
        /\ stage[u] # "approved"
    BY DEF StartMatching, StartRest, StartCoding, FinishMatching, Approve,
           uploadVars, Stage
  <1>2. /\ stage'[u] \in {"matching", "rest"} =>
             at' = [at EXCEPT ![u] = IF u \in cloned THEN 2 ELSE 1]
        /\ stage'[u] \notin {"matching", "rest"} => at' = at
        /\ stage'[u] = "matching" => stage[u] = "validated"
    BY DEF StartMatching, StartRest, StartCoding, FinishMatching, Approve,
           ConceptInv, Typed
  <1>3. Typed'
    <2>1. at' \in [Upload -> Nat]
      <3>1. at \in [Upload -> Nat] /\ (IF u \in cloned THEN 2 ELSE 1) \in Nat
        BY DEF ConceptInv, Typed
      <3>2. CASE stage'[u] \in {"matching", "rest"}
        BY <3>1, <3>2, <1>2
      <3>3. CASE stage'[u] \notin {"matching", "rest"}
        BY <3>1, <3>3, <1>2
      <3>4. QED
        BY <3>2, <3>3
    <2>2. stage' \in [Upload -> Stage]
      BY <1>1 DEF ConceptInv, Typed
    <2>3. QED
      BY <1>1, <2>1, <2>2 DEF ConceptInv, Typed
  <1>4. Loops'
    <2> SUFFICES ASSUME NEW w \in Upload, stage'[w] \in {"matching", "rest"}
                 PROVE  at'[w] >= 1 /\ (w \in cloned => at'[w] >= 2)
      BY <1>1 DEF Loops
    <2>1. CASE w = u
      BY <2>1, <1>2 DEF ConceptInv, Typed
    <2>2. CASE w # u
      BY <2>2, <1>1, <1>2 DEF ConceptInv, Typed, Loops
    <2>3. QED
      BY <2>1, <2>2
  <1>5. \A r \in Slot : Ahead(r)' => Ahead(r)
    <2> SUFFICES ASSUME NEW r \in Slot, Ahead(r)' PROVE Ahead(r)
      OBVIOUS
    <2>1. r[1] \in Upload
      BY DEF Slot
    <2>2. CASE r[1] = u
      BY <2>2, <1>1, <1>2 DEF Ahead, ConceptInv, Typed
    <2>3. CASE r[1] # u
      BY <2>1, <2>3, <1>1, <1>2 DEF Ahead, ConceptInv, Typed
    <2>4. QED
      BY <2>2, <2>3
  <1>6. \A w \in Upload : stage[w] = "approved" => stage'[w] = "approved"
    BY <1>1 DEF ConceptInv, Typed
  <1>7. QED
    BY <1>1, <1>3, <1>4, <1>5, <1>6, QuietStep

\* Numbering leaves uuids, comparisons and flags alone.
LEMMA NumberColumns ==
    ASSUME ConceptInv, NEW u \in Upload,
           \/ CodeChildren(u) \/ NumberConcepts(u)
           \/ \E r, q : Compare(u, r, q)
    PROVE  /\ DOMAIN row' = Slot
           /\ \A r \in Slot : /\ DOMAIN row'[r] = Columns
                              /\ row'[r].uuid = row[r].uuid
                              /\ row'[r].cmp = row[r].cmp
                              /\ row'[r].same = row[r].same
                              /\ ~ CodeChildren(u) => row'[r].code = row[r].code
  <1>1. /\ DOMAIN row = Slot /\ \A r \in Slot : DOMAIN row[r] = Columns
    BY DEF ConceptInv, Typed
  <1>2. CASE CodeChildren(u)
    <2> DEFINE i == SetMin({x[2] : x \in Uncoded(u)})
               level == Unit(<<u, i>>).level
               code == row[Parent(<<u, i>>)].code
               todo == {x \in Uncoded(u) : Unit(x).parent = Unit(<<u, i>>).parent}
               free == FreeNumbers(u, level, code,
                                   CountConcepts(ApprovedUnits, level, code))
               new(r) == Append(code, CHOOSE n \in free :
                                  Cardinality({m \in free : m <= n})
                                    = Cardinality({y \in todo : y[2] <= r[2]}))
    <2>1. row' = [r \in Slot |-> IF r \in todo
                                 THEN [row[r] EXCEPT !.code = new(r)]
                                 ELSE row[r]]
      BY <1>2, Zenon DEF CodeChildren
    <2> HIDE DEF todo, new
    <2>2. QED
      BY <1>1, <1>2, <2>1 DEF Columns
  <1>3. CASE NumberConcepts(u)
    <2> DEFINE count == Cardinality({row[q].uuid : q \in ApprovedUnits})
               new == {x \in NewUnits(u) : ~ row[x].same}
               concept(r) == IF r \in new
                             THEN count + Cardinality({y \in new : y[2] <= r[2]})
                             ELSE row[row[r].cmp].concept
    <2>1. row' = [r \in Slot |-> IF r \notin NewUnits(u) THEN row[r]
                                 ELSE [row[r] EXCEPT !.concept = concept(r)]]
      BY <1>3, Zenon DEF NumberConcepts
    <2> HIDE DEF concept
    <2>2. QED
      BY <1>1, <2>1 DEF Columns
  <1>4. CASE \E r, q : Compare(u, r, q)
    BY <1>1, <1>4 DEF Compare
  <1>5. QED
    BY <1>2, <1>3, <1>4

\* The steps that number units, and the dialog that only reads
LEMMA NumberStep ==
    ASSUME ConceptInv, NEW u \in Upload,
           \/ CodeChildren(u) \/ NumberConcepts(u)
           \/ \E r, q : Compare(u, r, q)
    PROVE  ConceptInv'
  <1>1. /\ UNCHANGED <<units, cloned, at, edits>>
        /\ stage' = stage \/ stage' = [stage EXCEPT ![u] = "numbered"]
        /\ stage[u] # "approved" /\ stage[u] # "matching"
    BY DEF CodeChildren, NumberConcepts, Compare, uploadVars
  <1>2. /\ DOMAIN row' = Slot
        /\ \A r \in Slot : /\ DOMAIN row'[r] = Columns
                           /\ row'[r].uuid = row[r].uuid
                           /\ row'[r].cmp = row[r].cmp
                           /\ row'[r].same = row[r].same
    BY NumberColumns
  <1>3. Typed'
    <2>1. stage' \in [Upload -> Stage]
      BY <1>1 DEF ConceptInv, Typed, Stage
    <2>2. QED
      BY <1>1, <1>2, <2>1 DEF ConceptInv, Typed
  <1>4. Loops'
    BY <1>1 DEF ConceptInv, Typed, Loops
  <1>5. \A r \in Slot : Ahead(r)' => Ahead(r)
    BY <1>1 DEF Ahead, Slot, ConceptInv, Typed
  <1>6. \A w \in Upload : stage[w] = "approved" => stage'[w] = "approved"
    BY <1>1 DEF ConceptInv, Typed
  <1>7. QED
    BY <1>1, <1>2, <1>3, <1>4, <1>5, <1>6, QuietStep

\* A candidate of either search is an approved unit.
LEMMA Candidates ==
    ASSUME NEW r
    PROVE  /\ RestChoices(r) \subseteq
                {q \in ApprovedUnits : row[q].uuid \notin Allocated(r[1])}
           /\ Choices(r) \subseteq
                {q \in ApprovedUnits : row[q].uuid \notin Allocated(r[1])}
           /\ \A q \in Choices(r) : Overlap(r, q) = Above
  <1>1. RestChoices(r) \subseteq
          {q \in ApprovedUnits : row[q].uuid \notin Allocated(r[1])}
    BY DEF RestChoices, FirstOf, Closest, SameLevel
  <1> DEFINE free == {q \in Closest(r) : /\ Overlap(r, q) = Above
                                         /\ row[q].uuid \notin Allocated(r[1])}
             tiers == Tiers(r, free)
  <1>2. DOMAIN tiers = 1..4 /\ \A k \in 1..4 : tiers[k] \subseteq free
    BY DEF Tiers
  <1>3. ASSUME NEW q \in Choices(r) PROVE q \in free
    <2> DEFINE hit == {k \in DOMAIN tiers : tiers[k] # {}}
    <2>1. hit # {} /\ q \in FirstOf(tiers[SetMin(hit)], r)
      BY <1>3 DEF Choices
    <2>2. q \in tiers[SetMin(hit)]
      BY <2>1 DEF FirstOf
    <2> HIDE DEF tiers, free
    <2>3. SetMin(hit) \in 1..4
      <3>1. hit \subseteq 1..4
        BY <1>2
      <3> HIDE DEF hit
      <3>2. \E x \in hit : \A y \in hit : x <= y
        <4>1. CASE 1 \in hit
          BY <3>1, <4>1
        <4>2. CASE 1 \notin hit /\ 2 \in hit
          BY <3>1, <4>2
        <4>3. CASE 1 \notin hit /\ 2 \notin hit /\ 3 \in hit
          BY <3>1, <4>3
        <4>4. CASE 1 \notin hit /\ 2 \notin hit /\ 3 \notin hit
          <5>1. hit # {} /\ \A y \in hit : y = 4
            BY <2>1, <3>1, <4>4
          <5>2. QED
            BY <5>1
        <4>5. QED
          BY <4>1, <4>2, <4>3, <4>4
      <3>3. SetMin(hit) \in hit
        BY <3>2 DEF SetMin
      <3>4. QED
        BY <3>1, <3>3
    <2>4. QED
      BY <1>2, <2>2, <2>3
  <1>4. /\ free \subseteq {q \in ApprovedUnits : row[q].uuid \notin Allocated(r[1])}
        /\ \A q \in free : Overlap(r, q) = Above
    BY DEF Closest
  <1>5. QED
    BY <1>1, <1>3, <1>4

\* What a match makes of the columns of a unit that has none
LEMMA MatchedSound ==
    ASSUME ConceptInv, NEW r \in Slot, r \in NewUnits(r[1]),
           row[r].cmp = None, NEW v,
           v = Unmatched(r) \/ \E q \in ApprovedUnits : v = Matched(r, q)
    PROVE  /\ DOMAIN v = Columns /\ v.same \in BOOLEAN
           /\ v.uuid \in Upload \X (1..MaxUnits) \X Nat
           /\ Sound(r, v)
  <1>1. /\ DOMAIN row[r] = Columns /\ ~ row[r].same
        /\ row[r].uuid \in Upload \X (1..MaxUnits) \X Nat
    BY DEF ConceptInv, Typed, Compared
  <1>2. Owner(row[r].uuid) = r
    <2>1. r[1] \in Upload /\ r = <<r[1], r[2]>>
      BY DEF Slot
    <2>2. ~ IsClone(r)
      BY <2>1, UnitSlots DEF IsClone, NewUnits, ConceptInv
    <2>3. QED
      BY <2>2, <1>1 DEF ConceptInv, OwnConcept
  <1>3. CASE v = Unmatched(r)
    <2> DEFINE code == IF Unit(r).level = 0 THEN <<>> ELSE row[r].code
    <2>1. v = [row[r] EXCEPT !.cmp = None, !.same = FALSE, !.code = code]
      BY <1>3, <1>1, Zenon DEF Unmatched
    <2> HIDE DEF code
    <2>2. /\ DOMAIN v = Columns /\ v.cmp = None /\ v.same = FALSE
          /\ v.uuid = row[r].uuid
      BY <1>1, <2>1 DEF Columns
    <2>3. QED
      BY <1>1, <2>2 DEF Sound
  <1>4. ASSUME NEW q \in ApprovedUnits, v = Matched(r, q)
        PROVE  /\ DOMAIN v = Columns /\ v.same \in BOOLEAN
               /\ v.uuid \in Upload \X (1..MaxUnits) \X Nat
               /\ Sound(r, v)
    <2>1. CASE IsSame(r, q)
      <3>1. v = [row[r] EXCEPT !.cmp = q, !.same = TRUE,
                               !.uuid = row[q].uuid, !.code = CodeFrom(r, q)]
        BY <1>4, <2>1 DEF Matched
      <3>2. /\ DOMAIN v = Columns /\ v.cmp = q /\ v.same = TRUE
            /\ v.uuid = row[q].uuid
        BY <1>1, <3>1 DEF Columns
      <3>3. row[q].uuid \in Upload \X (1..MaxUnits) \X Nat
        BY ApprovedSlots DEF ConceptInv, Typed
      <3>4. QED
        BY <3>2, <3>3 DEF Sound
    <2>2. CASE ~ IsSame(r, q)
      <3>1. v = [row[r] EXCEPT !.cmp = q, !.same = FALSE]
        BY <1>4, <2>2 DEF Matched
      <3>2. /\ DOMAIN v = Columns /\ v.cmp = q /\ v.same = FALSE
            /\ v.uuid = row[r].uuid
        BY <1>1, <3>1 DEF Columns
      <3>3. QED
        BY <1>1, <1>2, <3>2 DEF Sound
    <2>3. QED
      BY <2>1, <2>2
  <1>5. QED
    BY <1>3, <1>4

\* The unit the loops are at
LEMMA UnitAt ==
    ASSUME ConceptInv, NEW u \in Upload,
           stage[u] \in {"matching", "rest"}, at[u] <= Len(units[u])
    PROVE  <<u, at[u]>> \in Slot /\ <<u, at[u]>> \in NewUnits(u)
  <1>1. /\ at[u] \in Nat /\ at[u] >= 1 /\ (u \in cloned => at[u] >= 2)
        /\ Len(units[u]) \in Nat /\ Len(units[u]) <= MaxUnits
    BY DEF ConceptInv, Typed, Loops
  <1>2. <<u, at[u]>> \in Units(u) /\ at[u] \in 1..MaxUnits
    BY <1>1, ConceptAssumption DEF Units
  <1>3. QED
    BY <1>1, <1>2 DEF NewUnits, Slot

LEMMA MatchStep ==
    ASSUME ConceptInv, NEW u \in Upload, MatchUnit(u) \/ MatchRest(u)
    PROVE  ConceptInv'
  <1>1. /\ stage[u] \in {"matching", "rest"} /\ at[u] <= Len(units[u])
        /\ UNCHANGED <<stage, units, cloned, edits>>
        /\ at' = [at EXCEPT ![u] = @ + 1]
    BY DEF MatchUnit, MatchRest, uploadVars
  <1>2. PICK r \in Slot : /\ r = <<u, at[u]>> /\ r \in NewUnits(r[1])
                          /\ r[1] = u /\ r[2] = at[u]
    BY <1>1, UnitAt
  <1>3. \/ row' = row
        \/ \E v : /\ row' = [row EXCEPT ![r] = v] /\ row[r].cmp = None
                  /\ v = Unmatched(r) \/ \E q \in ApprovedUnits : v = Matched(r, q)
    <2>1. CASE MatchUnit(u)
      <3>1. row[r].cmp = None
        BY <1>2, <2>1 DEF MatchUnit, ConceptInv, Blank, Ahead, Typed
      <3>2. \/ row' = [row EXCEPT ![r] = Unmatched(r)]
            \/ \E q \in Choices(r) : row' = [row EXCEPT ![r] = Matched(r, q)]
        BY <1>2, <2>1 DEF MatchUnit
      <3>3. QED
        BY <3>1, <3>2, Candidates
    <2>2. CASE MatchRest(u)
      <3>1. \/ row' = row
            \/ \E q \in RestChoices(r) : /\ row' = [row EXCEPT ![r] = Matched(r, q)]
                                         /\ row[r].cmp = None
        BY <1>2, <2>2 DEF MatchRest
      <3>2. QED
        BY <3>1, Candidates
    <2>3. QED
      BY <2>1, <2>2
  <1>4. at' \in [Upload -> Nat] /\ Loops'
    <2>1. at' \in [Upload -> Nat]
      BY <1>1 DEF ConceptInv, Typed
    <2>2. \A w \in Upload : at'[w] >= at[w]
      BY <1>1, <2>1 DEF ConceptInv, Typed
    <2>3. QED
      BY <1>1, <2>1, <2>2 DEF ConceptInv, Typed, Loops
  <1>5. \A x \in Slot : Ahead(x)' => Ahead(x)
    BY <1>1, <1>4 DEF Ahead, Slot, ConceptInv, Typed
  <1>6. CASE row' = row
    <2>1. Typed'
      BY <1>1, <1>4, <1>6 DEF ConceptInv, Typed
    <2>2. QED
      BY <1>1, <1>4, <1>5, <1>6, <2>1, QuietStep
  <1>7. ASSUME NEW v, row' = [row EXCEPT ![r] = v], row[r].cmp = None,
               v = Unmatched(r) \/ \E q \in ApprovedUnits : v = Matched(r, q)
        PROVE  ConceptInv'
    <2>1. /\ DOMAIN v = Columns /\ v.same \in BOOLEAN
          /\ v.uuid \in Upload \X (1..MaxUnits) \X Nat
          /\ Sound(r, v)
      BY <1>2, <1>7, MatchedSound
    <2>2. row'[r] = v /\ \A x \in Slot \ {r} : row'[x] = row[x]
      BY <1>2, <1>7 DEF ConceptInv, Typed
    <2>3. Typed'
      <3>1. \A x \in Slot : /\ DOMAIN row'[x] = Columns
                            /\ row'[x].same \in BOOLEAN
                            /\ row'[x].uuid \in Upload \X (1..MaxUnits) \X Nat
        BY <2>1, <2>2 DEF ConceptInv, Typed
      <3>2. DOMAIN row' = Slot
        BY <1>7 DEF ConceptInv, Typed
      <3>3. QED
        BY <1>1, <1>4, <3>1, <3>2 DEF ConceptInv, Typed
    <2>4. ~ Ahead(r)' /\ stage[r[1]] # "approved"
      BY <1>1, <1>2, <1>4 DEF Ahead, ConceptInv, Typed
    <2>5. QED
      BY <1>1, <1>2, <1>4, <1>5, <2>1, <2>2, <2>3, <2>4, OneUnitStep
  <1>8. QED
    BY <1>3, <1>6, <1>7

\* A swap or a rematch that is confirmed
LEMMA EditStep ==
    ASSUME ConceptInv, NEW u \in Upload, NEW r \in NewUnits(u),
           \/ SwapConcept(u, r)
           \/ \E q \in ApprovedUnits : ConfirmRematch(u, r, q)
    PROVE  ConceptInv'
  <1>1. /\ stage[u] = "review" /\ UNCHANGED <<stage, units, cloned, at>>
        /\ edits' = [edits EXCEPT ![u] = @ + 1]
    BY DEF SwapConcept, ConfirmRematch, Edit, uploadVars
  <1>2. r \in Slot /\ r[1] = u /\ r \in NewUnits(r[1]) /\ r = <<r[1], r[2]>>
    BY UnitSlots DEF ConceptInv
  <1>3. \E q \in ApprovedUnits, same \in BOOLEAN :
          row' = [row EXCEPT ![r] = Reflagged(r, q, same)]
    <2>1. CASE SwapConcept(u, r)
      <3>1. row[r].cmp \in ApprovedUnits /\ (~ row[r].same) \in BOOLEAN
        BY <1>2, <2>1 DEF SwapConcept, ConceptInv, Compared
      <3>2. row' = [row EXCEPT ![r] = Reflagged(r, row[r].cmp, ~ row[r].same)]
        BY <2>1 DEF SwapConcept
      <3>3. QED
        BY <3>1, <3>2, Zenon
    <2>2. ASSUME NEW q \in ApprovedUnits, ConfirmRematch(u, r, q)
          PROVE  \E same \in BOOLEAN :
                   row' = [row EXCEPT ![r] = Reflagged(r, q, same)]
      <3>1. IsSame(r, q) \in BOOLEAN
        BY DEF IsSame
      <3>2. QED
        BY <2>2, <3>1, Zenon DEF ConfirmRematch
    <2>3. QED
      BY <2>1, <2>2
  <1>4. PICK q \in ApprovedUnits, same \in BOOLEAN :
          row' = [row EXCEPT ![r] = Reflagged(r, q, same)]
    BY <1>3
  <1> DEFINE code == IF same THEN row[q].code
                     ELSE IF row[r].same THEN NewCode(r) ELSE row[r].code
             id == IF same THEN row[q].uuid ELSE FreshUuid(r)
             v == Reflagged(r, q, same)
  <1>5. v = [row[r] EXCEPT !.cmp = q, !.same = same, !.uuid = id, !.code = code]
    BY <1>2, Zenon DEF Reflagged, ConceptInv, Typed, Columns
  <1>6. /\ id \in Upload \X (1..MaxUnits) \X Nat
        /\ ~ same => Owner(id) = r
    <2>1. edits[u] + 1 \in Nat
      BY DEF ConceptInv, Typed
    <2>2. /\ FreshUuid(r) \in Upload \X (1..MaxUnits) \X Nat
          /\ Owner(FreshUuid(r)) = r
      BY <1>2, <2>1, FreshIds DEF FreshUuid
    <2>3. row[q].uuid \in Upload \X (1..MaxUnits) \X Nat
      BY ApprovedSlots DEF ConceptInv, Typed
    <2>4. QED
      BY <2>2, <2>3
  <1>7. same => id = row[q].uuid
    OBVIOUS
  <1> HIDE DEF code, id, v
  <1>8. /\ DOMAIN v = Columns /\ v.cmp = q /\ v.same = same /\ v.uuid = id
    BY <1>2, <1>5 DEF Columns, ConceptInv, Typed
  <1>9. row'[r] = v /\ \A x \in Slot \ {r} : row'[x] = row[x]
    BY <1>2, <1>4 DEF ConceptInv, Typed, v
  <1>10. Typed'
    <2>1. \A x \in Slot : /\ DOMAIN row'[x] = Columns
                          /\ row'[x].same \in BOOLEAN
                          /\ row'[x].uuid \in Upload \X (1..MaxUnits) \X Nat
      BY <1>6, <1>8, <1>9 DEF ConceptInv, Typed
    <2>2. DOMAIN row' = Slot /\ edits' \in [Upload -> Nat]
      BY <1>1, <1>4 DEF ConceptInv, Typed
    <2>3. QED
      BY <1>1, <2>1, <2>2 DEF ConceptInv, Typed
  <1>11. Loops' /\ \A x \in Slot : Ahead(x)' => Ahead(x)
    BY <1>1 DEF ConceptInv, Loops, Ahead
  <1>12. Sound(r, row'[r]) /\ ~ Ahead(r)'
    BY <1>1, <1>2, <1>6, <1>7, <1>8, <1>9 DEF Sound, Ahead
  <1>13. QED
    BY <1>1, <1>2, <1>9, <1>10, <1>11, <1>12, OneUnitStep

-----------------------------------------------------------------------------
(* The flag means the concept                                              *)

LEMMA NextConcept == ConceptInv /\ [Next]_vars => ConceptInv'
  <1> SUFFICES ASSUME ConceptInv, [Next]_vars PROVE ConceptInv'
    OBVIOUS
  <1>1. CASE UNCHANGED vars
    BY <1>1 DEF vars, uploadVars, ConceptInv, Typed, Blank, Ahead, Loops, Owned,
       OwnConcept, IsClone, Compared, ApprovedUnits, Approved, NewUnits, Units
  <1>2. ASSUME NEW u \in Upload, NEW s \in Shape[u],
               NEW o \in Upload \cup {None}, NEW clone \in BOOLEAN,
               Validate(u, s, o, clone)
        PROVE  ConceptInv'
    BY <1>2, ValidateStep
  <1>3. ASSUME NEW u \in Upload, StartMatching(u) \/ MatchingStep(u)
        PROVE  ConceptInv'
    BY <1>3, StageStep, NumberStep, MatchStep DEF MatchingStep
  <1>4. ASSUME NEW u \in Upload, ReviewStep(u) PROVE ConceptInv'
    BY <1>4, StageStep, NumberStep, EditStep, RejectStep DEF ReviewStep
  <1>5. QED
    BY <1>1, <1>2, <1>3, <1>4 DEF Next

LEMMA ConceptInvariant == Spec => []ConceptInv
  BY InitConcept, NextConcept, PTL DEF Spec

\* A unit flagged as the same concept shares the uuid of its comparison, and a
\* pending one flagged as new shares its uuid with no approved unit.
LEMMA ConceptInvImplies == ConceptInv => FlagMeansConcept
  <1> SUFFICES ASSUME ConceptInv, NEW u \in Upload, NEW r \in NewUnits(u)
               PROVE  IF row[r].same
                      THEN row[r].cmp # None /\ row[r].uuid = row[row[r].cmp].uuid
                      ELSE stage[u] # "approved" =>
                             \A q \in ApprovedUnits : row[q].uuid # row[r].uuid
    BY DEF FlagMeansConcept
  <1>1. r \in Slot /\ r[1] = u /\ ~ IsClone(r)
    BY UnitSlots DEF ConceptInv, IsClone, NewUnits
  <1>2. CASE row[r].same
    BY <1>1, <1>2 DEF ConceptInv, Compared
  <1>3. ASSUME ~ row[r].same, stage[u] # "approved", NEW q \in ApprovedUnits,
               row[q].uuid = row[r].uuid
        PROVE  FALSE
    <2>1. Owner(row[r].uuid) = r
      BY <1>1, <1>3 DEF ConceptInv, OwnConcept
    <2>2. q \in Slot /\ stage[q[1]] = "approved"
      BY ApprovedSlots DEF ConceptInv
    <2>3. Owner(row[q].uuid) = q \/ stage[row[q].uuid[1]] = "approved"
      BY <2>2 DEF ConceptInv, Owned
    <2>4. row[r].uuid[1] = u
      BY <1>1, <2>1 DEF Owner
    <2>5. QED
      BY <1>1, <1>3, <2>1, <2>2, <2>3, <2>4
  <1>4. QED
    BY <1>2, <1>3

\* At every moment, for any uploads and geometries, the flag of a comparison
\* and the concept of its unit agree, whichever of matching, swap and rematch
\* set the flag last (admin_boundary_matching.py, boundary_comparison.py).
THEOREM ConceptsAgree == Spec => []FlagMeansConcept
  BY ConceptInvariant, ConceptInvImplies, PTL

-----------------------------------------------------------------------------
(* One unit for one concept                                                *)

\* Units of one upload that are compared with one concept are in clashed, all
\* but one of them.
Exclusive ==
    \A r, x \in Slot :
      /\ r # x /\ r[1] = x[1] /\ row[r].cmp # None /\ row[x].cmp # None
      /\ row[row[r].cmp].uuid = row[row[x].cmp].uuid
      => r \in clashed \/ x \in clashed

OneToOneInv == ConceptInv /\ Exclusive

\* What is not allocated is not taken.
LEMMA NotAllocated ==
    ASSUME ConceptInv, NEW r \in Slot, NEW q, row[q].uuid \notin Allocated(r[1])
    PROVE  ~ Taken(r, q)
  BY DEF ConceptInv, Compared, Allocated, Taken

\* Of what is not taken no slot of the upload has a comparison.
LEMMA TakenSlots ==
    ASSUME ConceptInv, NEW r \in Slot, NEW q, ~ Taken(r, q),
           NEW x \in Slot \ {r}, x[1] = r[1], row[x].cmp # None
    PROVE  row[row[x].cmp].uuid # row[q].uuid
  BY DEF ConceptInv, Compared, Taken

\* No step gives an approved unit another uuid.
LEMMA ApprovedKept ==
    ASSUME ConceptInv, [Next]_vars, NEW q \in ApprovedUnits
    PROVE  q \in Slot /\ row'[q].uuid = row[q].uuid
  <1>1. q \in Slot /\ stage[q[1]] = "approved"
    BY ApprovedSlots DEF ConceptInv
  <1>2. CASE UNCHANGED vars
    BY <1>1, <1>2 DEF vars
  <1>3. ASSUME NEW u \in Upload, stage[u] # "approved",
               \A x \in Slot : x[1] # u => row'[x] = row[x]
        PROVE  row'[q].uuid = row[q].uuid
    BY <1>1, <1>3
  <1>4. ASSUME NEW u \in Upload, NEW s, NEW o, NEW clone \in BOOLEAN,
               Validate(u, s, o, clone)
        PROVE  row'[q].uuid = row[q].uuid
    <2>1. stage[u] # "approved" /\ \A x \in Slot : x[1] # u => row'[x] = row[x]
      BY <1>4 DEF Validate, ConceptInv, Typed
    <2>2. QED
      BY <2>1, <1>3
  <1>5. ASSUME NEW u \in Upload,
               StartMatching(u) \/ StartRest(u) \/ StartCoding(u)
                 \/ FinishMatching(u) \/ Approve(u) \/ \E r, p : Compare(u, r, p)
        PROVE  row'[q].uuid = row[q].uuid
    BY <1>5 DEF StartMatching, StartRest, StartCoding, FinishMatching, Approve,
       Compare
  <1>6. ASSUME NEW u \in Upload, MatchUnit(u) \/ MatchRest(u)
        PROVE  row'[q].uuid = row[q].uuid
    <2>1. stage[u] # "approved" /\ \A x \in Slot : x[1] # u => row'[x] = row[x]
      BY <1>6 DEF MatchUnit, MatchRest, ConceptInv, Typed
    <2>2. QED
      BY <2>1, <1>3
  <1>7. ASSUME NEW u \in Upload, NEW r \in NewUnits(u),
               SwapConcept(u, r) \/ \E p : ConfirmRematch(u, r, p)
        PROVE  row'[q].uuid = row[q].uuid
    <2>1. r[1] = u
      BY UnitSlots DEF ConceptInv
    <2>2. stage[u] # "approved" /\ \A x \in Slot : x[1] # u => row'[x] = row[x]
      BY <1>7, <2>1 DEF SwapConcept, ConfirmRematch, Edit, ConceptInv, Typed
    <2>3. QED
      BY <2>2, <1>3
  <1>8. ASSUME NEW u \in Upload, Reject(u)
        PROVE  row'[q].uuid = row[q].uuid
    <2>1. stage[u] # "approved" /\ \A x \in Slot : x[1] # u => row'[x] = row[x]
      BY <1>8 DEF Reject
    <2>2. QED
      BY <2>1, <1>3
  <1>9. ASSUME NEW u \in Upload, CodeChildren(u)
        PROVE  row'[q].uuid = row[q].uuid
    <2>1. stage[u] # "approved" /\ \A x \in Slot : x[1] # u => row'[x] = row[x]
      <3>1. stage[u] = "coding" /\ \A x \in Uncoded(u) : x[1] = u
        BY <1>9, UnitSlots DEF CodeChildren, Uncoded, ConceptInv
      <3>2. \A x \in Slot \ Uncoded(u) : row'[x] = row[x]
        BY <1>9 DEF CodeChildren
      <3>3. QED
        BY <3>1, <3>2
    <2>2. QED
      BY <2>1, <1>3
  <1>10. ASSUME NEW u \in Upload, NumberConcepts(u)
         PROVE  row'[q].uuid = row[q].uuid
    <2>1. stage[u] # "approved" /\ \A x \in Slot : x[1] # u => row'[x] = row[x]
      <3>1. stage[u] = "review" /\ \A x \in NewUnits(u) : x[1] = u
        BY <1>10, UnitSlots DEF NumberConcepts, ConceptInv
      <3>2. \A x \in Slot \ NewUnits(u) : row'[x] = row[x]
        BY <1>10 DEF NumberConcepts
      <3>3. QED
        BY <3>1, <3>2
    <2>2. QED
      BY <2>1, <1>3
  <1>11. QED
    BY <1>1, <1>2, <1>4, <1>5, <1>6, <1>7, <1>8, <1>9, <1>10
       DEF Next, MatchingStep, ReviewStep

\* An approved unit stays one.
LEMMA ApprovedStay ==
    ASSUME ConceptInv, [Next]_vars, NEW q \in ApprovedUnits
    PROVE  q \in ApprovedUnits'
  <1>1. PICK w \in Upload : stage[w] = "approved" /\ q \in Units(w)
    BY DEF ApprovedUnits, Approved
  <1>2. stage'[w] = "approved" /\ units'[w] = units[w]
    <2>1. CASE UNCHANGED vars
      BY <1>1, <2>1 DEF vars, uploadVars
    <2>2. ASSUME NEW u \in Upload, NEW s, NEW o, NEW clone, Validate(u, s, o, clone)
          PROVE  stage'[w] = "approved" /\ units'[w] = units[w]
      BY <1>1, <2>2 DEF Validate, ConceptInv, Typed
    <2>3. ASSUME NEW u \in Upload, StartMatching(u) \/ MatchingStep(u)
          PROVE  stage'[w] = "approved" /\ units'[w] = units[w]
      BY <1>1, <2>3 DEF MatchingStep, StartMatching, MatchUnit, StartRest,
         MatchRest, StartCoding, CodeChildren, FinishMatching, uploadVars,
         ConceptInv, Typed
    <2>4. ASSUME NEW u \in Upload, ReviewStep(u)
          PROVE  stage'[w] = "approved" /\ units'[w] = units[w]
      BY <1>1, <2>4 DEF ReviewStep, SwapConcept, Compare, ConfirmRematch, Edit,
         NumberConcepts, Approve, Reject, uploadVars, ConceptInv, Typed
    <2>5. QED
      BY <2>1, <2>2, <2>3, <2>4 DEF Next
  <1>3. QED
    BY <1>1, <1>2 DEF ApprovedUnits, Approved, Units

\* A step that only takes comparisons away
LEMMA KeepStep ==
    ASSUME OneToOneInv, [Next]_vars, ConceptInv',
           \A r \in Slot : row'[r].cmp \in {row[r].cmp, None},
           clashed' = clashed
    PROVE  OneToOneInv'
  <1>1. \A r \in Slot : row[r].cmp # None =>
          row[r].cmp \in ApprovedUnits /\ row'[row[r].cmp].uuid = row[row[r].cmp].uuid
    BY ApprovedKept DEF OneToOneInv, ConceptInv, Compared
  <1>2. Exclusive'
    <2> SUFFICES ASSUME NEW y \in Slot, row'[y].cmp # None,
                        NEW x \in Slot, y # x, y[1] = x[1], row'[x].cmp # None,
                        row'[row'[y].cmp].uuid = row'[row'[x].cmp].uuid
                 PROVE  y \in clashed' \/ x \in clashed'
      BY DEF Exclusive
    <2>1. row'[y].cmp = row[y].cmp /\ row'[x].cmp = row[x].cmp
      OBVIOUS
    <2>2. QED
      BY <1>1, <2>1 DEF OneToOneInv, Exclusive
  <1>3. QED
    BY <1>2 DEF OneToOneInv

\* A step that compares one unit: with what is not taken, or it is recorded.
LEMMA CompareStep ==
    ASSUME OneToOneInv, [Next]_vars, ConceptInv',
           NEW r \in Slot, NEW q \in ApprovedUnits,
           row'[r].cmp = q,
           \A x \in Slot \ {r} : row'[x].cmp = row[x].cmp,
           \/ clashed' = clashed \cup {r}
           \/ ~ Taken(r, q) /\ clashed' \in {clashed, clashed \ {r}}
    PROVE  OneToOneInv'
  <1>1. \A x \in Slot : row[x].cmp # None =>
          row[x].cmp \in ApprovedUnits /\ row'[row[x].cmp].uuid = row[row[x].cmp].uuid
    BY ApprovedKept DEF OneToOneInv, ConceptInv, Compared
  <1>2. row'[q].uuid = row[q].uuid
    BY ApprovedKept DEF OneToOneInv
  <1>3. ASSUME NEW x \in Slot \ {r}, x[1] = r[1], row'[x].cmp # None,
               row'[row'[x].cmp].uuid = row'[q].uuid
        PROVE  r \in clashed'
    <2>1. row'[x].cmp = row[x].cmp /\ row[row[x].cmp].uuid = row[q].uuid
      BY <1>1, <1>2, <1>3
    <2>2. Taken(r, q)
      BY <1>3, <2>1, TakenSlots DEF OneToOneInv
    <2>3. QED
      BY <2>2
  <1>4. Exclusive'
    <2> SUFFICES ASSUME NEW y \in Slot, row'[y].cmp # None,
                        NEW x \in Slot, y # x, y[1] = x[1], row'[x].cmp # None,
                        row'[row'[y].cmp].uuid = row'[row'[x].cmp].uuid
                 PROVE  y \in clashed' \/ x \in clashed'
      BY DEF Exclusive
    <2>1. CASE y = r
      BY <2>1, <1>3
    <2>2. CASE x = r
      BY <2>2, <1>3
    <2>3. CASE x # r /\ y # r
      <3>1. row'[y].cmp = row[y].cmp /\ row'[x].cmp = row[x].cmp
        BY <2>3
      <3>2. y \in clashed \/ x \in clashed
        BY <3>1, <1>1 DEF OneToOneInv, Exclusive
      <3>3. QED
        BY <2>3, <3>2
    <2>4. QED
      BY <2>1, <2>2, <2>3
  <1>5. QED
    BY <1>4 DEF OneToOneInv

\* Numbering changes no comparison.
LEMMA NumberStepKeeps ==
    ASSUME ConceptInv, NEW u \in Upload, CodeChildren(u) \/ NumberConcepts(u)
    PROVE  \A r \in Slot : row'[r].cmp = row[r].cmp
  BY NumberColumns

LEMMA ReflaggedCmp ==
    ASSUME NEW r, DOMAIN row[r] = Columns, NEW q, NEW same \in BOOLEAN
    PROVE  Reflagged(r, q, same).cmp = q
  <1> DEFINE code == IF same THEN row[q].code
                     ELSE IF row[r].same THEN NewCode(r) ELSE row[r].code
             id == IF same THEN row[q].uuid ELSE FreshUuid(r)
  <1>1. Reflagged(r, q, same) =
          [row[r] EXCEPT !.cmp = q, !.same = same, !.uuid = id, !.code = code]
    BY Zenon DEF Reflagged
  <1> HIDE DEF code, id
  <1>2. QED
    BY <1>1 DEF Columns

LEMMA InitOneToOne == Init => OneToOneInv
  <1>1. Init => Exclusive
    BY DEF Init, Exclusive
  <1>2. QED
    BY <1>1, InitConcept DEF OneToOneInv

LEMMA NextOneToOne ==
    ASSUME OneToOneInv, [Next]_vars
    PROVE  OneToOneInv'
  <1>1. ConceptInv'
    BY NextConcept DEF OneToOneInv
  <1>2. CASE UNCHANGED vars
    BY <1>1, <1>2, KeepStep DEF vars
  <1>3. ASSUME NEW u \in Upload, NEW s, NEW o \in Upload \cup {None},
               NEW clone \in BOOLEAN, Validate(u, s, o, clone)
        PROVE  OneToOneInv'
    <2>1. \A r \in Slot : row'[r].cmp \in {row[r].cmp, None}
      <3>1. DOMAIN row = Slot /\ <<u, 1>> \in Slot
        BY ConceptAssumption DEF OneToOneInv, ConceptInv, Typed, Slot
      <3>2. CASE clone
        <4>1. <<o, 1>> \in Slot
          BY <1>3, <3>2, ConceptAssumption
             DEF Validate, Current, Approved, Slot
        <4>2. row' = [row EXCEPT ![<<u, 1>>] = [row[<<o, 1>>] EXCEPT
                                                 !.cmp = None, !.same = FALSE]]
          BY <1>3, <3>2 DEF Validate
        <4>3. DOMAIN row[<<o, 1>>] = Columns
          BY <4>1 DEF OneToOneInv, ConceptInv, Typed
        <4>4. QED
          BY <3>1, <4>2, <4>3 DEF Columns
      <3>3. CASE ~ clone
        BY <1>3, <3>3 DEF Validate
      <3>4. QED
        BY <3>2, <3>3
    <2>2. clashed' = clashed
      BY <1>3 DEF Validate
    <2>3. QED
      BY <1>1, <2>1, <2>2, KeepStep
  <1>4. ASSUME NEW u \in Upload,
               StartMatching(u) \/ StartRest(u) \/ StartCoding(u)
                 \/ FinishMatching(u) \/ Approve(u) \/ CodeChildren(u)
                 \/ NumberConcepts(u) \/ Reject(u)
                 \/ \E r \in NewUnits(u), q \in ApprovedUnits : Compare(u, r, q)
        PROVE  OneToOneInv'
    <2>1. \A r \in Slot : row'[r].cmp \in {row[r].cmp, None}
      <3>1. CASE row' = row
        BY <3>1
      <3>2. CASE CodeChildren(u) \/ NumberConcepts(u)
        BY <3>2, NumberStepKeeps DEF OneToOneInv
      <3>3. CASE Reject(u)
        BY <3>3 DEF Reject, EmptyRow
      <3>4. QED
        BY <1>4, <3>1, <3>2, <3>3 DEF StartMatching, StartRest, StartCoding,
           FinishMatching, Approve, Compare
    <2>2. clashed' = clashed
      BY <1>4 DEF StartMatching, StartRest, StartCoding, FinishMatching, Approve,
         CodeChildren, NumberConcepts, Reject, Compare
    <2>3. QED
      BY <1>1, <2>1, <2>2, KeepStep
  <1>6. ASSUME NEW u \in Upload, MatchUnit(u) \/ MatchRest(u)
        PROVE  OneToOneInv'
    <2>1. /\ stage[u] \in {"matching", "rest"} /\ at[u] <= Len(units[u])
          /\ UNCHANGED clashed
      BY <1>6 DEF MatchUnit, MatchRest
    <2>2. PICK r \in Slot : r = <<u, at[u]>> /\ r[1] = u
      BY <2>1, UnitAt DEF OneToOneInv
    <2>3. DOMAIN row = Slot /\ DOMAIN row[r] = Columns
      BY DEF OneToOneInv, ConceptInv, Typed
    <2>4. \/ row' = row
          \/ row' = [row EXCEPT ![r] = Unmatched(r)]
          \/ \E q \in Choices(r) \cup RestChoices(r) :
               row' = [row EXCEPT ![r] = Matched(r, q)]
      BY <1>6, <2>2 DEF MatchUnit, MatchRest
    <2>5. CASE row' = row
      BY <1>1, <2>1, <2>5, KeepStep
    <2>6. CASE row' = [row EXCEPT ![r] = Unmatched(r)]
      <3>1. Unmatched(r).cmp = None
        BY <2>3 DEF Unmatched, Columns
      <3>2. \A x \in Slot : row'[x].cmp \in {row[x].cmp, None}
        BY <2>3, <2>6, <3>1
      <3>3. QED
        BY <1>1, <2>1, <3>2, KeepStep
    <2>7. ASSUME NEW q \in Choices(r) \cup RestChoices(r),
                 row' = [row EXCEPT ![r] = Matched(r, q)]
          PROVE  OneToOneInv'
      <3>1. q \in ApprovedUnits /\ ~ Taken(r, q)
        BY Candidates, NotAllocated DEF OneToOneInv
      <3>2. Matched(r, q).cmp = q
        BY <2>3 DEF Matched, Columns
      <3>3. /\ row'[r].cmp = q
            /\ \A x \in Slot \ {r} : row'[x].cmp = row[x].cmp
        BY <2>3, <2>7, <3>2
      <3>4. QED
        BY <1>1, <2>1, <3>1, <3>3, CompareStep
    <2>8. QED
      BY <2>4, <2>5, <2>6, <2>7
  <1>7. ASSUME NEW u \in Upload, NEW r \in NewUnits(u), SwapConcept(u, r)
        PROVE  OneToOneInv'
    <2>1. r \in Slot /\ DOMAIN row = Slot /\ DOMAIN row[r] = Columns
      BY UnitSlots DEF OneToOneInv, ConceptInv, Typed
    <2>2. /\ row' = [row EXCEPT ![r] = Reflagged(r, row[r].cmp, ~ row[r].same)]
          /\ clashed' = clashed
      BY <1>7 DEF SwapConcept
    <2>3. \A x \in Slot : row'[x].cmp = row[x].cmp
      <3>1. Reflagged(r, row[r].cmp, ~ row[r].same).cmp = row[r].cmp
        BY <2>1, ReflaggedCmp
      <3>2. QED
        BY <2>1, <2>2, <3>1
    <2>4. QED
      BY <1>1, <2>2, <2>3, KeepStep
  <1>9. ASSUME NEW u \in Upload, NEW r \in NewUnits(u), NEW q \in ApprovedUnits,
               ConfirmRematch(u, r, q)
        PROVE  OneToOneInv'
    <2>1. r \in Slot /\ DOMAIN row = Slot /\ DOMAIN row[r] = Columns
      BY UnitSlots DEF OneToOneInv, ConceptInv, Typed
    <2>2. /\ row' = [row EXCEPT ![r] = Reflagged(r, q, IsSame(r, q))]
          /\ clashed' = IF Taken(r, q) THEN clashed \cup {r} ELSE clashed \ {r}
      BY <1>9 DEF ConfirmRematch
    <2>3. Reflagged(r, q, IsSame(r, q)).cmp = q
      <3>1. IsSame(r, q) \in BOOLEAN
        BY DEF IsSame
      <3>2. QED
        BY <2>1, <3>1, ReflaggedCmp
    <2>4. row'[r].cmp = q /\ \A x \in Slot \ {r} : row'[x].cmp = row[x].cmp
      BY <2>1, <2>2, <2>3
    <2>5. QED
      BY <1>1, <2>1, <2>2, <2>4, CompareStep
  <1>10. QED
    BY <1>2, <1>3, <1>4, <1>6, <1>7, <1>9
       DEF Next, MatchingStep, ReviewStep

LEMMA OneToOneInvImplies == OneToOneInv => OneToOne
  <1> SUFFICES ASSUME OneToOneInv, NEW u \in Upload,
                      NEW r \in NewUnits(u), NEW q \in NewUnits(u), r # q,
                      row[r].uuid = row[q].uuid
               PROVE  r \in clashed \/ q \in clashed
    BY DEF OneToOne
  <1>1. /\ r \in Slot /\ r[1] = u /\ ~ IsClone(r)
        /\ q \in Slot /\ q[1] = u /\ ~ IsClone(q)
    BY UnitSlots DEF OneToOneInv, ConceptInv, IsClone, NewUnits
  <1>2. \A x \in {r, q} : IF row[x].same THEN row[x].uuid[1] # u
                          ELSE Owner(row[x].uuid) = x
    BY <1>1 DEF OneToOneInv, ConceptInv, OwnConcept, Compared
  <1>3. CASE row[r].same /\ row[q].same
    BY <1>1, <1>3 DEF OneToOneInv, ConceptInv, Compared, Exclusive
  <1>4. CASE ~ row[r].same /\ ~ row[q].same
    BY <1>2, <1>4
  <1>5. CASE row[r].same /\ ~ row[q].same
    <2>1. Owner(row[q].uuid) = q
      BY <1>2, <1>5
    <2>2. row[q].uuid[1] = u
      BY <2>1, <1>1 DEF Owner
    <2>3. QED
      BY <1>2, <1>5, <2>2
  <1>6. CASE ~ row[r].same /\ row[q].same
    <2>1. Owner(row[r].uuid) = r
      BY <1>2, <1>6
    <2>2. row[r].uuid[1] = u
      BY <2>1, <1>1 DEF Owner
    <2>3. QED
      BY <1>2, <1>6, <2>2
  <1>7. QED
    BY <1>3, <1>4, <1>5, <1>6

\* However many rematch dialogs are open, two units of an upload continue one
\* concept only when one of them was confirmed in a dialog whose answer another
\* unit had made stale (find_comparison_boundary, CompareBoundary,
\* ConfirmRematchBoundary): matching, its second pass, the answers of the
\* dialogs and the swaps bring about no other case.
THEOREM ConceptsOneToOne == Spec => []OneToOne
  <1>1. Init => OneToOneInv
    BY InitOneToOne
  <1>2. OneToOneInv /\ [Next]_vars => OneToOneInv'
    BY NextOneToOne
  <1>3. OneToOneInv => OneToOne
    BY OneToOneInvImplies
  <1>4. QED
    BY <1>1, <1>2, <1>3, PTL DEF Spec

-----------------------------------------------------------------------------
(* Least and greatest numbers                                              *)

LEMMA LeastExists ==
    ASSUME NEW S, S \subseteq Nat, S # {}
    PROVE  \E m \in S : \A y \in S : m <= y
  <1>1. PICK m \in S : \A y \in S : ~ (<<y, m>> \in OpToRel(<, Nat))
    BY NatLessThanWellFounded, WFMin
  <1>2. \A y \in S : ~ (y < m)
    BY <1>1 DEF OpToRel
  <1>3. QED
    BY <1>2

\* Finitely many numbers have a bound: the least number of numbers without one
\* would be one more than a number of numbers with one.
LEMMA FiniteBound ==
    ASSUME NEW S, S \subseteq Nat, IsFiniteSet(S)
    PROVE  \E b \in Nat : \A y \in S : y <= b
  <1> DEFINE Bounded(T) == \E b \in Nat : \A y \in T : y <= b
             Bad == {T \in SUBSET S : ~ Bounded(T)}
             K == {Cardinality(T) : T \in Bad}
  <1> SUFFICES ASSUME ~ Bounded(S) PROVE FALSE
    OBVIOUS
  <1>1. K \subseteq Nat /\ K # {}
    <2>1. \A T \in Bad : Cardinality(T) \in Nat
      BY FS_Subset, FS_CardinalityType
    <2>2. S \in Bad
      OBVIOUS
    <2>3. QED
      BY <2>1, <2>2
  <1>2. PICK k \in K : \A y \in K : k <= y
    BY <1>1, LeastExists
  <1>3. PICK T \in Bad : k = Cardinality(T)
    BY <1>2
  <1>4. IsFiniteSet(T) /\ T \subseteq Nat
    BY FS_Subset
  <1>5. PICK x \in T : TRUE
    <2>1. T # {}
      BY DEF Bad
    <2>2. QED
      BY <2>1
  <1>6. Cardinality(T \ {x}) = k - 1
    BY <1>3, <1>4, FS_RemoveElement
  <1>7. T \ {x} \notin Bad
    <2>1. k \in Nat
      BY <1>1
    <2>2. T \ {x} \in Bad => k - 1 \in K
      BY <1>6
    <2>3. QED
      BY <1>2, <2>1, <2>2
  <1>8. PICK b \in Nat : \A y \in T \ {x} : y <= b
    BY <1>7
  <1>9. x \in Nat /\ x + b \in Nat /\ \A y \in T : y <= x + b
    BY <1>4, <1>8
  <1>10. QED
    BY <1>9

LEMMA GreatestExists ==
    ASSUME NEW S, S \subseteq Nat, S # {}, IsFiniteSet(S)
    PROVE  \E m \in S : \A y \in S : y <= m
  <1> DEFINE B == {b \in Nat : \A y \in S : y <= b}
  <1>1. PICK m \in B : \A b \in B : m <= b
    <2>1. B # {}
      BY FiniteBound
    <2>2. QED
      BY <2>1, LeastExists
  <1>2. m \in S
    <2> SUFFICES ASSUME m \notin S PROVE FALSE
      OBVIOUS
    <2>1. \A y \in S : y <= m - 1 /\ m - 1 \in Nat
      OBVIOUS
    <2>2. m - 1 \in B
      BY <2>1
    <2>3. QED
      BY <1>1, <2>2
  <1>3. QED
    BY <1>2

\* What a function makes of the elements of a finite set: not more than those,
\* and as many if no two become the same.
LEMMA Images ==
    ASSUME NEW S, IsFiniteSet(S), NEW f
    PROVE  /\ IsFiniteSet({f[x] : x \in S})
           /\ Cardinality({f[x] : x \in S}) <= Cardinality(S)
           /\ (\A x, y \in S : f[x] = f[y] => x = y)
                => Cardinality({f[x] : x \in S}) = Cardinality(S)
  <1> DEFINE T == {f[x] : x \in S}
             g == [x \in S |-> f[x]]
  <1>1. g \in Surjection(S, T)
    BY DEF Surjection
  <1>2. (\A x, y \in S : f[x] = f[y] => x = y) => g \in Injection(S, T)
    BY DEF Injection, IsInjective
  <1> HIDE DEF T, g
  <1>3. QED
    BY <1>1, <1>2, FS_Surjection DEF T

\* Uploads by date: some upload of each set is the first and one the last.
LEMMA Extremes ==
    ASSUME NEW S, S \subseteq Upload, S # {}
    PROVE  /\ \E w \in S : \A v \in S : Date[v] <= Date[w]
           /\ \E w \in S : \A v \in S : Date[w] <= Date[v]
  <1> DEFINE T == {Date[w] : w \in S}
  <1>1. T \subseteq Nat /\ T # {}
    BY ConceptAssumption
  <1>2. IsFiniteSet(T)
    <2>1. IsFiniteSet(S)
      BY ConceptAssumption, FS_Subset
    <2>2. QED
      BY <2>1, Images
  <1>3. \E m \in T : \A y \in T : y <= m
    BY <1>1, <1>2, GreatestExists
  <1>4. \E m \in T : \A y \in T : m <= y
    BY <1>1, LeastExists
  <1>5. QED
    BY <1>3, <1>4

-----------------------------------------------------------------------------
(* One upload moves at a time                                              *)

\* The stages in which a rival's approval would be met
Busy == Reviewing \cup {"numbered"}

TypedRest ==
    /\ orig \in [Upload -> Upload \cup {None}]
    /\ version \in [Upload -> Nat]
    /\ cloned \subseteq Upload /\ together \in BOOLEAN

\* Until two uploads met in review, one is at most.
Alone ==
    ~ together => \A u, w \in Upload :
      stage[u] \in Busy /\ stage[w] \in Busy => u = w

\* Units come from a layer file and go with the rejection.
Shaped ==
    \A u \in Upload : IF stage[u] \in {"none", "rejected"} THEN units[u] = <<>>
                      ELSE units[u] \in Shape[u]

\* Revisions of approved uploads, the first of which revises none
Originals ==
    /\ \A u \in Upload : orig[u] # None => stage[orig[u]] = "approved"
    /\ Approved # {} => \E w \in Approved : orig[w] = None

\* A cloned country row stays a copy.
Copied ==
    \A u \in cloned : /\ orig[u] # None /\ stage[u] \notin {"none", "rejected"}
                      /\ \A f \in {"uuid", "code", "concept"} :
                           row[<<u, 1>>][f] = row[<<orig[u], 1>>][f]

BaseInv == ConceptInv /\ TypedRest /\ Alone /\ Shaped /\ Originals /\ Copied

\* What a step leaves of an upload that it is not about
Keeps(w) ==
    /\ stage'[w] = stage[w] /\ units'[w] = units[w]
    /\ orig'[w] = orig[w] /\ version'[w] = version[w]
    /\ at'[w] = at[w] /\ edits'[w] = edits[w]
    /\ (w \in cloned') <=> (w \in cloned)
    /\ \A r \in Slot : r[1] = w => row'[r] = row[r]

Create(u) ==
    \E s \in Shape[u], o \in Upload \cup {None}, clone \in BOOLEAN :
      Validate(u, s, o, clone)

\* A step is about one upload, and not an approved one.
LEMMA StepOfOne ==
    ASSUME ConceptInv, TypedRest, Next
    PROVE  \E u \in Upload :
             /\ Create(u) \/ StartMatching(u) \/ MatchingStep(u) \/ ReviewStep(u)
             /\ stage[u] # "approved"
             /\ \A w \in Upload \ {u} : Keeps(w)
  <1>1. /\ stage \in [Upload -> Stage] /\ DOMAIN row = Slot
        /\ DOMAIN units = Upload /\ DOMAIN at = Upload /\ DOMAIN edits = Upload
        /\ DOMAIN orig = Upload /\ DOMAIN version = Upload
    BY DEF ConceptInv, Typed, TypedRest
  <1>2. ASSUME NEW u \in Upload, Create(u)
        PROVE  stage[u] # "approved" /\ \A w \in Upload \ {u} : Keeps(w)
    <2>1. PICK s \in Shape[u], o \in Upload \cup {None}, clone \in BOOLEAN :
            Validate(u, s, o, clone)
      BY <1>2 DEF Create
    <2>2. /\ stage' = [stage EXCEPT ![u] = "validated"]
          /\ units' = [units EXCEPT ![u] = s]
          /\ orig' = [orig EXCEPT ![u] = o]
          /\ cloned' = IF clone THEN cloned \cup {u} ELSE cloned
          /\ UNCHANGED <<version, at, edits>> /\ stage[u] = "none"
      BY <2>1 DEF Validate
    <2>3. \A r \in Slot : r[1] # u => row'[r] = row[r]
      BY <2>1, <1>1 DEF Validate
    <2>4. QED
      BY <1>1, <2>2, <2>3 DEF Keeps
  <1>3. ASSUME NEW u \in Upload, StartMatching(u)
        PROVE  stage[u] # "approved" /\ \A w \in Upload \ {u} : Keeps(w)
    BY <1>1, <1>3 DEF StartMatching, Keeps
  <1>4. ASSUME NEW u \in Upload,
               StartRest(u) \/ StartCoding(u) \/ FinishMatching(u) \/ Approve(u)
        PROVE  stage[u] # "approved" /\ \A w \in Upload \ {u} : Keeps(w)
    BY <1>1, <1>4 DEF StartRest, StartCoding, FinishMatching, Approve,
       uploadVars, Keeps
  <1>5. ASSUME NEW u \in Upload, MatchUnit(u) \/ MatchRest(u)
        PROVE  stage[u] # "approved" /\ \A w \in Upload \ {u} : Keeps(w)
    <2>1. /\ stage[u] # "approved" /\ UNCHANGED <<stage, uploadVars, edits>>
          /\ at' = [at EXCEPT ![u] = @ + 1]
          /\ \A x \in Slot : x[1] # u => row'[x] = row[x]
      BY <1>5, <1>1 DEF MatchUnit, MatchRest
    <2>2. QED
      BY <1>1, <2>1 DEF uploadVars, Keeps
  <1>6. ASSUME NEW u \in Upload, CodeChildren(u)
        PROVE  stage[u] # "approved" /\ \A w \in Upload \ {u} : Keeps(w)
    <2>1. /\ stage[u] # "approved" /\ UNCHANGED <<stage, uploadVars, at, edits>>
          /\ \A x \in Uncoded(u) : x[1] = u
      BY <1>6, UnitSlots DEF CodeChildren, Uncoded, ConceptInv
    <2>2. \A x \in Slot : x[1] # u => row'[x] = row[x]
      <3>1. \A x \in Slot \ Uncoded(u) : row'[x] = row[x]
        BY <1>6 DEF CodeChildren
      <3>2. QED
        BY <2>1, <3>1
    <2>3. QED
      BY <2>1, <2>2 DEF uploadVars, Keeps
  <1>7. ASSUME NEW u \in Upload, NEW r \in NewUnits(u),
               \/ SwapConcept(u, r)
               \/ \E q \in ApprovedUnits : ConfirmRematch(u, r, q)
        PROVE  stage[u] # "approved" /\ \A w \in Upload \ {u} : Keeps(w)
    <2>1. r[1] = u
      BY UnitSlots DEF ConceptInv
    <2>2. /\ stage[u] # "approved" /\ UNCHANGED <<stage, uploadVars, at>>
          /\ edits' = [edits EXCEPT ![u] = @ + 1]
          /\ \A x \in Slot : x[1] # u => row'[x] = row[x]
      BY <1>7, <1>1, <2>1 DEF SwapConcept, ConfirmRematch, Edit
    <2>3. QED
      BY <1>1, <2>2 DEF uploadVars, Keeps
  <1>8. ASSUME NEW u \in Upload, \E r, q : Compare(u, r, q)
        PROVE  stage[u] # "approved" /\ \A w \in Upload \ {u} : Keeps(w)
    BY <1>8 DEF Compare, uploadVars, Keeps
  <1>9. ASSUME NEW u \in Upload, NumberConcepts(u)
        PROVE  stage[u] # "approved" /\ \A w \in Upload \ {u} : Keeps(w)
    <2>1. /\ stage[u] # "approved" /\ UNCHANGED <<uploadVars, at, edits>>
          /\ stage' = [stage EXCEPT ![u] = "numbered"]
          /\ \A x \in NewUnits(u) : x[1] = u
      BY <1>9, UnitSlots DEF NumberConcepts, ConceptInv
    <2>2. \A x \in Slot : x[1] # u => row'[x] = row[x]
      <3>1. \A x \in Slot \ NewUnits(u) : row'[x] = row[x]
        BY <1>9 DEF NumberConcepts
      <3>2. QED
        BY <2>1, <3>1
    <2>3. QED
      BY <1>1, <2>1, <2>2 DEF uploadVars, Keeps
  <1>10. ASSUME NEW u \in Upload, Reject(u)
         PROVE  stage[u] # "approved" /\ \A w \in Upload \ {u} : Keeps(w)
    BY <1>1, <1>10 DEF Reject, Keeps
  <1>11. PICK u \in Upload : Create(u) \/ StartMatching(u) \/ MatchingStep(u)
                             \/ ReviewStep(u)
    BY DEF Next, Create
  <1>12. stage[u] # "approved" /\ \A w \in Upload \ {u} : Keeps(w)
    BY <1>11, <1>2, <1>3, <1>4, <1>5, <1>6, <1>7, <1>8, <1>9, <1>10
       DEF MatchingStep, ReviewStep
  <1>13. QED
    BY <1>11, <1>12

LEMMA VersionType ==
    ASSUME TypedRest, NEW u \in Upload
    PROVE  VersionFor(u) \in Nat
  <1> DEFINE before == {w \in Approved : Date[w] < Date[u]}
             after == {w \in Approved : Date[w] > Date[u]}
             prev == CHOOSE w \in before : \A v \in before : Date[v] <= Date[w]
             next == CHOOSE w \in after : \A v \in after : Date[w] <= Date[v]
  <1>1. before \subseteq Upload /\ after \subseteq Upload
    BY DEF Approved
  <1>2. /\ before # {} => prev \in Upload
        /\ after # {} => next \in Upload
    <2> HIDE DEF before, after
    <2>1. before # {} => prev \in before
      BY <1>1, Extremes
    <2>2. after # {} => next \in after
      BY <1>1, Extremes
    <2>3. QED
      BY <1>1, <2>1, <2>2
  <1>3. One \in Nat
    BY ConceptAssumption, FS_CardinalityType DEF One
  <1>4. VersionFor(u) = IF orig[u] = None \/ before \cup after = {} THEN One
                        ELSE IF before = {} THEN version[next] \div 2
                        ELSE IF after = {} THEN version[prev] + One
                        ELSE (version[prev] + version[next]) \div 2
    BY DEF VersionFor
  <1> HIDE DEF before, after, prev, next
  <1>5. /\ before # {} => version[prev] \in Nat
        /\ after # {} => version[next] \in Nat
    BY <1>2 DEF TypedRest
  <1>6. QED
    BY <1>3, <1>4, <1>5

LEMMA InitBase == Init => BaseInv
  <1> SUFFICES ASSUME Init PROVE BaseInv
    OBVIOUS
  <1>1. ConceptInv
    BY InitConcept
  <1>2. TypedRest /\ Alone /\ Shaped /\ Copied
    BY DEF Init, TypedRest, Alone, Busy, Reviewing, Shaped, Copied
  <1>3. Originals
    BY DEF Init, Originals, Approved
  <1>4. QED
    BY <1>1, <1>2, <1>3 DEF BaseInv

\* How an upload moves on
LEMMA Moves ==
    ASSUME ConceptInv, TypedRest, NEW u \in Upload,
           Create(u) \/ StartMatching(u) \/ MatchingStep(u) \/ ReviewStep(u)
    PROVE  /\ Create(u) => stage[u] = "none" /\ stage'[u] = "validated"
           /\ StartMatching(u) => stage[u] = "validated" /\ stage'[u] = "matching"
           /\ stage'[u] = "approved" <=> Approve(u)
           /\ Approve(u) => stage[u] = "numbered"
           /\ stage'[u] \in Busy => stage[u] \in Busy \/ StartMatching(u)
           /\ MatchingStep(u) \/ ReviewStep(u) => stage[u] \in Busy
           /\ IF StartMatching(u)
              THEN together' = (together \/ \E w \in Upload \ {u} : stage[w] \in Busy)
              ELSE together' = together
           /\ ~ Create(u) => orig' = orig
           /\ ~ StartMatching(u) => version' = version
           /\ stage'[u] = "rejected" <=> Reject(u)
           /\ ~ Create(u) /\ ~ Reject(u) => units' = units /\ cloned' = cloned
  <1>1. DOMAIN stage = Upload /\ stage[u] \in Stage
    BY DEF ConceptInv, Typed
  <1>2. CASE Create(u)
    BY <1>1, <1>2 DEF Create, Validate, Busy, Reviewing, StartMatching,
       MatchingStep, ReviewStep, MatchUnit, StartRest, MatchRest, StartCoding,
       CodeChildren, FinishMatching, SwapConcept, Compare, ConfirmRematch, Edit,
       NumberConcepts, Approve, Reject
  <1>3. CASE StartMatching(u)
    BY <1>1, <1>3 DEF Create, Validate, Busy, Reviewing, StartMatching,
       MatchingStep, ReviewStep, MatchUnit, StartRest, MatchRest, StartCoding,
       CodeChildren, FinishMatching, SwapConcept, Compare, ConfirmRematch, Edit,
       NumberConcepts, Approve, Reject
  <1>4. CASE MatchingStep(u)
    BY <1>1, <1>4 DEF Create, Validate, Busy, Reviewing, StartMatching,
       MatchingStep, MatchUnit, StartRest, MatchRest, StartCoding,
       CodeChildren, FinishMatching, Approve, Reject, uploadVars
  <1>5. CASE ReviewStep(u)
    BY <1>1, <1>5 DEF Create, Validate, Busy, Reviewing, StartMatching,
       ReviewStep, SwapConcept, Compare, ConfirmRematch, Edit,
       NumberConcepts, Approve, Reject, uploadVars
  <1>6. QED
    BY <1>2, <1>3, <1>4, <1>5

\* Only validation and the rejection touch a cloned country row.
LEMMA CloneKept ==
    ASSUME ConceptInv, TypedRest, NEW u \in Upload, u \in cloned,
           StartMatching(u) \/ MatchingStep(u) \/ ReviewStep(u), ~ Reject(u)
    PROVE  row'[<<u, 1>>] = row[<<u, 1>>]
  <1>1. /\ <<u, 1>> \in Slot /\ <<u, 1>> \notin NewUnits(u) /\ DOMAIN row = Slot
        /\ \A r \in NewUnits(u) : r \in Slot
    BY ConceptAssumption, UnitSlots DEF Slot, NewUnits, ConceptInv, Typed
  <1>2. ASSUME MatchUnit(u) \/ MatchRest(u) PROVE row'[<<u, 1>>] = row[<<u, 1>>]
    <2>1. at[u] # 1
      BY <1>2 DEF MatchUnit, MatchRest, ConceptInv, Loops
    <2>2. QED
      BY <1>1, <1>2, <2>1 DEF MatchUnit, MatchRest
  <1>3. ASSUME CodeChildren(u) PROVE row'[<<u, 1>>] = row[<<u, 1>>]
    <2>1. \A x \in Slot \ Uncoded(u) : row'[x] = row[x]
      BY <1>3 DEF CodeChildren
    <2>2. QED
      BY <1>1, <2>1 DEF Uncoded
  <1>4. ASSUME NumberConcepts(u) PROVE row'[<<u, 1>>] = row[<<u, 1>>]
    <2>1. \A x \in Slot \ NewUnits(u) : row'[x] = row[x]
      BY <1>4 DEF NumberConcepts
    <2>2. QED
      BY <1>1, <2>1
  <1>5. ASSUME NEW r \in NewUnits(u), NEW q, SwapConcept(u, r) \/ ConfirmRematch(u, r, q)
        PROVE  row'[<<u, 1>>] = row[<<u, 1>>]
    BY <1>1, <1>5 DEF SwapConcept, ConfirmRematch
  <1>6. QED
    BY <1>2, <1>3, <1>4, <1>5
       DEF MatchingStep, ReviewStep, StartMatching, StartRest, StartCoding,
           FinishMatching, Compare, Approve

LEMMA NextBase == BaseInv /\ [Next]_vars => BaseInv'
  <1> SUFFICES ASSUME BaseInv, [Next]_vars PROVE BaseInv'
    OBVIOUS
  <1>1. ConceptInv /\ TypedRest /\ ConceptInv'
    BY NextConcept DEF BaseInv
  <1>2. CASE UNCHANGED vars
    <2>1. TypedRest' /\ Alone' /\ Shaped' /\ Originals' /\ Copied'
      BY <1>2 DEF BaseInv, vars, uploadVars, TypedRest, Alone, Shaped, Originals,
         Approved, Copied
    <2>2. QED
      BY <1>1, <2>1 DEF BaseInv
  <1>3. CASE Next
    <2>1. PICK u \in Upload :
            /\ Create(u) \/ StartMatching(u) \/ MatchingStep(u) \/ ReviewStep(u)
            /\ stage[u] # "approved"
            /\ \A w \in Upload \ {u} : Keeps(w)
      BY <1>1, <1>3, StepOfOne
    <2>2. /\ Create(u) => stage[u] = "none" /\ stage'[u] = "validated"
          /\ StartMatching(u) => stage[u] = "validated" /\ stage'[u] = "matching"
          /\ stage'[u] = "approved" <=> Approve(u)
          /\ Approve(u) => stage[u] = "numbered"
          /\ stage'[u] \in Busy => stage[u] \in Busy \/ StartMatching(u)
          /\ MatchingStep(u) \/ ReviewStep(u) => stage[u] \in Busy
          /\ IF StartMatching(u)
             THEN together' = (together \/ \E w \in Upload \ {u} : stage[w] \in Busy)
             ELSE together' = together
          /\ ~ Create(u) => orig' = orig
          /\ ~ StartMatching(u) => version' = version
          /\ stage'[u] = "rejected" <=> Reject(u)
          /\ ~ Create(u) /\ ~ Reject(u) => units' = units /\ cloned' = cloned
      BY <1>1, <2>1, Moves
    <2>3. \A w \in Upload : stage[w] = "approved" => w # u
      BY <2>1
    <2>4. TypedRest'
      <3>1. orig' \in [Upload -> Upload \cup {None}]
        BY <1>1, <2>2 DEF Create, Validate, TypedRest
      <3>2. version' \in [Upload -> Nat]
        <4>1. CASE StartMatching(u)
          BY <1>1, <4>1, VersionType DEF StartMatching, TypedRest
        <4>2. QED
          BY <1>1, <2>2, <4>1 DEF TypedRest
      <3>3. cloned' \subseteq Upload /\ together' \in BOOLEAN
        BY <1>1, <2>1, <2>2 DEF TypedRest, Create, Validate, Reject
      <3>4. QED
        BY <3>1, <3>2, <3>3 DEF TypedRest
    <2>5. Alone'
      <3> SUFFICES ASSUME ~ together', NEW v \in Upload, NEW w \in Upload,
                          stage'[v] \in Busy, stage'[w] \in Busy, v # w
                   PROVE  FALSE
        BY DEF Alone, Busy, Reviewing
      <3>1. ~ together /\ (StartMatching(u) => \A x \in Upload \ {u} : stage[x] \notin Busy)
        BY <1>1, <2>2 DEF TypedRest
      <3>2. \A x \in Upload \ {u} : stage'[x] = stage[x]
        BY <2>1 DEF Keeps
      <3>3. QED
        BY <3>1, <3>2, <2>2 DEF BaseInv, Alone
    <2>6. Shaped'
      <3>1. stage'[u] # "none"
        BY <1>1, <2>1 DEF Create, Validate, StartMatching, MatchingStep,
           ReviewStep, MatchUnit, StartRest, MatchRest, StartCoding, CodeChildren,
           FinishMatching, SwapConcept, Compare, ConfirmRematch, Edit,
           NumberConcepts, Approve, Reject, ConceptInv, Typed
      <3>2. IF stage'[u] = "rejected" THEN units'[u] = <<>>
            ELSE units'[u] \in Shape[u]
        <4>1. CASE Create(u)
          BY <1>1, <2>2, <4>1 DEF Create, Validate, ConceptInv, Typed
        <4>2. CASE Reject(u)
          BY <1>1, <2>2, <4>2 DEF Reject, ConceptInv, Typed
        <4>3. CASE ~ Create(u) /\ ~ Reject(u)
          <5>1. stage[u] \notin {"none", "rejected"}
            BY <2>1, <2>2, <4>3 DEF Busy, Reviewing
          <5>2. QED
            BY <2>2, <4>3, <5>1 DEF BaseInv, Shaped
        <4>4. QED
          BY <4>1, <4>2, <4>3
      <3>3. QED
        BY <2>1, <3>1, <3>2 DEF BaseInv, Shaped, Keeps
    <2>7. Originals'
      <3>1. \A w \in Upload : stage[w] = "approved" => stage'[w] = "approved" /\ orig'[w] = orig[w]
        BY <2>1 DEF Keeps
      <3>2. ASSUME NEW w \in Upload, orig'[w] # None
            PROVE  stage'[orig'[w]] = "approved"
        <4>1. orig'[w] \in Upload
          BY <2>4, <3>2 DEF TypedRest
        <4>2. stage[orig'[w]] = "approved"
          <5>1. CASE w = u /\ Create(u)
            BY <1>1, <3>2, <5>1 DEF Create, Validate, Current, Approved, TypedRest
          <5>2. CASE w # u \/ ~ Create(u)
            BY <2>1, <2>2, <3>2, <5>2 DEF Keeps, BaseInv, Originals
          <5>3. QED
            BY <5>1, <5>2
        <4>3. QED
          BY <3>1, <4>1, <4>2
      <3>3. ASSUME Approved' # {}
            PROVE  \E w \in Approved' : orig'[w] = None
        <4>1. CASE Approved # {}
          BY <3>1, <4>1 DEF BaseInv, Originals, Approved
        <4>2. CASE Approved = {}
          <5>1. u \in Approved' /\ orig' = orig
            BY <2>1, <2>2, <3>3, <4>2 DEF Approved, Keeps
          <5>2. orig[u] = None
            BY <1>1, <4>2 DEF BaseInv, Originals, TypedRest, Approved
          <5>3. QED
            BY <5>1, <5>2
        <4>3. QED
          BY <4>1, <4>2
      <3>4. QED
        BY <3>2, <3>3 DEF Originals
    <2>8. Copied'
      <3> SUFFICES ASSUME NEW w \in cloned'
                   PROVE  /\ orig'[w] # None /\ stage'[w] \notin {"none", "rejected"}
                          /\ \A f \in {"uuid", "code", "concept"} :
                               row'[<<w, 1>>][f] = row'[<<orig'[w], 1>>][f]
        BY DEF Copied
      <3>1. w \in Upload /\ (w \in cloned \/ (w = u /\ Create(u)))
        <4>1. w \in Upload
          BY <2>4 DEF TypedRest
        <4>2. cloned' \subseteq cloned \cup {u}
          BY <2>1, <2>2 DEF Create, Validate, Reject
        <4>3. ~ Create(u) => cloned' \subseteq cloned
          BY <2>2 DEF Reject
        <4>4. QED
          BY <4>1, <4>2, <4>3
      <3>2. \A o \in Upload : <<o, 1>> \in Slot
        BY ConceptAssumption DEF Slot
      <3>3. \A o \in Upload : stage[o] = "approved" =>
              row'[<<o, 1>>] = row[<<o, 1>>]
        BY <2>1, <3>2 DEF Keeps
      <3>4. CASE w # u
        <4>1. w \in cloned /\ row'[<<w, 1>>] = row[<<w, 1>>]
          BY <2>1, <3>2, <3>1, <3>4 DEF Keeps
        <4>2. orig[w] \in Upload /\ stage[orig[w]] = "approved"
          BY <1>1, <3>1, <4>1 DEF BaseInv, Copied, Originals, TypedRest
        <4>3. QED
          BY <2>1, <3>1, <3>3, <3>4, <4>1, <4>2 DEF Keeps, BaseInv, Copied
      <3>5. CASE w = u /\ Create(u)
        <4>1. stage[u] = "none" /\ u \notin cloned
          BY <2>2, <3>5 DEF BaseInv, Copied
        <4>2. PICK s \in Shape[u], o \in Upload \cup {None}, clone \in BOOLEAN :
                Validate(u, s, o, clone)
          BY <3>5 DEF Create
        <4>3. clone /\ o \in Upload /\ stage[o] = "approved" /\ o # None
          BY <3>5, <4>1, <4>2 DEF Validate, Current, Approved
        <4>4. orig'[u] = o /\ stage'[u] = "validated"
          BY <1>1, <4>2 DEF Validate, TypedRest, ConceptInv, Typed
        <4>5. /\ <<u, 1>> \in Slot /\ <<o, 1>> \in Slot /\ DOMAIN row = Slot
              /\ DOMAIN row[<<o, 1>>] = Columns
          BY <1>1, <4>3, ConceptAssumption, SMTT(30) DEF Slot, ConceptInv, Typed
        <4>6. row'[<<u, 1>>] = [row[<<o, 1>>] EXCEPT !.cmp = None, !.same = FALSE]
          BY <4>2, <4>3, <4>5 DEF Validate
        <4>7. \A f \in {"uuid", "code", "concept"} :
                row'[<<u, 1>>][f] = row[<<o, 1>>][f]
          BY <4>5, <4>6 DEF Columns
        <4>8. QED
          BY <3>3, <3>5, <4>3, <4>4, <4>7
      <3>6. CASE w = u /\ ~ Create(u)
        <4>1. w \in cloned /\ ~ Reject(u)
          BY <3>1, <3>6 DEF Reject
        <4>2. row'[<<u, 1>>] = row[<<u, 1>>] /\ orig' = orig
          BY <1>1, <2>1, <2>2, <3>6, <4>1, CloneKept
        <4>3. orig[u] \in Upload /\ stage[orig[u]] = "approved"
          BY <1>1, <3>6, <4>1 DEF BaseInv, Copied, Originals, TypedRest
        <4>4. stage'[u] \notin {"none", "rejected"}
          BY <1>1, <2>1, <2>2, <3>6, <4>1 DEF StartMatching, MatchingStep,
             ReviewStep, MatchUnit, StartRest, MatchRest, StartCoding,
             CodeChildren, FinishMatching, SwapConcept, Compare, ConfirmRematch,
             Edit, NumberConcepts, Approve, ConceptInv, Typed
        <4>5. QED
          BY <3>3, <3>6, <4>1, <4>2, <4>3, <4>4 DEF BaseInv, Copied
      <3>7. QED
        BY <3>1, <3>4, <3>5, <3>6
    <2>9. QED
      BY <1>1, <2>4, <2>5, <2>6, <2>7, <2>8 DEF BaseInv
  <1>4. QED
    BY <1>2, <1>3
-----------------------------------------------------------------------------
(* An upload in review, and the history it is compared with                *)

\* The approved uploads stay as they are, and no other joins them.
HistoryKept == Approved' = Approved /\ \A w \in Approved : Keeps(w)

\* As long as uploads do not meet, the steps an upload in review goes through
\* are its own, and nothing is approved between them.
LEMMA PendingStep ==
    ASSUME BaseInv, [Next]_vars, ~ together', NEW u \in Upload,
           stage'[u] \in Busy
    PROVE  /\ ~ together /\ HistoryKept
           /\ \/ StartMatching(u)
              \/ stage[u] \in Busy /\ MatchingStep(u)
              \/ stage[u] \in Busy /\ ReviewStep(u)
              \/ stage[u] \in Busy /\ Keeps(u)
  <1>1. ConceptInv /\ TypedRest
    BY DEF BaseInv
  <1>2. CASE UNCHANGED vars
    BY <1>2 DEF vars, uploadVars, HistoryKept, Keeps, Approved
  <1>3. CASE Next
    <2>1. PICK v \in Upload :
            /\ Create(v) \/ StartMatching(v) \/ MatchingStep(v) \/ ReviewStep(v)
            /\ stage[v] # "approved"
            /\ \A w \in Upload \ {v} : Keeps(w)
      BY <1>1, <1>3, StepOfOne
    <2>2. /\ Create(v) => stage[v] = "none" /\ stage'[v] = "validated"
          /\ StartMatching(v) => stage[v] = "validated" /\ stage'[v] = "matching"
          /\ MatchingStep(v) \/ ReviewStep(v) => stage[v] \in Busy
          /\ IF StartMatching(v)
             THEN together' = (together \/ \E w \in Upload \ {v} : stage[w] \in Busy)
             ELSE together' = together
      BY <1>1, <2>1, Moves
    <2>3. ~ together
      BY <1>1, <2>2 DEF TypedRest
    <2>4. CASE v = u
      <3>1. Approved' = Approved /\ u \notin Approved
        BY <2>1, <2>4 DEF Approved, Keeps, Busy, Reviewing
      <3>2. HistoryKept
        BY <2>1, <2>4, <3>1 DEF HistoryKept, Approved
      <3>3. ~ Create(u)
        BY <2>2, <2>4 DEF Busy, Reviewing
      <3>4. QED
        BY <2>1, <2>2, <2>3, <2>4, <3>2, <3>3
    <2>5. CASE v # u
      <3>1. Keeps(u) /\ stage[u] \in Busy
        BY <2>1, <2>5 DEF Keeps
      <3>2. stage[v] \notin Busy /\ ~ StartMatching(v)
        BY <1>1, <2>2, <2>3, <2>5, <3>1 DEF BaseInv, Alone, TypedRest
      <3>3. Create(v)
        BY <2>1, <2>2, <3>2
      <3>4. Approved' = Approved /\ v \notin Approved
        BY <2>1, <2>2, <3>3 DEF Approved, Keeps
      <3>5. HistoryKept
        BY <2>1, <3>4 DEF HistoryKept, Approved
      <3>6. QED
        BY <2>3, <3>1, <3>5
    <2>6. QED
      BY <2>4, <2>5
  <1>4. QED
    BY <1>2, <1>3

\* What a unit is compared with stays the same.
LEMMA ViewKept ==
    ASSUME ConceptInv, HistoryKept
    PROVE  /\ ApprovedUnits' = ApprovedUnits
           /\ \A q \in ApprovedUnits : row'[q] = row[q] /\ Unit(q)' = Unit(q)
                                       /\ version'[q[1]] = version[q[1]]
  <1>1. \A w \in Approved : units'[w] = units[w] /\ version'[w] = version[w]
    BY DEF HistoryKept, Keeps
  <1>2. ApprovedUnits' = ApprovedUnits
    BY <1>1 DEF HistoryKept, ApprovedUnits, Units
  <1>3. ASSUME NEW q \in ApprovedUnits
        PROVE  /\ row'[q] = row[q] /\ Unit(q)' = Unit(q)
               /\ version'[q[1]] = version[q[1]]
    <2>1. q \in Slot /\ q[1] \in Approved
      BY ApprovedSlots DEF ConceptInv, Approved
    <2>2. QED
      BY <1>1, <2>1 DEF HistoryKept, Keeps, Unit
  <1>4. QED
    BY <1>2, <1>3

LEMMA RankKept ==
    ASSUME ConceptInv, HistoryKept, NEW u \in Upload, NEW r \in Units(u),
           units'[u] = units[u], version'[u] = version[u]
    PROVE  /\ Unit(r)' = Unit(r)
           /\ \A q \in ApprovedUnits : /\ Rank(r, q)' = Rank(r, q)
                                       /\ Overlap(r, q)' = Overlap(r, q)
  <1>1. r[1] = u
    BY UnitSlots DEF ConceptInv
  <1>2. Unit(r)' = Unit(r)
    BY <1>1 DEF Unit
  <1>3. /\ ApprovedUnits' = ApprovedUnits
        /\ \A q \in ApprovedUnits : Unit(q)' = Unit(q) /\ version'[q[1]] = version[q[1]]
    BY ViewKept
  <1>4. SameLevel(r)' = SameLevel(r)
    BY <1>2, <1>3 DEF SameLevel
  <1>5. PreviousRevision(r)' = PreviousRevision(r)
    <2>1. {version'[w] : w \in Approved'} = {version[w] : w \in Approved}
      BY DEF HistoryKept, Keeps
    <2>2. version'[r[1]] = version[r[1]]
      BY <1>1
    <2> DEFINE older == {v \in {version[w] : w \in Approved} \cup Elsewhere :
                           v < version[r[1]]}
    <2>3. older' = older
      BY <2>1, <2>2
    <2>4. PreviousRevision(r) = {q \in ApprovedUnits :
             older # {} /\ version[q[1]] = SetMax(older)}
      BY DEF PreviousRevision
    <2>5. PreviousRevision(r)' = {q \in ApprovedUnits' :
             older' # {} /\ version'[q[1]] = SetMax(older')}
      BY DEF PreviousRevision, SetMax
    <2> HIDE DEF older
    <2>6. QED
      BY <1>3, <2>3, <2>4, <2>5
  <1>6. QED
    BY <1>2, <1>3, <1>4, <1>5 DEF Rank, Overlap

-----------------------------------------------------------------------------
(* The search takes the best there is                                      *)

\* The place of a candidate in the order is the first tier it is in.
LEMMA RankInTiers ==
    ASSUME NEW r, NEW S, S \subseteq ApprovedUnits, NEW q \in S
    PROVE  /\ Rank(r, q) \in 1..4 /\ q \in Tiers(r, S)[Rank(r, q)]
           /\ \A k \in 1..4 : q \in Tiers(r, S)[k] => Rank(r, q) <= k
  <1>1. /\ Tiers(r, S)[1] = S \cap SameLevel(r) \cap PreviousRevision(r)
        /\ Tiers(r, S)[2] = S \cap SameLevel(r)
        /\ Tiers(r, S)[3] = S \cap PreviousRevision(r)
        /\ Tiers(r, S)[4] = S
    BY DEF Tiers
  <1>2. Rank(r, q) = IF q \in SameLevel(r)
                     THEN IF q \in PreviousRevision(r) THEN 1 ELSE 2
                     ELSE IF q \in PreviousRevision(r) THEN 3 ELSE 4
    BY DEF Rank
  <1>3. \A k \in 1..4 : k = 1 \/ k = 2 \/ k = 3 \/ k = 4
    OBVIOUS
  <1>4. QED
    BY <1>1, <1>2, <1>3

\* Candidates have a first one: by overlap, then by date.
LEMMA FirstExists ==
    ASSUME ConceptInv, NEW u \in Upload, NEW r \in Units(u),
           NEW S, S \subseteq ApprovedUnits, S # {}
    PROVE  FirstOf(S, r) # {}
  <1> DEFINE T == {Overlap(r, q) : q \in S}
  <1>1. \A q \in S : Overlap(r, q) \in 0..3 /\ q[1] \in Upload
    <2>1. ASSUME NEW v \in Upload, NEW q \in Units(v)
          PROVE  Unit(q).place \in Place
      <3>1. q[1] = v /\ q[2] \in 1..Len(units[v])
        BY UnitSlots DEF ConceptInv, Units
      <3>2. units[v] \in Seq(UnitData)
        BY DEF ConceptInv, Typed
      <3>3. Unit(q) \in UnitData
        BY <3>1, <3>2 DEF Unit
      <3>4. QED
        BY <3>3 DEF UnitData
    <2>2. \A q \in ApprovedUnits : q[1] \in Upload /\ q \in Units(q[1])
      BY ApprovedSlots DEF ConceptInv
    <2>3. QED
      BY <2>1, <2>2, ConceptAssumption DEF Overlap
  <1>2. PICK m \in T : \A y \in T : y <= m
    <2>1. T \subseteq Nat /\ T # {} /\ \A y \in T : y <= 3
      BY <1>1
    <2>2. IsFiniteSet(T)
      BY <2>1, FS_BoundedSetOfNaturals
    <2> HIDE DEF T
    <2>3. QED
      BY <2>1, <2>2, GreatestExists
  <1> DEFINE F == {q \in S : Overlap(r, q) = m}
             D == {q[1] : q \in F}
  <1>3. D \subseteq Upload /\ D # {}
    BY <1>1
  <1>4. PICK w \in D : \A v \in D : Date[v] <= Date[w]
    BY <1>3, Extremes
  <1>5. PICK q \in F : q[1] = w
    BY <1>4
  <1>6. ASSUME NEW p \in S
        PROVE  \/ Overlap(r, q) > Overlap(r, p)
               \/ Overlap(r, q) = Overlap(r, p) /\ Date[q[1]] >= Date[p[1]]
    <2>1. Overlap(r, p) <= m /\ Overlap(r, q) = m /\ m \in 0..3
          /\ Overlap(r, p) \in 0..3
      BY <1>1, <1>2, <1>5
    <2>2. CASE Overlap(r, p) = m
      <3>1. p[1] \in D
        BY <2>2
      <3>2. Date[p[1]] <= Date[w] /\ Date[p[1]] \in Nat /\ Date[w] \in Nat
        BY <1>3, <1>4, <3>1, ConceptAssumption
      <3>3. QED
        BY <1>5, <2>1, <2>2, <3>2
    <2>3. CASE Overlap(r, p) # m
      BY <2>1, <2>3
    <2>4. QED
      BY <2>2, <2>3
  <1>7. q \in FirstOf(S, r)
    BY <1>5, <1>6 DEF FirstOf
  <1>8. QED
    BY <1>7

\* The units the search for r has to choose from
Free(r) == {q \in Closest(r) : /\ Overlap(r, q) = Above
                               /\ row[q].uuid \notin Allocated(r[1])}

LEMMA SearchIsBest ==
    ASSUME ConceptInv, NEW u \in Upload, NEW r \in Units(u), NEW p \in Free(r)
    PROVE  /\ Choices(r) # {}
           /\ \A q \in Choices(r) : Rank(r, q) <= Rank(r, p)
  <1> DEFINE tiers == Tiers(r, Free(r))
             hit == {k \in DOMAIN tiers : tiers[k] # {}}
  <1>1. Free(r) \subseteq ApprovedUnits
    BY DEF Free, Closest
  <1>2. DOMAIN tiers = 1..4 /\ \A k \in 1..4 : tiers[k] \subseteq Free(r)
    BY DEF Tiers
  <1>3. Choices(r) = IF hit = {} THEN {} ELSE FirstOf(tiers[SetMin(hit)], r)
    BY DEF Choices, Free
  <1>4. Rank(r, p) \in hit
    BY <1>1, <1>2, RankInTiers
  <1>5. hit \subseteq Nat /\ hit \subseteq 1..4 /\ hit # {}
    BY <1>2, <1>4
  <1>6. SetMin(hit) \in hit /\ \A k \in hit : SetMin(hit) <= k
    <2> HIDE DEF hit
    <2>1. \E m \in hit : \A y \in hit : m <= y
      BY <1>5, LeastExists
    <2>2. QED
      BY <2>1 DEF SetMin
  <1>7. PICK m \in 1..4 : m = SetMin(hit) /\ tiers[m] # {} /\ m <= Rank(r, p)
    BY <1>4, <1>5, <1>6
  <1>8. Choices(r) = FirstOf(tiers[m], r)
    BY <1>3, <1>5, <1>7
  <1>9. tiers[m] \subseteq ApprovedUnits
    BY <1>1, <1>2, <1>7
  <1> HIDE DEF hit
  <1>10. Choices(r) # {}
    <2> HIDE DEF tiers
    <2>1. QED
      BY <1>7, <1>8, <1>9, FirstExists
  <1>11. ASSUME NEW q \in Choices(r) PROVE Rank(r, q) <= Rank(r, p)
    <2>1. q \in tiers[m] /\ q \in Free(r)
      BY <1>2, <1>7, <1>8, <1>11 DEF FirstOf
    <2>2. Rank(r, q) <= m /\ Rank(r, q) \in 1..4 /\ Rank(r, p) \in 1..4
      BY <1>1, <1>7, <2>1, RankInTiers
    <2>3. QED
      BY <1>7, <2>2
  <1>12. QED
    BY <1>10, <1>11

-----------------------------------------------------------------------------
(* Nothing better is left                                                  *)

\* The unit prefers its match to all that no unit before it took.
Best(r) ==
    \A q \in ApprovedUnits :
      /\ Overlap(r, q) = Above
      /\ \A x \in NewUnits(r[1]) :
           x[2] < r[2] => row[x].cmp = None
                          \/ row[row[x].cmp].uuid # row[q].uuid
      => row[r].cmp # None /\ Rank(r, row[r].cmp) <= Rank(r, q)

Untouched(u) ==
    stage[u] \in Reviewing /\ edits[u] = 0 /\ ~ together /\ orig[u] # None

BestSoFar ==
    \A u \in Upload : Untouched(u) =>
      \A r \in NewUnits(u) : ~ Ahead(r) => Best(r)

BestInv == BaseInv /\ BestSoFar

\* A step that leaves the comparisons of an upload keeps what they are.
LEMMA BestKept ==
    ASSUME BaseInv, HistoryKept, NEW u \in Upload, NEW r \in NewUnits(u),
           units'[u] = units[u], version'[u] = version[u],
           (u \in cloned') <=> (u \in cloned),
           row'[r].cmp = row[r].cmp,
           \A x \in NewUnits(u) : row'[x].cmp = row[x].cmp \/ row[x].cmp = None,
           Best(r)
    PROVE  Best(r)'
  <1>1. ConceptInv /\ r[1] = u /\ r \in Units(u) /\ NewUnits(u)' = NewUnits(u)
    BY UnitSlots DEF BaseInv, ConceptInv, NewUnits, Units
  <1>2. /\ ApprovedUnits' = ApprovedUnits
        /\ \A q \in ApprovedUnits : row'[q] = row[q]
    BY <1>1, ViewKept
  <1>3. \A q \in ApprovedUnits : /\ Rank(r, q)' = Rank(r, q)
                                 /\ Overlap(r, q)' = Overlap(r, q)
    BY <1>1, RankKept
  <1>4. \A x \in NewUnits(u) : row[x].cmp # None => row[x].cmp \in ApprovedUnits
    BY <1>1, UnitSlots DEF ConceptInv, Compared
  <1>5. ASSUME NEW q \in ApprovedUnits, Overlap(r, q) = Above,
               \A x \in NewUnits(u) :
                 x[2] < r[2] => row'[x].cmp = None
                                \/ row'[row'[x].cmp].uuid # row'[q].uuid
        PROVE  row[r].cmp # None /\ Rank(r, row[r].cmp) <= Rank(r, q)
    <2>1. \A x \in NewUnits(u) :
            x[2] < r[2] => row[x].cmp = None
                           \/ row[row[x].cmp].uuid # row[q].uuid
      BY <1>2, <1>4, <1>5
    <2>2. QED
      BY <1>1, <1>5, <2>1 DEF Best
  <1>6. ASSUME NEW q \in ApprovedUnits', Overlap(r, q)' = Above,
               \A x \in NewUnits(r[1])' :
                 x[2] < r[2] => row'[x].cmp = None
                                \/ row'[row'[x].cmp].uuid # row'[q].uuid
        PROVE  row'[r].cmp # None /\ (Rank(r, row[r].cmp) <= Rank(r, q))'
    <2>1. q \in ApprovedUnits /\ Overlap(r, q) = Above
      BY <1>2, <1>3, <1>6
    <2>2. row[r].cmp # None /\ Rank(r, row[r].cmp) <= Rank(r, q)
      BY <1>1, <1>5, <1>6, <2>1
    <2>3. PICK c \in ApprovedUnits : c = row[r].cmp
      BY <1>4, <2>2
    <2>4. Rank(r, c)' = Rank(r, c) /\ Rank(r, q)' = Rank(r, q)
      BY <1>3, <2>1
    <2>5. Rank(r, c)' <= Rank(r, q)' /\ row'[r].cmp = c
      BY <2>2, <2>3, <2>4
    <2>6. QED
      BY <2>2, <2>3, <2>5
  <1>7. QED
    BY <1>6 DEF Best, Above

\* The first pass makes the unit it is at prefer its match.
LEMMA BestFound ==
    ASSUME BaseInv, HistoryKept, NEW u \in Upload, MatchUnit(u), orig[u] # None,
           NEW r, r = <<u, at[u]>>
    PROVE  Best(r)'
  <1>1. ConceptInv /\ stage[u] = "matching" /\ at[u] <= Len(units[u])
    BY DEF BaseInv, MatchUnit
  <1>2. r \in NewUnits(u) /\ r \in Slot /\ r[1] = u /\ r[2] = at[u] /\ r \in Units(u)
    BY <1>1, UnitAt, UnitSlots DEF ConceptInv
  <1>3. /\ UNCHANGED <<units, version, cloned>> /\ NewUnits(u)' = NewUnits(u)
        /\ DOMAIN row = Slot /\ DOMAIN row[r] = Columns
    BY <1>1, <1>2 DEF MatchUnit, uploadVars, NewUnits, Units, ConceptInv, Typed
  <1>4. /\ ApprovedUnits' = ApprovedUnits
        /\ \A q \in ApprovedUnits : row'[q] = row[q]
        /\ \A q \in ApprovedUnits : /\ Rank(r, q)' = Rank(r, q)
                                    /\ Overlap(r, q)' = Overlap(r, q)
    BY <1>1, <1>2, <1>3, ViewKept, RankKept
  <1>5. /\ \A x \in Slot \ {r} : row'[x] = row[x]
        /\ \/ Choices(r) = {}
           \/ \E c \in Choices(r) : row'[r].cmp = c
    <2>1. \/ \E c \in Choices(r) : row' = [row EXCEPT ![r] = Matched(r, c)]
          \/ Choices(r) = {} /\ row' = [row EXCEPT ![r] = Unmatched(r)]
      BY <1>2 DEF MatchUnit
    <2>2. ASSUME NEW c \in Choices(r), row' = [row EXCEPT ![r] = Matched(r, c)]
          PROVE  row'[r].cmp = c /\ \A x \in Slot \ {r} : row'[x] = row[x]
      <3>1. Matched(r, c).cmp = c
        BY <1>3 DEF Matched, Columns
      <3>2. QED
        BY <1>2, <1>3, <2>2, <3>1
    <2>3. QED
      BY <1>3, <2>1, <2>2
  <1>6. \A x \in NewUnits(u) : /\ x \in Slot /\ x[1] = u /\ x[2] \in Nat
                               /\ row[x].cmp # None =>
                                    x[2] < r[2] /\ row[x].cmp \in ApprovedUnits
    <2> SUFFICES ASSUME NEW x \in NewUnits(u)
                 PROVE  /\ x \in Slot /\ x[1] = u /\ x[2] \in Nat
                        /\ row[x].cmp # None =>
                             x[2] < r[2] /\ row[x].cmp \in ApprovedUnits
      OBVIOUS
    <2>1. x \in Slot /\ x[1] = u /\ x[2] \in Nat
      BY <1>1, UnitSlots, ConceptAssumption DEF ConceptInv, Slot
    <2>2. row[x].cmp # None => ~ Ahead(x) /\ row[x].cmp \in ApprovedUnits
      BY <1>1, <2>1 DEF ConceptInv, Blank, Compared
    <2>3. QED
      BY <1>1, <1>2, <2>1, <2>2 DEF Ahead, ConceptInv, Typed
  <1>7. ASSUME NEW q \in ApprovedUnits, Overlap(r, q) = Above,
               \A x \in NewUnits(u) :
                 x[2] < r[2] => row'[x].cmp = None
                                \/ row'[row'[x].cmp].uuid # row'[q].uuid
        PROVE  row'[r].cmp # None /\ (Rank(r, row[r].cmp) <= Rank(r, q))'
    <2>1. row[q].uuid \notin Allocated(u)
      <3> SUFFICES ASSUME NEW x \in NewUnits(u), row[x].cmp # None,
                          row[row[x].cmp].uuid = row[q].uuid
                   PROVE  FALSE
        BY DEF Allocated
      <3>1. x[2] < r[2] /\ row[x].cmp \in ApprovedUnits /\ x # r /\ x \in Slot
        BY <1>2, <1>6
      <3>2. row'[x].cmp = row[x].cmp
        BY <1>5, <3>1
      <3>3. QED
        BY <1>4, <1>7, <3>1, <3>2
    <2>2. q \in Free(r)
      BY <1>2, <1>7, <2>1 DEF Free, Closest, Above, Disjoint
    <2>3. PICK c \in Choices(r) : row'[r].cmp = c /\ Rank(r, c) <= Rank(r, q)
      BY <1>1, <1>2, <1>5, <2>2, SearchIsBest
    <2>4. c \in ApprovedUnits /\ c # None
      BY <1>1, Candidates, ApprovedSlots DEF ConceptInv
    <2>5. Rank(r, c)' <= Rank(r, q)'
      BY <1>4, <2>3, <2>4
    <2>6. QED
      BY <2>3, <2>4, <2>5
  <1>8. ASSUME NEW q \in ApprovedUnits', Overlap(r, q)' = Above,
               \A x \in NewUnits(r[1])' :
                 x[2] < r[2] => row'[x].cmp = None
                                \/ row'[row'[x].cmp].uuid # row'[q].uuid
        PROVE  row'[r].cmp # None /\ (Rank(r, row[r].cmp) <= Rank(r, q))'
    BY <1>2, <1>3, <1>4, <1>7, <1>8
  <1>9. QED
    BY <1>8 DEF Best, Above

\* The second pass gives a match to units that found none: there was none as
\* good as they could prefer.
LEMMA BestOfRest ==
    ASSUME BaseInv, HistoryKept, NEW u \in Upload, MatchRest(u),
           NEW r \in NewUnits(u), Best(r)
    PROVE  Best(r)'
  <1>1. ConceptInv /\ stage[u] = "rest" /\ at[u] <= Len(units[u])
    BY DEF BaseInv, MatchRest
  <1>2. PICK t \in NewUnits(u) : t = <<u, at[u]>> /\ t \in Slot /\ t[1] = u
    BY <1>1, UnitAt, UnitSlots DEF ConceptInv
  <1>3. /\ UNCHANGED <<units, version, cloned>> /\ NewUnits(u)' = NewUnits(u)
        /\ DOMAIN row = Slot
        /\ \A x \in NewUnits(u) : x \in Slot /\ x[1] = u /\ x \in Units(u)
    BY <1>1, UnitSlots DEF MatchRest, uploadVars, NewUnits, Units, ConceptInv, Typed
  <1>4. /\ \A x \in Slot \ {t} : row'[x] = row[x]
        /\ row'[t] = row[t] \/ row[t].cmp = None
    BY <1>2, <1>3 DEF MatchRest
  <1>5. CASE row'[t] = row[t] \/ r # t
    BY <1>3, <1>4, <1>5, BestKept
  <1>6. CASE row[t].cmp = None /\ r = t
    <2>1. /\ ApprovedUnits' = ApprovedUnits
          /\ \A q \in ApprovedUnits : row'[q] = row[q]
          /\ \A q \in ApprovedUnits : Overlap(r, q)' = Overlap(r, q)
      BY <1>1, <1>3, ViewKept, RankKept
    <2>2. ASSUME NEW q \in ApprovedUnits, Overlap(r, q) = Above
          PROVE  \E x \in NewUnits(u) : /\ x[2] < r[2] /\ row'[x].cmp # None
                                        /\ row'[row'[x].cmp].uuid = row'[q].uuid
      <3>1. PICK x \in NewUnits(u) : /\ x[2] < r[2] /\ row[x].cmp # None
                                     /\ row[row[x].cmp].uuid = row[q].uuid
        BY <1>3, <1>6, <2>2 DEF Best
      <3>2. x # t /\ row[x].cmp \in ApprovedUnits
        BY <1>1, <1>2, <1>3, <1>6, <3>1, ConceptAssumption
           DEF ConceptInv, Compared, Slot
      <3>3. row'[x] = row[x]
        BY <1>3, <1>4, <3>2
      <3>4. QED
        BY <2>1, <3>1, <3>2, <3>3
    <2>3. QED
      BY <1>3, <2>1, <2>2 DEF Best, Above
  <1>7. QED
    BY <1>4, <1>5, <1>6

LEMMA NextBest == BestInv /\ [Next]_vars => BestInv'
  <1> SUFFICES ASSUME BestInv, [Next]_vars PROVE BestInv'
    OBVIOUS
  <1>1. BaseInv /\ ConceptInv /\ TypedRest /\ BaseInv'
    BY NextBase DEF BestInv, BaseInv
  <1>2. ASSUME NEW u \in Upload, Untouched(u)', NEW r \in NewUnits(u)', ~ Ahead(r)'
        PROVE  Best(r)'
    <2>1. /\ stage'[u] \in Reviewing /\ edits'[u] = 0 /\ ~ together'
          /\ orig'[u] # None /\ stage'[u] \in Busy
      BY <1>2 DEF Untouched, Reviewing, Busy
    <2>2. /\ ~ together /\ HistoryKept
          /\ \/ StartMatching(u)
             \/ stage[u] \in Busy /\ MatchingStep(u)
             \/ stage[u] \in Busy /\ ReviewStep(u)
             \/ stage[u] \in Busy /\ Keeps(u)
      BY <1>1, <2>1, PendingStep
    <2>3. r[1] = u /\ r \in Slot /\ r[2] \in Nat
      <3>1. Typed'
        BY <1>1 DEF ConceptInv, BaseInv
      <3>2. PICK i \in 1..Len(units'[u]) : r = <<u, i>>
        BY <1>2 DEF NewUnits, Units
      <3>3. Len(units'[u]) \in Nat /\ Len(units'[u]) <= MaxUnits
        BY <3>1 DEF Typed
      <3>4. QED
        BY <3>2, <3>3, ConceptAssumption DEF Slot
    <2>4. CASE StartMatching(u)
      <3>1. /\ stage'[u] = "matching" /\ UNCHANGED cloned
            /\ at'[u] = IF u \in cloned THEN 2 ELSE 1
        BY <1>1, <2>4 DEF StartMatching, ConceptInv, Typed
      <3>2. r \in Units(u)' /\ (u \in cloned => r # <<u, 1>>)
        BY <1>2, <3>1 DEF NewUnits
      <3>3. r[2] >= 1 /\ (u \in cloned => r[2] >= 2)
        BY <2>3, <3>2 DEF Units
      <3>4. Ahead(r)'
        BY <2>3, <3>1, <3>3 DEF Ahead
      <3>5. QED
        BY <1>2, <3>4
    <2>5. CASE Keeps(u)
      <3>1. /\ units'[u] = units[u] /\ version'[u] = version[u]
            /\ (u \in cloned') <=> (u \in cloned)
            /\ stage'[u] = stage[u] /\ at'[u] = at[u] /\ edits'[u] = edits[u]
            /\ orig'[u] = orig[u]
            /\ \A x \in Slot : x[1] = u => row'[x] = row[x]
        BY <2>5 DEF Keeps
      <3>2. NewUnits(u)' = NewUnits(u) /\ ~ Ahead(r)
        BY <1>2, <2>3, <3>1 DEF NewUnits, Units, Ahead
      <3>3. Untouched(u)
        BY <2>1, <2>2, <3>1 DEF Untouched
      <3>4. Best(r)
        BY <1>2, <3>2, <3>3 DEF BestInv, BestSoFar
      <3>5. \A x \in NewUnits(u) : row'[x] = row[x]
        BY <1>1, <3>1, UnitSlots DEF ConceptInv
      <3>6. QED
        BY <1>1, <1>2, <2>2, <3>1, <3>2, <3>4, <3>5, BestKept
    <2>6. ASSUME stage[u] \in Reviewing, UNCHANGED <<uploadVars, edits>>,
                 ~ Ahead(r), \A x \in NewUnits(u) : row'[x].cmp = row[x].cmp
          PROVE  Best(r)'
      <3>1. NewUnits(u)' = NewUnits(u) /\ Untouched(u)
        BY <2>1, <2>2, <2>6 DEF uploadVars, NewUnits, Units, Untouched
      <3>2. Best(r) /\ r \in NewUnits(u)
        BY <1>2, <2>6, <3>1 DEF BestInv, BestSoFar
      <3>3. QED
        BY <1>1, <2>2, <2>6, <3>2, BestKept DEF uploadVars
    <2>7. CASE MatchingStep(u)
      <3>1. CASE MatchUnit(u)
        <4>1. /\ UNCHANGED <<stage, uploadVars, edits>> /\ stage[u] = "matching"
              /\ at'[u] = at[u] + 1 /\ NewUnits(u)' = NewUnits(u)
          BY <1>1, <3>1 DEF MatchUnit, uploadVars, NewUnits, Units, ConceptInv, Typed
        <4>2. Untouched(u)
          BY <2>1, <2>2, <4>1 DEF Untouched, uploadVars
        <4>3. r[2] <= at[u] /\ at[u] \in Nat
          BY <1>1, <1>2, <2>3, <4>1 DEF Ahead, ConceptInv, Typed
        <4>4. CASE r[2] = at[u]
          <5>1. r = <<u, at[u]>>
            BY <2>3, <4>4 DEF Slot
          <5>2. QED
            BY <1>1, <2>2, <3>1, <4>2, <5>1, BestFound DEF Untouched
        <4>5. CASE r[2] # at[u]
          <5>1. ~ Ahead(r)
            BY <2>3, <4>1, <4>3, <4>5 DEF Ahead
          <5>2. Best(r) /\ r \in NewUnits(u)
            BY <1>2, <4>1, <4>2, <5>1 DEF BestInv, BestSoFar
          <5>3. PICK t \in Slot : t = <<u, at[u]>> /\ t[1] = u /\ t[2] = at[u]
            BY <1>1, <3>1, UnitAt DEF MatchUnit
          <5>4. row[t].cmp = None
            BY <1>1, <4>1, <4>3, <5>3 DEF ConceptInv, Blank, Ahead
          <5>5. \A x \in Slot \ {t} : row'[x] = row[x]
            BY <1>1, <3>1, <5>3 DEF MatchUnit, ConceptInv, Typed
          <5>6. \A x \in NewUnits(u) : x \in Slot
            BY <1>1, UnitSlots DEF ConceptInv
          <5>7. r # t
            BY <4>5, <5>3
          <5>8. QED
            BY <1>1, <2>2, <4>1, <5>2, <5>4, <5>5, <5>6, <5>7, BestKept DEF uploadVars
        <4>6. QED
          BY <4>4, <4>5
      <3>2. CASE MatchRest(u)
        <4>1. /\ UNCHANGED <<stage, uploadVars, edits>> /\ stage[u] = "rest"
              /\ NewUnits(u)' = NewUnits(u)
          BY <3>2 DEF MatchRest, uploadVars, NewUnits, Units
        <4>2. Untouched(u) /\ ~ Ahead(r)
          BY <2>1, <2>2, <2>3, <4>1 DEF Untouched, uploadVars, Ahead
        <4>3. Best(r) /\ r \in NewUnits(u)
          BY <1>2, <4>1, <4>2 DEF BestInv, BestSoFar
        <4>4. QED
          BY <1>1, <2>2, <3>2, <4>3, BestOfRest
      <3>3. CASE StartRest(u) \/ StartCoding(u) \/ FinishMatching(u)
        <4>1. /\ UNCHANGED <<uploadVars, edits, row>>
              /\ stage[u] \in Reviewing
              /\ stage[u] = "matching" => at[u] > Len(units[u])
          BY <3>3 DEF StartRest, StartCoding, FinishMatching, Reviewing
        <4>2. r[2] <= Len(units[u])
          BY <1>2, <2>3, <4>1 DEF uploadVars, NewUnits, Units
        <4>3. ~ Ahead(r)
          BY <1>1, <2>3, <4>1, <4>2 DEF Ahead, Reviewing, ConceptInv, Typed
        <4>4. QED
          BY <2>6, <4>1, <4>3
      <3>4. CASE CodeChildren(u)
        <4>1. /\ UNCHANGED <<uploadVars, edits>> /\ stage[u] = "coding"
          BY <3>4 DEF CodeChildren
        <4>2. \A x \in NewUnits(u) : row'[x].cmp = row[x].cmp
          BY <1>1, <3>4, NumberColumns, UnitSlots DEF ConceptInv
        <4>3. QED
          BY <2>3, <2>6, <4>1, <4>2 DEF Reviewing, Ahead
      <3>5. QED
        BY <2>7, <3>1, <3>2, <3>3, <3>4 DEF MatchingStep
    <2>8. CASE ReviewStep(u)
      <3>1. ~ NumberConcepts(u) /\ ~ Approve(u) /\ ~ Reject(u)
        BY <1>1, <2>1 DEF NumberConcepts, Approve, Reject, Reviewing, ConceptInv, Typed
      <3>2. \A x, q : ~ SwapConcept(u, x) /\ ~ ConfirmRematch(u, x, q)
        BY <1>1, <2>1 DEF SwapConcept, ConfirmRematch, Edit, ConceptInv, Typed
      <3>3. PICK x, q : Compare(u, x, q)
        BY <2>8, <3>1, <3>2 DEF ReviewStep
      <3>4. /\ UNCHANGED <<uploadVars, edits, row>> /\ stage[u] = "review"
        BY <3>3 DEF Compare
      <3>5. QED
        BY <2>3, <2>6, <3>4 DEF Reviewing, Ahead
    <2>9. QED
      BY <2>2, <2>4, <2>5, <2>7, <2>8
  <1>3. QED
    BY <1>1, <1>2 DEF BestInv, BestSoFar

LEMMA InitBest == Init => BestInv
  BY InitBase DEF Init, BestInv, BestSoFar, Untouched, Reviewing

\* In review, every unit that overlaps enough has the best match that no unit
\* before it took.
LEMMA BestInvImplies == BestInv => NothingBetterLeft
  <1> SUFFICES ASSUME BestInv, NEW u \in Upload,
                      stage[u] = "review", edits[u] = 0, ~ together, orig[u] # None,
                      NEW r \in NewUnits(u)
               PROVE  Best(r) /\ r[1] = u
    BY DEF NothingBetterLeft, Best
  <1>1. r[1] = u
    BY UnitSlots DEF BestInv, BaseInv, ConceptInv
  <1>2. Untouched(u) /\ ~ Ahead(r)
    BY <1>1 DEF Untouched, Reviewing, Ahead
  <1>3. QED
    BY <1>1, <1>2 DEF BestInv, BestSoFar

\* Until the reviewer steps in, the greedy search of check_entities leaves no
\* unit with a worse match than it could have: for any layer files, overlaps
\* and dates, unless uploads of the country met in review.
THEOREM GreedyIsBest == Spec => []NothingBetterLeft
  <1>1. Init => BestInv
    BY InitBest
  <1>2. BestInv /\ [Next]_vars => BestInv'
    BY NextBest
  <1>3. BestInv => NothingBetterLeft
    BY BestInvImplies
  <1>4. QED
    BY <1>1, <1>2, <1>3, PTL DEF Spec

-----------------------------------------------------------------------------
(* The history grows by one                                                *)

LEMMA HistoryStep ==
    ASSUME BaseInv, [Next]_vars
    PROVE  /\ together => together'
           /\ \/ HistoryKept
              \/ \E v \in Upload \ Approved :
                   /\ Approve(v) /\ Approved' = Approved \cup {v}
                   /\ UNCHANGED <<uploadVars, row, together>>
  <1>1. ConceptInv /\ TypedRest
    BY DEF BaseInv
  <1>2. CASE UNCHANGED vars
    BY <1>2 DEF vars, uploadVars, HistoryKept, Keeps, Approved
  <1>3. CASE Next
    <2>1. PICK v \in Upload :
            /\ Create(v) \/ StartMatching(v) \/ MatchingStep(v) \/ ReviewStep(v)
            /\ stage[v] # "approved"
            /\ \A w \in Upload \ {v} : Keeps(w)
      BY <1>1, <1>3, StepOfOne
    <2>2. /\ stage'[v] = "approved" <=> Approve(v)
          /\ IF StartMatching(v)
             THEN together' = (together \/ \E w \in Upload \ {v} : stage[w] \in Busy)
             ELSE together' = together
      BY <1>1, <2>1, Moves
    <2>3. together => together'
      BY <2>2
    <2>4. v \notin Approved /\ \A w \in Approved : Keeps(w)
      BY <2>1 DEF Approved
    <2>5. CASE Approve(v)
      <3>1. Approved' = Approved \cup {v}
        BY <2>1, <2>2, <2>5 DEF Approved, Keeps
      <3>2. QED
        BY <2>3, <2>4, <2>5, <3>1 DEF Approve
    <2>6. CASE ~ Approve(v)
      <3>1. Approved' = Approved
        BY <2>1, <2>2, <2>6 DEF Approved, Keeps
      <3>2. QED
        BY <2>3, <2>4, <3>1 DEF HistoryKept
    <2>7. QED
      BY <2>5, <2>6
  <1>4. QED
    BY <1>2, <1>3

LEMMA ApprovedFinite ==
    /\ Approved \subseteq Upload /\ IsFiniteSet(Approved)
    /\ Cardinality(Approved) \in 0..Cardinality(Upload)
    /\ \A u \in Upload \ Approved :
         /\ Cardinality(Approved) + 1 \in 1..Cardinality(Upload)
         /\ Cardinality(Approved \cup {u}) = Cardinality(Approved) + 1
  <1>1. Approved \subseteq Upload /\ IsFiniteSet(Upload)
    BY ConceptAssumption DEF Approved
  <1>2. /\ IsFiniteSet(Approved) /\ Cardinality(Approved) \in Nat
        /\ Cardinality(Upload) \in Nat /\ Cardinality(Approved) <= Cardinality(Upload)
    BY <1>1, FS_Subset, FS_CardinalityType
  <1>3. ASSUME NEW u \in Upload \ Approved
        PROVE  /\ Cardinality(Approved) + 1 \in 1..Cardinality(Upload)
               /\ Cardinality(Approved \cup {u}) = Cardinality(Approved) + 1
    <2>1. Cardinality(Approved \cup {u}) = Cardinality(Approved) + 1
      BY <1>2, FS_AddElement
    <2>2. Approved \cup {u} \subseteq Upload
      BY <1>1
    <2>3. Cardinality(Approved \cup {u}) <= Cardinality(Upload)
      BY <1>1, <2>2, FS_Subset
    <2>4. QED
      BY <1>2, <2>1, <2>3
  <1>4. QED
    BY <1>1, <1>2, <1>3

\* The first revisions among the approved ones
Firsts == {u \in Approved : orig[u] = None}

\* A history that is regular was so before, and its new upload revises one of
\* the others, if there are any.
LEMMA RegularBefore ==
    ASSUME BaseInv, [Next]_vars, Regular'
    PROVE  /\ Regular
           /\ \A v \in Approved' \ Approved : orig[v] # None \/ Approved = {}
  <1> DEFINE F == {u \in Approved' : orig'[u] = None}
  <1>1. ~ together' /\ Cardinality(F) <= 1
    BY DEF Regular
  <1>2. IsFiniteSet(F) /\ Cardinality(F) \in Nat
    <2>1. F \subseteq Upload
      BY DEF Approved
    <2>2. IsFiniteSet(F)
      BY <2>1, ConceptAssumption, FS_Subset
    <2>3. QED
      BY <2>2, FS_CardinalityType
  <1>3. ~ together /\ Firsts \subseteq F
    <2>1. ~ together
      BY <1>1, HistoryStep DEF BaseInv, TypedRest
    <2>2. \A w \in Approved : w \in Approved' /\ orig'[w] = orig[w]
      BY HistoryStep DEF HistoryKept, Keeps, uploadVars
    <2>3. QED
      BY <2>1, <2>2 DEF Firsts
  <1>4. Cardinality(Firsts) <= 1
    <2>1. Cardinality(Firsts) <= Cardinality(F) /\ IsFiniteSet(Firsts)
      BY <1>2, <1>3, FS_Subset
    <2>2. Cardinality(Firsts) \in Nat
      BY <2>1, FS_CardinalityType
    <2>3. QED
      BY <1>1, <1>2, <2>1, <2>2
  <1>5. ASSUME NEW v \in Approved' \ Approved, orig[v] = None, Approved # {}
        PROVE  FALSE
    <2>1. orig' = orig
      BY <1>5, HistoryStep DEF HistoryKept, uploadVars
    <2>2. PICK w \in Firsts : TRUE
      BY <1>5 DEF BaseInv, Originals, Firsts
    <2>3. w \in F /\ v \in F /\ w # v
      BY <1>3, <1>5, <2>1, <2>2 DEF Firsts
    <2> HIDE DEF F
    <2>4. IsFiniteSet(F \ {w}) /\ Cardinality(F \ {w}) = Cardinality(F) - 1
      BY <1>2, <2>3, FS_RemoveElement
    <2>5. Cardinality(F \ {w}) = 0
      BY <1>1, <1>2, <2>4, FS_CardinalityType
    <2>6. QED
      BY <2>3, <2>4, <2>5, FS_EmptySet
  <1>6. QED
    BY <1>3, <1>4, <1>5 DEF Regular, Firsts

-----------------------------------------------------------------------------
(* Versions and dates                                                      *)

LEMMA PartSmall ==
    \A k \in 0..Cardinality(Upload) : Part[k] \in Nat \ {0} /\ Part[k] <= One
  <1>1. Cardinality(Upload) \in Nat
    BY ConceptAssumption, FS_CardinalityType
  <1>2. \A k \in 0..Cardinality(Upload) : Part[k] \in Nat \ {0}
    BY ConceptAssumption
  <1> DEFINE S == {k \in 0..Cardinality(Upload) : ~ Part[k] <= One}
  <1>3. ASSUME S # {} PROVE FALSE
    <2>1. PICK m \in S : \A y \in S : m <= y
      <3>1. S \subseteq Nat
        BY <1>1
      <3>2. QED
        BY <1>3, <3>1, LeastExists
    <2>2. m # 0
      BY <1>1, <1>2, <2>1 DEF One
    <2>3. m \in 1..Cardinality(Upload) /\ m - 1 \in 0..Cardinality(Upload)
      BY <1>1, <2>1, <2>2
    <2>4. Part[m - 1] <= One
      BY <1>1, <2>1, <2>3
    <2>5. Part[m - 1] = 2 * Part[m]
      BY <2>3, ConceptAssumption
    <2>6. One \in Nat
      BY <1>1, <1>2 DEF One
    <2>7. QED
      BY <1>2, <2>1, <2>3, <2>4, <2>5, <2>6
  <1>4. QED
    BY <1>2, <1>3

\* Dates of approved revisions differ.
Distinct == \A u, w \in Approved : u # w => Date[u] # Date[w]

\* Versions of approved revisions are so far apart that as many halves are left
\* as there are other uploads.
Apart ==
    Regular /\ Distinct =>
      /\ \A w \in Approved : version[w] >= Part[Cardinality(Approved)]
      /\ \A u, w \in Approved : Date[u] < Date[w] =>
           version[u] + Part[Cardinality(Approved)] <= version[w]

\* The version x lies between those of the approved revisions as the date of u
\* lies between theirs.
Between(x, u) ==
    LET part == Part[Cardinality(Approved) + 1]
    IN  /\ x >= part
        /\ \A w \in Approved : /\ Date[w] < Date[u] => version[w] + part <= x
                               /\ Date[u] < Date[w] => x + part <= version[w]

Pending(u) ==
    /\ stage[u] \in Busy /\ Regular /\ Distinct
    /\ orig[u] # None \/ Approved = {}
    /\ \A w \in Approved : Date[w] # Date[u]

VersionInv ==
    /\ BaseInv /\ Apart
    /\ \A u \in Upload : Pending(u) => Between(version[u], u)

LEMMA Halves ==
    ASSUME NEW a \in Nat, NEW b \in Nat, NEW p \in Nat, a + 2 * p <= b
    PROVE  /\ (a + b) \div 2 \in Nat
           /\ a + p <= (a + b) \div 2 /\ (a + b) \div 2 + p <= b
  OBVIOUS

\* generate_upload_unique_code_version finds such a version.
LEMMA VersionBetween ==
    ASSUME BaseInv, Apart, Regular, Distinct, NEW u \in Upload \ Approved,
           orig[u] # None \/ Approved = {}, \A w \in Approved : Date[w] # Date[u]
    PROVE  Between(VersionFor(u), u)
  <1> DEFINE before == {w \in Approved : Date[w] < Date[u]}
             after == {w \in Approved : Date[w] > Date[u]}
             prev == CHOOSE w \in before : \A v \in before : Date[v] <= Date[w]
             next == CHOOSE w \in after : \A v \in after : Date[w] <= Date[v]
             k == Cardinality(Approved)
             part == Part[k + 1]
             whole == Part[k]
  <1>1. /\ Approved \subseteq Upload /\ k \in Nat /\ k + 1 \in 1..Cardinality(Upload)
        /\ Cardinality(Upload) \in Nat
    BY ApprovedFinite, ConceptAssumption, FS_CardinalityType
  <1>2. /\ part \in Nat \ {0} /\ whole \in Nat \ {0} /\ whole = 2 * part
        /\ One \in Nat /\ part <= One /\ whole <= One
    <2>1. whole = 2 * part
      BY <1>1, ConceptAssumption
    <2>2. /\ part \in Nat \ {0} /\ part <= One
          /\ whole \in Nat \ {0} /\ whole <= One
      <3>1. k \in 0..Cardinality(Upload) /\ k + 1 \in 0..Cardinality(Upload)
        BY <1>1
      <3> HIDE DEF k
      <3>2. QED
        BY <3>1, PartSmall
    <2>3. One \in Nat
      <3>1. 0 \in 0..Cardinality(Upload)
        BY <1>1
      <3>2. Part \in [0..Cardinality(Upload) -> Nat \ {0}]
        BY ConceptAssumption
      <3>3. QED
        BY <3>1, <3>2 DEF One
    <2>4. QED
      BY <2>1, <2>2, <2>3
  <1>3. /\ \A w \in Upload : version[w] \in Nat /\ Date[w] \in Nat
        /\ \A w \in Approved : version[w] >= whole
        /\ \A v, w \in Approved : Date[v] < Date[w] => version[v] + whole <= version[w]
    BY ConceptAssumption DEF BaseInv, TypedRest, Apart
  <1>4. /\ before # {} => prev \in before /\ \A v \in before : Date[v] <= Date[prev]
        /\ after # {} => next \in after /\ \A v \in after : Date[next] <= Date[v]
    <2>1. before \subseteq Upload /\ after \subseteq Upload
      BY <1>1
    <2> HIDE DEF before, after
    <2>2. QED
      BY <2>1, Extremes
  <1>5. VersionFor(u) = IF orig[u] = None \/ before \cup after = {} THEN One
                        ELSE IF before = {} THEN version[next] \div 2
                        ELSE IF after = {} THEN version[prev] + One
                        ELSE (version[prev] + version[next]) \div 2
    BY DEF VersionFor
  <1>6. \A w \in Approved : w \in before \/ w \in after
    BY <1>1, <1>3
  <1> DEFINE x == VersionFor(u)
  <1>7. SUFFICES /\ x >= part
                 /\ \A w \in before : version[w] + part <= x
                 /\ \A w \in after : x + part <= version[w]
    BY DEF Between
  <1>8. /\ \A w \in before : w \in Approved /\ Date[w] < Date[u]
        /\ \A w \in after : w \in Approved /\ Date[u] < Date[w]
    BY <1>1, <1>3
  <1> HIDE DEF before, after, prev, next, k, part, whole, x
  <1>9. /\ \A w \in before : version[w] <= version[prev]
        /\ \A w \in after : version[next] <= version[w]
    <2>1. ASSUME NEW w \in before PROVE version[w] <= version[prev]
      <3>1. Date[w] <= Date[prev] /\ prev \in Approved /\ w \in Approved
        BY <1>4, <1>8
      <3>2. CASE w = prev
        BY <1>1, <1>3, <3>1, <3>2
      <3>3. CASE w # prev
        <4>1. Date[w] < Date[prev]
          BY <1>1, <1>3, <3>1, <3>3 DEF Distinct
        <4>2. QED
          BY <1>1, <1>2, <1>3, <3>1, <4>1
      <3>4. QED
        BY <3>2, <3>3
    <2>2. ASSUME NEW w \in after PROVE version[next] <= version[w]
      <3>1. Date[next] <= Date[w] /\ next \in Approved /\ w \in Approved
        BY <1>4, <1>8
      <3>2. CASE w = next
        BY <1>1, <1>3, <3>1, <3>2
      <3>3. CASE w # next
        <4>1. Date[next] < Date[w]
          BY <1>1, <1>3, <3>1, <3>3 DEF Distinct
        <4>2. QED
          BY <1>1, <1>2, <1>3, <3>1, <4>1
      <3>4. QED
        BY <3>2, <3>3
    <2>3. QED
      BY <2>1, <2>2
  <1>10. CASE orig[u] = None \/ before \cup after = {}
    <2>1. before = {} /\ after = {}
      BY <1>8, <1>10
    <2>2. x = One
      BY <1>5, <1>10 DEF x
    <2>3. QED
      BY <1>2, <2>1, <2>2
  <1>11. CASE orig[u] # None /\ before = {} /\ after # {}
    <2>1. x = version[next] \div 2
      BY <1>5, <1>11 DEF x
    <2>2. /\ next \in Approved /\ version[next] \in Nat /\ version[next] >= whole
      BY <1>1, <1>3, <1>4, <1>8, <1>11
    <2>3. PICK n \in Nat : n = version[next]
      BY <2>2
    <2>4. /\ (0 + n) \div 2 \in Nat
          /\ 0 + part <= (0 + n) \div 2 /\ (0 + n) \div 2 + part <= n
      <3>1. 0 + 2 * part <= n /\ part \in Nat
        BY <1>2, <2>2, <2>3
      <3>2. QED
        BY <3>1, Halves
    <2>5. x \in Nat /\ part <= x /\ x + part <= n
      BY <1>2, <2>1, <2>3, <2>4
    <2>6. \A w \in after : version[w] \in Nat /\ n <= version[w]
      BY <1>1, <1>3, <1>8, <1>9, <2>3
    <2>7. QED
      BY <1>2, <1>11, <2>5, <2>6
  <1>12. CASE orig[u] # None /\ before # {} /\ after = {}
    <2>1. x = version[prev] + One
      BY <1>5, <1>12 DEF x
    <2>2. prev \in Approved /\ version[prev] \in Nat
      BY <1>1, <1>3, <1>4, <1>8, <1>12
    <2>3. \A w \in before : version[w] \in Nat /\ version[w] <= version[prev]
      BY <1>1, <1>3, <1>8, <1>9
    <2>4. QED
      BY <1>2, <1>12, <2>1, <2>2, <2>3
  <1>13. CASE orig[u] # None /\ before # {} /\ after # {}
    <2>1. x = (version[prev] + version[next]) \div 2
      BY <1>5, <1>13 DEF x
    <2>2. /\ prev \in Approved /\ next \in Approved
          /\ Date[prev] < Date[u] /\ Date[u] < Date[next]
      BY <1>4, <1>8, <1>13
    <2>3. /\ version[prev] \in Nat /\ version[next] \in Nat
          /\ version[prev] + whole <= version[next]
      BY <1>1, <1>3, <2>2
    <2>4. PICK a \in Nat, b \in Nat : a = version[prev] /\ b = version[next]
      BY <2>3
    <2>5. /\ (a + b) \div 2 \in Nat
          /\ a + part <= (a + b) \div 2 /\ (a + b) \div 2 + part <= b
      <3>1. a + 2 * part <= b /\ part \in Nat
        BY <1>2, <2>3, <2>4
      <3>2. QED
        BY <3>1, Halves
    <2>6. x \in Nat /\ a + part <= x /\ x + part <= b
      BY <2>1, <2>4, <2>5
    <2>7. /\ \A w \in before : version[w] \in Nat /\ version[w] <= a
          /\ \A w \in after : version[w] \in Nat /\ b <= version[w]
      BY <1>1, <1>3, <1>8, <1>9, <2>4
    <2>8. QED
      BY <1>2, <2>6, <2>7
  <1>14. QED
    BY <1>10, <1>11, <1>12, <1>13

LEMMA NextVersion == VersionInv /\ [Next]_vars => VersionInv'
  <1> SUFFICES ASSUME VersionInv, [Next]_vars PROVE VersionInv'
    OBVIOUS
  <1>1. BaseInv /\ ConceptInv /\ TypedRest /\ BaseInv'
    BY NextBase DEF VersionInv, BaseInv
  <1>2. Approved \subseteq Upload /\ Approved' \subseteq Upload
    BY DEF Approved
  <1>3. CASE HistoryKept
    <2>1. /\ Approved' = Approved
          /\ \A w \in Approved : version'[w] = version[w] /\ orig'[w] = orig[w]
      BY <1>3 DEF HistoryKept, Keeps
    <2>2. Distinct' => Distinct
      BY <2>1 DEF Distinct
    <2>3. Apart'
      <3> SUFFICES ASSUME Regular', Distinct'
                   PROVE  /\ \A w \in Approved' : version'[w] >= Part[Cardinality(Approved')]
                          /\ \A u, w \in Approved' : Date[u] < Date[w] =>
                               version'[u] + Part[Cardinality(Approved')] <= version'[w]
        BY DEF Apart
      <3>1. Regular /\ Distinct
        BY <1>1, <2>2, RegularBefore
      <3>2. QED
        BY <2>1, <3>1 DEF VersionInv, Apart
    <2>4. ASSUME NEW u \in Upload, Pending(u)' PROVE Between(version[u], u)'
      <3>1. /\ stage'[u] \in Busy /\ Regular' /\ Distinct'
            /\ orig'[u] # None \/ Approved' = {}
            /\ \A w \in Approved' : Date[w] # Date[u]
        BY <2>4 DEF Pending, Busy, Reviewing
      <3>2. Regular /\ Distinct /\ ~ together'
        BY <1>1, <2>2, <3>1, RegularBefore DEF Regular
      <3>3. \/ StartMatching(u)
            \/ stage[u] \in Busy /\ MatchingStep(u)
            \/ stage[u] \in Busy /\ ReviewStep(u)
            \/ stage[u] \in Busy /\ Keeps(u)
        BY <1>1, <3>1, <3>2, PendingStep
      <3>4. u \notin Approved
        BY <2>1, <3>1 DEF Approved, Busy, Reviewing
      <3>5. orig'[u] = orig[u] /\ (\A w \in Approved : Date[w] # Date[u])
        <4>1. orig'[u] = orig[u]
          BY <3>3 DEF Keeps, StartMatching, MatchingStep, ReviewStep, MatchUnit,
             StartRest, MatchRest, StartCoding, CodeChildren, FinishMatching,
             SwapConcept, Compare, ConfirmRematch, NumberConcepts, Approve,
             Reject, uploadVars
        <4>2. QED
          BY <2>1, <3>1, <4>1
      <3>6. Between(version'[u], u)
        <4>1. CASE StartMatching(u)
          <5>1. version'[u] = VersionFor(u)
            BY <1>1, <4>1 DEF StartMatching, TypedRest
          <5>2. Between(VersionFor(u), u)
            BY <1>1, <2>1, <3>1, <3>2, <3>4, <3>5, VersionBetween DEF VersionInv
          <5>3. QED
            BY <5>1, <5>2
        <4>2. CASE ~ StartMatching(u)
          <5>1. version'[u] = version[u] /\ stage[u] \in Busy
            BY <3>3, <4>2 DEF Keeps, MatchingStep, ReviewStep, MatchUnit,
               StartRest, MatchRest, StartCoding, CodeChildren, FinishMatching,
               SwapConcept, Compare, ConfirmRematch, NumberConcepts, Approve,
               Reject, uploadVars
          <5>2. Pending(u)
            BY <2>1, <3>1, <3>2, <3>5, <5>1 DEF Pending
          <5>3. QED
            BY <5>1, <5>2 DEF VersionInv
        <4>3. QED
          BY <4>1, <4>2
      <3>7. QED
        BY <2>1, <3>6 DEF Between
    <2>5. QED
      BY <1>1, <2>3, <2>4 DEF VersionInv
  <1>4. ASSUME NEW v \in Upload \ Approved, Approve(v),
               Approved' = Approved \cup {v},
               UNCHANGED <<uploadVars, row, together>>
        PROVE  VersionInv'
    <2>1. /\ version' = version /\ orig' = orig /\ together' = together
          /\ stage[v] \in Busy
      BY <1>4 DEF uploadVars, Approve, Busy
    <2> DEFINE k == Cardinality(Approved)
    <2>2. /\ k \in Nat /\ k + 1 \in 1..Cardinality(Upload)
          /\ Cardinality(Upload) \in Nat
          /\ Cardinality(Approved') = k + 1
      BY <1>4, ApprovedFinite, ConceptAssumption, FS_CardinalityType
    <2>3. Apart'
      <3> SUFFICES ASSUME Regular', Distinct'
                   PROVE  /\ \A w \in Approved' : version'[w] >= Part[k + 1]
                          /\ \A u, w \in Approved' : Date[u] < Date[w] =>
                               version'[u] + Part[k + 1] <= version'[w]
        BY <2>2 DEF Apart
      <3>1. Regular /\ Distinct /\ (orig[v] # None \/ Approved = {})
        BY <1>1, <1>4, RegularBefore DEF Distinct
      <3>2. Pending(v)
        BY <1>4, <2>1, <3>1 DEF Pending, Distinct
      <3>3. Between(version[v], v)
        BY <3>2 DEF VersionInv
      <3>4. /\ Part[k + 1] \in Nat /\ Part[k] \in Nat /\ Part[k + 1] <= Part[k]
        <4>1. k \in 0..Cardinality(Upload) /\ k + 1 \in 0..Cardinality(Upload)
          BY <2>2
        <4>2. Part[k] = 2 * Part[k + 1]
          BY <2>2, ConceptAssumption
        <4>3. Part[k] \in Nat /\ Part[k + 1] \in Nat
          BY <4>1, PartSmall
        <4>4. QED
          BY <4>2, <4>3
      <3>5. /\ \A w \in Approved : version[w] >= Part[k]
            /\ \A u, w \in Approved : Date[u] < Date[w] =>
                 version[u] + Part[k] <= version[w]
        BY <3>1 DEF VersionInv, Apart
      <3>6. /\ version[v] >= Part[k + 1]
            /\ \A w \in Approved :
                 /\ Date[w] < Date[v] => version[w] + Part[k + 1] <= version[v]
                 /\ Date[v] < Date[w] => version[v] + Part[k + 1] <= version[w]
        BY <3>3 DEF Between
      <3>7. \A w \in Upload : version[w] \in Nat /\ Date[w] \in Nat
        BY <1>1, ConceptAssumption DEF TypedRest
      <3> HIDE DEF k
      <3>8. ASSUME NEW w \in Approved' PROVE version'[w] >= Part[k + 1]
        BY <1>2, <1>4, <2>1, <3>4, <3>5, <3>6, <3>7, <3>8
      <3>9. ASSUME NEW u \in Approved', NEW w \in Approved', Date[u] < Date[w]
            PROVE  version'[u] + Part[k + 1] <= version'[w]
        <4>1. CASE u \in Approved /\ w \in Approved
          <5>1. version[u] + Part[k] <= version[w]
            BY <3>5, <3>9, <4>1
          <5>2. QED
            BY <1>2, <2>1, <3>4, <3>7, <5>1
        <4>2. CASE u = v \/ w = v
          <5>1. (u = v /\ w \in Approved) \/ (w = v /\ u \in Approved)
            BY <1>4, <3>7, <3>9, <4>2
          <5>2. QED
            BY <2>1, <3>6, <3>9, <5>1
        <4>3. QED
          BY <1>4, <4>1, <4>2
      <3>10. QED
        BY <3>8, <3>9
    <2>4. ASSUME NEW u \in Upload, Pending(u)' PROVE FALSE
      <3>1. stage'[u] \in Busy /\ ~ together'
        BY <2>4 DEF Pending, Busy, Reviewing, Regular
      <3>2. HistoryKept
        BY <1>1, <3>1, PendingStep
      <3>3. QED
        BY <1>4, <3>2 DEF HistoryKept
    <2>5. QED
      BY <1>1, <2>3, <2>4 DEF VersionInv
  <1>5. QED
    BY <1>1, <1>3, <1>4, HistoryStep

LEMMA InitVersion == Init => VersionInv
  <1> SUFFICES ASSUME Init PROVE VersionInv
    OBVIOUS
  <1>1. Approved = {} /\ \A u \in Upload : stage[u] \notin Busy
    BY DEF Init, Approved, Busy, Reviewing
  <1>2. QED
    BY <1>1, InitBase DEF VersionInv, Apart, Pending

LEMMA VersionInvImplies == VersionInv => VersionsFollowDates
  <1> SUFFICES ASSUME VersionInv, Regular, Distinct,
                      NEW u \in Approved, NEW w \in Approved, Date[u] < Date[w]
               PROVE  version[u] < version[w]
    BY DEF VersionsFollowDates, Distinct
  <1>1. version[u] + Part[Cardinality(Approved)] <= version[w]
    BY DEF VersionInv, Apart
  <1>2. Part[Cardinality(Approved)] \in Nat \ {0}
    BY ApprovedFinite, PartSmall
  <1>3. version[u] \in Nat /\ version[w] \in Nat
    BY ApprovedFinite DEF VersionInv, BaseInv, TypedRest
  <1>4. QED
    BY <1>1, <1>2, <1>3

\* A revision gets a version that lies between those of its neighbours in
\* time, for any number of uploads in any order
\* (generate_upload_unique_code_version), unless uploads of the country met in
\* review, the country has two first revisions, or revisions share a date.
THEOREM VersionsOrdered == Spec => []VersionsFollowDates
  <1>1. Init => VersionInv
    BY InitVersion
  <1>2. VersionInv /\ [Next]_vars => VersionInv'
    BY NextVersion
  <1>3. VersionInv => VersionsFollowDates
    BY VersionInvImplies
  <1>4. QED
    BY <1>1, <1>2, <1>3, PTL DEF Spec

-----------------------------------------------------------------------------
(* Counting units                                                          *)

LEMMA SlotsFinite == IsFiniteSet(Slot)
  <1>1. IsFiniteSet(Upload) /\ IsFiniteSet(1..MaxUnits)
    BY ConceptAssumption, FS_Interval
  <1>2. QED
    BY <1>1, FS_Product DEF Slot

\* The ranks of units among others are different numbers from one.
LEMMA Ranks ==
    ASSUME NEW S, IsFiniteSet(S), \A x \in S : x[2] \in Nat,
           \A x, y \in S : x[2] = y[2] => x = y
    PROVE  /\ \A x \in S : Cardinality({y \in S : y[2] <= x[2]}) \in 1..Cardinality(S)
           /\ \A x, z \in S :
                Cardinality({y \in S : y[2] <= x[2]})
                  = Cardinality({y \in S : y[2] <= z[2]}) => x = z
  <1> DEFINE Upto(x) == {y \in S : y[2] <= x[2]}
  <1>1. ASSUME NEW x \in S
        PROVE  /\ IsFiniteSet(Upto(x)) /\ Cardinality(Upto(x)) \in 1..Cardinality(S)
    <2>1. Upto(x) \subseteq S /\ x \in Upto(x)
      OBVIOUS
    <2> HIDE DEF Upto
    <2>2. /\ IsFiniteSet(Upto(x)) /\ Cardinality(Upto(x)) \in Nat
          /\ Cardinality(Upto(x)) <= Cardinality(S) /\ Cardinality(S) \in Nat
      BY <2>1, FS_Subset, FS_CardinalityType
    <2>3. Cardinality(Upto(x)) # 0
      BY <2>1, <2>2, FS_EmptySet
    <2>4. QED
      BY <2>2, <2>3
  <1>2. ASSUME NEW x \in S, NEW z \in S, x[2] < z[2],
               Cardinality(Upto(x)) = Cardinality(Upto(z))
        PROVE  FALSE
    <2>1. Upto(x) \subseteq Upto(z) /\ z \in Upto(z) /\ z \notin Upto(x)
      BY <1>2
    <2>2. IsFiniteSet(Upto(z))
      BY <1>1
    <2> HIDE DEF Upto
    <2>3. Upto(x) = Upto(z)
      BY <1>2, <2>1, <2>2, FS_Subset
    <2>4. QED
      BY <2>1, <2>3
  <1>3. ASSUME NEW x \in S, NEW z \in S, Cardinality(Upto(x)) = Cardinality(Upto(z))
        PROVE  x = z
    <2>1. x[2] < z[2] \/ z[2] < x[2] \/ x[2] = z[2]
      OBVIOUS
    <2> HIDE DEF Upto
    <2>2. QED
      BY <1>2, <1>3, <2>1
  <1>4. QED
    BY <1>1, <1>3

-----------------------------------------------------------------------------
(* Concept codes                                                           *)

Concepts == {row[q].uuid : q \in ApprovedUnits}

\* The units of an upload that are concepts of their own
Novel(u) == {x \in NewUnits(u) : ~ row[x].same}

\* Concept codes of approved units are numbers up to the number of concepts.
Numbering ==
    ~ together => \A q \in ApprovedUnits :
      /\ row[q].concept \in 1..Cardinality(Concepts)
      /\ \A p \in ApprovedUnits :
           row[q].concept = row[p].concept <=> row[q].uuid = row[p].uuid

\* What numbering gave the units of an upload still continues those.
Continued(u) ==
    \A r \in NewUnits(u) :
      row[r].concept =
        IF row[r].same THEN row[row[r].cmp].concept
        ELSE Cardinality(Concepts) + Cardinality({y \in Novel(u) : y[2] <= r[2]})

NumberInv ==
    /\ BaseInv /\ Numbering
    /\ ~ together => \A u \in Upload : stage[u] = "numbered" => Continued(u)

LEMMA ConceptsFinite ==
    ASSUME Typed
    PROVE  IsFiniteSet(Concepts) /\ Cardinality(Concepts) \in Nat
  <1> DEFINE f == [q \in ApprovedUnits |-> row[q].uuid]
  <1>1. IsFiniteSet(ApprovedUnits)
    BY ApprovedSlots, SlotsFinite, FS_Subset
  <1>2. Concepts = {f[q] : q \in ApprovedUnits}
    BY DEF Concepts
  <1> HIDE DEF f
  <1>3. QED
    BY <1>1, <1>2, Images, FS_CardinalityType

\* What is new in an upload, and what is in the history
LEMMA NovelUnits ==
    ASSUME BaseInv, NEW u \in Upload, stage[u] # "approved"
    PROVE  /\ IsFiniteSet(Novel(u))
           /\ \A x \in Novel(u) : x \in Slot /\ x[2] \in Nat /\ row[x].uuid \notin Concepts
           /\ \A x, y \in Novel(u) : x[2] = y[2] \/ row[x].uuid = row[y].uuid => x = y
  <1>1. ConceptInv /\ FlagMeansConcept
    BY ConceptInvImplies DEF BaseInv
  <1>2. /\ Novel(u) \subseteq NewUnits(u) /\ Novel(u) \subseteq Slot
        /\ \A x \in Novel(u) : x[1] = u /\ x = <<x[1], x[2]>> /\ ~ IsClone(x)
    BY <1>1, UnitSlots DEF ConceptInv, Novel, NewUnits, IsClone
  <1>3. IsFiniteSet(Novel(u))
    BY <1>2, SlotsFinite, FS_Subset
  <1>4. \A x \in Novel(u) : x \in Slot /\ x[2] \in Nat /\ row[x].uuid \notin Concepts
    BY <1>1, <1>2, ConceptAssumption DEF FlagMeansConcept, Novel, Concepts, Slot
  <1>5. \A x \in Novel(u) : Owner(row[x].uuid) = x
    BY <1>1, <1>2 DEF ConceptInv, OwnConcept, Novel
  <1>6. QED
    BY <1>2, <1>3, <1>4, <1>5

\* A unit that is not new in its upload has a twin in the history.
LEMMA Twins ==
    ASSUME BaseInv, NEW u \in Upload, stage[u] = "numbered", Continued(u),
           NEW x \in Units(u), x \notin Novel(u)
    PROVE  \E q \in ApprovedUnits : /\ row[q].uuid = row[x].uuid
                                    /\ row[q].concept = row[x].concept
  <1>1. ConceptInv /\ x \in Slot /\ x[1] = u /\ x = <<x[1], x[2]>>
    BY UnitSlots DEF BaseInv, ConceptInv
  <1>2. CASE x \in NewUnits(u)
    <2>1. row[x].same /\ row[x].cmp \in ApprovedUnits
      BY <1>1, <1>2 DEF Novel, ConceptInv, Compared
    <2>2. QED
      BY <1>1, <1>2, <2>1 DEF Continued, ConceptInv, Compared
  <1>3. CASE x \notin NewUnits(u)
    <2>1. u \in cloned /\ x = <<u, 1>>
      BY <1>3 DEF NewUnits
    <2>2. /\ orig[u] \in Upload /\ stage[orig[u]] = "approved"
          /\ row[x].uuid = row[<<orig[u], 1>>].uuid
          /\ row[x].concept = row[<<orig[u], 1>>].concept
      BY <2>1 DEF BaseInv, Copied, Originals, TypedRest
    <2>3. PICK o \in Upload : o = orig[u]
      BY <2>2
    <2>4. units[o] \in Shape[o] /\ Len(units[o]) \in 1..MaxUnits
      BY <2>2, <2>3, ConceptAssumption DEF BaseInv, Shaped
    <2>5. <<o, 1>> \in ApprovedUnits
      BY <2>2, <2>3, <2>4, ConceptAssumption DEF ApprovedUnits, Approved, Units
    <2>6. QED
      BY <2>2, <2>3, <2>5
  <1>4. QED
    BY <1>2, <1>3

LEMMA ApproveNumbers ==
    ASSUME NumberInv, ~ together, NEW v \in Upload \ Approved, stage[v] = "numbered",
           Approved' = Approved \cup {v}, UNCHANGED <<uploadVars, row, together>>
    PROVE  Numbering'
  <1>1. BaseInv /\ Numbering /\ Continued(v) /\ ConceptInv /\ Typed
    BY DEF NumberInv, BaseInv, ConceptInv
  <1>2. ApprovedUnits' = ApprovedUnits \cup Units(v)
    BY DEF ApprovedUnits, Units, uploadVars
  <1> DEFINE new == Novel(v)
             ids == {row[x].uuid : x \in new}
             c == Cardinality(Concepts)
             n == Cardinality(new)
             rank(x) == Cardinality({y \in new : y[2] <= x[2]})
  <1>3. /\ IsFiniteSet(new)
        /\ \A x \in new : x[2] \in Nat /\ row[x].uuid \notin Concepts
        /\ \A x, y \in new : x[2] = y[2] => x = y
        /\ \A x, y \in new : row[x].uuid = row[y].uuid => x = y
    BY <1>1, NovelUnits
  <1>4. /\ \A x \in new : rank(x) \in 1..n
        /\ \A x, y \in new : rank(x) = rank(y) => x = y
    <2> HIDE DEF new
    <2>1. QED
      BY <1>3, Ranks
  <1>5. IsFiniteSet(ids) /\ Cardinality(ids) = n /\ n \in Nat
    <2>1. PICK S, g : S = new /\ g = [x \in S |-> row[x].uuid]
      OBVIOUS
    <2>2. IsFiniteSet(S) /\ \A x, y \in S : g[x] = g[y] => x = y
      BY <1>3, <2>1
    <2>3. ids = {g[x] : x \in S}
      BY <2>1
    <2> HIDE DEF new, ids
    <2>4. /\ IsFiniteSet({g[x] : x \in S})
          /\ Cardinality({g[x] : x \in S}) = Cardinality(S)
      BY <2>2, Images
    <2>5. Cardinality(S) \in Nat
      BY <2>2, FS_CardinalityType
    <2>6. QED
      BY <2>1, <2>3, <2>4, <2>5
  <1>6. IsFiniteSet(Concepts) /\ c \in Nat /\ ids \cap Concepts = {}
    BY <1>1, <1>3, ConceptsFinite
  <1>7. \A x \in Units(v) \ new : \E q \in ApprovedUnits :
          row[q].uuid = row[x].uuid /\ row[q].concept = row[x].concept
    BY <1>1, Twins
  <1>8. Concepts' = Concepts \cup ids
    <2>1. Concepts' = {row[q].uuid : q \in ApprovedUnits \cup Units(v)}
      BY <1>2 DEF Concepts
    <2>2. new \subseteq Units(v)
      BY DEF Novel, NewUnits
    <2>3. ids = {row[x].uuid : x \in new}
      OBVIOUS
    <2> HIDE DEF new, ids
    <2>4. \A x \in Units(v) : row[x].uuid \in Concepts \cup ids
      BY <1>7, <2>3 DEF Concepts
    <2>5. \A id \in Concepts \cup ids : \E q \in ApprovedUnits \cup Units(v) : id = row[q].uuid
      BY <2>2, <2>3 DEF Concepts
    <2>6. QED
      BY <2>1, <2>4, <2>5 DEF Concepts
  <1>9. Cardinality(Concepts') = c + n
    <2> HIDE DEF ids, new
    <2>1. Cardinality(Concepts \cup ids) =
            Cardinality(Concepts) + Cardinality(ids) - Cardinality(Concepts \cap ids)
      BY <1>5, <1>6, FS_Union
    <2>2. Cardinality(Concepts \cap ids) = 0
      <3>1. Concepts \cap ids = {}
        BY <1>6
      <3>2. QED
        BY <3>1, FS_EmptySet
    <2>3. Cardinality(Concepts \cup ids) = c + n
      BY <1>5, <1>6, <2>1, <2>2
    <2>4. QED
      BY <1>8, <2>3
  <1>10. \A x \in new : row[x].concept = c + rank(x)
    BY <1>1 DEF Continued, Novel
  <1>11. \A q \in ApprovedUnits :
           /\ row[q].concept \in 1..c /\ row[q].uuid \in Concepts
           /\ \A p \in ApprovedUnits :
                row[q].concept = row[p].concept <=> row[q].uuid = row[p].uuid
    BY <1>1 DEF Numbering, Concepts
  <1> HIDE DEF new, ids, c, n, rank
  <1>12. \A x \in ApprovedUnits' : x \in new \/ \E q \in ApprovedUnits :
           row[q].uuid = row[x].uuid /\ row[q].concept = row[x].concept
    BY <1>2, <1>7
  <1>13. ASSUME NEW x \in ApprovedUnits'
         PROVE  /\ row'[x].concept \in 1..Cardinality(Concepts')
                /\ \A p \in ApprovedUnits' :
                     row'[x].concept = row'[p].concept <=> row'[x].uuid = row'[p].uuid
    <2>1. CASE x \in new
      <3>1. /\ row[x].concept \in 1..(c + n) /\ row[x].concept > c
            /\ row[x].uuid \notin Concepts
        BY <1>3, <1>4, <1>5, <1>6, <1>10, <2>1
      <3>2. ASSUME NEW p \in ApprovedUnits'
            PROVE  row[x].concept = row[p].concept <=> row[x].uuid = row[p].uuid
        <4>1. CASE p \in new
          BY <1>3, <1>4, <1>6, <1>10, <2>1, <4>1
        <4>2. CASE p \notin new
          <5>1. PICK q \in ApprovedUnits :
                  row[q].uuid = row[p].uuid /\ row[q].concept = row[p].concept
            BY <1>12, <4>2
          <5>2. row[p].concept <= c /\ row[p].concept \in Nat /\ row[p].uuid \in Concepts
            BY <1>6, <1>11, <5>1
          <5>3. QED
            BY <1>6, <3>1, <5>2
        <4>3. QED
          BY <4>1, <4>2
      <3>3. QED
        BY <1>9, <3>1, <3>2
    <2>2. CASE x \notin new
      <3>1. PICK z \in ApprovedUnits :
              row[z].uuid = row[x].uuid /\ row[z].concept = row[x].concept
        BY <1>12, <2>2
      <3>2. /\ row[x].concept \in 1..c /\ row[x].uuid \in Concepts
            /\ row[x].concept \in 1..(c + n)
        BY <1>5, <1>6, <1>11, <3>1
      <3>3. ASSUME NEW p \in ApprovedUnits'
            PROVE  row[x].concept = row[p].concept <=> row[x].uuid = row[p].uuid
        <4>1. CASE p \in new
          <5>1. row[p].concept > c /\ row[p].uuid \notin Concepts
            BY <1>3, <1>4, <1>5, <1>6, <1>10, <4>1
          <5>2. QED
            BY <1>6, <3>2, <5>1
        <4>2. CASE p \notin new
          <5>1. PICK q \in ApprovedUnits :
                  row[q].uuid = row[p].uuid /\ row[q].concept = row[p].concept
            BY <1>12, <4>2
          <5>2. QED
            BY <1>11, <3>1, <5>1
        <4>3. QED
          BY <4>1, <4>2
      <3>4. QED
        BY <1>9, <3>2, <3>3
    <2>3. QED
      BY <2>1, <2>2
  <1>14. QED
    BY <1>13 DEF Numbering

\* generate_concept_ucode counts the concepts of the history and the new ones.
LEMMA NumberConceptsGive ==
    ASSUME BaseInv, HistoryKept, NEW u \in Upload, NumberConcepts(u)
    PROVE  Continued(u)'
  <1>1. ConceptInv /\ Typed /\ DOMAIN row = Slot
    BY DEF BaseInv, ConceptInv, Typed
  <1>2. UNCHANGED <<units, cloned>>
    BY DEF NumberConcepts, uploadVars
  <1>3. /\ NewUnits(u)' = NewUnits(u)
        /\ \A r \in NewUnits(u) : r \in Slot /\ r[1] = u
    BY <1>1, <1>2, UnitSlots DEF NewUnits, Units
  <1>4. \A r \in Slot : /\ row'[r].uuid = row[r].uuid
                        /\ row'[r].cmp = row[r].cmp
                        /\ row'[r].same = row[r].same
    BY <1>1, NumberColumns
  <1>5. /\ ApprovedUnits' = ApprovedUnits
        /\ \A q \in ApprovedUnits : row'[q] = row[q]
    BY <1>1, ViewKept
  <1>6. Concepts' = Concepts
    BY <1>5 DEF Concepts
  <1>7. Novel(u)' = Novel(u)
    BY <1>3, <1>4 DEF Novel
  <1> DEFINE given(r) == IF r \in Novel(u)
                         THEN Cardinality(Concepts)
                                + Cardinality({y \in Novel(u) : y[2] <= r[2]})
                         ELSE row[row[r].cmp].concept
  <1>8. row' = [r \in Slot |-> IF r \notin NewUnits(u) THEN row[r]
                               ELSE [row[r] EXCEPT !.concept = given(r)]]
    BY Zenon DEF NumberConcepts, Concepts, Novel
  <1>9. ASSUME NEW r \in NewUnits(u) PROVE row'[r].concept = given(r)
    <2>1. DOMAIN row[r] = Columns
      BY <1>1, <1>3 DEF Typed
    <2> HIDE DEF given
    <2>2. row'[r] = [row[r] EXCEPT !.concept = given(r)]
      BY <1>3, <1>8
    <2>3. QED
      BY <2>1, <2>2 DEF Columns
  <1>10. \A r \in NewUnits(u) : row[r].same =>
           row'[row[r].cmp].concept = row[row[r].cmp].concept
    BY <1>1, <1>3, <1>5 DEF ConceptInv, Compared
  <1>11. ASSUME NEW r \in NewUnits(u)'
         PROVE  row'[r].concept =
                  IF row'[r].same THEN row'[row'[r].cmp].concept
                  ELSE Cardinality(Concepts') + Cardinality({y \in Novel(u)' : y[2] <= r[2]})
    BY <1>3, <1>4, <1>6, <1>7, <1>9, <1>10 DEF Novel
  <1>12. QED
    BY <1>11 DEF Continued

LEMMA ContinuedKept ==
    ASSUME BaseInv, HistoryKept, NEW u \in Upload, Keeps(u), Continued(u)
    PROVE  Continued(u)'
  <1>1. ConceptInv /\ Typed
    BY DEF BaseInv, ConceptInv
  <1>2. /\ NewUnits(u)' = NewUnits(u)
        /\ \A r \in NewUnits(u) : r \in Slot /\ r[1] = u /\ row'[r] = row[r]
    BY <1>1, UnitSlots DEF Keeps, NewUnits, Units
  <1>3. /\ ApprovedUnits' = ApprovedUnits
        /\ \A q \in ApprovedUnits : row'[q] = row[q]
    BY <1>1, ViewKept
  <1>4. Concepts' = Concepts
    BY <1>3 DEF Concepts
  <1>5. Novel(u)' = Novel(u)
    BY <1>2 DEF Novel
  <1>6. \A r \in NewUnits(u) : row[r].same =>
          row'[row[r].cmp].concept = row[row[r].cmp].concept
    BY <1>1, <1>2, <1>3 DEF ConceptInv, Compared
  <1>7. ASSUME NEW r \in NewUnits(u)'
        PROVE  row'[r].concept =
                 IF row'[r].same THEN row'[row'[r].cmp].concept
                 ELSE Cardinality(Concepts') + Cardinality({y \in Novel(u)' : y[2] <= r[2]})
    BY <1>2, <1>4, <1>5, <1>6 DEF Continued
  <1>8. QED
    BY <1>7 DEF Continued

LEMMA NextNumber == NumberInv /\ [Next]_vars => NumberInv'
  <1> SUFFICES ASSUME NumberInv, [Next]_vars PROVE NumberInv'
    OBVIOUS
  <1>1. BaseInv /\ ConceptInv /\ TypedRest /\ BaseInv'
    BY NextBase DEF NumberInv, BaseInv
  <1>2. Numbering'
    <2>1. CASE HistoryKept
      <3>1. together => together'
        BY <1>1, HistoryStep
      <3>2. /\ ApprovedUnits' = ApprovedUnits
            /\ \A q \in ApprovedUnits : row'[q] = row[q]
        BY <1>1, <2>1, ViewKept
      <3>3. Concepts' = Concepts
        BY <3>2 DEF Concepts
      <3>4. QED
        BY <1>1, <3>1, <3>2, <3>3 DEF NumberInv, Numbering, TypedRest, BaseInv
    <2>2. ASSUME NEW v \in Upload \ Approved, Approve(v),
                 Approved' = Approved \cup {v},
                 UNCHANGED <<uploadVars, row, together>>
          PROVE  Numbering'
      <3>1. stage[v] = "numbered"
        BY <2>2 DEF Approve
      <3>2. CASE together
        BY <2>2, <3>2 DEF Numbering
      <3>3. CASE ~ together
        BY <2>2, <3>1, <3>3, ApproveNumbers
      <3>4. QED
        BY <3>2, <3>3
    <2>3. QED
      BY <1>1, <2>1, <2>2, HistoryStep
  <1>3. ASSUME ~ together', NEW u \in Upload, stage'[u] = "numbered"
        PROVE  Continued(u)'
    <2>1. /\ ~ together /\ HistoryKept
          /\ \/ StartMatching(u)
             \/ stage[u] \in Busy /\ MatchingStep(u)
             \/ stage[u] \in Busy /\ ReviewStep(u)
             \/ stage[u] \in Busy /\ Keeps(u)
      BY <1>1, <1>3, PendingStep DEF Busy
    <2>2. CASE Keeps(u)
      <3>1. Continued(u)
        BY <1>3, <2>1, <2>2 DEF Keeps, NumberInv
      <3>2. QED
        BY <1>1, <2>1, <2>2, <3>1, ContinuedKept
    <2>3. CASE NumberConcepts(u)
      BY <1>1, <2>1, <2>3, NumberConceptsGive
    <2>4. ~ StartMatching(u) /\ ~ MatchingStep(u)
      BY <1>1, <1>3 DEF StartMatching, MatchingStep, MatchUnit, StartRest,
         MatchRest, StartCoding, CodeChildren, FinishMatching, ConceptInv, Typed
    <2>5. ReviewStep(u) => NumberConcepts(u)
      BY <1>1, <1>3 DEF ReviewStep, SwapConcept, Compare, ConfirmRematch, Edit,
         Approve, Reject, ConceptInv, Typed
    <2>6. QED
      BY <2>1, <2>2, <2>3, <2>4, <2>5
  <1>4. QED
    BY <1>1, <1>2, <1>3 DEF NumberInv

LEMMA InitNumber == Init => NumberInv
  <1> SUFFICES ASSUME Init PROVE NumberInv
    OBVIOUS
  <1>1. ApprovedUnits = {} /\ \A u \in Upload : stage[u] # "numbered"
    BY DEF Init, ApprovedUnits, Approved
  <1>2. QED
    BY <1>1, InitBase DEF NumberInv, Numbering

LEMMA NumberInvImplies == NumberInv => ConceptNumbers
  BY DEF NumberInv, Numbering, ConceptNumbers

\* Concept codes and concepts correspond, however many revisions bring and drop
\* units (generate_concept_ucode): the count of the concepts at approval is the
\* greatest number in use, unless uploads of the country met in review.
THEOREM ConceptsNumbered == Spec => []ConceptNumbers
  <1>1. Init => NumberInv
    BY InitNumber
  <1>2. NumberInv /\ [Next]_vars => NumberInv'
    BY NextNumber
  <1>3. NumberInv => ConceptNumbers
    BY NumberInvImplies
  <1>4. QED
    BY <1>1, <1>2, <1>3, PTL DEF Spec

-----------------------------------------------------------------------------
(* Codes as sequences                                                      *)

LEMMA Appended ==
    ASSUME NEW s \in Seq(Nat), NEW n \in Nat
    PROVE  /\ Append(s, n) \in Seq(Nat) /\ Len(Append(s, n)) = Len(s) + 1
           /\ SubSeq(Append(s, n), 1, Len(s)) = s
           /\ Append(s, n)[Len(s) + 1] = n
           /\ \A m \in Nat : Append(s, m) = Append(s, n) => m = n
  <1>1. Append(s, n) \in Seq(Nat) /\ Len(Append(s, n)) = Len(s) + 1
    OBVIOUS
  <1>2. \A m \in Nat : Append(s, m)[Len(s) + 1] = m
    OBVIOUS
  <1>3. SubSeq(Append(s, n), 1, Len(s)) = s
    OBVIOUS
  <1>4. QED
    BY <1>1, <1>2, <1>3

LEMMA LastSplit ==
    ASSUME NEW s \in Seq(Nat), Len(s) > 0
    PROVE  /\ SubSeq(s, 1, Len(s) - 1) \in Seq(Nat)
           /\ LastOf(s) \in Nat
           /\ s = Append(SubSeq(s, 1, Len(s) - 1), LastOf(s))
  <1>1. Len(s) \in Nat /\ Len(s) - 1 \in Nat /\ Len(s) - 1 \in Int
    BY LenProperties
  <1>2. PICK k \in Nat : k = Len(s) - 1 /\ Len(s) = k + 1
    BY <1>1
  <1>3. \A i \in 1..(k + 1) : s[i] \in Nat
    BY <1>2, ElementOfSeq
  <1>4. PICK t : t = SubSeq(s, 1, k)
    OBVIOUS
  <1>5. /\ t \in Seq(Nat) /\ Len(t) = IF 1 <= k THEN k - 1 + 1 ELSE 0
        /\ \A i \in 1..(k - 1 + 1) : t[i] = s[1 + i - 1]
    <2>1. 1 \in Int /\ k \in Int /\ \A i \in 1..k : s[i] \in Nat
      BY <1>3
    <2>2. QED
      BY <1>4, <2>1, SubSeqProperties
  <1>6. Len(t) = k /\ \A i \in 1..k : t[i] = s[i]
    BY <1>5
  <1>7. PICK n \in Nat : n = LastOf(s) /\ n = s[k + 1]
    BY <1>2, <1>3 DEF LastOf
  <1>8. /\ Append(t, n) \in Seq(Nat) /\ Len(Append(t, n)) = k + 1
        /\ \A i \in 1..(k + 1) : Append(t, n)[i] = IF i = k + 1 THEN n ELSE t[i]
    BY <1>5, <1>6
  <1>9. \A i \in 1..(k + 1) : Append(t, n)[i] = s[i]
    BY <1>6, <1>7, <1>8
  <1>10. Append(t, n) = s
    BY <1>2, <1>8, <1>9, SeqEqual
  <1>11. QED
    BY <1>2, <1>4, <1>5, <1>7, <1>10

\* The country's own code, the missing code and others are told apart by their
\* lengths.
LEMMA NoCodeIs == NoCode \in Seq(Nat) /\ Len(NoCode) = 1 /\ NoCode[1] = 0
  BY DEF NoCode

LEMMA EmptyCode == \A s \in Seq(Nat) : Len(s) = 0 => s = <<>>
  OBVIOUS

-----------------------------------------------------------------------------
(* Parents                                                                 *)

\* Only the first unit is the country; the others have their parent before
\* them, one level up.
LEMMA Parents ==
    ASSUME BaseInv, NEW u \in Upload, NEW r \in Units(u)
    PROVE  /\ r = <<u, r[2]>> /\ r[1] = u /\ r[2] \in 1..MaxUnits /\ r \in Slot
           /\ Unit(r).level \in Nat
           /\ Unit(r).level = 0 <=> r[2] = 1
           /\ Unit(r).level > 0 =>
                /\ r \in NewUnits(u) /\ Unit(r).parent \in 1..MaxUnits
                /\ Parent(r) \in Units(u) /\ Parent(r)[2] < r[2]
                /\ Parent(r) = <<u, Unit(r).parent>>
                /\ Unit(Parent(r)).level = Unit(r).level - 1
                /\ Unit(Parent(r)).level \in Nat
  <1>1. PICK i \in 1..Len(units[u]) : r = <<u, i>>
    BY DEF Units
  <1>2. r[1] = u /\ r[2] = i
    BY <1>1
  <1>3. Len(units[u]) \in Nat /\ Len(units[u]) <= MaxUnits /\ units[u] \in Seq(UnitData)
    BY DEF BaseInv, ConceptInv, Typed
  <1>4. units[u] \in Shape[u]
    <2>1. Len(units[u]) # 0
      BY <1>1, <1>3
    <2>2. units[u] # <<>>
      BY <2>1, EmptySeq
    <2>3. QED
      BY <2>2 DEF BaseInv, Shaped
  <1>5. PICK s \in Shape[u] : s = units[u]
    BY <1>4
  <1>6. /\ s[1].level = 0
        /\ \A j \in 2..Len(s) : /\ s[j].parent \in 1..(j - 1)
                                /\ s[j].level = s[s[j].parent].level + 1
    BY ConceptAssumption
  <1>7. \A j \in 1..Len(s) : s[j].level \in Nat
    <2>1. \A j \in 1..Len(s) : s[j] \in UnitData
      BY <1>3, <1>5, ElementOfSeq
    <2>2. \A d \in UnitData : d.level \in Nat
      BY DEF UnitData
    <2>3. QED
      BY <2>1, <2>2
  <1>8. Unit(r) = s[i]
    BY <1>2, <1>5 DEF Unit
  <1>9. /\ r = <<u, r[2]>> /\ r[1] = u /\ r[2] = i /\ r \in Slot
         /\ i \in Nat /\ i >= 1 /\ i <= Len(s) /\ i <= MaxUnits /\ i \in 1..MaxUnits
         /\ Len(s) \in Nat /\ MaxUnits \in Nat
    <2>1. r \in Slot
      BY UnitSlots DEF BaseInv, ConceptInv
    <2>2. QED
      BY <1>1, <1>2, <1>3, <1>5, <2>1, ConceptAssumption
  <1>10. CASE i = 1
    <2>1. s[1].level = 0
      BY <1>6
    <2>2. Unit(r).level = 0
      BY <1>8, <1>10, <2>1
    <2>3. QED
      BY <1>2, <1>10, <1>9, <2>2
  <1>11. CASE i # 1
    <2>1. PICK p \in 1..(i - 1) : p = s[i].parent /\ s[i].level = s[p].level + 1
      BY <1>3, <1>5, <1>6, <1>11
    <2>2. p \in 1..Len(s) /\ p \in 1..MaxUnits /\ p < i
      <3>1. p \in Nat /\ p >= 1 /\ p <= i - 1
        BY <1>9
      <3>2. QED
        BY <1>9, <3>1
    <2>3. s[p].level \in Nat /\ s[i].level \in Nat /\ s[i].level > 0
      BY <1>5, <1>7, <2>1, <2>2
    <2>4. Parent(r) = <<u, p>>
      BY <1>2, <1>8, <2>1 DEF Parent
    <2>5. Parent(r) \in Units(u) /\ Parent(r)[2] = p /\ Unit(Parent(r)) = s[p]
      BY <1>5, <2>2, <2>4 DEF Units, Unit
    <2>6. r \in NewUnits(u) /\ r \in Slot
      BY <1>1, <1>11, UnitSlots DEF NewUnits, BaseInv, ConceptInv
    <2>7. s[p].level = s[i].level - 1
      BY <2>1, <2>3
    <2>8. Unit(r).level > 0 /\ Unit(r).parent = p /\ Unit(r).level \in Nat
      BY <1>8, <2>1, <2>3
    <2>9. /\ Unit(Parent(r)).level = Unit(r).level - 1
          /\ Unit(Parent(r)).level \in Nat
      BY <1>8, <2>3, <2>5, <2>7
    <2>10. Parent(r)[2] < r[2] /\ Parent(r) = <<u, Unit(r).parent>>
      BY <1>2, <2>2, <2>4, <2>5, <2>8
    <2>11. QED
      BY <1>9, <1>11, <2>2, <2>5, <2>6, <2>8, <2>9, <2>10
  <1>12. QED
    BY <1>10, <1>11

-----------------------------------------------------------------------------
(* The k-th of a set of numbers                                            *)

LEMMA KthNumber ==
    ASSUME NEW F, F \subseteq Nat, IsFiniteSet(F), NEW k \in 1..Cardinality(F)
    PROVE  \E n \in F : Cardinality({m \in F : m <= n}) = k
  <1> DEFINE Upto(n) == {m \in F : m <= n}
             S == {n \in F : Cardinality(Upto(n)) >= k}
  <1>1. /\ Cardinality(F) \in Nat /\ k \in Nat /\ k >= 1
        /\ \A n \in F : /\ IsFiniteSet(Upto(n)) /\ Cardinality(Upto(n)) \in Nat
                        /\ Upto(n) \subseteq F
    <2>1. \A n \in F : Upto(n) \subseteq F
      OBVIOUS
    <2> HIDE DEF Upto
    <2>2. QED
      BY <2>1, FS_Subset, FS_CardinalityType
  <1>2. S # {}
    <2>1. F # {}
      BY <1>1, FS_EmptySet
    <2>2. PICK g \in F : \A y \in F : y <= g
      BY <2>1, GreatestExists
    <2>3. Upto(g) = F
      BY <2>2
    <2>4. QED
      BY <1>1, <2>3
  <1>3. PICK n \in S : \A y \in S : n <= y
    <2>1. S \subseteq Nat
      OBVIOUS
    <2> HIDE DEF S
    <2>2. QED
      BY <1>2, <2>1, LeastExists
  <1>4. n \in F /\ n \in Nat /\ Cardinality(Upto(n)) >= k
    OBVIOUS
  <1>5. ASSUME Cardinality(Upto(n)) # k PROVE FALSE
    <2> DEFINE B == Upto(n) \ {n}
    <2>1. n \in Upto(n)
      BY <1>4
    <2>2. B \subseteq F /\ B \subseteq Nat
      OBVIOUS
    <2>3. /\ IsFiniteSet(B) /\ Cardinality(B) = Cardinality(Upto(n)) - 1
      <3> HIDE DEF Upto
      <3>1. QED
        BY <1>1, <1>4, <2>1, FS_RemoveElement
    <2>4. Cardinality(B) >= k /\ Cardinality(B) \in Nat
      <3> HIDE DEF Upto, B
      <3>1. QED
        BY <1>1, <1>4, <1>5, <2>3
    <2>5. B # {}
      <3> HIDE DEF Upto, B
      <3>1. QED
        BY <1>1, <2>4, FS_EmptySet
    <2>6. PICK g \in B : \A y \in B : y <= g
      <3> HIDE DEF Upto, B
      <3>1. QED
        BY <2>2, <2>3, <2>5, GreatestExists
    <2>7. g \in F /\ g < n
      BY <1>4
    <2>8. Upto(g) = B
      <3>1. \A y \in F : y \in Nat
        OBVIOUS
      <3>2. \A y \in B : y \in Upto(g)
        BY <2>6
      <3>3. \A y \in Upto(g) : y \in F /\ y <= n /\ y # n
        BY <1>4, <2>7, <3>1
      <3>4. \A y \in Upto(g) : y \in B
        BY <3>3
      <3>5. QED
        BY <3>2, <3>4
    <2>9. g \in S
      BY <2>4, <2>7, <2>8
    <2>10. QED
      BY <1>3, <1>4, <2>7, <2>9
  <1>6. QED
    BY <1>4, <1>5

-----------------------------------------------------------------------------
(* History stays                                                           *)

LEMMA HistoryLasts ==
    ASSUME BaseInv, [Next]_vars
    PROVE  /\ ApprovedUnits \subseteq ApprovedUnits'
           /\ \A q \in ApprovedUnits : /\ q \in Slot /\ row'[q] = row[q]
                                       /\ Unit(q)' = Unit(q)
  <1>1. ConceptInv /\ Typed
    BY DEF BaseInv, ConceptInv
  <1>2. \A q \in ApprovedUnits : q \in Slot
    BY <1>1, ApprovedSlots
  <1>3. CASE HistoryKept
    BY <1>1, <1>2, <1>3, ViewKept
  <1>4. ASSUME NEW v \in Upload \ Approved, Approve(v),
               Approved' = Approved \cup {v},
               UNCHANGED <<uploadVars, row, together>>
        PROVE  /\ ApprovedUnits \subseteq ApprovedUnits'
               /\ \A q \in ApprovedUnits : row'[q] = row[q] /\ Unit(q)' = Unit(q)
    <2>1. units' = units /\ row' = row
      BY <1>4 DEF uploadVars
    <2>2. QED
      BY <1>4, <2>1 DEF ApprovedUnits, Units, Unit
  <1>5. QED
    BY <1>2, <1>3, <1>4, HistoryStep

\* The parent of an approved unit is approved.
LEMMA ApprovedParents ==
    ASSUME BaseInv, NEW q \in ApprovedUnits
    PROVE  /\ q \in Slot /\ Unit(q).level \in Nat
           /\ Unit(q).level > 0 => /\ Parent(q) \in ApprovedUnits
                                   /\ Unit(Parent(q)).level = Unit(q).level - 1
  <1>1. PICK w \in Upload : w \in Approved /\ q \in Units(w)
    BY DEF ApprovedUnits, Approved
  <1>2. /\ q \in Slot /\ Unit(q).level \in Nat
        /\ Unit(q).level > 0 => /\ Parent(q) \in Units(w)
                                /\ Unit(Parent(q)).level = Unit(q).level - 1
    BY <1>1, Parents
  <1>3. QED
    BY <1>1, <1>2 DEF ApprovedUnits

\* Once a history is not clean, it never is again.
LEMMA CleanBefore ==
    ASSUME BaseInv, [Next]_vars, CleanHistory'
    PROVE  CleanHistory
  <1>1. /\ ApprovedUnits \subseteq ApprovedUnits'
        /\ \A q \in ApprovedUnits : /\ q \in Slot /\ row'[q] = row[q]
                                    /\ Unit(q)' = Unit(q)
    BY HistoryLasts
  <1>2. \A q \in ApprovedUnits : Parent(q)' = Parent(q)
    BY <1>1 DEF Parent
  <1>3. ASSUME NEW r \in ApprovedUnits PROVE ExtendsParent(r)
    <2>1. ExtendsParent(r)'
      BY <1>1 DEF CleanHistory
    <2>2. Unit(r).level > 0 => Parent(r) \in ApprovedUnits
      BY ApprovedParents
    <2>3. /\ row'[r] = row[r] /\ Unit(r)' = Unit(r) /\ Parent(r)' = Parent(r)
          /\ Unit(r).level > 0 => row'[Parent(r)] = row[Parent(r)]
      BY <1>1, <1>2, <2>2
    <2>4. QED
      BY <2>1, <2>3 DEF ExtendsParent
  <1>4. ASSUME NEW r \in ApprovedUnits
        PROVE  /\ Unit(r).level = 0 => row[r].code = <<>>
               /\ \A q \in ApprovedUnits :
                    row[r].code = row[q].code /\ Unit(r).level > 0
                      => row[r].uuid = row[q].uuid
    BY <1>1 DEF CleanHistory
  <1>5. QED
    BY <1>3, <1>4 DEF CleanHistory

-----------------------------------------------------------------------------
(* Codes                                                                   *)

\* The unit has a code
Coded(r) == Unit(r).level > 0 /\ row[r].code # NoCode

\* The code is the code of the parent, of the length it should have, and one
\* number.
Follows(r) ==
    /\ row[Parent(r)].code \in Seq(Nat) /\ row[Parent(r)].code # NoCode
    /\ Len(row[Parent(r)].code) = Unit(r).level - 1
    /\ \E n \in Nat : row[r].code = Append(row[Parent(r)].code, n)

CodeTypes == \A r \in Slot : row[r].code \in Seq(Nat)

\* Units matching has not come to have no code.
Fresh == \A r \in Slot : Ahead(r) /\ ~ IsClone(r) => row[r].code = NoCode

Settled(u) ==
    \/ stage[u] \in {"matching", "rest", "coding"}
    \/ stage[u] = "review" /\ edits[u] = 0

\* What matching has done so far: the country has its code, codes follow those
\* of the parents and are different, before numbering they are those of the
\* comparisons, and in the end no unit is without.
CodesGood(u) ==
    /\ \A r \in Units(u) : Unit(r).level = 0 /\ ~ Ahead(r) => row[r].code = <<>>
    /\ \A r \in Units(u) : Coded(r) => Follows(r)
    /\ \A r, q \in Units(u) : Coded(r) /\ Coded(q) /\ row[r].code = row[q].code
                                => r = q
    /\ stage[u] \in {"matching", "rest"} => \A r \in Units(u) :
         Coded(r) => /\ row[r].cmp # None
                     /\ Unit(row[r].cmp).level = Unit(r).level
                     /\ row[row[r].cmp].code = row[r].code
    /\ stage[u] = "review" => \A r \in Units(u) : Unit(r).level > 0 => Coded(r)

CodeInv ==
    /\ BaseInv /\ Fresh
    /\ CleanHistory => CodeTypes /\ \A u \in Upload : Settled(u) => CodesGood(u)

\* Codes of clean history follow those of the parents.
LEMMA CleanFollows ==
    ASSUME BaseInv, CleanHistory, CodeTypes,
           NEW q \in ApprovedUnits, Unit(q).level > 0
    PROVE  /\ Coded(q) /\ Len(row[q].code) = Unit(q).level
           /\ row[q].code = Append(row[Parent(q)].code, LastOf(row[q].code))
           /\ LastOf(row[q].code) \in Nat /\ Follows(q)
  <1>1. /\ q \in Slot /\ Unit(q).level \in Nat /\ Parent(q) \in ApprovedUnits
        /\ Unit(Parent(q)).level = Unit(q).level - 1
    BY ApprovedParents
  <1>2. /\ Parent(q) \in Slot /\ Unit(Parent(q)).level \in Nat
    BY <1>1, ApprovedParents
  <1>3. ExtendsParent(q) /\ ExtendsParent(Parent(q))
        /\ (Unit(Parent(q)).level = 0 => row[Parent(q)].code = <<>>)
    BY <1>1 DEF CleanHistory
  <1>4. /\ row[q].code \in Seq(Nat) /\ row[Parent(q)].code \in Seq(Nat)
    BY <1>1, <1>2 DEF CodeTypes
  <1>5. /\ Len(row[q].code) = Unit(q).level /\ row[q].code # NoCode
        /\ SubSeq(row[q].code, 1, Unit(q).level - 1) = row[Parent(q)].code
    BY <1>3 DEF ExtendsParent
  <1>6. /\ LastOf(row[q].code) \in Nat
        /\ row[q].code = Append(row[Parent(q)].code, LastOf(row[q].code))
    BY <1>4, <1>5, LastSplit
  <1>7. Len(row[Parent(q)].code) = Unit(q).level - 1 /\ row[Parent(q)].code # NoCode
    <2>1. CASE Unit(Parent(q)).level = 0
      <3>1. row[Parent(q)].code = <<>> /\ Unit(q).level = 1
        BY <1>1, <1>3, <2>1
      <3>2. Len(row[Parent(q)].code) = 0
        BY <3>1
      <3>3. row[Parent(q)].code # NoCode
        <4>1. <<>> # NoCode
          BY DEF NoCode
        <4>2. QED
          BY <3>1, <4>1
      <3>4. QED
        BY <3>1, <3>2, <3>3
    <2>2. CASE Unit(Parent(q)).level > 0
      BY <1>1, <1>3, <2>2 DEF ExtendsParent
    <2>3. QED
      BY <1>2, <2>1, <2>2
  <1>8. QED
    BY <1>4, <1>5, <1>6, <1>7 DEF Coded, Follows

\* The code a unit takes over is that of its comparison, if it takes any.
LEMMA CodeTaken ==
    ASSUME BaseInv, CleanHistory, CodeTypes, NEW q \in ApprovedUnits,
           NEW u \in Upload, NEW r \in Units(u), Unit(r).level > 0
    PROVE  /\ CodeFrom(r, q) = NoCode \/ CodeFrom(r, q) = row[q].code
           /\ CodeFrom(r, q) # NoCode =>
                /\ Unit(q).level = Unit(r).level
                /\ row[Parent(r)].code = row[Parent(q)].code
  <1>1. CASE /\ Unit(r).level = Unit(q).level
             /\ row[Parent(r)].code = row[Parent(q)].code
    <2>1. CodeFrom(r, q) = Append(row[Parent(q)].code, LastOf(row[q].code))
      BY <1>1 DEF CodeFrom
    <2>2. QED
      BY <1>1, <2>1, CleanFollows
  <1>2. CASE ~ /\ Unit(r).level = Unit(q).level
               /\ row[Parent(r)].code = row[Parent(q)].code
    <2>1. CodeFrom(r, q) = NoCode
      BY <1>2 DEF CodeFrom
    <2>2. QED
      BY <2>1
  <1>3. QED
    BY <1>1, <1>2

-----------------------------------------------------------------------------
(* The numbers that are free                                               *)

LEMMA CountNat ==
    ASSUME NEW S, S \subseteq Slot, NEW level, NEW code
    PROVE  CountConcepts(S, level, code) \in Nat
  <1> DEFINE T == {x \in S : /\ Unit(x).level = level /\ level > 0
                             /\ row[Parent(x)].code = code}
  <1>1. PICK f : f = [q \in Slot |-> row[q].uuid]
    OBVIOUS
  <1>2. PICK W : W = T
    OBVIOUS
  <1>3. IsFiniteSet(W) /\ W \subseteq Slot
    <2>1. W \subseteq Slot
      BY <1>2
    <2>2. QED
      BY <2>1, SlotsFinite, FS_Subset
  <1>4. IsFiniteSet({f[q] : q \in W})
    BY <1>3, Images
  <1>5. {f[q] : q \in W} = {row[q].uuid : q \in T}
    BY <1>1, <1>2, <1>3
  <1>6. Cardinality({f[q] : q \in W}) \in Nat
    BY <1>4, FS_CardinalityType
  <1>7. QED
    BY <1>5, <1>6 DEF CountConcepts

LEMMA UnitsCount ==
    ASSUME BaseInv, NEW u \in Upload
    PROVE  /\ IsFiniteSet(NewUnits(u)) /\ Cardinality(NewUnits(u)) \in Nat
           /\ Cardinality(NewUnits(u)) <= MaxUnits
  <1>1. PICK N \in Nat : N = Len(units[u]) /\ N <= MaxUnits
    BY DEF BaseInv, ConceptInv, Typed
  <1>2. PICK f : f = [i \in 1..N |-> <<u, i>>]
    OBVIOUS
  <1>3. Units(u) = {f[i] : i \in 1..N}
    BY <1>1, <1>2 DEF Units
  <1>4. IsFiniteSet(1..N) /\ Cardinality(1..N) = N
    BY FS_Interval
  <1>5. IsFiniteSet(Units(u)) /\ Cardinality(Units(u)) <= N
    BY <1>3, <1>4, Images
  <1>6. NewUnits(u) \subseteq Units(u)
    BY DEF NewUnits
  <1>7. /\ IsFiniteSet(NewUnits(u))
        /\ Cardinality(NewUnits(u)) <= Cardinality(Units(u))
    BY <1>5, <1>6, FS_Subset
  <1>8. Cardinality(NewUnits(u)) \in Nat /\ Cardinality(Units(u)) \in Nat
    BY <1>5, <1>7, FS_CardinalityType
  <1>9. QED
    BY <1>1, <1>5, <1>7, <1>8, ConceptAssumption

\* Of twice as many numbers as an upload may have units, its own take no more
\* than half.
LEMMA EnoughNumbers ==
    ASSUME BaseInv, NEW u \in Upload, NEW level, NEW code \in Seq(Nat),
           NEW count \in Nat
    PROVE  /\ FreeNumbers(u, level, code, count) \subseteq Nat
           /\ IsFiniteSet(FreeNumbers(u, level, code, count))
           /\ Cardinality(FreeNumbers(u, level, code, count)) \in Nat
           /\ Cardinality(FreeNumbers(u, level, code, count)) >= MaxUnits
           /\ \A n \in FreeNumbers(u, level, code, count) : n # 0
  <1>1. PICK M \in Nat : M = MaxUnits
    BY ConceptAssumption
  <1>2. PICK R : R = (count + 1)..(count + 2 * M)
    OBVIOUS
  <1>3. PICK f : f = [x \in NewUnits(u) |-> LastOf(row[x].code)]
    OBVIOUS
  <1>4. PICK S : S = NewUnits(u)
    OBVIOUS
  <1>5. PICK T : T = {f[x] : x \in S}
    OBVIOUS
  <1>6. PICK F : F = FreeNumbers(u, level, code, count)
    OBVIOUS
  <1>7. IsFiniteSet(T) /\ Cardinality(T) \in Nat /\ Cardinality(T) <= M
    <2>1. IsFiniteSet(T) /\ Cardinality(T) <= Cardinality(S)
      BY <1>4, <1>5, UnitsCount, Images
    <2>2. Cardinality(S) \in Nat /\ Cardinality(S) <= M
      BY <1>1, <1>4, UnitsCount
    <2>3. QED
      BY <2>1, <2>2, FS_CardinalityType
  <1>8. IsFiniteSet(R) /\ Cardinality(R) = 2 * M
    <2>1. count + 1 \in Int /\ count + 2 * M \in Int
      OBVIOUS
    <2>2. /\ IsFiniteSet(R)
          /\ Cardinality(R) = IF count + 1 > count + 2 * M THEN 0
                              ELSE count + 2 * M - (count + 1) + 1
      BY <1>2, <2>1, FS_Interval
    <2>3. QED
      BY <1>1, <2>2, ConceptAssumption
  <1>9. F \subseteq R /\ R \ T \subseteq F
    <2>1. F \subseteq R
      BY <1>1, <1>2, <1>6 DEF FreeNumbers
    <2>2. ASSUME NEW n \in R \ T PROVE n \in F
      <3>1. n \in Nat
        BY <1>2
      <3>2. ASSUME NEW x \in NewUnits(u), row[x].code = Append(code, n)
            PROVE  FALSE
        <4>1. LastOf(row[x].code) = n
          <5>1. Len(Append(code, n)) = Len(code) + 1
                /\ Append(code, n)[Len(code) + 1] = n
            BY <3>1, Appended
          <5>2. QED
            BY <3>2, <5>1 DEF LastOf
        <4>2. f[x] = n
          BY <1>3, <4>1
        <4>3. QED
          BY <1>4, <1>5, <2>2, <4>2
      <3>3. QED
        BY <1>1, <1>2, <1>6, <2>2, <3>2 DEF FreeNumbers
    <2>3. QED
      BY <2>1, <2>2
  <1>10. IsFiniteSet(F) /\ Cardinality(F) \in Nat /\ Cardinality(R \ T) <= Cardinality(F)
    <2>1. IsFiniteSet(F)
      BY <1>8, <1>9, FS_Subset
    <2>2. QED
      BY <1>9, <2>1, FS_Subset, FS_CardinalityType
  <1>11. Cardinality(R \ T) >= M
    <2>1. /\ IsFiniteSet(R \cap T) /\ Cardinality(R \cap T) <= Cardinality(T)
      <3>1. R \cap T \subseteq T
        OBVIOUS
      <3>2. QED
        BY <1>7, <3>1, FS_Subset
    <2>2. Cardinality(R \ T) = Cardinality(R) - Cardinality(R \cap T)
      BY <1>8, FS_Difference
    <2>3. Cardinality(R \cap T) \in Nat
      BY <2>1, FS_CardinalityType
    <2>4. QED
      BY <1>7, <1>8, <2>1, <2>2, <2>3
  <1>12. R \subseteq Nat /\ \A n \in R : n # 0
    BY <1>2
  <1>13. Cardinality(F) >= M
    <2>1. Cardinality(R \ T) \in Nat
      <3>1. IsFiniteSet(R \ T)
        BY <1>9, <1>10, FS_Subset
      <3>2. QED
        BY <3>1, FS_CardinalityType
    <2>2. QED
      BY <1>10, <1>11, <2>1
  <1>14. QED
    BY <1>1, <1>6, <1>9, <1>10, <1>12, <1>13

-----------------------------------------------------------------------------
(* Numbering the children of a unit                                        *)

\* The children T of p that have no code yet get different new numbers.
NumberedBy(u, p, T, g) ==
    /\ p \in Units(u) /\ p \notin Uncoded(u) /\ T \subseteq Uncoded(u)
    /\ row[p].code \in Seq(Nat) /\ row[p].code # NoCode
    /\ Len(row[p].code) = Unit(p).level /\ Unit(p).level \in Nat
    /\ \A x \in T : /\ Parent(x) = p /\ Unit(x).level = Unit(p).level + 1
                    /\ g[x] \in Nat /\ g[x] # 0
                    /\ \A y \in NewUnits(u) : Unit(y).level = Unit(p).level + 1
                         => row[y].code # Append(row[p].code, g[x])
    /\ \A x, y \in T : g[x] = g[y] => x = y
    /\ row' = [r \in Slot |->
                 IF r \in T THEN [row[r] EXCEPT !.code = Append(row[p].code, g[r])]
                 ELSE row[r]]

LEMMA ChildrenNumbered ==
    ASSUME BaseInv, NEW u \in Upload, CodesGood(u), CodeChildren(u)
    PROVE  \E p, T, g : NumberedBy(u, p, T, g)
  <1>1. stage[u] = "coding" /\ Uncoded(u) # {} /\ Uncoded(u) \subseteq NewUnits(u)
    BY DEF CodeChildren, Uncoded
  <1>2. ConceptInv /\ Typed
    BY DEF BaseInv, ConceptInv
  <1>3. \A x \in NewUnits(u) : x \in Units(u)
    BY DEF NewUnits
  <1>4. PICK z \in Uncoded(u) : /\ z[2] = SetMin({x[2] : x \in Uncoded(u)})
                                /\ \A x \in Uncoded(u) : z[2] <= x[2]
    <2>1. PICK I : I = {x[2] : x \in Uncoded(u)}
      OBVIOUS
    <2>2. I \subseteq Nat /\ I # {}
      <3>1. \A x \in Uncoded(u) : x[2] \in Nat
        BY <1>1, <1>3, Parents
      <3>2. QED
        BY <1>1, <2>1, <3>1
    <2>3. \E m \in I : \A y \in I : m <= y
      BY <2>2, LeastExists
    <2>4. SetMin(I) \in I /\ \A y \in I : SetMin(I) <= y
      BY <2>3 DEF SetMin
    <2>5. QED
      BY <2>1, <2>4
  <1>5. /\ z \in Units(u) /\ z = <<u, z[2]>> /\ Unit(z).level > 0
        /\ Unit(z).level \in Nat
        /\ Parent(z) \in Units(u) /\ Parent(z)[2] < z[2]
        /\ Unit(Parent(z)).level = Unit(z).level - 1
        /\ Unit(Parent(z)).level \in Nat
        /\ z[2] \in Nat /\ Parent(z)[2] \in Nat
    <2>1. z \in Units(u) /\ Unit(z).level > 0
      BY <1>1, <1>3 DEF Uncoded
    <2>2. Parent(z) \in Units(u)
      BY <2>1, Parents
    <2>3. z[2] \in Nat /\ Parent(z)[2] \in Nat
      BY <2>1, <2>2, Parents
    <2>4. QED
      BY <2>1, <2>2, <2>3, Parents
  <1>6. PICK p \in Units(u) : p = Parent(z)
    BY <1>5
  <1>7. p \notin Uncoded(u)
    BY <1>4, <1>5, <1>6
  <1>8. /\ row[p].code \in Seq(Nat) /\ row[p].code # NoCode
        /\ Len(row[p].code) = Unit(p).level
    <2>1. CASE Unit(p).level = 0
      <3>1. p[1] = u
        BY Parents
      <3>2. row[p].code = <<>>
        BY <1>1, <2>1, <3>1 DEF CodesGood, Ahead
      <3>3. <<>> # NoCode /\ <<>> \in Seq(Nat) /\ Len(<<>>) = 0
        BY DEF NoCode
      <3>4. QED
        BY <2>1, <3>2, <3>3
    <2>2. CASE Unit(p).level > 0
      <3>1. p \in NewUnits(u)
        BY <2>2, Parents
      <3>2. Coded(p)
        BY <1>7, <2>2, <3>1 DEF Uncoded, Coded
      <3>3. Follows(p)
        BY <3>2 DEF CodesGood
      <3>4. PICK n \in Nat : row[p].code = Append(row[Parent(p)].code, n)
        BY <3>3 DEF Follows
      <3>5. /\ row[p].code \in Seq(Nat)
            /\ Len(row[p].code) = Unit(p).level - 1 + 1
        BY <3>3, <3>4, Appended DEF Follows
      <3>6. QED
        BY <1>5, <1>6, <3>2, <3>5 DEF Coded
    <2>3. QED
      BY <1>5, <1>6, <2>1, <2>2
  <1>9. PICK code \in Seq(Nat) : code = row[p].code
    BY <1>8
  <1>10. PICK level \in Nat : level = Unit(z).level /\ level = Unit(p).level + 1
    BY <1>5, <1>6
  <1>11. PICK T : T = {x \in Uncoded(u) : Unit(x).parent = Unit(z).parent}
    OBVIOUS
  <1>12. PICK free : free = FreeNumbers(u, level, code,
                              CountConcepts(ApprovedUnits, level, code))
    OBVIOUS
  <1>13. PICK g : g = [x \in T |-> CHOOSE n \in free :
                         Cardinality({m \in free : m <= n})
                           = Cardinality({y \in T : y[2] <= x[2]})]
    OBVIOUS
  <1>14. row' = [r \in Slot |->
                   IF r \in T
                   THEN [row[r] EXCEPT !.code = Append(row[p].code, g[r])]
                   ELSE row[r]]
    <2> DEFINE i == SetMin({x[2] : x \in Uncoded(u)})
               lev == Unit(<<u, i>>).level
               cod == row[Parent(<<u, i>>)].code
               todo == {x \in Uncoded(u) : Unit(x).parent = Unit(<<u, i>>).parent}
               fr == FreeNumbers(u, lev, cod, CountConcepts(ApprovedUnits, lev, cod))
               number(x) == CHOOSE n \in fr :
                              Cardinality({m \in fr : m <= n})
                                = Cardinality({y \in todo : y[2] <= x[2]})
    <2>1. row' = [r \in Slot |->
                    IF r \in todo THEN [row[r] EXCEPT !.code = Append(cod, number(r))]
                    ELSE row[r]]
      BY DEF CodeChildren
    <2>2. <<u, i>> = z
      BY <1>4, <1>5
    <2>3. lev = level /\ cod = code /\ todo = T
      BY <2>2, <1>6, <1>9, <1>10, <1>11
    <2>4. fr = free
      BY <2>3, <1>12
    <2>5. ASSUME NEW x \in T PROVE number(x) = g[x]
      <3> HIDE DEF fr, todo
      <3>1. number(x) = CHOOSE n \in free :
                          Cardinality({m \in free : m <= n})
                            = Cardinality({y \in T : y[2] <= x[2]})
        BY <2>3, <2>4
      <3>2. g[x] = CHOOSE n \in free :
                     Cardinality({m \in free : m <= n})
                       = Cardinality({y \in T : y[2] <= x[2]})
        BY <1>13
      <3> HIDE DEF number
      <3>3. QED
        BY <3>1, <3>2
    <2> HIDE DEF number, fr, todo, cod, lev, i
    <2>6. QED
      BY <2>1, <2>3, <2>5, <1>9
  <1>15. /\ free \subseteq Nat /\ IsFiniteSet(free) /\ Cardinality(free) \in Nat
         /\ Cardinality(free) >= MaxUnits /\ \A n \in free : n # 0
    <2>1. ApprovedUnits \subseteq Slot
      BY <1>2, ApprovedSlots
    <2>2. CountConcepts(ApprovedUnits, level, code) \in Nat
      BY <2>1, CountNat
    <2>3. QED
      BY <1>12, <2>2, EnoughNumbers
  <1>16. /\ IsFiniteSet(T) /\ T \subseteq Units(u) /\ T \subseteq Uncoded(u)
         /\ Cardinality(T) \in Nat /\ Cardinality(T) <= Cardinality(free)
    <2>1. T \subseteq NewUnits(u) /\ T \subseteq Uncoded(u) /\ T \subseteq Units(u)
      BY <1>1, <1>3, <1>11
    <2>2. IsFiniteSet(NewUnits(u)) /\ Cardinality(NewUnits(u)) \in Nat
          /\ Cardinality(NewUnits(u)) <= MaxUnits
      BY UnitsCount
    <2>3. IsFiniteSet(T) /\ Cardinality(T) <= Cardinality(NewUnits(u))
      BY <2>1, <2>2, FS_Subset
    <2>4. Cardinality(T) \in Nat
      BY <2>3, FS_CardinalityType
    <2>5. QED
      BY <1>15, <2>1, <2>2, <2>3, <2>4, ConceptAssumption
  <1>17. /\ \A x \in T : Cardinality({y \in T : y[2] <= x[2]}) \in 1..Cardinality(T)
         /\ \A x, y \in T :
              Cardinality({v \in T : v[2] <= x[2]})
                = Cardinality({v \in T : v[2] <= y[2]}) => x = y
    <2>1. \A x \in T : x = <<u, x[2]>> /\ x[2] \in Nat
      BY <1>16, Parents
    <2>2. \A x, y \in T : x[2] = y[2] => x = y
      BY <2>1
    <2>3. QED
      BY <1>16, <2>1, <2>2, Ranks
  <1>18. \A x \in T : /\ g[x] \in free
                      /\ Cardinality({m \in free : m <= g[x]})
                           = Cardinality({y \in T : y[2] <= x[2]})
    <2> SUFFICES ASSUME NEW x \in T
                 PROVE  /\ g[x] \in free
                        /\ Cardinality({m \in free : m <= g[x]})
                             = Cardinality({y \in T : y[2] <= x[2]})
      OBVIOUS
    <2>1. PICK k : k = Cardinality({y \in T : y[2] <= x[2]})
      OBVIOUS
    <2>2. k \in 1..Cardinality(free)
      <3>1. k \in 1..Cardinality(T)
        BY <1>17, <2>1
      <3>2. QED
        BY <1>15, <1>16, <3>1
    <2>3. \E n \in free : Cardinality({m \in free : m <= n}) = k
      BY <1>15, <2>2, KthNumber
    <2>4. g[x] = CHOOSE n \in free : Cardinality({m \in free : m <= n}) = k
      BY <1>13, <2>1
    <2>5. QED
      BY <2>1, <2>3, <2>4
  <1>19. \A x, y \in T : g[x] = g[y] => x = y
    BY <1>17, <1>18
  <1>20. ASSUME NEW x \in T
         PROVE  /\ Parent(x) = p /\ Unit(x).level = Unit(p).level + 1
                /\ g[x] \in Nat /\ g[x] # 0
                /\ \A y \in NewUnits(u) : Unit(y).level = Unit(p).level + 1
                     => row[y].code # Append(row[p].code, g[x])
    <2>1. x \in Units(u) /\ Unit(x).level > 0 /\ Unit(x).parent = Unit(z).parent
      BY <1>11, <1>16 DEF Uncoded
    <2>2. Parent(x) = <<u, Unit(x).parent>> /\ Parent(z) = <<u, Unit(z).parent>>
      BY <1>5, <2>1, Parents
    <2>3. Parent(x) = p
      BY <1>6, <2>1, <2>2
    <2>4. Unit(p).level = Unit(x).level - 1 /\ Unit(x).level \in Nat
      BY <2>1, <2>3, Parents
    <2>5. g[x] \in free
      BY <1>18
    <2>6. \A y \in NewUnits(u) : Unit(y).level = level => row[y].code # Append(code, g[x])
      BY <1>12, <2>5 DEF FreeNumbers
    <2>7. Unit(x).level = Unit(p).level + 1
      BY <1>10, <2>4
    <2>8. g[x] \in Nat /\ g[x] # 0
      BY <1>15, <2>5
    <2>9. \A y \in NewUnits(u) : Unit(y).level = Unit(p).level + 1
            => row[y].code # Append(row[p].code, g[x])
      BY <1>9, <1>10, <2>6
    <2>10. QED
      BY <2>3, <2>7, <2>8, <2>9
  <1>21. Unit(p).level \in Nat
    BY <1>5, <1>6
  <1>22. NumberedBy(u, p, T, g)
    BY <1>7, <1>8, <1>14, <1>16, <1>19, <1>20, <1>21 DEF NumberedBy
  <1>23. QED
    BY <1>22

-----------------------------------------------------------------------------
(* Codes in a step                                                         *)

LEMMA SameUnits ==
    ASSUME BaseInv, NEW u \in Upload, units'[u] = units[u]
    PROVE  /\ Units(u)' = Units(u)
           /\ \A r \in Units(u) : /\ Unit(r)' = Unit(r) /\ Parent(r)' = Parent(r)
                                  /\ r[1] = u /\ r \in Slot
  <1>1. \A r \in Units(u) : r[1] = u /\ r \in Slot
    BY UnitSlots DEF BaseInv, ConceptInv
  <1>2. QED
    BY <1>1 DEF Units, Unit, Parent

\* A step that changes neither codes nor comparisons of the upload
LEMMA CodesCarried ==
    ASSUME BaseInv, [Next]_vars, NEW u \in Upload, CodesGood(u),
           units'[u] = units[u],
           \A r \in Units(u) : /\ row'[r].code = row[r].code
                               /\ row'[r].cmp = row[r].cmp,
           \A r \in Units(u) : Unit(r).level = 0 /\ ~ Ahead(r)' => ~ Ahead(r),
           stage'[u] \in {"matching", "rest"} => stage[u] \in {"matching", "rest"},
           stage'[u] = "review" =>
             \/ stage[u] = "review"
             \/ \A r \in Units(u) : Unit(r).level > 0 => Coded(r)
    PROVE  CodesGood(u)'
  <1>1. /\ Units(u)' = Units(u)
        /\ \A r \in Units(u) : /\ Unit(r)' = Unit(r) /\ Parent(r)' = Parent(r)
                               /\ r[1] = u /\ r \in Slot
    BY SameUnits
  <1>2. \A r \in Units(u) : Coded(r)' <=> Coded(r)
    BY <1>1 DEF Coded
  <1>3. ASSUME NEW r \in Units(u), Coded(r)
        PROVE  Follows(r) /\ Follows(r)'
    <2>1. Follows(r)
      BY <1>3 DEF CodesGood
    <2>2. Parent(r) \in Units(u)
      BY <1>3, Parents DEF Coded
    <2>3. row'[Parent(r)].code = row[Parent(r)].code
      BY <2>2
    <2>4. QED
      BY <1>1, <1>3, <2>1, <2>3 DEF Follows
  <1>4. ASSUME NEW r \in Units(u), Coded(r), stage[u] \in {"matching", "rest"}
        PROVE  (/\ row[r].cmp # None /\ Unit(row[r].cmp).level = Unit(r).level
                /\ row[row[r].cmp].code = row[r].code)'
    <2>1. /\ row[r].cmp # None /\ row[row[r].cmp].code = row[r].code
          /\ Unit(row[r].cmp).level = Unit(r).level
      BY <1>4 DEF CodesGood
    <2>2. PICK q \in ApprovedUnits : q = row[r].cmp
      BY <1>1, <2>1 DEF BaseInv, ConceptInv, Compared
    <2>3. row'[q] = row[q] /\ Unit(q)' = Unit(q)
      BY HistoryLasts
    <2>4. row'[r].cmp = q /\ row'[r].code = row[r].code
      BY <2>2
    <2>5. (Unit(row[r].cmp))' = Unit(q)'
      BY <2>4 DEF Unit
    <2>6. Unit(q)'.level = Unit(r)'.level
      BY <1>1, <2>1, <2>2, <2>3
    <2>7. row'[row'[r].cmp].code = row'[r].code
      BY <2>1, <2>2, <2>3, <2>4
    <2>8. QED
      BY <2>1, <2>2, <2>4, <2>5, <2>6, <2>7
  <1>5. \A r \in Units(u) : (Unit(r).level = 0 /\ ~ Ahead(r) => row[r].code = <<>>)'
    BY <1>1 DEF CodesGood
  <1>6. \A r, q \in Units(u) : (Coded(r) /\ Coded(q) /\ row[r].code = row[q].code
                                  => r = q)'
    BY <1>2 DEF CodesGood
  <1>7. \A r \in Units(u) : stage'[u] = "review" => (Unit(r).level > 0 => Coded(r))'
    BY <1>1, <1>2 DEF CodesGood
  <1>8. QED
    BY <1>1, <1>2, <1>3, <1>4, <1>5, <1>6, <1>7 DEF CodesGood

\* A step that matches one unit of the upload
LEMMA UnitCoded ==
    ASSUME BaseInv, [Next]_vars, CleanHistory, CodeTypes,
           NEW u \in Upload, CodesGood(u), NEW r \in NewUnits(u),
           UNCHANGED <<units, stage>>, stage[u] \in {"matching", "rest"},
           \A x \in Slot \ {r} : row'[x] = row[x],
           \A x \in Units(u) \ {r} : ~ Ahead(x)' => ~ Ahead(x),
           Unit(r).level = 0 => row'[r].code = <<>>,
           Unit(r).level > 0 =>
             /\ row[r].code = NoCode
             /\ \/ row'[r].code = NoCode
                \/ \E q \in ApprovedUnits :
                     /\ row'[r].cmp = q /\ row'[r].code = row[q].code
                     /\ Unit(q).level = Unit(r).level
                     /\ row[Parent(r)].code = row[Parent(q)].code
                     /\ row[q].uuid \notin Allocated(u)
    PROVE  CodesGood(u)'
  <1>1. /\ Units(u)' = Units(u)
        /\ \A x \in Units(u) : /\ Unit(x)' = Unit(x) /\ Parent(x)' = Parent(x)
                               /\ x[1] = u /\ x \in Slot
    BY SameUnits
  <1>2. r \in Units(u)
    BY DEF NewUnits
  <1>3. ConceptInv /\ Typed
    BY DEF BaseInv, ConceptInv
  <1>4. \A x \in Units(u) : x # r => row'[x] = row[x] /\ (Coded(x)' <=> Coded(x))
    BY <1>1 DEF Coded
  <1>5. ASSUME Coded(r)'
        PROVE  /\ Unit(r).level > 0 /\ row[r].code = NoCode
               /\ \E q \in ApprovedUnits :
                    /\ row'[r].cmp = q /\ row'[r].code = row[q].code
                    /\ Unit(q).level = Unit(r).level
                    /\ row[Parent(r)].code = row[Parent(q)].code
                    /\ row[q].uuid \notin Allocated(u)
    BY <1>1, <1>2, <1>5 DEF Coded
  <1>6. ASSUME NEW x \in Units(u), Coded(x), x # r
        PROVE  Follows(x)'
    <2>1. Follows(x) /\ Unit(x).level > 0
      BY <1>6 DEF CodesGood, Coded
    <2>2. /\ Parent(x) \in Units(u) /\ Unit(Parent(x)).level = Unit(x).level - 1
          /\ Unit(Parent(x)).level \in Nat /\ Unit(x).level \in Nat
      BY <2>1, Parents
    <2>3. row'[Parent(x)].code = row[Parent(x)].code
      <3>1. CASE Parent(x) # r
        BY <1>4, <2>2, <3>1
      <3>2. CASE Parent(x) = r
        <4>1. row[r].code # NoCode
          BY <2>1, <3>2 DEF Follows
        <4>2. Unit(r).level = 0
          BY <2>2, <3>2, <4>1
        <4>3. row[r].code \in Seq(Nat) /\ Len(row[r].code) = 0
          BY <2>1, <2>2, <3>2, <4>2 DEF Follows
        <4>4. row[r].code = <<>>
          BY <4>3, EmptyCode
        <4>5. QED
          BY <3>2, <4>2, <4>4
      <3>3. QED
        BY <3>1, <3>2
    <2>4. row'[x] = row[x] /\ Unit(x)' = Unit(x) /\ Parent(x)' = Parent(x)
      BY <1>1, <1>4, <1>6
    <2>5. QED
      BY <2>1, <2>3, <2>4 DEF Follows
  <1>7. ASSUME Coded(r)' PROVE Follows(r)'
    <2>1. PICK q \in ApprovedUnits :
            /\ row'[r].code = row[q].code /\ Unit(q).level = Unit(r).level
            /\ row[Parent(r)].code = row[Parent(q)].code /\ Unit(r).level > 0
      BY <1>5, <1>7
    <2>2. Follows(q)
      BY <2>1, CleanFollows
    <2>3. Parent(r) \in Units(u) /\ Parent(r) # r
      BY <1>2, <2>1, Parents
    <2>4. row'[Parent(r)] = row[Parent(r)]
      BY <1>4, <2>3
    <2>5. Unit(r)' = Unit(r) /\ Parent(r)' = Parent(r)
      BY <1>1, <1>2
    <2>6. QED
      BY <2>1, <2>2, <2>4, <2>5 DEF Follows
  <1>8. ASSUME NEW x \in Units(u), Coded(x)'
        PROVE  (/\ row[x].cmp # None /\ Unit(row[x].cmp).level = Unit(x).level
                /\ row[row[x].cmp].code = row[x].code)'
    <2>1. PICK q \in ApprovedUnits : /\ row'[x].cmp = q /\ row'[x].code = row[q].code
                                     /\ Unit(q).level = Unit(x).level
      <3>1. CASE x = r
        BY <1>5, <1>8, <3>1
      <3>2. CASE x # r
        <4>1. Coded(x) /\ row'[x] = row[x]
          BY <1>4, <1>8, <3>2
        <4>2. /\ row[x].cmp # None /\ row[row[x].cmp].code = row[x].code
              /\ Unit(row[x].cmp).level = Unit(x).level
          BY <4>1 DEF CodesGood
        <4>3. row[x].cmp \in ApprovedUnits
          BY <1>1, <1>3, <4>2 DEF ConceptInv, Compared
        <4>4. QED
          BY <4>1, <4>2, <4>3
      <3>3. QED
        BY <3>1, <3>2
    <2>2. row'[q] = row[q] /\ Unit(q)' = Unit(q)
      BY HistoryLasts
    <2>3. q # None
      BY <1>3, ApprovedSlots
    <2>4. (Unit(row[x].cmp))' = Unit(q)'
      BY <2>1 DEF Unit
    <2>5. Unit(q)'.level = Unit(x)'.level
      BY <1>1, <2>1, <2>2
    <2>6. row'[row'[x].cmp].code = row'[x].code
      BY <2>1, <2>2
    <2>7. QED
      BY <2>1, <2>3, <2>4, <2>5, <2>6
  <1>9. ASSUME NEW x \in Units(u), Coded(x), x # r, Coded(r)',
               row'[x].code = row'[r].code
        PROVE  FALSE
    <2>1. PICK q \in ApprovedUnits :
            /\ row'[r].code = row[q].code /\ Unit(q).level = Unit(r).level
            /\ row[q].uuid \notin Allocated(u) /\ Unit(r).level > 0
      BY <1>5, <1>9
    <2>2. /\ row[x].cmp # None /\ row[row[x].cmp].code = row[x].code
          /\ Unit(row[x].cmp).level = Unit(x).level /\ Unit(x).level > 0
      BY <1>9 DEF CodesGood, Coded
    <2>3. PICK p \in ApprovedUnits : p = row[x].cmp
      BY <1>1, <1>3, <2>2 DEF ConceptInv, Compared
    <2>4. row[p].code = row[q].code /\ Unit(q).level > 0
      BY <1>4, <1>9, <2>1, <2>2, <2>3
    <2>5. row[p].uuid = row[q].uuid
      BY <2>4 DEF CleanHistory
    <2>6. x \in NewUnits(u)
      BY <2>2, Parents
    <2>7. row[p].uuid \in Allocated(u)
      BY <2>2, <2>3, <2>6 DEF Allocated
    <2>8. QED
      BY <2>1, <2>5, <2>7
  <1>10. ASSUME NEW x \in Units(u), NEW y \in Units(u), Coded(x)', Coded(y)',
                row'[x].code = row'[y].code
         PROVE  x = y
    <2>1. CASE x # r /\ y # r
      <3>1. Coded(x) /\ Coded(y) /\ row[x].code = row[y].code
        BY <1>4, <1>10, <2>1
      <3>2. QED
        BY <3>1 DEF CodesGood
    <2>2. CASE x = r /\ y # r
      BY <1>4, <1>9, <1>10, <2>2
    <2>3. CASE x # r /\ y = r
      BY <1>4, <1>9, <1>10, <2>3
    <2>4. QED
      BY <2>1, <2>2, <2>3
  <1>11. ASSUME NEW x \in Units(u), Unit(x).level = 0, ~ Ahead(x)'
         PROVE  row'[x].code = <<>>
    BY <1>4, <1>11 DEF CodesGood
  <1>12. stage'[u] # "review"
    OBVIOUS
  <1>13. \A x \in Units(u) : Coded(x)' => Follows(x)'
    BY <1>4, <1>6, <1>7
  <1>14. \A x \in Units(u) : (Unit(x).level = 0 /\ ~ Ahead(x) => row[x].code = <<>>)'
    BY <1>1, <1>11
  <1>15. QED
    BY <1>1, <1>8, <1>10, <1>12, <1>13, <1>14 DEF CodesGood

\* A step that numbers the children of a unit
LEMMA ChildrenCoded ==
    ASSUME BaseInv, NEW u \in Upload, CodesGood(u),
           UNCHANGED <<units, stage>>, stage[u] = "coding",
           NEW p, NEW T, NEW g, NumberedBy(u, p, T, g)
    PROVE  CodesGood(u)'
  <1>1. /\ Units(u)' = Units(u)
        /\ \A x \in Units(u) : /\ Unit(x)' = Unit(x) /\ Parent(x)' = Parent(x)
                               /\ x[1] = u /\ x \in Slot
    BY SameUnits
  <1>2. PICK code \in Seq(Nat) : /\ code = row[p].code /\ code # NoCode
                                 /\ Len(code) = Unit(p).level
    BY DEF NumberedBy
  <1>3. PICK level \in Nat : level = Unit(p).level
    BY DEF NumberedBy
  <1>4. /\ p \in Units(u) /\ p \notin T
        /\ \A x \in T : x \in Units(u) /\ row[x].code = NoCode /\ Unit(x).level > 0
    BY DEF NumberedBy, Uncoded, NewUnits
  <1>5. \A x \in T : /\ Parent(x) = p /\ Unit(x).level = level + 1
                     /\ g[x] \in Nat /\ g[x] # 0
                     /\ \A y \in NewUnits(u) : Unit(y).level = level + 1
                          => row[y].code # Append(code, g[x])
    BY <1>2, <1>3 DEF NumberedBy
  <1>6. \A x \in Units(u) : x \notin T => row'[x] = row[x]
    BY <1>1 DEF NumberedBy
  <1>7. \A x \in T : row'[x].code = Append(code, g[x])
    <2> SUFFICES ASSUME NEW x \in T PROVE row'[x].code = Append(code, g[x])
      OBVIOUS
    <2>1. x \in Slot /\ DOMAIN row[x] = Columns
      BY <1>1, <1>4 DEF BaseInv, ConceptInv, Typed
    <2>2. row'[x] = [row[x] EXCEPT !.code = Append(code, g[x])]
      BY <1>2, <2>1 DEF NumberedBy
    <2>3. QED
      BY <2>1, <2>2 DEF Columns
  <1>8. \A x \in Units(u) : x \notin T => (Coded(x)' <=> Coded(x))
    BY <1>1, <1>6 DEF Coded
  <1>9. ASSUME NEW x \in T PROVE Follows(x)'
    <2>1. row'[p] = row[p] /\ Parent(x)' = p /\ Unit(x)' = Unit(x)
      BY <1>1, <1>4, <1>5, <1>6
    <2>2. Unit(x).level - 1 = level
      BY <1>5
    <2>3. QED
      BY <1>2, <1>3, <1>5, <1>7, <2>1, <2>2 DEF Follows
  <1>10. ASSUME NEW x \in Units(u), Coded(x), x \notin T
         PROVE  Follows(x) /\ Follows(x)'
    <2>1. Follows(x) /\ Unit(x).level > 0
      BY <1>10 DEF CodesGood, Coded
    <2>2. Parent(x) \in Units(u) /\ Parent(x) \notin T
      BY <1>4, <2>1, Parents DEF Follows
    <2>3. row'[Parent(x)] = row[Parent(x)] /\ row'[x] = row[x]
      BY <1>6, <1>10, <2>2
    <2>4. QED
      BY <1>1, <2>1, <2>3 DEF Follows
  <1>11. ASSUME NEW x \in T, NEW y \in Units(u), y \notin T, Coded(y),
                row'[x].code = row'[y].code
         PROVE  FALSE
    <2>1. row[y].code = Append(code, g[x]) /\ g[x] \in Nat
      BY <1>5, <1>6, <1>7, <1>11
    <2>2. Len(row[y].code) = level + 1
      BY <1>2, <1>3, <2>1, Appended
    <2>3. Follows(y) /\ Unit(y).level > 0
      BY <1>10, <1>11 DEF Coded
    <2>4. PICK n \in Nat : row[y].code = Append(row[Parent(y)].code, n)
      BY <2>3 DEF Follows
    <2>5. Len(row[y].code) = Unit(y).level - 1 + 1
      BY <2>3, <2>4, Appended DEF Follows
    <2>6. Unit(y).level \in Nat /\ y \in NewUnits(u)
      BY <2>3, Parents
    <2>7. Unit(y).level = level + 1
      BY <2>2, <2>5, <2>6
    <2>8. QED
      BY <1>5, <2>1, <2>6, <2>7
  <1>12. ASSUME NEW x \in T, NEW y \in T, row'[x].code = row'[y].code
         PROVE  x = y
    <2>1. Append(code, g[x]) = Append(code, g[y]) /\ g[x] \in Nat /\ g[y] \in Nat
      BY <1>5, <1>7, <1>12
    <2>2. g[x] = g[y]
      BY <2>1, Appended
    <2>3. QED
      BY <2>2 DEF NumberedBy
  <1>13. ASSUME NEW x \in Units(u), NEW y \in Units(u), Coded(x)', Coded(y)',
                row'[x].code = row'[y].code
         PROVE  x = y
    <2>1. CASE x \in T /\ y \in T
      BY <1>12, <1>13, <2>1
    <2>2. CASE x \in T /\ y \notin T
      BY <1>8, <1>11, <1>13, <2>2
    <2>3. CASE x \notin T /\ y \in T
      BY <1>8, <1>11, <1>13, <2>3
    <2>4. CASE x \notin T /\ y \notin T
      <3>1. Coded(x) /\ Coded(y) /\ row[x].code = row[y].code
        BY <1>6, <1>8, <1>13, <2>4
      <3>2. QED
        BY <3>1 DEF CodesGood
    <2>5. QED
      BY <2>1, <2>2, <2>3, <2>4
  <1>14. ASSUME NEW x \in Units(u), Unit(x).level = 0
         PROVE  row'[x].code = <<>>
    <2>1. x \notin T
      BY <1>4, <1>14
    <2>2. ~ Ahead(x)
      BY <1>1 DEF Ahead
    <2>3. QED
      BY <1>6, <1>14, <2>1, <2>2 DEF CodesGood
  <1>15. \A x \in Units(u) : Coded(x)' => Follows(x)'
    BY <1>8, <1>9, <1>10
  <1>16. \A x \in Units(u) : (Unit(x).level = 0 /\ ~ Ahead(x) => row[x].code = <<>>)'
    BY <1>1, <1>14
  <1>17. stage'[u] \notin {"matching", "rest", "review"}
    OBVIOUS
  <1>18. QED
    BY <1>1, <1>13, <1>15, <1>16, <1>17 DEF CodesGood

-----------------------------------------------------------------------------
(* Codes in matching and review                                            *)

\* What boundary matching makes of the code of a unit
LEMMA MatchGives ==
    ASSUME BaseInv, Fresh, CleanHistory, CodeTypes, NEW u \in Upload,
           MatchUnit(u) \/ MatchRest(u)
    PROVE  \E r \in NewUnits(u) :
             /\ r \in Slot /\ r[1] = u /\ r[2] = at[u]
             /\ \A x \in Slot \ {r} : row'[x] = row[x]
             /\ \/ row' = row /\ stage[u] = "rest"
                \/ /\ row[r].cmp = None
                   /\ stage[u] = "matching" => row[r].code = NoCode
                   /\ Unit(r).level = 0 =>
                        \/ row'[r].code = <<>>
                        \/ row'[r].code = row[r].code /\ stage[u] = "rest"
                   /\ Unit(r).level > 0 =>
                        \/ row'[r].code \in {NoCode, row[r].code}
                        \/ \E q \in ApprovedUnits :
                             /\ row'[r].cmp = q /\ row'[r].code = row[q].code
                             /\ Unit(q).level = Unit(r).level
                             /\ row[Parent(r)].code = row[Parent(q)].code
                             /\ row[q].uuid \notin Allocated(u)
  <1>1. /\ stage[u] \in {"matching", "rest"} /\ at[u] <= Len(units[u])
        /\ MatchUnit(u) => stage[u] = "matching"
        /\ MatchRest(u) => stage[u] = "rest"
    BY DEF MatchUnit, MatchRest
  <1>2. ConceptInv /\ Typed
    BY DEF BaseInv, ConceptInv
  <1>3. PICK r \in NewUnits(u) : /\ r = <<u, at[u]>> /\ r \in Slot
                                 /\ r[1] = u /\ r[2] = at[u] /\ r \in Units(u)
    BY <1>1, <1>2, UnitAt DEF NewUnits
  <1>4. /\ DOMAIN row = Slot /\ DOMAIN row[r] = Columns /\ Unit(r).level \in Nat
    BY <1>2, <1>3, Parents DEF Typed
  <1>5. MatchUnit(u) => row[r].cmp = None /\ row[r].code = NoCode
    <2>1. SUFFICES ASSUME MatchUnit(u) PROVE row[r].cmp = None /\ row[r].code = NoCode
      OBVIOUS
    <2>2. Ahead(r)
      BY <1>1, <1>2, <1>3, <2>1 DEF Ahead, Typed
    <2>3. ~ IsClone(r)
      BY <1>3 DEF IsClone, NewUnits
    <2>4. QED
      BY <1>2, <1>3, <2>2, <2>3 DEF Fresh, ConceptInv, Blank
  <1>6. \/ row' = row /\ MatchRest(u)
        \/ row' = [row EXCEPT ![r] = Unmatched(r)] /\ MatchUnit(u)
        \/ \E q \in ApprovedUnits : /\ row' = [row EXCEPT ![r] = Matched(r, q)]
                                    /\ row[q].uuid \notin Allocated(u)
                                    /\ MatchRest(u) => row[r].cmp = None
                                    /\ MatchUnit(u) => IsSame(r, q)
    <2>1. CASE MatchUnit(u)
      <3>1. ~ MatchRest(u)
        BY <1>1, <2>1
      <3>2. CASE row' = [row EXCEPT ![r] = Unmatched(r)]
        BY <2>1, <3>2
      <3>3. ASSUME NEW q \in Choices(r), row' = [row EXCEPT ![r] = Matched(r, q)]
            PROVE  /\ q \in ApprovedUnits /\ row[q].uuid \notin Allocated(u)
                   /\ IsSame(r, q)
        BY <1>3, <3>3, Candidates DEF IsSame, Above, AtThreshold
      <3>4. QED
        BY <1>3, <2>1, <3>1, <3>2, <3>3 DEF MatchUnit
    <2>2. CASE MatchRest(u)
      <3>1. ~ MatchUnit(u)
        BY <1>1, <2>2
      <3>2. ASSUME NEW q \in RestChoices(r)
            PROVE  q \in ApprovedUnits /\ row[q].uuid \notin Allocated(u)
        BY <1>3, Candidates
      <3>3. \/ row' = row
            \/ \E q \in RestChoices(r) : /\ row' = [row EXCEPT ![r] = Matched(r, q)]
                                         /\ row[r].cmp = None
        BY <1>3, <2>2 DEF MatchRest
      <3>4. QED
        BY <2>2, <3>1, <3>2, <3>3
    <2>3. QED
      BY <2>1, <2>2
  <1> DEFINE Result ==
        /\ row[r].cmp = None
        /\ stage[u] = "matching" => row[r].code = NoCode
        /\ Unit(r).level = 0 =>
             \/ row'[r].code = <<>>
             \/ row'[r].code = row[r].code /\ stage[u] = "rest"
        /\ Unit(r).level > 0 =>
             \/ row'[r].code \in {NoCode, row[r].code}
             \/ \E q \in ApprovedUnits :
                  /\ row'[r].cmp = q /\ row'[r].code = row[q].code
                  /\ Unit(q).level = Unit(r).level
                  /\ row[Parent(r)].code = row[Parent(q)].code
                  /\ row[q].uuid \notin Allocated(u)
  <1>7. \A x \in Slot \ {r} : row'[x] = row[x]
    BY <1>4, <1>6
  <1>8. CASE row' = [row EXCEPT ![r] = Unmatched(r)] /\ MatchUnit(u)
    <2>1. PICK c : c = IF Unit(r).level = 0 THEN <<>> ELSE row[r].code
      OBVIOUS
    <2>2. row'[r] = [row[r] EXCEPT !.cmp = None, !.same = FALSE, !.code = c]
      BY <1>3, <1>4, <1>8, <2>1 DEF Unmatched
    <2>3. row'[r].code = c
      BY <1>4, <2>2 DEF Columns
    <2>4. Result
      BY <1>1, <1>4, <1>5, <1>8, <2>1, <2>3
    <2>5. QED
      BY <1>3, <1>7, <2>4
  <1>9. ASSUME NEW q \in ApprovedUnits, row' = [row EXCEPT ![r] = Matched(r, q)],
               row[q].uuid \notin Allocated(u),
               MatchRest(u) => row[r].cmp = None, MatchUnit(u) => IsSame(r, q)
        PROVE  Result
    <2>1. row'[r] = Matched(r, q)
      BY <1>3, <1>4, <1>9
    <2>2. row[r].cmp = None /\ (stage[u] = "matching" => row[r].code = NoCode)
      BY <1>1, <1>5, <1>9
    <2>3. CASE IsSame(r, q)
      <3>1. PICK c : c = CodeFrom(r, q)
        OBVIOUS
      <3>2. row'[r] = [row[r] EXCEPT !.cmp = q, !.same = TRUE,
                                     !.uuid = row[q].uuid, !.code = c]
        BY <2>1, <2>3, <3>1 DEF Matched
      <3>3. row'[r].code = c /\ row'[r].cmp = q
        BY <1>4, <3>2 DEF Columns
      <3>4. Unit(r).level = 0 => c = <<>>
        BY <3>1 DEF CodeFrom
      <3>5. Unit(r).level > 0 /\ c # NoCode =>
              /\ c = row[q].code /\ Unit(q).level = Unit(r).level
              /\ row[Parent(r)].code = row[Parent(q)].code
        BY <1>3, <3>1, CodeTaken
      <3>6. QED
        BY <1>9, <2>2, <3>3, <3>4, <3>5
    <2>4. CASE ~ IsSame(r, q)
      <3>1. row'[r] = [row[r] EXCEPT !.cmp = q, !.same = FALSE]
        BY <2>1, <2>4 DEF Matched
      <3>2. row'[r].code = row[r].code
        BY <1>4, <3>1 DEF Columns
      <3>3. stage[u] = "rest"
        BY <1>1, <1>9, <2>4
      <3>4. QED
        BY <2>2, <3>2, <3>3
    <2>5. QED
      BY <2>3, <2>4
  <1> HIDE DEF Result
  <1>10. CASE row' = row /\ MatchRest(u)
    BY <1>1, <1>3, <1>7, <1>10
  <1>11. CASE Result
    BY <1>3, <1>7, <1>11 DEF Result
  <1>12. QED
    BY <1>6, <1>8, <1>9, <1>10, <1>11

LEMMA MatchCodes ==
    ASSUME CodeInv, [Next]_vars, CleanHistory, NEW u \in Upload, CodesGood(u),
           MatchUnit(u) \/ MatchRest(u)
    PROVE  CodesGood(u)'
  <1>1. BaseInv /\ Fresh /\ CodeTypes /\ Typed
    BY DEF CodeInv, BaseInv, ConceptInv
  <1>2. /\ stage[u] \in {"matching", "rest"} /\ UNCHANGED <<stage, units>>
        /\ at' = [at EXCEPT ![u] = @ + 1]
    BY DEF MatchUnit, MatchRest, uploadVars
  <1>3. PICK r \in NewUnits(u) :
          /\ r \in Slot /\ r[1] = u /\ r[2] = at[u]
          /\ \A x \in Slot \ {r} : row'[x] = row[x]
          /\ \/ row' = row /\ stage[u] = "rest"
             \/ /\ row[r].cmp = None
                /\ stage[u] = "matching" => row[r].code = NoCode
                /\ Unit(r).level = 0 =>
                     \/ row'[r].code = <<>>
                     \/ row'[r].code = row[r].code /\ stage[u] = "rest"
                /\ Unit(r).level > 0 =>
                     \/ row'[r].code \in {NoCode, row[r].code}
                     \/ \E q \in ApprovedUnits :
                          /\ row'[r].cmp = q /\ row'[r].code = row[q].code
                          /\ Unit(q).level = Unit(r).level
                          /\ row[Parent(r)].code = row[Parent(q)].code
                          /\ row[q].uuid \notin Allocated(u)
    BY <1>1, MatchGives
  <1>4. r \in Units(u)
    BY DEF NewUnits
  <1>5. \A x \in Units(u) \ {r} : ~ Ahead(x)' => ~ Ahead(x)
    <2> SUFFICES ASSUME NEW x \in Units(u) \ {r}, Ahead(x) PROVE Ahead(x)'
      OBVIOUS
    <2>1. /\ x[1] = u /\ x = <<u, x[2]>> /\ r = <<u, r[2]>>
          /\ x[2] \in 1..MaxUnits
      BY <1>1, <1>4, Parents
    <2>2. stage[u] = "matching" /\ x[2] >= at[u]
      BY <1>2, <2>1 DEF Ahead
    <2>3. x[2] # at[u] /\ x[2] \in Nat /\ at[u] \in Nat
      <3>1. x # r
        OBVIOUS
      <3>2. x[2] # at[u]
        BY <1>3, <2>1, <3>1
      <3>3. x[2] \in Nat
        BY <2>1
      <3>4. QED
        BY <1>1, <3>2, <3>3 DEF Typed
    <2>4. at'[u] = at[u] + 1
      BY <1>1, <1>2 DEF Typed
    <2>5. x[2] >= at'[u]
      BY <2>2, <2>3, <2>4
    <2>6. QED
      BY <1>2, <2>1, <2>2, <2>5 DEF Ahead
  <1>6. CASE row' = row /\ stage[u] = "rest"
    <2>1. ~ Ahead(r)
      BY <1>3, <1>6 DEF Ahead
    <2>2. \A x \in Units(u) : Unit(x).level = 0 /\ ~ Ahead(x)' => ~ Ahead(x)
      BY <1>5, <2>1
    <2>3. QED
      BY <1>1, <1>2, <1>6, <2>2, CodesCarried
  <1>7. CASE ~ (row' = row /\ stage[u] = "rest")
    <2>1. Unit(r).level > 0 => row[r].code = NoCode
      <3>1. CASE stage[u] = "matching"
        BY <1>3, <1>7, <3>1
      <3>2. CASE stage[u] = "rest"
        <4>1. ~ Coded(r)
          BY <1>3, <1>4, <1>7, <3>2 DEF CodesGood
        <4>2. QED
          BY <4>1 DEF Coded
      <3>3. QED
        BY <1>2, <3>1, <3>2
    <2>2. Unit(r).level = 0 => row'[r].code = <<>>
      <3>1. stage[u] = "rest" => ~ Ahead(r)
        BY <1>3 DEF Ahead
      <3>2. QED
        BY <1>3, <1>4, <1>7, <3>1 DEF CodesGood
    <2>3. Unit(r).level > 0 =>
             /\ row[r].code = NoCode
             /\ \/ row'[r].code = NoCode
                \/ \E q \in ApprovedUnits :
                     /\ row'[r].cmp = q /\ row'[r].code = row[q].code
                     /\ Unit(q).level = Unit(r).level
                     /\ row[Parent(r)].code = row[Parent(q)].code
                     /\ row[q].uuid \notin Allocated(u)
      BY <1>3, <1>7, <2>1
    <2>4. QED
      BY <1>1, <1>2, <1>3, <1>5, <2>2, <2>3, UnitCoded
  <1>8. QED
    BY <1>6, <1>7

\* Units that come to matching have no code, but the clone of the country.
LEMMA StartCodes ==
    ASSUME CodeInv, CleanHistory, NEW u \in Upload, StartMatching(u)
    PROVE  CodesGood(u)'
  <1>1. BaseInv /\ Fresh /\ ConceptInv /\ Typed
    BY DEF CodeInv, BaseInv, ConceptInv
  <1>2. /\ stage[u] = "validated" /\ stage'[u] = "matching"
        /\ UNCHANGED <<units, row, cloned>>
        /\ at'[u] = IF u \in cloned THEN 2 ELSE 1
    BY <1>1 DEF StartMatching, Typed
  <1>3. /\ Units(u)' = Units(u)
        /\ \A x \in Units(u) : /\ Unit(x)' = Unit(x) /\ Parent(x)' = Parent(x)
                               /\ x[1] = u /\ x \in Slot
    BY <1>1, <1>2, SameUnits
  <1>4. ASSUME NEW x \in Units(u)
        PROVE  /\ x = <<u, x[2]>> /\ x[2] \in 1..MaxUnits /\ Unit(x).level \in Nat
               /\ Unit(x).level = 0 <=> x[2] = 1
               /\ ~ IsClone(x) => row[x].code = NoCode
               /\ IsClone(x) => Unit(x).level = 0
    <2>1. /\ x = <<u, x[2]>> /\ x[2] \in 1..MaxUnits /\ Unit(x).level \in Nat
          /\ Unit(x).level = 0 <=> x[2] = 1
      BY <1>1, Parents
    <2>2. Ahead(x)
      BY <1>2, <1>3 DEF Ahead
    <2>3. ~ IsClone(x) => row[x].code = NoCode
      BY <1>1, <1>3, <2>2 DEF Fresh
    <2>4. IsClone(x) => Unit(x).level = 0
      BY <2>1 DEF IsClone
    <2>5. QED
      BY <2>1, <2>3, <2>4
  <1>5. \A x \in Units(u) : ~ Coded(x)'
    BY <1>2, <1>3, <1>4 DEF Coded
  <1>6. ASSUME NEW x \in Units(u), Unit(x).level = 0, ~ Ahead(x)'
        PROVE  row'[x].code = <<>>
    <2>1. x[2] = 1 /\ x = <<u, 1>> /\ x[1] = u
      BY <1>4, <1>6
    <2>2. u \in cloned
      BY <1>2, <1>6, <2>1 DEF Ahead
    <2>3. /\ orig[u] # None /\ stage[orig[u]] = "approved"
          /\ row[<<u, 1>>].code = row[<<orig[u], 1>>].code
      BY <1>1, <2>2 DEF BaseInv, Copied, Originals, TypedRest
    <2>4. PICK o \in Upload : o = orig[u]
      BY <1>1, <2>3 DEF BaseInv, TypedRest
    <2>5. units[o] \in Shape[o] /\ Len(units[o]) \in 1..MaxUnits
      BY <1>1, <2>3, <2>4, ConceptAssumption DEF BaseInv, Shaped
    <2>6. PICK q \in ApprovedUnits : q = <<o, 1>> /\ q \in Units(o)
      BY <2>3, <2>4, <2>5, ConceptAssumption DEF ApprovedUnits, Approved, Units
    <2>7. q[2] = 1 /\ Unit(q).level = 0
      BY <1>1, <2>6, Parents
    <2>8. row[q].code = <<>>
      BY <2>7 DEF CleanHistory
    <2>9. QED
      BY <1>2, <2>1, <2>3, <2>4, <2>6, <2>8
  <1>7. \A x \in Units(u) : (Unit(x).level = 0 /\ ~ Ahead(x) => row[x].code = <<>>)'
    BY <1>3, <1>6
  <1>8. QED
    BY <1>2, <1>3, <1>5, <1>7 DEF CodesGood

\* The code of a unit the reviewer changes is a code.
LEMMA EditCodes ==
    ASSUME BaseInv, CodeTypes, NEW u \in Upload, NEW r \in NewUnits(u),
           \/ SwapConcept(u, r)
           \/ \E q \in ApprovedUnits : ConfirmRematch(u, r, q)
    PROVE  \A x \in Slot : row'[x].code \in Seq(Nat)
  <1>1. ConceptInv /\ Typed
    BY DEF BaseInv, ConceptInv
  <1>2. r \in Slot /\ r[1] = u /\ r \in Units(u)
    BY <1>1, UnitSlots
  <1>3. \E q \in ApprovedUnits, same \in BOOLEAN :
          row' = [row EXCEPT ![r] = Reflagged(r, q, same)]
    <2>1. CASE SwapConcept(u, r)
      <3>1. row[r].cmp \in ApprovedUnits /\ (~ row[r].same) \in BOOLEAN
        BY <1>1, <1>2, <2>1 DEF SwapConcept, ConceptInv, Compared
      <3>2. row' = [row EXCEPT ![r] = Reflagged(r, row[r].cmp, ~ row[r].same)]
        BY <2>1 DEF SwapConcept
      <3>3. QED
        BY <3>1, <3>2, Zenon
    <2>2. ASSUME NEW q \in ApprovedUnits, ConfirmRematch(u, r, q)
          PROVE  \E same \in BOOLEAN :
                   row' = [row EXCEPT ![r] = Reflagged(r, q, same)]
      <3>1. IsSame(r, q) \in BOOLEAN
        BY DEF IsSame
      <3>2. QED
        BY <2>2, <3>1, Zenon DEF ConfirmRematch
    <2>3. QED
      BY <2>1, <2>2
  <1>4. PICK q \in ApprovedUnits, same \in BOOLEAN :
          row' = [row EXCEPT ![r] = Reflagged(r, q, same)]
    BY <1>3
  <1> DEFINE code == IF same THEN row[q].code
                     ELSE IF row[r].same THEN NewCode(r) ELSE row[r].code
             id == IF same THEN row[q].uuid ELSE FreshUuid(r)
  <1>5. Reflagged(r, q, same) =
          [row[r] EXCEPT !.cmp = q, !.same = same, !.uuid = id, !.code = code]
    BY Zenon DEF Reflagged
  <1>6. NewCode(r) \in Seq(Nat)
    <2>1. CASE Unit(r).level = 0
      BY <2>1 DEF NewCode
    <2>2. CASE Unit(r).level # 0
      <3>1. Unit(r).level > 0
        BY <1>2, <2>2, Parents
      <3>2. Parent(r) \in Slot
        BY <1>1, <1>2, <3>1, Parents, UnitSlots
      <3>3. row[Parent(r)].code \in Seq(Nat)
        BY <3>2 DEF CodeTypes
      <3>4. Countable(r[1]) \subseteq Slot
        BY <1>1, UnitSlots DEF Countable
      <3>5. PICK n \in Nat : n = CountConcepts(Countable(r[1]), Unit(r).level,
                                               row[Parent(r)].code)
        BY <3>4, CountNat
      <3>6. NewCode(r) = Append(row[Parent(r)].code, 1 + n)
        BY <2>2, <3>5 DEF NewCode
      <3>7. QED
        BY <3>3, <3>6
    <2>3. QED
      BY <2>1, <2>2
  <1>7. code \in Seq(Nat)
    <2>1. row[q].code \in Seq(Nat) /\ row[r].code \in Seq(Nat)
      BY <1>1, <1>2, ApprovedSlots DEF CodeTypes
    <2>2. QED
      BY <1>6, <2>1
  <1> HIDE DEF code, id
  <1>8. /\ DOMAIN row[r] = Columns /\ DOMAIN row = Slot
    BY <1>1, <1>2 DEF Typed
  <1>9. Reflagged(r, q, same).code = code
    BY <1>5, <1>8 DEF Columns
  <1>10. row'[r].code = code /\ \A x \in Slot \ {r} : row'[x] = row[x]
    BY <1>2, <1>4, <1>8, <1>9
  <1>11. QED
    BY <1>7, <1>10 DEF CodeTypes

-----------------------------------------------------------------------------
(* Every unit has a code of its own                                        *)

LEMMA NextFresh ==
    ASSUME BaseInv, Fresh, [Next]_vars
    PROVE  Fresh'
  <1>1. ConceptInv /\ TypedRest /\ Typed
    BY DEF BaseInv, ConceptInv
  <1> SUFFICES ASSUME NEW r \in Slot, Ahead(r)', ~ IsClone(r)'
               PROVE  row'[r].code = NoCode
    BY DEF Fresh
  <1>2. r[1] \in Upload /\ r[2] \in Nat /\ r = <<r[1], r[2]>>
    BY ConceptAssumption DEF Slot
  <1>3. CASE UNCHANGED vars
    <2>1. Ahead(r) /\ ~ IsClone(r) /\ row'[r] = row[r]
      BY <1>3 DEF vars, uploadVars, Ahead, IsClone
    <2>2. QED
      BY <2>1 DEF Fresh
  <1>4. CASE Next
    <2>1. PICK v \in Upload :
            /\ Create(v) \/ StartMatching(v) \/ MatchingStep(v) \/ ReviewStep(v)
            /\ stage[v] # "approved"
            /\ \A w \in Upload \ {v} : Keeps(w)
      BY <1>1, <1>4, StepOfOne
    <2>2. CASE r[1] # v
      <3>1. Ahead(r) /\ ~ IsClone(r) /\ row'[r] = row[r]
        BY <1>2, <2>1, <2>2 DEF Keeps, Ahead, IsClone
      <3>2. QED
        BY <3>1 DEF Fresh
    <2>3. CASE r[1] = v
      <3>1. CASE Create(v)
        <4>1. PICK s \in Shape[v], o \in Upload \cup {None}, clone \in BOOLEAN :
                Validate(v, s, o, clone)
          BY <3>1 DEF Create
        <4>2. /\ stage[v] = "none"
              /\ cloned' = IF clone THEN cloned \cup {v} ELSE cloned
              /\ row' = IF clone
                        THEN [row EXCEPT ![<<v, 1>>] = [row[<<o, 1>>] EXCEPT
                                                          !.cmp = None, !.same = FALSE]]
                        ELSE row
          BY <4>1 DEF Validate
        <4>3. Ahead(r) /\ ~ IsClone(r)
          <5>1. v \notin cloned
            BY <4>2 DEF BaseInv, Copied
          <5>2. QED
            BY <2>3, <4>2, <5>1 DEF Ahead, IsClone
        <4>4. row'[r] = row[r]
          <5>1. clone => r[2] # 1
            BY <2>3, <4>2 DEF IsClone
          <5>2. clone => r # <<v, 1>>
            BY <5>1
          <5>3. QED
            BY <1>1, <4>2, <5>2 DEF Typed
        <4>5. QED
          BY <4>3, <4>4 DEF Fresh
      <3>2. CASE StartMatching(v)
        <4>1. /\ stage[v] = "validated" /\ UNCHANGED <<row, cloned>>
          BY <3>2 DEF StartMatching
        <4>2. Ahead(r) /\ ~ IsClone(r) /\ row'[r] = row[r]
          BY <2>3, <4>1 DEF Ahead, IsClone
        <4>3. QED
          BY <4>2 DEF Fresh
      <3>3. CASE MatchUnit(v)
        <4>1. /\ stage[v] = "matching" /\ UNCHANGED <<stage, cloned>>
              /\ at'[v] = at[v] + 1 /\ at[v] \in Nat
              /\ \A x \in Slot \ {<<v, at[v]>>} : row'[x] = row[x]
          BY <1>1, <3>3 DEF MatchUnit, uploadVars, Typed
        <4>2. r[2] >= at[v] + 1
          BY <2>3, <4>1 DEF Ahead
        <4>3. Ahead(r) /\ ~ IsClone(r) /\ r[2] # at[v]
          BY <1>2, <2>3, <4>1, <4>2 DEF Ahead, IsClone
        <4>4. r # <<v, at[v]>>
          BY <4>3
        <4>5. QED
          BY <4>1, <4>3, <4>4 DEF Fresh
      <3>4. CASE Reject(v)
        <4>1. row'[r] = EmptyRow(r)
          BY <2>3, <3>4 DEF Reject
        <4>2. QED
          BY <4>1 DEF EmptyRow
      <3>5. CASE \/ StartRest(v) \/ MatchRest(v) \/ StartCoding(v)
                 \/ CodeChildren(v) \/ FinishMatching(v)
        <4>1. stage'[v] \in {"rest", "coding", "review"}
          BY <1>1, <3>5 DEF StartRest, MatchRest, StartCoding, CodeChildren,
             FinishMatching, Typed
        <4>2. QED
          BY <2>3, <4>1 DEF Ahead
      <3>6. CASE ReviewStep(v) /\ ~ Reject(v)
        <4>1. stage'[v] \in {"review", "numbered", "approved"}
          BY <1>1, <3>6 DEF ReviewStep, SwapConcept, Compare, ConfirmRematch, Edit,
             NumberConcepts, Approve, Typed
        <4>2. QED
          BY <2>3, <4>1 DEF Ahead
      <3>7. QED
        BY <2>1, <3>1, <3>2, <3>3, <3>4, <3>5, <3>6 DEF MatchingStep
    <2>4. QED
      BY <2>2, <2>3
  <1>5. QED
    BY <1>3, <1>4

LEMMA NextTypes ==
    ASSUME CodeInv, CleanHistory, [Next]_vars
    PROVE  CodeTypes'
  <1>1. BaseInv /\ ConceptInv /\ TypedRest /\ Typed /\ Fresh /\ CodeTypes
    BY DEF CodeInv, BaseInv, ConceptInv
  <1>2. NoCode \in Seq(Nat) /\ <<>> \in Seq(Nat)
    BY NoCodeIs
  <1>3. CASE row' = row
    BY <1>1, <1>3 DEF CodeTypes
  <1>4. ASSUME NEW v \in Upload, Create(v) PROVE CodeTypes'
    <2>1. PICK s \in Shape[v], o \in Upload \cup {None}, clone \in BOOLEAN :
            Validate(v, s, o, clone)
      BY <1>4 DEF Create
    <2>2. CASE clone
      <3>1. /\ o \in Upload
            /\ row' = [row EXCEPT ![<<v, 1>>] = [row[<<o, 1>>] EXCEPT
                                                   !.cmp = None, !.same = FALSE]]
        BY <2>1, <2>2 DEF Validate
      <3>2. <<v, 1>> \in Slot /\ <<o, 1>> \in Slot
        BY <3>1, ConceptAssumption DEF Slot
      <3>3. row'[<<v, 1>>].code = row[<<o, 1>>].code
        BY <1>1, <3>1, <3>2 DEF Typed, Columns
      <3>4. \A x \in Slot : x # <<v, 1>> => row'[x] = row[x]
        BY <1>1, <3>1 DEF Typed
      <3>5. QED
        BY <1>1, <3>2, <3>3, <3>4 DEF CodeTypes
    <2>3. CASE ~ clone
      BY <1>3, <2>1, <2>3 DEF Validate
    <2>4. QED
      BY <2>2, <2>3
  <1>5. ASSUME NEW v \in Upload, MatchUnit(v) \/ MatchRest(v) PROVE CodeTypes'
    <2>1. PICK r \in NewUnits(v) :
            /\ r \in Slot /\ \A x \in Slot \ {r} : row'[x] = row[x]
            /\ \/ row' = row
               \/ row'[r].code = <<>>
               \/ row'[r].code \in {NoCode, row[r].code}
               \/ \E q \in ApprovedUnits : row'[r].code = row[q].code
      <3>1. \A r \in NewUnits(v) : Unit(r).level = 0 \/ Unit(r).level > 0
        BY <1>1, Parents DEF NewUnits
      <3>2. QED
        BY <1>1, <1>5, <3>1, MatchGives
    <2>2. row'[r].code \in Seq(Nat)
      BY <1>1, <1>2, <2>1, ApprovedSlots DEF CodeTypes
    <2>3. QED
      BY <1>1, <2>1, <2>2 DEF CodeTypes
  <1>6. ASSUME NEW v \in Upload, CodeChildren(v) PROVE CodeTypes'
    <2>1. CodesGood(v)
      BY <1>6 DEF CodeInv, Settled, CodeChildren
    <2>2. PICK p, T, g : NumberedBy(v, p, T, g)
      BY <1>1, <1>6, <2>1, ChildrenNumbered
    <2>3. /\ row[p].code \in Seq(Nat) /\ \A x \in T : g[x] \in Nat
          /\ row' = [r \in Slot |->
                 IF r \in T THEN [row[r] EXCEPT !.code = Append(row[p].code, g[r])]
                 ELSE row[r]]
      BY <2>2 DEF NumberedBy
    <2>4. ASSUME NEW x \in Slot PROVE row'[x].code \in Seq(Nat)
      <3>1. CASE x \in T
        <4>1. PICK c \in Seq(Nat) : c = Append(row[p].code, g[x])
          <5>1. row[p].code \in Seq(Nat) /\ g[x] \in Nat
            BY <2>3, <3>1
          <5>2. Append(row[p].code, g[x]) \in Seq(Nat)
            BY <5>1, Appended
          <5>3. QED
            BY <5>2
        <4>2. row'[x] = [row[x] EXCEPT !.code = c]
          BY <2>3, <3>1, <4>1
        <4>3. row'[x].code = c
          BY <1>1, <4>2 DEF Typed, Columns
        <4>4. QED
          BY <4>3
      <3>2. CASE x \notin T
        BY <1>1, <2>3, <3>2 DEF CodeTypes
      <3>3. QED
        BY <3>1, <3>2
    <2>5. QED
      BY <2>4 DEF CodeTypes
  <1>7. ASSUME NEW v \in Upload, NumberConcepts(v) \/ \E r, q : Compare(v, r, q)
        PROVE  CodeTypes'
    <2>1. ~ CodeChildren(v)
      BY <1>7 DEF NumberConcepts, Compare, CodeChildren
    <2>2. QED
      BY <1>1, <1>7, <2>1, NumberColumns DEF CodeTypes
  <1>8. ASSUME NEW v \in Upload, NEW r \in NewUnits(v),
               SwapConcept(v, r) \/ \E q \in ApprovedUnits : ConfirmRematch(v, r, q)
        PROVE  CodeTypes'
    BY <1>1, <1>8, EditCodes DEF CodeTypes
  <1>9. ASSUME NEW v \in Upload, Reject(v) PROVE CodeTypes'
    <2>1. \A x \in Slot : row'[x] = EmptyRow(x) \/ row'[x] = row[x]
      BY <1>9 DEF Reject
    <2>2. \A x \in Slot : EmptyRow(x).code = NoCode
      BY DEF EmptyRow
    <2>3. QED
      BY <1>1, <1>2, <2>1, <2>2 DEF CodeTypes
  <1>10. ASSUME NEW v \in Upload,
                \/ StartMatching(v) \/ StartRest(v) \/ StartCoding(v)
                \/ FinishMatching(v) \/ Approve(v)
         PROVE  CodeTypes'
    <2>1. row' = row
      BY <1>10 DEF StartMatching, StartRest, StartCoding, FinishMatching, Approve
    <2>2. QED
      BY <1>3, <2>1
  <1>11. CASE UNCHANGED vars
    BY <1>3, <1>11 DEF vars
  <1>12. CASE Next
    <2>1. PICK v \in Upload :
            Create(v) \/ StartMatching(v) \/ MatchingStep(v) \/ ReviewStep(v)
      BY <1>12 DEF Next, Create
    <2>2. CASE MatchingStep(v)
      BY <1>5, <1>6, <1>10, <2>2 DEF MatchingStep
    <2>3. CASE ReviewStep(v)
      BY <1>7, <1>8, <1>9, <1>10, <2>3 DEF ReviewStep
    <2>4. QED
      BY <1>4, <1>10, <2>1, <2>2, <2>3
  <1>13. QED
    BY <1>11, <1>12

\* A step of the upload itself
LEMMA OwnStepCodes ==
    ASSUME CodeInv, CleanHistory, [Next]_vars, NEW u \in Upload, Settled(u)',
           Create(u) \/ StartMatching(u) \/ MatchingStep(u) \/ ReviewStep(u)
    PROVE  CodesGood(u)'
  <1>1. BaseInv /\ ConceptInv /\ TypedRest /\ Typed /\ Fresh /\ CodeTypes
    BY DEF CodeInv, BaseInv, ConceptInv
  <1>2. Settled(u) => CodesGood(u)
    BY DEF CodeInv
  <1>3. stage'[u] \in {"matching", "rest", "coding", "review"}
    BY DEF Settled
  <1>4. ~ Create(u) /\ ~ Reject(u) /\ ~ Approve(u) /\ ~ NumberConcepts(u)
    <2>1. ~ Create(u)
      BY <1>1, <1>3, Moves
    <2>2. ~ Reject(u) /\ ~ Approve(u) /\ ~ NumberConcepts(u)
      BY <1>1, <1>3 DEF Reject, Approve, NumberConcepts, Typed
    <2>3. QED
      BY <2>1, <2>2
  <1>5. CASE StartMatching(u)
    BY <1>5, StartCodes
  <1>6. CASE MatchUnit(u) \/ MatchRest(u)
    <2>1. CodesGood(u)
      BY <1>2, <1>6 DEF Settled, MatchUnit, MatchRest
    <2>2. QED
      BY <1>6, <2>1, MatchCodes
  <1>7. CASE CodeChildren(u)
    <2>1. CodesGood(u)
      BY <1>2, <1>7 DEF Settled, CodeChildren
    <2>2. UNCHANGED <<units, stage>> /\ stage[u] = "coding"
      BY <1>7 DEF CodeChildren, uploadVars
    <2>3. PICK p, T, g : NumberedBy(u, p, T, g)
      BY <1>1, <1>7, <2>1, ChildrenNumbered
    <2>4. QED
      BY <1>1, <2>1, <2>2, <2>3, ChildrenCoded
  <1>8. CASE StartRest(u)
    <2>1. /\ stage[u] = "matching" /\ at[u] > Len(units[u])
          /\ UNCHANGED <<units, row>> /\ stage'[u] = "rest"
      BY <1>1, <1>8 DEF StartRest, uploadVars, Typed
    <2>2. CodesGood(u)
      BY <1>2, <2>1 DEF Settled
    <2>3. \A x \in Units(u) : ~ Ahead(x)
      <3> SUFFICES ASSUME NEW x \in Units(u) PROVE ~ Ahead(x)
        OBVIOUS
      <3>1. PICK i \in 1..Len(units[u]) : x = <<u, i>>
        BY DEF Units
      <3>2. Len(units[u]) \in Nat /\ at[u] \in Nat
        BY <1>1 DEF Typed
      <3>3. ~ (i >= at[u])
        BY <2>1, <3>2
      <3>4. QED
        BY <2>1, <3>1, <3>3 DEF Ahead
    <2>4. QED
      BY <1>1, <2>1, <2>2, <2>3, CodesCarried
  <1>9. CASE StartCoding(u)
    <2>1. /\ stage[u] = "rest" /\ UNCHANGED <<units, row>> /\ stage'[u] = "coding"
      BY <1>1, <1>9 DEF StartCoding, uploadVars, Typed
    <2>2. CodesGood(u)
      BY <1>2, <2>1 DEF Settled
    <2>3. \A x \in Units(u) : ~ Ahead(x)
      BY <1>1, <2>1, Parents DEF Ahead
    <2>4. QED
      BY <1>1, <2>1, <2>2, <2>3, CodesCarried
  <1>10. CASE FinishMatching(u)
    <2>1. /\ stage[u] = "coding" /\ UNCHANGED <<units, row>> /\ stage'[u] = "review"
          /\ Uncoded(u) = {}
      BY <1>1, <1>10 DEF FinishMatching, uploadVars, Typed
    <2>2. CodesGood(u)
      BY <1>2, <2>1 DEF Settled
    <2>3. \A x \in Units(u) : ~ Ahead(x)
      BY <1>1, <2>1, Parents DEF Ahead
    <2>4. ASSUME NEW x \in Units(u), Unit(x).level > 0 PROVE Coded(x)
      <3>1. x \in NewUnits(u)
        BY <1>1, <2>4, Parents
      <3>2. QED
        BY <2>1, <2>4, <3>1 DEF Uncoded, Coded
    <2>5. QED
      BY <1>1, <2>1, <2>2, <2>3, <2>4, CodesCarried
  <1>11. CASE ReviewStep(u)
    <2>1. \A x, q : ~ SwapConcept(u, x) /\ ~ ConfirmRematch(u, x, q)
      <3> SUFFICES ASSUME NEW x, NEW q, SwapConcept(u, x) \/ ConfirmRematch(u, x, q)
                   PROVE  FALSE
        OBVIOUS
      <3>1. /\ stage'[u] = "review" /\ edits'[u] = edits[u] + 1 /\ edits[u] \in Nat
        BY <1>1 DEF SwapConcept, ConfirmRematch, Edit, Typed
      <3>2. QED
        BY <3>1 DEF Settled
    <2>2. PICK x, q : Compare(u, x, q)
      BY <1>4, <1>11, <2>1 DEF ReviewStep
    <2>3. /\ stage[u] = "review" /\ UNCHANGED <<units, row, stage, edits>>
      BY <2>2 DEF Compare, uploadVars
    <2>4. CodesGood(u)
      BY <1>2, <2>3 DEF Settled
    <2>5. \A y \in Units(u) : ~ Ahead(y)
      BY <1>1, <2>3, Parents DEF Ahead
    <2>6. QED
      BY <1>1, <2>3, <2>4, <2>5, CodesCarried
  <1>12. QED
    BY <1>4, <1>5, <1>6, <1>7, <1>8, <1>9, <1>10, <1>11 DEF MatchingStep

LEMMA NextCode == CodeInv /\ [Next]_vars => CodeInv'
  <1> SUFFICES ASSUME CodeInv, [Next]_vars PROVE CodeInv'
    OBVIOUS
  <1>1. BaseInv /\ ConceptInv /\ TypedRest /\ Typed /\ Fresh
    BY DEF CodeInv, BaseInv, ConceptInv
  <1>2. BaseInv' /\ Fresh'
    BY <1>1, NextBase, NextFresh
  <1>3. ASSUME CleanHistory' PROVE CodeTypes'
    <2>1. CleanHistory
      BY <1>1, <1>3, CleanBefore
    <2>2. QED
      BY <2>1, NextTypes
  <1>4. ASSUME CleanHistory', NEW u \in Upload, Settled(u)' PROVE CodesGood(u)'
    <2>1. CleanHistory
      BY <1>1, <1>4, CleanBefore
    <2>2. ASSUME Keeps(u) PROVE CodesGood(u)'
      <3>1. /\ stage'[u] = stage[u] /\ units'[u] = units[u] /\ at'[u] = at[u]
            /\ edits'[u] = edits[u]
            /\ \A x \in Slot : x[1] = u => row'[x] = row[x]
        BY <2>2 DEF Keeps
      <3>2. CodesGood(u)
        BY <1>4, <2>1, <3>1 DEF CodeInv, Settled
      <3>3. \A x \in Units(u) : x[1] = u /\ row'[x] = row[x]
        BY <1>1, <3>1, Parents
      <3>4. \A x \in Units(u) : ~ Ahead(x)' => ~ Ahead(x)
        BY <3>1, <3>3 DEF Ahead
      <3>5. QED
        BY <1>1, <3>1, <3>2, <3>3, <3>4, CodesCarried
    <2>3. CASE UNCHANGED vars
      <3>1. Keeps(u)
        BY <2>3 DEF vars, uploadVars, Keeps
      <3>2. QED
        BY <2>2, <3>1
    <2>4. CASE Next
      <3>1. PICK v \in Upload :
              /\ Create(v) \/ StartMatching(v) \/ MatchingStep(v) \/ ReviewStep(v)
              /\ \A w \in Upload \ {v} : Keeps(w)
        BY <1>1, <2>4, StepOfOne
      <3>2. CASE v = u
        BY <1>4, <2>1, <3>1, <3>2, OwnStepCodes
      <3>3. CASE v # u
        BY <2>2, <3>1, <3>3
      <3>4. QED
        BY <3>2, <3>3
    <2>5. QED
      BY <2>3, <2>4
  <1>5. QED
    BY <1>2, <1>3, <1>4 DEF CodeInv

LEMMA InitCode == Init => CodeInv
  <1> SUFFICES ASSUME Init PROVE CodeInv
    OBVIOUS
  <1>1. \A r \in Slot : row[r].code = NoCode
    BY DEF Init
  <1>2. Fresh /\ CodeTypes
    BY <1>1, NoCodeIs DEF Fresh, CodeTypes
  <1>3. \A u \in Upload : ~ Settled(u)
    BY DEF Init, Settled
  <1>4. QED
    BY <1>2, <1>3, InitBase DEF CodeInv

\* In review, before the reviewer changed anything, codes extend those of the
\* parents and are different.
LEMMA CodeInvImplies == CodeInv => MatchedCodes
  <1> SUFFICES ASSUME CodeInv, NEW u \in Upload, stage[u] = "review", edits[u] = 0,
                      CleanHistory, NEW r \in Units(u)
               PROVE  /\ ExtendsParent(r)
                      /\ \A q \in Units(u) \ {r} : row[r].code # row[q].code
    BY DEF MatchedCodes
  <1>1. BaseInv /\ CodesGood(u)
    BY DEF CodeInv, Settled
  <1>2. ASSUME NEW x \in Units(u), Unit(x).level > 0
        PROVE  /\ Coded(x) /\ ExtendsParent(x) /\ row[x].code # <<>>
    <2>1. Coded(x) /\ Follows(x)
      BY <1>1, <1>2 DEF CodesGood
    <2>2. PICK n \in Nat : row[x].code = Append(row[Parent(x)].code, n)
      BY <2>1 DEF Follows
    <2>3. PICK k \in Nat : k = Unit(x).level
      BY <1>1, Parents
    <2>4. PICK s \in Seq(Nat) : s = row[Parent(x)].code /\ Len(s) = k - 1
      BY <2>1, <2>3 DEF Follows
    <2>5. /\ Len(Append(s, n)) = k /\ SubSeq(Append(s, n), 1, k - 1) = s
      BY <1>2, <2>3, <2>4, Appended
    <2>6. ExtendsParent(x)
      BY <2>1, <2>2, <2>3, <2>4, <2>5 DEF ExtendsParent, Coded
    <2>7. Append(s, n) # <<>>
      OBVIOUS
    <2>8. QED
      BY <2>1, <2>2, <2>4, <2>6, <2>7
  <1>3. ASSUME NEW x \in Units(u), Unit(x).level = 0
        PROVE  row[x].code = <<>> /\ x = <<u, 1>>
    <2>1. x[2] = 1 /\ x = <<u, x[2]>> /\ x[1] = u
      BY <1>1, <1>3, Parents
    <2>2. ~ Ahead(x)
      BY <2>1 DEF Ahead
    <2>3. QED
      BY <1>1, <1>3, <2>1, <2>2 DEF CodesGood
  <1>4. \A x \in Units(u) : Unit(x).level = 0 \/ Unit(x).level > 0
    BY <1>1, Parents
  <1>5. ExtendsParent(r)
    BY <1>2, <1>4 DEF ExtendsParent
  <1>6. ASSUME NEW q \in Units(u), q # r, row[r].code = row[q].code PROVE FALSE
    <2>1. CASE Unit(q).level > 0 /\ Unit(r).level > 0
      <3>1. Coded(q) /\ Coded(r)
        BY <1>2, <2>1
      <3>2. QED
        BY <1>1, <1>6, <3>1 DEF CodesGood
    <2>2. CASE Unit(q).level = 0 /\ Unit(r).level = 0
      BY <1>3, <1>6, <2>2
    <2>3. CASE Unit(q).level > 0 /\ Unit(r).level = 0
      BY <1>2, <1>3, <1>6, <2>3
    <2>4. CASE Unit(q).level = 0 /\ Unit(r).level > 0
      BY <1>2, <1>3, <1>6, <2>4
    <2>5. QED
      BY <1>4, <2>1, <2>2, <2>3, <2>4
  <1>7. QED
    BY <1>5, <1>6

\* Boundary matching gives every unit a code of its own that extends its
\* parent's, whether a match, the second pass or the numbering
\* (generate_unique_code_for_new_entities) gave it: for any layer files,
\* provided the codes of earlier revisions were so.
THEOREM CodesMatched == Spec => []MatchedCodes
  <1>1. Init => CodeInv
    BY InitCode
  <1>2. CodeInv /\ [Next]_vars => CodeInv'
    BY NextCode
  <1>3. CodeInv => MatchedCodes
    BY CodeInvImplies
  <1>4. QED
    BY <1>1, <1>2, <1>3, PTL DEF Spec
=============================================================================
