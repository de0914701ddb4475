---------------------------- MODULE Sharing_proofs ----------------------------
(***************************************************************************)
(* Permissions and cached answers for any number of views, levels, changes *)
(* and tile requests, in any interleaving of their statements: whoever was *)
(* given a role has that role, nobody is left out, and cached answers are  *)
(* right where the changes delete them.                                    *)
(***************************************************************************)
EXTENDS Sharing, FiniteSetTheorems, SequenceTheorems, TLAPS

-----------------------------------------------------------------------------
(* Plans                                                                   *)

Perm == DatasetPerm \cup ViewPerm
Plain == {P("own"), P("manage"), P("view")}
Reset == <<"reset", P("none")>>
Ops(S) == {"remove", "assign"} \X S
Op == Ops(Perm) \cup {Reset}

\* Permissions are removed first and assigned then; cached answers go last.
Ordered(plan) ==
    \A i, j \in DOMAIN plan : i < j =>
      <<plan[i][1], plan[j][1]>> \notin
        {<<"assign", "remove">>, <<"reset", "remove">>, <<"reset", "assign">>}

Removed(plan) == {p \in Perm : <<"remove", p>> \in Range(plan)}
Assigned(plan) == {p \in Perm : <<"assign", p>> \in Range(plan)}

\* What S becomes when nobody else changes it
Outcome(S, plan) == (S \ Removed(plan)) \cup Assigned(plan)

\* A plan that takes anything away still gives p, or still deletes answers.
Returns(plan, p) == Removed(plan) # {} => p \in Assigned(plan)
Cleans(plan) == Removed(plan) \cup Assigned(plan) # {} => Reset \in Range(plan)

-----------------------------------------------------------------------------
(* Levels and permissions                                                  *)

ReadPerm == {Read(l) : l \in Level}
ExtPerm == {Ext(l) : l \in Level}

\* The levels are 1, 2, ... without a gap, and Top is the last.
LEMMA Levels == Top \in Level /\ Level = 1 .. Top
<1> DEFINE C == Cardinality(Level)
<1>1. C \in Nat /\ 1 .. 1 \subseteq Level
  BY SharingAssumption, FS_CardinalityType
<1>2. ASSUME NEW l \in Level PROVE l \in Nat /\ 1 .. l \subseteq Level /\ 1 <= l /\ l <= C
  <2>1. l \in Nat /\ 1 .. l \subseteq Level /\ 1 <= l
    BY SharingAssumption
  <2>2. Cardinality(1 .. l) = l
    BY <2>1, FS_Interval
  <2>3. Cardinality(1 .. l) <= C
    BY <2>1, SharingAssumption, FS_Subset
  <2> QED BY <2>1, <2>2, <2>3
<1>3. Level \subseteq 1 .. C
  BY <1>1, <1>2
<1>4. C \in Level
  <2> SUFFICES ASSUME C \notin Level PROVE FALSE
    OBVIOUS
  <2>1. 1 \in Level /\ 1 <= C
    BY <1>2, SharingAssumption
  <2>2. Level \subseteq 1 .. (C - 1)
    BY <1>1, <1>3
  <2>3. IsFiniteSet(1 .. (C - 1)) /\ Cardinality(1 .. (C - 1)) = C - 1
    BY <1>1, <2>1, FS_Interval
  <2>4. C <= C - 1
    BY <2>2, <2>3, FS_Subset
  <2> QED BY <1>1, <2>4
<1>5. \A l \in Level : l <= C
  BY <1>2
<1>6. \A n \in Level : (\A l \in Level : l <= n) => n = C
  BY <1>1, <1>2, <1>4, <1>5
<1>7. Top = C
  BY <1>4, <1>5, <1>6 DEF Top
<1> HIDE DEF C
<1> QED
  BY <1>2, <1>3, <1>4, <1>7

\* No permission is another.
LEMMA Permissions ==
  /\ DatasetPerm = {P("delete"), P("add_view"), P("upload")} \cup ReadPerm
  /\ ViewPerm = Plain \cup ExtPerm
  /\ Plain \cap ExtPerm = {} /\ Plain \subseteq Perm /\ ExtPerm \subseteq Perm
  /\ DatasetPerm \subseteq Perm /\ DatasetPerm \cap ViewPerm = {}
  /\ P("delete") \notin ReadPerm /\ P("add_view") \notin ReadPerm /\ P("upload") \notin ReadPerm
  /\ P("delete") # P("add_view") /\ P("delete") # P("upload") /\ P("add_view") # P("upload")
  /\ P("own") # P("manage") /\ P("own") # P("view") /\ P("manage") # P("view")
  /\ Read(1) \in ReadPerm
<1>1. 1 \in Level
  BY SharingAssumption
<1>2. DatasetPerm = {P("delete"), P("add_view"), P("upload")} \cup ReadPerm
  BY DEF DatasetPerm, ReadPerm
<1>3. ViewPerm = Plain \cup ExtPerm
  BY DEF ViewPerm, Plain, ExtPerm
<1>4. \A a, b : P(a) = P(b) => a = b
  BY DEF P
<1>5. \A n, l : Read(l) # Ext(n) /\ (\A a : a # "read" => P(a) # Read(l))
                  /\ (\A a : a # "ext" => P(a) # Ext(l))
  BY DEF P, Read, Ext
<1>6. ReadPerm \cap ExtPerm = {} /\ ReadPerm \cap Plain = {} /\ Plain \cap ExtPerm = {}
  BY <1>5 DEF ReadPerm, ExtPerm, Plain
<1>7. /\ {P("delete"), P("add_view"), P("upload")} \cap ReadPerm = {}
      /\ {P("delete"), P("add_view"), P("upload")} \cap ExtPerm = {}
      /\ {P("delete"), P("add_view"), P("upload")} \cap Plain = {}
  BY <1>4, <1>5 DEF ReadPerm, ExtPerm, Plain
<1>8. /\ P("delete") # P("add_view") /\ P("delete") # P("upload") /\ P("add_view") # P("upload")
      /\ P("own") # P("manage") /\ P("own") # P("view") /\ P("manage") # P("view")
  BY <1>4
<1>9. Read(1) \in ReadPerm
  BY <1>1 DEF ReadPerm
<1> QED
  BY <1>2, <1>3, <1>6, <1>7, <1>8, <1>9 DEF Perm

\* The permissions of each role
LEMMA DatasetLists ==
  /\ Range(Reads(Top)) = ReadPerm
  /\ \A l \in Level : Reads(l) \in Seq(ReadPerm) /\ Read(1) \in Range(Reads(l))
  /\ WriteDataset \in Seq(DatasetPerm) /\ Range(WriteDataset) = {P("upload")} \cup ReadPerm
  /\ ManageDataset \in Seq(DatasetPerm)
  /\ Range(ManageDataset) = {P("add_view"), P("upload")} \cup ReadPerm
  /\ OwnDataset \in Seq(DatasetPerm) /\ Range(OwnDataset) = DatasetPerm
<1>1. \A l \in Level : l \in Nat /\ 1 .. l \subseteq Level /\ 1 \in 1 .. l
  BY SharingAssumption
<1>2. ASSUME NEW l \in Level PROVE Reads(l) \in Seq(ReadPerm) /\ Read(1) \in Range(Reads(l))
  <2>1. \A i \in 1 .. l : Read(i) \in ReadPerm
    BY <1>1 DEF ReadPerm
  <2>2. Reads(l) \in Seq(ReadPerm)
    BY <1>1, <2>1 DEF Reads
  <2>3. DOMAIN Reads(l) = 1 .. l /\ Reads(l)[1] = Read(1)
    BY <1>1 DEF Reads
  <2> QED BY <1>1, <2>2, <2>3 DEF Range
<1>3. Range(Reads(Top)) = ReadPerm
  BY Levels DEF Range, Reads, ReadPerm
<1>4. ReadPerm \subseteq DatasetPerm /\ {P("delete"), P("add_view"), P("upload")} \subseteq DatasetPerm
  BY Permissions
<1>5. Reads(Top) \in Seq(DatasetPerm)
  BY <1>2, <1>4, Levels, SeqMonotonic
<1>6. ASSUME NEW x \in DatasetPerm, NEW s \in Seq(DatasetPerm)
      PROVE <<x>> \o s \in Seq(DatasetPerm) /\ Range(<<x>> \o s) = {x} \cup Range(s)
  <2>1. <<x>> \in Seq(DatasetPerm) /\ Range(<<x>>) = {x}
    BY DEF Range
  <2>2. <<x>> \o s \in Seq(DatasetPerm)
    BY <2>1, ConcatProperties
  <2>3. Range(<<x>> \o s) = Range(<<x>>) \cup Range(s)
    BY <2>1, RangeConcatenation
  <2> QED BY <2>1, <2>2, <2>3
<1>7. WriteDataset \in Seq(DatasetPerm) /\ Range(WriteDataset) = {P("upload")} \cup ReadPerm
  BY <1>3, <1>4, <1>5, <1>6 DEF WriteDataset
<1>8. /\ ManageDataset \in Seq(DatasetPerm)
      /\ Range(ManageDataset) = {P("add_view"), P("upload")} \cup ReadPerm
  <2>1. /\ <<P("add_view")>> \o WriteDataset \in Seq(DatasetPerm)
        /\ Range(<<P("add_view")>> \o WriteDataset) = {P("add_view")} \cup Range(WriteDataset)
    BY <1>4, <1>6, <1>7
  <2> QED BY <1>7, <2>1 DEF ManageDataset
<1>9. OwnDataset \in Seq(DatasetPerm) /\ Range(OwnDataset) = DatasetPerm
  <2>1. /\ <<P("delete")>> \o ManageDataset \in Seq(DatasetPerm)
        /\ Range(<<P("delete")>> \o ManageDataset) = {P("delete")} \cup Range(ManageDataset)
    BY <1>4, <1>6, <1>8
  <2>2. {P("delete")} \cup Range(ManageDataset) = DatasetPerm
    BY <1>8, Permissions
  <2> QED BY <2>1, <2>2 DEF OwnDataset
<1> QED
  BY <1>2, <1>3, <1>7, <1>8, <1>9

LEMMA ViewLists ==
  /\ ReadView \in Seq(Plain) /\ Range(ReadView) = {P("view")}
  /\ ManageView \in Seq(Plain) /\ Range(ManageView) = {P("manage"), P("view")}
  /\ OwnView \in Seq(Plain) /\ Range(OwnView) = Plain
  /\ Range(Exts(Top)) = ExtPerm /\ Range(Exts(0)) = {}
  /\ \A l \in Level \cup {0} : Exts(l) \in Seq(ExtPerm)
<1>1. \A l \in Level \cup {0} : l \in Nat /\ 1 .. l \subseteq Level
  BY SharingAssumption
<1>2. ASSUME NEW l \in Level \cup {0} PROVE Exts(l) \in Seq(ExtPerm)
  <2>1. \A i \in 1 .. l : Ext(i) \in ExtPerm
    BY <1>1 DEF ExtPerm
  <2> QED BY <1>1, <2>1 DEF Exts
<1>3. Range(Exts(Top)) = ExtPerm /\ Range(Exts(0)) = {}
  BY Levels DEF Range, Exts, ExtPerm
<1>4. ASSUME NEW x \in Plain, NEW s \in Seq(Plain)
      PROVE <<x>> \o s \in Seq(Plain) /\ Range(<<x>> \o s) = {x} \cup Range(s)
  <2>1. <<x>> \in Seq(Plain) /\ Range(<<x>>) = {x}
    BY DEF Range
  <2>2. <<x>> \o s \in Seq(Plain)
    BY <2>1, ConcatProperties
  <2>3. Range(<<x>> \o s) = Range(<<x>>) \cup Range(s)
    BY <2>1, RangeConcatenation
  <2> QED BY <2>1, <2>2, <2>3
<1>5. P("own") \in Plain /\ P("manage") \in Plain /\ P("view") \in Plain
  BY DEF Plain
<1>6. ReadView \in Seq(Plain) /\ Range(ReadView) = {P("view")}
  BY <1>5 DEF ReadView, Range
<1>7. ManageView \in Seq(Plain) /\ Range(ManageView) = {P("manage"), P("view")}
  BY <1>4, <1>5, <1>6 DEF ManageView
<1>8. OwnView \in Seq(Plain) /\ Range(OwnView) = Plain
  <2>1. /\ <<P("own")>> \o ManageView \in Seq(Plain)
        /\ Range(<<P("own")>> \o ManageView) = {P("own")} \cup Range(ManageView)
    BY <1>4, <1>5, <1>7
  <2> QED BY <1>7, <2>1 DEF OwnView, Plain
<1> QED
  BY <1>2, <1>3, <1>6, <1>7, <1>8

LEMMA RoleLists ==
  ASSUME NEW role \in Role
  PROVE  \/ role = NoRole /\ DatasetList(role) = <<>> /\ ViewList(role) = <<>>
         \/ /\ role[1] = "viewer" /\ role[2] \in Level /\ role = Viewer(role[2])
            /\ DatasetList(role) = Reads(role[2]) /\ ViewList(role) = ReadView
         \/ role[1] = "writer" /\ DatasetList(role) = WriteDataset /\ ViewList(role) = ManageView
         \/ role[1] = "manager" /\ DatasetList(role) = ManageDataset /\ ViewList(role) = ManageView
         \/ role[1] = "owner" /\ DatasetList(role) = OwnDataset /\ ViewList(role) = OwnView
<1>1. \/ role = NoRole /\ role[1] = "none"
      \/ role[1] = "viewer" /\ role[2] \in Level /\ role = Viewer(role[2])
      \/ role[1] = "writer" \/ role[1] = "manager" \/ role[1] = "owner"
  BY DEF Role, NoRole, Viewer
<1> QED
  BY <1>1 DEF DatasetList, ViewList

LEMMA RolePermissions ==
  ASSUME NEW role \in Role
  PROVE  /\ DatasetList(role) \in Seq(DatasetPerm) /\ ViewList(role) \in Seq(Plain)
         /\ Range(DatasetList(role)) \subseteq DatasetPerm /\ Range(ViewList(role)) \subseteq Plain
         /\ role = NoRole => Range(DatasetList(role)) = {} /\ Range(ViewList(role)) = {}
         /\ role # NoRole => /\ Read(1) \in Range(DatasetList(role))
                             /\ P("view") \in Range(ViewList(role))
<1>1. Reads(Top) \in Seq(ReadPerm) /\ ReadPerm \subseteq DatasetPerm
  BY DatasetLists, Levels, Permissions
<1>2. /\ <<>> \in Seq(DatasetPerm) /\ <<>> \in Seq(Plain) /\ Range(<<>>) = {}
      /\ NoRole[1] = "none"
  BY DEF Range, NoRole
<1>3. \A l \in Level : Reads(l) \in Seq(DatasetPerm) /\ Read(1) \in Range(Reads(l))
  BY <1>1, DatasetLists, SeqMonotonic
<1>4. DatasetList(role) \in Seq(DatasetPerm) /\ ViewList(role) \in Seq(Plain)
  BY <1>2, <1>3, RoleLists, DatasetLists, ViewLists
<1>5. Range(DatasetList(role)) \subseteq DatasetPerm /\ Range(ViewList(role)) \subseteq Plain
  BY <1>4, RangeOfSeq
<1>6. role = NoRole => Range(DatasetList(role)) = {} /\ Range(ViewList(role)) = {}
  BY <1>2, RoleLists
<1>7. role # NoRole => Read(1) \in Range(DatasetList(role)) /\ P("view") \in Range(ViewList(role))
  <2>1. Read(1) \in Range(WriteDataset) /\ Read(1) \in Range(ManageDataset)
        /\ Read(1) \in Range(OwnDataset)
    BY DatasetLists, Permissions
  <2>2. /\ P("view") \in Range(ReadView) /\ P("view") \in Range(ManageView)
        /\ P("view") \in Range(OwnView)
    BY ViewLists DEF Plain
  <2> QED BY <1>3, <2>1, <2>2, RoleLists
<1> QED
  BY <1>4, <1>5, <1>6, <1>7

-----------------------------------------------------------------------------
(* How plans are made and carried out                                      *)

\* A plan to remove R and to assign A, which deletes answers if z = {Reset}
Shaped(plan, R, A, z) ==
    /\ plan \in Seq(Op) /\ Ordered(plan)
    /\ Range(plan) = ({"remove"} \X R) \cup ({"assign"} \X A) \cup z

LEMMA ShapedPlan ==
  ASSUME NEW plan, NEW R \in SUBSET Perm, NEW A \in SUBSET Perm, NEW z,
         z = {} \/ z = {Reset}, Shaped(plan, R, A, z)
  PROVE  /\ plan \in Seq(Op) /\ Ordered(plan)
         /\ Removed(plan) = R /\ Assigned(plan) = A
         /\ Reset \in Range(plan) <=> z = {Reset}
         /\ Range(plan) \subseteq Ops(R \cup A) \cup z
<1>1. \A p, q : <<"remove", p>> # Reset /\ <<"assign", p>> # Reset /\ <<"remove", p>> # <<"assign", q>>
  BY DEF Reset
<1>2. \A p : /\ <<"remove", p>> \in Range(plan) <=> p \in R
             /\ <<"assign", p>> \in Range(plan) <=> p \in A
  BY <1>1 DEF Shaped
<1>3. Reset \in Range(plan) <=> z = {Reset}
  BY <1>1 DEF Shaped
<1>4. Range(plan) \subseteq Ops(R \cup A) \cup z
  BY DEF Shaped, Ops
<1> QED
  BY <1>2, <1>3, <1>4 DEF Shaped, Removed, Assigned

\* Two ordered plans, the first of which only holds what comes before
LEMMA OrderedConcat ==
  ASSUME NEW a \in Seq(Op), NEW b \in Seq(Op), Ordered(a), Ordered(b),
         \A x \in Range(a), y \in Range(b) :
           <<x[1], y[1]>> \notin
             {<<"assign", "remove">>, <<"reset", "remove">>, <<"reset", "assign">>}
  PROVE  a \o b \in Seq(Op) /\ Ordered(a \o b) /\ Range(a \o b) = Range(a) \cup Range(b)
<1> DEFINE c == a \o b
           Late == {<<"assign", "remove">>, <<"reset", "remove">>, <<"reset", "assign">>}
<1>1. /\ c \in Seq(Op) /\ Len(c) = Len(a) + Len(b)
      /\ \A i \in 1 .. Len(a) + Len(b) : c[i] = IF i <= Len(a) THEN a[i] ELSE b[i - Len(a)]
  BY ConcatProperties
<1>2. /\ Len(a) \in Nat /\ DOMAIN a = 1 .. Len(a) /\ Len(b) \in Nat /\ DOMAIN b = 1 .. Len(b)
      /\ DOMAIN c = 1 .. Len(c)
  BY <1>1, LenProperties
<1>3. Range(c) = Range(a) \cup Range(b)
  BY RangeConcatenation
<1> HIDE DEF c
<1>4. ASSUME NEW i \in DOMAIN c, NEW j \in DOMAIN c, i < j
      PROVE <<c[i][1], c[j][1]>> \notin Late
  <2>1. i \in 1 .. Len(a) + Len(b) /\ j \in 1 .. Len(a) + Len(b)
    BY <1>1, <1>2
  <2>2. CASE j <= Len(a)
    <3>1. i \in DOMAIN a /\ j \in DOMAIN a /\ c[i] = a[i] /\ c[j] = a[j]
      BY <1>1, <1>2, <1>4, <2>1, <2>2
    <3> QED BY <1>4, <3>1 DEF Ordered
  <2>3. CASE i > Len(a)
    <3> DEFINE k == i - Len(a)
               m == j - Len(a)
    <3>1. k \in DOMAIN b /\ m \in DOMAIN b /\ k < m /\ c[i] = b[k] /\ c[j] = b[m]
      BY <1>1, <1>2, <1>4, <2>1, <2>3
    <3> HIDE DEF k, m
    <3> QED BY <3>1 DEF Ordered
  <2>4. CASE i <= Len(a) /\ j > Len(a)
    <3> DEFINE m == j - Len(a)
    <3>1. i \in DOMAIN a /\ m \in DOMAIN b /\ c[i] = a[i] /\ c[j] = b[m]
      BY <1>1, <1>2, <1>4, <2>1, <2>4
    <3> HIDE DEF m
    <3>2. c[i] \in Range(a) /\ c[j] \in Range(b)
      BY <3>1 DEF Range
    <3> QED BY <3>2
  <2> QED BY <1>2, <2>1, <2>2, <2>3, <2>4
<1>5. Ordered(c)
  BY <1>4 DEF Ordered
<1> QED
  BY <1>1, <1>3, <1>5 DEF c

LEMMA Plans ==
  ASSUME NEW r \in Seq(Perm), NEW a \in Seq(Perm)
  PROVE  /\ Shaped(<<>>, {}, {}, {})
         /\ Shaped(Removes(r), Range(r), {}, {})
         /\ Shaped(Assigns(a), {}, Range(a), {})
         /\ Shaped(Removes(r) \o Assigns(a), Range(r), Range(a), {})
         /\ Shaped(Removes(r) \o ResetCache, Range(r), {}, {Reset})
         /\ Shaped(Removes(r) \o Assigns(a) \o ResetCache, Range(r), Range(a), {Reset})
<1>1. Len(r) \in Nat /\ DOMAIN r = 1 .. Len(r) /\ Len(a) \in Nat /\ DOMAIN a = 1 .. Len(a)
  BY LenProperties
<1>2. /\ \A p \in Perm : <<"remove", p>> \in Op /\ <<"assign", p>> \in Op
      /\ Reset \in Op
  BY DEF Op, Ops
<1>3. (\A i \in DOMAIN r : r[i] \in Perm) /\ \A i \in DOMAIN a : a[i] \in Perm
  BY <1>1, ElementOfSeq
<1>4. Removes(r) \in Seq(Op) /\ Assigns(a) \in Seq(Op)
  <2>1. \A i \in 1 .. Len(r) : <<"remove", r[i]>> \in Op
    BY <1>1, <1>2, <1>3
  <2>2. \A i \in 1 .. Len(a) : <<"assign", a[i]>> \in Op
    BY <1>1, <1>2, <1>3
  <2>3. Removes(r) = [i \in 1 .. Len(r) |-> <<"remove", r[i]>>]
    BY <1>1 DEF Removes
  <2>4. Assigns(a) = [i \in 1 .. Len(a) |-> <<"assign", a[i]>>]
    BY <1>1 DEF Assigns
  <2>5. [i \in 1 .. Len(r) |-> <<"remove", r[i]>>] \in Seq(Op)
    BY <1>1, <2>1
  <2>6. [i \in 1 .. Len(a) |-> <<"assign", a[i]>>] \in Seq(Op)
    BY <1>1, <2>2
  <2> QED BY <2>3, <2>4, <2>5, <2>6
<1>5. Range(Removes(r)) = {"remove"} \X Range(r) /\ Range(Assigns(a)) = {"assign"} \X Range(a)
  BY DEF Removes, Assigns, Range
<1>6. ResetCache \in Seq(Op) /\ Range(ResetCache) = {Reset} /\ Ordered(ResetCache)
  <2>1. ResetCache = <<Reset>>
    BY DEF ResetCache, Reset
  <2>2. <<Reset>> \in Seq(Op) /\ DOMAIN <<Reset>> = {1} /\ <<Reset>>[1] = Reset
    BY <1>2
  <2> QED BY <2>1, <2>2 DEF Range, Ordered
<1>7. Ordered(Removes(r)) /\ Ordered(Assigns(a))
  BY DEF Ordered, Removes, Assigns
<1>8. <<>> \in Seq(Op) /\ Ordered(<<>>) /\ Range(<<>>) = {}
  BY DEF Ordered, Range
<1>9. /\ Removes(r) \o Assigns(a) \in Seq(Op) /\ Ordered(Removes(r) \o Assigns(a))
      /\ Range(Removes(r) \o Assigns(a)) = Range(Removes(r)) \cup Range(Assigns(a))
  <2>1. \A x \in Range(Removes(r)), y \in Range(Assigns(a)) : x[1] = "remove" /\ y[1] = "assign"
    BY <1>5
  <2>2. \A x \in Range(Removes(r)), y \in Range(Assigns(a)) :
          <<x[1], y[1]>> \notin
            {<<"assign", "remove">>, <<"reset", "remove">>, <<"reset", "assign">>}
    BY <2>1
  <2> QED BY <1>4, <1>7, <2>2, OrderedConcat
<1>10. \A x \in {Reset} : x[1] = "reset"
  BY DEF Reset
<1>11. ASSUME NEW s \in Seq(Op), Ordered(s), \A x \in Range(s) : x[1] \in {"remove", "assign"}
       PROVE /\ s \o ResetCache \in Seq(Op) /\ Ordered(s \o ResetCache)
             /\ Range(s \o ResetCache) = Range(s) \cup {Reset}
  <2>1. \A x \in Range(s), y \in Range(ResetCache) :
          <<x[1], y[1]>> \notin
            {<<"assign", "remove">>, <<"reset", "remove">>, <<"reset", "assign">>}
    BY <1>6, <1>10, <1>11
  <2> QED BY <1>6, <1>11, <2>1, OrderedConcat
<1>12. \A x \in Range(Removes(r)) \cup Range(Assigns(a)) : x[1] \in {"remove", "assign"}
  BY <1>5
<1>13. /\ Removes(r) \o ResetCache \in Seq(Op) /\ Ordered(Removes(r) \o ResetCache)
       /\ Range(Removes(r) \o ResetCache) = Range(Removes(r)) \cup {Reset}
  BY <1>4, <1>7, <1>11, <1>12
<1>14. /\ (Removes(r) \o Assigns(a)) \o ResetCache \in Seq(Op)
       /\ Ordered((Removes(r) \o Assigns(a)) \o ResetCache)
       /\ Range((Removes(r) \o Assigns(a)) \o ResetCache)
            = Range(Removes(r)) \cup Range(Assigns(a)) \cup {Reset}
  BY <1>9, <1>11, <1>12
<1>15. \A S : {"remove"} \X {} = {} /\ {"assign"} \X {} = {}
  OBVIOUS
<1>16. Shaped(<<>>, {}, {}, {})
  BY <1>8, <1>15 DEF Shaped
<1>17. Shaped(Removes(r), Range(r), {}, {}) /\ Shaped(Assigns(a), {}, Range(a), {})
  BY <1>4, <1>5, <1>7, <1>15 DEF Shaped
<1>18. Shaped(Removes(r) \o Assigns(a), Range(r), Range(a), {})
  BY <1>5, <1>9 DEF Shaped
<1>19. Shaped(Removes(r) \o ResetCache, Range(r), {}, {Reset})
  BY <1>5, <1>13, <1>15 DEF Shaped
<1>20. Shaped(Removes(r) \o Assigns(a) \o ResetCache, Range(r), Range(a), {Reset})
  BY <1>5, <1>14 DEF Shaped
<1> QED
  BY <1>16, <1>17, <1>18, <1>19, <1>20

\* What is left of a plan after its first operation
LEMMA FirstOperation ==
  ASSUME NEW plan \in Seq(Op), plan # <<>>, Ordered(plan)
  PROVE  LET op == Head(plan)
             rest == Tail(plan)
         IN  /\ rest \in Seq(Op) /\ Ordered(rest)
             /\ op \in Op /\ Range(plan) = {op} \cup Range(rest)
             /\ \/ /\ op[1] = "remove" /\ op[2] \in Perm /\ op = <<"remove", op[2]>>
                   /\ Removed(plan) = Removed(rest) \cup {op[2]}
                   /\ Assigned(plan) = Assigned(rest)
                   /\ Reset \in Range(plan) <=> Reset \in Range(rest)
                \/ /\ op[1] = "assign" /\ op[2] \in Perm /\ op = <<"assign", op[2]>>
                   /\ Removed(plan) = {} /\ Removed(rest) = {}
                   /\ Assigned(plan) = Assigned(rest) \cup {op[2]}
                   /\ Reset \in Range(plan) <=> Reset \in Range(rest)
                \/ /\ op[1] = "reset" /\ op = Reset /\ Reset \in Range(plan)
                   /\ Removed(plan) = {} /\ Removed(rest) = {}
                   /\ Assigned(plan) = {} /\ Assigned(rest) = {}
<1> DEFINE op == Head(plan)
           rest == Tail(plan)
           Late == {<<"assign", "remove">>, <<"reset", "remove">>, <<"reset", "assign">>}
<1>1. /\ op \in Op /\ rest \in Seq(Op) /\ Len(rest) = Len(plan) - 1
      /\ \A i \in 1 .. Len(rest) : rest[i] = plan[i + 1]
  BY HeadTailProperties
<1>2. /\ Len(plan) \in Nat /\ DOMAIN plan = 1 .. Len(plan) /\ Len(plan) # 0
      /\ Len(rest) \in Nat /\ DOMAIN rest = 1 .. Len(rest) /\ op = plan[1]
  BY <1>1, LenProperties, EmptySeq
<1> HIDE DEF op, rest
<1>3. ASSUME NEW i \in DOMAIN rest PROVE i + 1 \in DOMAIN plan /\ rest[i] = plan[i + 1] /\ 1 < i + 1
  BY <1>1, <1>2
<1>4. ASSUME NEW k \in DOMAIN plan, k # 1 PROVE k - 1 \in DOMAIN rest /\ rest[k - 1] = plan[k]
  BY <1>1, <1>2, <1>4
<1>5. Range(plan) = {op} \cup Range(rest)
  <2>1. ASSUME NEW k \in DOMAIN plan PROVE plan[k] \in {op} \cup Range(rest)
    BY <1>2, <1>4 DEF Range
  <2>2. 1 \in DOMAIN plan
    BY <1>2
  <2>3. ASSUME NEW i \in DOMAIN rest PROVE rest[i] \in Range(plan)
    BY <1>3 DEF Range
  <2> QED BY <1>2, <2>1, <2>2, <2>3 DEF Range
<1>6. Ordered(rest)
  <2> SUFFICES ASSUME NEW i \in DOMAIN rest, NEW j \in DOMAIN rest, i < j
               PROVE <<rest[i][1], rest[j][1]>> \notin Late
    BY DEF Ordered
  <2>1. i + 1 \in DOMAIN plan /\ j + 1 \in DOMAIN plan /\ i + 1 < j + 1
    BY <1>2, <1>3
  <2> QED BY <1>3, <2>1 DEF Ordered
<1>7. ASSUME NEW x \in Range(rest) PROVE <<op[1], x[1]>> \notin Late
  <2>1. PICK i \in DOMAIN rest : x = rest[i]
    BY DEF Range
  <2>2. i + 1 \in DOMAIN plan /\ 1 \in DOMAIN plan /\ 1 < i + 1 /\ x = plan[i + 1]
    BY <1>2, <1>3, <2>1
  <2> QED BY <1>2, <2>2 DEF Ordered
<1>8. \/ op[1] = "remove" /\ op[2] \in Perm /\ op = <<"remove", op[2]>>
      \/ op[1] = "assign" /\ op[2] \in Perm /\ op = <<"assign", op[2]>>
      \/ op[1] = "reset" /\ op = Reset
  BY <1>1 DEF Op, Ops, Reset
<1>9. \A p : /\ <<"remove", p>>[1] = "remove" /\ <<"assign", p>>[1] = "assign"
             /\ \A q : <<"remove", p>> # <<"assign", q>>
             /\ \A q : (<<"remove", p>> = <<"remove", q>> => p = q)
                       /\ (<<"assign", p>> = <<"assign", q>> => p = q)
             /\ <<"remove", p>> # Reset /\ <<"assign", p>> # Reset
  BY DEF Reset
<1>10. op[1] \in {"assign", "reset"} => Removed(rest) = {}
  BY <1>7, <1>9 DEF Removed
<1>11. op[1] = "reset" => Assigned(rest) = {}
  BY <1>7, <1>9 DEF Assigned
<1>12. CASE op[1] = "remove" /\ op[2] \in Perm /\ op = <<"remove", op[2]>>
  <2>1. Removed(plan) = Removed(rest) \cup {op[2]} /\ Assigned(plan) = Assigned(rest)
    BY <1>5, <1>9, <1>12 DEF Removed, Assigned
  <2>2. Reset \in Range(plan) <=> Reset \in Range(rest)
    BY <1>5, <1>9, <1>12
  <2> QED BY <1>1, <1>5, <1>6, <1>12, <2>1, <2>2 DEF op, rest
<1>13. CASE op[1] = "assign" /\ op[2] \in Perm /\ op = <<"assign", op[2]>>
  <2>1. Removed(plan) = Removed(rest) /\ Assigned(plan) = Assigned(rest) \cup {op[2]}
    BY <1>5, <1>9, <1>13 DEF Removed, Assigned
  <2>2. Reset \in Range(plan) <=> Reset \in Range(rest)
    BY <1>5, <1>9, <1>13
  <2> QED BY <1>1, <1>5, <1>6, <1>10, <1>13, <2>1, <2>2 DEF op, rest
<1>14. CASE op[1] = "reset" /\ op = Reset
  <2>1. Removed(plan) = Removed(rest) /\ Assigned(plan) = Assigned(rest)
    BY <1>5, <1>9, <1>14 DEF Removed, Assigned
  <2> QED BY <1>1, <1>5, <1>6, <1>10, <1>11, <1>14, <2>1 DEF op, rest
<1> QED
  BY <1>8, <1>12, <1>13, <1>14

-----------------------------------------------------------------------------
(* Types, and what a plan may hold                                         *)

RequestState ==
    [kind : {"none", "grant", "revoke", "downgrade", "external", "create"},
     pc : {"idle", "done", "dataset", "views", "created", "found"},
     role : Role, on : {"dataset"} \cup View, plan : Seq(Op), todo : SUBSET View,
     sole : BOOLEAN]

CheckState ==
    [pc : {"idle", "read"}, resource : Resource \cup {<<>>},
     answer : {"none", "yes", "no"}, dirty : BOOLEAN]

Shares(q) == Active(q) /\ SharesDataset(q)
Viewing(q) == request[q].role[1] = "viewer"

PlanSound(q) ==
    LET turn == request[q]
        plan == turn.plan
    IN  /\ Ordered(plan)
        /\ turn.pc \in {"idle", "done", "created", "found"} => plan = <<>>
        /\ turn.pc = "dataset" =>
             /\ Range(plan) \subseteq Ops(DatasetPerm)
             /\ turn.kind = "grant" => Returns(plan, Read(1))
             /\ turn.kind \in {"revoke", "downgrade"} => Assigned(plan) = {}
        /\ turn.pc = "views" =>
             /\ turn.on = "dataset" => plan = <<>>
             /\ turn.kind = "external" =>
                  /\ Range(plan) \subseteq Ops(ExtPerm) \cup {Reset}
                  /\ Cleans(plan)
             /\ turn.kind # "external" => Range(plan) \subseteq Ops(Plain) \cup {Reset}
             /\ turn.kind \in {"grant", "create"} => Returns(plan, P("view"))
             /\ turn.kind = "grant" /\ Viewing(q) => Cleans(plan)
             /\ turn.kind \in {"revoke", "downgrade"} => Cleans(plan)

RequestSound(q) ==
    LET turn == request[q]
    IN  /\ turn.pc \in {"idle", "done"} => turn.todo = {}
        /\ turn.pc = "dataset" => SharesDataset(q) /\ turn.on = "dataset" /\ turn.todo = {}
        /\ turn.pc = "views" => turn.kind # "none" /\ turn.todo \subseteq views
        /\ turn.pc \in {"created", "found"} => turn.kind = "create"
        /\ turn.kind \in {"external", "create"} => turn.todo = {} /\ turn.on \in views
        /\ turn.on \in View => turn.on \in views /\ turn.on \notin turn.todo
        /\ turn.kind = "grant" => turn.role # NoRole
        /\ turn.kind \in {"revoke", "external"} => turn.role = NoRole
        /\ turn.kind = "downgrade" => turn.role = Viewer(1)

CheckSound(c) ==
    check[c].pc = "read" =>
      /\ check[c].resource \in Resource /\ check[c].resource[1] \in views
      /\ check[c].dirty \/ check[c].answer = Answer(check[c].resource)

RequestsInv ==
    /\ request \in [Request -> RequestState] /\ Old \subseteq views
    /\ \A q \in Request : RequestSound(q) /\ PlanSound(q)
    /\ \A p, q \in Request :
         Active(p) /\ Active(q) /\ Creates(p) /\ Creates(q)
           /\ request[p].on = request[q].on => p = q

ChecksInv ==
    /\ check \in [Check -> CheckState]
    /\ \A c \in Check : CheckSound(c)
    /\ \A x \in Resource : x[1] \notin views => cache[x] = "none"

TypesInv == TypeOK /\ RequestsInv /\ ChecksInv

-----------------------------------------------------------------------------
(* One change of the dataset after the other: the role is whole            *)

DatasetInv ==
    intended # Unknown =>
      /\ \A p, q \in Request : Shares(p) /\ Shares(q) => p = q
      /\ (\A q \in Request : ~ Shares(q)) => dperm = Range(DatasetList(intended))
      /\ \A q \in Request : Shares(q) =>
           /\ request[q].role = intended
           /\ request[q].kind # "downgrade" =>
                Range(DatasetList(intended)) =
                  IF request[q].pc = "dataset" THEN Outcome(dperm, request[q].plan)
                  ELSE dperm

\* The permissions that follow from the role on a view
Follows(v, S) ==
    LET has == S \cap Range(OwnView)
    IN  \/ has = Range(ViewList(intended))
        \/ intended[1] = "owner" /\ v \notin Old /\ has = Range(ManageView)

\* A request will turn to v, or is at it.
Comes(q, v) ==
    \/ Shares(q) /\ \/ request[q].kind = "downgrade" \/ request[q].pc = "dataset"
                    \/ v \in request[q].todo
    \/ Creates(q) /\ request[q].pc \in {"created", "found"} /\ request[q].on = v

Is(q, v) ==
    /\ Active(q) /\ request[q].pc = "views" /\ request[q].on = v
    /\ request[q].kind \in {"grant", "revoke", "create"}

\* Of own, manage and view each one comes with the next.
Nested(S) ==
    /\ P("own") \in S => P("manage") \in S
    /\ P("manage") \in S => P("view") \in S

\* v has what follows from the role, or a request sees to it.
Served(v) ==
    (\E q \in Request : Comes(q, v) \/ Is(q, v)) \/ Follows(v, vperm[v])

\* What q will do to v is right.
Right(q, v) ==
    /\ Is(q, v) => Follows(v, Outcome(vperm[v], request[q].plan))
    /\ request[q].kind = "revoke" /\ Comes(q, v) => Nested(vperm[v])
    /\ Creates(q) /\ Comes(q, v) =>
         /\ v \notin Old /\ vperm[v] \cap Plain = {}
         /\ request[q].pc = "found" => intended # NoRole

ViewsInv ==
    intended # Unknown /\ aligned =>
      /\ \A p, q \in Request : Shares(p) => ~ (Active(q) /\ Creates(q))
      /\ \A v \in views : Served(v)
      /\ \A q \in Request, v \in views : Right(q, v)

-----------------------------------------------------------------------------
(* Any overlap of grants: nobody is left out                               *)

\* A request will let the user read the dataset, or see v.
Gives(q) ==
    Shares(q) /\ \/ request[q].kind = "downgrade"
                 \/ /\ request[q].kind = "grant" /\ request[q].pc = "dataset"
                    /\ Read(1) \in Assigned(request[q].plan)

GrantShows(q, v) ==
    /\ Active(q) /\ request[q].kind = "grant"
    /\ \/ request[q].pc = "dataset" \/ v \in request[q].todo
       \/ request[q].on = v /\ P("view") \in Assigned(request[q].plan)

Shows(q, v) ==
    \/ Shares(q) /\ request[q].kind = "downgrade"
    \/ GrantShows(q, v)
    \/ /\ Active(q) /\ Creates(q) /\ request[q].on = v
       /\ request[q].pc \in {"created", "found"} \/ P("view") \in Assigned(request[q].plan)

Readable == Read(1) \in dperm \/ \E q \in Request : Gives(q)
Visible(v) == P("view") \in vperm[v] \/ \E q \in Request : Shows(q, v)
Downgrades(q) == Shares(q) /\ request[q].kind = "downgrade"

SharedInv ==
    shared = "yes" =>
      /\ \A q \in Request : Active(q) => request[q].kind # "revoke"
      /\ \A p, q \in Request : Downgrades(q) /\ p # q =>
           ~ Shares(p) /\ ~ (Active(p) /\ Creates(p))
      /\ Readable
      /\ \A v \in views : Visible(v)

-----------------------------------------------------------------------------
(* Cached answers                                                          *)

\* A request will delete the cached answers of v.
Resets(q, v) ==
    /\ Active(q)
    /\ \/ request[q].on = v /\ Reset \in Range(request[q].plan)
       \/ request[q].kind = "downgrade"
       \/ request[q].kind = "grant" /\ Viewing(q)
          /\ (request[q].pc = "dataset" \/ v \in request[q].todo)
       \/ request[q].kind = "revoke" /\ P("view") \in vperm[v]
          /\ (request[q].pc = "dataset" \/ v \in request[q].todo)

\* The answers of v are, or when a request ends will be, held to be right.
Claims(q, v) ==
    /\ Active(q) /\ request[q].sole
    /\ \/ request[q].kind = "external" /\ request[q].on = v
       \/ request[q].kind \in {"grant", "downgrade"} /\ Viewing(q)

Claimed(v) == v \in coherent \/ \E q \in Request : Claims(q, v)

\* What is held to be right is right, or will be deleted.
AnswersInv ==
    \A x \in Resource : x[1] \in views \ tainted /\ Claimed(x[1]) =>
      \/ cache[x] \in {"none", Answer(x)}
      \/ \E q \in Request : Resets(q, x[1])

\* Beside a change that was never disturbed there are only creations.
SoleInv ==
    /\ \A q \in Request : Creates(q) => ~ request[q].sole
    /\ \A p, q \in Request : Active(p) /\ Active(q) /\ request[q].sole /\ p # q => Creates(p)

GrantsInv ==
    \A q \in Request : Active(q) /\ request[q].kind = "grant" /\ ~ Viewing(q) => coherent = {}

\* v is seen by the user, so a revocation deletes its answers, or else it
\* takes nothing away that they depend on.
Spared(v) ==
    \/ P("view") \in vperm[v] \/ dperm = {}
    \/ \E p \in Request : GrantShows(p, v) /\ Viewing(p)

Revokes(q) == Active(q) /\ request[q].kind = "revoke"

RevocationsInv ==
    \A q \in Request : Revokes(q) =>
      /\ \A p \in Request : Revokes(p) \/ Downgrades(p) => p = q \/ coherent = {}
      /\ \A p \in Request : Active(p) /\ Creates(p) => request[p].on \notin coherent
      /\ request[q].pc = "dataset" => \A v \in coherent : Spared(v)

CacheInv == AnswersInv /\ SoleInv /\ GrantsInv /\ RevocationsInv

-----------------------------------------------------------------------------
(* The plans of the changes                                                *)

LEMMA PermSequences ==
  /\ \A s \in Seq(DatasetPerm) : s \in Seq(Perm) /\ Range(s) \subseteq DatasetPerm
  /\ \A s \in Seq(Plain) : s \in Seq(Perm) /\ Range(s) \subseteq Plain
  /\ \A s \in Seq(ExtPerm) : s \in Seq(Perm) /\ Range(s) \subseteq ExtPerm
  /\ \A s \in Seq(ReadPerm) : s \in Seq(Perm) /\ s \in Seq(DatasetPerm)
<1>1. DatasetPerm \subseteq Perm /\ Plain \subseteq Perm /\ ExtPerm \subseteq Perm
      /\ ReadPerm \subseteq DatasetPerm /\ ReadPerm \subseteq Perm
  BY Permissions
<1> QED
  BY <1>1, SeqMonotonic, RangeOfSeq

\* A grant leaves the permissions of the role, whatever there was.
LEMMA GrantDatasetPlan ==
  ASSUME NEW role \in Role, role # NoRole
  PROVE  LET plan == GrantDataset(role)
         IN  /\ plan \in Seq(Op) /\ Ordered(plan) /\ Range(plan) \subseteq Ops(DatasetPerm)
             /\ Read(1) \in Assigned(plan)
             /\ \A S \in SUBSET DatasetPerm : Outcome(S, plan) = Range(DatasetList(role))
<1> DEFINE plan == GrantDataset(role)
           R == IF role[1] = "owner" THEN {} ELSE DatasetPerm
           A == Range(DatasetList(role))
<1>1. /\ OwnDataset \in Seq(Perm) /\ Range(OwnDataset) = DatasetPerm
      /\ DatasetList(role) \in Seq(Perm) /\ A \subseteq DatasetPerm /\ Read(1) \in A
      /\ DatasetPerm \subseteq Perm
  BY PermSequences, DatasetLists, RolePermissions, Permissions
<1>2. role[1] = "owner" => DatasetList(role) = OwnDataset
  BY RoleLists DEF NoRole
<1>3. Shaped(plan, R, A, {})
  <2>1. CASE role[1] = "owner"
    BY <1>1, <1>2, <2>1, Plans DEF GrantDataset
  <2>2. CASE role[1] # "owner"
    <3>1. Shaped(Removes(OwnDataset) \o Assigns(DatasetList(role)), DatasetPerm, A, {})
      BY <1>1, Plans
    <3> QED BY <2>2, <3>1 DEF GrantDataset
  <2> QED BY <2>1, <2>2
<1>4. R \in SUBSET Perm /\ R \subseteq DatasetPerm /\ A \in SUBSET Perm
  BY <1>1
<1>5. (role[1] = "owner" => A = DatasetPerm) /\ (role[1] # "owner" => R = DatasetPerm)
  BY <1>1, <1>2
<1> HIDE DEF plan, R, A
<1>6. /\ plan \in Seq(Op) /\ Ordered(plan) /\ Removed(plan) = R /\ Assigned(plan) = A
      /\ Range(plan) \subseteq Ops(R \cup A) \cup {}
  BY <1>3, <1>4, ShapedPlan
<1>7. Range(plan) \subseteq Ops(DatasetPerm)
  BY <1>1, <1>4, <1>6 DEF Ops
<1>8. \A S \in SUBSET DatasetPerm : Outcome(S, plan) = A
  BY <1>1, <1>5, <1>6 DEF Outcome
<1> QED
  BY <1>1, <1>6, <1>7, <1>8 DEF plan, A

LEMMA GrantViewPlan ==
  ASSUME NEW role \in Role, role # NoRole
  PROVE  LET plan == GrantView(role)
         IN  /\ plan \in Seq(Op) /\ Ordered(plan) /\ Range(plan) \subseteq Ops(Plain) \cup {Reset}
             /\ P("view") \in Assigned(plan)
             /\ role[1] = "viewer" => Reset \in Range(plan)
             /\ \A S : Outcome(S, plan) \cap Plain = Range(ViewList(role))
<1> DEFINE plan == GrantView(role)
           R == IF role[1] = "owner" THEN {} ELSE Plain
           A == Range(ViewList(role))
           z == IF role[1] = "viewer" THEN {Reset} ELSE {}
<1>1. /\ OwnView \in Seq(Perm) /\ Range(OwnView) = Plain
      /\ ViewList(role) \in Seq(Perm) /\ A \subseteq Plain /\ P("view") \in A
      /\ Plain \subseteq Perm
  BY PermSequences, ViewLists, RolePermissions, Permissions
<1>2. \/ role[1] = "owner" /\ ViewList(role) = OwnView
      \/ role[1] = "viewer" /\ ViewList(role) = ReadView
      \/ role[1] \in {"writer", "manager"} /\ ViewList(role) = ManageView
  BY RoleLists
<1>3. Shaped(plan, R, A, z)
  <2>1. /\ Shaped(Assigns(ViewList(role)), {}, A, {})
        /\ Shaped(Removes(OwnView) \o Assigns(ViewList(role)), Plain, A, {})
        /\ Shaped(Removes(OwnView) \o Assigns(ViewList(role)) \o ResetCache, Plain, A, {Reset})
    BY <1>1, Plans
  <2>2. CASE role[1] = "owner"
    <3>1. plan = Assigns(ViewList(role)) /\ R = {} /\ z = {}
      BY <1>2, <2>2 DEF GrantView
    <3> QED BY <2>1, <3>1
  <2>3. CASE role[1] = "viewer"
    <3>1. plan = Removes(OwnView) \o Assigns(ViewList(role)) \o ResetCache
          /\ R = Plain /\ z = {Reset}
      BY <1>2, <2>3 DEF GrantView
    <3> QED BY <2>1, <3>1
  <2>4. CASE role[1] \in {"writer", "manager"}
    <3>1. plan = Removes(OwnView) \o Assigns(ViewList(role)) /\ R = Plain /\ z = {}
      BY <1>2, <2>4 DEF GrantView
    <3> QED BY <2>1, <3>1
  <2> QED BY <1>2, <2>2, <2>3, <2>4
<1>4. R \in SUBSET Perm /\ R \subseteq Plain /\ A \in SUBSET Perm /\ (z = {} \/ z = {Reset})
  BY <1>1
<1>5. (role[1] = "owner" => A = Plain) /\ (role[1] # "owner" => R = Plain)
      /\ (role[1] = "viewer" => z = {Reset})
  BY <1>1, <1>2
<1> HIDE DEF plan, R, A, z
<1>6. /\ plan \in Seq(Op) /\ Ordered(plan) /\ Removed(plan) = R /\ Assigned(plan) = A
      /\ Reset \in Range(plan) <=> z = {Reset}
      /\ Range(plan) \subseteq Ops(R \cup A) \cup z
  BY <1>3, <1>4, ShapedPlan
<1>7. Range(plan) \subseteq Ops(Plain) \cup {Reset}
  BY <1>1, <1>4, <1>6 DEF Ops
<1>8. \A S : Outcome(S, plan) \cap Plain = A
  BY <1>1, <1>5, <1>6 DEF Outcome
<1> QED
  BY <1>1, <1>5, <1>6, <1>7, <1>8 DEF plan, A

\* The highest role that is found includes all there is, after whole roles.
LEMMA RevokeDatasetPlan ==
  LET plan == RevokeDataset
  IN  /\ plan \in Seq(Op) /\ Ordered(plan) /\ Range(plan) \subseteq Ops(DatasetPerm)
      /\ Assigned(plan) = {}
      /\ \A role \in Role : dperm = Range(DatasetList(role)) => Outcome(dperm, plan) = {}
<1> DEFINE plan == RevokeDataset
           list == CASE P("delete") \in dperm -> OwnDataset
                     [] P("delete") \notin dperm /\ P("add_view") \in dperm -> ManageDataset
                     [] dperm \cap {P("delete"), P("add_view")} = {} /\ P("upload") \in dperm
                          -> WriteDataset
                     [] OTHER -> Reads(Top)
<1>1. plan = Removes(list)
  BY DEF RevokeDataset
<1>2. \/ P("delete") \in dperm /\ list = OwnDataset
      \/ P("delete") \notin dperm /\ P("add_view") \in dperm /\ list = ManageDataset
      \/ P("delete") \notin dperm /\ P("add_view") \notin dperm /\ P("upload") \in dperm
         /\ list = WriteDataset
      \/ P("delete") \notin dperm /\ P("add_view") \notin dperm /\ P("upload") \notin dperm
         /\ list = Reads(Top)
  OBVIOUS
<1> HIDE DEF plan, list
<1>3. Reads(Top) \in Seq(DatasetPerm)
  BY PermSequences, DatasetLists, Levels
<1>4. list \in Seq(DatasetPerm) /\ Range(list) \subseteq DatasetPerm /\ list \in Seq(Perm)
  BY <1>2, <1>3, DatasetLists, PermSequences
<1>5. Range(list) \in SUBSET Perm /\ {} \in SUBSET Perm
  BY <1>4, Permissions
<1>6. Shaped(plan, Range(list), {}, {})
  BY <1>1, <1>4, Plans
<1>7. /\ plan \in Seq(Op) /\ Ordered(plan) /\ Removed(plan) = Range(list) /\ Assigned(plan) = {}
      /\ Range(plan) \subseteq Ops(Range(list) \cup {}) \cup {}
  BY <1>5, <1>6, ShapedPlan
<1>8. ASSUME NEW role \in Role, dperm = Range(DatasetList(role)) PROVE dperm \subseteq Range(list)
  <2>1. /\ P("delete") \in DatasetPerm /\ P("add_view") \in Range(ManageDataset)
        /\ P("delete") \notin Range(ManageDataset)
        /\ P("delete") \notin Range(WriteDataset) /\ P("add_view") \notin Range(WriteDataset)
        /\ P("upload") \in Range(WriteDataset)
    BY DatasetLists, Permissions
  <2>2. \A l \in Level : Range(Reads(l)) \subseteq ReadPerm
    BY DatasetLists, RangeOfSeq
  <2>3. ReadPerm \subseteq Range(list)
    BY <1>2, DatasetLists, Permissions
  <2>4. CASE role = NoRole
    BY <1>8, <2>4, RolePermissions
  <2>5. CASE role[2] \in Level /\ DatasetList(role) = Reads(role[2])
    BY <1>8, <2>2, <2>3, <2>5
  <2>6. CASE DatasetList(role) = WriteDataset
    BY <1>2, <1>8, <2>1, <2>6
  <2>7. CASE DatasetList(role) = ManageDataset
    BY <1>2, <1>8, <2>1, <2>7
  <2>8. CASE DatasetList(role) = OwnDataset
    BY <1>2, <1>8, <2>1, <2>8, DatasetLists
  <2> QED BY <2>4, <2>5, <2>6, <2>7, <2>8, RoleLists
<1>9. \A role \in Role : dperm = Range(DatasetList(role)) => Outcome(dperm, plan) = {}
  BY <1>7, <1>8 DEF Outcome
<1>10. Range(plan) \subseteq Ops(DatasetPerm)
  BY <1>4, <1>7 DEF Ops
<1> QED
  BY <1>7, <1>9, <1>10 DEF plan

LEMMA RevokeViewPlan ==
  ASSUME NEW v
  PROVE  LET plan == RevokeView(v)
         IN  /\ plan \in Seq(Op) /\ Ordered(plan) /\ Range(plan) \subseteq Ops(Plain) \cup {Reset}
             /\ Assigned(plan) = {} /\ Cleans(plan)
             /\ P("view") \in vperm[v] => Reset \in Range(plan)
             /\ P("view") \notin vperm[v] => plan = <<>>
             /\ Nested(vperm[v]) => Outcome(vperm[v], plan) \cap Plain = {}
<1> DEFINE plan == RevokeView(v)
           list == CASE P("own") \in vperm[v] -> OwnView
                     [] P("own") \notin vperm[v] /\ P("manage") \in vperm[v] -> ManageView
                     [] OTHER -> ReadView
<1>1. plan = IF P("view") \notin vperm[v] THEN <<>> ELSE Removes(list) \o ResetCache
  BY DEF RevokeView
<1>2. \/ P("own") \in vperm[v] /\ list = OwnView
      \/ P("own") \notin vperm[v] /\ P("manage") \in vperm[v] /\ list = ManageView
      \/ P("own") \notin vperm[v] /\ P("manage") \notin vperm[v] /\ list = ReadView
  OBVIOUS
<1> HIDE DEF plan, list
<1>3. list \in Seq(Perm) /\ Range(list) \subseteq Plain /\ Plain \cap vperm[v] \subseteq Range(list)
                                                            \cup {P("view")}
  BY <1>2, ViewLists, PermSequences DEF Plain
<1>4. P("view") \in Range(list) /\ Plain \subseteq Perm
  BY <1>2, ViewLists, Permissions DEF Plain
<1>5. CASE P("view") \notin vperm[v]
  <2>1. Shaped(plan, {}, {}, {}) /\ plan = <<>>
    BY <1>1, <1>3, <1>5, Plans
  <2>2. /\ plan \in Seq(Op) /\ Ordered(plan) /\ Removed(plan) = {} /\ Assigned(plan) = {}
        /\ Range(plan) = {}
    <3>1. /\ plan \in Seq(Op) /\ Ordered(plan) /\ Removed(plan) = {} /\ Assigned(plan) = {}
          /\ Range(plan) \subseteq Ops({} \cup {}) \cup {}
      BY <2>1, ShapedPlan
    <3>2. Ops({} \cup {}) = {}
      BY DEF Ops
    <3> QED BY <3>1, <3>2
  <2>3. Nested(vperm[v]) => Outcome(vperm[v], plan) \cap Plain = {}
    BY <1>5, <2>2 DEF Nested, Outcome, Plain
  <2> QED BY <1>5, <2>1, <2>2, <2>3 DEF plan, Cleans
<1>6. CASE P("view") \in vperm[v]
  <2>1. Shaped(plan, Range(list), {}, {Reset})
    BY <1>1, <1>3, <1>6, Plans
  <2>2. Range(list) \in SUBSET Perm /\ {} \in SUBSET Perm
    BY <1>3, <1>4
  <2>3. /\ plan \in Seq(Op) /\ Ordered(plan) /\ Removed(plan) = Range(list)
        /\ Assigned(plan) = {} /\ (Reset \in Range(plan) <=> {Reset} = {Reset})
        /\ Range(plan) \subseteq Ops(Range(list) \cup {}) \cup {Reset}
    BY <2>1, <2>2, ShapedPlan
  <2>4. Range(plan) \subseteq Ops(Plain) \cup {Reset}
    BY <1>3, <2>3 DEF Ops
  <2>5. Outcome(vperm[v], plan) \cap Plain = {}
    BY <1>3, <1>4, <2>3 DEF Outcome
  <2> QED BY <1>6, <2>3, <2>4, <2>5 DEF plan, Cleans
<1> QED
  BY <1>5, <1>6

LEMMA ShareViewPlan ==
  ASSUME NEW l \in Level \cup {0}
  PROVE  LET plan == ShareView(l)
         IN  /\ plan \in Seq(Op) /\ Ordered(plan) /\ Range(plan) \subseteq Ops(ExtPerm) \cup {Reset}
             /\ Reset \in Range(plan)
<1> DEFINE plan == ShareView(l)
           R == Range(Exts(Top))
           A == Range(Exts(l))
<1>1. /\ Exts(Top) \in Seq(Perm) /\ Exts(l) \in Seq(Perm)
      /\ R \subseteq ExtPerm /\ A \subseteq ExtPerm
  BY ViewLists, PermSequences, Levels
<1>2. R \in SUBSET Perm /\ A \in SUBSET Perm
  BY <1>1, Permissions
<1>3. Shaped(plan, R, A, {Reset})
  BY <1>1, Plans DEF ShareView
<1> HIDE DEF plan, R, A
<1>4. /\ plan \in Seq(Op) /\ Ordered(plan) /\ Reset \in Range(plan)
      /\ Range(plan) \subseteq Ops(R \cup A) \cup {Reset}
  BY <1>2, <1>3, ShapedPlan
<1>5. Range(plan) \subseteq Ops(ExtPerm) \cup {Reset}
  BY <1>1, <1>4 DEF Ops
<1> QED
  BY <1>4, <1>5 DEF plan

-----------------------------------------------------------------------------
(* The types hold                                                          *)

LEMMA Constants ==
  /\ "dataset" \notin View /\ Old \subseteq View
  /\ \A x \in Resource : x = <<x[1], x[2]>> /\ x[1] \in View /\ x[2] \in Level
  /\ 1 \in Level /\ \A l \in Level : l \in Nat /\ Viewer(l) \in Role
  /\ NoRole \in Role /\ <<"manager", 0>> \in Role
  /\ <<"manager", 0>> # NoRole /\ \A l : Viewer(l) # NoRole
  /\ Unknown \notin Role /\ Unknown # NoRole
<1>1. /\ "dataset" \notin View /\ Old \subseteq View /\ Resource \subseteq View \X Level
      /\ 1 \in Level /\ Level \subseteq Nat
  BY SharingAssumption
<1>2. \A x \in View \X Level : x = <<x[1], x[2]>> /\ x[1] \in View /\ x[2] \in Level
  OBVIOUS
<1>3. Unknown \notin Role /\ Unknown # NoRole
  BY DEF Unknown, Role, NoRole
<1>4. \A l \in Level : Viewer(l) \in Role
  BY DEF Viewer, Role
<1>5. NoRole \in Role /\ <<"manager", 0>> \in Role
  BY DEF NoRole, Role
<1>6. <<"manager", 0>> # NoRole /\ \A l : Viewer(l) # NoRole
  BY DEF NoRole, Viewer
<1> QED
  BY <1>1, <1>2, <1>3, <1>4, <1>5, <1>6

\* p is as it was, unless it is no longer the only one under way.
Alike(p) == request'[p] \in {request[p], [request[p] EXCEPT !.sole = FALSE]}

LEMMA AlikeFields ==
  ASSUME RequestsInv, NEW p \in Request, Alike(p)
  PROVE  /\ request'[p].kind = request[p].kind /\ request'[p].pc = request[p].pc
         /\ request'[p].role = request[p].role /\ request'[p].on = request[p].on
         /\ request'[p].plan = request[p].plan /\ request'[p].todo = request[p].todo
         /\ request'[p].sole => request[p].sole
         /\ Active(p)' <=> Active(p)
         /\ SharesDataset(p)' <=> SharesDataset(p)
         /\ Shares(p)' <=> Shares(p)
         /\ Creates(p)' <=> Creates(p)
         /\ Viewing(p)' <=> Viewing(p)
<1>1. request[p] \in RequestState
  BY DEF RequestsInv
<1>2. /\ request'[p].kind = request[p].kind /\ request'[p].pc = request[p].pc
      /\ request'[p].role = request[p].role /\ request'[p].on = request[p].on
      /\ request'[p].plan = request[p].plan /\ request'[p].todo = request[p].todo
      /\ request'[p].sole => request[p].sole
  BY <1>1 DEF Alike, RequestState
<1> QED
  BY <1>2 DEF Active, SharesDataset, Shares, Creates, Viewing

\* What one request does, seen by the others
LEMMA OneRequest ==
  ASSUME RequestsInv, NEW q \in Request, request' \in [Request -> RequestState],
         \A p \in Request \ {q} : Alike(p), views \subseteq views',
         RequestSound(q)', PlanSound(q)',
         Active(q)' /\ Creates(q)' =>
           \/ Active(q) /\ Creates(q) /\ request'[q].on = request[q].on
           \/ request'[q].on \notin views
  PROVE  RequestsInv'
<1>1. ASSUME NEW p \in Request \ {q} PROVE RequestSound(p)' /\ PlanSound(p)'
  <2>1. Alike(p) /\ RequestSound(p) /\ PlanSound(p)
    BY DEF RequestsInv
  <2>2. RequestSound(p)'
    BY <2>1, AlikeFields DEF RequestSound
  <2>3. PlanSound(p)'
    BY <2>1, AlikeFields DEF PlanSound
  <2> QED BY <2>2, <2>3
<1>2. ASSUME NEW p \in Request \ {q}, Active(p)', Creates(p)'
      PROVE Active(p) /\ Creates(p) /\ request'[p].on = request[p].on /\ request[p].on \in views
  <2>1. Alike(p) /\ RequestSound(p)
    BY DEF RequestsInv
  <2>2. Active(p) /\ Creates(p) /\ request'[p].on = request[p].on
    BY <1>2, <2>1, AlikeFields
  <2> QED BY <2>1, <2>2 DEF RequestSound, Creates
<1>3. ASSUME NEW p \in Request \ {q}, Active(p)', Creates(p)', Active(q)', Creates(q)'
      PROVE request'[p].on # request'[q].on
  BY <1>2, <1>3 DEF RequestsInv
<1>4. ASSUME NEW p \in Request \ {q}, NEW r \in Request \ {q},
             Active(p)', Creates(p)', Active(r)', Creates(r)', request'[p].on = request'[r].on
      PROVE p = r
  BY <1>2, <1>4 DEF RequestsInv
<1> QED
  BY <1>1, <1>3, <1>4 DEF RequestsInv

LEMMA AnswerKept ==
  ASSUME UNCHANGED perms
  PROVE  \A x : Answer(x)' = Answer(x)
BY DEF perms, Answer, Allowed

LEMMA ChecksKept ==
  ASSUME ChecksInv, UNCHANGED <<perms, check, cache>>, views \subseteq views'
  PROVE  ChecksInv'
<1>1. ASSUME NEW c \in Check PROVE CheckSound(c)'
  BY AnswerKept DEF ChecksInv, CheckSound
<1> QED
  BY <1>1 DEF ChecksInv

LEMMA InitTypes == Init => TypesInv
<1> SUFFICES ASSUME NEW role \in Role,
                    dperm = Range(DatasetList(role)),
                    vperm = [v \in View |-> IF v \in Old THEN Range(ViewList(role)) ELSE {}],
                    views = Old, cache = [x \in Resource |-> "none"],
                    request = [q \in Request |-> Fresh], check = [c \in Check |-> NoCheck],
                    intended = role, aligned = TRUE, coherent = Old, tainted = {},
                    shared = IF role = NoRole THEN "no" ELSE "yes"
             PROVE  TypesInv
  BY DEF Init
<1>1. TypeOK
  <2>1. Range(DatasetList(role)) \subseteq DatasetPerm /\ Range(ViewList(role)) \subseteq ViewPerm
    BY RolePermissions, Permissions
  <2> QED BY <2>1, Constants DEF TypeOK
<1>2. Fresh \in RequestState
  <2>1. <<>> \in Seq(Op)
    OBVIOUS
  <2> QED BY <2>1, Constants DEF Fresh, RequestState
<1>3. \A q \in Request : RequestSound(q) /\ PlanSound(q) /\ ~ Active(q)
  <2>1. Ordered(<<>>)
    BY DEF Ordered
  <2> QED BY <2>1, Constants DEF RequestSound, PlanSound, Fresh, Active
<1>4. RequestsInv
  BY <1>2, <1>3 DEF RequestsInv
<1>5. ChecksInv
  BY DEF ChecksInv, NoCheck, CheckState, CheckSound
<1> QED
  BY <1>1, <1>4, <1>5 DEF TypesInv

\* What a step of a change does
LEMMA StepEffect ==
  ASSUME TypesInv, NEW q \in Request, Step(q)
  PROVE  LET plan == request[q].plan
             op == Head(plan)
             rest == Tail(plan)
             on == request[q].on
         IN  /\ plan \in Seq(Op) /\ plan # <<>> /\ Ordered(plan)
             /\ Active(q) /\ request[q].pc \in {"dataset", "views"}
             /\ request' = [request EXCEPT ![q].plan = rest]
             /\ request' \in [Request -> RequestState]
             /\ UNCHANGED <<views, intended, shared, aligned, coherent>>
             /\ \/ /\ op = Reset /\ request[q].pc = "views" /\ on \in views
                   /\ cache' = Cleared(on) /\ tainted' = tainted \ {on}
                   /\ UNCHANGED <<perms, check>>
                \/ /\ request[q].pc = "dataset" /\ on = "dataset" /\ Shares(q)
                   /\ op[2] \in DatasetPerm
                   /\ \/ op[1] = "remove" /\ dperm' = dperm \ {op[2]}
                      \/ op[1] = "assign" /\ dperm' = dperm \cup {op[2]}
                   /\ Disturb /\ UNCHANGED <<vperm, cache, tainted>>
                \/ /\ request[q].pc = "views" /\ on \in views
                   /\ op[2] \in ViewPerm
                   /\ request[q].kind # "external" => op[2] \in Plain
                   /\ request[q].kind = "external" => op[2] \in ExtPerm
                   /\ \/ op[1] = "remove" /\ vperm' = [vperm EXCEPT ![on] = @ \ {op[2]}]
                      \/ op[1] = "assign" /\ vperm' = [vperm EXCEPT ![on] = @ \cup {op[2]}]
                   /\ Disturb /\ UNCHANGED <<dperm, cache, tainted>>
<1> DEFINE plan == request[q].plan
           op == Head(plan)
           rest == Tail(plan)
           on == request[q].on
<1>1. request[q] \in RequestState /\ RequestSound(q) /\ PlanSound(q)
  BY DEF TypesInv, RequestsInv
<1>2. plan \in Seq(Op) /\ plan # <<>> /\ Ordered(plan) /\ on \in {"dataset"} \cup View
  BY <1>1 DEF Step, PlanSound, RequestState
<1>3. /\ request' = [request EXCEPT ![q].plan = rest]
      /\ UNCHANGED <<views, intended, shared, aligned, coherent>>
  BY DEF Step
<1>4. /\ rest \in Seq(Op) /\ op \in Range(plan)
      /\ \/ op[1] = "remove" \/ op[1] = "assign" \/ (op[1] = "reset" /\ op = Reset)
  <2> HIDE DEF plan
  <2>1. rest \in Seq(Op) /\ Range(plan) = {op} \cup Range(rest)
    BY <1>2, FirstOperation
  <2>2. op \in Op
    BY <1>2, FirstOperation
  <2>3. op[1] = "remove" \/ op[1] = "assign" \/ (op[1] = "reset" /\ op = Reset)
    BY <2>2 DEF Op, Ops, Reset
  <2> QED BY <2>1, <2>3 DEF plan
<1>5. request' \in [Request -> RequestState]
  <2>1. [request[q] EXCEPT !.plan = rest] \in RequestState
    BY <1>1, <1>4 DEF RequestState
  <2> QED BY <1>3, <2>1 DEF TypesInv, RequestsInv
<1>6. request[q].pc \in {"dataset", "views"} /\ Active(q)
  BY <1>1, <1>2 DEF PlanSound, RequestState, Active
<1>7. request[q].pc = "dataset" =>
        on = "dataset" /\ Shares(q) /\ op[1] # "reset" /\ op[2] \in DatasetPerm
  <2>1. request[q].pc = "dataset" => Range(plan) \subseteq Ops(DatasetPerm)
    BY <1>1 DEF PlanSound
  <2>2. \A x \in Ops(DatasetPerm) : x[1] # "reset" /\ x[2] \in DatasetPerm
    BY DEF Ops
  <2> QED BY <1>1, <1>4, <1>6, <2>1, <2>2 DEF RequestSound, Shares
<1>8. request[q].pc = "views" =>
        /\ on # "dataset" /\ on \in View /\ on \in views
        /\ op[1] # "reset" =>
             /\ request[q].kind # "external" => op[2] \in Plain
             /\ request[q].kind = "external" => op[2] \in ExtPerm
             /\ op[2] \in ViewPerm
  <2> SUFFICES ASSUME request[q].pc = "views"
               PROVE  /\ on # "dataset" /\ on \in View /\ on \in views
                      /\ op[1] # "reset" =>
                           /\ request[q].kind # "external" => op[2] \in Plain
                           /\ request[q].kind = "external" => op[2] \in ExtPerm
                           /\ op[2] \in ViewPerm
    OBVIOUS
  <2>1. on # "dataset"
    BY <1>1, <1>2 DEF PlanSound
  <2>2. on \in View /\ on \in views
    BY <1>1, <1>2, <2>1 DEF RequestSound
  <2>3. /\ request[q].kind # "external" => Range(plan) \subseteq Ops(Plain) \cup {Reset}
        /\ request[q].kind = "external" => Range(plan) \subseteq Ops(ExtPerm) \cup {Reset}
    BY <1>1 DEF PlanSound
  <2>4. /\ \A x \in Ops(Plain) : x[2] \in Plain
        /\ \A x \in Ops(ExtPerm) : x[2] \in ExtPerm
        /\ Reset[1] = "reset"
    BY DEF Ops, Reset
  <2>5. Plain \subseteq ViewPerm /\ ExtPerm \subseteq ViewPerm
    BY Permissions
  <2> QED BY <1>4, <2>1, <2>2, <2>3, <2>4, <2>5
<1>9. on = "dataset" <=> request[q].pc = "dataset"
  BY <1>6, <1>7, <1>8
<1>10. CASE op[1] = "reset" /\ op = Reset
  <2>1. cache' = Cleared(on) /\ tainted' = tainted \ {on} /\ UNCHANGED <<perms, check>>
    BY <1>10 DEF Step
  <2> QED BY <1>2, <1>3, <1>5, <1>6, <1>7, <1>8, <1>10, <2>1
<1>11. CASE op[1] = "remove"
  <2>1. /\ IF on = "dataset"
           THEN dperm' = dperm \ {op[2]} /\ UNCHANGED vperm
           ELSE vperm' = [vperm EXCEPT ![on] = @ \ {op[2]}] /\ UNCHANGED dperm
        /\ Disturb /\ UNCHANGED <<cache, tainted>>
    BY <1>11 DEF Step
  <2> QED BY <1>2, <1>3, <1>5, <1>6, <1>7, <1>8, <1>9, <1>11, <2>1
<1>12. CASE op[1] = "assign"
  <2>1. /\ IF on = "dataset"
           THEN dperm' = dperm \cup {op[2]} /\ UNCHANGED vperm
           ELSE vperm' = [vperm EXCEPT ![on] = @ \cup {op[2]}] /\ UNCHANGED dperm
        /\ Disturb /\ UNCHANGED <<cache, tainted>>
    BY <1>12 DEF Step
  <2> QED BY <1>2, <1>3, <1>5, <1>6, <1>7, <1>8, <1>9, <1>12, <2>1
<1> QED
  BY <1>4, <1>10, <1>11, <1>12

LEMMA BeginsEffect ==
  ASSUME RequestsInv, NEW q \in Request, NEW kind \in {"grant", "revoke", "downgrade", "external"},
         NEW role \in Role, NEW on \in {"dataset"} \cup View, NEW plan \in Seq(Op),
         Begins(q, kind, role, on, plan)
  PROVE  /\ request[q].pc = "idle" /\ ~ Active(q)
         /\ request' \in [Request -> RequestState]
         /\ \A p \in Request \ {q} : Alike(p)
         /\ request'[q] = [kind |-> kind, role |-> role, on |-> on, plan |-> plan, todo |-> {},
                           pc |-> IF on = "dataset" THEN "dataset" ELSE "views",
                           sole |-> OthersActive(q) = {}]
         /\ Active(q)' /\ ~ Creates(q)'
         /\ \A p \in Request \ {q} : ~ request'[p].sole
         /\ UNCHANGED <<perms, views, cache, check>>
<1> DEFINE new == [kind |-> kind, role |-> role, on |-> on, plan |-> plan, todo |-> {},
                   pc |-> IF on = "dataset" THEN "dataset" ELSE "views",
                   sole |-> OthersActive(q) = {}]
<1>1. /\ request[q].pc = "idle"
      /\ request' = [p \in Request |-> IF p # q THEN [request[p] EXCEPT !.sole = FALSE] ELSE new]
      /\ UNCHANGED <<perms, views, cache, check>>
  BY DEF Begins
<1>2. new \in RequestState
  <2>1. {} \in SUBSET View /\ (OthersActive(q) = {}) \in BOOLEAN
    OBVIOUS
  <2> QED BY <2>1 DEF RequestState
<1>3. /\ new.kind = kind /\ new.pc \in {"dataset", "views"}
  OBVIOUS
<1> HIDE DEF new
<1>4. ASSUME NEW p \in Request PROVE [request[p] EXCEPT !.sole = FALSE] \in RequestState
  <2>1. request[p] \in RequestState
    BY DEF RequestsInv
  <2> QED BY <2>1 DEF RequestState
<1>5. request' \in [Request -> RequestState]
  BY <1>1, <1>2, <1>4
<1>6. \A p \in Request \ {q} : request'[p] = [request[p] EXCEPT !.sole = FALSE]
  BY <1>1
<1>7. ASSUME NEW p \in Request \ {q} PROVE ~ request'[p].sole
  <2>1. request[p] \in RequestState
    BY DEF RequestsInv
  <2> QED BY <1>6, <2>1 DEF RequestState
<1>8. request'[q] = new
  BY <1>1
<1>9. ~ Active(q) /\ Active(q)' /\ ~ Creates(q)'
  BY <1>1, <1>3, <1>8 DEF Active, Creates
<1> QED
  BY <1>1, <1>5, <1>6, <1>7, <1>8, <1>9 DEF new, Alike

\* A plan of the dataset's permissions, or of one view's, may be begun.
LEMMA BeginsTypes ==
  ASSUME RequestsInv, ChecksInv, NEW q \in Request,
         NEW kind \in {"grant", "revoke", "downgrade", "external"},
         NEW role \in Role, NEW on \in {"dataset"} \cup View, NEW plan \in Seq(Op),
         Begins(q, kind, role, on, plan), Ordered(plan),
         on = "dataset" => /\ kind # "external" /\ Range(plan) \subseteq Ops(DatasetPerm)
                           /\ kind = "grant" => Returns(plan, Read(1))
                           /\ kind \in {"revoke", "downgrade"} => Assigned(plan) = {}
                           /\ kind = "grant" => role # NoRole
                           /\ kind = "revoke" => role = NoRole
                           /\ kind = "downgrade" => role = Viewer(1),
         on # "dataset" => /\ kind = "external" /\ role = NoRole /\ on \in views
                           /\ Range(plan) \subseteq Ops(ExtPerm) \cup {Reset} /\ Cleans(plan)
  PROVE  RequestsInv' /\ ChecksInv'
<1>1. /\ request' \in [Request -> RequestState] /\ \A p \in Request \ {q} : Alike(p)
      /\ request'[q] = [kind |-> kind, role |-> role, on |-> on, plan |-> plan, todo |-> {},
                        pc |-> IF on = "dataset" THEN "dataset" ELSE "views",
                        sole |-> OthersActive(q) = {}]
      /\ ~ Creates(q)' /\ UNCHANGED <<perms, views, cache, check>>
  BY BeginsEffect
<1>2. /\ request'[q].kind = kind /\ request'[q].role = role /\ request'[q].on = on
      /\ request'[q].plan = plan /\ request'[q].todo = {}
      /\ request'[q].pc = IF on = "dataset" THEN "dataset" ELSE "views"
  BY <1>1
<1>3. RequestSound(q)'
  BY <1>1, <1>2, Constants DEF RequestSound, SharesDataset
<1>4. PlanSound(q)'
  BY <1>1, <1>2, Constants DEF PlanSound
<1>5. RequestsInv'
  BY <1>1, <1>3, <1>4, OneRequest
<1> QED
  BY <1>1, <1>5, ChecksKept

LEMMA GrantTypes ==
  ASSUME TypesInv, NEW q \in Request, NEW role \in Role, Grant(q, role)
  PROVE  TypesInv'
<1> DEFINE plan == GrantDataset(role)
<1>1. role # NoRole /\ Begins(q, "grant", role, "dataset", plan)
  BY DEF Grant
<1>2. plan \in Seq(Op) /\ Ordered(plan) /\ Range(plan) \subseteq Ops(DatasetPerm)
      /\ Returns(plan, Read(1))
  BY <1>1, GrantDatasetPlan DEF Returns
<1> HIDE DEF plan
<1>3. RequestsInv' /\ ChecksInv'
  BY <1>1, <1>2, BeginsTypes DEF TypesInv
<1>4. TypeOK'
  BY DEF Grant, Begins, Expect, perms, TypesInv, TypeOK
<1> QED BY <1>3, <1>4 DEF TypesInv

LEMMA RevokeTypes ==
  ASSUME TypesInv, NEW q \in Request, Revoke(q)
  PROVE  TypesInv'
<1> DEFINE plan == RevokeDataset
<1>1. Begins(q, "revoke", NoRole, "dataset", plan)
  BY DEF Revoke
<1>2. /\ plan \in Seq(Op) /\ Ordered(plan) /\ Range(plan) \subseteq Ops(DatasetPerm)
      /\ Assigned(plan) = {}
  BY RevokeDatasetPlan
<1> HIDE DEF plan
<1>3. RequestsInv' /\ ChecksInv'
  BY <1>1, <1>2, BeginsTypes, Constants DEF TypesInv
<1>4. TypeOK'
  BY Constants DEF Revoke, Begins, Expect, perms, TypesInv, TypeOK
<1> QED BY <1>3, <1>4 DEF TypesInv

LEMMA DowngradeTypes ==
  ASSUME TypesInv, NEW q \in Request, Downgrade(q)
  PROVE  TypesInv'
<1> DEFINE plan == RevokeDataset
<1>1. Begins(q, "downgrade", Viewer(1), "dataset", plan)
  BY DEF Downgrade
<1>2. /\ plan \in Seq(Op) /\ Ordered(plan) /\ Range(plan) \subseteq Ops(DatasetPerm)
      /\ Assigned(plan) = {}
  BY RevokeDatasetPlan
<1> HIDE DEF plan
<1>3. RequestsInv' /\ ChecksInv'
  BY <1>1, <1>2, BeginsTypes, Constants DEF TypesInv
<1>4. TypeOK'
  BY Constants DEF Downgrade, Begins, Expect, perms, TypesInv, TypeOK
<1> QED BY <1>3, <1>4 DEF TypesInv

LEMMA ExternalTypes ==
  ASSUME TypesInv, NEW q \in Request, NEW v \in View, NEW l \in Level \cup {0},
         GrantExternal(q, v, l)
  PROVE  TypesInv'
<1> DEFINE plan == ShareView(l)
<1>1. v \in views /\ Begins(q, "external", NoRole, v, plan) /\ v # "dataset"
  BY Constants DEF GrantExternal
<1>2. /\ plan \in Seq(Op) /\ Ordered(plan) /\ Range(plan) \subseteq Ops(ExtPerm) \cup {Reset}
      /\ Cleans(plan)
  BY ShareViewPlan DEF Cleans
<1> HIDE DEF plan
<1>3. RequestsInv' /\ ChecksInv'
  BY <1>1, <1>2, BeginsTypes, Constants DEF TypesInv
<1>4. TypeOK'
  BY DEF GrantExternal, Begins, perms, history, TypesInv, TypeOK
<1> QED BY <1>3, <1>4 DEF TypesInv

LEMMA CreateTypes ==
  ASSUME TypesInv, NEW q \in Request, NEW v \in View, CreateView(q, v)
  PROVE  TypesInv'
<1> DEFINE new == [Fresh EXCEPT !.kind = "create", !.pc = "created", !.on = v]
<1>1. /\ v \notin views /\ views' = views \cup {v} /\ request' = [request EXCEPT ![q] = new]
      /\ UNCHANGED <<perms, cache, check, intended, tainted>>
  BY DEF CreateView
<1>2. /\ new \in RequestState /\ new.kind = "create" /\ new.pc = "created" /\ new.on = v
      /\ new.plan = <<>> /\ new.todo = {} /\ ~ new.sole
  <2>1. <<>> \in Seq(Op)
    OBVIOUS
  <2> QED BY <2>1, Constants DEF Fresh, RequestState
<1> HIDE DEF new
<1>3. request \in [Request -> RequestState]
  BY DEF TypesInv, RequestsInv
<1>4. request' \in [Request -> RequestState] /\ request'[q] = new
  BY <1>1, <1>2, <1>3
<1>5. \A p \in Request \ {q} : Alike(p)
  BY <1>1, <1>3 DEF Alike
<1>6. RequestSound(q)'
  BY <1>1, <1>2, <1>4 DEF RequestSound
<1>7. PlanSound(q)'
  <2>1. Ordered(<<>>)
    BY DEF Ordered
  <2> QED BY <1>2, <1>4, <2>1 DEF PlanSound
<1>8. RequestsInv'
  BY <1>1, <1>2, <1>4, <1>5, <1>6, <1>7, OneRequest DEF TypesInv
<1>9. ChecksInv'
  BY <1>1, ChecksKept DEF TypesInv
<1>10. TypeOK'
  BY <1>1 DEF CreateView, perms, TypesInv, TypeOK
<1> QED BY <1>8, <1>9, <1>10 DEF TypesInv

\* The actions of a request that change nothing but the request
LEMMA TurnTypes ==
  ASSUME TypesInv, NEW q \in Request, NEW new \in RequestState,
         request' = [request EXCEPT ![q] = new],
         UNCHANGED <<perms, views, cache, check, intended, shared, aligned, tainted>>,
         coherent' \subseteq views',
         RequestSound(q)', PlanSound(q)',
         Active(q)' /\ Creates(q)' =>
           Active(q) /\ Creates(q) /\ request'[q].on = request[q].on
  PROVE  TypesInv'
<1>1. request \in [Request -> RequestState]
  BY DEF TypesInv, RequestsInv
<1>2. request' \in [Request -> RequestState] /\ \A p \in Request \ {q} : Alike(p)
  BY <1>1 DEF Alike
<1>3. RequestsInv'
  BY <1>2, OneRequest DEF TypesInv
<1>4. ChecksInv'
  BY ChecksKept DEF TypesInv
<1>5. TypeOK'
  BY DEF TypesInv, TypeOK, perms
<1> QED BY <1>3, <1>4, <1>5 DEF TypesInv

LEMMA FindUsersTypes ==
  ASSUME TypesInv, NEW q \in Request, FindUsers(q)
  PROVE  TypesInv'
<1> DEFINE new == [request[q] EXCEPT !.pc = IF dperm = {} THEN "done" ELSE "found"]
<1>1. /\ request[q].pc = "created" /\ request' = [request EXCEPT ![q] = new]
      /\ UNCHANGED <<perms, views, cache, check, history>>
  BY DEF FindUsers
<1>2. request[q] \in RequestState /\ RequestSound(q) /\ PlanSound(q)
  BY DEF TypesInv, RequestsInv
<1>3. /\ new \in RequestState /\ new.pc \in {"done", "found"} /\ new.plan = request[q].plan
      /\ new.kind = request[q].kind /\ new.on = request[q].on /\ new.todo = request[q].todo
      /\ new.role = request[q].role
  BY <1>2 DEF RequestState
<1> HIDE DEF new
<1>4. request'[q] = new
  BY <1>1 DEF TypesInv, RequestsInv
<1>5. RequestSound(q)' /\ PlanSound(q)'
  BY <1>1, <1>2, <1>3, <1>4 DEF RequestSound, PlanSound
<1>6. Active(q) /\ Creates(q) /\ request'[q].on = request[q].on
  BY <1>1, <1>2, <1>3, <1>4 DEF RequestSound, Active, Creates
<1> QED BY <1>1, <1>3, <1>5, <1>6, TurnTypes DEF history, TypesInv, TypeOK

LEMMA GrantOnCreationTypes ==
  ASSUME TypesInv, NEW q \in Request, GrantOnCreation(q)
  PROVE  TypesInv'
<1> DEFINE plan == CASE dperm \cap {P("upload"), P("add_view")} # {} -> GrantView(<<"manager", 0>>)
                     [] dperm \cap {P("upload"), P("add_view")} = {}
                        /\ \E l \in Level : Read(l) \in dperm -> GrantView(Viewer(1))
                     [] OTHER -> <<>>
           new == [request[q] EXCEPT !.pc = "views", !.plan = plan]
<1>1. /\ request[q].pc = "found" /\ request' = [request EXCEPT ![q] = new]
      /\ UNCHANGED <<perms, views, cache, check, history>>
  BY DEF GrantOnCreation
<1>2. plan = GrantView(<<"manager", 0>>) \/ plan = GrantView(Viewer(1)) \/ plan = <<>>
  OBVIOUS
<1>3. /\ plan \in Seq(Op) /\ Ordered(plan) /\ Range(plan) \subseteq Ops(Plain) \cup {Reset}
      /\ Returns(plan, P("view"))
  <2>1. <<>> \in Seq(Op) /\ Ordered(<<>>) /\ Range(<<>>) = {} /\ Returns(<<>>, P("view"))
    BY DEF Ordered, Range, Returns, Removed
  <2> HIDE DEF plan
  <2> QED BY <1>2, <2>1, GrantViewPlan, Constants DEF Returns
<1> HIDE DEF plan
<1>4. request[q] \in RequestState /\ RequestSound(q) /\ PlanSound(q)
  BY DEF TypesInv, RequestsInv
<1>5. /\ new \in RequestState /\ new.pc = "views" /\ new.plan = plan
      /\ new.kind = request[q].kind /\ new.on = request[q].on /\ new.todo = request[q].todo
      /\ new.role = request[q].role
  BY <1>3, <1>4 DEF RequestState
<1> HIDE DEF new
<1>6. request'[q] = new
  BY <1>1 DEF TypesInv, RequestsInv
<1>7. request[q].kind = "create" /\ request[q].on \in views /\ request[q].on # "dataset"
  BY <1>1, <1>4, Constants DEF RequestSound, TypesInv, TypeOK
<1>8. RequestSound(q)'
  BY <1>1, <1>4, <1>5, <1>6, <1>7 DEF RequestSound
<1>9. PlanSound(q)'
  BY <1>3, <1>5, <1>6, <1>7 DEF PlanSound
<1>10. Active(q) /\ Creates(q) /\ request'[q].on = request[q].on
  BY <1>1, <1>5, <1>6, <1>7 DEF Active, Creates
<1> QED BY <1>1, <1>5, <1>8, <1>9, <1>10, TurnTypes DEF history, TypesInv, TypeOK

LEMMA ListViewsTypes ==
  ASSUME TypesInv, NEW q \in Request, ListViews(q)
  PROVE  TypesInv'
<1> DEFINE new == [request[q] EXCEPT !.pc = "views", !.todo = views]
<1>1. /\ request[q].pc = "dataset" /\ request[q].plan = <<>> /\ Active(q)
      /\ request' = [request EXCEPT ![q] = new]
      /\ UNCHANGED <<perms, views, cache, check, history>>
  BY DEF ListViews, Through
<1>2. request[q] \in RequestState /\ RequestSound(q) /\ PlanSound(q) /\ views \subseteq View
  BY DEF TypesInv, RequestsInv, TypeOK
<1>3. /\ new \in RequestState /\ new.pc = "views" /\ new.plan = <<>> /\ new.todo = views
      /\ new.kind = request[q].kind /\ new.on = request[q].on /\ new.role = request[q].role
  BY <1>1, <1>2 DEF RequestState
<1> HIDE DEF new
<1>4. request'[q] = new
  BY <1>1 DEF TypesInv, RequestsInv
<1>5. SharesDataset(q) /\ request[q].on = "dataset"
  BY <1>1, <1>2 DEF RequestSound
<1>6. RequestSound(q)'
  BY <1>1, <1>2, <1>3, <1>4, <1>5, Constants DEF RequestSound, SharesDataset
<1>7. PlanSound(q)'
  <2>1. Ordered(<<>>) /\ Range(<<>>) = {} /\ Removed(<<>>) = {} /\ Assigned(<<>>) = {}
    BY DEF Ordered, Range, Removed, Assigned
  <2> QED BY <1>3, <1>4, <1>5, <2>1 DEF PlanSound, Returns, Cleans, SharesDataset
<1>8. ~ Creates(q)'
  BY <1>3, <1>4, <1>5 DEF Creates, SharesDataset
<1> QED BY <1>1, <1>3, <1>6, <1>7, <1>8, TurnTypes DEF history, TypesInv, TypeOK

LEMMA NextViewTypes ==
  ASSUME TypesInv, NEW q \in Request, NextView(q)
  PROVE  TypesInv'
<1>1. PICK v \in request[q].todo :
        request' = [request EXCEPT
          ![q].todo = @ \ {v}, ![q].on = v,
          ![q].plan = IF request[q].kind = "grant" THEN GrantView(request[q].role)
                      ELSE RevokeView(v)]
  BY DEF NextView
<1> DEFINE plan == IF request[q].kind = "grant" THEN GrantView(request[q].role) ELSE RevokeView(v)
           new == [request[q] EXCEPT !.todo = @ \ {v}, !.on = v, !.plan = plan]
<1>2. /\ request[q].pc = "views" /\ Active(q)
      /\ request' = [request EXCEPT ![q] = new]
      /\ UNCHANGED <<perms, views, cache, check, history>>
  BY <1>1 DEF NextView, Through
<1>3. request[q] \in RequestState /\ RequestSound(q) /\ views \subseteq View
  BY DEF TypesInv, RequestsInv, TypeOK
<1>4. v \in views /\ v # "dataset" /\ request[q].kind \in {"grant", "revoke", "downgrade"}
      /\ (request[q].kind = "grant" => request[q].role # NoRole /\ request[q].role \in Role)
  BY <1>2, <1>3, Constants DEF RequestSound, RequestState
<1>5. /\ plan \in Seq(Op) /\ Ordered(plan) /\ Range(plan) \subseteq Ops(Plain) \cup {Reset}
      /\ request[q].kind = "grant" =>
           Returns(plan, P("view")) /\ (request[q].role[1] = "viewer" => Cleans(plan))
      /\ request[q].kind # "grant" => Cleans(plan)
  <2>1. CASE request[q].kind = "grant"
    <3>1. plan = GrantView(request[q].role)
      BY <2>1
    <3> HIDE DEF plan
    <3> QED BY <1>4, <2>1, <3>1, GrantViewPlan DEF Returns, Cleans
  <2>2. CASE request[q].kind # "grant"
    <3>1. plan = RevokeView(v)
      BY <2>2
    <3> HIDE DEF plan
    <3> QED BY <2>2, <3>1, RevokeViewPlan
  <2> QED BY <2>1, <2>2
<1> HIDE DEF plan
<1>6. /\ new \in RequestState /\ new.pc = "views" /\ new.plan = plan
      /\ new.todo = request[q].todo \ {v} /\ new.on = v
      /\ new.kind = request[q].kind /\ new.role = request[q].role
  BY <1>2, <1>3, <1>4, <1>5 DEF RequestState
<1> HIDE DEF new
<1>7. request'[q] = new
  BY <1>2 DEF TypesInv, RequestsInv
<1>8. RequestSound(q)'
  BY <1>2, <1>3, <1>4, <1>6, <1>7 DEF RequestSound
<1>9. PlanSound(q)'
  BY <1>4, <1>5, <1>6, <1>7 DEF PlanSound, Viewing
<1>10. ~ Creates(q)'
  BY <1>4, <1>6, <1>7 DEF Creates
<1> QED BY <1>2, <1>6, <1>8, <1>9, <1>10, TurnTypes DEF history, TypesInv, TypeOK

\* How a change ends
LEMMA EndEffect ==
  ASSUME TypesInv, NEW q \in Request, End(q)
  PROVE  /\ Active(q) /\ request[q].plan = <<>> /\ request[q].pc = "views" /\ request[q].todo = {}
         /\ request' \in [Request -> RequestState]
         /\ \A p \in Request \ {q} : request'[p] = request[p]
         /\ UNCHANGED <<perms, views, cache, check, intended, shared, aligned, tainted>>
         /\ \/ /\ request[q].kind = "downgrade" /\ request'[q].kind = "grant"
               /\ request[q].role = Viewer(1) /\ request'[q].role = Viewer(1)
               /\ request'[q].pc = "dataset" /\ request'[q].on = "dataset"
               /\ request'[q].plan = GrantDataset(Viewer(1)) /\ request'[q].todo = {}
               /\ request'[q].sole = request[q].sole /\ coherent' = coherent
            \/ /\ request[q].kind # "downgrade" /\ request'[q] = [Fresh EXCEPT !.pc = "done"]
               /\ ~ Active(q)' /\ ~ Creates(q)'
               /\ coherent' = IF ~ request[q].sole THEN coherent
                              ELSE IF request[q].kind = "external"
                              THEN coherent \cup {request[q].on}
                              ELSE IF Viewing(q) THEN views ELSE coherent
<1>1. /\ request \in [Request -> RequestState] /\ request[q] \in RequestState
      /\ RequestSound(q)
  BY DEF TypesInv, RequestsInv
<1>2. /\ Active(q) /\ request[q].plan = <<>> /\ request[q].pc = "views" /\ request[q].todo = {}
      /\ UNCHANGED <<perms, views, cache, check, intended, shared, aligned, tainted>>
  BY DEF End, Through
<1>3. CASE request[q].kind = "downgrade"
  <2> DEFINE new == [request[q] EXCEPT !.kind = "grant", !.pc = "dataset", !.on = "dataset",
                                       !.plan = GrantDataset(request[q].role)]
  <2>1. request[q].role = Viewer(1)
    BY <1>1, <1>3 DEF RequestSound
  <2>2. request' = [request EXCEPT ![q] = new] /\ coherent' = coherent
    BY <1>3 DEF End
  <2>3. GrantDataset(Viewer(1)) \in Seq(Op)
    BY GrantDatasetPlan, Constants
  <2>4. /\ new \in RequestState /\ new.kind = "grant" /\ new.role = Viewer(1)
        /\ new.pc = "dataset" /\ new.on = "dataset" /\ new.plan = GrantDataset(Viewer(1))
        /\ new.todo = request[q].todo /\ new.sole = request[q].sole
    BY <1>1, <2>1, <2>3 DEF RequestState
  <2> HIDE DEF new
  <2> QED BY <1>1, <1>2, <1>3, <2>1, <2>2, <2>4
<1>4. CASE request[q].kind # "downgrade"
  <2> DEFINE new == [Fresh EXCEPT !.pc = "done"]
  <2>1. request' = [request EXCEPT ![q] = new]
    BY <1>4 DEF End
  <2>2. coherent' = IF ~ request[q].sole THEN coherent
                    ELSE IF request[q].kind = "external" THEN coherent \cup {request[q].on}
                    ELSE IF Viewing(q) THEN views ELSE coherent
    <3>1. request[q].kind = "external" => ~ Viewing(q)
      BY <1>1 DEF RequestSound, Viewing, NoRole
    <3>2. request[q].sole \in BOOLEAN
      BY <1>1 DEF RequestState
    <3>3. coherent' = IF ~ request[q].sole THEN coherent
                      ELSE CASE request[q].kind = "external" -> coherent \cup {request[q].on}
                             [] Viewing(q) -> views
                             [] OTHER -> coherent
      BY <1>4, <3>2 DEF End, Viewing
    <3> QED BY <3>1, <3>3
  <2>3. <<>> \in Seq(Op)
    OBVIOUS
  <2>4. new \in RequestState /\ new.pc = "done" /\ new.kind = "none"
    BY <2>3, Constants DEF Fresh, RequestState
  <2> HIDE DEF new
  <2>5. request'[q] = new
    BY <1>1, <2>1
  <2>6. ~ Active(q)' /\ ~ Creates(q)'
    BY <2>4, <2>5 DEF Active, Creates
  <2>7. request' \in [Request -> RequestState] /\ \A p \in Request \ {q} : request'[p] = request[p]
    BY <1>1, <2>1, <2>4
  <2> QED BY <1>2, <1>4, <2>2, <2>5, <2>6, <2>7 DEF new
<1> QED BY <1>3, <1>4

LEMMA EndTypes ==
  ASSUME TypesInv, NEW q \in Request, End(q)
  PROVE  TypesInv'
<1>1. RequestSound(q) /\ request[q] \in RequestState
  BY DEF TypesInv, RequestsInv
<1>2. /\ request' \in [Request -> RequestState]
      /\ \A p \in Request \ {q} : request'[p] = request[p]
      /\ UNCHANGED <<perms, views, cache, check, intended, shared, aligned, tainted>>
  BY EndEffect
<1>3. \A p \in Request \ {q} : Alike(p)
  BY <1>2 DEF Alike
<1>4. request[q].kind \in {"external", "create"} => request[q].on \in views
  BY <1>1 DEF RequestSound
<1>5. coherent' \subseteq views'
  BY <1>2, <1>4, EndEffect DEF TypesInv, TypeOK
<1>6. CASE request[q].kind = "downgrade"
  <2>1. /\ request'[q].kind = "grant" /\ request'[q].role = Viewer(1)
        /\ request'[q].pc = "dataset" /\ request'[q].on = "dataset"
        /\ request'[q].plan = GrantDataset(Viewer(1)) /\ request'[q].todo = {}
    BY <1>6, EndEffect
  <2>2. LET plan == GrantDataset(Viewer(1))
        IN  Ordered(plan) /\ Range(plan) \subseteq Ops(DatasetPerm) /\ Read(1) \in Assigned(plan)
    BY GrantDatasetPlan, Constants
  <2>3. RequestSound(q)'
    BY <2>1, Constants DEF RequestSound, SharesDataset
  <2>4. PlanSound(q)'
    BY <2>1, <2>2 DEF PlanSound, Returns
  <2>5. ~ Creates(q)'
    BY <2>1 DEF Creates
  <2>6. RequestsInv'
    BY <1>2, <1>3, <2>3, <2>4, <2>5, OneRequest DEF TypesInv
  <2> QED BY <1>2, <1>5, <2>6, ChecksKept DEF TypesInv, TypeOK, perms
<1>7. CASE request[q].kind # "downgrade"
  <2>1. request'[q] = [Fresh EXCEPT !.pc = "done"] /\ ~ Creates(q)'
    BY <1>7, EndEffect
  <2>2. RequestSound(q)' /\ PlanSound(q)'
    <3>1. Ordered(<<>>)
      BY DEF Ordered
    <3> QED BY <2>1, <3>1, Constants DEF RequestSound, PlanSound, Fresh
  <2>3. RequestsInv'
    BY <1>2, <1>3, <2>1, <2>2, OneRequest DEF TypesInv
  <2> QED BY <1>2, <1>5, <2>3, ChecksKept DEF TypesInv, TypeOK, perms
<1> QED BY <1>6, <1>7

\* What is left of a plan keeps what was promised of it.
LEMMA RestSound ==
  ASSUME NEW plan \in Seq(Op), plan # <<>>, Ordered(plan)
  PROVE  LET rest == Tail(plan)
         IN  /\ rest \in Seq(Op) /\ Ordered(rest) /\ Range(rest) \subseteq Range(plan)
             /\ Assigned(rest) \subseteq Assigned(plan) /\ Removed(rest) \subseteq Removed(plan)
             /\ \A p : Returns(plan, p) => Returns(rest, p)
             /\ Cleans(plan) => Cleans(rest)
<1> DEFINE op == Head(plan)
           rest == Tail(plan)
<1>1. /\ rest \in Seq(Op) /\ Ordered(rest) /\ Range(plan) = {op} \cup Range(rest)
      /\ \/ /\ Removed(plan) = Removed(rest) \cup {op[2]} /\ Assigned(plan) = Assigned(rest)
            /\ Reset \in Range(plan) <=> Reset \in Range(rest)
         \/ /\ Removed(plan) = {} /\ Removed(rest) = {}
            /\ Assigned(plan) = Assigned(rest) \cup {op[2]}
            /\ Reset \in Range(plan) <=> Reset \in Range(rest)
         \/ /\ Removed(plan) = {} /\ Removed(rest) = {}
            /\ Assigned(plan) = {} /\ Assigned(rest) = {}
  BY FirstOperation
<1> HIDE DEF op, rest
<1>2. Assigned(rest) \subseteq Assigned(plan) /\ Removed(rest) \subseteq Removed(plan)
      /\ Range(rest) \subseteq Range(plan)
  BY <1>1
<1>3. ASSUME NEW p, Returns(plan, p) PROVE Returns(rest, p)
  BY <1>1, <1>3 DEF Returns
<1>4. Cleans(plan) => Cleans(rest)
  BY <1>1 DEF Cleans
<1> QED BY <1>1, <1>2, <1>3, <1>4 DEF rest

LEMMA StepTypes ==
  ASSUME TypesInv, NEW q \in Request, Step(q)
  PROVE  TypesInv'
<1> DEFINE plan == request[q].plan
           op == Head(plan)
           rest == Tail(plan)
           on == request[q].on
<1>1. /\ plan \in Seq(Op) /\ plan # <<>> /\ Ordered(plan)
      /\ Active(q) /\ request[q].pc \in {"dataset", "views"}
      /\ request' = [request EXCEPT ![q].plan = rest]
      /\ request' \in [Request -> RequestState]
      /\ UNCHANGED <<views, intended, shared, aligned, coherent>>
  BY StepEffect
<1>2. /\ request[q] \in RequestState /\ request \in [Request -> RequestState]
      /\ RequestSound(q) /\ PlanSound(q)
  BY DEF TypesInv, RequestsInv
<1>3. /\ rest \in Seq(Op) /\ Ordered(rest) /\ Range(rest) \subseteq Range(plan)
      /\ Assigned(rest) \subseteq Assigned(plan)
      /\ \A p : Returns(plan, p) => Returns(rest, p)
      /\ Cleans(plan) => Cleans(rest)
  BY <1>1, RestSound
<1>4. /\ \A p \in Request \ {q} : Alike(p)
      /\ request'[q].kind = request[q].kind /\ request'[q].pc = request[q].pc
      /\ request'[q].role = request[q].role /\ request'[q].on = request[q].on
      /\ request'[q].todo = request[q].todo /\ request'[q].plan = rest
  BY <1>1, <1>2 DEF Alike, RequestState
<1>5. RequestSound(q)'
  BY <1>1, <1>2, <1>4 DEF RequestSound, SharesDataset
<1>6. PlanSound(q)'
  <2> HIDE DEF rest
  <2> QED BY <1>1, <1>2, <1>3, <1>4 DEF PlanSound, Viewing
<1>7. Active(q) /\ request'[q].on = request[q].on /\ (Creates(q)' <=> Creates(q))
  BY <1>1, <1>4 DEF Creates
<1>8. RequestsInv'
  BY <1>1, <1>4, <1>5, <1>6, <1>7, OneRequest DEF TypesInv
<1> HIDE DEF plan, op, rest, on
<1>9. CASE /\ op = Reset /\ request[q].pc = "views" /\ on \in views
           /\ cache' = Cleared(on) /\ tainted' = tainted \ {on} /\ UNCHANGED <<perms, check>>
  <2>1. TypeOK'
    BY <1>1, <1>9 DEF TypesInv, TypeOK, perms, Cleared
  <2>2. ChecksInv'
    BY <1>1, <1>9, AnswerKept DEF TypesInv, ChecksInv, CheckSound, Cleared
  <2> QED BY <1>8, <2>1, <2>2 DEF TypesInv
<1>10. CASE /\ TypeOK' /\ Disturb /\ UNCHANGED <<cache, views>>
  <2>1. check \in [Check -> CheckState]
    BY DEF TypesInv, ChecksInv
  <2>2. ASSUME NEW c \in Check
        PROVE  check'[c] \in CheckState /\ CheckSound(c)'
    <3>1. check[c] \in CheckState /\ CheckSound(c)
      BY DEF TypesInv, ChecksInv
    <3>2. check'[c] = [check[c] EXCEPT !.dirty = check[c].pc = "read"]
      BY <1>10 DEF Disturb
    <3>3. (check[c].pc = "read") \in BOOLEAN
      OBVIOUS
    <3>4. check'[c] \in CheckState /\ check'[c].resource = check[c].resource
          /\ check'[c].pc = check[c].pc /\ check'[c].dirty = (check[c].pc = "read")
      BY <3>1, <3>2, <3>3 DEF CheckState
    <3> QED BY <1>10, <3>1, <3>4 DEF CheckSound
  <2>3. check' \in [Check -> CheckState]
    <3>1. check' = [c \in Check |-> [check[c] EXCEPT !.dirty = check[c].pc = "read"]]
      BY <1>10 DEF Disturb
    <3> QED BY <2>2, <3>1
  <2>4. ChecksInv'
    BY <1>10, <2>2, <2>3 DEF TypesInv, ChecksInv
  <2> QED BY <1>8, <1>10, <2>4 DEF TypesInv
<1>11. CASE /\ op[2] \in DatasetPerm
            /\ \/ op[1] = "remove" /\ dperm' = dperm \ {op[2]}
               \/ op[1] = "assign" /\ dperm' = dperm \cup {op[2]}
            /\ Disturb /\ UNCHANGED <<vperm, cache, tainted>>
  <2>1. TypeOK'
    BY <1>1, <1>11 DEF TypesInv, TypeOK
  <2> QED BY <1>1, <1>10, <1>11, <2>1
<1>12. CASE /\ on \in views /\ op[2] \in ViewPerm
            /\ \/ op[1] = "remove" /\ vperm' = [vperm EXCEPT ![on] = @ \ {op[2]}]
               \/ op[1] = "assign" /\ vperm' = [vperm EXCEPT ![on] = @ \cup {op[2]}]
            /\ Disturb /\ UNCHANGED <<dperm, cache, tainted>>
  <2>1. on \in View /\ vperm \in [View -> SUBSET ViewPerm]
    BY <1>12 DEF TypesInv, TypeOK
  <2>2. vperm' \in [View -> SUBSET ViewPerm] /\ \A v \in View \ views : vperm'[v] = vperm[v]
    BY <1>12, <2>1
  <2>3. TypeOK'
    BY <1>1, <1>12, <2>2 DEF TypesInv, TypeOK
  <2> QED BY <1>1, <1>10, <1>12, <2>3
<1> QED
  BY <1>9, <1>11, <1>12, StepEffect DEF plan, op, on

LEMMA ReadPermsTypes ==
  ASSUME TypesInv, NEW c \in Check, NEW x \in Resource, ReadPerms(c, x)
  PROVE  TypesInv'
<1> DEFINE new == [pc |-> "read", resource |-> x, dirty |-> FALSE, answer |-> Answer(x)]
<1>1. /\ x[1] \in views /\ check' = [check EXCEPT ![c] = new]
      /\ UNCHANGED <<perms, views, cache, request, history>>
  BY DEF ReadPerms
<1>2. Answer(x) \in {"yes", "no"}
  BY DEF Answer
<1>3. new \in CheckState /\ new.resource = x /\ new.answer = Answer(x)
  BY <1>2 DEF CheckState
<1> HIDE DEF new
<1>4. /\ check \in [Check -> CheckState] /\ check'[c] = new
      /\ \A d \in Check \ {c} : check'[d] = check[d]
      /\ check' \in [Check -> CheckState]
  BY <1>1, <1>3 DEF TypesInv, ChecksInv
<1>5. ASSUME NEW d \in Check PROVE CheckSound(d)'
  BY <1>1, <1>3, <1>4, AnswerKept DEF TypesInv, ChecksInv, CheckSound
<1>6. ChecksInv'
  BY <1>1, <1>4, <1>5 DEF TypesInv, ChecksInv
<1>7. RequestsInv'
  BY <1>1 DEF TypesInv, RequestsInv, RequestSound, PlanSound, SharesDataset, Viewing, Active, Creates
<1>8. TypeOK'
  BY <1>1 DEF TypesInv, TypeOK, perms, history
<1> QED BY <1>6, <1>7, <1>8 DEF TypesInv

LEMMA StoreTypes ==
  ASSUME TypesInv, NEW c \in Check, Store(c)
  PROVE  TypesInv'
<1> DEFINE x == check[c].resource
<1>1. /\ check[c].pc = "read" /\ cache' = [cache EXCEPT ![x] = check[c].answer]
      /\ tainted' = IF check[c].dirty THEN tainted \cup {x[1]} ELSE tainted
      /\ check' = [check EXCEPT ![c] = NoCheck]
      /\ UNCHANGED <<perms, views, request, intended, shared, aligned, coherent>>
  BY DEF Store
<1>2. /\ check[c] \in CheckState /\ x \in Resource /\ x[1] \in views
  BY <1>1 DEF TypesInv, ChecksInv, CheckSound
<1>3. NoCheck \in CheckState /\ NoCheck.pc = "idle"
  BY DEF NoCheck, CheckState
<1>4. check[c].answer \in {"none", "yes", "no"}
  BY <1>2 DEF CheckState
<1> HIDE DEF x
<1>5. /\ check' \in [Check -> CheckState] /\ check'[c].pc = "idle"
      /\ \A d \in Check \ {c} : check'[d] = check[d]
  BY <1>1, <1>3 DEF TypesInv, ChecksInv
<1>6. ASSUME NEW d \in Check PROVE CheckSound(d)'
  BY <1>1, <1>5, AnswerKept DEF TypesInv, ChecksInv, CheckSound, perms
<1>7. ChecksInv'
  BY <1>1, <1>2, <1>5, <1>6 DEF TypesInv, ChecksInv, TypeOK
<1>8. RequestsInv'
  BY <1>1 DEF TypesInv, RequestsInv, RequestSound, PlanSound, SharesDataset, Viewing, Active, Creates
<1>9. TypeOK'
  BY <1>1, <1>2, <1>4 DEF TypesInv, TypeOK, perms
<1> QED BY <1>7, <1>8, <1>9 DEF TypesInv

\* Cached answers that are deleted, by a save or because they expire
LEMMA ForgetTypes ==
  ASSUME TypesInv, UNCHANGED <<perms, views, request, check, intended, shared, aligned, coherent>>,
         tainted' \subseteq tainted, cache' \in [Resource -> {"none", "yes", "no"}],
         \A x \in Resource : cache'[x] \in {cache[x], "none"}
  PROVE  TypesInv'
<1>1. ChecksInv'
  BY AnswerKept DEF TypesInv, ChecksInv, CheckSound
<1>2. RequestsInv'
  BY DEF TypesInv, RequestsInv, RequestSound, PlanSound, SharesDataset, Viewing, Active, Creates
<1>3. TypeOK'
  BY DEF TypesInv, TypeOK, perms
<1> QED BY <1>1, <1>2, <1>3 DEF TypesInv

LEMMA ExpireEffect ==
  ASSUME TypesInv, NEW x \in Resource, Expire(x)
  PROVE  /\ cache' \in [Resource -> {"none", "yes", "no"}]
         /\ \A y \in Resource : cache'[y] \in {cache[y], "none"}
         /\ UNCHANGED <<perms, views, request, check, intended, shared, aligned, coherent, tainted>>
BY DEF Expire, TypesInv, TypeOK, history

LEMMA SaveViewEffect ==
  ASSUME TypesInv, NEW v \in View, SaveView(v)
  PROVE  /\ cache' \in [Resource -> {"none", "yes", "no"}]
         /\ \A y \in Resource : cache'[y] = IF y[1] = v THEN "none" ELSE cache[y]
         /\ tainted' = tainted \ {v}
         /\ UNCHANGED <<perms, views, request, check, intended, shared, aligned, coherent>>
BY DEF SaveView, Cleared, TypesInv, TypeOK

LEMMA StutterTypes ==
  ASSUME TypesInv, UNCHANGED vars
  PROVE  TypesInv'
<1>1. /\ UNCHANGED <<perms, views, request, check, intended, shared, aligned, coherent, tainted>>
      /\ UNCHANGED cache
  BY DEF vars, history
<1>2. cache' \in [Resource -> {"none", "yes", "no"}] /\ tainted' \subseteq tainted
      /\ \A x \in Resource : cache'[x] \in {cache[x], "none"}
  BY <1>1 DEF TypesInv, TypeOK
<1> QED BY <1>1, <1>2, ForgetTypes

LEMMA TypesStep ==
  ASSUME TypesInv, [Next]_vars
  PROVE  TypesInv'
<1>1. ASSUME NEW q \in Request, Ask(q) PROVE TypesInv'
  BY <1>1, GrantTypes, RevokeTypes, DowngradeTypes, ExternalTypes, CreateTypes DEF Ask
<1>2. ASSUME NEW q \in Request, Carry(q) PROVE TypesInv'
  BY <1>2, FindUsersTypes, GrantOnCreationTypes, StepTypes, ListViewsTypes, NextViewTypes, EndTypes
     DEF Carry
<1>3. ASSUME NEW c \in Check, Store(c) \/ \E x \in Resource : ReadPerms(c, x) PROVE TypesInv'
  BY <1>3, StoreTypes, ReadPermsTypes
<1>4. ASSUME NEW v \in View, SaveView(v) PROVE TypesInv'
  <2>1. /\ cache' \in [Resource -> {"none", "yes", "no"}]
        /\ \A y \in Resource : cache'[y] = IF y[1] = v THEN "none" ELSE cache[y]
        /\ tainted' = tainted \ {v}
        /\ UNCHANGED <<perms, views, request, check, intended, shared, aligned, coherent>>
    BY <1>4, SaveViewEffect
  <2>2. \A y \in Resource : cache'[y] \in {cache[y], "none"}
    BY <2>1
  <2> QED BY <2>1, <2>2, ForgetTypes
<1>5. ASSUME NEW x \in Resource, Expire(x) PROVE TypesInv'
  <2>1. /\ cache' \in [Resource -> {"none", "yes", "no"}]
        /\ \A y \in Resource : cache'[y] \in {cache[y], "none"}
        /\ UNCHANGED <<perms, views, request, check, intended, shared, aligned, coherent, tainted>>
    BY <1>5, ExpireEffect
  <2> QED BY <2>1, ForgetTypes
<1>6. CASE UNCHANGED vars
  BY <1>6, StutterTypes
<1> QED
  BY <1>1, <1>2, <1>3, <1>4, <1>5, <1>6 DEF Next

THEOREM TypesInvariant == Spec => []TypesInv
BY InitTypes, TypesStep, PTL DEF Spec

\* Every variable keeps its type, for any numbers of views, levels and
\* changes; a view that does not exist has no permissions.
THEOREM TypeCorrect == Spec => []TypeOK
<1>1. TypesInv => TypeOK
  BY DEF TypesInv
<1> QED BY <1>1, TypesInvariant, PTL

-----------------------------------------------------------------------------
(* The role is whole                                                       *)

LEMMA OutcomeOfNothing == \A S : Outcome(S, <<>>) = S
BY DEF Outcome, Removed, Assigned, Range

\* The permission a step removes or assigns was planned.
LEMMA StepKeepsOutcome ==
  ASSUME NEW plan \in Seq(Op), plan # <<>>, Ordered(plan), NEW S
  PROVE  LET op == Head(plan)
             rest == Tail(plan)
         IN  /\ op[1] = "remove" => Outcome(S \ {op[2]}, rest) = Outcome(S, plan)
             /\ op[1] = "assign" => Outcome(S \cup {op[2]}, rest) = Outcome(S, plan)
             /\ op = Reset => Outcome(S, rest) = Outcome(S, plan)
<1> DEFINE op == Head(plan)
           rest == Tail(plan)
<1>1. \/ /\ op[1] = "remove" /\ Removed(plan) = Removed(rest) \cup {op[2]}
         /\ Assigned(plan) = Assigned(rest)
      \/ /\ op[1] = "assign" /\ Removed(plan) = {} /\ Removed(rest) = {}
         /\ Assigned(plan) = Assigned(rest) \cup {op[2]}
      \/ /\ op[1] = "reset" /\ Removed(plan) = {} /\ Removed(rest) = {}
         /\ Assigned(plan) = {} /\ Assigned(rest) = {}
  BY FirstOperation
<1>2. Reset[1] = "reset"
  BY DEF Reset
<1> HIDE DEF op, rest
<1>3. op[1] = "remove" => Outcome(S \ {op[2]}, rest) = Outcome(S, plan)
  BY <1>1 DEF Outcome
<1>4. op[1] = "assign" => Outcome(S \cup {op[2]}, rest) = Outcome(S, plan)
  BY <1>1 DEF Outcome
<1>5. op = Reset => Outcome(S, rest) = Outcome(S, plan)
  BY <1>1, <1>2 DEF Outcome
<1> QED BY <1>3, <1>4, <1>5 DEF op, rest

\* The change of the dataset that q is at leaves what it should.
Whole(q) ==
    /\ request[q].role = intended
    /\ request[q].kind # "downgrade" =>
         Range(DatasetList(intended)) =
           IF request[q].pc = "dataset" THEN Outcome(dperm, request[q].plan) ELSE dperm

LEMMA InitDataset == Init => DatasetInv
BY DEF Init, DatasetInv, Shares, Active, Fresh

\* Steps that leave the dataset and those who change it alone
LEMMA DatasetKept ==
  ASSUME DatasetInv, UNCHANGED <<dperm, intended>>,
         \A p \in Request :
           /\ Shares(p)' <=> Shares(p)
           /\ Shares(p) => /\ request'[p].role = request[p].role
                           /\ request'[p].kind = request[p].kind
                           /\ request'[p].pc = request[p].pc
                           /\ request[p].pc = "dataset" => request'[p].plan = request[p].plan
  PROVE  DatasetInv'
<1> SUFFICES ASSUME intended # Unknown
             PROVE  /\ \A p, q \in Request : Shares(p)' /\ Shares(q)' => p = q
                    /\ (\A q \in Request : ~ Shares(q)') => dperm' = Range(DatasetList(intended'))
                    /\ \A q \in Request : Shares(q)' => Whole(q)'
  BY DEF DatasetInv, Whole
<1>1. /\ \A p, q \in Request : Shares(p) /\ Shares(q) => p = q
      /\ (\A q \in Request : ~ Shares(q)) => dperm = Range(DatasetList(intended))
      /\ \A q \in Request : Shares(q) => Whole(q)
  BY DEF DatasetInv, Whole
<1>2. \A q \in Request : Shares(q) /\ Whole(q) => Whole(q)'
  BY DEF Whole
<1> QED BY <1>1, <1>2

\* A change of the dataset begins: it is the only one, or no role is expected.
LEMMA DatasetBegins ==
  ASSUME TypesInv, NEW q \in Request, NEW kind \in {"grant", "revoke", "downgrade"},
         NEW role \in Role, NEW plan \in Seq(Op),
         Begins(q, kind, role, "dataset", plan), Expect(q, role),
         kind # "downgrade" /\ intended' # Unknown /\ (\A p \in Request : ~ Shares(p)) =>
           Outcome(dperm, plan) = Range(DatasetList(role))
  PROVE  DatasetInv'
<1>1. /\ request[q].pc = "idle" /\ ~ Active(q) /\ \A p \in Request \ {q} : Alike(p)
      /\ request'[q] = [kind |-> kind, role |-> role, on |-> "dataset", plan |-> plan, todo |-> {},
                        pc |-> IF "dataset" = "dataset" THEN "dataset" ELSE "views",
                        sole |-> OthersActive(q) = {}]
      /\ UNCHANGED <<perms, views, cache, check>>
  BY BeginsEffect DEF TypesInv
<1>2. /\ request'[q].kind = kind /\ request'[q].role = role /\ request'[q].pc = "dataset"
      /\ request'[q].plan = plan
  BY <1>1
<1> SUFFICES ASSUME intended' # Unknown
             PROVE  /\ \A p, r \in Request : Shares(p)' /\ Shares(r)' => p = r
                    /\ (\A r \in Request : ~ Shares(r)') => dperm' = Range(DatasetList(intended'))
                    /\ \A r \in Request : Shares(r)' => Whole(r)'
  BY DEF DatasetInv, Whole
<1>3. intended' = role /\ \A p \in Request \ {q} : ~ Shares(p)
  BY DEF Expect, OthersActive, Shares
<1>4. \A p \in Request : ~ Shares(p)
  BY <1>1, <1>3 DEF Shares
<1>5. ASSUME NEW p \in Request \ {q} PROVE ~ Shares(p)'
  BY <1>1, <1>3, AlikeFields DEF TypesInv
<1>6. Shares(q)'
  BY <1>2 DEF Shares, Active, SharesDataset
<1>7. Whole(q)'
  BY <1>1, <1>2, <1>3, <1>4 DEF Whole, perms
<1> QED BY <1>5, <1>6, <1>7

LEMMA DatasetStep ==
  ASSUME TypesInv, DatasetInv, NEW q \in Request, Step(q)
  PROVE  DatasetInv'
<1> DEFINE plan == request[q].plan
           op == Head(plan)
           rest == Tail(plan)
<1>1. /\ plan \in Seq(Op) /\ plan # <<>> /\ Ordered(plan) /\ Active(q)
      /\ request' = [request EXCEPT ![q].plan = rest]
      /\ UNCHANGED <<views, intended, shared, aligned, coherent>>
      /\ \/ request[q].pc = "views" /\ dperm' = dperm
         \/ /\ request[q].pc = "dataset" /\ Shares(q)
            /\ \/ op[1] = "remove" /\ dperm' = dperm \ {op[2]}
               \/ op[1] = "assign" /\ dperm' = dperm \cup {op[2]}
  BY StepEffect DEF perms
<1>2. request \in [Request -> RequestState]
  BY DEF TypesInv, RequestsInv
<1>3. /\ \A p \in Request \ {q} : request'[p] = request[p]
      /\ request'[q].kind = request[q].kind /\ request'[q].pc = request[q].pc
      /\ request'[q].role = request[q].role /\ request'[q].plan = rest
  BY <1>1, <1>2 DEF RequestState
<1>4. \A p \in Request : Shares(p)' <=> Shares(p)
  BY <1>3 DEF Shares, Active, SharesDataset
<1> HIDE DEF op, rest
<1>5. CASE request[q].pc = "views" /\ dperm' = dperm
  BY <1>1, <1>3, <1>4, <1>5, DatasetKept
<1>6. CASE /\ request[q].pc = "dataset" /\ Shares(q)
           /\ \/ op[1] = "remove" /\ dperm' = dperm \ {op[2]}
              \/ op[1] = "assign" /\ dperm' = dperm \cup {op[2]}
  <2>1. Outcome(dperm', rest) = Outcome(dperm, plan)
    BY <1>1, <1>6, StepKeepsOutcome DEF op, rest
  <2> SUFFICES ASSUME intended # Unknown
               PROVE  /\ \A p, r \in Request : Shares(p)' /\ Shares(r)' => p = r
                      /\ \A r \in Request : Shares(r)' => Whole(r)'
    BY <1>1, <1>4, <1>6 DEF DatasetInv, Whole
  <2>2. \A p, r \in Request : Shares(p)' /\ Shares(r)' => p = r
    BY <1>4 DEF DatasetInv
  <2>3. Whole(q)
    BY <1>6 DEF DatasetInv, Whole
  <2>4. Whole(q)'
    BY <1>1, <1>3, <1>6, <2>1, <2>3 DEF Whole
  <2> QED BY <1>4, <1>6, <2>2, <2>4
<1> QED BY <1>1, <1>5, <1>6 DEF op

LEMMA DatasetEnd ==
  ASSUME TypesInv, DatasetInv, NEW q \in Request, End(q)
  PROVE  DatasetInv'
<1>1. /\ Active(q) /\ request[q].pc = "views"
      /\ \A p \in Request \ {q} : request'[p] = request[p]
      /\ UNCHANGED <<perms, views, cache, check, intended, shared, aligned, tainted>>
  BY EndEffect
<1>2. \A p \in Request \ {q} : Shares(p)' <=> Shares(p)
  BY <1>1 DEF Shares, Active, SharesDataset
<1> SUFFICES ASSUME intended # Unknown
             PROVE  /\ \A p, r \in Request : Shares(p)' /\ Shares(r)' => p = r
                    /\ (\A r \in Request : ~ Shares(r)') => dperm' = Range(DatasetList(intended'))
                    /\ \A r \in Request : Shares(r)' => Whole(r)'
  BY <1>1 DEF DatasetInv, Whole
<1>3. /\ \A p, r \in Request : Shares(p) /\ Shares(r) => p = r
      /\ (\A r \in Request : ~ Shares(r)) => dperm = Range(DatasetList(intended))
      /\ \A r \in Request : Shares(r) => Whole(r)
  BY DEF DatasetInv, Whole
<1>4. \A p \in Request \ {q} : Whole(p) => Whole(p)'
  BY <1>1 DEF Whole, perms
<1>5. CASE request[q].kind = "downgrade"
  <2>1. /\ request'[q].kind = "grant" /\ request[q].role = Viewer(1) /\ request'[q].role = Viewer(1)
        /\ request'[q].pc = "dataset" /\ request'[q].plan = GrantDataset(Viewer(1))
    BY <1>5, EndEffect
  <2>2. Shares(q) /\ Shares(q)'
    BY <1>1, <1>5, <2>1 DEF Shares, Active, SharesDataset
  <2>3. Outcome(dperm, GrantDataset(Viewer(1))) = Range(DatasetList(Viewer(1)))
    BY GrantDatasetPlan, Constants DEF TypesInv, TypeOK
  <2>4. intended = Viewer(1)
    BY <1>3, <2>1, <2>2 DEF Whole
  <2>5. Whole(q)'
    BY <1>1, <2>1, <2>3, <2>4 DEF Whole, perms
  <2> QED BY <1>2, <1>3, <1>4, <2>2, <2>5
<1>6. CASE request[q].kind # "downgrade"
  <2>1. ~ Shares(q)'
    BY <1>6, EndEffect DEF Shares
  <2>2. Shares(q) => dperm = Range(DatasetList(intended))
    BY <1>1, <1>3, <1>6 DEF Whole
  <2>3. (\A r \in Request : ~ Shares(r)') => dperm = Range(DatasetList(intended))
    BY <1>2, <1>3, <2>2
  <2> QED BY <1>1, <1>2, <1>3, <1>4, <2>1, <2>3 DEF perms
<1> QED BY <1>5, <1>6

LEMMA DatasetStepAll ==
  ASSUME TypesInv, DatasetInv, [Next]_vars
  PROVE  DatasetInv'
<1>0. dperm \subseteq DatasetPerm /\ intended \in Role \cup {Unknown}
      /\ request \in [Request -> RequestState]
      /\ \A q \in Request : request[q] \in RequestState /\ RequestSound(q)
  BY DEF TypesInv, TypeOK, RequestsInv
<1>1. ASSUME NEW q \in Request, NEW role \in Role, Grant(q, role) PROVE DatasetInv'
  <2>1. role # NoRole /\ Begins(q, "grant", role, "dataset", GrantDataset(role)) /\ Expect(q, role)
    BY <1>1 DEF Grant
  <2>2. GrantDataset(role) \in Seq(Op) /\ Outcome(dperm, GrantDataset(role)) = Range(DatasetList(role))
    BY <1>0, <2>1, GrantDatasetPlan
  <2> QED BY <2>1, <2>2, DatasetBegins
<1>2. ASSUME NEW q \in Request, Revoke(q) PROVE DatasetInv'
  <2>1. Begins(q, "revoke", NoRole, "dataset", RevokeDataset) /\ Expect(q, NoRole)
    BY <1>2 DEF Revoke
  <2>2. RevokeDataset \in Seq(Op)
        /\ \A role \in Role : dperm = Range(DatasetList(role)) => Outcome(dperm, RevokeDataset) = {}
    BY RevokeDatasetPlan
  <2>3. Range(DatasetList(NoRole)) = {}
    BY RolePermissions, Constants
  <2>4. intended' # Unknown => intended # Unknown
    BY <2>1 DEF Expect
  <2>5. intended' # Unknown /\ (\A p \in Request : ~ Shares(p)) =>
          Outcome(dperm, RevokeDataset) = Range(DatasetList(NoRole))
    BY <1>0, <2>2, <2>3, <2>4 DEF DatasetInv
  <2> QED BY <2>1, <2>2, <2>5, DatasetBegins, Constants
<1>3. ASSUME NEW q \in Request, Downgrade(q) PROVE DatasetInv'
  <2>1. Begins(q, "downgrade", Viewer(1), "dataset", RevokeDataset) /\ Expect(q, Viewer(1))
    BY <1>3 DEF Downgrade
  <2> QED BY <2>1, RevokeDatasetPlan, DatasetBegins, Constants
<1>4. ASSUME NEW q \in Request, NEW v \in View, NEW l \in Level \cup {0}, GrantExternal(q, v, l)
      PROVE DatasetInv'
  <2>1. Begins(q, "external", NoRole, v, ShareView(l)) /\ UNCHANGED history
    BY <1>4 DEF GrantExternal
  <2>2. /\ ~ Active(q) /\ \A p \in Request \ {q} : Alike(p)
        /\ request'[q] = [kind |-> "external", role |-> NoRole, on |-> v, plan |-> ShareView(l),
                          todo |-> {}, pc |-> IF v = "dataset" THEN "dataset" ELSE "views",
                          sole |-> OthersActive(q) = {}]
        /\ UNCHANGED <<perms, views, cache, check>>
    BY <2>1, BeginsEffect, ShareViewPlan, Constants DEF TypesInv
  <2>3. ~ Shares(q) /\ ~ Shares(q)'
    BY <2>2 DEF Shares, SharesDataset
  <2> QED BY <2>1, <2>2, <2>3, AlikeFields, DatasetKept DEF TypesInv, perms, history
<1>5. ASSUME NEW q \in Request, NEW v \in View, CreateView(q, v) PROVE DatasetInv'
  <2>1. /\ request[q].pc = "idle" /\ UNCHANGED <<perms, intended>>
        /\ request' = [request EXCEPT ![q] = [Fresh EXCEPT !.kind = "create",
                                                           !.pc = "created", !.on = v]]
    BY <1>5 DEF CreateView
  <2>2. request'[q].kind = "create" /\ \A p \in Request \ {q} : request'[p] = request[p]
    BY <1>0, <2>1 DEF Fresh
  <2>3. ~ Shares(q) /\ ~ Shares(q)'
    BY <2>1, <2>2 DEF Shares, SharesDataset, Active
  <2>4. \A p \in Request \ {q} : Shares(p)' <=> Shares(p)
    BY <2>2 DEF Shares, SharesDataset, Active
  <2> QED BY <2>1, <2>2, <2>3, <2>4, DatasetKept DEF perms
<1>6. ASSUME NEW q \in Request, FindUsers(q) \/ GrantOnCreation(q) PROVE DatasetInv'
  <2>1. request[q].pc \in {"created", "found"} /\ UNCHANGED <<perms, history>>
    BY <1>6 DEF FindUsers, GrantOnCreation
  <2>2. \A p \in Request \ {q} : request'[p] = request[p]
    BY <1>0, <1>6 DEF FindUsers, GrantOnCreation
  <2>3. request'[q].kind = request[q].kind
    BY <1>0, <1>6 DEF FindUsers, GrantOnCreation, RequestState
  <2>4. ~ Shares(q) /\ ~ Shares(q)'
    BY <1>0, <2>1, <2>3 DEF Shares, SharesDataset, RequestSound
  <2>5. \A p \in Request \ {q} : Shares(p)' <=> Shares(p)
    BY <2>2 DEF Shares, SharesDataset, Active
  <2> QED BY <2>1, <2>2, <2>4, <2>5, DatasetKept DEF perms, history
<1>7. ASSUME NEW q \in Request, ListViews(q) PROVE DatasetInv'
  <2>1. /\ Active(q) /\ request[q].pc = "dataset" /\ request[q].plan = <<>>
        /\ UNCHANGED <<perms, history>>
    BY <1>7 DEF ListViews, Through
  <2>2. /\ \A p \in Request \ {q} : request'[p] = request[p]
        /\ request'[q].kind = request[q].kind /\ request'[q].role = request[q].role
        /\ request'[q].pc = "views"
    BY <1>0, <1>7 DEF ListViews, RequestState
  <2>3. \A p \in Request : Shares(p)' <=> Shares(p)
    BY <2>1, <2>2 DEF Shares, SharesDataset, Active
  <2>4. Whole(q) => Whole(q)'
    BY <2>1, <2>2, OutcomeOfNothing DEF Whole, perms, history
  <2>5. \A p \in Request \ {q} : Whole(p) => Whole(p)'
    BY <2>1, <2>2 DEF Whole, perms, history
  <2>6. Shares(q)
    BY <1>0, <2>1 DEF Shares, RequestSound
  <2> QED BY <2>1, <2>3, <2>4, <2>5, <2>6 DEF DatasetInv, Whole, perms, history
<1>8. ASSUME NEW q \in Request, NextView(q) PROVE DatasetInv'
  <2>1. /\ request[q].pc = "views" /\ UNCHANGED <<perms, history>>
    BY <1>8 DEF NextView
  <2>2. /\ \A p \in Request \ {q} : request'[p] = request[p]
        /\ request'[q].kind = request[q].kind /\ request'[q].role = request[q].role
        /\ request'[q].pc = "views"
    BY <1>0, <1>8 DEF NextView, RequestState
  <2>3. \A p \in Request : Shares(p)' <=> Shares(p)
    BY <2>1, <2>2 DEF Shares, SharesDataset, Active
  <2> QED BY <2>1, <2>2, <2>3, DatasetKept DEF perms, history
<1>9. CASE UNCHANGED <<dperm, intended, request>>
  BY <1>9 DEF DatasetInv, Shares, Active, SharesDataset
<1>10. ASSUME NEW q \in Request, Ask(q) \/ Carry(q) PROVE DatasetInv'
  BY <1>1, <1>2, <1>3, <1>4, <1>5, <1>6, <1>7, <1>8, <1>10, DatasetStep, DatasetEnd DEF Ask, Carry
<1>11. (\E c \in Check : Store(c) \/ \E x \in Resource : ReadPerms(c, x))
        \/ (\E v \in View : SaveView(v)) \/ (\E x \in Resource : Expire(x)) \/ UNCHANGED vars
       => UNCHANGED <<dperm, intended, request>>
  BY DEF Store, ReadPerms, SaveView, Expire, vars, perms, history
<1> QED
  BY <1>9, <1>10, <1>11 DEF Next

THEOREM DatasetInvariant == Spec => []DatasetInv
<1>1. TypesInv /\ DatasetInv /\ [Next]_vars => DatasetInv'
  BY DatasetStepAll
<1> QED BY <1>1, InitDataset, TypesInvariant, PTL DEF Spec

\* After changes of the dataset that followed one another, however many, the
\* user has exactly the permissions of the last role: a grant removes what
\* another role left, a revocation finds the highest role and all below it.
THEOREM RolesWhole == Spec => []RoleWhole
<1>1. DatasetInv => RoleWhole
  BY DEF DatasetInv, RoleWhole, Quiet, Shares
<1> QED BY <1>1, DatasetInvariant, PTL

-----------------------------------------------------------------------------
(* The views follow                                                        *)

\* Only "own", "manage" and "view" count.
LEMMA PlainCounts ==
  ASSUME NEW S, NEW T, S \cap Plain = T \cap Plain
  PROVE  /\ \A v : Follows(v, S) <=> Follows(v, T)
         /\ Nested(S) <=> Nested(T)
         /\ \A plan : Outcome(S, plan) \cap Plain = Outcome(T, plan) \cap Plain
<1>1. Range(OwnView) = Plain
  BY ViewLists
<1>2. \A v : Follows(v, S) <=> Follows(v, T)
  BY <1>1 DEF Follows
<1>3. Nested(S) <=> Nested(T)
  BY DEF Nested, Plain
<1>4. \A plan : Outcome(S, plan) \cap Plain = Outcome(T, plan) \cap Plain
  BY DEF Outcome
<1> QED BY <1>2, <1>3, <1>4

\* For a request that goes on as it was, and a view whose permissions that
\* count are as they were, nothing is new.
LEMMA RightKept ==
  ASSUME RequestsInv, NEW p \in Request, Alike(p), NEW v
  PROVE  /\ Comes(p, v)' <=> Comes(p, v)
         /\ Is(p, v)' <=> Is(p, v)
         /\ intended' = intended /\ vperm'[v] \cap Plain = vperm[v] \cap Plain /\ Right(p, v)
              => Right(p, v)'
<1>1. /\ request'[p].kind = request[p].kind /\ request'[p].pc = request[p].pc
      /\ request'[p].on = request[p].on
      /\ request'[p].plan = request[p].plan /\ request'[p].todo = request[p].todo
      /\ Active(p)' <=> Active(p)
      /\ Shares(p)' <=> Shares(p)
      /\ Creates(p)' <=> Creates(p)
  BY AlikeFields
<1>2. Comes(p, v)' <=> Comes(p, v)
  BY <1>1 DEF Comes
<1>3. Is(p, v)' <=> Is(p, v)
  BY <1>1 DEF Is
<1>4. ASSUME intended' = intended, vperm'[v] \cap Plain = vperm[v] \cap Plain, Right(p, v)
      PROVE  Right(p, v)'
  <2> DEFINE plan == request[p].plan
  <2>1. /\ Nested(vperm'[v]) <=> Nested(vperm[v])
        /\ Outcome(vperm'[v], plan) \cap Plain = Outcome(vperm[v], plan) \cap Plain
    BY <1>4, PlainCounts
  <2>2. Follows(v, Outcome(vperm'[v], plan)) <=> Follows(v, Outcome(vperm[v], plan))
    BY <2>1, PlainCounts
  <2>3. Is(p, v)' => Follows(v, Outcome(vperm[v], request[p].plan))'
    BY <1>1, <1>3, <1>4, <2>2 DEF Right, Follows
  <2>4. (request[p].kind = "revoke" /\ Comes(p, v))' => Nested(vperm[v])'
    BY <1>1, <1>2, <1>4, <2>1 DEF Right, Nested
  <2>5. (Creates(p) /\ Comes(p, v))' =>
          /\ v \notin Old /\ vperm'[v] \cap Plain = {}
          /\ request'[p].pc = "found" => intended' # NoRole
    BY <1>1, <1>2, <1>4 DEF Right
  <2> QED BY <2>3, <2>4, <2>5 DEF Right
<1> QED BY <1>2, <1>3, <1>4

\* Only q goes on, and no permission that counts changes.
LEMMA ViewsKept ==
  ASSUME TypesInv, ViewsInv, NEW q \in Request, \A p \in Request \ {q} : Alike(p),
         UNCHANGED <<intended, views>>, aligned' => aligned,
         \A v \in views : vperm'[v] \cap Plain = vperm[v] \cap Plain,
         Shares(q)' => Shares(q),
         (Active(q) /\ Creates(q))' => Active(q) /\ Creates(q),
         intended # Unknown /\ aligned =>
           \A v \in views :
             /\ Comes(q, v) \/ Is(q, v) => Served(v)'
             /\ Right(q, v)'
  PROVE  ViewsInv'
<1> SUFFICES ASSUME intended # Unknown, aligned
             PROVE  /\ \A p, r \in Request : Shares(p)' => ~ (Active(r) /\ Creates(r))'
                    /\ \A v \in views : Served(v)'
                    /\ \A r \in Request, v \in views : Right(r, v)'
  BY DEF ViewsInv
<1>1. RequestsInv
  BY DEF TypesInv
<1>2. \A p, r \in Request : Shares(p)' => ~ (Active(r) /\ Creates(r))'
  <2>1. \A p \in Request : (Shares(p)' => Shares(p))
                           /\ ((Active(p) /\ Creates(p))' => Active(p) /\ Creates(p))
    BY <1>1, AlikeFields
  <2> QED BY <2>1 DEF ViewsInv
<1>3. ASSUME NEW v \in views PROVE Served(v)'
  <2>1. CASE Comes(q, v) \/ Is(q, v)
    BY <2>1
  <2>2. CASE \E p \in Request \ {q} : Comes(p, v) \/ Is(p, v)
    <3>1. PICK p \in Request \ {q} : Comes(p, v) \/ Is(p, v)
      BY <2>2
    <3>2. Comes(p, v)' \/ Is(p, v)'
      BY <1>1, <3>1, RightKept
    <3> QED BY <3>2 DEF Served
  <2>3. CASE Follows(v, vperm[v])
    <3>1. Follows(v, vperm'[v])
      BY <2>3, PlainCounts
    <3>2. Follows(v, vperm[v])'
      BY <3>1 DEF Follows
    <3> QED BY <3>2 DEF Served
  <2> QED BY <2>1, <2>2, <2>3 DEF ViewsInv, Served
<1>4. ASSUME NEW r \in Request, NEW v \in views PROVE Right(r, v)'
  <2>1. CASE r = q
    BY <2>1
  <2>2. CASE r # q
    <3>1. Alike(r) /\ Right(r, v)
      BY <2>2 DEF ViewsInv
    <3> QED BY <1>1, <3>1, RightKept
  <2> QED BY <2>1, <2>2
<1> QED BY <1>2, <1>3, <1>4

LEMMA InitViews == Init => ViewsInv
<1> SUFFICES ASSUME NEW role \in Role,
                    vperm = [v \in View |-> IF v \in Old THEN Range(ViewList(role)) ELSE {}],
                    views = Old, request = [q \in Request |-> Fresh], intended = role
             PROVE  ViewsInv
  BY DEF Init
<1>1. \A q \in Request : ~ Active(q) /\ ~ Shares(q) /\ ~ Creates(q) /\ request[q].kind = "none"
  BY DEF Active, Fresh, Shares, Creates
<1>2. \A v \in views : vperm[v] = Range(ViewList(role))
  BY Constants
<1>3. \A v \in views : Follows(v, vperm[v])
  BY <1>2, RolePermissions, ViewLists DEF Follows
<1> QED BY <1>1, <1>3 DEF ViewsInv, Served, Right, Is

\* A change of the dataset begins, and overlaps none and no creation.
LEMMA ViewsBegin ==
  ASSUME TypesInv, NEW q \in Request, NEW kind \in {"grant", "revoke", "downgrade"},
         NEW role \in Role, NEW plan \in Seq(Op),
         Begins(q, kind, role, "dataset", plan), Expect(q, role),
         intended' # Unknown /\ aligned' /\ kind = "revoke" => \A v \in views : Nested(vperm[v])
  PROVE  ViewsInv'
<1>1. /\ ~ Active(q) /\ \A p \in Request \ {q} : Alike(p)
      /\ request'[q] = [kind |-> kind, role |-> role, on |-> "dataset", plan |-> plan, todo |-> {},
                        pc |-> IF "dataset" = "dataset" THEN "dataset" ELSE "views",
                        sole |-> OthersActive(q) = {}]
      /\ UNCHANGED <<perms, views, cache, check>>
  BY BeginsEffect DEF TypesInv
<1>2. /\ request'[q].kind = kind /\ request'[q].pc = "dataset" /\ ~ Creates(q)' /\ Active(q)'
  BY <1>1 DEF Creates, Active
<1> SUFFICES ASSUME intended' # Unknown, aligned'
             PROVE  /\ \A p, r \in Request : Shares(p)' => ~ (Active(r) /\ Creates(r))'
                    /\ \A v \in views : Served(v)'
                    /\ \A r \in Request, v \in views : Right(r, v)'
  BY <1>1 DEF ViewsInv
<1>3. \A p \in Request \ {q} : ~ Shares(p) /\ ~ (Active(p) /\ Creates(p))
  BY DEF Expect, OthersActive, Shares
<1>4. ASSUME NEW p \in Request \ {q}
      PROVE  ~ Shares(p)' /\ ~ (Active(p) /\ Creates(p))' /\ \A v : ~ Is(p, v)' /\ ~ Comes(p, v)'
  <2>1. ~ Shares(p)' /\ ~ (Active(p) /\ Creates(p))'
    BY <1>1, <1>3, AlikeFields DEF TypesInv
  <2>2. \A v : ~ Is(p, v)' /\ ~ Comes(p, v)'
    BY <2>1 DEF Is, Comes, Shares, SharesDataset, Creates, Active
  <2> QED BY <2>1, <2>2
<1>5. Shares(q)' /\ \A v \in views : Comes(q, v)' /\ ~ Is(q, v)'
  BY <1>1, <1>2 DEF Shares, SharesDataset, Comes, Is
<1>6. \A v \in views : Served(v)'
  BY <1>5 DEF Served
<1>7. ASSUME NEW r \in Request, NEW v \in views PROVE Right(r, v)'
  <2>1. CASE r = q
    <3>1. kind = "revoke" => Nested(vperm[v])'
      BY <1>1 DEF Nested, perms
    <3> QED BY <1>2, <1>5, <2>1, <3>1 DEF Right
  <2>2. CASE r # q
    BY <1>4, <2>2 DEF Right
  <2> QED BY <2>1, <2>2
<1> QED BY <1>2, <1>4, <1>6, <1>7

\* Every role gives "own", "manage" and "view" in that order.
LEMMA FollowsNested ==
  ASSUME intended \in Role, NEW v, NEW S, Follows(v, S)
  PROVE  Nested(S)
<1>1. \/ S \cap Plain = {} \/ S \cap Plain = {P("view")}
      \/ S \cap Plain = {P("manage"), P("view")} \/ S \cap Plain = Plain
  <2>1. Range(<<>>) = {}
    BY DEF Range
  <2>2. \/ Range(ViewList(intended)) = {} \/ Range(ViewList(intended)) = {P("view")}
        \/ Range(ViewList(intended)) = {P("manage"), P("view")}
        \/ Range(ViewList(intended)) = Plain
    BY <2>1, RoleLists, ViewLists
  <2> QED BY <2>2, ViewLists DEF Follows
<1> QED BY <1>1, Permissions DEF Nested, Plain

LEMMA RevokeViews ==
  ASSUME TypesInv, ViewsInv, NEW q \in Request, Revoke(q)
  PROVE  ViewsInv'
<1>1. Begins(q, "revoke", NoRole, "dataset", RevokeDataset) /\ Expect(q, NoRole)
  BY DEF Revoke
<1>2. ASSUME intended' # Unknown, aligned', NEW v \in views PROVE Nested(vperm[v])
  <2>1. intended # Unknown /\ aligned
    BY <1>1, <1>2 DEF Expect
  <2>2. \A p \in Request \ {q} : ~ Shares(p) /\ ~ (Active(p) /\ Creates(p))
    BY <1>1, <1>2 DEF Expect, OthersActive, Shares
  <2>3. ~ Active(q)
    BY <1>1 DEF Begins, Active
  <2>4. \A p \in Request : ~ Comes(p, v) /\ ~ Is(p, v)
    BY <2>2, <2>3 DEF Comes, Is, Shares, SharesDataset, Creates, Active
  <2>5. Follows(v, vperm[v]) /\ intended \in Role
    BY <2>1, <2>4 DEF ViewsInv, Served, TypesInv, TypeOK
  <2> QED BY <2>5, FollowsNested
<1> QED BY <1>1, <1>2, RevokeDatasetPlan, ViewsBegin, Constants

LEMMA CreateViews ==
  ASSUME TypesInv, ViewsInv, NEW q \in Request, NEW w \in View, CreateView(q, w)
  PROVE  ViewsInv'
<1> DEFINE new == [Fresh EXCEPT !.kind = "create", !.pc = "created", !.on = w]
<1>1. /\ w \notin views /\ request[q].pc = "idle" /\ views' = views \cup {w}
      /\ request' = [request EXCEPT ![q] = new] /\ UNCHANGED <<perms, intended>>
      /\ aligned' = (aligned /\ \A p \in OthersActive(q) : ~ SharesDataset(p))
  BY DEF CreateView
<1>2. new.kind = "create" /\ new.pc = "created" /\ new.on = w
  BY DEF Fresh
<1> HIDE DEF new
<1>3. RequestsInv /\ request'[q] = new /\ (\A p \in Request \ {q} : Alike(p))
      /\ \A p \in Request : RequestSound(p) /\ request[p] \in RequestState
  BY <1>1 DEF TypesInv, RequestsInv, Alike
<1> SUFFICES ASSUME intended # Unknown, aligned, \A p \in OthersActive(q) : ~ SharesDataset(p)
             PROVE  /\ \A p, r \in Request : Shares(p)' => ~ (Active(r) /\ Creates(r))'
                    /\ \A v \in views \cup {w} : Served(v)'
                    /\ \A r \in Request, v \in views \cup {w} : Right(r, v)'
  BY <1>1 DEF ViewsInv
<1>4. ~ Active(q) /\ Active(q)' /\ Creates(q)' /\ ~ Shares(q)'
  BY <1>1, <1>2, <1>3 DEF Active, Creates, Shares, SharesDataset
<1>5. \A p \in Request : ~ Shares(p)'
  <2>1. \A p \in Request \ {q} : ~ Shares(p)
    BY DEF OthersActive, Shares
  <2> QED BY <1>3, <1>4, <2>1, AlikeFields
<1>6. \A v : (Comes(q, v)' <=> v = w) /\ ~ Is(q, v)'
  BY <1>2, <1>3, <1>4, <1>5 DEF Comes, Is
<1>7. \A v : ~ Comes(q, v) /\ ~ Is(q, v)
  BY <1>4, <1>1 DEF Comes, Is, Shares
<1>8. ASSUME NEW v \in views \cup {w} PROVE Served(v)'
  <2>1. CASE v = w
    BY <1>6, <2>1 DEF Served
  <2>2. CASE \E p \in Request \ {q} : Comes(p, v) \/ Is(p, v)
    <3>1. PICK p \in Request \ {q} : Comes(p, v) \/ Is(p, v)
      BY <2>2
    <3>2. Comes(p, v)' \/ Is(p, v)'
      BY <1>3, <3>1, RightKept
    <3> QED BY <3>2 DEF Served
  <2>3. CASE Follows(v, vperm[v])
    BY <1>1, <2>3 DEF Served, Follows, perms
  <2> QED BY <1>7, <2>1, <2>2, <2>3 DEF ViewsInv, Served
<1>9. ASSUME NEW r \in Request, NEW v \in views \cup {w} PROVE Right(r, v)'
  <2>1. vperm'[v] \cap Plain = vperm[v] \cap Plain
    BY <1>1 DEF perms
  <2>2. CASE r = q
    <3>1. w \notin Old /\ vperm'[w] \cap Plain = {}
      BY <1>1 DEF TypesInv, TypeOK, RequestsInv, perms
    <3> QED BY <1>2, <1>3, <1>6, <2>2, <3>1 DEF Right
  <2>3. CASE r # q /\ v \in views
    BY <1>1, <1>3, <2>1, <2>3, RightKept DEF ViewsInv
  <2>4. CASE r # q /\ v = w
    <3>1. ~ Is(r, w) /\ ~ Shares(r)
      BY <1>1, <1>3, <1>5, <2>4, AlikeFields DEF Is, RequestSound
    <3>2. ~ Comes(r, w)
      BY <1>1, <1>3, <3>1 DEF Comes, RequestSound, Creates
    <3>3. Right(r, w)
      BY <3>1, <3>2 DEF Right
    <3> QED BY <1>1, <1>3, <2>1, <2>4, <3>3, RightKept
  <2> QED BY <2>2, <2>3, <2>4
<1> QED BY <1>5, <1>8, <1>9

LEMMA FindUsersViews ==
  ASSUME TypesInv, DatasetInv, ViewsInv, NEW q \in Request, FindUsers(q)
  PROVE  ViewsInv'
<1>1. /\ request[q].pc = "created" /\ UNCHANGED <<perms, views, cache, check, history>>
      /\ request' = [request EXCEPT ![q].pc = IF dperm = {} THEN "done" ELSE "found"]
  BY DEF FindUsers
<1>2. /\ request[q] \in RequestState /\ RequestSound(q) /\ RequestsInv
      /\ (\A p \in Request \ {q} : Alike(p))
      /\ request'[q].kind = request[q].kind /\ request'[q].on = request[q].on
      /\ request'[q].pc = IF dperm = {} THEN "done" ELSE "found"
  BY <1>1 DEF TypesInv, RequestsInv, Alike, RequestState
<1>3. Creates(q) /\ Active(q) /\ Creates(q)' /\ ~ Shares(q) /\ ~ Shares(q)'
  BY <1>1, <1>2 DEF RequestSound, Creates, Active, Shares, SharesDataset
<1>4. ASSUME intended # Unknown, aligned, NEW v \in views
      PROVE  (Comes(q, v) \/ Is(q, v) => Served(v)') /\ Right(q, v)'
  <2>1. \A p \in Request : ~ Shares(p)
    BY <1>3, <1>4 DEF ViewsInv
  <2>2. dperm = Range(DatasetList(intended)) /\ intended \in Role
    BY <1>4, <2>1 DEF DatasetInv, TypesInv, TypeOK
  <2>3. dperm = {} <=> intended = NoRole
    BY <2>2, RolePermissions
  <2>4. ~ Is(q, v) /\ ~ Is(q, v)' /\ (Comes(q, v) <=> v = request[q].on)
    BY <1>1, <1>2, <1>3 DEF Is, Comes
  <2>5. Comes(q, v) => v \notin Old /\ vperm[v] \cap Plain = {}
    BY <1>3, <1>4 DEF ViewsInv, Right
  <2>6. Comes(q, v)' => Comes(q, v)
    BY <1>2, <1>3, <2>4 DEF Comes
  <2>7. Right(q, v)'
    BY <1>1, <1>2, <1>3, <2>3, <2>4, <2>5, <2>6 DEF Right, perms, history, Creates
  <2>8. CASE dperm # {}
    <3>1. Comes(q, v) => Comes(q, v)'
      BY <1>2, <1>3, <2>4, <2>8 DEF Comes
    <3> QED BY <2>4, <2>7, <3>1 DEF Served
  <2>9. CASE dperm = {}
    <3>1. Comes(q, v) => Follows(v, vperm[v])
      BY <2>3, <2>5, <2>9, RolePermissions, Constants, ViewLists DEF Follows
    <3>2. Comes(q, v) => Follows(v, vperm[v])'
      BY <1>1, <3>1 DEF Follows, perms, history
    <3> QED BY <2>4, <2>7, <3>2 DEF Served
  <2> QED BY <2>8, <2>9
<1> QED BY <1>1, <1>2, <1>3, <1>4, ViewsKept DEF perms, history

LEMMA GrantOnCreationViews ==
  ASSUME TypesInv, DatasetInv, ViewsInv, NEW q \in Request, GrantOnCreation(q)
  PROVE  ViewsInv'
<1> DEFINE plan == CASE dperm \cap {P("upload"), P("add_view")} # {} -> GrantView(<<"manager", 0>>)
                     [] dperm \cap {P("upload"), P("add_view")} = {}
                        /\ \E l \in Level : Read(l) \in dperm -> GrantView(Viewer(1))
                     [] OTHER -> <<>>
<1>1. /\ request[q].pc = "found" /\ UNCHANGED <<perms, views, cache, check, history>>
      /\ request' = [request EXCEPT ![q].pc = "views", ![q].plan = plan]
  BY DEF GrantOnCreation
<1>2. /\ dperm \cap {P("upload"), P("add_view")} # {} => plan = GrantView(<<"manager", 0>>)
      /\ dperm \cap {P("upload"), P("add_view")} = {} /\ (\E l \in Level : Read(l) \in dperm)
           => plan = GrantView(Viewer(1))
  OBVIOUS
<1> HIDE DEF plan
<1>3. /\ request[q] \in RequestState /\ RequestSound(q) /\ RequestsInv
      /\ (\A p \in Request \ {q} : Alike(p))
      /\ request'[q].kind = request[q].kind /\ request'[q].on = request[q].on
      /\ request'[q].pc = "views" /\ request'[q].plan = plan
  BY <1>1 DEF TypesInv, RequestsInv, Alike, RequestState
<1>4. Creates(q) /\ Active(q) /\ Creates(q)' /\ ~ Shares(q) /\ ~ Shares(q)' /\ Active(q)'
  BY <1>1, <1>3 DEF RequestSound, Creates, Active, Shares, SharesDataset
<1>5. ASSUME intended # Unknown, aligned, NEW v \in views
      PROVE  (Comes(q, v) \/ Is(q, v) => Served(v)') /\ Right(q, v)'
  <2>1. \A p \in Request : ~ Shares(p)
    BY <1>4, <1>5 DEF ViewsInv
  <2>2. dperm = Range(DatasetList(intended)) /\ intended \in Role
    BY <1>5, <2>1 DEF DatasetInv, TypesInv, TypeOK
  <2>3. /\ ~ Is(q, v) /\ (Comes(q, v) <=> v = request[q].on)
        /\ ~ Comes(q, v)' /\ (Is(q, v)' <=> v = request[q].on)
    BY <1>1, <1>3, <1>4 DEF Is, Comes, Creates
  <2>4. Comes(q, v) => v \notin Old /\ intended # NoRole
    BY <1>1, <1>4, <1>5 DEF ViewsInv, Right
  <2>5. ASSUME Comes(q, v) PROVE Follows(v, Outcome(vperm[v], plan))
    <3>1. intended # NoRole /\ Read(1) \in dperm /\ 1 \in Level
      BY <2>2, <2>4, <2>5, RolePermissions, Constants
    <3>2. CASE intended[1] = "viewer" /\ intended[2] \in Level
               /\ DatasetList(intended) = Reads(intended[2]) /\ ViewList(intended) = ReadView
      <4>1. dperm \subseteq ReadPerm
        BY <2>2, <3>2, DatasetLists, RangeOfSeq
      <4>2. plan = GrantView(Viewer(1))
        BY <1>2, <3>1, <4>1, Permissions
      <4>3. ViewList(Viewer(1)) = ReadView
        BY DEF ViewList, Viewer
      <4>4. Outcome(vperm[v], plan) \cap Plain = Range(ReadView)
        BY <4>2, <4>3, GrantViewPlan, Constants
      <4> QED BY <3>2, <4>4, ViewLists DEF Follows
    <3>3. CASE DatasetList(intended) \in {WriteDataset, ManageDataset, OwnDataset}
               /\ (ViewList(intended) = ManageView \/ intended[1] = "owner")
      <4>1. P("upload") \in dperm
        BY <2>2, <3>3, DatasetLists, Permissions
      <4>2. plan = GrantView(<<"manager", 0>>)
        BY <1>2, <4>1
      <4>3. ViewList(<<"manager", 0>>) = ManageView
        BY DEF ViewList
      <4>4. Outcome(vperm[v], plan) \cap Plain = Range(ManageView)
        BY <4>2, <4>3, GrantViewPlan, Constants
      <4> QED BY <2>4, <2>5, <3>3, <4>4, ViewLists DEF Follows
    <3> QED BY <2>2, <3>1, <3>2, <3>3, RoleLists
  <2>6. Is(q, v)' => Follows(v, Outcome(vperm[v], request[q].plan))'
    BY <1>1, <1>3, <2>3, <2>5 DEF Follows, perms, history
  <2>7. request'[q].kind # "revoke"
    BY <1>4 DEF Creates
  <2>8. Right(q, v)'
    BY <2>3, <2>6, <2>7 DEF Right
  <2> QED BY <2>3, <2>8 DEF Served
<1> QED BY <1>1, <1>3, <1>4, <1>5, ViewsKept DEF perms, history

LEMMA ExternalViews ==
  ASSUME TypesInv, ViewsInv, NEW q \in Request, NEW w \in View, NEW l \in Level \cup {0},
         GrantExternal(q, w, l)
  PROVE  ViewsInv'
<1>1. Begins(q, "external", NoRole, w, ShareView(l)) /\ UNCHANGED history
  BY DEF GrantExternal
<1>2. /\ ~ Active(q) /\ \A p \in Request \ {q} : Alike(p)
      /\ request'[q] = [kind |-> "external", role |-> NoRole, on |-> w, plan |-> ShareView(l),
                        todo |-> {}, pc |-> IF w = "dataset" THEN "dataset" ELSE "views",
                        sole |-> OthersActive(q) = {}]
      /\ UNCHANGED <<perms, views, cache, check>>
  BY <1>1, BeginsEffect, ShareViewPlan, Constants DEF TypesInv
<1>3. request'[q].kind = "external"
  BY <1>2
<1>4. /\ ~ Shares(q)' /\ ~ Creates(q)' /\ \A v : ~ Comes(q, v)' /\ ~ Is(q, v)'
      /\ \A v : ~ Comes(q, v) /\ ~ Is(q, v)
  BY <1>2, <1>3 DEF Shares, SharesDataset, Creates, Comes, Is, Active
<1>5. \A v : Right(q, v)'
  BY <1>3, <1>4 DEF Right
<1> QED BY <1>1, <1>2, <1>4, <1>5, ViewsKept DEF perms, history

LEMMA StepViews ==
  ASSUME TypesInv, DatasetInv, ViewsInv, NEW q \in Request, Step(q)
  PROVE  ViewsInv'
<1> DEFINE plan == request[q].plan
           op == Head(plan)
           rest == Tail(plan)
           on == request[q].on
<1>1. /\ plan \in Seq(Op) /\ plan # <<>> /\ Ordered(plan) /\ Active(q)
      /\ request[q].pc \in {"dataset", "views"}
      /\ request' = [request EXCEPT ![q].plan = rest]
      /\ UNCHANGED <<views, intended, shared, aligned, coherent>>
      /\ \/ op = Reset /\ vperm' = vperm
         \/ request[q].pc = "dataset" /\ vperm' = vperm
         \/ /\ request[q].pc = "views" /\ on \in views
            /\ request[q].kind = "external" => op[2] \in ExtPerm
            /\ \/ op[1] = "remove" /\ vperm' = [vperm EXCEPT ![on] = @ \ {op[2]}]
               \/ op[1] = "assign" /\ vperm' = [vperm EXCEPT ![on] = @ \cup {op[2]}]
  BY StepEffect DEF perms
<1>2. /\ request[q] \in RequestState /\ RequestSound(q) /\ RequestsInv
      /\ (\A p \in Request \ {q} : Alike(p))
      /\ request'[q].kind = request[q].kind /\ request'[q].on = request[q].on
      /\ request'[q].pc = request[q].pc /\ request'[q].plan = rest
      /\ request'[q].todo = request[q].todo
  BY <1>1 DEF TypesInv, RequestsInv, Alike, RequestState
<1>3. /\ Shares(q)' <=> Shares(q)
      /\ Creates(q)' <=> Creates(q)
      /\ Active(q)'
  BY <1>1, <1>2 DEF Shares, SharesDataset, Creates, Active
<1>4. \A v : /\ Comes(q, v)' <=> Comes(q, v)
             /\ Is(q, v)' <=> Is(q, v)
  BY <1>1, <1>2, <1>3 DEF Comes, Is
<1> HIDE DEF op, rest
<1>5. \A v : Comes(q, v) \/ Is(q, v) => Served(v)'
  BY <1>4 DEF Served
<1>6. ASSUME vperm' = vperm, op = Reset \/ request[q].pc = "dataset" PROVE ViewsInv'
  <2>1. op = Reset => Outcome(vperm[on], rest) = Outcome(vperm[on], plan)
    BY <1>1, StepKeepsOutcome DEF op, rest
  <2>2. ASSUME intended # Unknown, aligned, NEW v \in views PROVE Right(q, v)'
    <3>1. Right(q, v)
      BY <2>2 DEF ViewsInv
    <3>2. Is(q, v) => request[q].pc = "views" /\ on = v
      BY DEF Is
    <3>3. Is(q, v) => Follows(v, Outcome(vperm[v], rest))
      BY <1>6, <2>1, <3>1, <3>2 DEF Right
    <3>4. Is(q, v)' => Follows(v, Outcome(vperm[v], request[q].plan))'
      BY <1>1, <1>2, <1>4, <1>6, <3>3 DEF Follows
    <3>5. (request[q].kind = "revoke" /\ Comes(q, v))' => Nested(vperm[v])'
      BY <1>2, <1>4, <1>6, <3>1 DEF Right, Nested
    <3>6. (Creates(q) /\ Comes(q, v))' =>
            /\ v \notin Old /\ vperm'[v] \cap Plain = {}
            /\ request'[q].pc = "found" => intended' # NoRole
      BY <1>1, <1>2, <1>3, <1>4, <1>6, <3>1 DEF Right
    <3> QED BY <3>4, <3>5, <3>6 DEF Right
  <2> QED BY <1>1, <1>2, <1>3, <1>5, <1>6, <2>2, ViewsKept
<1>7. ASSUME request[q].pc = "views", on \in views,
             request[q].kind = "external" => op[2] \in ExtPerm,
             \/ op[1] = "remove" /\ vperm' = [vperm EXCEPT ![on] = @ \ {op[2]}]
             \/ op[1] = "assign" /\ vperm' = [vperm EXCEPT ![on] = @ \cup {op[2]}]
      PROVE ViewsInv'
  <2>1. vperm \in [View -> SUBSET ViewPerm] /\ on \in View /\ views \subseteq View
    BY <1>7 DEF TypesInv, TypeOK
  <2>2. /\ \A v \in views \ {on} : vperm'[v] = vperm[v]
        /\ \/ op[1] = "remove" /\ vperm'[on] = vperm[on] \ {op[2]}
           \/ op[1] = "assign" /\ vperm'[on] = vperm[on] \cup {op[2]}
    BY <1>7, <2>1
  <2>3. Outcome(vperm'[on], rest) = Outcome(vperm[on], plan)
    BY <1>1, <2>2, StepKeepsOutcome DEF op, rest
  <2>4. CASE request[q].kind = "external"
    <3>1. \A v \in views : vperm'[v] \cap Plain = vperm[v] \cap Plain
      BY <1>7, <2>2, <2>4, Permissions
    <3>2. \A v : ~ Is(q, v)' /\ ~ Comes(q, v)'
      BY <1>2, <1>4, <2>4 DEF Is, Comes, Shares, SharesDataset, Creates
    <3>3. \A v : Right(q, v)'
      BY <3>2 DEF Right
    <3> QED BY <1>1, <1>2, <1>3, <1>5, <3>1, <3>3, ViewsKept
  <2>5. CASE request[q].kind # "external"
    <3> SUFFICES ASSUME intended # Unknown, aligned
                 PROVE  /\ \A p, r \in Request : Shares(p)' => ~ (Active(r) /\ Creates(r))'
                        /\ \A v \in views : Served(v)'
                        /\ \A r \in Request, v \in views : Right(r, v)'
      BY <1>1 DEF ViewsInv
    <3>1. /\ \A p, r \in Request : Shares(p) => ~ (Active(r) /\ Creates(r))
          /\ \A p, r \in Request : Shares(p) /\ Shares(r) => p = r
          /\ \A v \in views : Served(v)
          /\ \A r \in Request, v \in views : Right(r, v)
      BY DEF ViewsInv, DatasetInv
    <3>2. Shares(q) \/ Creates(q)
      BY <1>1, <1>2, <1>7, <2>5 DEF Shares, SharesDataset, Creates, RequestSound, RequestState
    <3>3. ASSUME NEW p \in Request \ {q} PROVE ~ Is(p, on) /\ ~ Comes(p, on)
      <4>1. ~ Shares(p)
        BY <1>1, <3>1, <3>2
      <4>2. ~ (Active(p) /\ Creates(p) /\ request[p].on = on)
        BY <1>1, <1>2, <3>1, <3>2 DEF RequestsInv
      <4> QED BY <4>1, <4>2 DEF Is, Comes, Shares, SharesDataset, Creates, Active
    <3>4. \A p, r \in Request : Shares(p)' => ~ (Active(r) /\ Creates(r))'
      <4>1. \A p \in Request : (Shares(p)' => Shares(p))
                               /\ ((Active(p) /\ Creates(p))' => Active(p) /\ Creates(p))
        BY <1>1, <1>2, <1>3, AlikeFields
      <4> QED BY <3>1, <4>1
    <3>5. ASSUME NEW v \in views, v = on PROVE Served(v)'
      <4>1. Is(q, on) \/ Comes(q, on)
        <5>1. request[q].kind \in {"grant", "revoke", "downgrade", "create"}
          BY <3>2 DEF Shares, SharesDataset, Creates
        <5>2. request[q].kind = "downgrade" => Shares(q)
          BY <1>1 DEF Shares, SharesDataset
        <5> QED BY <1>1, <1>7, <5>1, <5>2 DEF Is, Comes
      <4> QED BY <1>5, <3>5, <4>1
    <3>6. ASSUME NEW v \in views \ {on} PROVE Served(v)'
      <4>1. CASE Comes(q, v) \/ Is(q, v)
        BY <1>5, <4>1
      <4>2. CASE \E p \in Request \ {q} : Comes(p, v) \/ Is(p, v)
        <5>1. PICK p \in Request \ {q} : Comes(p, v) \/ Is(p, v)
          BY <4>2
        <5>2. Comes(p, v)' \/ Is(p, v)'
          BY <1>2, <5>1, RightKept
        <5> QED BY <5>2 DEF Served
      <4>3. CASE Follows(v, vperm[v])
        BY <1>1, <2>2, <4>3 DEF Served, Follows
      <4> QED BY <3>1, <4>1, <4>2, <4>3 DEF Served
    <3>7. ASSUME NEW r \in Request \ {q}, NEW v \in views PROVE Right(r, v)'
      <4>1. CASE v = on
        BY <1>2, <3>3, <4>1, RightKept DEF Right
      <4>2. CASE v # on
        BY <1>1, <1>2, <2>2, <3>1, <4>2, RightKept
      <4> QED BY <4>1, <4>2
    <3>8. ASSUME NEW v \in views PROVE Right(q, v)'
      <4>1. ~ (Creates(q) /\ Comes(q, v))
        BY <1>2, <1>7 DEF Comes, Creates, Shares, SharesDataset
      <4>2. Is(q, v) => v = on
        BY DEF Is
      <4>3. Is(q, v)' => Follows(v, Outcome(vperm[v], request[q].plan))'
        BY <1>1, <1>2, <1>4, <2>3, <3>1, <4>2 DEF Right, Follows
      <4>4. request[q].kind = "revoke" /\ Comes(q, v) => v # on
        BY <1>2, <1>7, <2>1 DEF Comes, RequestSound, Shares, SharesDataset, Creates
      <4>5. (request[q].kind = "revoke" /\ Comes(q, v))' => Nested(vperm[v])'
        BY <1>2, <1>4, <2>2, <3>1, <4>4 DEF Right, Nested
      <4> QED BY <1>3, <1>4, <4>1, <4>3, <4>5 DEF Right
    <3>9. \A v \in views : Served(v)'
      BY <3>5, <3>6
    <3>10. \A r \in Request, v \in views : Right(r, v)'
      BY <3>7, <3>8
    <3> QED BY <3>4, <3>9, <3>10
  <2> QED BY <2>4, <2>5
<1> QED BY <1>1, <1>6, <1>7

LEMMA ListViewsViews ==
  ASSUME TypesInv, ViewsInv, NEW q \in Request, ListViews(q)
  PROVE  ViewsInv'
<1>1. /\ Active(q) /\ request[q].pc = "dataset"
      /\ request' = [request EXCEPT ![q].pc = "views", ![q].todo = views]
      /\ UNCHANGED <<perms, views, cache, check, history>>
  BY DEF ListViews, Through
<1>2. /\ request[q] \in RequestState /\ RequestSound(q) /\ views \subseteq View
      /\ (\A p \in Request \ {q} : Alike(p))
      /\ request'[q].kind = request[q].kind /\ request'[q].on = request[q].on
      /\ request'[q].pc = "views" /\ request'[q].todo = views
  BY <1>1 DEF TypesInv, TypeOK, RequestsInv, Alike, RequestState
<1>3. /\ Shares(q) /\ Shares(q)' /\ ~ Creates(q) /\ ~ Creates(q)'
  BY <1>1, <1>2 DEF Shares, SharesDataset, Creates, Active, RequestSound
<1>4. \A v \in views : Comes(q, v) /\ Comes(q, v)' /\ ~ Is(q, v)'
  BY <1>1, <1>2, <1>3, Constants DEF Comes, Is, RequestSound
<1>5. ASSUME intended # Unknown, aligned, NEW v \in views PROVE Served(v)' /\ Right(q, v)'
  <2>1. Right(q, v)
    BY <1>5 DEF ViewsInv
  <2>2. (request[q].kind = "revoke" /\ Comes(q, v))' => Nested(vperm[v])'
    BY <1>1, <1>2, <1>4, <2>1 DEF Right, Nested, perms
  <2> QED BY <1>3, <1>4, <2>2 DEF Served, Right
<1> QED BY <1>1, <1>2, <1>3, <1>5, ViewsKept DEF perms, history

LEMMA NextViewViews ==
  ASSUME TypesInv, DatasetInv, ViewsInv, NEW q \in Request, NextView(q)
  PROVE  ViewsInv'
<1>1. PICK w \in request[q].todo :
        request' = [request EXCEPT
          ![q].todo = @ \ {w}, ![q].on = w,
          ![q].plan = IF request[q].kind = "grant" THEN GrantView(request[q].role)
                      ELSE RevokeView(w)]
  BY DEF NextView
<1> DEFINE plan == IF request[q].kind = "grant" THEN GrantView(request[q].role) ELSE RevokeView(w)
<1>2. /\ request[q].pc = "views" /\ Active(q) /\ request[q].plan = <<>>
      /\ UNCHANGED <<perms, views, cache, check, history>>
  BY DEF NextView, Through
<1>3. /\ request[q] \in RequestState /\ RequestSound(q)
      /\ (\A p \in Request \ {q} : Alike(p))
      /\ request'[q].kind = request[q].kind /\ request'[q].pc = "views"
      /\ request'[q].on = w /\ request'[q].todo = request[q].todo \ {w}
      /\ request'[q].plan = plan
  BY <1>1, <1>2 DEF TypesInv, RequestsInv, Alike, RequestState
<1>4. /\ w \in views /\ request[q].kind \in {"grant", "revoke", "downgrade"}
      /\ request[q].kind = "grant" => request[q].role # NoRole /\ request[q].role \in Role
      /\ request[q].kind = "revoke" => request[q].role = NoRole
  BY <1>2, <1>3 DEF RequestSound, RequestState
<1>5. Shares(q) /\ Shares(q)' /\ ~ Creates(q) /\ ~ Creates(q)' /\ Active(q)'
  BY <1>2, <1>3, <1>4 DEF Shares, SharesDataset, Creates, Active
<1>6. ASSUME intended # Unknown, aligned, NEW v \in views
      PROVE  (Comes(q, v) \/ Is(q, v) => Served(v)') /\ Right(q, v)'
  <2>1. Right(q, v) /\ request[q].role = intended
    BY <1>5, <1>6 DEF ViewsInv, DatasetInv
  <2>2. Is(q, w)' \/ Comes(q, w)'
    BY <1>3, <1>4, <1>5 DEF Is, Comes, Shares
  <2>3. Comes(q, v)' => Comes(q, v)
    BY <1>2, <1>3, <1>5 DEF Comes
  <2>4. Comes(q, v) => Comes(q, v)' \/ v = w
    BY <1>2, <1>3, <1>5 DEF Comes
  <2>5. Comes(q, w)
    BY <1>5 DEF Comes
  <2>6. Is(q, v) => Follows(v, vperm[v])
    BY <1>2, <2>1, OutcomeOfNothing DEF Right
  <2>7. Follows(v, vperm[v]) => Served(v)'
    BY <1>2 DEF Served, Follows, perms, history
  <2>8. Comes(q, v) \/ Is(q, v) => Served(v)'
    <3>1. Comes(q, v)' => Served(v)'
      BY DEF Served
    <3>2. v = w => Served(v)'
      BY <2>2 DEF Served
    <3> QED BY <2>4, <2>6, <2>7, <3>1, <3>2
  <2>9. Is(q, v)' => v = w /\ Follows(w, Outcome(vperm[w], plan))
    <3> SUFFICES ASSUME Is(q, v)' PROVE v = w /\ Follows(w, Outcome(vperm[w], plan))
      OBVIOUS
    <3>1. v = w /\ request[q].kind \in {"grant", "revoke"}
      BY <1>3, <1>4 DEF Is
    <3>2. CASE request[q].kind = "grant"
      <4>1. Outcome(vperm[w], plan) \cap Plain = Range(ViewList(intended))
        BY <1>4, <2>1, <3>2, GrantViewPlan
      <4> QED BY <3>1, <4>1, ViewLists DEF Follows
    <3>3. CASE request[q].kind = "revoke"
      <4>1. Nested(vperm[w])
        BY <2>1, <2>5, <3>1, <3>3 DEF Right
      <4>2. Outcome(vperm[w], plan) \cap Plain = {}
        BY <3>3, <4>1, RevokeViewPlan
      <4>3. Range(ViewList(intended)) = {}
        BY <1>4, <2>1, <3>3, RolePermissions, Constants
      <4> QED BY <3>1, <4>2, <4>3, ViewLists DEF Follows
    <3> QED BY <3>1, <3>2, <3>3
  <2> HIDE DEF plan
  <2>10. Is(q, v)' => Follows(v, Outcome(vperm[v], request[q].plan))'
    BY <1>2, <1>3, <2>9 DEF Follows, perms, history
  <2>11. (request[q].kind = "revoke" /\ Comes(q, v))' => Nested(vperm[v])'
    BY <1>2, <1>3, <2>1, <2>3 DEF Right, Nested, perms
  <2> QED BY <1>5, <2>8, <2>10, <2>11 DEF Right
<1> QED BY <1>2, <1>3, <1>5, <1>6, ViewsKept DEF perms, history

LEMMA EndViews ==
  ASSUME TypesInv, ViewsInv, NEW q \in Request, End(q)
  PROVE  ViewsInv'
<1>1. /\ Active(q) /\ request[q].plan = <<>> /\ request[q].pc = "views" /\ request[q].todo = {}
      /\ \A p \in Request \ {q} : request'[p] = request[p]
      /\ UNCHANGED <<perms, views, cache, check, intended, shared, aligned, tainted>>
  BY EndEffect
<1>2. /\ \A p \in Request \ {q} : Alike(p)
      /\ views \subseteq View
  BY <1>1 DEF Alike, TypesInv, TypeOK
<1>3. CASE request[q].kind = "downgrade"
  <2>1. /\ request'[q].kind = "grant" /\ request'[q].pc = "dataset" /\ request'[q].on = "dataset"
    BY <1>3, EndEffect
  <2>2. Shares(q) /\ Shares(q)' /\ ~ Creates(q)' /\ Active(q)'
    BY <1>1, <1>3, <2>1 DEF Shares, SharesDataset, Creates, Active
  <2>3. \A v \in views : Comes(q, v)' /\ ~ Is(q, v)'
    BY <2>1, <2>2 DEF Comes, Is
  <2>4. \A v \in views : Served(v)' /\ Right(q, v)'
    BY <2>1, <2>2, <2>3 DEF Served, Right
  <2> QED BY <1>1, <1>2, <2>2, <2>4, ViewsKept DEF perms
<1>4. CASE request[q].kind # "downgrade"
  <2>1. ~ Active(q)' /\ ~ Creates(q)'
    BY <1>4, EndEffect
  <2>2. \A v : ~ Comes(q, v)' /\ ~ Is(q, v)'
    BY <2>1 DEF Comes, Is, Shares
  <2>3. \A v : ~ Comes(q, v)
    BY <1>1, <1>4 DEF Comes
  <2>4. ASSUME intended # Unknown, aligned, NEW v \in views, Is(q, v) PROVE Served(v)'
    <3>1. Follows(v, vperm[v])
      BY <1>1, <2>4, OutcomeOfNothing DEF ViewsInv, Right
    <3> QED BY <1>1, <3>1 DEF Served, Follows, perms
  <2>5. \A v : Right(q, v)'
    BY <2>2 DEF Right
  <2>6. ~ Shares(q)'
    BY <2>1 DEF Shares
  <2> QED BY <1>1, <1>2, <2>1, <2>3, <2>4, <2>5, <2>6, ViewsKept DEF perms
<1> QED BY <1>3, <1>4

LEMMA ViewsStepAll ==
  ASSUME TypesInv, DatasetInv, ViewsInv, [Next]_vars
  PROVE  ViewsInv'
<1>1. ASSUME NEW q \in Request, NEW role \in Role, Grant(q, role) PROVE ViewsInv'
  <2>1. role # NoRole /\ Begins(q, "grant", role, "dataset", GrantDataset(role)) /\ Expect(q, role)
    BY <1>1 DEF Grant
  <2> QED BY <2>1, GrantDatasetPlan, ViewsBegin
<1>2. ASSUME NEW q \in Request, Downgrade(q) PROVE ViewsInv'
  <2>1. Begins(q, "downgrade", Viewer(1), "dataset", RevokeDataset) /\ Expect(q, Viewer(1))
    BY <1>2 DEF Downgrade
  <2> QED BY <2>1, RevokeDatasetPlan, ViewsBegin, Constants
<1>3. ASSUME NEW q \in Request, Ask(q) PROVE ViewsInv'
  BY <1>1, <1>2, <1>3, RevokeViews, ExternalViews, CreateViews DEF Ask
<1>4. ASSUME NEW q \in Request, Carry(q) PROVE ViewsInv'
  BY <1>4, FindUsersViews, GrantOnCreationViews, StepViews, ListViewsViews, NextViewViews, EndViews
     DEF Carry
<1>5. CASE UNCHANGED <<vperm, views, request, intended, aligned>>
  BY <1>5 DEF ViewsInv, Shares, Active, SharesDataset, Creates, Served, Right, Comes, Is, Follows,
              Nested
<1>6. (\E c \in Check : Store(c) \/ \E x \in Resource : ReadPerms(c, x))
        \/ (\E v \in View : SaveView(v)) \/ (\E x \in Resource : Expire(x)) \/ UNCHANGED vars
       => UNCHANGED <<vperm, views, request, intended, aligned>>
  BY DEF Store, ReadPerms, SaveView, Expire, vars, perms, history
<1> QED
  BY <1>3, <1>4, <1>5, <1>6 DEF Next

THEOREM ViewsInvariant == Spec => []ViewsInv
<1>1. TypesInv /\ DatasetInv /\ ViewsInv /\ [Next]_vars => ViewsInv'
  BY ViewsStepAll
<1> QED BY <1>1, InitViews, TypesInvariant, DatasetInvariant, PTL DEF Spec

\* ... and on every view those that follow from the role, however many views
\* there are and whenever they were created: each one was listed by the
\* change, or found the user's permissions on the dataset.
THEOREM ViewsFollowRoles == Spec => []ViewsFollow
<1>1. ViewsInv => ViewsFollow
  <2> SUFFICES ASSUME ViewsInv, Quiet, intended # Unknown, aligned, NEW v \in views
               PROVE  Follows(v, vperm[v])
    BY DEF ViewsFollow, Follows
  <2>1. \A q \in Request : ~ Comes(q, v) /\ ~ Is(q, v)
    BY DEF Quiet, Comes, Is, Shares, Active
  <2> QED BY <2>1 DEF ViewsInv, Served
<1> QED BY <1>1, ViewsInvariant, PTL

-----------------------------------------------------------------------------
(* Nobody is left out                                                      *)

LEMMA AlikeShows ==
  ASSUME RequestsInv, NEW p \in Request, Alike(p)
  PROVE  /\ Gives(p)' <=> Gives(p)
         /\ \A v : Shows(p, v)' <=> Shows(p, v)
         /\ Downgrades(p)' <=> Downgrades(p)
<1>1. /\ request'[p].kind = request[p].kind /\ request'[p].pc = request[p].pc
      /\ request'[p].on = request[p].on
      /\ request'[p].plan = request[p].plan /\ request'[p].todo = request[p].todo
      /\ Active(p)' <=> Active(p)
      /\ Shares(p)' <=> Shares(p)
      /\ Creates(p)' <=> Creates(p)
  BY AlikeFields
<1> QED BY <1>1 DEF Gives, Shows, GrantShows, Downgrades

\* What q does leaves the dataset readable and its views visible.
LEMMA SharedKept ==
  ASSUME RequestsInv, SharedInv, NEW q \in Request, \A p \in Request \ {q} : Alike(p),
         shared' = shared, views' = views,
         shared = "yes" =>
           /\ Active(q)' => request'[q].kind # "revoke"
           /\ Downgrades(q)' => Downgrades(q)
           /\ Shares(q)' => Shares(q)
           /\ (Active(q) /\ Creates(q))' => Active(q) /\ Creates(q)
           /\ Read(1) \in dperm \/ Gives(q) => Readable'
           /\ \A v \in views : P("view") \in vperm[v] \/ Shows(q, v) => Visible(v)'
  PROVE  SharedInv'
<1> SUFFICES ASSUME shared = "yes"
             PROVE  /\ \A r \in Request : Active(r)' => request'[r].kind # "revoke"
                    /\ \A p, r \in Request : Downgrades(r)' /\ p # r =>
                         ~ Shares(p)' /\ ~ (Active(p) /\ Creates(p))'
                    /\ Readable'
                    /\ \A v \in views : Visible(v)'
  BY DEF SharedInv
<1>1. \A p \in Request :
        /\ Active(p)' => request'[p].kind # "revoke"
        /\ Downgrades(p)' => Downgrades(p)
        /\ Shares(p)' => Shares(p)
        /\ (Active(p) /\ Creates(p))' => Active(p) /\ Creates(p)
  BY AlikeShows, AlikeFields DEF SharedInv
<1>2. \A p, r \in Request : Downgrades(r)' /\ p # r => ~ Shares(p)' /\ ~ (Active(p) /\ Creates(p))'
  BY <1>1 DEF SharedInv
<1>3. Readable'
  <2>1. CASE Read(1) \in dperm \/ Gives(q)
    BY <2>1
  <2>2. CASE \E p \in Request \ {q} : Gives(p)
    <3>1. PICK p \in Request \ {q} : Gives(p)
      BY <2>2
    <3>2. Gives(p)'
      BY <3>1, AlikeShows
    <3> QED BY <3>2 DEF Readable
  <2> QED BY <2>1, <2>2 DEF SharedInv, Readable
<1>4. ASSUME NEW v \in views PROVE Visible(v)'
  <2>1. CASE P("view") \in vperm[v] \/ Shows(q, v)
    BY <2>1
  <2>2. CASE \E p \in Request \ {q} : Shows(p, v)
    <3>1. PICK p \in Request \ {q} : Shows(p, v)
      BY <2>2
    <3>2. Shows(p, v)'
      BY <3>1, AlikeShows
    <3> QED BY <3>2 DEF Visible
  <2> QED BY <2>1, <2>2 DEF SharedInv, Visible
<1> QED BY <1>1, <1>2, <1>3, <1>4

LEMMA InitShared == Init => SharedInv
<1> SUFFICES ASSUME NEW role \in Role, dperm = Range(DatasetList(role)),
                    vperm = [v \in View |-> IF v \in Old THEN Range(ViewList(role)) ELSE {}],
                    views = Old, request = [q \in Request |-> Fresh],
                    shared = IF role = NoRole THEN "no" ELSE "yes", shared = "yes"
             PROVE  SharedInv
  BY DEF Init, SharedInv
<1>1. \A q \in Request : ~ Active(q)
  BY DEF Active, Fresh
<1>2. Read(1) \in dperm /\ \A v \in views : P("view") \in vperm[v]
  BY RolePermissions, Constants
<1> QED BY <1>1, <1>2 DEF SharedInv, Downgrades, Shares, Readable, Visible

LEMMA GrantShared ==
  ASSUME TypesInv, NEW q \in Request, NEW role \in Role, Grant(q, role)
  PROVE  SharedInv'
<1> DEFINE plan == GrantDataset(role)
<1>1. /\ role # NoRole /\ Begins(q, "grant", role, "dataset", plan)
      /\ shared' = IF Revoking(q) THEN "open" ELSE "yes"
  BY DEF Grant
<1>2. plan \in Seq(Op) /\ Read(1) \in Assigned(plan)
  BY <1>1, GrantDatasetPlan
<1> HIDE DEF plan
<1>3. /\ ~ Active(q) /\ \A p \in Request \ {q} : Alike(p)
      /\ request'[q] = [kind |-> "grant", role |-> role, on |-> "dataset", plan |-> plan,
                        todo |-> {}, pc |-> IF "dataset" = "dataset" THEN "dataset" ELSE "views",
                        sole |-> OthersActive(q) = {}]
      /\ UNCHANGED <<perms, views, cache, check>>
  BY <1>1, <1>2, BeginsEffect DEF TypesInv
<1>4. request'[q].kind = "grant" /\ request'[q].pc = "dataset" /\ request'[q].plan = plan
  BY <1>3
<1>5. Gives(q)' /\ (\A v : Shows(q, v)') /\ ~ Downgrades(q)'
  BY <1>2, <1>4 DEF Gives, Shows, GrantShows, Shares, SharesDataset, Active, Downgrades
<1> SUFFICES ASSUME ~ Revoking(q)
             PROVE  /\ \A r \in Request : Active(r)' => request'[r].kind # "revoke"
                    /\ \A r \in Request : ~ Downgrades(r)'
                    /\ Readable' /\ \A v \in views : Visible(v)'
  BY <1>1, <1>3 DEF SharedInv
<1>6. ASSUME NEW p \in Request \ {q}
      PROVE  (Active(p)' => request'[p].kind # "revoke") /\ ~ Downgrades(p)'
  <2>1. Active(p) => request[p].kind \notin {"revoke", "downgrade"}
    BY DEF Revoking, OthersActive
  <2>2. ~ Downgrades(p)
    BY <2>1 DEF Downgrades, Shares
  <2> QED BY <1>3, <2>1, <2>2, AlikeFields, AlikeShows DEF TypesInv
<1> QED BY <1>4, <1>5, <1>6 DEF Readable, Visible

LEMMA DowngradeShared ==
  ASSUME TypesInv, NEW q \in Request, Downgrade(q)
  PROVE  SharedInv'
<1>1. /\ Begins(q, "downgrade", Viewer(1), "dataset", RevokeDataset)
      /\ shared' = IF OthersActive(q) = {} THEN "yes" ELSE "open"
  BY DEF Downgrade
<1>2. RevokeDataset \in Seq(Op)
  BY RevokeDatasetPlan
<1>3. /\ ~ Active(q) /\ \A p \in Request \ {q} : Alike(p)
      /\ request'[q] = [kind |-> "downgrade", role |-> Viewer(1), on |-> "dataset",
                        plan |-> RevokeDataset, todo |-> {},
                        pc |-> IF "dataset" = "dataset" THEN "dataset" ELSE "views",
                        sole |-> OthersActive(q) = {}]
      /\ UNCHANGED <<perms, views, cache, check>>
  BY <1>1, <1>2, BeginsEffect, Constants DEF TypesInv
<1>4. request'[q].kind = "downgrade" /\ request'[q].pc = "dataset"
  BY <1>3
<1>5. Gives(q)' /\ (\A v : Shows(q, v)')
  BY <1>4 DEF Gives, Shows, Shares, SharesDataset, Active
<1> SUFFICES ASSUME OthersActive(q) = {}
             PROVE  /\ \A r \in Request \ {q} : ~ Active(r)'
                    /\ Readable' /\ \A v \in views : Visible(v)'
  BY <1>1, <1>3, <1>4 DEF SharedInv, Downgrades, Shares
<1>6. \A r \in Request \ {q} : ~ Active(r)'
  <2>1. \A r \in Request \ {q} : ~ Active(r)
    BY DEF OthersActive
  <2> QED BY <1>3, <2>1, AlikeFields DEF TypesInv
<1> QED BY <1>5, <1>6 DEF Readable, Visible

LEMMA ExternalShared ==
  ASSUME TypesInv, SharedInv, NEW q \in Request, NEW w \in View, NEW l \in Level \cup {0},
         GrantExternal(q, w, l)
  PROVE  SharedInv'
<1>1. Begins(q, "external", NoRole, w, ShareView(l)) /\ UNCHANGED history
  BY DEF GrantExternal
<1>2. /\ ~ Active(q) /\ \A p \in Request \ {q} : Alike(p)
      /\ request'[q] = [kind |-> "external", role |-> NoRole, on |-> w, plan |-> ShareView(l),
                        todo |-> {}, pc |-> IF w = "dataset" THEN "dataset" ELSE "views",
                        sole |-> OthersActive(q) = {}]
      /\ UNCHANGED <<perms, views, cache, check>>
  BY <1>1, BeginsEffect, ShareViewPlan, Constants DEF TypesInv
<1>3. request'[q].kind = "external"
  BY <1>2
<1>4. /\ ~ Shares(q)' /\ ~ Creates(q)' /\ ~ Downgrades(q)'
      /\ ~ Gives(q) /\ \A v : ~ Shows(q, v)
  BY <1>2, <1>3 DEF Shares, SharesDataset, Creates, Downgrades, Gives, Shows, GrantShows
<1>5. dperm' = dperm /\ vperm' = vperm
  BY <1>2 DEF perms
<1>6. Read(1) \in dperm => Readable'
  BY <1>5 DEF Readable
<1>7. \A v \in views : P("view") \in vperm[v] => Visible(v)'
  BY <1>5 DEF Visible
<1> QED BY <1>1, <1>2, <1>3, <1>4, <1>6, <1>7, SharedKept DEF history, TypesInv

LEMMA CreateShared ==
  ASSUME TypesInv, SharedInv, NEW q \in Request, NEW w \in View, CreateView(q, w)
  PROVE  SharedInv'
<1> DEFINE new == [Fresh EXCEPT !.kind = "create", !.pc = "created", !.on = w]
<1>1. /\ w \notin views /\ request[q].pc = "idle" /\ views' = views \cup {w}
      /\ request' = [request EXCEPT ![q] = new] /\ UNCHANGED perms
      /\ shared' = IF Revoking(q) THEN "open" ELSE shared
  BY DEF CreateView
<1>2. new.kind = "create" /\ new.pc = "created" /\ new.on = w
  BY DEF Fresh
<1> HIDE DEF new
<1>3. RequestsInv /\ request'[q] = new /\ (\A p \in Request \ {q} : Alike(p))
  BY <1>1 DEF TypesInv, RequestsInv, Alike
<1>4. ~ Active(q) /\ Active(q)' /\ Creates(q)' /\ ~ Shares(q)' /\ ~ Downgrades(q)'
  BY <1>1, <1>2, <1>3 DEF Active, Creates, Shares, SharesDataset, Downgrades
<1>5. Shows(q, w)' /\ ~ Gives(q) /\ \A v : ~ Shows(q, v)
  BY <1>2, <1>3, <1>4 DEF Shows, Gives, GrantShows, Shares
<1> SUFFICES ASSUME ~ Revoking(q), shared = "yes"
             PROVE  /\ \A r \in Request : Active(r)' => request'[r].kind # "revoke"
                    /\ \A r \in Request : ~ Downgrades(r)'
                    /\ Readable' /\ \A v \in views \cup {w} : Visible(v)'
  BY <1>1 DEF SharedInv
<1>6. ASSUME NEW p \in Request \ {q}
      PROVE  /\ Active(p)' => request'[p].kind # "revoke"
             /\ ~ Downgrades(p)'
             /\ Gives(p) => Gives(p)'
             /\ \A v : Shows(p, v) => Shows(p, v)'
  <2>1. Active(p) => request[p].kind \notin {"revoke", "downgrade"}
    BY DEF Revoking, OthersActive
  <2>2. ~ Downgrades(p)
    BY <2>1 DEF Downgrades, Shares
  <2> QED BY <1>3, <2>1, <2>2, AlikeFields, AlikeShows
<1>7. Readable'
  BY <1>1, <1>5, <1>6 DEF Readable, SharedInv, perms
<1>8. \A v \in views : Visible(v)'
  BY <1>1, <1>5, <1>6 DEF Visible, SharedInv, perms
<1>9. Visible(w)'
  BY <1>5 DEF Visible
<1> QED BY <1>2, <1>3, <1>4, <1>6, <1>7, <1>8, <1>9

\* A user who is not found on the dataset will be by a grant.
LEMMA NotFoundYet ==
  ASSUME SharedInv, shared = "yes", NEW q \in Request, Active(q), Creates(q), Read(1) \notin dperm
  PROVE  \E p \in Request \ {q} : \A v : GrantShows(p, v)
<1>1. PICK p \in Request : Gives(p)
  BY DEF SharedInv, Readable
<1>2. ~ Downgrades(p)
  <2>1. p # q
    BY <1>1 DEF Gives, Shares, SharesDataset, Creates
  <2> QED BY <2>1 DEF SharedInv
<1>3. Active(p) /\ request[p].kind = "grant" /\ request[p].pc = "dataset"
  BY <1>1, <1>2 DEF Gives, Downgrades, Shares
<1> QED BY <1>3 DEF GrantShows, Creates

LEMMA FindUsersShared ==
  ASSUME TypesInv, SharedInv, NEW q \in Request, FindUsers(q)
  PROVE  SharedInv'
<1>1. /\ request[q].pc = "created" /\ UNCHANGED <<perms, views, cache, check, history>>
      /\ request' = [request EXCEPT ![q].pc = IF dperm = {} THEN "done" ELSE "found"]
  BY DEF FindUsers
<1>2. /\ request[q] \in RequestState /\ RequestSound(q) /\ RequestsInv
      /\ (\A p \in Request \ {q} : Alike(p))
      /\ request'[q].kind = request[q].kind /\ request'[q].on = request[q].on
      /\ request'[q].pc = IF dperm = {} THEN "done" ELSE "found"
  BY <1>1 DEF TypesInv, RequestsInv, Alike, RequestState
<1>3. /\ Creates(q) /\ Active(q) /\ Creates(q)' /\ ~ Shares(q) /\ ~ Shares(q)'
      /\ request[q].kind = "create"
  BY <1>1, <1>2 DEF RequestSound, Creates, Active, Shares, SharesDataset
<1>4. ~ Downgrades(q)' /\ ~ Gives(q) /\ \A v : Shows(q, v) <=> request[q].on = v
  BY <1>1, <1>3 DEF Downgrades, Gives, Shows, GrantShows
<1>5. Read(1) \in dperm => Readable'
  BY <1>1 DEF Readable, perms
<1>6. ASSUME NEW v \in views, shared = "yes", P("view") \in vperm[v] \/ Shows(q, v)
      PROVE  Visible(v)'
  <2>1. CASE P("view") \in vperm[v]
    BY <1>1, <2>1 DEF Visible, perms
  <2>2. CASE Shows(q, v) /\ dperm # {}
    <3>1. Shows(q, v)'
      BY <1>2, <1>3, <1>4, <2>2 DEF Shows, Active
    <3> QED BY <3>1 DEF Visible
  <2>3. CASE Shows(q, v) /\ dperm = {}
    <3>1. PICK p \in Request \ {q} : GrantShows(p, v)
      BY <1>3, <1>6, <2>3, NotFoundYet
    <3>2. Shows(p, v)'
      BY <1>2, <3>1, AlikeShows DEF Shows
    <3> QED BY <3>2 DEF Visible
  <2> QED BY <1>6, <2>1, <2>2, <2>3
<1> QED BY <1>1, <1>2, <1>3, <1>4, <1>5, <1>6, SharedKept DEF history

LEMMA GrantOnCreationShared ==
  ASSUME TypesInv, SharedInv, NEW q \in Request, GrantOnCreation(q)
  PROVE  SharedInv'
<1> DEFINE plan == CASE dperm \cap {P("upload"), P("add_view")} # {} -> GrantView(<<"manager", 0>>)
                     [] dperm \cap {P("upload"), P("add_view")} = {}
                        /\ \E l \in Level : Read(l) \in dperm -> GrantView(Viewer(1))
                     [] OTHER -> <<>>
<1>1. /\ request[q].pc = "found" /\ UNCHANGED <<perms, views, cache, check, history>>
      /\ request' = [request EXCEPT ![q].pc = "views", ![q].plan = plan]
  BY DEF GrantOnCreation
<1>2. Read(1) \in dperm => plan = GrantView(<<"manager", 0>>) \/ plan = GrantView(Viewer(1))
  BY Constants
<1>3. Read(1) \in dperm => P("view") \in Assigned(plan)
  <2> HIDE DEF plan
  <2> QED BY <1>2, GrantViewPlan, Constants
<1> HIDE DEF plan
<1>4. /\ request[q] \in RequestState /\ RequestSound(q) /\ RequestsInv
      /\ (\A p \in Request \ {q} : Alike(p))
      /\ request'[q].kind = request[q].kind /\ request'[q].on = request[q].on
      /\ request'[q].pc = "views" /\ request'[q].plan = plan
  BY <1>1 DEF TypesInv, RequestsInv, Alike, RequestState
<1>5. /\ Creates(q) /\ Active(q) /\ Creates(q)' /\ ~ Shares(q) /\ ~ Shares(q)' /\ Active(q)'
      /\ request[q].kind = "create"
  BY <1>1, <1>4 DEF RequestSound, Creates, Active, Shares, SharesDataset
<1>6. ~ Downgrades(q)' /\ ~ Gives(q) /\ \A v : Shows(q, v) <=> request[q].on = v
  BY <1>1, <1>5 DEF Downgrades, Gives, Shows, GrantShows
<1>7. Read(1) \in dperm => Readable'
  BY <1>1 DEF Readable, perms
<1>8. ASSUME NEW v \in views, shared = "yes", P("view") \in vperm[v] \/ Shows(q, v)
      PROVE  Visible(v)'
  <2>1. CASE P("view") \in vperm[v]
    BY <1>1, <2>1 DEF Visible, perms
  <2>2. CASE Shows(q, v) /\ Read(1) \in dperm
    <3>1. Shows(q, v)'
      BY <1>3, <1>4, <1>5, <1>6, <2>2 DEF Shows
    <3> QED BY <3>1 DEF Visible
  <2>3. CASE Shows(q, v) /\ Read(1) \notin dperm
    <3>1. PICK p \in Request \ {q} : GrantShows(p, v)
      BY <1>5, <1>8, <2>3, NotFoundYet
    <3>2. Shows(p, v)'
      BY <1>4, <3>1, AlikeShows DEF Shows
    <3> QED BY <3>2 DEF Visible
  <2> QED BY <1>8, <2>1, <2>2, <2>3
<1> QED BY <1>1, <1>4, <1>5, <1>6, <1>7, <1>8, SharedKept DEF history

LEMMA StepShared ==
  ASSUME TypesInv, SharedInv, NEW q \in Request, Step(q)
  PROVE  SharedInv'
<1> DEFINE plan == request[q].plan
           op == Head(plan)
           rest == Tail(plan)
           on == request[q].on
<1>1. /\ plan \in Seq(Op) /\ plan # <<>> /\ Ordered(plan) /\ Active(q)
      /\ request[q].pc \in {"dataset", "views"}
      /\ request' = [request EXCEPT ![q].plan = rest]
      /\ UNCHANGED <<views, intended, shared, aligned, coherent>>
      /\ \/ op = Reset /\ UNCHANGED perms
         \/ /\ request[q].pc = "dataset" /\ vperm' = vperm
            /\ \/ op[1] = "remove" /\ dperm' = dperm \ {op[2]}
               \/ op[1] = "assign" /\ dperm' = dperm \cup {op[2]}
         \/ /\ request[q].pc = "views" /\ on \in views /\ dperm' = dperm
            /\ request[q].kind = "external" => op[2] \in ExtPerm
            /\ \/ op[1] = "remove" /\ vperm' = [vperm EXCEPT ![on] = @ \ {op[2]}]
               \/ op[1] = "assign" /\ vperm' = [vperm EXCEPT ![on] = @ \cup {op[2]}]
  BY StepEffect DEF perms
<1>2. /\ request[q] \in RequestState /\ RequestSound(q) /\ PlanSound(q) /\ RequestsInv
      /\ (\A p \in Request \ {q} : Alike(p))
      /\ request'[q].kind = request[q].kind /\ request'[q].on = request[q].on
      /\ request'[q].pc = request[q].pc /\ request'[q].plan = rest
      /\ request'[q].todo = request[q].todo
  BY <1>1 DEF TypesInv, RequestsInv, Alike, RequestState
<1>3. /\ Shares(q)' <=> Shares(q)
      /\ Creates(q)' <=> Creates(q)
      /\ Active(q)' /\ (Downgrades(q)' <=> Downgrades(q))
  BY <1>1, <1>2 DEF Shares, SharesDataset, Creates, Active, Downgrades
<1>4. \/ /\ op[1] = "remove" /\ op[2] \in Removed(plan) /\ Assigned(plan) = Assigned(rest)
      \/ /\ op[1] = "assign" /\ Assigned(plan) = Assigned(rest) \cup {op[2]}
      \/ /\ op[1] = "reset" /\ Assigned(plan) = {}
  <2> HIDE DEF plan
  <2>1. \/ /\ op[1] = "remove" /\ Removed(plan) = Removed(rest) \cup {op[2]}
           /\ Assigned(plan) = Assigned(rest)
        \/ /\ op[1] = "assign" /\ Assigned(plan) = Assigned(rest) \cup {op[2]}
        \/ /\ op[1] = "reset" /\ Assigned(plan) = {}
    BY <1>1, FirstOperation
  <2> QED BY <2>1
<1> HIDE DEF plan, op, rest
<1>5. Reset[1] = "reset" /\ P("view") \notin ExtPerm
  BY Permissions DEF Reset, Plain
<1>6. ASSUME shared = "yes"
      PROVE  \/ Downgrades(q)
             \/ /\ request[q].pc = "dataset" /\ request[q].kind = "grant" /\ Shares(q)
                /\ Returns(plan, Read(1))
             \/ request[q].pc = "views" /\ request[q].kind = "external" /\ ~ Downgrades(q)
             \/ /\ request[q].pc = "views" /\ request[q].kind \in {"grant", "create"}
                /\ ~ Downgrades(q) /\ Returns(plan, P("view"))
  <2>1. request[q].kind \in {"none", "grant", "revoke", "downgrade", "external", "create"}
    BY <1>2 DEF RequestState
  <2>2. request[q].kind # "revoke"
    BY <1>1, <1>6 DEF SharedInv
  <2>3. CASE request[q].pc = "dataset"
    <3>1. SharesDataset(q) /\ (request[q].kind = "grant" => Returns(plan, Read(1)))
      BY <1>2, <2>3 DEF RequestSound, PlanSound, plan
    <3> QED BY <1>1, <2>2, <2>3, <3>1 DEF Shares, SharesDataset, Downgrades
  <2>4. CASE request[q].pc = "views"
    <3>1. /\ request[q].kind # "none"
          /\ request[q].kind \in {"grant", "create"} => Returns(plan, P("view"))
      BY <1>2, <2>4 DEF RequestSound, PlanSound, plan
    <3> QED BY <1>1, <2>1, <2>2, <2>4, <3>1 DEF Shares, SharesDataset, Downgrades
  <2> QED BY <1>1, <2>3, <2>4
<1>7. ASSUME shared = "yes", Read(1) \in dperm \/ Gives(q) PROVE Readable'
  <2>1. CASE Downgrades(q)
    <3>1. Gives(q)'
      BY <1>3, <2>1 DEF Gives, Downgrades
    <3> QED BY <3>1 DEF Readable
  <2>2. CASE request[q].pc = "dataset" /\ request[q].kind = "grant" /\ Shares(q)
             /\ Returns(plan, Read(1))
    <3>1. Read(1) \in dperm' \/ Read(1) \in Assigned(rest)
      BY <1>1, <1>4, <1>5, <1>7, <2>2 DEF Gives, Returns, perms, plan
    <3>2. Read(1) \in Assigned(rest) => Gives(q)'
      BY <1>2, <1>3, <2>2 DEF Gives
    <3> QED BY <3>1, <3>2 DEF Readable
  <2>3. CASE request[q].pc = "views" /\ ~ Downgrades(q)
    <3>1. ~ Gives(q) /\ Read(1) \in dperm'
      BY <1>1, <1>7, <2>3 DEF Gives, Downgrades, perms
    <3> QED BY <3>1 DEF Readable
  <2> QED BY <1>1, <1>6, <1>7, <2>1, <2>2, <2>3
<1>8. ASSUME shared = "yes", NEW v \in views, P("view") \in vperm[v] \/ Shows(q, v)
      PROVE  Visible(v)'
  <2>1. CASE Downgrades(q)
    <3>1. Shows(q, v)'
      BY <1>3, <2>1 DEF Shows, Downgrades
    <3> QED BY <3>1 DEF Visible
  <2>2. CASE request[q].pc = "dataset" /\ request[q].kind = "grant" /\ Shares(q)
    <3>1. Shows(q, v)'
      BY <1>2, <1>3, <2>2 DEF Shows, GrantShows
    <3> QED BY <3>1 DEF Visible
  <2>3. CASE request[q].pc = "views" /\ request[q].kind = "external"
    <3>1. ~ Shows(q, v)
      BY <2>3 DEF Shows, GrantShows, Creates
    <3>2. P("view") \in vperm'[v]
      BY <1>1, <1>5, <1>8, <2>3, <3>1 DEF perms, TypesInv, TypeOK
    <3> QED BY <3>2 DEF Visible
  <2>4. CASE /\ request[q].pc = "views" /\ request[q].kind \in {"grant", "create"}
             /\ Returns(plan, P("view")) /\ v # on
    <3>1. vperm'[v] = vperm[v]
      BY <1>1, <2>4 DEF perms, TypesInv, TypeOK
    <3>2. Shows(q, v) => Shows(q, v)'
      BY <1>2, <1>3, <2>4 DEF Shows, GrantShows, Shares
    <3> QED BY <1>8, <3>1, <3>2 DEF Visible
  <2>5. CASE /\ request[q].pc = "views" /\ request[q].kind \in {"grant", "create"}
             /\ Returns(plan, P("view")) /\ v = on
    <3>1. \/ op = Reset /\ vperm'[v] = vperm[v]
          \/ op[1] = "remove" /\ vperm'[v] = vperm[v] \ {op[2]}
          \/ op[1] = "assign" /\ vperm'[v] = vperm[v] \cup {op[2]}
      BY <1>1, <2>5 DEF perms, TypesInv, TypeOK
    <3>2. v \notin request[q].todo
      BY <1>2, <2>5 DEF RequestSound, TypesInv, TypeOK
    <3>3. Shows(q, v) => P("view") \in Assigned(plan)
      BY <2>5, <3>2 DEF Shows, GrantShows, Shares, plan
    <3>4. P("view") \in vperm'[v] \/ P("view") \in Assigned(rest)
      BY <1>4, <1>5, <1>8, <2>5, <3>1, <3>3 DEF Returns
    <3>5. P("view") \in Assigned(rest) => Shows(q, v)'
      BY <1>1, <1>2, <1>3, <2>5 DEF Shows, GrantShows, Creates, on
    <3> QED BY <3>4, <3>5 DEF Visible
  <2> QED BY <1>1, <1>6, <1>8, <2>1, <2>2, <2>3, <2>4, <2>5
<1>9. shared = "yes" => request'[q].kind # "revoke"
  BY <1>2, <1>6 DEF Downgrades
<1>10. ASSUME shared = "yes"
       PROVE  /\ Active(q)' => request'[q].kind # "revoke"
              /\ Downgrades(q)' => Downgrades(q)
              /\ Shares(q)' => Shares(q)
              /\ (Active(q) /\ Creates(q))' => Active(q) /\ Creates(q)
              /\ Read(1) \in dperm \/ Gives(q) => Readable'
              /\ \A v \in views : P("view") \in vperm[v] \/ Shows(q, v) => Visible(v)'
  BY <1>1, <1>3, <1>7, <1>8, <1>9, <1>10
<1>11. views' = views /\ shared' = shared /\ RequestsInv /\ \A p \in Request \ {q} : Alike(p)
  BY <1>1, <1>2
<1> QED BY <1>10, <1>11, SharedKept

LEMMA ListViewsShared ==
  ASSUME TypesInv, SharedInv, NEW q \in Request, ListViews(q)
  PROVE  SharedInv'
<1>1. /\ Active(q) /\ request[q].pc = "dataset" /\ request[q].plan = <<>>
      /\ request' = [request EXCEPT ![q].pc = "views", ![q].todo = views]
      /\ UNCHANGED <<perms, views, cache, check, history>>
  BY DEF ListViews, Through
<1>2. /\ request[q] \in RequestState /\ RequestSound(q) /\ RequestsInv
      /\ (\A p \in Request \ {q} : Alike(p))
      /\ request'[q].kind = request[q].kind
      /\ request'[q].pc = "views" /\ request'[q].todo = views
  BY <1>1 DEF TypesInv, RequestsInv, Alike, RequestState
<1>3. /\ Shares(q) /\ Shares(q)' /\ ~ Creates(q)' /\ Active(q)'
      /\ Downgrades(q)' <=> Downgrades(q)
  BY <1>1, <1>2 DEF Shares, SharesDataset, Creates, Active, RequestSound, Downgrades
<1>4. shared = "yes" => request[q].kind # "revoke"
  BY <1>1 DEF SharedInv
<1>5. Assigned(<<>>) = {}
  BY DEF Assigned, Range
<1>6. Gives(q) => Downgrades(q) /\ Gives(q)'
  BY <1>1, <1>3, <1>5 DEF Gives, Downgrades
<1>7. Read(1) \in dperm \/ Gives(q) => Readable'
  BY <1>1, <1>6 DEF Readable, perms
<1>8. ASSUME shared = "yes", NEW v \in views PROVE Visible(v)'
  <2>1. Shows(q, v)'
    BY <1>2, <1>3, <1>4, <1>8 DEF Shows, GrantShows, Shares, SharesDataset
  <2> QED BY <2>1 DEF Visible
<1> QED BY <1>1, <1>2, <1>3, <1>4, <1>7, <1>8, SharedKept DEF history

LEMMA NextViewShared ==
  ASSUME TypesInv, SharedInv, NEW q \in Request, NextView(q)
  PROVE  SharedInv'
<1>1. PICK w \in request[q].todo :
        request' = [request EXCEPT
          ![q].todo = @ \ {w}, ![q].on = w,
          ![q].plan = IF request[q].kind = "grant" THEN GrantView(request[q].role)
                      ELSE RevokeView(w)]
  BY DEF NextView
<1> DEFINE plan == IF request[q].kind = "grant" THEN GrantView(request[q].role) ELSE RevokeView(w)
<1>2. /\ request[q].pc = "views" /\ Active(q) /\ request[q].plan = <<>>
      /\ UNCHANGED <<perms, views, cache, check, history>>
  BY DEF NextView, Through
<1>3. /\ request[q] \in RequestState /\ RequestSound(q) /\ RequestsInv
      /\ (\A p \in Request \ {q} : Alike(p))
      /\ request'[q].kind = request[q].kind /\ request'[q].pc = "views"
      /\ request'[q].on = w /\ request'[q].todo = request[q].todo \ {w}
      /\ request'[q].plan = plan
  BY <1>1, <1>2 DEF TypesInv, RequestsInv, Alike, RequestState
<1>4. /\ w \in views /\ request[q].kind \in {"grant", "revoke", "downgrade"}
      /\ request[q].kind = "grant" => request[q].role # NoRole /\ request[q].role \in Role
  BY <1>2, <1>3 DEF RequestSound, RequestState
<1>5. /\ Shares(q) /\ Shares(q)' /\ ~ Creates(q)' /\ Active(q)'
      /\ Downgrades(q)' <=> Downgrades(q)
  BY <1>2, <1>3, <1>4 DEF Shares, SharesDataset, Creates, Active, Downgrades
<1>6. request[q].kind = "grant" => P("view") \in Assigned(plan)
  BY <1>4, GrantViewPlan
<1> HIDE DEF plan
<1>7. shared = "yes" => request[q].kind # "revoke"
  BY <1>2 DEF SharedInv
<1>8. Gives(q) => Gives(q)'
  BY <1>2, <1>3, <1>5 DEF Gives
<1>9. Read(1) \in dperm \/ Gives(q) => Readable'
  BY <1>2, <1>8 DEF Readable, perms
<1>10. Assigned(<<>>) = {}
  BY DEF Assigned, Range
<1>11. ASSUME shared = "yes", NEW v \in views, P("view") \in vperm[v] \/ Shows(q, v)
       PROVE  Visible(v)'
  <2>1. Shows(q, v) => Shows(q, v)'
    BY <1>2, <1>3, <1>4, <1>5, <1>6, <1>10 DEF Shows, GrantShows, Creates
  <2> QED BY <1>2, <1>11, <2>1 DEF Visible, perms
<1> QED BY <1>2, <1>3, <1>5, <1>7, <1>9, <1>11, SharedKept DEF history

LEMMA EndShared ==
  ASSUME TypesInv, SharedInv, NEW q \in Request, End(q)
  PROVE  SharedInv'
<1>1. /\ Active(q) /\ request[q].plan = <<>> /\ request[q].pc = "views" /\ request[q].todo = {}
      /\ \A p \in Request \ {q} : request'[p] = request[p]
      /\ UNCHANGED <<perms, views, cache, check, intended, shared, aligned, tainted>>
  BY EndEffect
<1>2. RequestsInv /\ \A p \in Request \ {q} : Alike(p)
  BY <1>1 DEF Alike, TypesInv
<1>3. Assigned(<<>>) = {}
  BY DEF Assigned, Range
<1>4. CASE request[q].kind = "downgrade"
  <2>1. /\ request'[q].kind = "grant" /\ request'[q].pc = "dataset"
        /\ request'[q].plan = GrantDataset(Viewer(1))
    BY <1>4, EndEffect
  <2>2. Shares(q) /\ Shares(q)' /\ ~ Creates(q)' /\ Active(q)' /\ ~ Downgrades(q)'
    BY <1>1, <1>4, <2>1 DEF Shares, SharesDataset, Creates, Active, Downgrades
  <2>3. Read(1) \in Assigned(GrantDataset(Viewer(1)))
    BY GrantDatasetPlan, Constants
  <2>4. Gives(q)' /\ \A v : Shows(q, v)'
    BY <2>1, <2>2, <2>3 DEF Gives, Shows, GrantShows
  <2> QED BY <1>1, <1>2, <2>1, <2>2, <2>4, SharedKept DEF Readable, Visible
<1>5. CASE request[q].kind # "downgrade"
  <2>1. ~ Active(q)' /\ ~ Creates(q)'
    BY <1>5, EndEffect
  <2>2. ~ Shares(q)' /\ ~ Downgrades(q)'
    BY <2>1 DEF Shares, Downgrades
  <2>3. ~ Gives(q) /\ \A v : ~ Shows(q, v)
    BY <1>1, <1>3, <1>5 DEF Gives, Shows, GrantShows
  <2> QED BY <1>1, <1>2, <2>1, <2>2, <2>3, SharedKept DEF Readable, Visible, perms
<1> QED BY <1>4, <1>5

LEMMA SharedStepAll ==
  ASSUME TypesInv, SharedInv, [Next]_vars
  PROVE  SharedInv'
<1>1. ASSUME NEW q \in Request, Revoke(q) PROVE SharedInv'
  BY <1>1 DEF Revoke, SharedInv
<1>2. ASSUME NEW q \in Request, Ask(q) PROVE SharedInv'
  BY <1>1, <1>2, GrantShared, DowngradeShared, ExternalShared, CreateShared DEF Ask
<1>3. ASSUME NEW q \in Request, Carry(q) PROVE SharedInv'
  BY <1>3, FindUsersShared, GrantOnCreationShared, StepShared, ListViewsShared, NextViewShared,
     EndShared DEF Carry
<1>4. CASE UNCHANGED <<perms, views, request, shared>>
  BY <1>4 DEF SharedInv, Downgrades, Shares, Active, SharesDataset, Creates, Readable, Visible,
              Gives, Shows, GrantShows, perms
<1>5. (\E c \in Check : Store(c) \/ \E x \in Resource : ReadPerms(c, x))
        \/ (\E v \in View : SaveView(v)) \/ (\E x \in Resource : Expire(x)) \/ UNCHANGED vars
       => UNCHANGED <<perms, views, request, shared>>
  BY DEF Store, ReadPerms, SaveView, Expire, vars, history
<1> QED
  BY <1>2, <1>3, <1>4, <1>5 DEF Next

THEOREM SharedInvariant == Spec => []SharedInv
<1>1. TypesInv /\ SharedInv /\ [Next]_vars => SharedInv'
  BY SharedStepAll
<1> QED BY <1>1, InitShared, TypesInvariant, PTL DEF Spec

\* However many grants overlap, and whenever views are created: a user whom
\* the dataset was shared with can read it and sees all its views.
THEOREM NobodyIsLeftOut == Spec => []NobodyLeftOut
<1>1. SharedInv => NobodyLeftOut
  BY DEF SharedInv, NobodyLeftOut, Quiet, Readable, Visible, Gives, Shows, GrantShows, Shares
<1> QED BY <1>1, SharedInvariant, PTL

-----------------------------------------------------------------------------
(* Cached answers are right                                                *)

\* A viewer's grant that has v before it deletes the answers of v as well.
LEMMA ShownReset ==
  ASSUME TypesInv, NEW p \in Request, NEW v, GrantShows(p, v), Viewing(p)
  PROVE  Resets(p, v)
<1>1. PlanSound(p) /\ request[p] \in RequestState
  BY DEF TypesInv, RequestsInv
<1>2. CASE request[p].pc = "dataset" \/ v \in request[p].todo
  BY <1>2 DEF GrantShows, Resets
<1>3. CASE request[p].on = v /\ P("view") \in Assigned(request[p].plan) /\ request[p].pc = "views"
  <2>1. Cleans(request[p].plan)
    BY <1>1, <1>3 DEF PlanSound, GrantShows
  <2> QED BY <1>3, <2>1 DEF Cleans, GrantShows, Resets
<1>4. Assigned(request[p].plan) # {} => request[p].pc \in {"dataset", "views"}
  <2>1. Assigned(<<>>) = {}
    BY DEF Assigned, Range
  <2> QED BY <1>1, <2>1 DEF PlanSound, RequestState
<1> QED BY <1>2, <1>3, <1>4 DEF GrantShows

LEMMA AlikeResets ==
  ASSUME RequestsInv, NEW p \in Request, Alike(p)
  PROVE  /\ \A v : Claims(p, v)' => Claims(p, v)
         /\ \A v : GrantShows(p, v)' <=> GrantShows(p, v)
         /\ Revokes(p)' <=> Revokes(p)
         /\ Downgrades(p)' <=> Downgrades(p)
         /\ \A v \in View : vperm'[v] = vperm[v] => (Resets(p, v) => Resets(p, v)')
<1>1. /\ request'[p].kind = request[p].kind /\ request'[p].pc = request[p].pc
      /\ request'[p].on = request[p].on /\ (request'[p].sole => request[p].sole)
      /\ request'[p].plan = request[p].plan /\ request'[p].todo = request[p].todo
      /\ Active(p)' <=> Active(p)
      /\ Viewing(p)' <=> Viewing(p)
      /\ Downgrades(p)' <=> Downgrades(p)
  BY AlikeFields, AlikeShows
<1>2. \A v : Claims(p, v)' => Claims(p, v)
  BY <1>1 DEF Claims
<1>3. \A v : GrantShows(p, v)' <=> GrantShows(p, v)
  BY <1>1 DEF GrantShows
<1>4. Revokes(p)' <=> Revokes(p)
  BY <1>1 DEF Revokes
<1>5. ASSUME NEW v \in View, vperm'[v] = vperm[v], Resets(p, v) PROVE Resets(p, v)'
  BY <1>1, <1>5 DEF Resets
<1> QED BY <1>1, <1>2, <1>3, <1>4, <1>5

\* Beside a change that claims there is no other.
LEMMA ClaimsAlone ==
  ASSUME SoleInv, NEW p \in Request, NEW q \in Request, NEW v, Claims(p, v), Active(q), p # q
  PROVE  Creates(q)
BY DEF SoleInv, Claims

\* The changes that are under way and their claims, when q goes on
LEMMA RivalsKept ==
  ASSUME TypesInv, CacheInv, NEW q \in Request, \A p \in Request \ {q} : Alike(p),
         coherent' = coherent, Active(q)' => Active(q),
         Creates(q)' <=> Creates(q), Creates(q) => request'[q].on = request[q].on,
         request'[q].sole => request[q].sole,
         Viewing(q)' <=> Viewing(q),
         Active(q)' /\ request'[q].kind = "grant" => request[q].kind = "grant" \/ Viewing(q),
         Revokes(q)' => Revokes(q), Downgrades(q)' => Downgrades(q),
         \A r \in Request, v \in coherent :
           Revokes(r)' /\ request'[r].pc = "dataset" => Spared(v)'
  PROVE  SoleInv' /\ GrantsInv' /\ RevocationsInv'
<1> USE DEF CacheInv
<1>1. RequestsInv
  BY DEF TypesInv
<1>2. \A p \in Request \ {q} :
        /\ request'[p].kind = request[p].kind /\ request'[p].on = request[p].on
        /\ (request'[p].sole => request[p].sole)
        /\ Active(p)' <=> Active(p)
        /\ Creates(p)' <=> Creates(p)
        /\ Viewing(p)' <=> Viewing(p)
        /\ Revokes(p)' <=> Revokes(p)
        /\ Downgrades(p)' <=> Downgrades(p)
  BY <1>1, AlikeFields, AlikeResets
<1>3. SoleInv'
  BY <1>2 DEF SoleInv
<1>4. GrantsInv'
  BY <1>2 DEF GrantsInv
<1>5. ASSUME NEW r \in Request, Revokes(r)'
      PROVE  /\ \A p \in Request : (Revokes(p) \/ Downgrades(p))' => p = r \/ coherent' = {}
             /\ \A p \in Request : (Active(p) /\ Creates(p))' => request'[p].on \notin coherent'
             /\ request'[r].pc = "dataset" => \A v \in coherent' : Spared(v)'
  <2>1. Revokes(r)
    BY <1>2, <1>5
  <2>2. \A p \in Request : (Revokes(p) \/ Downgrades(p))' => p = r \/ coherent' = {}
    BY <1>2, <2>1 DEF RevocationsInv
  <2>3. \A p \in Request : (Active(p) /\ Creates(p))' => request'[p].on \notin coherent'
    BY <1>2, <2>1 DEF RevocationsInv
  <2> QED BY <1>5, <2>2, <2>3
<1>6. RevocationsInv'
  BY <1>5 DEF RevocationsInv
<1> QED BY <1>3, <1>4, <1>6

\* The answers, when q goes on and no permission changes
LEMMA AnswersKept ==
  ASSUME TypesInv, CacheInv, NEW q \in Request, \A p \in Request \ {q} : Alike(p),
         UNCHANGED <<perms, cache, views, tainted>>, coherent' \subseteq views,
         \A v \in coherent' : Claimed(v),
         \A v \in views : Claims(q, v)' => Claims(q, v),
         \A v \in views : Resets(q, v) => Resets(q, v)'
  PROVE  AnswersInv'
<1>1. ASSUME NEW x \in Resource, x[1] \in views' \ tainted', Claimed(x[1])'
      PROVE  cache'[x] \in {"none", Answer(x)'} \/ \E p \in Request : Resets(p, x[1])'
  <2>1. x[1] \in views /\ x[1] \in View /\ x[1] \notin tainted /\ RequestsInv
    BY <1>1, Constants DEF TypesInv
  <2>2. Claimed(x[1])
    <3>1. CASE x[1] \in coherent'
      BY <3>1
    <3>2. CASE \E p \in Request : Claims(p, x[1])'
      <4>1. PICK p \in Request : Claims(p, x[1])'
        BY <3>2
      <4>2. Claims(p, x[1])
        BY <2>1, <4>1, AlikeResets
      <4> QED BY <4>2 DEF Claimed
    <3> QED BY <1>1, <3>1, <3>2 DEF Claimed
  <2>3. CASE cache[x] \in {"none", Answer(x)}
    BY <2>3, AnswerKept
  <2>4. CASE \E p \in Request : Resets(p, x[1])
    <3>1. PICK p \in Request : Resets(p, x[1])
      BY <2>4
    <3>2. vperm'[x[1]] = vperm[x[1]]
      BY DEF perms
    <3>3. Resets(p, x[1])'
      BY <2>1, <3>1, <3>2, AlikeResets
    <3> QED BY <3>3
  <2> QED BY <2>1, <2>2, <2>3, <2>4 DEF CacheInv, AnswersInv
<1> QED BY <1>1 DEF AnswersInv

LEMMA InitCache == Init => CacheInv
<1> SUFFICES ASSUME request = [q \in Request |-> Fresh], cache = [x \in Resource |-> "none"]
             PROVE  CacheInv
  BY DEF Init
<1>1. \A q \in Request : ~ Active(q) /\ ~ Creates(q)
  BY DEF Active, Creates, Fresh
<1>2. AnswersInv
  BY DEF AnswersInv
<1>3. SoleInv /\ GrantsInv /\ RevocationsInv
  BY <1>1 DEF SoleInv, GrantsInv, RevocationsInv, Revokes
<1> QED BY <1>2, <1>3 DEF CacheInv

\* A change begins: no other one claims anything any more.
LEMMA CacheBegins ==
  ASSUME TypesInv, CacheInv, NEW q \in Request,
         NEW kind \in {"grant", "revoke", "downgrade", "external"},
         NEW role \in Role, NEW on \in {"dataset"} \cup View, NEW plan \in Seq(Op),
         Begins(q, kind, role, on, plan)
  PROVE  /\ request'[q].kind = kind /\ request'[q].role = role /\ request'[q].on = on
         /\ request'[q].plan = plan /\ request'[q].todo = {}
         /\ request'[q].pc = IF on = "dataset" THEN "dataset" ELSE "views"
         /\ \A p \in Request \ {q} : Alike(p)
         /\ Active(q)' /\ ~ Active(q) /\ ~ Creates(q)' /\ RequestsInv
         /\ UNCHANGED <<perms, views, cache, check>>
         /\ \A p \in Request \ {q} : \A v : ~ Claims(p, v)'
         /\ \A v : Claims(q, v)' => OthersActive(q) = {} /\ kind # "revoke"
         /\ OthersActive(q) = {} => \A p \in Request \ {q} : ~ Active(p) /\ ~ Active(p)'
         /\ SoleInv'
         /\ coherent' = {} => GrantsInv' /\ RevocationsInv'
<1> DEFINE new == [kind |-> kind, role |-> role, on |-> on, plan |-> plan, todo |-> {},
                   pc |-> IF on = "dataset" THEN "dataset" ELSE "views",
                   sole |-> OthersActive(q) = {}]
<1>1. /\ request' \in [Request -> RequestState]
      /\ \A p \in Request \ {q} : Alike(p)
      /\ request'[q] = new
      /\ Active(q)' /\ ~ Active(q) /\ ~ Creates(q)'
      /\ \A p \in Request \ {q} : ~ request'[p].sole
      /\ UNCHANGED <<perms, views, cache, check>> /\ RequestsInv
  BY BeginsEffect DEF TypesInv
<1>2. /\ new.kind = kind /\ new.role = role /\ new.on = on /\ new.plan = plan /\ new.todo = {}
      /\ new.pc = IF on = "dataset" THEN "dataset" ELSE "views"
      /\ new.sole = (OthersActive(q) = {})
  OBVIOUS
<1> HIDE DEF new
<1>3. /\ request'[q].kind = kind /\ request'[q].role = role /\ request'[q].on = on
      /\ request'[q].plan = plan /\ request'[q].todo = {}
      /\ request'[q].pc = IF on = "dataset" THEN "dataset" ELSE "views"
      /\ request'[q].sole = (OthersActive(q) = {})
  BY <1>1, <1>2
<1>4. \A p \in Request \ {q} : \A v : ~ Claims(p, v)'
  BY <1>1 DEF Claims
<1>5. \A v : Claims(q, v)' => OthersActive(q) = {} /\ kind # "revoke"
  BY <1>3 DEF Claims
<1>6. OthersActive(q) = {} => \A p \in Request \ {q} : ~ Active(p) /\ ~ Active(p)'
  BY <1>1, AlikeFields DEF OthersActive
<1>7. SoleInv'
  <2>1. \A p \in Request \ {q} : Creates(p)' <=> Creates(p)
    BY <1>1, AlikeFields
  <2>2. \A p \in Request : Creates(p)' => ~ request'[p].sole
    BY <1>1, <2>1
  <2>3. \A p, r \in Request : (Active(p) /\ Active(r))' /\ request'[r].sole /\ p # r => Creates(p)'
    BY <1>1, <1>3, <1>6
  <2> QED BY <2>2, <2>3 DEF SoleInv
<1>8. coherent' = {} => GrantsInv' /\ RevocationsInv'
  BY DEF GrantsInv, RevocationsInv
<1> QED BY <1>1, <1>3, <1>4, <1>5, <1>6, <1>7, <1>8

\* What an answer rested on, it rests on still, when a change begins.
LEMMA BegunKeeps ==
  ASSUME TypesInv, CacheInv, NEW q \in Request, \A p \in Request \ {q} : Alike(p),
         ~ Active(q), UNCHANGED <<perms, cache>>, NEW x \in Resource,
         x[1] \in coherent, x[1] \in views \ tainted
  PROVE  \/ cache'[x] \in {"none", Answer(x)'}
         \/ \E p \in Request \ {q} : Active(p) /\ Resets(p, x[1])'
<1>1. x[1] \in View /\ RequestsInv /\ vperm'[x[1]] = vperm[x[1]] /\ Claimed(x[1])
  BY Constants DEF TypesInv, perms, Claimed
<1>2. CASE cache[x] \in {"none", Answer(x)}
  BY <1>2, AnswerKept
<1>3. CASE \E p \in Request : Resets(p, x[1])
  <2>1. PICK p \in Request : Resets(p, x[1])
    BY <1>3
  <2>2. Active(p) /\ p # q
    BY <2>1 DEF Resets
  <2>3. Resets(p, x[1])'
    BY <1>1, <2>1, <2>2, AlikeResets
  <2> QED BY <2>2, <2>3
<1> QED BY <1>1, <1>2, <1>3 DEF CacheInv, AnswersInv

\* Nothing is held to be right.
LEMMA NothingClaimed ==
  ASSUME coherent' = {}, \A p \in Request : \A v : ~ Claims(p, v)'
  PROVE  AnswersInv'
<1>1. \A v : ~ Claimed(v)'
  BY DEF Claimed
<1> QED BY <1>1 DEF AnswersInv

\* A begun change that does not revoke, or that revokes alone, leaves the
\* revocations under way as they were.
LEMMA BegunRevocations ==
  ASSUME TypesInv, CacheInv, NEW q \in Request, \A p \in Request \ {q} : Alike(p),
         ~ Active(q), UNCHANGED perms, coherent' = coherent,
         ~ Revokes(q)', ~ Creates(q)', Downgrades(q)' => \A p \in Request \ {q} : ~ Active(p)'
  PROVE  RevocationsInv'
<1>1. RequestsInv
  BY DEF TypesInv
<1>2. ASSUME NEW r \in Request, Revokes(r)'
      PROVE  /\ \A p \in Request : (Revokes(p) \/ Downgrades(p))' => p = r \/ coherent' = {}
             /\ \A p \in Request : (Active(p) /\ Creates(p))' => request'[p].on \notin coherent'
             /\ request'[r].pc = "dataset" => \A v \in coherent' : Spared(v)'
  <2>1. r # q /\ Revokes(r) /\ Active(r)' /\ request'[r].pc = request[r].pc
    BY <1>1, <1>2, AlikeResets, AlikeFields DEF Revokes
  <2>2. ASSUME NEW p \in Request, (Revokes(p) \/ Downgrades(p))' PROVE p = r \/ coherent' = {}
    <3>1. p # q
      BY <2>1, <2>2
    <3>2. Revokes(p) \/ Downgrades(p)
      BY <1>1, <2>2, <3>1, AlikeResets
    <3> QED BY <2>1, <3>2 DEF CacheInv, RevocationsInv
  <2>3. ASSUME NEW p \in Request, (Active(p) /\ Creates(p))' PROVE request'[p].on \notin coherent'
    <3>1. p # q
      BY <2>3
    <3>2. Active(p) /\ Creates(p) /\ request'[p].on = request[p].on
      BY <1>1, <2>3, <3>1, AlikeFields
    <3> QED BY <2>1, <3>2 DEF CacheInv, RevocationsInv
  <2>4. ASSUME request'[r].pc = "dataset", NEW v \in coherent' PROVE Spared(v)'
    <3>1. Spared(v)
      BY <2>1, <2>4 DEF CacheInv, RevocationsInv
    <3>2. CASE P("view") \in vperm[v] \/ dperm = {}
      BY <3>2 DEF Spared, perms
    <3>3. CASE \E p \in Request : GrantShows(p, v) /\ Viewing(p)
      <4>1. PICK p \in Request : GrantShows(p, v) /\ Viewing(p)
        BY <3>3
      <4>2. p # q
        BY <4>1 DEF GrantShows
      <4>3. GrantShows(p, v)' /\ Viewing(p)'
        BY <1>1, <4>1, <4>2, AlikeResets, AlikeFields
      <4> QED BY <4>3 DEF Spared
    <3> QED BY <3>1, <3>2, <3>3 DEF Spared
  <2> QED BY <2>2, <2>3, <2>4
<1> QED BY <1>2 DEF RevocationsInv

LEMMA BegunGrants ==
  ASSUME TypesInv, CacheInv, NEW q \in Request, \A p \in Request \ {q} : Alike(p),
         coherent' \subseteq coherent,
         Active(q)' /\ request'[q].kind = "grant" => Viewing(q)'
  PROVE  GrantsInv'
<1>1. RequestsInv
  BY DEF TypesInv
<1>2. ASSUME NEW r \in Request, Active(r)', request'[r].kind = "grant", ~ Viewing(r)'
      PROVE coherent' = {}
  <2>1. r # q
    BY <1>2
  <2>2. Active(r) /\ request[r].kind = "grant" /\ ~ Viewing(r)
    BY <1>1, <1>2, <2>1, AlikeFields
  <2> QED BY <2>2 DEF CacheInv, GrantsInv
<1> QED BY <1>2 DEF GrantsInv

LEMMA GrantCache ==
  ASSUME TypesInv, CacheInv, NEW q \in Request, NEW role \in Role, Grant(q, role)
  PROVE  CacheInv'
<1> DEFINE plan == GrantDataset(role)
<1>1. /\ role # NoRole /\ Begins(q, "grant", role, "dataset", plan)
      /\ coherent' = (IF role[1] = "viewer" THEN coherent ELSE {}) /\ tainted' = tainted
  BY DEF Grant
<1>2. plan \in Seq(Op)
  BY <1>1, GrantDatasetPlan
<1> HIDE DEF plan
<1>3. /\ request'[q].kind = "grant" /\ request'[q].role = role /\ request'[q].pc = "dataset"
      /\ \A p \in Request \ {q} : Alike(p)
      /\ Active(q)' /\ ~ Active(q) /\ ~ Creates(q)'
      /\ UNCHANGED <<perms, views, cache, check>>
      /\ \A p \in Request \ {q} : \A v : ~ Claims(p, v)'
      /\ SoleInv'
      /\ coherent' = {} => GrantsInv' /\ RevocationsInv'
  BY <1>1, <1>2, CacheBegins
<1>4. CASE role[1] = "viewer"
  <2>1. Viewing(q)' /\ \A v : Resets(q, v)'
    BY <1>3, <1>4 DEF Viewing, Resets
  <2>2. AnswersInv'
    BY <2>1 DEF AnswersInv
  <2>3. ~ Revokes(q)' /\ ~ Downgrades(q)'
    BY <1>3 DEF Revokes, Downgrades
  <2>4. RevocationsInv'
    BY <1>1, <1>3, <1>4, <2>3, BegunRevocations
  <2>5. GrantsInv'
    BY <1>1, <1>3, <1>4, <2>1, BegunGrants
  <2> QED BY <1>3, <2>2, <2>4, <2>5 DEF CacheInv
<1>5. CASE role[1] # "viewer"
  <2>1. \A v : ~ Claims(q, v)'
    BY <1>3, <1>5 DEF Claims, Viewing
  <2>2. AnswersInv'
    BY <1>1, <1>3, <1>5, <2>1, NothingClaimed
  <2> QED BY <1>1, <1>3, <1>5, <2>2 DEF CacheInv
<1> QED BY <1>4, <1>5

LEMMA RevokeCache ==
  ASSUME TypesInv, CacheInv, NEW q \in Request, Revoke(q)
  PROVE  CacheInv'
<1> DEFINE plan == RevokeDataset
<1>1. /\ Begins(q, "revoke", NoRole, "dataset", plan) /\ tainted' = tainted
      /\ coherent' = IF OthersActive(q) = {}
                     THEN {v \in coherent : P("view") \in vperm[v] \/ dperm = {}} ELSE {}
  BY DEF Revoke
<1>2. plan \in Seq(Op) /\ NoRole \in Role
  BY RevokeDatasetPlan, Constants
<1> HIDE DEF plan
<1>3. /\ request'[q].kind = "revoke" /\ request'[q].pc = "dataset"
      /\ \A p \in Request \ {q} : Alike(p)
      /\ Active(q)' /\ ~ Active(q) /\ ~ Creates(q)'
      /\ UNCHANGED <<perms, views, cache, check>>
      /\ \A p \in Request \ {q} : \A v : ~ Claims(p, v)'
      /\ \A v : ~ Claims(q, v)'
      /\ OthersActive(q) = {} => \A p \in Request \ {q} : ~ Active(p) /\ ~ Active(p)'
      /\ SoleInv'
      /\ coherent' = {} => GrantsInv' /\ RevocationsInv'
  BY <1>1, <1>2, CacheBegins
<1>4. CASE OthersActive(q) # {}
  <2>1. AnswersInv'
    BY <1>1, <1>3, <1>4, NothingClaimed
  <2> QED BY <1>1, <1>3, <1>4, <2>1 DEF CacheInv
<1>5. CASE OthersActive(q) = {}
  <2>1. \A p \in Request \ {q} : ~ Active(p) /\ ~ Active(p)'
    BY <1>3, <1>5
  <2>2. ASSUME NEW x \in Resource, x[1] \in views' \ tainted', Claimed(x[1])'
        PROVE  cache'[x] \in {"none", Answer(x)'} \/ \E p \in Request : Resets(p, x[1])'
    <3>1. x[1] \in coherent' /\ x[1] \in coherent /\ x[1] \in views \ tainted
      BY <1>1, <1>3, <1>5, <2>2 DEF Claimed
    <3>2. CASE P("view") \in vperm[x[1]]
      <4>1. Resets(q, x[1])'
        BY <1>3, <3>2 DEF Resets, perms
      <4> QED BY <4>1
    <3>3. CASE P("view") \notin vperm[x[1]]
      <4>1. UNCHANGED <<perms, cache>>
        BY <1>3
      <4>2. \/ cache'[x] \in {"none", Answer(x)'}
            \/ \E p \in Request \ {q} : Active(p) /\ Resets(p, x[1])'
        BY <1>3, <3>1, <4>1, BegunKeeps
      <4> QED BY <2>1, <4>2
    <3> QED BY <3>2, <3>3
  <2>3. AnswersInv'
    BY <2>2 DEF AnswersInv
  <2>4. GrantsInv'
    BY <1>3, <2>1 DEF GrantsInv
  <2>5. RevocationsInv'
    <3>1. \A p \in Request : (Revokes(p) \/ Downgrades(p))' => p = q
      BY <2>1 DEF Revokes, Downgrades, Shares
    <3>2. \A p \in Request : (Active(p) /\ Creates(p))' => p = q
      BY <2>1
    <3>3. \A v \in coherent' : Spared(v)'
      BY <1>1, <1>3, <1>5 DEF Spared, perms
    <3> QED BY <1>3, <3>1, <3>2, <3>3 DEF RevocationsInv
  <2> QED BY <1>3, <2>3, <2>4, <2>5 DEF CacheInv
<1> QED BY <1>4, <1>5

LEMMA DowngradeCache ==
  ASSUME TypesInv, CacheInv, NEW q \in Request, Downgrade(q)
  PROVE  CacheInv'
<1> DEFINE plan == RevokeDataset
<1>1. /\ Begins(q, "downgrade", Viewer(1), "dataset", plan) /\ tainted' = tainted
      /\ coherent' = IF OthersActive(q) = {} THEN coherent ELSE {}
  BY DEF Downgrade
<1>2. plan \in Seq(Op) /\ Viewer(1) \in Role
  BY RevokeDatasetPlan, Constants
<1> HIDE DEF plan
<1>3. /\ request'[q].kind = "downgrade"
      /\ \A p \in Request \ {q} : Alike(p)
      /\ Active(q)' /\ ~ Active(q) /\ ~ Creates(q)'
      /\ UNCHANGED <<perms, views, cache, check>>
      /\ OthersActive(q) = {} => \A p \in Request \ {q} : ~ Active(p) /\ ~ Active(p)'
      /\ SoleInv'
      /\ coherent' = {} => GrantsInv' /\ RevocationsInv'
  BY <1>1, <1>2, CacheBegins
<1>4. AnswersInv'
  <2>1. \A v : Resets(q, v)'
    BY <1>3 DEF Resets
  <2> QED BY <2>1 DEF AnswersInv
<1>5. CASE OthersActive(q) # {}
  BY <1>1, <1>3, <1>4, <1>5 DEF CacheInv
<1>6. CASE OthersActive(q) = {}
  <2>1. ~ Revokes(q)' /\ (request'[q].kind = "grant" => Viewing(q)')
    BY <1>3 DEF Revokes
  <2>2. coherent' = coherent /\ \A p \in Request \ {q} : ~ Active(p)'
    BY <1>1, <1>3, <1>6
  <2>3. RevocationsInv'
    BY <1>3, <2>1, <2>2, BegunRevocations
  <2>4. GrantsInv'
    BY <1>3, <2>1, <2>2, BegunGrants
  <2> QED BY <1>3, <1>4, <2>3, <2>4 DEF CacheInv
<1> QED BY <1>5, <1>6

LEMMA ExternalCache ==
  ASSUME TypesInv, CacheInv, NEW q \in Request, NEW v \in View, NEW l \in Level \cup {0},
         GrantExternal(q, v, l)
  PROVE  CacheInv'
<1> DEFINE plan == ShareView(l)
<1>1. /\ Begins(q, "external", NoRole, v, plan) /\ tainted' = tainted /\ coherent' = coherent
      /\ v # "dataset"
  BY Constants DEF GrantExternal, history
<1>2. plan \in Seq(Op) /\ NoRole \in Role /\ Reset \in Range(plan)
  BY ShareViewPlan, Constants
<1> HIDE DEF plan
<1>3. /\ request'[q].kind = "external" /\ request'[q].on = v /\ request'[q].plan = plan
      /\ \A p \in Request \ {q} : Alike(p)
      /\ Active(q)' /\ ~ Active(q) /\ ~ Creates(q)'
      /\ UNCHANGED <<perms, views, cache, check>>
      /\ \A p \in Request \ {q} : \A u : ~ Claims(p, u)'
      /\ SoleInv'
  BY <1>1, <1>2, CacheBegins
<1>4. ASSUME NEW x \in Resource, x[1] \in views' \ tainted', Claimed(x[1])'
      PROVE  cache'[x] \in {"none", Answer(x)'} \/ \E p \in Request : Resets(p, x[1])'
  <2>1. CASE x[1] = v
    <3>1. Resets(q, x[1])'
      BY <1>2, <1>3, <2>1 DEF Resets
    <3> QED BY <3>1
  <2>2. CASE x[1] # v
    <3>1. ~ Claims(q, x[1])'
      BY <1>3, <2>2 DEF Claims
    <3>2. x[1] \in coherent /\ x[1] \in views \ tainted
      BY <1>1, <1>3, <1>4, <3>1 DEF Claimed
    <3>3. UNCHANGED <<perms, cache>>
      BY <1>3
    <3>4. \/ cache'[x] \in {"none", Answer(x)'}
          \/ \E p \in Request \ {q} : Active(p) /\ Resets(p, x[1])'
      BY <1>3, <3>2, <3>3, BegunKeeps
    <3> QED BY <3>4
  <2> QED BY <2>1, <2>2
<1>5. AnswersInv'
  BY <1>4 DEF AnswersInv
<1>6. ~ Revokes(q)' /\ ~ Downgrades(q)' /\ (request'[q].kind = "grant" => Viewing(q)')
  BY <1>3 DEF Revokes, Downgrades
<1>7. RevocationsInv'
  BY <1>1, <1>3, <1>6, BegunRevocations
<1>8. GrantsInv'
  BY <1>1, <1>3, <1>6, BegunGrants
<1> QED BY <1>3, <1>5, <1>7, <1>8 DEF CacheInv

LEMMA CreateCache ==
  ASSUME TypesInv, CacheInv, NEW q \in Request, NEW v \in View, CreateView(q, v)
  PROVE  CacheInv'
<1> DEFINE new == [Fresh EXCEPT !.kind = "create", !.pc = "created", !.on = v]
           alone == \A p \in OthersActive(q) : ~ SharesDataset(p)
<1>1. /\ v \notin views /\ views' = views \cup {v} /\ request' = [request EXCEPT ![q] = new]
      /\ request[q].pc = "idle"
      /\ coherent' = (IF alone THEN coherent \cup {v} ELSE coherent)
      /\ UNCHANGED <<perms, cache, check, intended, tainted>>
  BY DEF CreateView
<1>2. new.kind = "create" /\ new.pc = "created" /\ new.on = v /\ ~ new.sole
  BY DEF Fresh
<1> HIDE DEF new
<1>3. /\ request'[q] = new /\ (\A p \in Request \ {q} : request'[p] = request[p])
      /\ RequestsInv /\ coherent \subseteq views
  BY <1>1 DEF TypesInv, RequestsInv, TypeOK
<1>4. (\A p \in Request \ {q} : Alike(p)) /\ ~ Active(q) /\ Active(q)' /\ Creates(q)'
  BY <1>1, <1>2, <1>3 DEF Alike, Active, Creates
<1>5. \A p \in Request \ {q} :
        /\ request'[p] = request[p]
        /\ Active(p)' <=> Active(p)
        /\ Creates(p)' <=> Creates(p)
        /\ Viewing(p)' <=> Viewing(p)
        /\ Revokes(p)' <=> Revokes(p)
        /\ Downgrades(p)' <=> Downgrades(p)
  BY <1>3, <1>4, AlikeFields, AlikeResets
<1>6. ~ Revokes(q)' /\ ~ Downgrades(q)' /\ \A u : ~ Claims(q, u)'
  BY <1>2, <1>3 DEF Revokes, Downgrades, Claims
<1>7. AnswersInv'
  <2>1. ASSUME NEW x \in Resource, x[1] \in views' \ tainted', Claimed(x[1])'
        PROVE  cache'[x] \in {"none", Answer(x)'} \/ \E p \in Request : Resets(p, x[1])'
    <3>1. CASE x[1] \notin views
      BY <1>1, <3>1 DEF TypesInv, ChecksInv
    <3>2. CASE x[1] \in views
      <4>1. x[1] \in View /\ vperm'[x[1]] = vperm[x[1]]
        BY <1>1, Constants DEF perms
      <4>2. Claimed(x[1])
        <5>1. CASE x[1] \in coherent'
          BY <1>1, <3>2, <5>1 DEF Claimed
        <5>2. CASE \E p \in Request : Claims(p, x[1])'
          <6>1. PICK p \in Request : Claims(p, x[1])'
            BY <5>2
          <6>2. p # q
            BY <1>6, <6>1
          <6>3. Claims(p, x[1])
            BY <1>3, <1>4, <6>1, <6>2, AlikeResets
          <6> QED BY <6>3 DEF Claimed
        <5> QED BY <2>1, <5>1, <5>2 DEF Claimed
      <4>3. CASE cache[x] \in {"none", Answer(x)}
        BY <1>1, <4>3, AnswerKept
      <4>4. CASE \E p \in Request : Resets(p, x[1])
        <5>1. PICK p \in Request : Resets(p, x[1])
          BY <4>4
        <5>2. p # q
          BY <1>4, <5>1 DEF Resets
        <5>3. Resets(p, x[1])'
          BY <1>3, <1>4, <4>1, <5>1, <5>2, AlikeResets
        <5> QED BY <5>3
      <4> QED BY <1>1, <2>1, <3>2, <4>2, <4>3, <4>4 DEF CacheInv, AnswersInv
    <3> QED BY <3>1, <3>2
  <2> QED BY <2>1 DEF AnswersInv
<1>8. SoleInv'
  <2>1. \A p \in Request : Creates(p)' => ~ request'[p].sole
    BY <1>2, <1>3, <1>5 DEF CacheInv, SoleInv
  <2>2. \A p, r \in Request : (Active(p) /\ Active(r))' /\ request'[r].sole /\ p # r => Creates(p)'
    BY <1>2, <1>3, <1>4, <1>5 DEF CacheInv, SoleInv
  <2> QED BY <2>1, <2>2 DEF SoleInv
<1>9. ASSUME NEW p \in Request, Active(p)', request'[p].kind \in {"grant", "revoke", "downgrade"}
      PROVE  coherent' = coherent /\ p # q
  <2>1. p # q
    BY <1>2, <1>3, <1>9
  <2>2. p \in OthersActive(q) /\ SharesDataset(p)
    BY <1>5, <1>9, <2>1 DEF OthersActive, SharesDataset
  <2> QED BY <1>1, <2>1, <2>2
<1>10. GrantsInv'
  <2>1. ASSUME NEW p \in Request, Active(p)', request'[p].kind = "grant", ~ Viewing(p)'
        PROVE  coherent' = {}
    BY <1>5, <1>9, <2>1 DEF CacheInv, GrantsInv
  <2> QED BY <2>1 DEF GrantsInv
<1>11. ASSUME NEW r \in Request, Revokes(r)'
       PROVE  /\ \A p \in Request : (Revokes(p) \/ Downgrades(p))' => p = r \/ coherent' = {}
              /\ \A p \in Request : (Active(p) /\ Creates(p))' => request'[p].on \notin coherent'
              /\ request'[r].pc = "dataset" => \A u \in coherent' : Spared(u)'
  <2>1. r # q /\ coherent' = coherent /\ Revokes(r) /\ request'[r] = request[r]
    BY <1>5, <1>9, <1>11 DEF Revokes
  <2>2. \A p \in Request : (Revokes(p) \/ Downgrades(p))' => p = r \/ coherent' = {}
    BY <1>5, <1>6, <2>1 DEF CacheInv, RevocationsInv
  <2>3. \A p \in Request : (Active(p) /\ Creates(p))' => request'[p].on \notin coherent'
    BY <1>1, <1>2, <1>3, <1>5, <2>1 DEF CacheInv, RevocationsInv
  <2>4. ASSUME request'[r].pc = "dataset", NEW u \in coherent' PROVE Spared(u)'
    <3>1. Spared(u)
      BY <2>1, <2>4 DEF CacheInv, RevocationsInv
    <3>2. CASE P("view") \in vperm[u] \/ dperm = {}
      BY <1>1, <3>2 DEF Spared, perms
    <3>3. CASE \E p \in Request : GrantShows(p, u) /\ Viewing(p)
      <4>1. PICK p \in Request : GrantShows(p, u) /\ Viewing(p)
        BY <3>3
      <4>2. p # q
        BY <1>4, <4>1 DEF GrantShows
      <4>3. GrantShows(p, u)' /\ Viewing(p)'
        BY <1>3, <1>4, <1>5, <4>1, <4>2, AlikeResets
      <4> QED BY <4>3 DEF Spared
    <3> QED BY <3>1, <3>2, <3>3 DEF Spared
  <2> QED BY <2>2, <2>3, <2>4
<1>12. RevocationsInv'
  BY <1>11 DEF RevocationsInv
<1> QED BY <1>7, <1>8, <1>10, <1>12 DEF CacheInv

\* When no permission changes and q still shows what it showed, revocations
\* spare what they spared.
LEMMA SparedKept ==
  ASSUME TypesInv, CacheInv, NEW q \in Request, \A p \in Request \ {q} : Alike(p),
         UNCHANGED perms, NEW u, Viewing(q)' <=> Viewing(q),
         GrantShows(q, u) => GrantShows(q, u)', Spared(u)
  PROVE  Spared(u)'
<1>1. CASE P("view") \in vperm[u] \/ dperm = {}
  BY <1>1 DEF Spared, perms
<1>2. CASE \E p \in Request : GrantShows(p, u) /\ Viewing(p)
  <2>1. PICK p \in Request : GrantShows(p, u) /\ Viewing(p)
    BY <1>2
  <2>2. GrantShows(p, u)' /\ Viewing(p)'
    BY <2>1, AlikeResets, AlikeFields DEF TypesInv
  <2> QED BY <2>2 DEF Spared
<1> QED BY <1>1, <1>2 DEF Spared

\* A turn of q that leaves permissions and answers alone
LEMMA TurnCache ==
  ASSUME TypesInv, CacheInv, NEW q \in Request, \A p \in Request \ {q} : Alike(p),
         UNCHANGED <<perms, cache, views, tainted, coherent>>,
         Active(q)' => Active(q),
         request'[q].kind = request[q].kind, request'[q].role = request[q].role,
         request'[q].sole = request[q].sole,
         Creates(q) => request'[q].on = request[q].on,
         request[q].kind = "external" => request'[q].on = request[q].on,
         request'[q].pc = "dataset" => request[q].pc = "dataset",
         \A v \in views : Resets(q, v) => Resets(q, v)',
         \A v \in views : GrantShows(q, v) => GrantShows(q, v)'
  PROVE  CacheInv'
<1>1. /\ Creates(q)' <=> Creates(q)
      /\ Viewing(q)' <=> Viewing(q)
      /\ Revokes(q)' => Revokes(q)
      /\ Downgrades(q)' => Downgrades(q)
      /\ \A v : Claims(q, v)' => Claims(q, v)
  BY DEF Creates, Viewing, Revokes, Downgrades, Shares, SharesDataset, Claims
<1>2. RequestsInv /\ coherent \subseteq views
  BY DEF TypesInv, TypeOK
<1>3. ASSUME NEW r \in Request, NEW v \in coherent, Revokes(r)', request'[r].pc = "dataset"
      PROVE Spared(v)'
  <2>1. Revokes(r) /\ request[r].pc = "dataset"
    BY <1>1, <1>2, <1>3, AlikeResets, AlikeFields
  <2>2. Spared(v)
    BY <2>1 DEF CacheInv, RevocationsInv
  <2>3. GrantShows(q, v) => GrantShows(q, v)'
    BY <1>2
  <2> QED BY <1>1, <2>2, <2>3, SparedKept
<1>4. request'[q].sole => request[q].sole
  OBVIOUS
<1>5. Active(q)' /\ request'[q].kind = "grant" => request[q].kind = "grant" \/ Viewing(q)
  OBVIOUS
<1>6. coherent' = coherent
  OBVIOUS
<1>7. SoleInv' /\ GrantsInv' /\ RevocationsInv'
  BY <1>1, <1>3, <1>4, <1>5, <1>6, RivalsKept
<1>8. \A v \in coherent' : Claimed(v)
  BY <1>6 DEF Claimed
<1>9. coherent' \subseteq views /\ UNCHANGED <<perms, cache, views, tainted>>
  BY <1>2
<1>10. AnswersInv'
  BY <1>1, <1>8, <1>9, AnswersKept
<1> QED BY <1>7, <1>10 DEF CacheInv

LEMMA FindUsersCache ==
  ASSUME TypesInv, CacheInv, NEW q \in Request, FindUsers(q)
  PROVE  CacheInv'
<1> DEFINE new == [request[q] EXCEPT !.pc = IF dperm = {} THEN "done" ELSE "found"]
<1>1. /\ request[q].pc = "created" /\ request' = [request EXCEPT ![q] = new]
      /\ UNCHANGED <<perms, views, cache, check, history>>
  BY DEF FindUsers
<1>2. request[q] \in RequestState /\ RequestSound(q) /\ PlanSound(q)
      /\ request \in [Request -> RequestState]
  BY DEF TypesInv, RequestsInv
<1>3. /\ new.pc \in {"done", "found"} /\ new.plan = request[q].plan
      /\ new.kind = request[q].kind /\ new.on = request[q].on /\ new.todo = request[q].todo
      /\ new.role = request[q].role /\ new.sole = request[q].sole
  BY <1>2 DEF RequestState
<1> HIDE DEF new
<1>4. request'[q] = new /\ (\A p \in Request \ {q} : Alike(p))
  BY <1>1, <1>2 DEF Alike
<1>5. request[q].kind = "create" /\ request[q].plan = <<>> /\ Active(q)
  BY <1>1, <1>2 DEF RequestSound, PlanSound, Active
<1>6. Reset \notin Range(<<>>)
  BY DEF Range
<1>7. \A v : ~ Resets(q, v) /\ ~ GrantShows(q, v)
  BY <1>5, <1>6 DEF Resets, GrantShows
<1>8. UNCHANGED <<perms, cache, views, tainted, coherent>>
  BY <1>1 DEF history
<1> QED BY <1>3, <1>4, <1>5, <1>7, <1>8, TurnCache

LEMMA GrantOnCreationCache ==
  ASSUME TypesInv, CacheInv, NEW q \in Request, GrantOnCreation(q)
  PROVE  CacheInv'
<1> DEFINE plan == CASE dperm \cap {P("upload"), P("add_view")} # {} -> GrantView(<<"manager", 0>>)
                     [] dperm \cap {P("upload"), P("add_view")} = {}
                        /\ \E l \in Level : Read(l) \in dperm -> GrantView(Viewer(1))
                     [] OTHER -> <<>>
           new == [request[q] EXCEPT !.pc = "views", !.plan = plan]
<1>1. /\ request[q].pc = "found" /\ request' = [request EXCEPT ![q] = new]
      /\ UNCHANGED <<perms, views, cache, check, history>>
  BY DEF GrantOnCreation
<1> HIDE DEF plan
<1>2. request[q] \in RequestState /\ RequestSound(q) /\ PlanSound(q)
      /\ request \in [Request -> RequestState]
  BY DEF TypesInv, RequestsInv
<1>3. /\ new.pc = "views" /\ new.kind = request[q].kind /\ new.on = request[q].on
      /\ new.role = request[q].role /\ new.sole = request[q].sole
  BY <1>2 DEF RequestState
<1> HIDE DEF new
<1>4. request'[q] = new /\ (\A p \in Request \ {q} : Alike(p))
  BY <1>1, <1>2 DEF Alike
<1>5. request[q].kind = "create" /\ request[q].plan = <<>> /\ Active(q)
  BY <1>1, <1>2 DEF RequestSound, PlanSound, Active
<1>6. Reset \notin Range(<<>>)
  BY DEF Range
<1>7. \A v : ~ Resets(q, v) /\ ~ GrantShows(q, v)
  BY <1>5, <1>6 DEF Resets, GrantShows
<1>8. UNCHANGED <<perms, cache, views, tainted, coherent>>
  BY <1>1 DEF history
<1> QED BY <1>3, <1>4, <1>5, <1>7, <1>8, TurnCache

LEMMA ListViewsCache ==
  ASSUME TypesInv, CacheInv, NEW q \in Request, ListViews(q)
  PROVE  CacheInv'
<1> DEFINE new == [request[q] EXCEPT !.pc = "views", !.todo = views]
<1>1. /\ request[q].pc = "dataset" /\ request[q].plan = <<>> /\ Active(q)
      /\ request' = [request EXCEPT ![q] = new]
      /\ UNCHANGED <<perms, views, cache, check, history>>
  BY DEF ListViews, Through
<1>2. request[q] \in RequestState /\ request \in [Request -> RequestState]
  BY DEF TypesInv, RequestsInv
<1>3. /\ new.pc = "views" /\ new.plan = <<>> /\ new.todo = views
      /\ new.kind = request[q].kind /\ new.on = request[q].on /\ new.role = request[q].role
      /\ new.sole = request[q].sole
  BY <1>1, <1>2 DEF RequestState
<1> HIDE DEF new
<1>4. request'[q] = new /\ (\A p \in Request \ {q} : Alike(p))
  BY <1>1, <1>2 DEF Alike
<1>5. Active(q)' /\ (Viewing(q)' <=> Viewing(q))
  BY <1>3, <1>4 DEF Active, Viewing
<1>6. UNCHANGED <<perms, cache, views, tainted, coherent>>
  BY <1>1 DEF history
<1>7. ASSUME NEW v \in views, Resets(q, v) PROVE Resets(q, v)'
  <2>1. Reset \notin Range(<<>>)
    BY DEF Range
  <2> QED BY <1>1, <1>3, <1>4, <1>5, <1>7, <2>1 DEF Resets, perms
<1>8. ASSUME NEW v \in views, GrantShows(q, v) PROVE GrantShows(q, v)'
  BY <1>3, <1>4, <1>5, <1>8 DEF GrantShows
<1> QED BY <1>1, <1>3, <1>4, <1>6, <1>7, <1>8, TurnCache

LEMMA NextViewCache ==
  ASSUME TypesInv, CacheInv, NEW q \in Request, NextView(q)
  PROVE  CacheInv'
<1>1. PICK v \in request[q].todo :
        request' = [request EXCEPT
          ![q].todo = @ \ {v}, ![q].on = v,
          ![q].plan = IF request[q].kind = "grant" THEN GrantView(request[q].role)
                      ELSE RevokeView(v)]
  BY DEF NextView
<1> DEFINE plan == IF request[q].kind = "grant" THEN GrantView(request[q].role) ELSE RevokeView(v)
           new == [request[q] EXCEPT !.todo = @ \ {v}, !.on = v, !.plan = plan]
<1>2. /\ request[q].pc = "views" /\ Active(q) /\ request[q].plan = <<>>
      /\ request' = [request EXCEPT ![q] = new]
      /\ UNCHANGED <<perms, views, cache, check, history>>
  BY <1>1 DEF NextView, Through
<1>3. request[q] \in RequestState /\ RequestSound(q) /\ request \in [Request -> RequestState]
  BY DEF TypesInv, RequestsInv
<1>4. /\ request[q].kind \in {"grant", "revoke", "downgrade"}
      /\ request[q].kind = "grant" => request[q].role # NoRole /\ request[q].role \in Role
  BY <1>2, <1>3 DEF RequestSound, RequestState
<1>5. /\ request[q].kind = "grant" =>
           P("view") \in Assigned(plan) /\ (request[q].role[1] = "viewer" => Reset \in Range(plan))
      /\ request[q].kind = "revoke" /\ P("view") \in vperm[v] => Reset \in Range(plan)
  <2>1. CASE request[q].kind = "grant"
    <3>1. plan = GrantView(request[q].role)
      BY <2>1
    <3> HIDE DEF plan
    <3> QED BY <1>4, <2>1, <3>1, GrantViewPlan
  <2>2. CASE request[q].kind # "grant"
    <3>1. plan = RevokeView(v)
      BY <2>2
    <3> HIDE DEF plan
    <3> QED BY <2>2, <3>1, RevokeViewPlan
  <2> QED BY <2>1, <2>2
<1> HIDE DEF plan
<1>6. /\ new.pc = "views" /\ new.plan = plan /\ new.todo = request[q].todo \ {v} /\ new.on = v
      /\ new.kind = request[q].kind /\ new.role = request[q].role /\ new.sole = request[q].sole
  BY <1>2, <1>3 DEF RequestState
<1> HIDE DEF new
<1>7. request'[q] = new /\ (\A p \in Request \ {q} : Alike(p))
  BY <1>2, <1>3 DEF Alike
<1>8. Active(q)' /\ (Viewing(q)' <=> Viewing(q))
  BY <1>6, <1>7 DEF Active, Viewing
<1>9. UNCHANGED <<perms, cache, views, tainted, coherent>> /\ vperm' = vperm
  BY <1>2 DEF history, perms
<1>10. Reset \notin Range(<<>>) /\ P("view") \notin Assigned(<<>>)
  BY DEF Range, Assigned
<1>11. ASSUME NEW u \in views, Resets(q, u) PROVE Resets(q, u)'
  <2>1. \/ request[q].kind = "downgrade"
        \/ request[q].kind = "grant" /\ Viewing(q) /\ u \in request[q].todo
        \/ request[q].kind = "revoke" /\ P("view") \in vperm[u] /\ u \in request[q].todo
    BY <1>2, <1>10, <1>11 DEF Resets
  <2>2. CASE request[q].kind = "downgrade"
    BY <1>6, <1>7, <1>8, <2>2 DEF Resets
  <2>3. CASE u = v
    BY <1>5, <1>6, <1>7, <1>8, <2>1, <2>2, <2>3 DEF Resets, Viewing
  <2>4. CASE u # v
    BY <1>6, <1>7, <1>8, <1>9, <2>1, <2>2, <2>4 DEF Resets
  <2> QED BY <2>3, <2>4
<1>12. ASSUME NEW u \in views, GrantShows(q, u) PROVE GrantShows(q, u)'
  <2>1. request[q].kind = "grant" /\ u \in request[q].todo
    BY <1>2, <1>10, <1>12 DEF GrantShows
  <2> QED BY <1>5, <1>6, <1>7, <1>8, <2>1 DEF GrantShows
<1>13. ~ Creates(q) /\ request[q].kind # "external"
  BY <1>4 DEF Creates
<1> QED BY <1>2, <1>6, <1>7, <1>9, <1>11, <1>12, <1>13, TurnCache

LEMMA EndCache ==
  ASSUME TypesInv, CacheInv, NEW q \in Request, End(q)
  PROVE  CacheInv'
<1>1. /\ Active(q) /\ request[q].plan = <<>> /\ request[q].pc = "views" /\ request[q].todo = {}
      /\ (\A p \in Request \ {q} : request'[p] = request[p])
      /\ UNCHANGED <<perms, views, cache, tainted>>
  BY EndEffect
<1>2. RequestsInv /\ request[q] \in RequestState /\ RequestSound(q)
      /\ (\A p \in Request \ {q} : Alike(p)) /\ coherent \subseteq views
  BY <1>1 DEF TypesInv, RequestsInv, Alike, TypeOK
<1>3. Reset \notin Range(<<>>) /\ P("view") \notin Assigned(<<>>)
  BY DEF Range, Assigned
<1>4. request[q].kind # "downgrade" => \A v : ~ Resets(q, v)
  BY <1>1, <1>3 DEF Resets
<1>5. \A v : ~ GrantShows(q, v)
  BY <1>1, <1>3 DEF GrantShows
<1>6. \A r \in Request \ {q} :
        /\ Revokes(r)' <=> Revokes(r)
        /\ Active(r)' <=> Active(r)
  BY <1>2, AlikeResets, AlikeFields
<1>7. ASSUME NEW r \in Request, NEW v \in coherent, Revokes(r)', request'[r].pc = "dataset",
             ~ Revokes(q)', Viewing(q)' <=> Viewing(q)
      PROVE Spared(v)'
  <2>1. r # q /\ Revokes(r) /\ request[r].pc = "dataset"
    BY <1>1, <1>6, <1>7
  <2>2. Spared(v)
    BY <2>1 DEF CacheInv, RevocationsInv
  <2>3. UNCHANGED perms
    BY <1>1
  <2> QED BY <1>2, <1>5, <1>7, <2>2, <2>3, SparedKept
<1>8. CASE request[q].kind = "downgrade"
  <2>1. /\ request'[q].kind = "grant" /\ request[q].role = Viewer(1)
        /\ request'[q].role = Viewer(1) /\ request'[q].pc = "dataset"
        /\ request'[q].on = "dataset" /\ request'[q].sole = request[q].sole
        /\ coherent' = coherent
    BY <1>8, EndEffect
  <2>2. Viewing(q) /\ Viewing(q)'
    BY <2>1 DEF Viewing, Viewer
  <2>3. /\ Creates(q)' <=> Creates(q)
        /\ ~ Creates(q) /\ ~ Revokes(q)' /\ ~ Downgrades(q)' /\ Active(q)'
    BY <1>8, <2>1 DEF Creates, Revokes, Downgrades, Active
  <2>4. \A v : Resets(q, v)'
    BY <2>1, <2>2, <2>3 DEF Resets
  <2>5. AnswersInv'
    BY <2>4 DEF AnswersInv
  <2>6. \A r \in Request, v \in coherent : Revokes(r)' /\ request'[r].pc = "dataset" => Spared(v)'
    BY <1>7, <2>2, <2>3
  <2>7. SoleInv' /\ GrantsInv' /\ RevocationsInv'
    BY <1>1, <1>2, <2>1, <2>2, <2>3, <2>6, RivalsKept
  <2> QED BY <2>5, <2>7 DEF CacheInv
<1>9. CASE request[q].kind # "downgrade"
  <2>1. /\ request'[q] = [Fresh EXCEPT !.pc = "done"]
        /\ ~ Active(q)' /\ ~ Creates(q)'
        /\ coherent' = IF ~ request[q].sole THEN coherent
                       ELSE IF request[q].kind = "external" THEN coherent \cup {request[q].on}
                       ELSE IF Viewing(q) THEN views ELSE coherent
    BY <1>9, EndEffect
  <2>2. ~ Revokes(q)' /\ \A v : ~ Claims(q, v)'
    BY <2>1 DEF Revokes, Claims
  <2>3. \A v \in coherent' : v \in coherent \/ Claims(q, v)
    <3>1. request[q].sole => ~ Creates(q)
      BY DEF CacheInv, SoleInv
    <3>2. request[q].kind \in {"grant", "external"} \/ Creates(q) \/ ~ Viewing(q)
      BY <1>1, <1>2, <1>9 DEF RequestSound, RequestState, Viewing, Creates, NoRole
    <3> QED BY <1>1, <2>1, <3>1, <3>2 DEF Claims
  <2>4. coherent' \subseteq views
    BY <1>1, <1>2, <2>1 DEF RequestSound
  <2>5. AnswersInv'
    <3>1. \A v \in coherent' : Claimed(v)
      BY <2>3 DEF Claimed
    <3> QED BY <1>1, <1>2, <1>4, <1>9, <2>2, <2>4, <3>1, AnswersKept
  <2>6. CASE coherent' # coherent
    <3>1. request[q].sole
      BY <2>1, <2>6
    <3>2. \A p \in Request : Active(p)' => Creates(p)'
      <4>1. \A p \in Request \ {q} : Active(p) => Creates(p)
        BY <1>1, <3>1 DEF CacheInv, SoleInv
      <4>2. \A p \in Request \ {q} : Creates(p)' <=> Creates(p)
        BY <1>2, AlikeFields
      <4> QED BY <1>6, <2>1, <4>1, <4>2
    <3>3. \A p \in Request : Creates(p)' => ~ request'[p].sole
      BY <1>1, <2>1 DEF CacheInv, SoleInv, Creates
    <3>4. SoleInv'
      BY <3>2, <3>3 DEF SoleInv
    <3>5. GrantsInv' /\ RevocationsInv'
      BY <3>2 DEF GrantsInv, RevocationsInv, Revokes, Creates
    <3> QED BY <2>5, <3>4, <3>5 DEF CacheInv
  <2>7. CASE coherent' = coherent
    <3>1. ASSUME NEW p \in Request, (Active(p) \/ Creates(p))' PROVE p # q /\ request'[p] = request[p]
      BY <1>1, <2>1, <3>1
    <3>2. SoleInv'
      <4>1. \A p \in Request : Creates(p)' => ~ request'[p].sole
        BY <3>1 DEF CacheInv, SoleInv, Creates
      <4>2. \A p, r \in Request : (Active(p) /\ Active(r))' /\ request'[r].sole /\ p # r => Creates(p)'
        BY <1>6, <3>1 DEF CacheInv, SoleInv, Creates
      <4> QED BY <4>1, <4>2 DEF SoleInv
    <3>3. GrantsInv'
      <4>1. ASSUME NEW p \in Request, Active(p)', request'[p].kind = "grant", ~ Viewing(p)'
            PROVE coherent' = {}
        BY <1>6, <2>7, <3>1, <4>1 DEF CacheInv, GrantsInv, Viewing
      <4> QED BY <4>1 DEF GrantsInv
    <3>4. ASSUME NEW r \in Request, Revokes(r)'
          PROVE  /\ \A p \in Request : (Revokes(p) \/ Downgrades(p))' => p = r \/ coherent' = {}
                 /\ \A p \in Request : (Active(p) /\ Creates(p))' => request'[p].on \notin coherent'
                 /\ request'[r].pc = "dataset" => \A v \in coherent' : Spared(v)'
      <4>1. r # q /\ Revokes(r) /\ request'[r] = request[r]
        BY <1>1, <1>6, <2>2, <3>4
      <4>2. ASSUME NEW p \in Request, (Revokes(p) \/ Downgrades(p))' PROVE p = r \/ coherent' = {}
        <5>1. p # q
          BY <2>1, <4>2 DEF Revokes, Downgrades, Shares
        <5>2. Revokes(p) \/ Downgrades(p)
          BY <1>2, <4>2, <5>1, AlikeResets
        <5> QED BY <2>7, <4>1, <5>2 DEF CacheInv, RevocationsInv
      <4>3. ASSUME NEW p \in Request, (Active(p) /\ Creates(p))' PROVE request'[p].on \notin coherent'
        <5>1. p # q /\ request'[p] = request[p]
          BY <3>1, <4>3
        <5>2. Active(p) /\ Creates(p)
          BY <1>6, <4>3, <5>1 DEF Creates
        <5> QED BY <2>7, <4>1, <5>1, <5>2 DEF CacheInv, RevocationsInv
      <4>4. ASSUME request'[r].pc = "dataset", NEW v \in coherent' PROVE Spared(v)'
        <5>1. Spared(v)
          BY <2>7, <4>1, <4>4 DEF CacheInv, RevocationsInv
        <5>2. CASE P("view") \in vperm[v] \/ dperm = {}
          BY <1>1, <5>2 DEF Spared, perms
        <5>3. CASE \E p \in Request : GrantShows(p, v) /\ Viewing(p)
          <6>1. PICK p \in Request : GrantShows(p, v) /\ Viewing(p)
            BY <5>3
          <6>2. p # q
            BY <1>5, <6>1
          <6>3. GrantShows(p, v)' /\ Viewing(p)'
            BY <1>2, <6>1, <6>2, AlikeResets, AlikeFields
          <6> QED BY <6>3 DEF Spared
        <5> QED BY <5>1, <5>2, <5>3 DEF Spared
      <4> QED BY <4>2, <4>3, <4>4
    <3>5. RevocationsInv'
      BY <3>4 DEF RevocationsInv
    <3> QED BY <2>5, <3>2, <3>3, <3>5 DEF CacheInv
  <2> QED BY <2>6, <2>7
<1> QED BY <1>8, <1>9

\* What every step of a plan leaves of the request that takes it
LEMMA StepRequest ==
  ASSUME TypesInv, NEW q \in Request, Step(q)
  PROVE  LET plan == request[q].plan
             op == Head(plan)
             rest == Tail(plan)
         IN  /\ \A p \in Request \ {q} : Alike(p)
             /\ request[q] \in RequestState /\ RequestSound(q) /\ PlanSound(q)
             /\ request'[q].kind = request[q].kind /\ request'[q].role = request[q].role
             /\ request'[q].on = request[q].on /\ request'[q].pc = request[q].pc
             /\ request'[q].todo = request[q].todo /\ request'[q].sole = request[q].sole
             /\ request'[q].plan = rest
             /\ Active(q) /\ Active(q)'
             /\ Viewing(q)' <=> Viewing(q)
             /\ Creates(q)' <=> Creates(q)
             /\ Revokes(q)' <=> Revokes(q)
             /\ Downgrades(q)' <=> Downgrades(q)
             /\ \A v : Claims(q, v)' <=> Claims(q, v)
             /\ Range(plan) = {op} \cup Range(rest)
             /\ \/ /\ op[1] = "remove" /\ op[2] \in Removed(plan) /\ Assigned(plan) = Assigned(rest)
                \/ /\ op[1] = "assign" /\ Assigned(plan) = Assigned(rest) \cup {op[2]}
                \/ /\ op[1] = "reset" /\ op = Reset /\ Assigned(plan) = {}
<1> DEFINE plan == request[q].plan
           op == Head(plan)
           rest == Tail(plan)
<1>1. /\ plan \in Seq(Op) /\ plan # <<>> /\ Ordered(plan) /\ Active(q)
      /\ request' = [request EXCEPT ![q].plan = rest]
  BY StepEffect
<1>2. /\ request[q] \in RequestState /\ RequestSound(q) /\ PlanSound(q)
      /\ request \in [Request -> RequestState]
  BY DEF TypesInv, RequestsInv
<1>3. /\ (\A p \in Request \ {q} : Alike(p))
      /\ request'[q].kind = request[q].kind /\ request'[q].role = request[q].role
      /\ request'[q].on = request[q].on /\ request'[q].pc = request[q].pc
      /\ request'[q].todo = request[q].todo /\ request'[q].sole = request[q].sole
      /\ request'[q].plan = rest
  BY <1>1, <1>2 DEF Alike, RequestState
<1>4. /\ Active(q)'
      /\ Viewing(q)' <=> Viewing(q)
      /\ Creates(q)' <=> Creates(q)
      /\ Revokes(q)' <=> Revokes(q)
      /\ Downgrades(q)' <=> Downgrades(q)
      /\ \A v : Claims(q, v)' <=> Claims(q, v)
  BY <1>1, <1>3 DEF Active, Viewing, Creates, Revokes, Downgrades, Shares, SharesDataset, Claims
<1>5. /\ Range(plan) = {op} \cup Range(rest)
      /\ \/ /\ op[1] = "remove" /\ op[2] \in Removed(plan) /\ Assigned(plan) = Assigned(rest)
         \/ /\ op[1] = "assign" /\ Assigned(plan) = Assigned(rest) \cup {op[2]}
         \/ /\ op[1] = "reset" /\ op = Reset /\ Assigned(plan) = {}
  <2> HIDE DEF plan
  <2>1. /\ Range(plan) = {op} \cup Range(rest)
        /\ \/ /\ op[1] = "remove" /\ Removed(plan) = Removed(rest) \cup {op[2]}
              /\ Assigned(plan) = Assigned(rest)
           \/ /\ op[1] = "assign" /\ Assigned(plan) = Assigned(rest) \cup {op[2]}
           \/ /\ op[1] = "reset" /\ op = Reset /\ Assigned(plan) = {}
    BY <1>1, FirstOperation
  <2> QED BY <2>1
<1> HIDE DEF plan, op, rest
<1> QED BY <1>1, <1>2, <1>3, <1>4, <1>5 DEF plan, op, rest

\* A plan that is not about v, or is not at its reset, still resets v.
LEMMA StepResets ==
  ASSUME TypesInv, NEW q \in Request, Step(q), NEW v \in View, Resets(q, v),
         Head(request[q].plan) # Reset \/ request[q].on # v,
         request[q].kind = "revoke" => vperm'[v] = vperm[v]
  PROVE  Resets(q, v)'
<1> DEFINE plan == request[q].plan
           op == Head(plan)
           rest == Tail(plan)
<1>1. /\ request'[q].kind = request[q].kind /\ request'[q].on = request[q].on
      /\ request'[q].pc = request[q].pc
      /\ request'[q].todo = request[q].todo /\ request'[q].plan = rest
      /\ Active(q)'
      /\ Viewing(q)' <=> Viewing(q)
      /\ Range(plan) = {op} \cup Range(rest)
  BY StepRequest
<1> HIDE DEF rest, op
<1>2. op # Reset \/ request[q].on # v
  BY DEF op
<1>3. request[q].on = v /\ Reset \in Range(plan) => Reset \in Range(rest)
  BY <1>1, <1>2
<1> QED BY <1>1, <1>3 DEF Resets

\* The step, when what was held right stays so and the revocations under way
\* are as they were
LEMMA StepRivals ==
  ASSUME TypesInv, CacheInv, NEW q \in Request, Step(q), AnswersInv',
         \A r \in Request, v \in coherent :
           Revokes(r) /\ request[r].pc = "dataset" /\ Spared(v) => Spared(v)'
  PROVE  CacheInv'
<1>1. /\ (\A p \in Request \ {q} : Alike(p)) /\ RequestsInv
      /\ request'[q].kind = request[q].kind /\ request'[q].on = request[q].on
      /\ request'[q].pc = request[q].pc /\ request'[q].sole = request[q].sole
      /\ Active(q)
      /\ Viewing(q)' <=> Viewing(q)
      /\ Creates(q)' <=> Creates(q)
      /\ Revokes(q)' <=> Revokes(q)
      /\ Downgrades(q)' <=> Downgrades(q)
  BY StepRequest DEF TypesInv
<1>2. coherent' = coherent
  BY StepEffect
<1>3. ASSUME NEW r \in Request, NEW v \in coherent, Revokes(r)', request'[r].pc = "dataset"
      PROVE Spared(v)'
  <2>1. Revokes(r) /\ request[r].pc = "dataset"
    BY <1>1, <1>3, AlikeResets, AlikeFields
  <2>2. Spared(v)
    BY <2>1 DEF CacheInv, RevocationsInv
  <2> QED BY <2>1, <2>2
<1>4. SoleInv' /\ GrantsInv' /\ RevocationsInv'
  BY <1>1, <1>2, <1>3, RivalsKept
<1> QED BY <1>4 DEF CacheInv

\* What is claimed after a step was claimed before; what was to be deleted
\* by others still is, if they had seen what they go by.
LEMMA StepClaims ==
  ASSUME TypesInv, NEW q \in Request, Step(q), NEW v \in View
  PROVE  /\ Claimed(v)' => Claimed(v)
         /\ vperm'[v] = vperm[v] =>
              \A p \in Request \ {q} : Resets(p, v) => Resets(p, v)'
<1>1. /\ (\A p \in Request \ {q} : Alike(p)) /\ RequestsInv
      /\ (\A u : Claims(q, u)' <=> Claims(q, u))
  BY StepRequest DEF TypesInv
<1>2. coherent' = coherent
  BY StepEffect
<1>3. \A p \in Request : Claims(p, v)' => Claims(p, v)
  BY <1>1, AlikeResets
<1> QED BY <1>1, <1>2, <1>3, AlikeResets DEF Claimed

\* The answers of a view are deleted.
LEMMA StepReset ==
  ASSUME TypesInv, CacheInv, NEW q \in Request, Step(q),
         NEW on \in views, on = request[q].on, Head(request[q].plan) = Reset,
         cache' = Cleared(on), tainted' = tainted \ {on}, UNCHANGED perms
  PROVE  CacheInv'
<1>1. views' = views /\ RequestsInv /\ \A p \in Request \ {q} : Alike(p)
  BY StepEffect, StepRequest DEF TypesInv
<1>2. ASSUME NEW x \in Resource, x[1] \in views' \ tainted', Claimed(x[1])'
      PROVE  cache'[x] \in {"none", Answer(x)'} \/ \E p \in Request : Resets(p, x[1])'
  <2>1. CASE x[1] = on
    BY <2>1 DEF Cleared
  <2>2. CASE x[1] # on
    <3>1. x[1] \in View /\ x[1] \in views \ tainted /\ vperm'[x[1]] = vperm[x[1]]
      BY <1>1, <1>2, <2>2, Constants DEF perms
    <3>2. Claimed(x[1])
      BY <1>2, <3>1, StepClaims
    <3>3. cache'[x] = cache[x]
      BY <2>2 DEF Cleared
    <3>4. CASE cache[x] \in {"none", Answer(x)}
      BY <3>3, <3>4, AnswerKept
    <3>5. CASE \E p \in Request : Resets(p, x[1])
      <4>1. PICK p \in Request : Resets(p, x[1])
        BY <3>5
      <4>2. Resets(p, x[1])'
        BY <2>2, <3>1, <4>1, StepClaims, StepResets
      <4> QED BY <4>2
    <3> QED BY <3>1, <3>2, <3>4, <3>5 DEF CacheInv, AnswersInv
  <2> QED BY <2>1, <2>2
<1>3. AnswersInv'
  BY <1>2 DEF AnswersInv
<1>4. ASSUME NEW v \in coherent, Spared(v) PROVE Spared(v)'
  <2>1. GrantShows(q, v) => GrantShows(q, v)'
    <3>1. /\ request'[q].kind = request[q].kind /\ request'[q].on = request[q].on
          /\ request'[q].pc = request[q].pc /\ request'[q].todo = request[q].todo
          /\ Active(q)'
          /\ Assigned(request[q].plan) = {}
      BY StepRequest DEF Reset
    <3> QED BY <3>1 DEF GrantShows
  <2>2. Viewing(q)' <=> Viewing(q)
    BY StepRequest
  <2> QED BY <1>1, <1>4, <2>1, <2>2, SparedKept
<1> QED BY <1>3, <1>4, StepRivals

\* While q is under way only it may claim anything, unless it is a creation.
LEMMA OnlyMine ==
  ASSUME SoleInv, NEW q \in Request, Active(q), ~ Creates(q), NEW v, Claimed(v)
  PROVE  v \in coherent \/ Claims(q, v)
BY ClaimsAlone DEF Claimed

\* A permission on the dataset comes or goes: then q deletes the answers, or
\* nothing is claimed, or the dataset had been out of reach and still is.
LEMMA StepDataset ==
  ASSUME TypesInv, CacheInv, NEW q \in Request, Step(q),
         request[q].pc = "dataset", UNCHANGED <<vperm, cache, tainted>>,
         LET op == Head(request[q].plan)
         IN  \/ op[1] = "remove" /\ dperm' = dperm \ {op[2]}
             \/ op[1] = "assign" /\ dperm' = dperm \cup {op[2]}
  PROVE  CacheInv'
<1> DEFINE plan == request[q].plan
           op == Head(plan)
           rest == Tail(plan)
<1>1. /\ RequestSound(q) /\ PlanSound(q) /\ request[q] \in RequestState
      /\ request'[q].kind = request[q].kind /\ request'[q].pc = request[q].pc
      /\ Active(q) /\ Active(q)'
      /\ Viewing(q)' <=> Viewing(q)
      /\ op[1] = "assign" => op[2] \in Assigned(plan)
      /\ views' = views /\ RequestsInv /\ (\A p \in Request \ {q} : Alike(p))
  <2>1. views' = views
    BY StepEffect
  <2>2. \/ op[1] = "remove" \/ op[1] = "reset"
        \/ op[1] = "assign" /\ Assigned(plan) = Assigned(rest) \cup {op[2]}
    BY StepRequest
  <2> QED BY <2>1, <2>2, StepRequest DEF TypesInv
<1> HIDE DEF op, rest
<1>2. /\ request[q].kind \in {"grant", "revoke", "downgrade"} /\ ~ Creates(q)
      /\ request[q].kind \in {"revoke", "downgrade"} => op[1] # "assign"
  <2>1. request[q].kind \in {"grant", "revoke", "downgrade"}
    BY <1>1 DEF RequestSound, SharesDataset
  <2>2. request[q].kind \in {"revoke", "downgrade"} => Assigned(plan) = {}
    BY <1>1 DEF PlanSound
  <2> QED BY <1>1, <2>1, <2>2 DEF Creates
<1>3. op[1] # "reset" /\ op # Reset
  BY DEF op, Reset
<1>4. /\ dperm = {} /\ request[q].kind \in {"revoke", "downgrade"} => dperm' = {}
  BY <1>2 DEF op
<1>5. request[q].kind = "grant" /\ ~ Viewing(q) => coherent = {} /\ \A v : ~ Claimed(v)
  <2>1. ASSUME request[q].kind = "grant", ~ Viewing(q) PROVE coherent = {} /\ \A v : ~ Claims(q, v)
    BY <1>1, <2>1 DEF CacheInv, GrantsInv, Claims
  <2> QED BY <1>1, <1>2, <2>1, OnlyMine DEF CacheInv
<1>6. ASSUME NEW x \in Resource, x[1] \in views' \ tainted', Claimed(x[1])'
      PROVE  cache'[x] \in {"none", Answer(x)'} \/ \E p \in Request : Resets(p, x[1])'
  <2>1. x[1] \in View /\ x[1] \in views \ tainted /\ vperm'[x[1]] = vperm[x[1]]
    BY <1>1, <1>6, Constants
  <2>2. Claimed(x[1])
    BY <1>6, <2>1, StepClaims
  <2>3. ASSUME NEW p \in Request, Resets(p, x[1]) PROVE \E r \in Request : Resets(r, x[1])'
    <3>1. CASE p = q
      <4>1. Head(request[q].plan) # Reset
        BY <1>3 DEF op
      <4> QED BY <2>1, <2>3, <3>1, <4>1, StepResets
    <3>2. CASE p # q
      BY <2>1, <2>3, <3>2, StepClaims
    <3> QED BY <3>1, <3>2
  <2>4. CASE \E p \in Request : Resets(p, x[1])
    BY <2>3, <2>4
  <2>5. CASE \A p \in Request : ~ Resets(p, x[1])
    <3>1. cache[x] \in {"none", Answer(x)}
      BY <2>1, <2>2, <2>5 DEF CacheInv, AnswersInv
    <3>2. request[q].kind = "revoke"
      <4>1. request[q].kind # "downgrade"
        BY <1>1, <2>5 DEF Resets
      <4>2. request[q].kind = "grant" => ~ Viewing(q)
        BY <1>1, <2>5 DEF Resets
      <4> QED BY <1>2, <1>5, <2>2, <4>1, <4>2
    <3>3. x[1] \in coherent
      <4>1. ~ Claims(q, x[1])
        BY <3>2 DEF Claims
      <4> QED BY <1>1, <1>2, <2>2, <4>1, OnlyMine DEF CacheInv
    <3>4. Spared(x[1])
      BY <1>1, <3>2, <3>3 DEF CacheInv, RevocationsInv, Revokes
    <3>5. dperm = {}
      <4>1. P("view") \notin vperm[x[1]]
        BY <1>1, <2>5, <3>2 DEF Resets
      <4>2. \A p \in Request : ~ (GrantShows(p, x[1]) /\ Viewing(p))
        BY <2>5, ShownReset
      <4> QED BY <3>4, <4>1, <4>2 DEF Spared
    <3>6. UNCHANGED perms
      BY <1>4, <3>2, <3>5 DEF perms
    <3> QED BY <3>1, <3>6, AnswerKept
  <2> QED BY <2>4, <2>5
<1>7. AnswersInv'
  BY <1>6 DEF AnswersInv
<1>8. ASSUME NEW r \in Request, NEW v \in coherent, Revokes(r), Spared(v) PROVE Spared(v)'
  <2>1. CASE request[q].kind = "grant"
    <3>1. Viewing(q)
      BY <1>5, <1>8, <2>1
    <3>2. GrantShows(q, v)' /\ Viewing(q)'
      BY <1>1, <2>1, <3>1 DEF GrantShows
    <3> QED BY <3>2 DEF Spared
  <2>2. CASE request[q].kind # "grant"
    <3>1. dperm = {} => dperm' = {}
      BY <1>2, <1>4, <2>2
    <3>2. CASE P("view") \in vperm[v] \/ dperm = {}
      BY <3>1, <3>2 DEF Spared
    <3>3. CASE \E p \in Request : GrantShows(p, v) /\ Viewing(p)
      <4>1. PICK p \in Request : GrantShows(p, v) /\ Viewing(p)
        BY <3>3
      <4>2. p # q
        BY <2>2, <4>1 DEF GrantShows
      <4>3. GrantShows(p, v)' /\ Viewing(p)'
        BY <1>1, <4>1, <4>2, AlikeResets, AlikeFields
      <4> QED BY <4>3 DEF Spared
    <3> QED BY <1>8, <3>2, <3>3 DEF Spared
  <2> QED BY <2>1, <2>2
<1> QED BY <1>7, <1>8, StepRivals

\* Answers depend on a view's external permissions only.
LEMMA PlainAnswers ==
  ASSUME NEW on \in View, NEW p \in Plain, dperm' = dperm, vperm \in [View -> SUBSET ViewPerm],
         vperm' \in {[vperm EXCEPT ![on] = @ \ {p}], [vperm EXCEPT ![on] = @ \cup {p}]},
         NEW x \in Resource
  PROVE  Answer(x)' = Answer(x)
<1>1. \A l \in Level : Ext(l) # p
  BY Permissions DEF ExtPerm
<1>2. x[1] \in View
  BY Constants
<1>3. \A l \in Level : Ext(l) \in vperm'[x[1]] <=> Ext(l) \in vperm[x[1]]
  BY <1>1, <1>2
<1> QED BY <1>3 DEF Answer, Allowed

\* A permission on a view comes or goes: an external one before q deletes
\* the answers, another one that no answer depends on.
LEMMA StepView ==
  ASSUME TypesInv, CacheInv, NEW q \in Request, Step(q),
         request[q].pc = "views", NEW on \in views, on = request[q].on,
         UNCHANGED <<dperm, cache, tainted>>,
         NEW op, op = Head(request[q].plan),
         request[q].kind # "external" => op[2] \in Plain,
         request[q].kind = "external" => op[2] \in ExtPerm,
         \/ op[1] = "remove" /\ vperm' = [vperm EXCEPT ![on] = @ \ {op[2]}]
         \/ op[1] = "assign" /\ vperm' = [vperm EXCEPT ![on] = @ \cup {op[2]}]
  PROVE  CacheInv'
<1> DEFINE plan == request[q].plan
           rest == Tail(plan)
<1>1. /\ RequestSound(q) /\ PlanSound(q) /\ request[q] \in RequestState
      /\ request'[q].kind = request[q].kind /\ request'[q].on = request[q].on
      /\ request'[q].pc = request[q].pc /\ request'[q].todo = request[q].todo
      /\ request'[q].plan = rest
      /\ Active(q) /\ Active(q)'
      /\ Viewing(q)' <=> Viewing(q)
      /\ Range(plan) = {op} \cup Range(rest)
      /\ RequestsInv /\ (\A p \in Request \ {q} : Alike(p))
      /\ \/ /\ op[1] = "remove" /\ op[2] \in Removed(plan) /\ Assigned(plan) = Assigned(rest)
         \/ /\ op[1] = "assign" /\ Assigned(plan) = Assigned(rest) \cup {op[2]}
         \/ /\ op[1] = "reset" /\ op = Reset /\ Assigned(plan) = {}
  BY StepRequest DEF TypesInv
<1>2. views' = views /\ vperm \in [View -> SUBSET ViewPerm] /\ on \in View /\ coherent' = coherent
  BY StepEffect DEF TypesInv, TypeOK
<1>3. op # Reset
  BY DEF Reset
<1>4. /\ request[q].kind \in {"grant", "revoke", "downgrade", "external", "create"}
      /\ on \notin request[q].todo
  BY <1>1, <1>2 DEF RequestSound, RequestState
<1>5. Removed(plan) \cup Assigned(plan) # {}
  BY <1>1, <1>3
<1>6. /\ request[q].kind = "external" => Cleans(plan)
      /\ request[q].kind = "grant" /\ Viewing(q) => Cleans(plan)
      /\ request[q].kind = "grant" => Returns(plan, P("view"))
  BY <1>1 DEF PlanSound
<1> HIDE DEF plan, rest
<1>7. Cleans(plan) => Resets(q, on)'
  <2>1. Cleans(plan) => Reset \in Range(rest)
    BY <1>1, <1>3, <1>5 DEF Cleans
  <2> QED BY <1>1, <2>1 DEF Resets
<1>8. \A v \in View : v # on => vperm'[v] = vperm[v]
  BY <1>2
<1>9. request[q].kind = "grant" /\ ~ Viewing(q) => coherent = {} /\ \A v : ~ Claimed(v)
  <2>1. ASSUME request[q].kind = "grant", ~ Viewing(q) PROVE coherent = {} /\ \A v : ~ Claims(q, v)
    BY <1>1, <2>1 DEF CacheInv, GrantsInv, Claims
  <2> QED BY <1>1, <2>1, OnlyMine DEF CacheInv, Creates
<1>10. ASSUME NEW r \in Request, Revokes(r), r # q
       PROVE  /\ request[q].kind \in {"revoke", "downgrade"} => coherent = {}
              /\ request[q].kind = "create" => on \notin coherent
              /\ \A v : Claimed(v) => v \in coherent
  <2>1. request[q].kind \in {"revoke", "downgrade"} => Revokes(q) \/ Downgrades(q)
    BY <1>1 DEF Revokes, Downgrades, Shares, SharesDataset
  <2>2. request[q].kind = "create" => Active(q) /\ Creates(q)
    BY <1>1 DEF Creates
  <2>3. \A v : Claimed(v) => v \in coherent
    <3>1. Active(r) /\ ~ Creates(r) /\ \A v : ~ Claims(r, v)
      BY <1>10 DEF Revokes, Creates, Claims
    <3> QED BY <3>1, OnlyMine DEF CacheInv
  <2> QED BY <1>10, <2>1, <2>2, <2>3 DEF CacheInv, RevocationsInv
<1>11. ASSUME NEW x \in Resource, x[1] \in views' \ tainted', Claimed(x[1])'
       PROVE  cache'[x] \in {"none", Answer(x)'} \/ \E p \in Request : Resets(p, x[1])'
  <2>1. x[1] \in View /\ x[1] \in views \ tainted /\ Claimed(x[1])
    BY <1>2, <1>11, StepClaims, Constants
  <2>2. CASE x[1] = on /\ request[q].kind = "external"
    BY <1>6, <1>7, <2>2
  <2>3. CASE x[1] # on \/ request[q].kind # "external"
    <3>1. Answer(x)' = Answer(x)
      <4>1. CASE x[1] # on
        <5>1. vperm'[x[1]] = vperm[x[1]]
          BY <1>8, <2>1, <4>1
        <5> QED BY <5>1 DEF Answer, Allowed
      <4>2. CASE request[q].kind # "external"
        BY <1>2, <4>2, PlainAnswers
      <4> QED BY <2>3, <4>1, <4>2
    <3>2. CASE cache[x] \in {"none", Answer(x)}
      BY <3>1, <3>2
    <3>3. CASE \E p \in Request : Resets(p, x[1])
      <4>1. PICK p \in Request : Resets(p, x[1])
        BY <3>3
      <4>2. CASE x[1] # on
        <5>1. vperm'[x[1]] = vperm[x[1]]
          BY <1>8, <2>1, <4>2
        <5>2. Resets(p, x[1])'
          BY <2>1, <4>1, <4>2, <5>1, StepClaims, StepResets
        <5> QED BY <5>2
      <4>3. CASE x[1] = on /\ p = q
        <5>1. request[q].kind = "revoke" => Reset \in Range(plan) /\ request[q].on = on
          BY <1>4, <4>1, <4>3 DEF Resets, plan
        <5>2. CASE request[q].kind = "revoke"
          <6>1. Reset \in Range(rest)
            BY <1>1, <1>3, <5>1, <5>2
          <6>2. Resets(q, on)'
            BY <1>1, <6>1 DEF Resets
          <6> QED BY <4>3, <6>2
        <5>3. CASE request[q].kind # "revoke"
          BY <1>3, <2>1, <4>1, <4>3, <5>3, StepResets
        <5> QED BY <5>2, <5>3
      <4>4. CASE x[1] = on /\ p # q /\ ~ Revokes(p)
        <5>1. /\ request'[p].kind = request[p].kind /\ request'[p].pc = request[p].pc
              /\ request'[p].on = request[p].on /\ request'[p].plan = request[p].plan
              /\ request'[p].todo = request[p].todo
              /\ Active(p)' <=> Active(p)
              /\ Viewing(p)' <=> Viewing(p)
          BY <1>1, <4>4, AlikeFields
        <5>2. Resets(p, x[1])'
          BY <4>1, <4>4, <5>1 DEF Resets, Revokes
        <5> QED BY <5>2
      <4>5. CASE x[1] = on /\ p # q /\ Revokes(p)
        <5>1. on \in coherent
          BY <1>10, <2>1, <4>5
        <5>2. request[q].kind = "grant" /\ Viewing(q)
          BY <1>4, <1>9, <1>10, <2>3, <4>5, <5>1
        <5> QED BY <1>6, <1>7, <4>5, <5>2
      <4> QED BY <4>2, <4>3, <4>4, <4>5
    <3> QED BY <2>1, <3>2, <3>3 DEF CacheInv, AnswersInv
  <2> QED BY <2>2, <2>3
<1>12. AnswersInv'
  BY <1>11 DEF AnswersInv
<1>13. ASSUME NEW r \in Request, NEW v \in coherent, Revokes(r), request[r].pc = "dataset", Spared(v)
       PROVE  Spared(v)'
  <2>1. r # q /\ v \in View /\ P("view") \notin ExtPerm
    BY <1>2, <1>13, Permissions DEF TypesInv, TypeOK, Plain
  <2>2. ASSUME NEW p \in Request \ {q}, GrantShows(p, v) /\ Viewing(p) PROVE Spared(v)'
    <3>1. GrantShows(p, v)' /\ Viewing(p)'
      BY <1>1, <2>2, AlikeResets, AlikeFields
    <3> QED BY <3>1 DEF Spared
  <2>3. CASE dperm = {} \/ \E p \in Request \ {q} : GrantShows(p, v) /\ Viewing(p)
    BY <2>2, <2>3 DEF Spared
  <2>4. CASE v # on /\ (P("view") \in vperm[v] \/ (GrantShows(q, v) /\ Viewing(q)))
    <3>1. P("view") \in vperm[v] => P("view") \in vperm'[v]
      BY <1>8, <2>1, <2>4
    <3>2. GrantShows(q, v) => GrantShows(q, v)'
      BY <1>1, <2>4 DEF GrantShows
    <3> QED BY <1>1, <2>4, <3>1, <3>2 DEF Spared
  <2>5. CASE v = on /\ (P("view") \in vperm[v] \/ (GrantShows(q, v) /\ Viewing(q)))
    <3>1. request[q].kind = "external" \/ (request[q].kind = "grant" /\ Viewing(q))
      BY <1>4, <1>9, <1>10, <1>13, <2>1, <2>5
    <3>2. CASE request[q].kind = "external"
      <4>1. P("view") \in vperm[v]
        BY <2>5, <3>2 DEF GrantShows
      <4>2. P("view") \in vperm'[v]
        BY <1>2, <2>1, <2>5, <3>2, <4>1
      <4> QED BY <4>2 DEF Spared
    <3>3. CASE request[q].kind = "grant" /\ Viewing(q)
      <4>1. GrantShows(q, v) => P("view") \in Assigned(plan)
        BY <1>4, <2>5 DEF GrantShows, plan
      <4>2. P("view") \in vperm'[v] \/ P("view") \in Assigned(rest)
        <5>1. CASE op[1] = "remove"
          <6>1. Removed(plan) # {} /\ Assigned(plan) = Assigned(rest)
            BY <1>1, <5>1
          <6> QED BY <1>6, <3>3, <6>1 DEF Returns
        <5>2. CASE op[1] = "assign"
          <6>1. vperm'[v] = vperm[v] \cup {op[2]} /\ Assigned(plan) = Assigned(rest) \cup {op[2]}
            BY <1>1, <1>2, <2>5, <5>2
          <6> QED BY <2>5, <4>1, <6>1
        <5> QED BY <5>1, <5>2
      <4>3. P("view") \in Assigned(rest) => GrantShows(q, v)'
        BY <1>1, <2>5, <3>3 DEF GrantShows
      <4> QED BY <1>1, <3>3, <4>2, <4>3 DEF Spared
    <3> QED BY <3>1, <3>2, <3>3
  <2> QED BY <1>13, <2>3, <2>4, <2>5 DEF Spared
<1> QED BY <1>12, <1>13, StepRivals

LEMMA StepCache ==
  ASSUME TypesInv, CacheInv, NEW q \in Request, Step(q)
  PROVE  CacheInv'
<1> DEFINE op == Head(request[q].plan)
           on == request[q].on
<1>1. \/ /\ op = Reset /\ on \in views
         /\ cache' = Cleared(on) /\ tainted' = tainted \ {on} /\ UNCHANGED perms
      \/ /\ request[q].pc = "dataset"
         /\ \/ op[1] = "remove" /\ dperm' = dperm \ {op[2]}
            \/ op[1] = "assign" /\ dperm' = dperm \cup {op[2]}
         /\ UNCHANGED <<vperm, cache, tainted>>
      \/ /\ request[q].pc = "views" /\ on \in views
         /\ request[q].kind # "external" => op[2] \in Plain
         /\ request[q].kind = "external" => op[2] \in ExtPerm
         /\ \/ op[1] = "remove" /\ vperm' = [vperm EXCEPT ![on] = @ \ {op[2]}]
            \/ op[1] = "assign" /\ vperm' = [vperm EXCEPT ![on] = @ \cup {op[2]}]
         /\ UNCHANGED <<dperm, cache, tainted>>
  BY StepEffect
<1> QED BY <1>1, StepReset, StepDataset, StepView

\* Requests and permissions are as they were.
LEMMA RequestsAsWere ==
  ASSUME CacheInv, UNCHANGED <<perms, request, coherent>>
  PROVE  /\ SoleInv' /\ GrantsInv' /\ RevocationsInv'
         /\ \A v : Claimed(v)' => Claimed(v)
         /\ \A p \in Request : \A v : Resets(p, v)' <=> Resets(p, v)
<1>1. \A p \in Request :
        /\ Active(p)' <=> Active(p)
        /\ Viewing(p)' <=> Viewing(p)
        /\ Creates(p)' <=> Creates(p)
        /\ Revokes(p)' <=> Revokes(p)
        /\ Downgrades(p)' <=> Downgrades(p)
  BY DEF Active, Viewing, Creates, Revokes, Downgrades, Shares, SharesDataset
<1>2. \A p \in Request : \A v :
        /\ Claims(p, v)' <=> Claims(p, v)
        /\ Resets(p, v)' <=> Resets(p, v)
        /\ GrantShows(p, v)' <=> GrantShows(p, v)
  BY <1>1 DEF Claims, Resets, GrantShows, perms
<1>3. \A v : Spared(v)' <=> Spared(v)
  BY <1>1, <1>2 DEF Spared, perms
<1>4. SoleInv'
  BY <1>1 DEF CacheInv, SoleInv
<1>5. GrantsInv'
  BY <1>1 DEF CacheInv, GrantsInv
<1>6. RevocationsInv'
  BY <1>1, <1>3 DEF CacheInv, RevocationsInv
<1> QED BY <1>2, <1>4, <1>5, <1>6 DEF Claimed

\* Answers that are stored right, deleted or left alone
LEMMA AnswersStored ==
  ASSUME TypesInv, CacheInv, UNCHANGED <<perms, views, request, coherent>>,
         \A x \in Resource : x[1] \in views \ tainted' =>
           \/ cache'[x] \in {"none", Answer(x)}
           \/ cache'[x] = cache[x] /\ x[1] \notin tainted
  PROVE  CacheInv'
<1>1. /\ SoleInv' /\ GrantsInv' /\ RevocationsInv'
      /\ \A v : Claimed(v)' => Claimed(v)
      /\ \A p \in Request : \A v : Resets(p, v)' <=> Resets(p, v)
  BY RequestsAsWere
<1>2. ASSUME NEW x \in Resource, x[1] \in views' \ tainted', Claimed(x[1])'
      PROVE  cache'[x] \in {"none", Answer(x)'} \/ \E p \in Request : Resets(p, x[1])'
  <2>1. Answer(x)' = Answer(x)
    BY AnswerKept
  <2>2. CASE cache'[x] \in {"none", Answer(x)}
    BY <2>1, <2>2
  <2>3. CASE cache'[x] = cache[x] /\ x[1] \notin tainted
    <3>1. cache[x] \in {"none", Answer(x)} \/ \E p \in Request : Resets(p, x[1])
      BY <1>1, <1>2, <2>3 DEF CacheInv, AnswersInv
    <3> QED BY <1>1, <2>1, <2>3, <3>1
  <2> QED BY <1>2, <2>2, <2>3
<1>3. AnswersInv'
  BY <1>2 DEF AnswersInv
<1> QED BY <1>1, <1>3 DEF CacheInv

LEMMA StoreCache ==
  ASSUME TypesInv, CacheInv, NEW c \in Check, Store(c)
  PROVE  CacheInv'
<1> DEFINE x == check[c].resource
<1>1. /\ check[c].pc = "read" /\ cache' = [cache EXCEPT ![x] = check[c].answer]
      /\ tainted' = IF check[c].dirty THEN tainted \cup {x[1]} ELSE tainted
      /\ UNCHANGED <<perms, views, request, coherent>>
  BY DEF Store
<1>2. /\ x \in Resource
      /\ check[c].dirty \/ check[c].answer = Answer(x)
      /\ cache \in [Resource -> {"none", "yes", "no"}]
  BY <1>1 DEF TypesInv, ChecksInv, CheckSound, TypeOK
<1> HIDE DEF x
<1>3. ASSUME NEW y \in Resource, y[1] \in views \ tainted'
      PROVE  \/ cache'[y] \in {"none", Answer(y)}
             \/ cache'[y] = cache[y] /\ y[1] \notin tainted
  <2>1. y[1] \notin tainted
    BY <1>1, <1>3
  <2>2. CASE y = x
    <3>1. ~ check[c].dirty
      BY <1>1, <1>3, <2>2
    <3> QED BY <1>1, <1>2, <2>2, <3>1
  <2>3. CASE y # x
    BY <1>1, <1>2, <2>1, <2>3
  <2> QED BY <2>2, <2>3
<1> QED BY <1>1, <1>3, AnswersStored

LEMMA CacheStep ==
  ASSUME TypesInv, CacheInv, [Next]_vars
  PROVE  CacheInv'
<1>1. ASSUME NEW q \in Request, Ask(q) PROVE CacheInv'
  BY <1>1, GrantCache, RevokeCache, DowngradeCache, ExternalCache, CreateCache DEF Ask
<1>2. ASSUME NEW q \in Request, Carry(q) PROVE CacheInv'
  BY <1>2, FindUsersCache, GrantOnCreationCache, StepCache, ListViewsCache, NextViewCache, EndCache
     DEF Carry
<1>3. ASSUME NEW c \in Check, Store(c) PROVE CacheInv'
  BY <1>3, StoreCache
<1>4. ASSUME NEW c \in Check, NEW x \in Resource, ReadPerms(c, x) PROVE CacheInv'
  <2>1. UNCHANGED <<perms, views, request, coherent>> /\ tainted' = tainted /\ cache' = cache
    BY <1>4 DEF ReadPerms, history
  <2>2. \A y \in Resource : y[1] \in views \ tainted' => cache'[y] = cache[y] /\ y[1] \notin tainted
    BY <2>1
  <2> QED BY <2>1, <2>2, AnswersStored
<1>5. ASSUME NEW v \in View, SaveView(v) PROVE CacheInv'
  <2>1. /\ \A y \in Resource : cache'[y] = IF y[1] = v THEN "none" ELSE cache[y]
        /\ tainted' = tainted \ {v}
        /\ UNCHANGED <<perms, views, request, coherent>>
    BY <1>5, SaveViewEffect
  <2>2. ASSUME NEW y \in Resource, y[1] \in views \ tainted'
        PROVE  \/ cache'[y] \in {"none", Answer(y)}
               \/ cache'[y] = cache[y] /\ y[1] \notin tainted
    BY <2>1, <2>2
  <2> QED BY <2>1, <2>2, AnswersStored
<1>6. ASSUME NEW x \in Resource, Expire(x) PROVE CacheInv'
  <2>1. /\ \A y \in Resource : cache'[y] \in {cache[y], "none"}
        /\ UNCHANGED <<perms, views, request, coherent>> /\ tainted' = tainted
    BY <1>6, ExpireEffect
  <2>2. ASSUME NEW y \in Resource, y[1] \in views \ tainted'
        PROVE  \/ cache'[y] \in {"none", Answer(y)}
               \/ cache'[y] = cache[y] /\ y[1] \notin tainted
    BY <2>1, <2>2
  <2> QED BY <2>1, <2>2, AnswersStored
<1>7. CASE UNCHANGED vars
  <2>1. UNCHANGED <<perms, views, request, coherent>> /\ tainted' = tainted /\ cache' = cache
    BY <1>7 DEF vars, history
  <2>2. \A y \in Resource : y[1] \in views \ tainted' => cache'[y] = cache[y] /\ y[1] \notin tainted
    BY <2>1
  <2> QED BY <2>1, <2>2, AnswersStored
<1> QED
  BY <1>1, <1>2, <1>3, <1>4, <1>5, <1>6, <1>7 DEF Next

THEOREM CacheInvariant == Spec => []CacheInv
<1>1. TypesInv /\ CacheInv /\ [Next]_vars => CacheInv'
  BY CacheStep
<1> QED BY <1>1, InitCache, TypesInvariant, PTL DEF Spec

\* When no change is under way, no cached answer of a view is wrong, if the
\* last changes were of those that delete answers and no tile request stored
\* what it had read before one of them: for any number of views, levels,
\* changes and requests, in any interleaving of their statements.
THEOREM CachedAnswersRight == Spec => []CacheAgrees
<1>1. TypesInv /\ CacheInv => CacheAgrees
  <2> SUFFICES ASSUME TypesInv, CacheInv, Quiet, NEW x \in Resource, x[1] \in coherent \ tainted
               PROVE  cache[x] \in {"none", Answer(x)}
    BY DEF CacheAgrees
  <2>1. x[1] \in views \ tainted /\ Claimed(x[1])
    BY DEF TypesInv, TypeOK, Claimed
  <2>2. \A q \in Request : ~ Resets(q, x[1])
    BY DEF Quiet, Resets
  <2> QED BY <2>1, <2>2 DEF CacheInv, AnswersInv
<1> QED BY <1>1, CacheInvariant, TypesInvariant, PTL
=============================================================================
