------------------------ MODULE VersionHistory_proofs ------------------------
(***************************************************************************)
(* Proofs about VersionHistory, for any number of uploads and dates.       *)
(*                                                                         *)
(* While no upload was a misfit, the published versions and those about to *)
(* be (Line) lie one after the other (Chain), whatever approvals are under *)
(* way; a historical upload whose predecessor was cut lies in a hole of    *)
(* them (Inserting); and every end is somebody's start (Followed).  The    *)
(* flags need OpenFlag, the dates of uploads not yet approved need Dates.  *)
(***************************************************************************)
EXTENDS VersionHistory, TLAPS

Pending == {"validated", "reviewing", "supersede", "repoint", "cutPrevious",
            "moveNext", "publish"}

\* New revisions whose predecessor has ended, and that are not published yet
Coming == {u \in Upload : ~ Historical(u) /\ stage[u] \in {"repoint", "publish"}}

Line == approved \cup Coming

\* Historical uploads that are being approved, and those of them that have cut
\* their predecessor
Cutting == {u \in Upload : /\ Historical(u)
                           /\ stage[u] \in {"cutPrevious", "moveNext", "publish"}}
Inserted == {u \in Cutting : stage[u] # "cutPrevious"}

\* What belongs to the stage of an upload
Placed ==
    /\ Base \in approved
    /\ \A u \in Upload :
         /\ from[u] <= to[u]
         /\ u \in trees <=> stage[u] \in Pending \cup {"approved"}
         /\ u \in approved <=> stage[u] = "approved"
         /\ stage[u] \in {"supersede", "repoint"} => ~ Historical(u)
         /\ stage[u] \in {"cutPrevious", "moveNext"} => Historical(u)
         /\ Historical(u) /\ stage[u] \in Pending => end[u] = to[u]
         /\ stage[u] # "open" =>
              \/ original[u] \in approved
              \/ /\ original[u] \in Upload /\ ~ Historical(original[u])
                 /\ stage[original[u]] = "publish"

TInv == TypeOK /\ Placed

Apart(r, s) == end[r] <= start[s] \/ end[s] <= start[r]

\* Approvals of others leave the dates of a pending upload alone.
Dates ==
    \A u \in Upload : stage[u] \in Pending =>
      start[u] = from[u] /\ (~ Historical(u) => end[u] = Never)

\* No version is empty and no two overlap.
Chain ==
    /\ \A r \in Line : start[r] < end[r]
    /\ \A r, s \in Line : r # s => Apart(r, s)

\* One new revision at a time comes, after everything published.
OneComing ==
    \A u \in Coming :
      /\ end[u] = Never
      /\ \A r \in approved : end[r] <= start[u]
      /\ \A w \in Coming : w = u

OneCutting == \A u, w \in Cutting : u = w

\* There is room for a historical upload, behind it too once the start of the
\* next version is moved.
Inserting ==
    \A h \in Inserted :
      /\ start[h] < end[h]
      /\ \A r \in Line : start[r] < start[h] => end[r] <= start[h]
      /\ \A r \in Line : start[r] # start[h]
      /\ \E n \in approved : start[h] < start[n]
      /\ stage[h] = "publish" =>
           /\ \A r \in Line : start[h] < start[r] => end[h] <= start[r]
           /\ \E n \in approved : start[n] = end[h]

\* A version ends where another starts.
Followed ==
    \A r \in approved : end[r] # Never =>
      \E s \in Line \cup Inserted : start[s] = end[r]

\* is_latest and end_date agree, except for historical uploads, which end.
OpenFlag ==
    \A r \in approved :
      IF r \in Upload /\ Historical(r) THEN end[r] # Never
      ELSE r \in latest <=> end[r] = Never

Sound ==
    /\ Dates /\ Chain /\ OneComing /\ OneCutting /\ Inserting
    /\ Followed /\ OpenFlag

HInv == misfits = {} => Sound

-----------------------------------------------------------------------------
(* Types                                                                   *)

USE HistoryAssumption

LEMMA InitTyped == Init => TInv
  BY DEF Init, TInv, TypeOK, Placed, Date, Never, Revision, Stage, Historical, Pending

LEMMA StepTyped ==
  ASSUME TInv, NEW u \in Upload, Step(u)
  PROVE  TInv'
<1> USE DEF TInv, Goes, Historical
<1>1. CASE Preprocess(u)
  <2> USE DEF Preprocess, entityVars, sessionVars
  <2>1. TypeOK'
    BY <1>1 DEF TypeOK, Stage, Revision, Date, Never
  <2>2. Placed'
    BY <1>1 DEF TypeOK, Placed, Pending, Stage, Revision, Date, Never
  <2> QED  BY <2>1, <2>2
<1>2. CASE Validate(u)
  <2> USE DEF Validate, sessionVars
  <2>1. TypeOK'
    BY <1>2 DEF TypeOK, Placed, Newest, Stage, Revision, Date, Never
  <2>2. Placed'
    BY <1>2 DEF TypeOK, Placed, Pending, Stage, Revision, Date, Never
  <2> QED  BY <2>1, <2>2
<1>3. CASE SendToReview(u)
  <2> USE DEF SendToReview, entityVars, sessionVars
  <2>1. TypeOK'
    BY <1>3 DEF TypeOK, Stage, Revision, Date, Never
  <2>2. Placed'
    BY <1>3 DEF TypeOK, Placed, Pending, Stage, Revision, Date, Never
  <2> QED  BY <2>1, <2>2
<1>4. CASE Approve(u)
  <2> USE DEF Approve, NoteOverlap, entityVars, sessionVars
  <2>1. TypeOK'
    BY <1>4 DEF TypeOK, Stage, Revision, Date, Never
  <2>2. Placed'
    BY <1>4 DEF TypeOK, Placed, Pending, Stage, Revision, Date, Never
  <2> QED  BY <2>1, <2>2
<1>5. CASE Supersede(u)
  <2> USE DEF Supersede, NoteFit, sessionVars
  <2>1. TypeOK'
    BY <1>5 DEF TypeOK, Placed, Stage, Revision, Date, Never
  <2>2. Placed'
    BY <1>5 DEF TypeOK, Placed, Pending, Stage, Revision, Date, Never
  <2> QED  BY <2>1, <2>2
<1>6. CASE Repoint(u)
  <2> USE DEF Repoint, entityVars, sessionVars
  <2>1. TypeOK'
    BY <1>6 DEF TypeOK, Stage, Revision, Date, Never
  <2>2. Placed'
    BY <1>6 DEF TypeOK, Placed, Pending, Stage, Revision, Date, Never
  <2> QED  BY <2>1, <2>2
<1>7. CASE CutPrevious(u)
  <2> USE DEF CutPrevious, NoteFit, Before, sessionVars
  <2>1. TypeOK'
    BY <1>7 DEF TypeOK, Placed, Stage, Revision, Date, Never
  <2>2. Placed'
    BY <1>7 DEF TypeOK, Placed, Pending, Stage, Revision, Date, Never
  <2> QED  BY <2>1, <2>2
<1>8. CASE MoveNext(u)
  <2> USE DEF MoveNext, NoteFit, After, sessionVars
  <2>1. TypeOK'
    BY <1>8 DEF TypeOK, Placed, Pending, Stage, Revision, Date, Never
  <2>2. Placed'
    BY <1>8 DEF TypeOK, Placed, Pending, Stage, Revision, Date, Never
  <2> QED  BY <2>1, <2>2
<1>9. CASE Publish(u)
  <2> USE DEF Publish, sessionVars
  <2>1. TypeOK'
    BY <1>9 DEF TypeOK, Placed, Pending, Stage, Revision, Date, Never
  <2>2. Placed'
    BY <1>9 DEF TypeOK, Placed, Pending, Stage, Revision, Date, Never
  <2> QED  BY <2>1, <2>2
<1>10. CASE Reject(u)
  <2> USE DEF Reject, sessionVars
  <2>1. TypeOK'
    BY <1>10 DEF TypeOK, Placed, Stage, Revision, Date, Never
  <2>2. Placed'
    BY <1>10 DEF TypeOK, Placed, Pending, Stage, Revision, Date, Never
  <2> QED  BY <2>1, <2>2
<1> QED  BY <1>1, <1>2, <1>3, <1>4, <1>5, <1>6, <1>7, <1>8, <1>9, <1>10 DEF Step

-----------------------------------------------------------------------------
(* Steps that leave the published dates alone                              *)

LEMMA InitSound == Init => HInv
<1> SUFFICES ASSUME Init PROVE Sound
  BY DEF HInv
<1>1. Line = {Base} /\ Coming = {} /\ Cutting = {}
  BY DEF Init, Line, Coming, Cutting
<1> QED
  BY <1>1 DEF Init, Sound, Dates, Chain, OneComing, OneCutting, Inserting, Inserted,
     Followed, OpenFlag, Pending, Revision, Date, Never, Historical

\* A step that changes neither the dates nor the flags of what is in line
LEMMA Kept ==
  ASSUME TInv, TInv', Sound, approved' = approved, Coming' = Coming, to' = to,
         Cutting \subseteq Cutting',
         \A h \in Cutting : stage'[h] = stage[h],
         \A h \in Cutting' \ Cutting : stage'[h] = "cutPrevious",
         \A r \in Line \cup Cutting' : start'[r] = start[r] /\ end'[r] = end[r],
         \A r \in approved : r \in latest' <=> r \in latest
  PROVE  Chain' /\ OneComing' /\ Inserting' /\ Followed' /\ OpenFlag'
<1>0. Line' = Line
  BY DEF Line
<1>1. Chain'
  BY <1>0 DEF Sound, Chain, Apart
<1>2. OneComing'
  BY <1>0 DEF Sound, OneComing, Line
<1>3. Inserting'
  <2>1. Inserted' = Inserted
    BY DEF Inserted
  <2> QED  BY <1>0, <2>1 DEF Sound, Inserting, Line, Inserted
<1>4. Followed'
  <2>1. Inserted \subseteq Inserted'
    BY DEF Inserted
  <2> QED  BY <1>0, <2>1 DEF Sound, Followed, Line, Inserted
<1>5. OpenFlag'
  BY <1>0 DEF Sound, OpenFlag, Line, Historical, Never
<1> QED  BY <1>1, <1>2, <1>3, <1>4, <1>5

LEMMA PreprocessSound ==
  ASSUME TInv, TInv', HInv, NEW u \in Upload, Preprocess(u)
  PROVE  HInv'
<1> USE DEF Preprocess, Goes, entityVars, sessionVars
<1> SUFFICES ASSUME misfits' = {} PROVE Sound'
  BY DEF HInv
<1>1. Sound
  BY DEF HInv
<1>2. Coming' = Coming /\ Cutting' = Cutting /\ \A h \in Cutting : stage'[h] = stage[h]
  BY DEF Coming, Cutting, Historical, TInv, TypeOK
<1>3. Dates' /\ OneCutting'
  BY <1>1, <1>2 DEF Sound, Dates, OneCutting, TInv, TypeOK, Pending, Historical, Never
<1> QED  BY <1>1, <1>2, <1>3, Kept DEF Sound

LEMMA ValidateSound ==
  ASSUME TInv, TInv', HInv, NEW u \in Upload, Validate(u)
  PROVE  HInv'
<1> USE DEF Validate, Goes, sessionVars
<1> SUFFICES ASSUME misfits' = {} PROVE Sound'
  BY DEF HInv
<1>1. Sound
  BY DEF HInv
<1>2. Coming' = Coming /\ Cutting' = Cutting /\ \A h \in Cutting : stage'[h] = stage[h]
  BY DEF Coming, Cutting, Historical, TInv, TypeOK
<1>3. u \notin Line \cup Cutting
  BY DEF Line, Coming, Cutting, TInv, Placed
<1>4. Dates' /\ OneCutting'
  BY <1>1, <1>2 DEF Sound, Dates, OneCutting, TInv, TypeOK, Pending, Historical, Never, Revision
<1>5. \A r \in Line \cup Cutting' : start'[r] = start[r] /\ end'[r] = end[r]
  BY <1>2, <1>3 DEF TInv, TypeOK, Line, Coming, Cutting, Revision
<1>6. \A r \in approved : r \in latest' <=> r \in latest
  BY <1>3 DEF Line
<1> QED  BY <1>1, <1>2, <1>4, <1>5, <1>6, Kept DEF Sound

LEMMA SendToReviewSound ==
  ASSUME TInv, TInv', HInv, NEW u \in Upload, SendToReview(u)
  PROVE  HInv'
<1> USE DEF SendToReview, Goes, entityVars, sessionVars
<1> SUFFICES ASSUME misfits' = {} PROVE Sound'
  BY DEF HInv
<1>1. Sound
  BY DEF HInv
<1>2. Coming' = Coming /\ Cutting' = Cutting /\ \A h \in Cutting : stage'[h] = stage[h]
  BY DEF Coming, Cutting, Historical, TInv, TypeOK
<1>3. Dates' /\ OneCutting'
  BY <1>1, <1>2 DEF Sound, Dates, OneCutting, TInv, TypeOK, Pending, Historical, Never
<1> QED  BY <1>1, <1>2, <1>3, Kept DEF Sound

LEMMA ApproveSound ==
  ASSUME TInv, TInv', HInv, NEW u \in Upload, Approve(u)
  PROVE  HInv'
<1> USE DEF Approve, Goes, entityVars, sessionVars
<1> SUFFICES ASSUME misfits' = {} PROVE Sound'
  BY DEF HInv
<1>1. misfits = {} /\ ~ (Historical(u) /\ \E w \in Upload : Historical(w) /\ Executing(w))
  BY DEF NoteOverlap
<1>2. Sound
  BY <1>1 DEF HInv
<1>3. Coming' = Coming /\ \A h \in Cutting : stage'[h] = stage[h]
  BY DEF Coming, Cutting, Historical, TInv, TypeOK
<1>4. Cutting' = Cutting \cup (IF Historical(u) THEN {u} ELSE {})
  BY DEF Cutting, Historical, TInv, TypeOK
<1>5. Historical(u) => Cutting = {}
  BY <1>1 DEF Cutting, Executing
<1>6. Dates' /\ OneCutting'
  BY <1>2, <1>4, <1>5 DEF Sound, Dates, OneCutting, TInv, TypeOK, Pending, Historical, Never
<1>7. \A h \in Cutting' \ Cutting : stage'[h] = "cutPrevious"
  BY <1>4 DEF TInv, TypeOK
<1> QED  BY <1>2, <1>3, <1>4, <1>6, <1>7, Kept DEF Sound

LEMMA RepointSound ==
  ASSUME TInv, TInv', HInv, NEW u \in Upload, Repoint(u)
  PROVE  HInv'
<1> USE DEF Repoint, Goes, entityVars, sessionVars
<1> SUFFICES ASSUME misfits' = {} PROVE Sound'
  BY DEF HInv
<1>1. Sound
  BY DEF HInv
<1>2. ~ Historical(u)
  BY DEF TInv, Placed
<1>3. Coming' = Coming /\ Cutting' = Cutting /\ \A h \in Cutting : stage'[h] = stage[h]
  BY <1>2 DEF Coming, Cutting, Historical, TInv, TypeOK
<1>4. Dates' /\ OneCutting'
  BY <1>1, <1>3 DEF Sound, Dates, OneCutting, TInv, TypeOK, Pending, Historical, Never
<1> QED  BY <1>1, <1>3, <1>4, Kept DEF Sound

LEMMA RejectSound ==
  ASSUME TInv, TInv', HInv, NEW u \in Upload, Reject(u)
  PROVE  HInv'
<1> USE DEF Reject, Goes, sessionVars
<1> SUFFICES ASSUME misfits' = {} PROVE Sound'
  BY DEF HInv
<1>1. Sound
  BY DEF HInv
<1>2. Coming' = Coming /\ Cutting' = Cutting /\ \A h \in Cutting : stage'[h] = stage[h]
  BY DEF Coming, Cutting, Historical, TInv, TypeOK
<1>3. Dates' /\ OneCutting'
  BY <1>1, <1>2 DEF Sound, Dates, OneCutting, TInv, TypeOK, Pending, Historical, Never
<1>4. \A r \in approved : r \in latest' <=> r \in latest
  BY DEF TInv, Placed
<1> QED  BY <1>1, <1>2, <1>3, <1>4, Kept DEF Sound

-----------------------------------------------------------------------------
(* Steps of an approval                                                    *)

\* What the types say of the dates and of the sets above
LEMMA Types ==
  ASSUME TInv
  PROVE  /\ Horizon \in Nat /\ Never \in Nat /\ Never = Horizon + 1
         /\ \A r \in Revision : start[r] \in Nat /\ start[r] <= Horizon /\ end[r] \in Nat
                                /\ end[r] <= Never
         /\ \A u \in Upload : u \in Revision /\ from[u] \in Nat /\ from[u] <= Horizon
         /\ approved \subseteq Revision /\ Line \subseteq Revision
         /\ Line \subseteq trees
         /\ \A u \in Coming : u \notin approved
         /\ \A u \in Cutting : u \notin Line /\ u \in Upload
  BY DEF TInv, TypeOK, Placed, Revision, Date, Never, Line, Coming, Cutting, Pending

LEMMA SupersedeSound ==
  ASSUME TInv, TInv', HInv, NEW u \in Upload, Supersede(u)
  PROVE  HInv'
<1> USE DEF Supersede, Goes, sessionVars
<1> SUFFICES ASSUME misfits' = {} PROVE Sound'
  BY DEF HInv
<1>1. misfits = {} /\ Fits(u)
  BY DEF NoteFit
<1>2. Sound
  BY <1>1 DEF HInv
<1>3. ~ Historical(u)
  BY DEF TInv, Placed
<1>4. FitsNew(u)
  BY <1>1, <1>3 DEF Fits
<1> DEFINE o == original[u]
<1>5. /\ o \in approved /\ end[o] = Never /\ o # u
      /\ \A r \in approved : start[r] < start[u]
  BY <1>4 DEF FitsNew, TInv, Placed
<1>6. start[u] = from[u] /\ u \notin Line /\ u \notin Cutting /\ end[u] = Never
  BY <1>2, <1>3 DEF Sound, Dates, Pending, TInv, Placed, Line, Coming, Cutting
<1>7. Coming = {}
  BY <1>2, <1>5, Types DEF Sound, OneComing, Coming
<1>8. Coming' = {u} /\ Line' = approved \cup {u} /\ Line = approved
  BY <1>3, <1>7 DEF Coming, Line, Historical, TInv, TypeOK
<1>9. Cutting' = Cutting /\ Inserted' = Inserted
  BY <1>3 DEF Cutting, Inserted, Historical, TInv, TypeOK
<1>10. /\ start' = start /\ end'[o] = start[u] /\ end' \in [Revision -> Nat]
       /\ \A r \in Revision \ {o} : end'[r] = end[r]
  BY <1>5, <1>6, Types DEF TInv, TypeOK, Date
<1> HIDE DEF o
<1>11. \A r \in approved \ {o} : end[r] <= start[o] /\ end[r] < start[u]
  BY <1>2, <1>5, <1>8, Types DEF Sound, Chain, Apart
<1>12. Dates'
  <2> SUFFICES ASSUME NEW w \in Upload, stage'[w] \in Pending
               PROVE  start'[w] = from'[w] /\ (~ Historical(w)' => end'[w] = Never)
    BY DEF Dates, Pending, Never
  <2>1. stage[w] \in Pending /\ w # o
    BY <1>5 DEF TInv, TypeOK, Placed, Pending
  <2> QED  BY <1>2, <1>10, <2>1, Types DEF Sound, Dates, Historical, Never
<1>13. Chain'
  <2>1. \A r \in Line' : start'[r] < end'[r]
    BY <1>2, <1>5, <1>6, <1>8, <1>10, Types DEF Sound, Chain
  <2>2. \A r, s \in approved : r # s => Apart(r, s)'
    BY <1>2, <1>5, <1>8, <1>10, <1>11, Types DEF Sound, Chain, Apart
  <2>3. \A r \in approved : end'[r] <= start'[u]
    BY <1>5, <1>10, <1>11, Types
  <2> QED  BY <1>8, <2>1, <2>2, <2>3 DEF Chain, Apart
<1>14. OneComing'
  BY <1>5, <1>6, <1>8, <1>10, <1>11, Types DEF OneComing, Never
<1>15. OneCutting'
  BY <1>2, <1>9 DEF Sound, OneCutting
<1>16. Inserting'
  <2> SUFFICES ASSUME NEW h \in Inserted
      PROVE /\ start[h] < end'[h]
            /\ \A r \in Line' : start[r] < start[h] => end'[r] <= start[h]
            /\ \A r \in Line' : start[r] # start[h]
            /\ \E n \in approved : start[h] < start[n]
            /\ stage'[h] = "publish" =>
                 /\ \A r \in Line' : start[h] < start[r] => end'[h] <= start[r]
                 /\ \E n \in approved : start[n] = end'[h]
    BY <1>9, <1>10 DEF Inserting
  <2>1. h \in Upload /\ h # u /\ h # o /\ stage'[h] = stage[h] /\ end'[h] = end[h]
    BY <1>5, <1>6, <1>8, <1>10, Types DEF Inserted, TInv, TypeOK
  <2>2. /\ start[h] < end[h]
        /\ \A r \in approved : start[r] < start[h] => end[r] <= start[h]
        /\ \A r \in approved : start[r] # start[h]
        /\ \E n \in approved : start[h] < start[n]
        /\ stage[h] = "publish" =>
             /\ \A r \in approved : start[h] < start[r] => end[h] <= start[r]
             /\ \E n \in approved : start[n] = end[h]
    BY <1>2, <1>8 DEF Sound, Inserting
  <2>3. start[h] < start[u]
    BY <1>5, <2>1, <2>2, Types
  <2>4. \A r \in approved : start[r] < start[h] => end'[r] <= start[h]
    BY <1>5, <1>10, <2>1, <2>2, Types
  <2>5. stage[h] = "publish" => end[h] <= start[u]
    BY <1>5, <2>1, <2>2, Types
  <2> QED  BY <1>8, <2>1, <2>2, <2>3, <2>4, <2>5, Types
<1>17. Followed'
  BY <1>2, <1>6, <1>8, <1>9, <1>10, <1>5, Types DEF Sound, Followed, Never
<1>18. OpenFlag'
  BY <1>2, <1>5, <1>10, <1>6, Types DEF Sound, OpenFlag, o, Historical, Never
<1> QED  BY <1>12, <1>13, <1>14, <1>15, <1>16, <1>17, <1>18 DEF Sound

\* What FitsHistorical says of the version after a historical upload
LEMMA NextVersion ==
  ASSUME TInv, Sound, NEW h \in Upload, FitsHistorical(h), h \notin Line
  PROVE  \E n \in approved :
           /\ start[h] < start[n] /\ end[h] < end[n]
           /\ \A r \in trees \ {n} : start[h] < start[r] => start[n] < start[r]
           /\ \A r \in Line : r # n /\ start[h] < start[r] => end[n] <= start[r]
           /\ \A r \in Line : r # n /\ start[r] < start[n] => end[r] <= start[n]
           /\ \A w \in Coming : start[n] < start[w]
           /\ \A r \in Line : start[r] # start[h]
<1>1. PICK n \in approved :
        /\ start[h] < start[n] /\ end[h] < end[n]
        /\ \A r \in trees \ {n} : start[h] < start[r] => start[n] < start[r]
  BY DEF FitsHistorical
<1>2. \A r \in Line : r # n => Apart(r, n)
  BY DEF Sound, Chain, Line
<1>3. \A r \in Line : start[r] < end[r]
  BY DEF Sound, Chain
<1>4. n \in Line /\ n \in Revision /\ Line \subseteq Revision /\ Line \subseteq trees
  BY Types DEF Line
<1>5. \A r \in Line : r # n /\ start[h] < start[r] => end[n] <= start[r]
  BY <1>1, <1>2, <1>3, <1>4, Types DEF Apart
<1>6. \A r \in Line : r # n /\ start[r] < start[n] => end[r] <= start[n]
  BY <1>1, <1>2, <1>3, <1>4, Types DEF Apart
<1>7. \A w \in Coming : start[n] < start[w]
  <2> TAKE w \in Coming
  <2>1. end[n] <= start[w] /\ w \in Upload
    BY DEF Sound, OneComing, Coming
  <2> QED  BY <1>3, <1>4, <2>1, Types
<1>8. \A r \in Line : start[r] # start[h]
  BY <1>1, <1>4, <1>7, Types DEF FitsHistorical, Line
<1> QED  BY <1>1, <1>5, <1>6, <1>7, <1>8

\* What the approval of a historical upload does to the version before it:
\* only the last one that started before is cut, and it lasted until then.
LEMMA Cut ==
  ASSUME TInv, Sound, NEW u \in Upload, CutPrevious(u), FitsHistorical(u)
  PROVE  \E n \in approved :
        /\ start[u] < start[n] /\ end[u] < end[n]
        /\ \A r \in trees \ {n} : start[u] < start[r] => start[n] < start[r]
        /\ \A r \in Line : r # n /\ start[u] < start[r] => end[n] <= start[r]
        /\ \A r \in Line : r # n /\ start[r] < start[n] => end[r] <= start[n]
        /\ \A w \in Coming : start[n] < start[w]
        /\ \A r \in Line : start[r] # start[u]
        /\ \A r \in Line : start[r] < start[u] => end'[r] <= start[u]
        /\ \A r \in Revision : end'[r] # end[r] =>
             /\ r \in approved /\ start[r] < start[u] /\ end'[r] = start[u]
             /\ start[u] <= end[r] /\ end[r] <= start[n]
             /\ \A s \in Line : s # r /\ end[r] <= start[s] => start[u] <= start[s]
<1> USE DEF Goes
<1>3. Historical(u) /\ u \in Cutting /\ u \notin Line /\ stage[u] = "cutPrevious"
  BY Types DEF TInv, Placed, CutPrevious, Cutting
<1>5. PICK n \in approved :
        /\ start[u] < start[n] /\ end[u] < end[n]
        /\ \A r \in trees \ {n} : start[u] < start[r] => start[n] < start[r]
        /\ \A r \in Line : r # n /\ start[u] < start[r] => end[n] <= start[r]
        /\ \A r \in Line : r # n /\ start[r] < start[n] => end[r] <= start[n]
        /\ \A w \in Coming : start[n] < start[w]
        /\ \A r \in Line : start[r] # start[u]
  BY <1>3, NextVersion
<1>6. Inserted = {}
  BY <1>3 DEF Sound, OneCutting, Inserted
<1>7. /\ \A r \in Revision : end'[r] = end[r] \/ (r \in Before(u) /\ end'[r] = start[u])
      /\ \A r \in Line : start[r] < start[u] => end'[r] <= start[u]
      /\ \A r \in Revision : end'[r] # end[r] =>
           \A s \in approved : start[s] < start[u] => start[s] <= start[r]
  <2>1. CASE Before(u) = {}
    <3>1. end' = end
      BY <2>1 DEF CutPrevious
    <3>2. \A r \in Line : ~ start[r] < start[u]
      BY <1>5, <2>1, Types DEF Before, Line, Coming
    <3> QED  BY <3>1, <3>2
  <2>2. CASE Before(u) # {}
    <3>1. PICK p \in Before(u) : /\ \A r \in Before(u) : start[r] <= start[p]
                                 /\ end' = [end EXCEPT ![p] = start[u]]
      BY <2>2 DEF CutPrevious
    <3>2. p \in approved /\ p \in Revision /\ start[p] < start[u] /\ p \in Line
      BY <3>1, Types DEF Before, Line
    <3>3. end'[p] = start[u] /\ \A r \in Revision \ {p} : end'[r] = end[r]
      BY <3>1, <3>2 DEF TInv, TypeOK
    <3>4. \A r \in Line : r # p /\ start[r] < start[u] => end[r] <= start[u]
      <4> SUFFICES ASSUME NEW r \in Line, r # p, start[r] < start[u]
                   PROVE  end[r] <= start[u]
        OBVIOUS
      <4>1. r \in approved /\ start[r] <= start[p]
        BY <1>5, <3>1, Types DEF Line, Before, Coming
      <4>2. Apart(r, p) /\ start[p] < end[p]
        BY <3>2 DEF Sound, Chain
      <4> QED  BY <3>2, <4>1, <4>2, Types DEF Apart
    <3> QED  BY <3>1, <3>2, <3>3, <3>4, Types DEF Before
  <2> QED  BY <2>1, <2>2
<1>8. \A r \in Revision : end'[r] # end[r] =>
        /\ r \in approved /\ start[r] < start[u] /\ end'[r] = start[u]
        /\ start[u] <= end[r] /\ end[r] <= start[n]
        /\ \A s \in Line : s # r /\ end[r] <= start[s] => start[u] <= start[s]
  <2> SUFFICES ASSUME NEW r \in Revision, end'[r] # end[r]
      PROVE /\ r \in approved /\ start[r] < start[u] /\ end'[r] = start[u]
            /\ start[u] <= end[r] /\ end[r] <= start[n]
            /\ \A s \in Line : s # r /\ end[r] <= start[s] => start[u] <= start[s]
    OBVIOUS
  <2>1. r \in approved /\ start[r] < start[u] /\ end'[r] = start[u] /\ r \in Line /\ r # n
    BY <1>5, <1>7, Types DEF Before, Line
  <2>2. start[r] < end[r] /\ end[r] <= start[n]
    BY <1>5, <2>1, Types DEF Sound, Chain
  <2>3. \A s \in Line : end[r] <= start[s] => start[u] <= start[s]
    <3> SUFFICES ASSUME NEW s \in Line, end[r] <= start[s], start[s] < start[u]
                 PROVE  FALSE
      BY Types
    <3>1. s \in approved
      BY <1>5, Types DEF Line, Coming
    <3>2. start[s] <= start[r]
      BY <1>7, <3>1
    <3> QED  BY <2>1, <2>2, <3>1, <3>2, Types
  <2>4. start[u] <= end[r]
    <3>1. PICK s \in Line \cup Inserted : start[s] = end[r]
      BY <1>5, <2>1, <2>2, Types DEF Sound, Followed
    <3> QED  BY <1>6, <2>3, <3>1, Types
  <2> QED  BY <2>1, <2>2, <2>3, <2>4
<1> QED  BY <1>5, <1>7, <1>8

LEMMA CutPreviousSound ==
  ASSUME TInv, TInv', HInv, NEW u \in Upload, CutPrevious(u)
  PROVE  HInv'
<1> USE DEF Goes, sessionVars
<1> SUFFICES ASSUME misfits' = {} PROVE Sound'
  BY DEF HInv
<1>1. misfits = {} /\ Fits(u)
  BY DEF NoteFit, CutPrevious
<1>2. Sound
  BY <1>1 DEF HInv
<1>3. Historical(u) /\ u \in Cutting /\ u \notin Line /\ stage[u] = "cutPrevious" /\ stage'[u] = "moveNext"
  BY Types DEF TInv, TypeOK, Placed, CutPrevious, Cutting
<1>4. FitsHistorical(u)
  BY <1>1, <1>3 DEF Fits
<1>5. PICK n \in approved :
        /\ start[u] < start[n] /\ end[u] < end[n]
        /\ \A r \in trees \ {n} : start[u] < start[r] => start[n] < start[r]
        /\ \A r \in Line : r # n /\ start[u] < start[r] => end[n] <= start[r]
        /\ \A r \in Line : r # n /\ start[r] < start[n] => end[r] <= start[n]
        /\ \A w \in Coming : start[n] < start[w]
        /\ \A r \in Line : start[r] # start[u]
        /\ \A r \in Line : start[r] < start[u] => end'[r] <= start[u]
        /\ \A r \in Revision : end'[r] # end[r] =>
             /\ r \in approved /\ start[r] < start[u] /\ end'[r] = start[u]
             /\ start[u] <= end[r] /\ end[r] <= start[n]
             /\ \A s \in Line : s # r /\ end[r] <= start[s] => start[u] <= start[s]
  BY <1>2, <1>4, Cut
<1>6. /\ approved' = approved /\ latest' = latest /\ start' = start /\ to' = to /\ from' = from
      /\ Coming' = Coming /\ Line' = Line /\ Cutting' = Cutting /\ Cutting = {u}
      /\ Inserted = {} /\ Inserted' = {u}
  <2>1. Cutting = {u}
    BY <1>2, <1>3 DEF Sound, OneCutting
  <2>2. approved' = approved /\ latest' = latest /\ start' = start /\ to' = to /\ from' = from
    BY DEF CutPrevious
  <2>3. Coming' = Coming /\ Cutting' = Cutting
    BY <1>3 DEF CutPrevious, Coming, Cutting, Historical, TInv, TypeOK
  <2> QED  BY <1>3, <2>1, <2>2, <2>3 DEF Line, Inserted
<1>9. Dates'
  BY <1>2, <1>5, <1>6, Types DEF Sound, Dates, Pending, CutPrevious, TInv, TypeOK, Placed, Historical, Never
<1>10. Chain'
  <2>1. \A r \in Line : start[r] < end'[r]
    BY <1>2, <1>5, Types DEF Sound, Chain
  <2>2. \A r, s \in Line : r # s /\ end[r] <= start[s] => end'[r] <= start[s]
    BY <1>5, Types
  <2> QED  BY <1>2, <1>6, <2>1, <2>2 DEF Sound, Chain, Apart
<1>11. OneComing'
  <2> SUFFICES ASSUME NEW w \in Coming
      PROVE  end'[w] = Never /\ \A r \in approved : end'[r] <= start[w]
    BY <1>2, <1>6 DEF Sound, OneComing, Never
  <2>1. end'[w] = end[w] /\ w \in Revision
    BY <1>5, Types DEF Coming
  <2>2. start[u] < start[w]
    BY <1>5, <2>1, Types
  <2> QED  BY <1>2, <1>5, <2>1, <2>2, Types DEF Sound, OneComing
<1>12. OneCutting'
  BY <1>2, <1>6 DEF Sound, OneCutting
<1>13. Inserting'
  <2>1. end'[u] = end[u]
    BY <1>3, <1>5, Types DEF Line
  <2>2. start[u] < end[u]
    BY <1>4 DEF FitsHistorical
  <2> QED  BY <1>3, <1>5, <1>6, <2>1, <2>2 DEF Inserting
<1>14. Followed'
  <2> SUFFICES ASSUME NEW r \in approved, end'[r] # Never
               PROVE  \E s \in Line \cup {u} : start[s] = end'[r]
    BY <1>6 DEF Followed, Never
  <2> QED  BY <1>2, <1>5, <1>6, Types DEF Sound, Followed
<1>15. OpenFlag'
  <2> SUFFICES ASSUME NEW r \in approved, end'[r] # end[r]
               PROVE  end'[r] # Never /\ end[r] # Never
    BY <1>2, <1>6 DEF Sound, OpenFlag, Historical, Never
  <2> QED  BY <1>5, Types
<1> QED  BY <1>9, <1>10, <1>11, <1>12, <1>13, <1>14, <1>15 DEF Sound

\* What it does to the version after it: only that one starts later or
\* earlier, where the historical one ends.
LEMMA Move ==
  ASSUME TInv, Sound, NEW u \in Upload, MoveNext(u), FitsHistorical(u)
  PROVE  \E n \in approved :
        /\ start[u] < start[n] /\ end[u] < end[n]
        /\ \A r \in trees \ {n} : start[u] < start[r] => start[n] < start[r]
        /\ \A r \in Line : r # n /\ start[u] < start[r] => end[n] <= start[r]
        /\ \A r \in Line : r # n /\ start[r] < start[n] => end[r] <= start[n]
        /\ \A w \in Coming : start[n] < start[w]
        /\ \A r \in Line : start[r] # start[u]
        /\ n \in Line /\ n \in Revision /\ n # u
        /\ start'[n] = end[u] /\ \A r \in Revision \ {n} : start'[r] = start[r]
<1> USE DEF Goes
<1>3. u \notin Line
  BY DEF TInv, Placed, MoveNext, Line, Coming
<1>5. PICK n \in approved :
        /\ start[u] < start[n] /\ end[u] < end[n]
        /\ \A r \in trees \ {n} : start[u] < start[r] => start[n] < start[r]
        /\ \A r \in Line : r # n /\ start[u] < start[r] => end[n] <= start[r]
        /\ \A r \in Line : r # n /\ start[r] < start[n] => end[r] <= start[n]
        /\ \A w \in Coming : start[n] < start[w]
        /\ \A r \in Line : start[r] # start[u]
  BY <1>3, NextVersion
<1>6. n \in Line /\ n \in Revision /\ n \in trees /\ n # u
  BY <1>3, Types DEF Line
<1>7. start'[n] = end[u] /\ \A r \in Revision \ {n} : start'[r] = start[r]
  <2>1. n \in After(u)
    BY <1>5, <1>6, Types DEF After
  <2>2. PICK m \in After(u) : /\ \A r \in After(u) : start[m] <= start[r]
                              /\ start' = [start EXCEPT ![m] = end[u]]
    BY <2>1 DEF MoveNext
  <2>3. m \in trees /\ m \in Revision /\ start[u] < start[m] /\ start[m] <= start[n]
    BY <2>1, <2>2, Types DEF After, TInv, TypeOK
  <2>4. m = n
    BY <1>5, <1>6, <2>3, Types
  <2> QED  BY <2>2, <2>3, <2>4 DEF TInv, TypeOK
<1> QED  BY <1>5, <1>6, <1>7

LEMMA MoveNextSound ==
  ASSUME TInv, TInv', HInv, NEW u \in Upload, MoveNext(u)
  PROVE  HInv'
<1> USE DEF Goes, sessionVars
<1> SUFFICES ASSUME misfits' = {} PROVE Sound'
  BY DEF HInv
<1>1. misfits = {} /\ Fits(u)
  BY DEF NoteFit, MoveNext
<1>2. Sound
  BY <1>1 DEF HInv
<1>3. /\ Historical(u) /\ u \in Inserted /\ u \notin Line
      /\ stage[u] = "moveNext" /\ stage'[u] = "publish"
  BY Types DEF TInv, TypeOK, Placed, MoveNext, Cutting, Inserted
<1>4. FitsHistorical(u)
  BY <1>1, <1>3 DEF Fits
<1>5. PICK n \in approved :
        /\ start[u] < start[n] /\ end[u] < end[n]
        /\ \A r \in trees \ {n} : start[u] < start[r] => start[n] < start[r]
        /\ \A r \in Line : r # n /\ start[u] < start[r] => end[n] <= start[r]
        /\ \A r \in Line : r # n /\ start[r] < start[n] => end[r] <= start[n]
        /\ \A w \in Coming : start[n] < start[w]
        /\ \A r \in Line : start[r] # start[u]
        /\ n \in Line /\ n \in Revision /\ n # u
        /\ start'[n] = end[u] /\ \A r \in Revision \ {n} : start'[r] = start[r]
  BY <1>2, <1>4, Move
<1>8. /\ approved' = approved /\ latest' = latest /\ end' = end /\ to' = to /\ from' = from
      /\ Coming' = Coming /\ Line' = Line /\ Cutting' = Cutting /\ Cutting = {u}
      /\ Inserted = {u} /\ Inserted' = {u}
  <2>1. Cutting = {u}
    BY <1>2, <1>3 DEF Sound, OneCutting, Inserted
  <2>2. approved' = approved /\ latest' = latest /\ end' = end /\ to' = to /\ from' = from
    BY DEF MoveNext
  <2>3. Coming' = Coming /\ Cutting' = Cutting
    BY <1>3 DEF MoveNext, Coming, Cutting, Historical, TInv, TypeOK
  <2> QED  BY <1>3, <2>1, <2>2, <2>3 DEF Line, Inserted
<1>9. start[u] < end[u] /\ \A r \in Line : start[r] < start[u] => end[r] <= start[u]
  BY <1>2, <1>3 DEF Sound, Inserting
<1>10. \A r \in Line : r # n => (end[r] <= start[u] \/ end[n] <= start[r])
  BY <1>5, <1>9, Types
<1>11. Dates'
  BY <1>2, <1>5, <1>8, Types DEF Sound, Dates, Pending, MoveNext, TInv, TypeOK, Placed,
     Historical, Never
<1>12. Chain'
  <2>1. \A r \in Line : start'[r] < end[r]
    BY <1>2, <1>5, Types DEF Sound, Chain
  <2>2. \A r \in Line \ {n} : end[r] <= start'[n] \/ end[n] <= start'[r]
    BY <1>5, <1>9, <1>10, Types
  <2>3. \A r, s \in Line \ {n} : r # s => end[r] <= start'[s] \/ end[s] <= start'[r]
    BY <1>2, <1>5, Types DEF Sound, Chain, Apart
  <2> QED  BY <1>8, <2>1, <2>2, <2>3 DEF Chain, Apart
<1>13. OneComing'
  <2>1. \A w \in Coming : start'[w] = start[w]
    BY <1>5, Types DEF Coming
  <2> QED  BY <1>2, <1>8, <2>1 DEF Sound, OneComing, Never
<1>14. OneCutting'
  BY <1>2, <1>8 DEF Sound, OneCutting
<1>15. Inserting'
  <2>1. start'[u] = start[u] /\ end'[u] = end[u] /\ u \in Revision
    BY <1>5, <1>8, Types
  <2>2. \A r \in Line : start'[r] < start[u] => end[r] <= start[u]
    BY <1>5, <1>9, Types
  <2>3. \A r \in Line : start'[r] # start[u]
    BY <1>5, <1>9, Types
  <2>4. start[u] < start'[n]
    BY <1>5, <1>9
  <2>5. \A r \in Line : start[u] < start'[r] => end[u] <= start'[r]
    BY <1>5, <1>10, Types
  <2> QED  BY <1>5, <1>8, <1>9, <2>1, <2>2, <2>3, <2>4, <2>5 DEF Inserting
<1>16. Followed'
  <2> SUFFICES ASSUME NEW r \in approved, end[r] # Never
               PROVE  \E s \in Line \cup {u} : start'[s] = end[r]
    BY <1>8 DEF Followed, Never
  <2>1. PICK s \in Line \cup {u} : start[s] = end[r]
    BY <1>2, <1>8 DEF Sound, Followed
  <2>2. r \in Line /\ r \in Revision /\ start[r] < end[r]
    BY <1>2, Types DEF Line, Sound, Chain
  <2>3. s # n
    <3> SUFFICES ASSUME s = n PROVE FALSE
      OBVIOUS
    <3>1. r # n /\ end[r] = start[n]
      BY <2>1, <2>2, Types
    <3> QED  BY <1>2, <1>5, <1>10, <2>2, <3>1, Types DEF Sound, Chain
  <2> QED  BY <1>5, <2>1, <2>3, Types
<1>17. OpenFlag'
  BY <1>2, <1>8 DEF Sound, OpenFlag, Historical, Never
<1> QED  BY <1>11, <1>12, <1>13, <1>14, <1>15, <1>16, <1>17 DEF Sound

LEMMA PublishSound ==
  ASSUME TInv, TInv', HInv, NEW u \in Upload, Publish(u)
  PROVE  HInv'
<1> USE DEF Publish, Goes, sessionVars
<1> SUFFICES ASSUME misfits' = {} PROVE Sound'
  BY DEF HInv
<1>1. Sound
  BY DEF HInv
<1>2. /\ start' = start /\ end' = end /\ from' = from /\ to' = to
      /\ approved' = approved \cup {u} /\ u \notin approved /\ u \in Revision
      /\ stage[u] = "publish"
  BY Types DEF TInv, Placed
<1>3. Dates'
  BY <1>1, <1>2 DEF Sound, Dates, Pending, Historical, Never, TInv, TypeOK
<1>4. CASE Historical(u)
  <2>1. /\ u \in Inserted /\ Coming' = Coming /\ Line' = Line \cup {u} /\ latest' = latest
        /\ Cutting' = Cutting \ {u} /\ u \notin Line
    BY <1>2, <1>4, Types DEF Inserted, Cutting, Coming, Line, Historical, TInv, TypeOK
  <2>2. Cutting = {u} /\ Inserted' = {}
    BY <1>1, <2>1 DEF Sound, OneCutting, Inserted
  <2>3. /\ start[u] < end[u]
        /\ \A r \in Line : start[r] < start[u] => end[r] <= start[u]
        /\ \A r \in Line : start[r] # start[u]
        /\ \E n \in approved : start[u] < start[n]
        /\ \A r \in Line : start[u] < start[r] => end[u] <= start[r]
        /\ \E n \in approved : start[n] = end[u]
    BY <1>1, <1>2, <2>1 DEF Sound, Inserting
  <2>4. Chain'
    <3>1. \A r \in Line : Apart(r, u)
      BY <1>2, <2>3, Types DEF Apart
    <3> QED  BY <1>1, <1>2, <2>1, <2>3, <3>1 DEF Sound, Chain, Apart
  <2>5. OneComing'
    <3> SUFFICES ASSUME NEW w \in Coming PROVE end[u] <= start[w]
      BY <1>1, <1>2, <2>1 DEF Sound, OneComing, Never
    <3>1. PICK n \in approved : start[n] = end[u]
      BY <2>3
    <3>2. start[n] < end[n] /\ end[n] <= start[w]
      BY <1>1 DEF Sound, Chain, OneComing, Line
    <3> QED  BY <1>2, <3>1, <3>2, Types DEF Coming
  <2>6. OneCutting' /\ Inserting'
    BY <2>1, <2>2 DEF OneCutting, Inserting
  <2>7. Followed'
    <3>1. \A r \in approved : end[r] # Never => \E s \in Line \cup {u} : start[s] = end[r]
      BY <1>1, <2>2 DEF Sound, Followed, Inserted
    <3> QED  BY <1>2, <2>1, <2>3, <3>1 DEF Followed, Never, Line
  <2>8. OpenFlag'
    <3>1. end[u] # Never
      BY <1>2, <1>4 DEF TInv, Placed, Pending, Historical
    <3> QED  BY <1>1, <1>2, <1>4, <2>1, <3>1 DEF Sound, OpenFlag, Historical, Never
  <2> QED  BY <1>3, <2>4, <2>5, <2>6, <2>7, <2>8 DEF Sound
<1>5. CASE ~ Historical(u)
  <2>1. u \in Coming /\ Coming = {u} /\ Coming' = {} /\ Line' = Line
    BY <1>1, <1>2, <1>5 DEF Sound, OneComing, Coming, Line, Historical, TInv, TypeOK
  <2>2. Cutting' = Cutting /\ Inserted' = Inserted /\ u \notin Cutting
    BY <1>2, <1>5 DEF Cutting, Inserted, Historical, TInv, TypeOK
  <2>3. end[u] = Never /\ latest' = latest \cup {u} /\ u \in Line
    BY <1>1, <1>5, <2>1 DEF Sound, OneComing, Line
  <2>4. Chain'
    BY <1>1, <1>2, <2>1 DEF Sound, Chain, Apart
  <2>5. OneComing' /\ OneCutting'
    BY <1>1, <2>1, <2>2 DEF Sound, OneComing, OneCutting
  <2>6. Inserting'
    <3>1. \A h \in Inserted : stage'[h] = stage[h]
      BY <2>2 DEF Inserted, TInv, TypeOK, Cutting
    <3> QED  BY <1>1, <1>2, <2>1, <2>2, <3>1 DEF Sound, Inserting
  <2>7. Followed'
    BY <1>1, <1>2, <2>1, <2>2, <2>3 DEF Sound, Followed, Never
  <2>8. OpenFlag'
    BY <1>1, <1>2, <1>5, <2>3 DEF Sound, OpenFlag, Historical, Never
  <2> QED  BY <1>3, <2>4, <2>5, <2>6, <2>7, <2>8 DEF Sound
<1> QED  BY <1>4, <1>5

-----------------------------------------------------------------------------
(* The invariant, and what follows from it                                 *)

LEMMA StepSound ==
  ASSUME TInv, TInv', HInv, NEW u \in Upload, Step(u)
  PROVE  HInv'
  BY PreprocessSound, ValidateSound, SendToReviewSound, ApproveSound,
     SupersedeSound, RepointSound, CutPreviousSound, MoveNextSound,
     PublishSound, RejectSound DEF Step

LEMMA StutterSound ==
  ASSUME TInv, HInv, UNCHANGED vars
  PROVE  TInv' /\ HInv'
<1> USE DEF vars, sessionVars, entityVars
<1>1. TInv'
  BY DEF TInv, TypeOK, Placed, Historical, Date, Never, Revision, Stage, Pending
<1>2. Coming' = Coming /\ Line' = Line /\ Cutting' = Cutting /\ Inserted' = Inserted
  BY DEF Coming, Line, Cutting, Inserted, Historical
<1>3. HInv'
  BY <1>2 DEF HInv, Sound, Dates, Chain, Apart, OneComing, OneCutting, Inserting,
     Followed, OpenFlag, Historical, Never, Pending
<1> QED  BY <1>1, <1>3

LEMMA Invariant == Spec => [](TInv /\ HInv)
<1>1. Init => TInv /\ HInv
  BY InitTyped, InitSound
<1>2. TInv /\ HInv /\ [Next]_vars => TInv' /\ HInv'
  BY StepTyped, StepSound, StutterSound DEF Next
<1> QED  BY <1>1, <1>2, PTL DEF Spec

\* Every variable keeps its type, and what is approved or latest is in the
\* database.
THEOREM TypeCorrect == Spec => []TypeOK
  BY Invariant, PTL DEF TInv

\* While nothing executes, the line is what is published.
LEMMA SettledLine ==
  ASSUME TInv, HInv, Regular
  PROVE  Sound /\ Line = approved /\ Inserted = {}
  BY DEF HInv, Regular, Line, Coming, Inserted, Cutting, Executing

\* Whatever uploads there are and in whatever order they are validated, sent
\* to review and approved, overlapping or not: while none was a misfit, no two
\* versions are valid at one date, and none ends without a successor.
THEOREM OneVersion == Spec => []OneVersionAt
<1>1. TInv /\ HInv => OneVersionAt
  <2> SUFFICES ASSUME TInv, HInv, Regular
      PROVE /\ \A t \in Date : \A r, s \in VersionsAt(t) : r = s
            /\ \A r \in approved : end[r] # Never =>
                 \E s \in approved : start[s] = end[r]
    BY DEF OneVersionAt
  <2>1. ASSUME NEW t \in Date, NEW r \in VersionsAt(t), NEW s \in VersionsAt(t), r # s
        PROVE  FALSE
    <3>1. Apart(r, s)
      BY <2>1, SettledLine DEF Sound, Chain, VersionsAt
    <3> QED  BY <2>1, <3>1, Types DEF VersionsAt, Apart, Date
  <2>2. \A r \in approved : end[r] # Never => \E s \in approved : start[s] = end[r]
    BY SettledLine DEF Sound, Followed
  <2> QED  BY <2>1, <2>2
<1> QED  BY <1>1, Invariant, PTL

\* While none was a misfit, is_latest marks the version that is still open.
THEOREM OpenListed == Spec => []OpenIsListed
<1>1. TInv /\ HInv => OpenIsListed
  <2> SUFFICES ASSUME TInv, HInv, Regular
      PROVE  \A r \in approved : end[r] = Never <=>
               r \in latest /\ (r \in Upload => ~ Historical(r))
    BY DEF OpenIsListed, Listed
  <2> QED  BY SettledLine DEF Sound, OpenFlag
<1> QED  BY <1>1, Invariant, PTL

\* The same for one step: what an approval changes lies after its start.
LEMMA StepKeepsPast ==
  ASSUME TInv, TInv', HInv, NEW u \in Upload, Step(u), misfits' = {},
         NEW t \in Date, t < from[u]
  PROVE  VersionsAt(t)' = VersionsAt(t)
<1> USE DEF Goes
<1>1. CASE Preprocess(u) \/ SendToReview(u) \/ Approve(u) \/ Repoint(u)
  BY <1>1 DEF Preprocess, SendToReview, Approve, Repoint, entityVars, VersionsAt
<1>2. CASE Validate(u) \/ Reject(u)
  <2>1. u \notin approved /\ approved' = approved
    BY <1>2 DEF Validate, Reject, TInv, Placed
  <2>2. \A r \in approved : start'[r] = start[r] /\ end'[r] = end[r]
    BY <1>2, <2>1, Types DEF Validate, Reject, TInv, TypeOK
  <2> QED  BY <2>1, <2>2 DEF VersionsAt
<1>3. CASE Supersede(u)
  <2>1. FitsNew(u) /\ Sound
    BY <1>3 DEF Supersede, NoteFit, Fits, TInv, Placed, HInv
  <2>2. /\ approved' = approved /\ start' = start /\ original[u] \in approved
        /\ end[original[u]] = Never /\ end'[original[u]] = from[u]
        /\ \A r \in approved : r # original[u] => end'[r] = end[r]
    BY <1>3, <2>1, Types DEF Supersede, FitsNew, TInv, TypeOK
  <2>3. \A r \in approved : t < end'[r] <=> t < end[r]
    BY <2>2, Types DEF Date
  <2> QED  BY <2>2, <2>3 DEF VersionsAt
<1>4. CASE CutPrevious(u)
  <2>1. FitsHistorical(u) /\ Sound
    BY <1>4 DEF CutPrevious, NoteFit, Fits, TInv, Placed, HInv
  <2>2. start[u] = from[u] /\ approved' = approved /\ start' = start
    BY <1>4, <2>1 DEF CutPrevious, Sound, Dates, Pending
  <2>3. \A r \in Revision : end'[r] # end[r] => end'[r] = start[u] /\ start[u] <= end[r]
    BY <1>4, <2>1, Cut
  <2>4. \A r \in approved : t < end'[r] <=> t < end[r]
    BY <2>2, <2>3, Types DEF Date
  <2> QED  BY <2>2, <2>4 DEF VersionsAt
<1>5. CASE MoveNext(u)
  <2>1. FitsHistorical(u) /\ Sound
    BY <1>5 DEF MoveNext, NoteFit, Fits, TInv, Placed, HInv
  <2>2. start[u] = from[u] /\ approved' = approved /\ end' = end
    BY <1>5, <2>1 DEF MoveNext, Sound, Dates, Pending
  <2>3. PICK n \in approved :
          start[u] < start[n] /\ start'[n] = end[u]
            /\ \A r \in Revision \ {n} : start'[r] = start[r]
    BY <1>5, <2>1, Move
  <2>4. \A r \in approved : start'[r] <= t <=> start[r] <= t
    BY <2>1, <2>2, <2>3, Types DEF Date, FitsHistorical
  <2> QED  BY <2>2, <2>4 DEF VersionsAt
<1>6. CASE Publish(u)
  <2>1. Sound /\ start[u] = from[u]
    BY <1>6 DEF Publish, HInv, Sound, Dates, Pending
  <2> QED  BY <1>6, <2>1, Types DEF Publish, VersionsAt, Date
<1> QED  BY <1>1, <1>2, <1>3, <1>4, <1>5, <1>6 DEF Step

\* While none was a misfit, no step towards an approval changes the answer for
\* a date before the start of its upload.
THEOREM PastUntouched == Spec => PastKept
<1>1. ASSUME TInv, TInv', HInv, [Next]_vars
      PROVE  [misfits' = {} =>
               \A u \in Upload : stage'[u] # stage[u] =>
                 \A t \in Date : t < from[u] => VersionsAt(t)' = VersionsAt(t)]_vars
  <2> SUFFICES ASSUME Next, misfits' = {}, NEW u \in Upload, stage'[u] # stage[u],
                      NEW t \in Date, t < from[u]
               PROVE  VersionsAt(t)' = VersionsAt(t)
    BY <1>1
  <2>1. PICK w \in Upload : Step(w)
    BY DEF Next
  <2>2. w = u
    <3>1. \E x \in Stage : stage' = [stage EXCEPT ![w] = x]
      BY <2>1 DEF Step, Goes, Stage, Preprocess, Validate, SendToReview, Approve,
         Supersede, Repoint, CutPrevious, MoveNext, Publish, Reject
    <3> QED  BY <1>1, <3>1 DEF TInv, TypeOK
  <2> QED  BY <1>1, <2>1, <2>2, StepKeepsPast
<1> QED  BY <1>1, Invariant, PTL DEF Spec, PastKept
=============================================================================
