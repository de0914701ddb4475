------------------------- MODULE UploadReview_proofs -------------------------
(***************************************************************************)
(* Proofs about the review of uploads, for any number of uploads,          *)
(* sessions, countries, reviewers and batches.  First, what is published:  *)
(* only matched uploads, an older revision retired before, and what a      *)
(* reader of the data sees changes only as Publication says.  Then, what   *)
(* decisions achieve: one that nobody contradicts takes full effect, and   *)
(* nothing is lost that nobody asked to lose.                              *)
(*                                                                         *)
(* The invariants of the second part come in layers, each one resting on   *)
(* those before it: matching is over for what was matched (MatchedOnce); a *)
(* decision is taken once by whom it names, and what a job does was        *)
(* decided (AuthorsInv); the entities of an upload, its row and every copy *)
(* of the row agree (KeptInv); the decision is carried out (StandsInv).    *)
(***************************************************************************)
EXTENDS UploadReview, TLAPS

-----------------------------------------------------------------------------
(* Type correctness                                                        *)

\* The types of the values that every action handles.
LEMMA ConstantTypes ==
    /\ SessionOf \in [Upload -> Session]
    /\ OriginalOf \in [Upload -> Country \cup {None}]
    /\ Upload \subseteq Tree /\ Country \subseteq Tree
    /\ None \notin Tree
    /\ Upload \cap Country = {}
    /\ Visit \subseteq Decider /\ Batch \subseteq Decider
    /\ Validated \subseteq Upload /\ Cloned \subseteq Validated
BY ReviewAssumption DEF Tree, Decider

\* A row's copy has the type of a copy.
LEMMA RowCopyType ==
    ASSUME TypeOK, NEW u \in Upload
    PROVE  RowCopy(u) \in Copy
BY DEF TypeOK, RowTypes, RowCopy, Copy

\* The initial states are well typed.
LEMMA InitType == Init => TypeOK
<1> SUFFICES ASSUME Init PROVE TypeOK
    OBVIOUS
<1>1. revised \in [Upload -> BOOLEAN]
  <2>1. revised = [u \in Upload |-> u \in Validated]
    BY DEF Init
  <2>2. \A u \in Upload : (u \in Validated) \in BOOLEAN
    OBVIOUS
  <2> QED
    BY <2>1, <2>2, Zenon
<1>2. RowTypes
  <2>1. status \in [Upload -> UploadStatus]
    BY DEF Init, UploadStatus
  <2>2. original \in [Upload -> Tree \cup {None}]
    BY ConstantTypes DEF Init, Tree
  <2> QED
    BY <1>1, <2>1, <2>2 DEF Init, RowTypes
<1>3. session \in [Session -> SessionStatus]
  BY DEF Init, SessionStatus
<1>4. EntityTypes /\ References
  BY ConstantTypes DEF Init, EntityTypes, References
<1>5. RequestTypes
  BY DEF Init, RequestTypes, SubmitPc, WithdrawPc
<1>6. MatchTypes
  <2>1. \A u \in Upload : RowCopy(u) \in Copy
    BY <1>2 DEF RowTypes, RowCopy, Copy
  <2> QED
    BY <2>1 DEF Init, MatchTypes, MatchPc, UploadStatus
<1>7. ReviewTypes
  <2>1. job \in [Decider -> JobState]
    BY DEF Init, JobState, JobPc, Copy
  <2> QED
    BY <2>1 DEF Init, ReviewTypes, PagePc, BatchState
<1>8. RematchTypes
  BY DEF Init, RematchTypes, Rematch, NoRematch, UploadStatus, Copy
<1> QED
  BY <1>2, <1>3, <1>4, <1>5, <1>6, <1>7, <1>8 DEF TypeOK

-----------------------------------------------------------------------------
(* The database operations keep the types                                  *)

\* A successful save keeps the types of the rows and their foreign keys.
LEMMA SaveRowType ==
    ASSUME TypeOK, NEW u \in Upload, NEW copy \in Copy, CanSave(u, copy),
           NEW s \in UploadStatus, NEW r \in {"unset", "false", "true"},
           SaveRow(u, copy, s, r), UNCHANGED entityVars
    PROVE  RowTypes' /\ References'
<1> USE DEF TypeOK, RowTypes, References
<1>1. copy.revised \in BOOLEAN /\ copy.original \in Tree \cup {None}
  BY DEF Copy
<1>2. /\ rows' \subseteq Upload
      /\ status' \in [Upload -> UploadStatus]
      /\ ready' \in [Upload -> {"unset", "false", "true"}]
      /\ original' \in [Upload -> Tree \cup {None}]
  BY <1>1 DEF SaveRow
<1>3. revised' \in [Upload -> BOOLEAN]
  BY <1>1 DEF SaveRow
<1>4. References'
  BY <1>1 DEF SaveRow, CanSave, entityVars
<1> QED
  BY <1>2, <1>3, <1>4

\* Deleting trees keeps the types and leaves no foreign key dangling.
LEMMA DeleteTreesType ==
    ASSUME TypeOK, NEW T, DeleteTrees(T), UNCHANGED <<status, ready, original>>
    PROVE  RowTypes' /\ EntityTypes' /\ References'
<1> USE DEF TypeOK, RowTypes, EntityTypes, References
<1>1. revised' \in [Upload -> BOOLEAN]
  BY DEF DeleteTrees
<1>2. References'
  BY DEF DeleteTrees
<1> QED
  BY <1>1, <1>2 DEF DeleteTrees

\* A matching task that goes on or fails keeps its type.
LEMMA MatchGoesToType ==
    ASSUME TypeOK, NEW u \in Upload, NEW pc \in MatchPc, NEW ok \in BOOLEAN,
           MatchGoesTo(u, ok, pc)
    PROVE  match' \in [Upload -> [pc : MatchPc, status : UploadStatus,
                                  copy : Copy]]
<1>1. "failed" \in MatchPc
  BY DEF MatchPc
<1> QED
  BY <1>1 DEF TypeOK, MatchTypes, MatchGoesTo

\* So does a job, and it keeps its upload.
LEMMA JobGoesToType ==
    ASSUME TypeOK, NEW d \in Decider, NEW pc \in JobPc, NEW ok \in BOOLEAN,
           job[d].pc # "idle", JobGoesTo(d, ok, pc),
           UNCHANGED <<page, batch, decisions, dead>>
    PROVE  ReviewTypes'
<1>1. "failed" \in JobPc
  BY DEF JobPc
<1>2. job' \in [Decider -> JobState]
  BY <1>1 DEF TypeOK, ReviewTypes, JobGoesTo, JobState
<1>3. \A e \in Decider : /\ job'[e].upload = job[e].upload
                         /\ job'[e].pc # "idle" => job[e].pc # "idle"
  BY <1>1 DEF TypeOK, ReviewTypes, JobGoesTo, JobState
<1>4. Visit \subseteq Decider
  BY ConstantTypes
<1> QED
  BY <1>2, <1>3, <1>4 DEF TypeOK, ReviewTypes

\* What Decide records is a decision.
LEMMA DecideType ==
    ASSUME TypeOK, NEW u \in Upload, NEW by \in Decider \cup Session,
           NEW kind \in {"approve", "reject", "withdraw"},
           Decide(u, by, kind)
    PROVE  decisions' \in [Upload -> SUBSET Decision]
BY DEF TypeOK, ReviewTypes, Decide, Decision

-----------------------------------------------------------------------------
(* Every step keeps the types                                              *)

\* The steps of a ReadyToReview request.
LEMMA SubmitType ==
    ASSUME TypeOK, NEW s \in Session,
           (\E U \in SUBSET Upload : CheckReady(s, U)) \/ SubmitStep(s)
    PROVE  TypeOK'
<1> USE DEF TypeOK, RematchTypes, rematchVars
<1>1. ASSUME NEW U \in SUBSET Upload, CheckReady(s, U) PROVE TypeOK'
  BY <1>1 DEF CheckReady, RequestTypes, SubmitPc, rowVars, entityVars, matchVars,
     reviewVars, RowTypes, EntityTypes, MatchTypes, ReviewTypes, References
<1>2. CASE MarkReviewing(s)
  BY <1>2 DEF MarkReviewing, RequestTypes, SubmitPc, RowTypes, UploadStatus,
     entityVars, matchVars, reviewVars, EntityTypes, MatchTypes, ReviewTypes,
     References
<1>3. CASE DispatchMatching(s)
  BY <1>3 DEF DispatchMatching, RequestTypes, SubmitPc, MatchTypes, MatchPc,
     rowVars, entityVars, reviewVars, RowTypes, EntityTypes, ReviewTypes,
     References
<1>4. CASE SetSessionReviewing(s)
  BY <1>4 DEF SetSessionReviewing, RequestTypes, SubmitPc, SessionStatus,
     rowVars, entityVars, matchVars, reviewVars, RowTypes, EntityTypes,
     MatchTypes, ReviewTypes, References
<1>5. CASE DropNonSelected(s)
  <2>1. RowTypes' /\ EntityTypes' /\ References'
    BY <1>5, DeleteTreesType DEF DropNonSelected
  <2> QED
    BY <1>5, <2>1 DEF DropNonSelected, RequestTypes, SubmitPc, matchVars,
       reviewVars, MatchTypes, ReviewTypes
<1> QED
  BY <1>1, <1>2, <1>3, <1>4, <1>5 DEF SubmitStep

\* The steps of the matching task.
LEMMA MatchType ==
    ASSUME TypeOK, NEW u \in Upload, MatchStep(u)
    PROVE  TypeOK'
<1>0. /\ match[u].copy \in Copy /\ match[u].status \in UploadStatus
      /\ RowCopy(u) \in Copy /\ SessionOf[u] \in Session
  BY RowCopyType, ConstantTypes DEF TypeOK, RematchTypes, rematchVars, MatchTypes
<1>1. CASE ReadForMatching(u)
  <2>1. match' \in [Upload -> [pc : MatchPc, status : UploadStatus, copy : Copy]]
    BY <1>0, <1>1 DEF TypeOK, RematchTypes, rematchVars, ReadForMatching,
       MatchTypes, MatchPc, RowTypes
  <2> QED
    BY <1>1, <2>1 DEF TypeOK, RematchTypes, rematchVars, ReadForMatching,
       MatchTypes, rowVars, entityVars, requestVars, reviewVars, RowTypes,
       EntityTypes, RequestTypes, ReviewTypes, References
<1>2. ASSUME NEW ok \in BOOLEAN, NEW r \in {"false", "true"}, NEW pc \in MatchPc,
             ok => CanSave(u, match[u].copy), SaveMatching(u, ok, r, pc),
             matched' \subseteq Upload
      PROVE  TypeOK'
  <2>1. match' \in [Upload -> [pc : MatchPc, status : UploadStatus, copy : Copy]]
    BY <1>2, MatchGoesToType DEF SaveMatching
  <2>2. RowTypes' /\ References'
    <3>1. CASE ok
      BY <1>0, <1>2, <3>1, SaveRowType DEF SaveMatching
    <3>2. CASE ~ ok
      BY <1>2, <3>2 DEF TypeOK, RematchTypes, rematchVars, SaveMatching,
         rowVars, entityVars, RowTypes, References
    <3> QED
      BY <3>1, <3>2
  <2> QED
    BY <1>2, <2>1, <2>2 DEF TypeOK, RematchTypes, rematchVars, SaveMatching,
       MatchTypes, entityVars, requestVars, reviewVars, EntityTypes,
       RequestTypes, ReviewTypes
<1>3. CASE StartMatching(u)
  <2>1. "started" \in MatchPc /\ CanSave(u, match[u].copy) \in BOOLEAN
    BY DEF MatchPc, CanSave
  <2>2. matched' \subseteq Upload
    BY <1>3 DEF StartMatching, TypeOK, MatchTypes
  <2> QED
    BY <1>2, <1>3, <2>1, <2>2 DEF StartMatching
<1>4. CASE SetCodeVersion(u)
  <2> DEFINE ok == match[u].copy.revised /\ CanSave(u, match[u].copy)
  <2>1. "versioned" \in MatchPc /\ ok \in BOOLEAN /\ (ok => CanSave(u, match[u].copy))
    BY DEF MatchPc, CanSave
  <2>2. matched' \subseteq Upload
    BY <1>4 DEF SetCodeVersion, TypeOK, MatchTypes
  <2>3. SaveMatching(u, ok, "false", "versioned")
    BY <1>4 DEF SetCodeVersion
  <2> HIDE DEF ok
  <2> QED
    BY <1>2, <2>1, <2>2, <2>3
<1>5. CASE FinishMatching(u)
  <2> DEFINE ok == u \in rows /\ CanSave(u, match[u].copy)
  <2>1. "saved" \in MatchPc /\ ok \in BOOLEAN /\ (ok => CanSave(u, match[u].copy))
    BY DEF MatchPc, CanSave
  <2>2. matched' \subseteq Upload
    BY <1>5 DEF FinishMatching, TypeOK, MatchTypes
  <2>3. SaveMatching(u, ok, "true", "saved")
    BY <1>5 DEF FinishMatching
  <2> HIDE DEF ok
  <2> QED
    BY <1>2, <2>1, <2>2, <2>3
<1>6. CASE NotifyMatched(u)
  <2>1. match' \in [Upload -> [pc : MatchPc, status : UploadStatus, copy : Copy]]
    BY <1>6, MatchGoesToType DEF NotifyMatched, MatchPc
  <2>2. notified' \subseteq Session
    BY <1>0, <1>6 DEF TypeOK, RematchTypes, rematchVars, NotifyMatched, MatchTypes
  <2> QED
    BY <1>6, <2>1, <2>2 DEF TypeOK, RematchTypes, rematchVars, NotifyMatched,
       MatchTypes, rowVars, entityVars, requestVars, reviewVars, RowTypes,
       EntityTypes, RequestTypes, ReviewTypes, References
<1> QED
  BY <1>1, <1>3, <1>4, <1>5, <1>6 DEF MatchStep

\* The steps of a visit to the review page.
LEMMA VisitType ==
    ASSUME TypeOK, NEW v \in Visit,
           \/ \E u \in Upload : OpenPage(v, u)
           \/ FetchPendingReviews(v) \/ ClickApprove(v)
           \/ SaveProcessingApproval(v) \/ ClickReject(v) \/ StartApproval(v)
    PROVE  TypeOK'
<1>0. v \in Decider /\ job[v] \in JobState
  BY ConstantTypes DEF TypeOK, RematchTypes, rematchVars, ReviewTypes
<1>1. \A pc \in PagePc : [page EXCEPT ![v] = pc] \in [Visit -> PagePc]
  BY DEF TypeOK, RematchTypes, rematchVars, ReviewTypes
<1> USE DEF TypeOK, RematchTypes, rematchVars, requestVars, matchVars,
            entityVars, RequestTypes, MatchTypes, EntityTypes
<1>2. ASSUME NEW u \in Upload, OpenPage(v, u) PROVE TypeOK'
  <2>1. page' = [page EXCEPT ![v] = "open"] /\ page' \in [Visit -> PagePc]
    BY <1>1, <1>2 DEF OpenPage, PagePc
  <2>2. job' = [job EXCEPT ![v].upload = u] /\ job' \in [Decider -> JobState]
    BY <1>0, <1>2 DEF OpenPage, ReviewTypes, JobState
  <2>3. ReviewTypes'
    BY <1>0, <1>2, <2>1, <2>2, ConstantTypes DEF OpenPage, ReviewTypes, JobState
  <2> QED
    BY <1>2, <2>3 DEF OpenPage, rowVars, RowTypes, References
<1>3. CASE FetchPendingReviews(v)
  BY <1>1, <1>3 DEF FetchPendingReviews, ReviewTypes, PagePc, rowVars, RowTypes,
     References
<1>4. CASE ClickApprove(v)
  <2> DEFINE u == job[v].upload
  <2>1. u \in Upload
    BY <1>4 DEF ClickApprove, RowTypes
  <2>2. decisions' \in [Upload -> SUBSET Decision]
    BY <1>0, <1>4, <2>1, DecideType DEF ClickApprove
  <2>3. job' \in [Decider -> JobState]
    BY <1>0, <1>4 DEF ClickApprove, ReviewTypes, JobState, JobPc
  <2>4. page' \in [Visit -> PagePc]
    BY <1>1, <1>4 DEF ClickApprove, PagePc
  <2> QED
    BY <1>4, <2>2, <2>3, <2>4 DEF ClickApprove, ReviewTypes, rowVars, RowTypes,
       References
<1>5. CASE SaveProcessingApproval(v)
  <2>1. page' \in [Visit -> PagePc]
    BY <1>1, <1>5 DEF SaveProcessingApproval, PagePc
  <2>2. status' \in [Upload -> UploadStatus]
    BY <1>5 DEF SaveProcessingApproval, RowTypes, UploadStatus
  <2> QED
    BY <1>5, <2>1, <2>2 DEF SaveProcessingApproval, ReviewTypes, RowTypes,
       References
<1>6. CASE ClickReject(v)
  <2> DEFINE u == job[v].upload
  <2>1. u \in Upload
    BY <1>6 DEF ClickReject, RowTypes
  <2>2. decisions' \in [Upload -> SUBSET Decision]
    BY <1>0, <1>6, <2>1, DecideType DEF ClickReject
  <2>3. job' \in [Decider -> JobState]
    <3>1. RowCopy(u) \in Copy /\ ready[u] \in {"unset", "false", "true"}
      BY <2>1, RowCopyType DEF RowTypes
    <3> QED
      BY <1>0, <1>6, <2>1, <3>1 DEF ClickReject, ReviewTypes, JobState, JobPc
  <2>4. page' \in [Visit -> PagePc]
    BY <1>1, <1>6 DEF ClickReject, PagePc
  <2> QED
    BY <1>6, <2>2, <2>3, <2>4 DEF ClickReject, ReviewTypes, rowVars, RowTypes,
       References
<1>7. CASE StartApproval(v)
  <2> DEFINE u == job[v].upload
  <2>1. u \in Upload
    BY <1>0, <1>7 DEF StartApproval, ReviewTypes
  <2>2. RowCopy(u) \in Copy /\ ready[u] \in {"unset", "false", "true"}
    BY <2>1, RowCopyType DEF RowTypes
  <2>3. ApprovalStart(u) \in JobPc /\ "failed" \in JobPc
    BY DEF ApprovalStart, JobPc
  <2>4. job' \in [Decider -> JobState]
    BY <1>0, <1>7, <2>1, <2>2, <2>3 DEF StartApproval, ReviewTypes, JobState
  <2>5. \A d \in Decider : job'[d].upload = job[d].upload /\ (d # v => job'[d] = job[d])
    BY <1>0, <1>7 DEF StartApproval, ReviewTypes, JobState
  <2> QED
    BY <1>0, <1>7, <2>1, <2>4, <2>5, ConstantTypes DEF StartApproval, ReviewTypes,
       rowVars, RowTypes, References
<1> QED
  BY <1>2, <1>3, <1>4, <1>5, <1>6, <1>7

\* A rematch changes its upload's row and what the visit knows of it, no more.
LEMMA RematchFrame ==
    ASSUME TypeOK, NEW v \in Visit, ReadForRematch(v) \/ SaveRematch(v)
    PROVE  /\ UNCHANGED <<session, entityVars, requestVars, matchVars, reviewVars>>
           /\ UNCHANGED <<trees, latest, approved, submit, withdraw, match,
                          notified, matched, page, batch, job, decisions, dead>>
BY DEF ReadForRematch, SaveRematch, entityVars, requestVars, matchVars,
   reviewVars

\* What a rematch does to the rows: nothing, or it saves its copy.
LEMMA RematchRows ==
    ASSUME TypeOK, NEW v \in Visit, ReadForRematch(v) \/ SaveRematch(v)
    PROVE  \/ UNCHANGED <<rows, status, ready, revised, original>>
           \/ /\ SaveRematch(v) /\ rematch[v].upload \in Upload
              /\ rematch[v].copy.revised
              /\ CanSave(rematch[v].upload, rematch[v].copy)
              /\ SaveRow(rematch[v].upload, rematch[v].copy, rematch[v].status,
                         "true")
<1>1. rematch[v] \in Rematch
  BY DEF TypeOK, RematchTypes
<1> QED
  BY <1>1 DEF ReadForRematch, SaveRematch, rowVars, Rematch

\* The steps of a rematch.
LEMMA RematchType ==
    ASSUME TypeOK, NEW v \in Visit, ReadForRematch(v) \/ SaveRematch(v)
    PROVE  TypeOK'
<1>1. rematch[v] \in Rematch
  BY DEF TypeOK, RematchTypes
<1>2. /\ EntityTypes' /\ RequestTypes' /\ MatchTypes' /\ ReviewTypes'
      /\ session' \in [Session -> SessionStatus]
  BY RematchFrame DEF TypeOK, EntityTypes, RequestTypes, MatchTypes, ReviewTypes
<1>3. RowTypes' /\ References'
  <2>1. CASE UNCHANGED <<rows, status, ready, revised, original>>
    BY <2>1, RematchFrame DEF TypeOK, RowTypes, References
  <2>2. CASE /\ SaveRematch(v) /\ rematch[v].upload \in Upload
             /\ CanSave(rematch[v].upload, rematch[v].copy)
             /\ SaveRow(rematch[v].upload, rematch[v].copy, rematch[v].status,
                        "true")
    <3>1. rematch[v].copy \in Copy /\ rematch[v].status \in UploadStatus
      BY <1>1 DEF Rematch
    <3> QED
      BY <2>2, <3>1, SaveRowType, RematchFrame
  <2> QED
    BY <2>1, <2>2, RematchRows
<1>4. RematchTypes'
  <2>1. CASE ReadForRematch(v)
    <3>1. job[v].upload \in Upload
      BY <2>1 DEF ReadForRematch, TypeOK, RowTypes
    <3>2. RowCopy(job[v].upload) \in Copy /\ status[job[v].upload] \in UploadStatus
      BY <3>1, RowCopyType DEF TypeOK, RowTypes
    <3> QED
      BY <2>1, <3>1, <3>2 DEF ReadForRematch, TypeOK, RematchTypes, Rematch
  <2>2. CASE SaveRematch(v)
    <3>1. NoRematch \in Rematch
      BY DEF NoRematch, Rematch, UploadStatus, Copy
    <3>2. rematch' \in [Visit -> Rematch]
      BY <2>2, <3>1 DEF SaveRematch, TypeOK, RematchTypes
    <3>3. rematch[v].upload \in Upload
      BY <1>1, <2>2 DEF SaveRematch, Rematch
    <3>4. overwritten' \subseteq Upload
      BY <2>2, <3>3 DEF SaveRematch, TypeOK, RematchTypes
    <3> QED
      BY <3>2, <3>4 DEF RematchTypes
  <2> QED
    BY <2>1, <2>2
<1> QED
  BY <1>2, <1>3, <1>4 DEF TypeOK

\* The steps of an approval or a rejection.
LEMMA JobType ==
    ASSUME TypeOK, NEW d \in Decider, JobStep(d)
    PROVE  TypeOK'
<1> DEFINE u == job[d].upload
<1>0. job[d] \in JobState
  BY DEF TypeOK, RematchTypes, rematchVars, ReviewTypes
<1>1. job[d].pc # "idle" /\ u \in Upload
  BY DEF TypeOK, RematchTypes, rematchVars, ReviewTypes, JobStep, Supersede,
     Repoint, Publish, SaveApproved, SaveRejected, SaveDecision,
     CloseApproved, CloseRejected, CloseSession, DeleteRejected, FinishDecision
<1>2. JobEnd(d) \in JobPc /\ {"repoint", "publish", "save", "close", "finish",
         "rejectClose", "rejectDelete", "done"} \subseteq JobPc
  BY DEF JobEnd, JobPc
<1>3. CASE Supersede(d)
  <2> DEFINE ok == job[d].copy.original \in trees
  <2>1. ReviewTypes'
    <3>1. JobGoesTo(d, ok, "repoint") /\ ok \in BOOLEAN
      BY <1>3 DEF Supersede
    <3> HIDE DEF ok
    <3> QED
      BY <1>1, <1>2, <1>3, <3>1, JobGoesToType DEF Supersede
  <2> QED
    BY <1>3, <2>1 DEF TypeOK, RematchTypes, rematchVars, Supersede,
       EntityTypes, rowVars, requestVars, matchVars, RowTypes, RequestTypes,
       MatchTypes, References
<1>4. CASE Repoint(d)
  <2> DEFINE waiting == {w \in rows \ {u} :
                           /\ original[w] = job[d].copy.original
                           /\ status[w] = ""
                           /\ session[SessionOf[w]] = "Pending"}
             ok == waiting = {} \/ u \in trees
  <2>1. /\ JobGoesTo(d, ok, "publish")
        /\ original' = [w \in Upload |-> IF ok /\ w \in waiting THEN u
                                         ELSE original[w]]
    BY <1>4 DEF Repoint
  <2>2. (ok /\ waiting # {}) => u \in trees
    OBVIOUS
  <2>3. ReviewTypes'
    <3>1. ok \in BOOLEAN
      OBVIOUS
    <3> HIDE DEF ok
    <3> QED
      BY <1>1, <1>2, <1>4, <2>1, <3>1, JobGoesToType DEF Repoint
  <2>4. original' \in [Upload -> Tree \cup {None}]
    BY <1>1, <2>1, ConstantTypes DEF TypeOK, RematchTypes, rematchVars, RowTypes
  <2>5. References'
    <3> SUFFICES ASSUME NEW w \in rows, original'[w] # None
                 PROVE  original'[w] \in trees
      BY <1>4 DEF TypeOK, RematchTypes, rematchVars, Repoint, References, entityVars
    <3>1. w \in Upload
      BY DEF TypeOK, RematchTypes, rematchVars, RowTypes
    <3>2. CASE ok /\ w \in waiting
      BY <2>1, <2>2, <3>1, <3>2
    <3>3. CASE ~ (ok /\ w \in waiting)
      BY <2>1, <3>1, <3>3 DEF TypeOK, RematchTypes, rematchVars, References
    <3> QED
      BY <3>2, <3>3
  <2> QED
    BY <1>4, <2>3, <2>4, <2>5 DEF TypeOK, RematchTypes, rematchVars, Repoint,
       RowTypes, entityVars, requestVars, matchVars, EntityTypes,
       RequestTypes, MatchTypes
<1>5. CASE Publish(d)
  <2>1. ReviewTypes'
    BY <1>1, <1>2, <1>5, JobGoesToType DEF Publish
  <2> QED
    BY <1>5, <2>1 DEF TypeOK, RematchTypes, rematchVars, Publish, EntityTypes,
       rowVars, requestVars, matchVars, RowTypes, RequestTypes, MatchTypes,
       References
<1>6. ASSUME NEW from, NEW newStatus \in UploadStatus, NEW to \in JobPc,
             SaveDecision(d, from, newStatus, to)
      PROVE  TypeOK'
  <2> DEFINE ok == CanSave(u, job[d].copy)
  <2>1. ok \in BOOLEAN
    BY DEF CanSave
  <2>2. job[d].copy \in Copy /\ job[d].ready \in {"unset", "false", "true"}
    BY <1>0 DEF JobState
  <2>3. RowTypes' /\ References'
    <3>1. CASE ok
      BY <1>1, <1>6, <2>2, <3>1, SaveRowType DEF SaveDecision
    <3>2. CASE ~ ok
      BY <1>6, <3>2 DEF TypeOK, RematchTypes, rematchVars, SaveDecision,
         rowVars, entityVars, RowTypes, References
    <3> QED
      BY <3>1, <3>2
  <2>4. ReviewTypes'
    <3>1. JobGoesTo(d, ok, to)
      BY <1>6 DEF SaveDecision
    <3> HIDE DEF ok
    <3> QED
      BY <1>1, <1>6, <2>1, <3>1, JobGoesToType DEF SaveDecision
  <2> QED
    BY <1>6, <2>3, <2>4 DEF TypeOK, RematchTypes, rematchVars, SaveDecision,
       entityVars, requestVars, matchVars, EntityTypes, RequestTypes, MatchTypes
<1>7. CASE SaveApproved(d) \/ SaveRejected(d)
  BY <1>2, <1>6, <1>7 DEF SaveApproved, SaveRejected, UploadStatus
<1>8. ASSUME NEW from, NEW to \in JobPc, CloseSession(d, from, to)
      PROVE  TypeOK'
  <2>1. ReviewTypes'
    BY <1>1, <1>8, JobGoesToType DEF CloseSession
  <2>2. session' \in [Session -> SessionStatus]
    BY <1>8 DEF TypeOK, RematchTypes, rematchVars, CloseSession, SessionStatus
  <2> QED
    BY <1>8, <2>1, <2>2 DEF TypeOK, RematchTypes, rematchVars, CloseSession,
       rowVars, entityVars, requestVars, matchVars, RowTypes, EntityTypes,
       RequestTypes, MatchTypes, References
<1>9. CASE CloseApproved(d) \/ CloseRejected(d)
  BY <1>2, <1>8, <1>9 DEF CloseApproved, CloseRejected
<1>10. CASE DeleteRejected(d)
  <2> DEFINE ok == job[d].copy.revised /\ (d \in Batch \/ u \in trees)
             to == IF d \in Visit THEN "done" ELSE "finish"
  <2>1. JobGoesTo(d, ok, to) /\ ok \in BOOLEAN /\ to \in JobPc
    BY <1>2, <1>10 DEF DeleteRejected
  <2>2. RowTypes' /\ EntityTypes' /\ References'
    BY <1>10, DeleteTreesType DEF DeleteRejected
  <2>3. ReviewTypes'
    <3> HIDE DEF ok, to
    <3> QED
      BY <1>1, <1>10, <2>1, JobGoesToType DEF DeleteRejected
  <2> QED
    BY <1>10, <2>2, <2>3 DEF TypeOK, RematchTypes, rematchVars,
       DeleteRejected, requestVars, matchVars, RequestTypes, MatchTypes
<1>11. CASE FinishDecision(d)
  <2> DEFINE ok == u \in rows
  <2>1. ReviewTypes'
    <3>1. JobGoesTo(d, ok, JobEnd(d)) /\ ok \in BOOLEAN
      BY <1>11 DEF FinishDecision
    <3> HIDE DEF ok
    <3> QED
      BY <1>1, <1>2, <1>11, <3>1, JobGoesToType DEF FinishDecision
  <2> QED
    BY <1>11, <2>1 DEF TypeOK, RematchTypes, rematchVars, FinishDecision,
       rowVars, entityVars, requestVars, matchVars, RowTypes, EntityTypes,
       RequestTypes, MatchTypes, References
<1> QED
  BY <1>3, <1>4, <1>5, <1>7, <1>9, <1>10, <1>11 DEF JobStep

\* The steps of a batch.
LEMMA BatchType ==
    ASSUME TypeOK, NEW b \in Batch,
           \/ \E U \in SUBSET Upload, a \in BOOLEAN : SubmitBatch(b, U, a)
           \/ BatchStep(b)
    PROVE  TypeOK'
<1>0. b \in Decider /\ job[b] \in JobState /\ batch[b] \in BatchState
  BY ConstantTypes DEF TypeOK, RematchTypes, rematchVars, ReviewTypes
<1> USE DEF TypeOK, RematchTypes, rematchVars, rowVars, entityVars,
            requestVars, matchVars, RowTypes, EntityTypes, RequestTypes,
            MatchTypes, References
<1>1. ASSUME NEW U \in SUBSET Upload, NEW a \in BOOLEAN, SubmitBatch(b, U, a)
      PROVE  TypeOK'
  BY <1>1 DEF SubmitBatch, ReviewTypes, BatchState
<1>2. CASE StartBatch(b) \/ FinishBatch(b)
  <2>1. \A st \in {"Processing", "Done"} :
          [batch EXCEPT ![b].status = st] \in [Batch -> BatchState]
    BY <1>0 DEF ReviewTypes, BatchState
  <2>2. batch' \in [Batch -> BatchState]
    BY <1>2, <2>1 DEF StartBatch, FinishBatch
  <2> QED
    BY <1>2, <2>2 DEF StartBatch, FinishBatch, ReviewTypes
<1>3. ASSUME NEW u \in Upload, BatchItem(b, u) PROVE TypeOK'
  <2>1. batch' \in [Batch -> BatchState]
    BY <1>3, ZenonT(40) DEF BatchItem, ReviewTypes, BatchState
  <2>2. ReviewTypes'
    <3>1. CASE Reviewable(u)
      <4> DEFINE pc == IF ~ batch[b].approve THEN "reject"
                       ELSE IF revised[u] THEN ApprovalStart(u) ELSE "failed"
                 kind == IF batch[b].approve THEN "approve" ELSE "reject"
      <4>1. pc \in JobPc /\ kind \in {"approve", "reject", "withdraw"}
        BY DEF ApprovalStart, JobPc
      <4>2. /\ job' = [job EXCEPT ![b] = [pc |-> pc, upload |-> u,
                                         ready |-> ready[u],
                                         copy |-> RowCopy(u)]]
            /\ Decide(u, b, kind)
        BY <1>3, <3>1 DEF BatchItem
      <4> HIDE DEF pc, kind
      <4>3. job' \in [Decider -> JobState]
        BY <1>0, <4>1, <4>2, RowCopyType DEF ReviewTypes, JobState
      <4>4. decisions' \in [Upload -> SUBSET Decision]
        BY <1>0, <4>1, <4>2, DecideType
      <4>5. \A d \in Decider : d # b => job'[d] = job[d]
        BY <4>2 DEF ReviewTypes
      <4>6. job'[b].upload \in Upload
        BY <1>0, <4>2 DEF ReviewTypes
      <4>7. b \notin Visit /\ Visit \subseteq Decider
        BY ReviewAssumption, ConstantTypes
      <4> QED
        BY <1>3, <2>1, <4>3, <4>4, <4>5, <4>6, <4>7 DEF BatchItem, ReviewTypes
    <3>2. CASE ~ Reviewable(u)
      BY <1>3, <2>1, <3>2 DEF BatchItem, ReviewTypes
    <3> QED
      BY <3>1, <3>2
  <2> QED
    BY <1>3, <2>2 DEF BatchItem
<1> QED
  BY <1>1, <1>2, <1>3 DEF BatchStep

\* The steps of a deletion of a session.
LEMMA WithdrawType ==
    ASSUME TypeOK, NEW s \in Session, CheckDeletable(s) \/ WithdrawStep(s)
    PROVE  TypeOK'
<1>1. CASE CheckDeletable(s)
  <2>1. withdraw' \in [Session -> WithdrawPc]
    BY <1>1 DEF TypeOK, RematchTypes, rematchVars, RequestTypes,
       CheckDeletable, WithdrawPc
  <2>2. decisions' \in [Upload -> SUBSET Decision]
    BY <1>1 DEF TypeOK, RematchTypes, rematchVars, ReviewTypes,
       CheckDeletable, Decision
  <2> QED
    BY <1>1, <2>1, <2>2 DEF TypeOK, RematchTypes, rematchVars, CheckDeletable,
       rowVars, entityVars, matchVars, RowTypes, EntityTypes, RequestTypes,
       MatchTypes, ReviewTypes, References
<1>2. CASE DeleteEntities(s)
  <2>1. RowTypes' /\ EntityTypes' /\ References'
    BY <1>2, DeleteTreesType DEF DeleteEntities
  <2>2. withdraw' \in [Session -> WithdrawPc]
    BY <1>2 DEF TypeOK, RematchTypes, rematchVars, RequestTypes,
       DeleteEntities, WithdrawPc
  <2> QED
    BY <1>2, <2>1, <2>2 DEF TypeOK, RematchTypes, rematchVars, DeleteEntities,
       matchVars, reviewVars, RequestTypes, MatchTypes, ReviewTypes
<1>3. CASE DeleteSession(s)
  <2>1. withdraw' \in [Session -> WithdrawPc]
    BY <1>3 DEF TypeOK, RematchTypes, rematchVars, RequestTypes,
       DeleteSession, WithdrawPc
  <2>2. session' \in [Session -> SessionStatus]
    BY <1>3 DEF TypeOK, RematchTypes, rematchVars, DeleteSession, SessionStatus
  <2> QED
    BY <1>3, <2>1, <2>2 DEF TypeOK, RematchTypes, rematchVars, DeleteSession,
       entityVars, matchVars, reviewVars, RowTypes, EntityTypes, RequestTypes,
       MatchTypes, ReviewTypes, References
<1> QED
  BY <1>1, <1>2, <1>3 DEF WithdrawStep

\* The death of a worker.
LEMMA DeathType ==
    ASSUME TypeOK, NEW d \in Decider, WorkerDies(d)
    PROVE  TypeOK'
BY ReviewAssumption DEF TypeOK, RematchTypes, rematchVars, WorkerDies,
   rowVars, entityVars, requestVars, matchVars, RowTypes, EntityTypes,
   RequestTypes, MatchTypes, ReviewTypes, References

\* Every reachable state is well typed, and no foreign key of an upload or
\* flag of a revision dangles, however requests and tasks interleave.
THEOREM TypeCorrect == Spec => []TypeOK
<1>1. Init => TypeOK
  BY InitType
<1>2. ASSUME TypeOK, Next PROVE TypeOK'
  BY <1>2, SubmitType, MatchType, VisitType, JobType, BatchType, WithdrawType,
     DeathType, RematchType DEF Next
<1>3. TypeOK /\ UNCHANGED vars => TypeOK'
  BY DEF TypeOK, vars, rowVars, entityVars, requestVars, matchVars, reviewVars,
     rematchVars, RowTypes, EntityTypes, RequestTypes, MatchTypes, ReviewTypes,
     RematchTypes, References
<1> QED
  BY <1>1, <1>2, <1>3, PTL DEF Spec

-----------------------------------------------------------------------------
(* Only matched uploads are approved                                       *)

\* What each group of steps does to readiness, matching and jobs.
LEMMA ReadinessSubmit ==
    ASSUME TypeOK, ReadinessInv, NEW s \in Session,
           \/ \E U \in SUBSET Upload : CheckReady(s, U)
           \/ SubmitStep(s) \/ CheckDeletable(s) \/ WithdrawStep(s)
    PROVE  ReadinessInv'
<1>1. UNCHANGED <<ready, matched, page, job, rematch>>
  BY DEF CheckReady, SubmitStep, MarkReviewing, DispatchMatching,
     SetSessionReviewing, DropNonSelected, CheckDeletable, WithdrawStep,
     DeleteEntities, DeleteSession, rowVars, matchVars, reviewVars, rematchVars
<1>2. approved' \subseteq approved
  BY DEF CheckReady, SubmitStep, MarkReviewing, DispatchMatching,
     SetSessionReviewing, DropNonSelected, CheckDeletable, WithdrawStep,
     DeleteEntities, DeleteSession, DeleteTrees, entityVars
<1> QED
  BY <1>1, <1>2 DEF ReadinessInv, ApprovedOnlyMatched

LEMMA ReadinessMatch ==
    ASSUME TypeOK, ReadinessInv, NEW u \in Upload, MatchStep(u)
    PROVE  ReadinessInv'
<1>1. UNCHANGED <<page, job, approved, rematch>>
  BY DEF MatchStep, ReadForMatching, StartMatching, SetCodeVersion, FinishMatching,
     NotifyMatched, SaveMatching, entityVars, reviewVars, rematchVars
<1>2. matched \subseteq matched'
  BY DEF MatchStep, ReadForMatching, StartMatching, SetCodeVersion, FinishMatching,
     NotifyMatched
<1>3. \A w \in Upload : ready'[w] = "true" => ready[w] = "true" \/ w \in matched'
  <2>1. CASE ReadForMatching(u) \/ NotifyMatched(u)
    BY <2>1 DEF ReadForMatching, NotifyMatched, rowVars
  <2>2. CASE StartMatching(u) \/ SetCodeVersion(u)
    BY <2>2 DEF TypeOK, RowTypes, StartMatching, SetCodeVersion, SaveMatching,
       SaveRow, rowVars
  <2>3. CASE FinishMatching(u)
    BY <2>3 DEF TypeOK, RowTypes, FinishMatching, SaveMatching, SaveRow, rowVars
  <2> QED
    BY <2>1, <2>2, <2>3 DEF MatchStep
<1> QED
  BY <1>1, <1>2, <1>3 DEF ReadinessInv, ApprovedOnlyMatched

LEMMA ReadinessVisit ==
    ASSUME TypeOK, ReadinessInv, NEW v \in Visit,
           \/ \E u \in Upload : OpenPage(v, u)
           \/ FetchPendingReviews(v) \/ ClickApprove(v)
           \/ SaveProcessingApproval(v) \/ ClickReject(v) \/ StartApproval(v)
    PROVE  ReadinessInv'
<1>0. v \in Decider /\ Visit \subseteq Decider
  BY ConstantTypes
<1>1. UNCHANGED <<ready, matched, approved, rematch>>
  BY DEF OpenPage, FetchPendingReviews, ClickApprove, SaveProcessingApproval,
     ClickReject, StartApproval, rowVars, matchVars, entityVars, rematchVars
<1> SUFFICES /\ \A w \in Visit : page'[w] # "closed" => job'[w].upload \in matched
             /\ \A d \in Decider : job'[d].pc # "idle" => job'[d].upload \in matched
  BY <1>1 DEF ReadinessInv, ApprovedOnlyMatched
<1> USE <1>0 DEF TypeOK, ReviewTypes, JobState, ReadinessInv
<1>2. ASSUME NEW u \in Upload, OpenPage(v, u)
      PROVE  /\ \A w \in Visit : page'[w] # "closed" => job'[w].upload \in matched
             /\ \A d \in Decider : job'[d].pc # "idle" => job'[d].upload \in matched
  BY <1>2 DEF OpenPage
<1>3. CASE FetchPendingReviews(v) \/ SaveProcessingApproval(v)
  BY <1>3 DEF FetchPendingReviews, SaveProcessingApproval
<1>4. CASE ClickApprove(v)
  BY <1>4 DEF ClickApprove
<1>5. CASE ClickReject(v)
  BY <1>5 DEF ClickReject
<1>6. CASE StartApproval(v)
  BY <1>6 DEF StartApproval
<1> QED
  BY <1>2, <1>3, <1>4, <1>5, <1>6

\* A step of a job moves that job on and changes no other field of any job.
LEMMA JobMovesOn ==
    ASSUME TypeOK, NEW d \in Decider, JobStep(d) \/ WorkerDies(d)
    PROVE  /\ \A e \in Decider \ {d} : job'[e] = job[e]
           /\ job'[d].upload = job[d].upload /\ job'[d].copy = job[d].copy
           /\ job'[d].ready = job[d].ready
           /\ job'[d].pc # "idle" => job[d].pc # "idle"
<1> DEFINE Moves == \E pc : job' = [job EXCEPT ![d].pc = pc]
<1>1. CASE Supersede(d) \/ Repoint(d) \/ Publish(d)
  <2>1. Moves
    BY <1>1 DEF Supersede, Repoint, Publish, JobGoesTo
  <2>2. job[d].pc # "idle"
    BY <1>1 DEF Supersede, Repoint, Publish
  <2> QED
    BY <2>1, <2>2 DEF TypeOK, ReviewTypes, JobState
<1>2. CASE \/ SaveApproved(d) \/ SaveRejected(d)
           \/ CloseApproved(d) \/ CloseRejected(d)
  <2>1. Moves
    BY <1>2 DEF SaveApproved, SaveRejected, SaveDecision, CloseApproved,
       CloseRejected, CloseSession, JobGoesTo
  <2>2. job[d].pc # "idle"
    BY <1>2 DEF SaveApproved, SaveRejected, SaveDecision, CloseApproved,
       CloseRejected, CloseSession
  <2> QED
    BY <2>1, <2>2 DEF TypeOK, ReviewTypes, JobState
<1>3. CASE DeleteRejected(d) \/ FinishDecision(d)
  <2>1. Moves
    BY <1>3 DEF DeleteRejected, FinishDecision, JobGoesTo
  <2>2. job[d].pc # "idle"
    BY <1>3 DEF DeleteRejected, FinishDecision
  <2> QED
    BY <2>1, <2>2 DEF TypeOK, ReviewTypes, JobState
<1>4. CASE WorkerDies(d)
  BY <1>4 DEF WorkerDies
<1> QED
  BY <1>1, <1>2, <1>3, <1>4 DEF JobStep

LEMMA ReadinessJob ==
    ASSUME TypeOK, ReadinessInv, NEW d \in Decider, JobStep(d) \/ WorkerDies(d)
    PROVE  ReadinessInv'
<1> DEFINE u == job[d].upload
<1>1. UNCHANGED <<matched, page, rematch>>
  BY DEF JobStep, WorkerDies, Supersede, Repoint, Publish, SaveApproved,
     SaveRejected, SaveDecision, CloseApproved, CloseRejected, CloseSession,
     DeleteRejected, FinishDecision, matchVars, rematchVars
<1>2. WorkerDies(d) \/ u \in matched
  BY DEF ReadinessInv, JobStep, Supersede, Repoint, Publish, SaveApproved,
     SaveRejected, SaveDecision, CloseApproved, CloseRejected, CloseSession,
     DeleteRejected, FinishDecision
<1>3. \A w \in Upload : ready'[w] = "true" => ready[w] = "true" \/ w \in matched
  BY <1>2 DEF TypeOK, RowTypes, JobStep, WorkerDies, Supersede, Repoint, Publish,
     SaveApproved, SaveRejected, SaveDecision, CloseApproved, CloseRejected,
     CloseSession, DeleteRejected, FinishDecision, SaveRow, rowVars
<1>4. approved' \subseteq approved \cup {u} /\ (WorkerDies(d) => approved' = approved)
  BY DEF JobStep, WorkerDies, Supersede, Repoint, Publish, SaveApproved,
     SaveRejected, SaveDecision, CloseApproved, CloseRejected, CloseSession,
     DeleteRejected, FinishDecision, DeleteTrees, entityVars
<1>5. \A e \in Decider : /\ job'[e].upload = job[e].upload
                         /\ job'[e].pc # "idle" => job[e].pc # "idle"
  BY JobMovesOn
<1> QED
  BY <1>1, <1>2, <1>3, <1>4, <1>5, ConstantTypes
     DEF ReadinessInv, ApprovedOnlyMatched

LEMMA ReadinessBatch ==
    ASSUME TypeOK, ReadinessInv, NEW b \in Batch,
           \/ \E U \in SUBSET Upload, a \in BOOLEAN : SubmitBatch(b, U, a)
           \/ BatchStep(b)
    PROVE  ReadinessInv'
<1>1. UNCHANGED <<ready, matched, approved, page, rematch>>
  BY DEF SubmitBatch, BatchStep, StartBatch, BatchItem, FinishBatch, rowVars,
     matchVars, entityVars, rematchVars
<1>2. \A d \in Decider : \/ job'[d] = job[d]
                         \/ d = b /\ job'[d].upload \in matched
  BY DEF TypeOK, ReviewTypes, JobState, ReadinessInv, SubmitBatch, BatchStep,
     StartBatch, BatchItem, FinishBatch, Reviewable
<1>3. b \notin Visit /\ Visit \subseteq Decider
  BY ReviewAssumption, ConstantTypes
<1> QED
  BY <1>1, <1>2, <1>3 DEF ReadinessInv, ApprovedOnlyMatched

LEMMA ReadinessRematch ==
    ASSUME TypeOK, ReadinessInv, NEW v \in Visit,
           ReadForRematch(v) \/ SaveRematch(v)
    PROVE  ReadinessInv'
<1>1. UNCHANGED <<matched, page, job, approved>>
  BY RematchFrame
<1>2. \A w \in Visit : rematch'[w].upload \in matched \cup {None}
  <2>1. CASE ReadForRematch(v)
    <3>1. job[v].upload \in matched
      BY <2>1 DEF ReadForRematch, ReadinessInv
    <3> QED
      BY <2>1, <3>1 DEF ReadForRematch, TypeOK, RematchTypes, ReadinessInv
  <2>2. CASE SaveRematch(v)
    BY <2>2 DEF SaveRematch, NoRematch, TypeOK, RematchTypes, ReadinessInv
  <2> QED
    BY <2>1, <2>2
<1>3. \A u \in Upload : ready'[u] = "true" => u \in matched
  <2>1. rematch[v].upload # None => rematch[v].upload \in matched
    BY DEF ReadinessInv
  <2> QED
    BY <2>1, RematchRows, ReviewAssumption
       DEF SaveRow, TypeOK, RowTypes, ReadinessInv
<1> QED
  BY <1>1, <1>2, <1>3 DEF ReadinessInv, ApprovedOnlyMatched

\* What the review page, the batches and the jobs hold about readiness is true
\* in every reachable state.
THEOREM ReadinessInvariant == Spec => []ReadinessInv
<1>1. Init => ReadinessInv
  <2> SUFFICES ASSUME Init PROVE ReadinessInv
    OBVIOUS
  <2> QED
    BY ConstantTypes DEF Init, NoRematch, ReadinessInv, ApprovedOnlyMatched
<1>2. ASSUME TypeOK, ReadinessInv, Next PROVE ReadinessInv'
  BY <1>2, ReadinessSubmit, ReadinessMatch, ReadinessVisit, ReadinessJob,
     ReadinessBatch, ReadinessRematch DEF Next
<1>3. ReadinessInv /\ UNCHANGED vars => ReadinessInv'
  BY DEF ReadinessInv, ApprovedOnlyMatched, vars, rowVars, entityVars, matchVars,
     reviewVars, rematchVars
<1> QED
  BY <1>1, <1>2, <1>3, TypeCorrect, PTL DEF Spec

\* Nothing that was not matched to the end is ever approved, for any number of
\* uploads, reviewers and batches.
THEOREM OnlyMatchedApproved == Spec => []ApprovedOnlyMatched
<1>1. ReadinessInv => ApprovedOnlyMatched
  BY DEF ReadinessInv
<1> QED
  BY <1>1, ReadinessInvariant, PTL

-----------------------------------------------------------------------------
(* A revision is current only after the one it revises was retired         *)

\* With ReadinessInv, whatever is reviewed or decided on is validated.
LEMMA DecidedValidated ==
    ASSUME TypeOK, ReadinessInv, OriginalKept
    PROVE  /\ matched \subseteq Validated
           /\ \A u \in Upload : ready[u] = "true" => u \in Validated
           /\ \A v \in Visit : page[v] # "closed" => job[v].upload \in Validated
           /\ \A d \in Decider : job[d].pc # "idle" => job[d].upload \in Validated
BY DEF TypeOK, MatchTypes, ReadinessInv, OriginalKept

LEMMA RetirementSubmit ==
    ASSUME TypeOK, RetirementInv, NEW s \in Session,
           \/ \E U \in SUBSET Upload : CheckReady(s, U)
           \/ SubmitStep(s) \/ CheckDeletable(s) \/ WithdrawStep(s)
    PROVE  RetirementInv'
<1>1. UNCHANGED <<original, matched, page, job>>
  BY DEF CheckReady, SubmitStep, MarkReviewing, DispatchMatching,
     SetSessionReviewing, DropNonSelected, CheckDeletable, WithdrawStep,
     DeleteEntities, DeleteSession, rowVars, matchVars, reviewVars
<1>2. latest' \subseteq latest /\ approved' \subseteq approved
  BY DEF CheckReady, SubmitStep, MarkReviewing, DispatchMatching,
     SetSessionReviewing, DropNonSelected, CheckDeletable, WithdrawStep,
     DeleteEntities, DeleteSession, DeleteTrees, entityVars
<1>3. \A t \in Session : submit'[t].selected \subseteq Validated
  <2>1. ASSUME NEW U \in SUBSET Upload, CheckReady(s, U)
        PROVE  \A t \in Session : submit'[t].selected \subseteq Validated
    <3>1. ASSUME NEW u \in U PROVE u \in Validated
      <4>1. u \in Upload /\ (status[u] = "Valid" \/ u \in Lenient)
        BY <2>1 DEF CheckReady, ReviewAllowed, Importable
      <4>2. u \notin Validated => status[u] = ""
        BY <4>1 DEF RetirementInv, OriginalKept
      <4> QED
        BY <4>1, <4>2, ReviewAssumption
    <3> QED
      BY <2>1, <3>1 DEF CheckReady, TypeOK, RequestTypes, RetirementInv,
         OriginalKept
  <2>2. CASE SubmitStep(s)
    <3>1. \E pc : submit' = [submit EXCEPT ![s].pc = pc]
      BY <2>2 DEF SubmitStep, MarkReviewing, DispatchMatching,
         SetSessionReviewing, DropNonSelected
    <3>2. \A t \in Session : submit'[t].selected = submit[t].selected
      BY <3>1 DEF TypeOK, RequestTypes
    <3> QED
      BY <3>2 DEF RetirementInv, OriginalKept
  <2>3. CASE CheckDeletable(s) \/ WithdrawStep(s)
    BY <2>3 DEF CheckDeletable, WithdrawStep, DeleteEntities, DeleteSession,
       RetirementInv, OriginalKept
  <2> QED
    BY <2>1, <2>2, <2>3
<1>4. \A u \in Upload :
        /\ status'[u] = status[u] \/ (u \in Validated /\ status'[u] = "Reviewing")
        /\ \/ match'[u] = match[u]
           \/ /\ u \in Validated /\ match'[u].copy = match[u].copy
              /\ match'[u].pc = "queued"
  <2> TAKE u \in Upload
  <2>0. submit[s].selected \subseteq Validated
    BY DEF RetirementInv, OriginalKept
  <2>1. CASE MarkReviewing(s)
    BY <2>0, <2>1 DEF MarkReviewing, matchVars
  <2>2. CASE DispatchMatching(s)
    <3>1. match[u] \in [pc : MatchPc, status : UploadStatus, copy : Copy]
      BY DEF TypeOK, MatchTypes
    <3>2. status' = status
      BY <2>2 DEF DispatchMatching, rowVars
    <3>3. match'[u] = IF u \in submit[s].selected \cap rows
                      THEN [match[u] EXCEPT !.pc = "queued"] ELSE match[u]
      BY <2>2 DEF DispatchMatching
    <3> QED
      BY <2>0, <3>1, <3>2, <3>3
  <2>3. CASE ~ MarkReviewing(s) /\ ~ DispatchMatching(s)
    <3>1. UNCHANGED <<status, match>>
      BY <2>3 DEF CheckReady, SubmitStep, SetSessionReviewing, DropNonSelected,
         CheckDeletable, WithdrawStep, DeleteEntities, DeleteSession, rowVars,
         matchVars
    <3> QED
      BY <3>1
  <2> QED
    BY <2>1, <2>2, <2>3
<1>5. OriginalKept'
  <2>1. ASSUME NEW u \in Validated
        PROVE  /\ original'[u] = OriginalOf[u] /\ status'[u] # ""
               /\ match'[u].copy.original = OriginalOf[u]
               /\ match'[u].pc \notin {"none", "queued"} => match'[u].status # ""
    <3>1. u \in Upload
      BY ConstantTypes
    <3>2. /\ original[u] = OriginalOf[u] /\ status[u] # ""
          /\ match[u].copy.original = OriginalOf[u]
          /\ match[u].pc \notin {"none", "queued"} => match[u].status # ""
      BY DEF RetirementInv, OriginalKept
    <3> QED
      BY <1>1, <1>4, <3>1, <3>2
  <2>2. ASSUME NEW u \in Upload \ Validated
        PROVE  status'[u] = "" /\ match'[u].pc = "none" /\ u \notin matched'
    BY <1>1, <1>4, ZenonT(40) DEF RetirementInv, OriginalKept
  <2> QED
    BY <1>1, <1>3, <2>1, <2>2 DEF RetirementInv, OriginalKept
<1> QED
  BY <1>1, <1>2, <1>5 DEF RetirementInv, Current

LEMMA RetirementMatch ==
    ASSUME TypeOK, RetirementInv, NEW u \in Upload, MatchStep(u)
    PROVE  RetirementInv'
<1>1. UNCHANGED <<submit, page, job, latest, approved>>
  BY DEF MatchStep, ReadForMatching, StartMatching, SetCodeVersion, FinishMatching,
     NotifyMatched, SaveMatching, entityVars, requestVars, reviewVars
<1>2. u \in Validated
  BY DEF MatchStep, ReadForMatching, StartMatching, SetCodeVersion, FinishMatching,
     NotifyMatched, RetirementInv, OriginalKept
<1>3. matched' \subseteq matched \cup {u}
  BY DEF MatchStep, ReadForMatching, StartMatching, SetCodeVersion, FinishMatching,
     NotifyMatched
<1>4. \A w \in Upload \ {u} : /\ original'[w] = original[w] /\ status'[w] = status[w]
                             /\ match'[w] = match[w]
  <2>1. CASE ReadForMatching(u) \/ NotifyMatched(u)
    BY <2>1 DEF ReadForMatching, NotifyMatched, MatchGoesTo, rowVars, TypeOK,
       MatchTypes
  <2>2. CASE StartMatching(u) \/ SetCodeVersion(u) \/ FinishMatching(u)
    <3>1. \/ SaveMatching(u, CanSave(u, match[u].copy), "false", "started")
          \/ SaveMatching(u, match[u].copy.revised /\ CanSave(u, match[u].copy),
                          "false", "versioned")
          \/ SaveMatching(u, u \in rows /\ CanSave(u, match[u].copy), "true", "saved")
      BY <2>2 DEF StartMatching, SetCodeVersion, FinishMatching
    <3>2. \E pc : match' = [match EXCEPT ![u].pc = pc]
      BY <3>1 DEF SaveMatching, MatchGoesTo
    <3>3. \/ UNCHANGED <<original, status>>
          \/ \E o, t : /\ original' = [original EXCEPT ![u] = o]
                       /\ status' = [status EXCEPT ![u] = t]
      BY <3>1 DEF SaveMatching, SaveRow, rowVars
    <3> QED
      BY <3>2, <3>3 DEF TypeOK, RowTypes, MatchTypes
  <2> QED
    BY <2>1, <2>2 DEF MatchStep
<1>5. /\ original'[u] = OriginalOf[u] /\ status'[u] # ""
      /\ match'[u].copy.original = OriginalOf[u]
      /\ match'[u].pc \notin {"none", "queued"} => match'[u].status # ""
  <2>1. /\ original[u] = OriginalOf[u] /\ status[u] # ""
        /\ match[u].copy.original = OriginalOf[u]
        /\ match[u].pc \notin {"none", "queued"} => match[u].status # ""
    BY <1>2 DEF RetirementInv, OriginalKept
  <2>2. CASE ReadForMatching(u)
    BY <2>1, <2>2 DEF ReadForMatching, RowCopy, rowVars, TypeOK, MatchTypes
  <2>3. CASE NotifyMatched(u)
    BY <2>1, <2>3 DEF NotifyMatched, MatchGoesTo, rowVars, TypeOK, MatchTypes
  <2>4. CASE StartMatching(u) \/ SetCodeVersion(u) \/ FinishMatching(u)
    <3>1. match[u].pc \notin {"none", "queued"}
      BY <2>4 DEF StartMatching, SetCodeVersion, FinishMatching
    <3>2. /\ original'[u] = OriginalOf[u] /\ status'[u] # ""
      BY <2>1, <2>4, <3>1 DEF StartMatching, SetCodeVersion, FinishMatching,
         SaveMatching, SaveRow, rowVars, TypeOK, RowTypes
    <3>3. match'[u].copy = match[u].copy /\ match'[u].status = match[u].status
      BY <2>4 DEF StartMatching, SetCodeVersion, FinishMatching, SaveMatching,
         MatchGoesTo, TypeOK, MatchTypes
    <3> QED
      BY <2>1, <3>1, <3>2, <3>3
  <2> QED
    BY <2>2, <2>3, <2>4 DEF MatchStep
<1>6. OriginalKept'
  <2>1. ASSUME NEW w \in Validated
        PROVE  /\ original'[w] = OriginalOf[w] /\ status'[w] # ""
               /\ match'[w].copy.original = OriginalOf[w]
               /\ match'[w].pc \notin {"none", "queued"} => match'[w].status # ""
    <3>1. CASE w = u
      BY <1>5, <3>1
    <3>2. CASE w # u
      <4>1. w \in Upload \ {u}
        BY <3>2, ConstantTypes
      <4>2. /\ original[w] = OriginalOf[w] /\ status[w] # ""
            /\ match[w].copy.original = OriginalOf[w]
            /\ match[w].pc \notin {"none", "queued"} => match[w].status # ""
        BY DEF RetirementInv, OriginalKept
      <4> QED
        BY <1>4, <4>1, <4>2
    <3> QED
      BY <3>1, <3>2
  <2>2. ASSUME NEW w \in Upload \ Validated
        PROVE  status'[w] = "" /\ match'[w].pc = "none" /\ w \notin matched'
    <3>1. w \in Upload \ {u}
      BY <1>2
    <3> QED
      BY <1>3, <1>4, <3>1 DEF RetirementInv, OriginalKept
  <2> QED
    BY <1>1, <2>1, <2>2 DEF RetirementInv, OriginalKept
<1> QED
  BY <1>1, <1>6 DEF RetirementInv, Current

\* What RetirementInv says of one job.
JobRetires(d) ==
    LET u == job[d].upload
    IN  /\ job[d].pc \notin {"idle", "queued"} => job[d].copy.original = OriginalOf[u]
        /\ job[d].pc \in {"repoint", "publish"} /\ Current(u) /\ OriginalOf[u] # None
             => OriginalOf[u] \notin latest

\* A job that has just read a validated upload respects RetirementInv.
LEMMA FreshJob ==
    ASSUME TypeOK, RetirementInv, NEW d \in Decider, NEW u \in Validated,
           job'[d].upload = u, job'[d].copy = RowCopy(u),
           job'[d].pc \in {"reject", "failed", ApprovalStart(u)}
    PROVE  JobRetires(d)'
<1>1. original[u] = OriginalOf[u]
  BY DEF RetirementInv, OriginalKept
<1>2. job'[d].copy.original = OriginalOf[u]
  BY <1>1 DEF RowCopy
<1>3. job'[d].pc = "publish" => ~ Current(u) \/ OriginalOf[u] = None
  BY <1>1 DEF ApprovalStart, Current
<1>4. job'[d].pc # "repoint"
  BY DEF ApprovalStart
<1> QED
  BY <1>2, <1>3, <1>4 DEF JobRetires, Current

LEMMA RetirementVisit ==
    ASSUME TypeOK, ReadinessInv, RetirementInv, NEW v \in Visit,
           \/ \E u \in Upload : OpenPage(v, u)
           \/ FetchPendingReviews(v) \/ ClickApprove(v)
           \/ SaveProcessingApproval(v) \/ ClickReject(v) \/ StartApproval(v)
    PROVE  RetirementInv'
<1>0. v \in Decider /\ Visit \subseteq Decider /\ job[v] \in JobState
  BY ConstantTypes DEF TypeOK, ReviewTypes
<1>1. UNCHANGED <<original, match, matched, submit, latest, approved>>
  BY DEF OpenPage, FetchPendingReviews, ClickApprove, SaveProcessingApproval,
     ClickReject, StartApproval, rowVars, matchVars, entityVars, requestVars
<1>2. page[v] # "closed" \/ job[v].pc # "idle" => job[v].upload \in Validated
  BY <1>0, DecidedValidated DEF RetirementInv
<1>3. \A u \in Upload :
         (status'[u] = status[u])
         \/ (u \in Validated /\ status'[u] = "Processing_Approval")
  <2>1. CASE SaveProcessingApproval(v)
    BY <1>2, <2>1 DEF SaveProcessingApproval
  <2>2. CASE ~ SaveProcessingApproval(v)
    <3>1. status' = status
      BY <2>2 DEF OpenPage, FetchPendingReviews, ClickApprove, ClickReject,
         StartApproval, rowVars
    <3> QED
      BY <3>1
  <2> QED
    BY <2>1, <2>2
<1>4. \A d \in Decider \ {v} : job'[d] = job[d]
  BY DEF OpenPage, FetchPendingReviews, ClickApprove, SaveProcessingApproval,
     ClickReject, StartApproval, TypeOK, ReviewTypes
<1>5. \A w \in Visit \ {v} : page'[w] = page[w]
  BY DEF OpenPage, FetchPendingReviews, ClickApprove, SaveProcessingApproval,
     ClickReject, StartApproval, TypeOK, ReviewTypes
<1>6. /\ page'[v] = "closed" => job'[v].pc = "idle"
      /\ JobRetires(v)'
  <2>0. /\ page[v] = "closed" => job[v].pc = "idle"
        /\ JobRetires(v)
    BY <1>0 DEF RetirementInv, OriginalKept, JobRetires
  <2>1. ASSUME NEW u \in Upload, OpenPage(v, u)
        PROVE  page'[v] # "closed" /\ job'[v].pc = "idle"
    BY <1>0, <2>0, <2>1 DEF OpenPage, TypeOK, ReviewTypes, JobState
  <2>2. CASE FetchPendingReviews(v) \/ SaveProcessingApproval(v)
    <3>1. page'[v] # "closed" /\ job' = job
      BY <2>2 DEF FetchPendingReviews, SaveProcessingApproval, TypeOK, ReviewTypes
    <3> QED
      BY <1>1, <2>0, <3>1 DEF JobRetires, Current
  <2>3. CASE ClickApprove(v)
    <3>1. page'[v] # "closed" /\ job'[v].pc = "queued"
      BY <1>0, <2>3 DEF ClickApprove, TypeOK, ReviewTypes, JobState
    <3> QED
      BY <3>1 DEF JobRetires
  <2>4. CASE ClickReject(v)
    <3> DEFINE u == job[v].upload
    <3>1. /\ page'[v] # "closed" /\ u \in Validated
          /\ job'[v].upload = u /\ job'[v].copy = RowCopy(u)
          /\ job'[v].pc = "reject"
      BY <1>0, <1>2, <2>4 DEF ClickReject, TypeOK, ReviewTypes
    <3> QED
      BY <1>0, <3>1, FreshJob
  <2>5. CASE StartApproval(v)
    <3> DEFINE u == job[v].upload
    <3>1. /\ job[v].pc # "idle" /\ page' = page /\ u \in Validated
          /\ job'[v].upload = u /\ job'[v].copy = RowCopy(u)
          /\ job'[v].pc \in {"failed", ApprovalStart(u)}
      BY <1>0, <1>2, <2>5 DEF StartApproval, TypeOK, ReviewTypes
    <3>2. JobRetires(v)'
      BY <1>0, <3>1, FreshJob
    <3> QED
      BY <2>0, <3>1, <3>2
  <2> QED
    BY <2>1, <2>2, <2>3, <2>4, <2>5 DEF JobRetires
<1>7. \A d \in Decider : JobRetires(d)'
  <2>1. \A d \in Decider : JobRetires(d)
    BY DEF RetirementInv, OriginalKept, JobRetires
  <2> QED
    BY <1>1, <1>4, <1>6, <2>1 DEF JobRetires, Current
<1>8. OriginalKept'
  <2>1. \A u \in Validated : status'[u] # ""
    BY <1>3, ConstantTypes DEF RetirementInv, OriginalKept
  <2>2. \A u \in Upload \ Validated : status'[u] = ""
    BY <1>3 DEF RetirementInv, OriginalKept
  <2>3. \A w \in Visit : page'[w] = "closed" => job'[w].pc = "idle"
    BY <1>0, <1>4, <1>5, <1>6 DEF RetirementInv, OriginalKept
  <2>4. \A d \in Decider : job'[d].pc \notin {"idle", "queued"} =>
                           job'[d].copy.original = OriginalOf[job'[d].upload]
    BY <1>7 DEF JobRetires
  <2> QED
    BY <1>1, <2>1, <2>2, <2>3, <2>4 DEF RetirementInv, OriginalKept
<1> QED
  BY <1>1, <1>7, <1>8 DEF RetirementInv, JobRetires, Current

LEMMA RetirementBatch ==
    ASSUME TypeOK, ReadinessInv, RetirementInv, NEW b \in Batch,
           \/ \E U \in SUBSET Upload, a \in BOOLEAN : SubmitBatch(b, U, a)
           \/ BatchStep(b)
    PROVE  RetirementInv'
<1>0. b \in Decider /\ b \notin Visit /\ Visit \subseteq Decider
  BY ReviewAssumption, ConstantTypes
<1>1. UNCHANGED <<original, status, match, matched, submit, latest, approved, page>>
  BY DEF SubmitBatch, BatchStep, StartBatch, BatchItem, FinishBatch, rowVars,
     matchVars, entityVars, requestVars
<1>2. \A d \in Decider \ {b} : job'[d] = job[d]
  BY DEF SubmitBatch, BatchStep, StartBatch, BatchItem, FinishBatch, TypeOK,
     ReviewTypes
<1>3. JobRetires(b)'
  <2>1. ASSUME NEW u \in Upload, BatchItem(b, u), Reviewable(u)
        PROVE  JobRetires(b)'
    <3>1. u \in Validated
      BY <2>1, DecidedValidated DEF Reviewable, RetirementInv
    <3>2. /\ job'[b].upload = u /\ job'[b].copy = RowCopy(u)
          /\ job'[b].pc \in {"reject", "failed", ApprovalStart(u)}
      BY <1>0, <2>1 DEF BatchItem, TypeOK, ReviewTypes
    <3> QED
      BY <1>0, <3>1, <3>2, FreshJob
  <2>2. CASE UNCHANGED job
    <3>1. JobRetires(b)
      BY <1>0 DEF RetirementInv, OriginalKept, JobRetires
    <3> QED
      BY <1>1, <2>2, <3>1 DEF JobRetires, Current
  <2>3. \/ UNCHANGED job
        \/ \E u \in Upload : BatchItem(b, u) /\ Reviewable(u)
    BY DEF SubmitBatch, BatchStep, StartBatch, BatchItem, FinishBatch
  <2> QED
    BY <2>1, <2>2, <2>3
<1>4. \A d \in Decider : JobRetires(d)'
  <2>1. \A d \in Decider : JobRetires(d)
    BY DEF RetirementInv, OriginalKept, JobRetires
  <2> QED
    BY <1>1, <1>2, <1>3, <2>1 DEF JobRetires, Current
<1>5. OriginalKept'
  <2>1. \A d \in Decider : job'[d].pc \notin {"idle", "queued"} =>
                           job'[d].copy.original = OriginalOf[job'[d].upload]
    BY <1>4 DEF JobRetires
  <2>2. \A w \in Visit : page'[w] = "closed" => job'[w].pc = "idle"
    BY <1>0, <1>1, <1>2 DEF RetirementInv, OriginalKept
  <2> QED
    BY <1>1, <2>1, <2>2 DEF RetirementInv, OriginalKept
<1> QED
  BY <1>1, <1>4, <1>5 DEF RetirementInv, JobRetires, Current

LEMMA RetirementJob ==
    ASSUME TypeOK, ReadinessInv, RetirementInv, NEW d \in Decider,
           JobStep(d) \/ WorkerDies(d)
    PROVE  RetirementInv'
<1> DEFINE u == job[d].upload
<1>0. Visit \subseteq Decider
  BY ConstantTypes
<1>1. UNCHANGED <<match, matched, submit, page>>
  BY DEF JobStep, WorkerDies, Supersede, Repoint, Publish, SaveApproved,
     SaveRejected, SaveDecision, CloseApproved, CloseRejected, CloseSession,
     DeleteRejected, FinishDecision, matchVars, requestVars
<1>2. job[d].pc \notin {"idle", "queued"}
  BY DEF JobStep, WorkerDies, Supersede, Repoint, Publish, SaveApproved,
     SaveRejected, SaveDecision, CloseApproved, CloseRejected, CloseSession,
     DeleteRejected, FinishDecision
<1>3. /\ u \in Validated /\ u \in Upload
      /\ original[u] = OriginalOf[u] /\ status[u] # ""
      /\ job[d].copy.original = OriginalOf[u]
      /\ OriginalOf[u] # u
  <2>1. u \in Validated /\ u \in Upload
    BY <1>2, DecidedValidated, ConstantTypes DEF RetirementInv
  <2>2. OriginalOf[u] # u
    BY <2>1, ReviewAssumption
  <2> QED
    BY <1>2, <2>1, <2>2 DEF RetirementInv, OriginalKept
<1>4. \A w \in Upload :
         /\ (original'[w] = original[w]) \/ (status[w] = "")
         /\ (status'[w] = status[w]) \/ (w = u /\ status'[w] # "")
  <2>1. CASE Repoint(d)
    BY <2>1 DEF Repoint
  <2>2. CASE SaveApproved(d) \/ SaveRejected(d)
    BY <1>3, <2>2 DEF SaveApproved, SaveRejected, SaveDecision, SaveRow, rowVars,
       TypeOK, RowTypes
  <2>3. CASE ~ (Repoint(d) \/ SaveApproved(d) \/ SaveRejected(d))
    <3>1. UNCHANGED <<original, status>>
      BY <2>3 DEF JobStep, WorkerDies, Supersede, Publish, CloseApproved,
         CloseRejected, CloseSession, DeleteRejected, FinishDecision, rowVars
    <3> QED
      BY <3>1
  <2> QED
    BY <2>1, <2>2, <2>3
<1>5. latest' \subseteq latest \cup {u}
  BY DEF JobStep, WorkerDies, Supersede, Repoint, Publish, SaveApproved,
     SaveRejected, SaveDecision, CloseApproved, CloseRejected, CloseSession,
     DeleteRejected, FinishDecision, DeleteTrees, entityVars
<1>6. approved' \subseteq approved
      \/ (approved' \subseteq approved \cup {u} /\ job[d].pc = "publish")
  BY DEF JobStep, WorkerDies, Supersede, Repoint, Publish, SaveApproved,
     SaveRejected, SaveDecision, CloseApproved, CloseRejected, CloseSession,
     DeleteRejected, FinishDecision, DeleteTrees, entityVars
<1>7. /\ job'[d].pc = "repoint" => job[d].pc = "repoint" \/ OriginalOf[u] \notin latest'
      /\ job'[d].pc = "publish" => job[d].pc \in {"repoint", "publish"}
  <2>1. CASE Supersede(d)
    <3>1. job'[d].pc \in {"repoint", "failed"}
      BY <2>1 DEF Supersede, JobGoesTo, TypeOK, ReviewTypes, JobState
    <3> QED
      BY <1>3, <2>1, <3>1 DEF Supersede
  <2>2. CASE Repoint(d)
    <3>1. job[d].pc = "repoint"
      BY <2>2 DEF Repoint
    <3> QED
      BY <3>1
  <2>3. CASE WorkerDies(d)
    BY <2>3 DEF WorkerDies
  <2>4. CASE ~ (Supersede(d) \/ Repoint(d) \/ WorkerDies(d))
    <3>1. \E pc \in {"save", "close", "finish", "rejectClose", "rejectDelete",
                    "done", "idle", "failed"} : job' = [job EXCEPT ![d].pc = pc]
      BY <2>4 DEF JobStep, Publish, SaveApproved, SaveRejected, SaveDecision,
         CloseApproved, CloseRejected, CloseSession, DeleteRejected,
         FinishDecision, JobGoesTo, JobEnd
    <3> QED
      BY <3>1 DEF TypeOK, ReviewTypes, JobState
  <2> QED
    BY <2>1, <2>2, <2>3, <2>4
<1>8. \A e \in Decider : JobRetires(e)'
  <2>1. ASSUME NEW e \in Decider PROVE JobRetires(e)
    BY DEF RetirementInv, OriginalKept, JobRetires
  <2>2. JobRetires(d)'
    <3>1. job'[d].upload = u /\ job'[d].copy = job[d].copy
      BY JobMovesOn
    <3>2. ASSUME job'[d].pc \in {"repoint", "publish"}, Current(u),
                 OriginalOf[u] # None
          PROVE  OriginalOf[u] \notin latest'
      BY <1>3, <1>5, <1>7, <2>1, <3>2 DEF JobRetires
    <3> QED
      BY <1>3, <3>1, <3>2 DEF JobRetires, Current
  <2>3. ASSUME NEW e \in Decider \ {d} PROVE JobRetires(e)'
    <3>1. job'[e] = job[e]
      BY JobMovesOn
    <3>2. ASSUME job[e].pc # "idle" PROVE OriginalOf[job[e].upload] # u
      <4>1. job[e].upload \in Upload
        BY <3>2, DecidedValidated, ConstantTypes DEF RetirementInv
      <4> QED
        BY <1>3, <4>1, ReviewAssumption
    <3> QED
      BY <1>5, <2>1, <3>1, <3>2 DEF JobRetires, Current
  <2> QED
    BY <2>2, <2>3
<1>9. OriginalKept'
  <2>1. \A w \in Validated : original'[w] = OriginalOf[w] /\ status'[w] # ""
    BY <1>4, ConstantTypes DEF RetirementInv, OriginalKept
  <2>2. \A w \in Upload \ Validated : status'[w] = ""
    BY <1>3, <1>4 DEF RetirementInv, OriginalKept
  <2>3. \A w \in Visit : page'[w] = "closed" => job'[w].pc = "idle"
    <3>1. \A e \in Decider : job[e].pc = "idle" => job'[e] = job[e]
      BY <1>2, JobMovesOn
    <3> QED
      BY <1>0, <1>1, <3>1 DEF RetirementInv, OriginalKept
  <2>4. \A e \in Decider : job'[e].pc \notin {"idle", "queued"} =>
                           job'[e].copy.original = OriginalOf[job'[e].upload]
    BY <1>8 DEF JobRetires
  <2> QED
    BY <1>1, <2>1, <2>2, <2>3, <2>4 DEF RetirementInv, OriginalKept
<1>10. ASSUME NEW w \in approved' \cap Upload, Current(w), OriginalOf[w] # None
       PROVE  OriginalOf[w] \notin latest'
  <2>1. OriginalOf[w] # u
    BY <1>3, <1>10, ReviewAssumption
  <2>2. OriginalOf[w] \notin latest
    <3>1. CASE w \in approved
      BY <1>10, <3>1 DEF RetirementInv
    <3>2. CASE w = u /\ job[d].pc = "publish"
      BY <1>10, <3>2 DEF RetirementInv
    <3> QED
      BY <1>6, <1>10, <3>1, <3>2
  <2> QED
    BY <1>5, <2>1, <2>2
<1> QED
  BY <1>8, <1>9, <1>10 DEF RetirementInv, JobRetires, Current

\* Only a rematch touches what visits know of their rematches.
LEMMA RematchOnly ==
    ASSUME Next
    PROVE  \/ UNCHANGED <<rematch, overwritten>>
           \/ \E v \in Visit : ReadForRematch(v) \/ SaveRematch(v)
BY DEF Next, CheckReady, SubmitStep, MarkReviewing, DispatchMatching,
   SetSessionReviewing, DropNonSelected, CheckDeletable, WithdrawStep,
   DeleteEntities, DeleteSession, MatchStep, ReadForMatching, StartMatching,
   SetCodeVersion, FinishMatching, NotifyMatched, SaveMatching, OpenPage,
   FetchPendingReviews, ClickApprove, SaveProcessingApproval, ClickReject,
   StartApproval, SubmitBatch, BatchStep, StartBatch, BatchItem, FinishBatch,
   JobStep, Supersede, Repoint, Publish, SaveApproved, SaveRejected,
   SaveDecision, CloseApproved, CloseRejected, CloseSession, DeleteRejected,
   FinishDecision, WorkerDies, rematchVars

\* The copy of a rematch is of a validated upload.
LEMMA RematchKeptStays ==
    ASSUME TypeOK, ReadinessInv, OriginalKept, RematchKept, Next
    PROVE  RematchKept'
<1>1. CASE UNCHANGED <<rematch, overwritten>>
  BY <1>1 DEF RematchKept
<1>2. ASSUME NEW v \in Visit, ReadForRematch(v) PROVE RematchKept'
  <2> DEFINE u == job[v].upload
  <2>1. u \in Validated
    BY <1>2, DecidedValidated DEF ReadForRematch
  <2>2. status[u] # "" /\ RowCopy(u).original = OriginalOf[u]
    BY <2>1 DEF OriginalKept, RowCopy
  <2>3. rematch' = [rematch EXCEPT ![v] = [upload |-> u, status |-> status[u],
                                           copy |-> RowCopy(u)]]
    BY <1>2 DEF ReadForRematch
  <2> QED
    BY <2>1, <2>2, <2>3 DEF RematchKept, TypeOK, RematchTypes
<1>3. ASSUME NEW v \in Visit, SaveRematch(v) PROVE RematchKept'
  BY <1>3 DEF SaveRematch, NoRematch, RematchKept, TypeOK, RematchTypes
<1> QED
  BY <1>1, <1>2, <1>3, RematchOnly

\* What a rematch saves changes no original.
LEMMA RetirementRematch ==
    ASSUME TypeOK, RetirementInv, RematchKept, NEW v \in Visit,
           ReadForRematch(v) \/ SaveRematch(v)
    PROVE  RetirementInv'
<1>1. UNCHANGED <<latest, approved, submit, match, matched, page, job>>
  BY RematchFrame
<1>2. \A u \in Upload :
        \/ original'[u] = original[u] /\ status'[u] = status[u]
        \/ u \in Validated /\ original'[u] = OriginalOf[u] /\ status'[u] # ""
  <2>1. CASE UNCHANGED <<rows, status, ready, revised, original>>
    BY <2>1
  <2>2. CASE /\ rematch[v].upload \in Upload
             /\ SaveRow(rematch[v].upload, rematch[v].copy, rematch[v].status,
                        "true")
    <3>1. rematch[v].upload # None
      BY <2>2, ReviewAssumption
    <3> QED
      BY <2>2, <3>1 DEF SaveRow, RematchKept, TypeOK, RowTypes
  <2> QED
    BY <2>1, <2>2, RematchRows
<1>3. OriginalKept'
  BY <1>1, <1>2, ConstantTypes DEF RetirementInv, OriginalKept
<1> QED
  BY <1>1, <1>3 DEF RetirementInv, Current

\* Every approval under way, however it was started, has retired or will retire
\* the revision it replaces before it publishes, and no rematch brings the
\* revised one back.
THEOREM RetirementInvariant == Spec => [](RetirementInv /\ RematchKept)
<1>1. Init => RetirementInv /\ RematchKept
  <2> SUFFICES ASSUME Init PROVE RetirementInv /\ RematchKept
    OBVIOUS
  <2>1. OriginalKept
    <3>1. \A u \in Validated : /\ u \in Upload /\ original[u] = OriginalOf[u]
                              /\ status[u] # ""
      BY ConstantTypes DEF Init
    <3>2. \A u \in Upload : match[u].pc = "none" /\ match[u].copy.original = OriginalOf[u]
      BY DEF Init, RowCopy
    <3>3. \A u \in Upload \ Validated : status[u] = "" /\ u \notin matched
      BY ReviewAssumption DEF Init
    <3>4. \A v \in Visit : job[v].pc = "idle"
      BY ConstantTypes DEF Init
    <3> QED
      BY <3>1, <3>2, <3>3, <3>4 DEF Init, OriginalKept
  <2>2. \A d \in Decider : job[d].pc = "idle"
    BY DEF Init
  <2>3. approved \cap Upload = {}
    BY ConstantTypes DEF Init
  <2> QED
    BY <2>1, <2>2, <2>3 DEF RetirementInv, RematchKept, Init, NoRematch
<1>2. ASSUME TypeOK, ReadinessInv, RetirementInv, RematchKept, Next
      PROVE  RetirementInv' /\ RematchKept'
  <2>1. RetirementInv'
    BY <1>2, RetirementSubmit, RetirementMatch, RetirementVisit, RetirementJob,
       RetirementBatch, RetirementRematch DEF Next
  <2>2. RematchKept'
    BY <1>2, RematchKeptStays DEF RetirementInv
  <2> QED
    BY <2>1, <2>2
<1>3. RetirementInv /\ UNCHANGED vars => RetirementInv'
  BY DEF RetirementInv, OriginalKept, Current, vars, rowVars, entityVars,
     requestVars, matchVars, reviewVars
<1>4. RematchKept /\ UNCHANGED vars => RematchKept'
  BY DEF RematchKept, vars, rematchVars
<1> QED
  BY <1>1, <1>2, <1>3, <1>4, TypeCorrect, ReadinessInvariant, PTL DEF Spec

\* However approvals, rejections, batches and worker deaths interleave, a
\* revision is published only beside a revision it does not revise.
THEOREM RetiredFirst == Spec => []RetiredBeforeReplaced
<1>1. RetirementInv => RetiredBeforeReplaced
  BY DEF RetirementInv, RetiredBeforeReplaced, Published
<1> QED
  BY <1>1, RetirementInvariant, PTL

-----------------------------------------------------------------------------
(* The invariant the refinement rests on                                   *)

\* A job does what was decided on its upload; one that retires a revision has
\* one to retire.
JobMandate(d) ==
    /\ job[d].pc \in {"queued", "supersede", "repoint", "publish"}
         => "approve" \in Kinds(job[d].upload)
    /\ job[d].pc \in {"reject", "rejectClose", "rejectDelete"}
         => "reject" \in Kinds(job[d].upload)
    /\ job[d].pc = "supersede" => /\ Current(job[d].upload)
                                  /\ job[d].copy.original # None

\* Beside that, a session is deleted only when that was asked for, and what is
\* approved for the present stays current until it is revised.
MandateInv ==
    /\ \A d \in Decider : JobMandate(d)
    /\ \A s \in Session, u \in Upload :
         withdraw[s] = "checked" /\ SessionOf[u] = s => "withdraw" \in Kinds(u)
    /\ Country \subseteq approved
    /\ \A u \in approved \cap Upload : Current(u) => u \in latest

LEMMA MandateSubmit ==
    ASSUME TypeOK, RetirementInv, MandateInv, NEW s \in Session,
           \/ \E U \in SUBSET Upload : CheckReady(s, U)
           \/ SubmitStep(s) \/ CheckDeletable(s) \/ WithdrawStep(s)
    PROVE  MandateInv'
<1>1. UNCHANGED job
  BY DEF CheckReady, SubmitStep, MarkReviewing, DispatchMatching,
     SetSessionReviewing, DropNonSelected, CheckDeletable, WithdrawStep,
     DeleteEntities, DeleteSession, reviewVars
<1>2. \A u \in Upload : Kinds(u) \subseteq Kinds(u)'
  <2>1. CASE CheckDeletable(s)
    BY <2>1 DEF CheckDeletable, Kinds
  <2>2. CASE ~ CheckDeletable(s)
    BY <2>2 DEF CheckReady, SubmitStep, MarkReviewing, DispatchMatching,
       SetSessionReviewing, DropNonSelected, WithdrawStep, DeleteEntities,
       DeleteSession, reviewVars, Kinds
  <2> QED
    BY <2>1, <2>2
<1>3. \A d \in Decider : job[d].pc # "idle" => job[d].upload \in Upload
  BY DEF TypeOK, ReviewTypes
<1>4. \A d \in Decider : JobMandate(d)'
  BY <1>1, <1>2, <1>3 DEF MandateInv, JobMandate, Current
<1>5. ASSUME NEW z \in Session, NEW u \in Upload, withdraw'[z] = "checked",
             SessionOf[u] = z
      PROVE  "withdraw" \in Kinds(u)'
  <2>1. CASE withdraw[z] = "checked"
    BY <1>2, <1>5, <2>1 DEF MandateInv
  <2>2. CASE withdraw[z] # "checked"
    <3>1. CheckDeletable(s) /\ z = s
      BY <1>5, <2>2 DEF CheckReady, SubmitStep, MarkReviewing, DispatchMatching,
         SetSessionReviewing, DropNonSelected, CheckDeletable, WithdrawStep,
         DeleteEntities, DeleteSession, requestVars, TypeOK, RequestTypes
    <3>2. [by |-> s, kind |-> "withdraw"] \in decisions'[u]
      BY <1>5, <3>1 DEF CheckDeletable, UploadsOf
    <3> QED
      BY <3>2 DEF Kinds
  <2> QED
    BY <2>1, <2>2
<1>6. \E T \in SUBSET Upload : latest' = latest \ T /\ approved' = approved \ T
  <2>1. CASE DropNonSelected(s) \/ DeleteEntities(s)
    BY <2>1 DEF DropNonSelected, DeleteEntities, DeleteTrees, UploadsOf, TypeOK,
       RowTypes
  <2>2. CASE ~ (DropNonSelected(s) \/ DeleteEntities(s))
    <3>1. UNCHANGED <<latest, approved>>
      BY <2>2 DEF CheckReady, SubmitStep, MarkReviewing, DispatchMatching,
         SetSessionReviewing, CheckDeletable, WithdrawStep, DeleteSession,
         entityVars
    <3> QED
      BY <3>1
  <2> QED
    BY <2>1, <2>2
<1> QED
  BY <1>4, <1>5, <1>6, ConstantTypes DEF MandateInv, Current

LEMMA MandateMatch ==
    ASSUME TypeOK, MandateInv, NEW u \in Upload, MatchStep(u)
    PROVE  MandateInv'
<1>1. UNCHANGED <<job, decisions, withdraw, latest, approved>>
  BY DEF MatchStep, ReadForMatching, StartMatching, SetCodeVersion, FinishMatching,
     NotifyMatched, SaveMatching, entityVars, requestVars, reviewVars
<1> QED
  BY <1>1 DEF MandateInv, JobMandate, Kinds, Current

LEMMA MandateRematch ==
    ASSUME TypeOK, MandateInv, NEW v \in Visit,
           ReadForRematch(v) \/ SaveRematch(v)
    PROVE  MandateInv'
<1>1. UNCHANGED <<job, decisions, withdraw, latest, approved>>
  BY RematchFrame
<1> QED
  BY <1>1 DEF MandateInv, JobMandate, Kinds, Current

\* A job that has just read its upload does what was decided on it.
LEMMA FreshMandate ==
    ASSUME NEW d \in Decider, NEW u \in Upload,
           job'[d].upload = u, job'[d].copy = RowCopy(u),
           \/ job'[d].pc = "failed"
           \/ job'[d].pc = "reject" /\ "reject" \in Kinds(u)'
           \/ job'[d].pc = ApprovalStart(u) /\ "approve" \in Kinds(u)'
    PROVE  JobMandate(d)'
<1>1. job'[d].pc = "supersede" => Current(u) /\ original[u] # None
  BY DEF ApprovalStart, Current
<1>2. job'[d].copy.original = original[u]
  BY DEF RowCopy
<1>3. job'[d].pc \in {"failed", "reject", "supersede", "publish"}
  BY DEF ApprovalStart
<1>4. job'[d].pc = "reject" => "reject" \in Kinds(u)'
  BY DEF ApprovalStart
<1>5. job'[d].pc \in {"supersede", "publish"} => "approve" \in Kinds(u)'
  OBVIOUS
<1> QED
  BY <1>1, <1>2, <1>3, <1>4, <1>5 DEF JobMandate, Current

LEMMA MandateVisit ==
    ASSUME TypeOK, RetirementInv, MandateInv, NEW v \in Visit,
           \/ \E u \in Upload : OpenPage(v, u)
           \/ FetchPendingReviews(v) \/ ClickApprove(v)
           \/ SaveProcessingApproval(v) \/ ClickReject(v) \/ StartApproval(v)
    PROVE  MandateInv'
<1>0. v \in Decider /\ job[v] \in JobState
  BY ConstantTypes DEF TypeOK, ReviewTypes
<1>1. UNCHANGED <<withdraw, latest, approved>>
  BY DEF OpenPage, FetchPendingReviews, ClickApprove, SaveProcessingApproval,
     ClickReject, StartApproval, entityVars, requestVars
<1>2. \A u \in Upload : Kinds(u) \subseteq Kinds(u)'
  BY DEF OpenPage, FetchPendingReviews, ClickApprove, SaveProcessingApproval,
     ClickReject, StartApproval, Decide, Kinds, TypeOK, ReviewTypes
<1>3. \A d \in Decider \ {v} : job'[d] = job[d]
  BY DEF OpenPage, FetchPendingReviews, ClickApprove, SaveProcessingApproval,
     ClickReject, StartApproval, TypeOK, ReviewTypes
<1>4. \A d \in Decider : job[d].pc # "idle" => job[d].upload \in Upload
  BY DEF TypeOK, ReviewTypes
<1>5. JobMandate(v)'
  <2>1. ASSUME NEW u \in Upload, OpenPage(v, u) PROVE JobMandate(v)'
    <3>1. page[v] = "closed" /\ job'[v].pc = job[v].pc /\ job'[v].copy = job[v].copy
      BY <1>0, <2>1 DEF OpenPage, TypeOK, ReviewTypes, JobState
    <3>2. job[v].pc = "idle"
      BY <3>1 DEF RetirementInv, OriginalKept
    <3> QED
      BY <3>1, <3>2 DEF JobMandate
  <2>2. CASE FetchPendingReviews(v) \/ SaveProcessingApproval(v)
    <3>1. UNCHANGED <<job, decisions>>
      BY <2>2 DEF FetchPendingReviews, SaveProcessingApproval
    <3> QED
      BY <1>0, <3>1 DEF MandateInv, JobMandate, Kinds, Current
  <2>3. CASE ClickApprove(v)
    <3> DEFINE u == job[v].upload
    <3>1. page[v] # "closed" /\ u \in Upload
      BY <2>3 DEF ClickApprove, TypeOK, ReviewTypes
    <3>2. job'[v].upload = u /\ job'[v].pc = "queued"
      BY <1>0, <2>3 DEF ClickApprove, TypeOK, ReviewTypes, JobState
    <3>3. [by |-> v, kind |-> "approve"] \in decisions'[u]
      BY <2>3, <3>1 DEF ClickApprove, Decide, TypeOK, ReviewTypes
    <3> QED
      BY <3>2, <3>3 DEF JobMandate, Kinds
  <2>4. CASE ClickReject(v)
    <3>0. PICK u \in Upload : u = job[v].upload
      BY <1>0, <2>4 DEF ClickReject, TypeOK, ReviewTypes
    <3>1. page[v] # "closed" 
      BY <2>4, <3>0 DEF ClickReject, TypeOK, ReviewTypes
    <3>2. /\ job'[v].upload = u /\ job'[v].copy = RowCopy(u)
          /\ job'[v].pc = "reject"
      BY <1>0, <3>0, <2>4 DEF ClickReject, TypeOK, ReviewTypes
    <3>3. [by |-> v, kind |-> "reject"] \in decisions'[u]
      BY <2>4, <3>0, <3>1 DEF ClickReject, Decide, TypeOK, ReviewTypes
    <3>4. "reject" \in Kinds(u)'
      BY <3>3 DEF Kinds
    <3> QED
      BY <1>0, <3>0, <3>1, <3>2, <3>4, FreshMandate
  <2>5. CASE StartApproval(v)
    <3>0. PICK u \in Upload : u = job[v].upload
      BY <1>0, <2>5 DEF StartApproval, TypeOK, ReviewTypes
    <3>1. job[v].pc = "queued" /\ decisions' = decisions
      BY <1>0, <3>0, <2>5 DEF StartApproval, TypeOK, ReviewTypes
    <3>2. "approve" \in Kinds(u)'
      BY <1>0, <3>0, <3>1 DEF MandateInv, JobMandate, Kinds
    <3>3. /\ job'[v].upload = u /\ job'[v].copy = RowCopy(u)
          /\ job'[v].pc \in {"failed", ApprovalStart(u)}
      BY <1>0, <3>0, <2>5 DEF StartApproval, TypeOK, ReviewTypes
    <3> QED
      BY <1>0, <3>0, <3>1, <3>2, <3>3, FreshMandate
  <2> QED
    BY <2>1, <2>2, <2>3, <2>4, <2>5
<1>6. \A d \in Decider : JobMandate(d)'
  BY <1>2, <1>3, <1>4, <1>5 DEF MandateInv, JobMandate, Current
<1> QED
  BY <1>1, <1>2, <1>6 DEF MandateInv, Current

LEMMA MandateBatch ==
    ASSUME TypeOK, MandateInv, NEW b \in Batch,
           \/ \E U \in SUBSET Upload, a \in BOOLEAN : SubmitBatch(b, U, a)
           \/ BatchStep(b)
    PROVE  MandateInv'
<1>0. b \in Decider
  BY ConstantTypes
<1>1. UNCHANGED <<withdraw, latest, approved>>
  BY DEF SubmitBatch, BatchStep, StartBatch, BatchItem, FinishBatch, entityVars,
     requestVars
<1>2. \A u \in Upload : Kinds(u) \subseteq Kinds(u)'
  BY DEF SubmitBatch, BatchStep, StartBatch, BatchItem, FinishBatch, Decide, Kinds,
     TypeOK, ReviewTypes
<1>3. \A d \in Decider \ {b} : job'[d] = job[d]
  BY DEF SubmitBatch, BatchStep, StartBatch, BatchItem, FinishBatch, TypeOK,
     ReviewTypes
<1>4. \A d \in Decider : job[d].pc # "idle" => job[d].upload \in Upload
  BY DEF TypeOK, ReviewTypes
<1>5. JobMandate(b)'
  <2>1. ASSUME NEW u \in Upload, BatchItem(b, u), Reviewable(u)
        PROVE  JobMandate(b)'
    <3> DEFINE kind == IF batch[b].approve THEN "approve" ELSE "reject"
    <3>1. /\ job'[b].upload = u /\ job'[b].copy = RowCopy(u)
          /\ \/ job'[b].pc = "failed"
             \/ job'[b].pc = "reject" /\ kind = "reject"
             \/ job'[b].pc = ApprovalStart(u) /\ kind = "approve"
      BY <1>0, <2>1 DEF BatchItem, TypeOK, ReviewTypes
    <3>2. [by |-> b, kind |-> kind] \in decisions'[u]
      BY <2>1 DEF BatchItem, Decide, TypeOK, ReviewTypes
    <3>3. kind \in Kinds(u)'
      BY <3>2 DEF Kinds
    <3> HIDE DEF kind
    <3> QED
      BY <1>0, <3>1, <3>3, FreshMandate
  <2>2. CASE UNCHANGED job
    BY <1>0, <1>2, <1>4, <2>2 DEF MandateInv, JobMandate, Current
  <2>3. \/ UNCHANGED job
        \/ \E u \in Upload : BatchItem(b, u) /\ Reviewable(u)
    BY DEF SubmitBatch, BatchStep, StartBatch, BatchItem, FinishBatch
  <2> QED
    BY <2>1, <2>2, <2>3
<1>6. \A d \in Decider : JobMandate(d)'
  BY <1>2, <1>3, <1>4, <1>5 DEF MandateInv, JobMandate, Current
<1> QED
  BY <1>1, <1>2, <1>6 DEF MandateInv, Current

LEMMA MandateJob ==
    ASSUME TypeOK, RetirementInv, MandateInv, NEW d \in Decider,
           JobStep(d) \/ WorkerDies(d)
    PROVE  MandateInv'
<1>1. UNCHANGED <<decisions, withdraw>>
  BY DEF JobStep, WorkerDies, Supersede, Repoint, Publish, SaveApproved,
     SaveRejected, SaveDecision, CloseApproved, CloseRejected, CloseSession,
     DeleteRejected, FinishDecision, requestVars
<1>2. /\ \A e \in Decider \ {d} : job'[e] = job[e]
      /\ job'[d].upload = job[d].upload /\ job'[d].copy = job[d].copy
  BY JobMovesOn
<1>3. /\ job'[d].pc \in {"queued", "supersede", "reject"} => job'[d].pc = job[d].pc
      /\ job'[d].pc = "repoint" => job[d].pc \in {"supersede", "repoint"}
      /\ job'[d].pc = "publish" => job[d].pc \in {"repoint", "publish"}
      /\ job'[d].pc = "rejectClose" => job[d].pc \in {"reject", "rejectClose"}
      /\ job'[d].pc = "rejectDelete" => job[d].pc \in {"rejectClose", "rejectDelete"}
  <2>0. job[d] \in JobState
    BY DEF TypeOK, ReviewTypes
  <2>1. CASE Supersede(d) \/ Repoint(d) \/ Publish(d)
    <3>1. \/ job[d].pc = "supersede" /\ job'[d].pc \in {"repoint", "failed"}
          \/ job[d].pc = "repoint" /\ job'[d].pc \in {"publish", "failed"}
          \/ job'[d].pc \in {"save", "failed"}
      <4>1. CASE Supersede(d)
        BY <2>0, <4>1 DEF Supersede, JobGoesTo, TypeOK, ReviewTypes, JobState
      <4>2. CASE Repoint(d)
        BY <2>0, <4>2 DEF Repoint, JobGoesTo, TypeOK, ReviewTypes, JobState
      <4>3. CASE Publish(d)
        BY <2>0, <4>3 DEF Publish, JobGoesTo, TypeOK, ReviewTypes, JobState
      <4> QED
        BY <2>1, <4>1, <4>2, <4>3
    <3> QED
      BY <3>1
  <2>2. CASE SaveApproved(d) \/ SaveRejected(d) \/ CloseApproved(d) \/ CloseRejected(d)
    BY <2>2 DEF SaveApproved, SaveRejected, SaveDecision, CloseApproved,
       CloseRejected, CloseSession, JobGoesTo, TypeOK, ReviewTypes, JobState
  <2>3. CASE DeleteRejected(d) \/ FinishDecision(d)
    BY <2>3 DEF DeleteRejected, FinishDecision, JobGoesTo, JobEnd, TypeOK,
       ReviewTypes, JobState
  <2>4. CASE WorkerDies(d)
    BY <2>4 DEF WorkerDies
  <2> QED
    BY <2>1, <2>2, <2>3, <2>4 DEF JobStep
<1>4. \A e \in Decider : JobMandate(e)'
  <2>1. JobMandate(d)'
    BY <1>1, <1>2, <1>3 DEF MandateInv, JobMandate, Kinds, Current
  <2>2. \A e \in Decider \ {d} : JobMandate(e)'
    BY <1>1, <1>2 DEF MandateInv, JobMandate, Kinds, Current
  <2> QED
    BY <2>1, <2>2
<1>5. /\ Country \subseteq approved'
      /\ \A u \in approved' \cap Upload : Current(u) => u \in latest'
  <2>1. CASE Supersede(d)
    <3>1. job[d].copy.original \in Country
      <4>1. /\ job[d].upload \in Upload
            /\ job[d].copy.original = OriginalOf[job[d].upload]
            /\ job[d].copy.original # None
        BY <2>1 DEF Supersede, RetirementInv, OriginalKept, MandateInv, JobMandate,
           TypeOK, ReviewTypes
      <4> QED
        BY <4>1, ConstantTypes
    <3> QED
      BY <2>1, <3>1, ConstantTypes DEF Supersede, MandateInv
  <2>2. CASE Publish(d)
    BY <2>2 DEF Publish, MandateInv, Current
  <2>3. CASE DeleteRejected(d)
    <3>1. job[d].upload \in Upload
      BY <2>3 DEF DeleteRejected, TypeOK, ReviewTypes
    <3> QED
      BY <2>3, <3>1, ConstantTypes DEF DeleteRejected, DeleteTrees, MandateInv
  <2>4. CASE ~ (Supersede(d) \/ Publish(d) \/ DeleteRejected(d))
    <3>1. UNCHANGED <<latest, approved>>
      BY <2>4 DEF JobStep, WorkerDies, Repoint, SaveApproved, SaveRejected,
         SaveDecision, CloseApproved, CloseRejected, CloseSession, FinishDecision,
         entityVars
    <3> QED
      BY <3>1 DEF MandateInv
  <2> QED
    BY <2>1, <2>2, <2>3, <2>4
<1> QED
  BY <1>1, <1>4, <1>5 DEF MandateInv, Kinds, Current

\* Every step of every job, and every deletion, was asked for by somebody.
THEOREM MandateInvariant == Spec => []MandateInv
<1>1. Init => MandateInv
  <2> SUFFICES ASSUME Init PROVE MandateInv
    OBVIOUS
  <2>1. \A d \in Decider : job[d].pc = "idle"
    BY DEF Init
  <2>2. approved = Country /\ withdraw = [s \in Session |-> "idle"]
    BY DEF Init
  <2> QED
    BY <2>1, <2>2, ConstantTypes DEF MandateInv, JobMandate
<1>2. ASSUME TypeOK, RetirementInv, MandateInv, Next PROVE MandateInv'
  BY <1>2, MandateSubmit, MandateMatch, MandateVisit, MandateJob, MandateBatch,
     MandateRematch DEF Next
<1>3. MandateInv /\ UNCHANGED vars => MandateInv'
  BY DEF MandateInv, JobMandate, Kinds, Current, vars, rowVars, entityVars,
     requestVars, matchVars, reviewVars
<1> QED
  BY <1>1, <1>2, <1>3, TypeCorrect, RetirementInvariant, PTL DEF Spec

-----------------------------------------------------------------------------
(* The steps of the review and the steps of Publication                    *)

\* What Publication sees of a state
Wishes == [u \in Reviewed |-> Asked(u)]
Lives == [t \in Country \cup Reviewed |-> LifeOf(t)]

\* A step that changes neither entities, decisions nor requests is not seen.
LEMMA Unseen ==
    ASSUME UNCHANGED <<entityVars, decisions, submit>>
    PROVE  UNCHANGED <<Wishes, Lives>>
BY DEF entityVars, Wishes, Lives, Asked, Kinds, LeftOut, LifeOf

\* Deleting the trees of uploads for each of which that was asked for is a
\* removal.
LEMMA DeletionRemoves ==
    ASSUME NEW T \in SUBSET Upload,
           trees' = trees \ T, latest' = latest \ T, approved' = approved \ T,
           \A u \in Reviewed : Asked(u)' = Asked(u),
           \A u \in T \cap Reviewed :
             Asked(u) \cap {"reject", "withdraw", "leave out"} # {}
    PROVE  Promise!Remove(T \cap Reviewed)
<1>1. UNCHANGED Wishes
  BY DEF Wishes
<1>2. Lives' = [t \in Country \cup Reviewed |->
                  IF t \in T \cap Reviewed THEN "gone" ELSE Lives[t]]
  <2>1. ASSUME NEW t \in Country \cup Reviewed
        PROVE  LifeOf(t)' = IF t \in T \cap Reviewed THEN "gone" ELSE LifeOf(t)
    <3>1. t \in T <=> t \in T \cap Reviewed
      BY ConstantTypes
    <3> QED
      BY <3>1 DEF LifeOf
  <2> QED
    BY <2>1 DEF Lives
<1>3. \A u \in T \cap Reviewed :
         Wishes[u] \cap {"reject", "withdraw", "leave out"} # {}
  BY DEF Wishes
<1> QED
  BY <1>1, <1>2, <1>3 DEF Promise!Remove, Promise!Revision, Wishes, Lives

\* Recording a wish for some uploads is what Publication calls Ask.
LEMMA WishAsks ==
    ASSUME UNCHANGED entityVars, NEW U \in SUBSET Reviewed,
           NEW kind \in {"approve", "reject", "withdraw", "leave out"},
           \A u \in Reviewed :
             Asked(u)' = IF u \in U THEN Asked(u) \cup {kind} ELSE Asked(u)
    PROVE  Promise!Ask
<1>1. UNCHANGED Lives
  BY DEF entityVars, Lives, LifeOf
<1>2. Wishes' = [u \in Reviewed |-> IF u \in U THEN Wishes[u] \cup {kind}
                                              ELSE Wishes[u]]
  BY DEF Wishes
<1> QED
  BY <1>1, <1>2 DEF Promise!Ask, Promise!Wish, Wishes, Lives

\* Of a decision that is recorded, Publication sees the kind.
LEMMA KindAdded ==
    ASSUME NEW u, NEW by, NEW kind,
           decisions'[u] = decisions[u] \cup {[by |-> by, kind |-> kind]}
    PROVE  Kinds(u)' = Kinds(u) \cup {kind}
<1>1. PICK new : new = [by |-> by, kind |-> kind]
  OBVIOUS
<1>2. new.kind = kind
  BY <1>1
<1>3. decisions'[u] = decisions[u] \cup {new}
  BY <1>1
<1> QED
  BY <1>2, <1>3 DEF Kinds

\* Every step is one of Publication or is not seen.
Seen == UNCHANGED <<Wishes, Lives>> \/ Promise!Next

LEMMA SubmitSeen ==
    ASSUME TypeOK, MandateInv, NEW s \in Session,
           \/ \E U \in SUBSET Upload : CheckReady(s, U)
           \/ SubmitStep(s) \/ CheckDeletable(s) \/ WithdrawStep(s)
    PROVE  Seen
<1>0. /\ submit \in [Session -> [pc : SubmitPc, selected : SUBSET Upload]]
      /\ \A u \in Upload : SessionOf[u] \in Session
  BY ConstantTypes DEF TypeOK, RequestTypes
<1>1. ASSUME NEW U \in SUBSET Upload, CheckReady(s, U) PROVE Promise!Ask
  <2> DEFINE out == {u \in Reviewed : SessionOf[u] = s /\ u \notin U}
  <2>1. UNCHANGED <<entityVars, decisions>>
    BY <1>1 DEF CheckReady, reviewVars
  <2>2. ASSUME NEW u \in Reviewed
        PROVE  LeftOut(u)' <=> LeftOut(u) \/ u \in out
    BY <1>0, <1>1 DEF CheckReady, LeftOut, Reviewed
  <2>3. \A u \in Reviewed :
           Asked(u)' = IF u \in out THEN Asked(u) \cup {"leave out"} ELSE Asked(u)
    BY <2>1, <2>2 DEF Asked, Kinds
  <2>4. out \in SUBSET Reviewed
    OBVIOUS
  <2> HIDE DEF out
  <2> QED
    BY <2>1, <2>3, <2>4, WishAsks
<1>2. CASE MarkReviewing(s) \/ DispatchMatching(s) \/ SetSessionReviewing(s)
           \/ DropNonSelected(s)
  <2>1. decisions' = decisions
    BY <1>2 DEF MarkReviewing, DispatchMatching, SetSessionReviewing,
       DropNonSelected, reviewVars
  <2>2. \A u \in Upload : LeftOut(u)' <=> LeftOut(u)
    <3>1. \E pc : pc # "idle" /\ submit' = [submit EXCEPT ![s].pc = pc]
      BY <1>2 DEF MarkReviewing, DispatchMatching, SetSessionReviewing,
         DropNonSelected
    <3>2. submit[s].pc # "idle"
      BY <1>2 DEF MarkReviewing, DispatchMatching, SetSessionReviewing,
         DropNonSelected
    <3> QED
      BY <1>0, <3>1, <3>2 DEF LeftOut
  <2>3. \A u \in Reviewed : Asked(u)' = Asked(u)
    BY <2>1, <2>2 DEF Asked, Kinds, Reviewed
  <2>4. CASE DropNonSelected(s)
    <3> DEFINE T == {u \in (rows \cap UploadsOf(s)) \ submit[s].selected : revised[u]}
    <3>1. /\ T \in SUBSET Upload
          /\ trees' = trees \ T /\ latest' = latest \ T /\ approved' = approved \ T
      BY <2>4 DEF DropNonSelected, DeleteTrees, UploadsOf
    <3>2. ASSUME NEW u \in T \cap Reviewed
          PROVE  Asked(u) \cap {"reject", "withdraw", "leave out"} # {}
      <4>1. LeftOut(u)
        BY <2>4 DEF DropNonSelected, LeftOut, UploadsOf
      <4> QED
        BY <4>1 DEF Asked
    <3> HIDE DEF T
    <3> QED
      BY <2>3, <3>1, <3>2, DeletionRemoves DEF Seen, Promise!Next
  <2>5. CASE ~ DropNonSelected(s)
    <3>1. UNCHANGED entityVars
      BY <1>2, <2>5 DEF MarkReviewing, DispatchMatching, SetSessionReviewing
    <3> QED
      BY <2>3, <3>1 DEF Seen, Wishes, Lives, LifeOf, entityVars
  <2> QED
    BY <2>4, <2>5
<1>3. CASE CheckDeletable(s)
  <2> DEFINE U == {u \in Reviewed : SessionOf[u] = s}
  <2>1. UNCHANGED <<entityVars, submit>>
    BY <1>3 DEF CheckDeletable
  <2>2. \A u \in Reviewed :
           Kinds(u)' = IF u \in U THEN Kinds(u) \cup {"withdraw"} ELSE Kinds(u)
    <3> TAKE u \in Reviewed
    <3>1. u \in Upload /\ (u \in UploadsOf(s) <=> u \in U)
      BY DEF Reviewed, UploadsOf
    <3>2. decisions'[u] = IF u \in U
                          THEN decisions[u] \cup {[by |-> s, kind |-> "withdraw"]}
                          ELSE decisions[u]
      BY <1>3, <3>1 DEF CheckDeletable
    <3>3. CASE u \in U
      <4>1. decisions'[u] = decisions[u] \cup {[by |-> s, kind |-> "withdraw"]}
        BY <3>2, <3>3
      <4>2. Kinds(u)' = Kinds(u) \cup {"withdraw"}
        BY <4>1, KindAdded
      <4> QED
        BY <3>3, <4>2
    <3>4. CASE u \notin U
      BY <3>2, <3>4 DEF Kinds
    <3> QED
      BY <3>3, <3>4
  <2>3. \A u \in Reviewed :
           Asked(u)' = IF u \in U THEN Asked(u) \cup {"withdraw"} ELSE Asked(u)
    BY <2>1, <2>2 DEF Asked, LeftOut
  <2>4. U \in SUBSET Reviewed
    OBVIOUS
  <2> HIDE DEF U
  <2> QED
    BY <2>1, <2>3, <2>4, WishAsks DEF Seen, Promise!Next
<1>4. CASE DeleteEntities(s)
  <2> DEFINE T == UploadsOf(s)
  <2>1. /\ T \in SUBSET Upload
        /\ trees' = trees \ T /\ latest' = latest \ T /\ approved' = approved \ T
        /\ UNCHANGED <<decisions, submit>>
    BY <1>4 DEF DeleteEntities, DeleteTrees, UploadsOf, reviewVars
  <2>2. \A u \in T \cap Reviewed :
           Asked(u) \cap {"reject", "withdraw", "leave out"} # {}
    BY <1>4 DEF DeleteEntities, UploadsOf, MandateInv, Asked
  <2>3. \A u \in Reviewed : Asked(u)' = Asked(u)
    BY <2>1 DEF Asked, Kinds, LeftOut
  <2> HIDE DEF T
  <2> QED
    BY <2>1, <2>2, <2>3, DeletionRemoves DEF Seen, Promise!Next
<1>5. CASE DeleteSession(s)
  <2>1. UNCHANGED <<entityVars, decisions, submit>>
    BY <1>5 DEF DeleteSession, reviewVars
  <2> QED
    BY <2>1, Unseen DEF Seen
<1> QED
  BY <1>1, <1>2, <1>3, <1>4, <1>5 DEF SubmitStep, WithdrawStep, Seen, Promise!Next

\* What a decision adds
LEMMA DecideAsks ==
    ASSUME TypeOK, NEW u \in Upload, NEW by, NEW kind \in {"approve", "reject"},
           Decide(u, by, kind), UNCHANGED <<entityVars, submit>>
    PROVE  Promise!Ask
<1>1. ASSUME NEW w \in Reviewed
      PROVE  Kinds(w)' = IF w \in {u} \cap Reviewed THEN Kinds(w) \cup {kind}
                                                    ELSE Kinds(w)
  <2>1. w \in Upload
    BY DEF Reviewed
  <2>2. decisions'[w] = IF w = u THEN decisions[w] \cup {[by |-> by, kind |-> kind]}
                                 ELSE decisions[w]
    BY <2>1 DEF Decide, TypeOK, ReviewTypes
  <2>3. CASE w = u
    <3>1. decisions'[w] = decisions[w] \cup {[by |-> by, kind |-> kind]}
      BY <2>2, <2>3
    <3>2. Kinds(w)' = Kinds(w) \cup {kind}
      BY <3>1, KindAdded
    <3> QED
      BY <2>3, <3>2
  <2>4. CASE w # u
    BY <2>2, <2>4 DEF Kinds
  <2> QED
    BY <2>3, <2>4
<1>2. \A w \in Reviewed :
         Asked(w)' = IF w \in {u} \cap Reviewed THEN Asked(w) \cup {kind} ELSE Asked(w)
  BY <1>1 DEF Asked, LeftOut
<1> QED
  BY <1>2, WishAsks

LEMMA VisitSeen ==
    ASSUME TypeOK, NEW v \in Visit,
           \/ \E u \in Upload : OpenPage(v, u)
           \/ FetchPendingReviews(v) \/ ClickApprove(v)
           \/ SaveProcessingApproval(v) \/ ClickReject(v) \/ StartApproval(v)
    PROVE  Seen
<1>1. UNCHANGED <<entityVars, submit>>
  BY DEF OpenPage, FetchPendingReviews, ClickApprove, SaveProcessingApproval,
     ClickReject, StartApproval, requestVars
<1>2. CASE ClickApprove(v) \/ ClickReject(v)
  <2>1. PICK u \in Upload, kind \in {"approve", "reject"} : Decide(u, v, kind)
    BY <1>2 DEF ClickApprove, ClickReject, TypeOK, ReviewTypes
  <2> QED
    BY <1>1, <2>1, DecideAsks DEF Seen, Promise!Next
<1>3. CASE ~ (ClickApprove(v) \/ ClickReject(v))
  <2>1. decisions' = decisions
    BY <1>3 DEF OpenPage, FetchPendingReviews, SaveProcessingApproval, StartApproval
  <2> QED
    BY <1>1, <2>1, Unseen DEF Seen
<1> QED
  BY <1>2, <1>3

LEMMA BatchSeen ==
    ASSUME TypeOK, NEW b \in Batch,
           \/ \E U \in SUBSET Upload, a \in BOOLEAN : SubmitBatch(b, U, a)
           \/ BatchStep(b)
    PROVE  Seen
<1>1. UNCHANGED <<entityVars, submit>>
  BY DEF SubmitBatch, BatchStep, StartBatch, BatchItem, FinishBatch, requestVars
<1>2. ASSUME NEW u \in Upload, BatchItem(b, u), Reviewable(u) PROVE Seen
  <2>1. PICK kind \in {"approve", "reject"} : Decide(u, b, kind)
    BY <1>2 DEF BatchItem
  <2> QED
    BY <1>1, <2>1, DecideAsks DEF Seen, Promise!Next
<1>3. CASE ~ \E u \in Upload : BatchItem(b, u) /\ Reviewable(u)
  <2>1. decisions' = decisions
    BY <1>3 DEF SubmitBatch, BatchStep, StartBatch, BatchItem, FinishBatch
  <2> QED
    BY <1>1, <2>1, Unseen DEF Seen
<1> QED
  BY <1>2, <1>3

LEMMA MatchSeen ==
    ASSUME NEW u \in Upload, MatchStep(u)
    PROVE  Seen
<1>1. UNCHANGED <<entityVars, decisions, submit>>
  BY DEF MatchStep, ReadForMatching, StartMatching, SetCodeVersion, FinishMatching,
     NotifyMatched, SaveMatching, requestVars, reviewVars
<1> QED
  BY <1>1, Unseen DEF Seen

LEMMA RematchSeen ==
    ASSUME TypeOK, NEW v \in Visit, ReadForRematch(v) \/ SaveRematch(v)
    PROVE  Seen
<1>1. UNCHANGED <<entityVars, decisions, submit>>
  BY RematchFrame
<1> QED
  BY <1>1, Unseen DEF Seen

LEMMA JobSeen ==
    ASSUME TypeOK, RetirementInv, MandateInv, NEW d \in Decider,
           JobStep(d) \/ WorkerDies(d)
    PROVE  Seen
<1>1. UNCHANGED <<decisions, submit>>
  BY DEF JobStep, WorkerDies, Supersede, Repoint, Publish, SaveApproved,
     SaveRejected, SaveDecision, CloseApproved, CloseRejected, CloseSession,
     DeleteRejected, FinishDecision, requestVars
<1>2. UNCHANGED Wishes
  BY <1>1 DEF Wishes, Asked, Kinds, LeftOut
<1>3. CASE Supersede(d)
  <2>0. PICK u, o : u \in Upload /\ u = job[d].upload /\ o = job[d].copy.original
    BY <1>3 DEF Supersede, TypeOK, ReviewTypes
  <2>1. /\ u \in Reviewed /\ o = OriginalOf[u] /\ o \in Country
        /\ "approve" \in Kinds(u)
    <3>1. job[d].pc = "supersede"
      BY <1>3 DEF Supersede
    <3>2. /\ Current(u) /\ o # None /\ "approve" \in Kinds(u)
      BY <2>0, <3>1 DEF MandateInv, JobMandate
    <3>3. o = OriginalOf[u]
      BY <2>0, <3>1 DEF RetirementInv, OriginalKept
    <3> QED
      BY <2>0, <3>2, <3>3, ConstantTypes DEF Reviewed
  <2>2. latest' = latest \ {o} /\ UNCHANGED <<trees, approved>>
    BY <1>3, <2>0 DEF Supersede
  <2>3. CASE o \notin latest
    <3>1. UNCHANGED entityVars
      BY <2>2, <2>3 DEF entityVars
    <3> QED
      BY <1>1, <3>1, Unseen DEF Seen
  <2>4. CASE o \in latest
    <3>1. o \in trees /\ o \in approved
      BY <2>1 DEF MandateInv, TypeOK, EntityTypes
    <3>2. LifeOf(o) = "current" /\ LifeOf(o)' = "retired"
      BY <2>2, <2>4, <3>1 DEF LifeOf
    <3>3. \A t \in (Country \cup Reviewed) \ {o} : LifeOf(t)' = LifeOf(t)
      BY <2>2 DEF LifeOf
    <3>4. Lives' = [Lives EXCEPT ![o] = "retired"]
      BY <2>1, <3>2, <3>3 DEF Lives
    <3>5. Lives[o] = "current" /\ "approve" \in Wishes[u]
      BY <2>1, <3>2 DEF Lives, Wishes, Asked
    <3>6. Promise!Retire(o)
      BY <1>2, <2>1, <3>4, <3>5 DEF Promise!Retire, Wishes, Lives
    <3> QED
      BY <2>1, <3>6 DEF Seen, Promise!Next
  <2> QED
    BY <2>3, <2>4
<1>4. CASE Publish(d)
  <2>0. PICK u \in Upload : u = job[d].upload
    BY <1>4 DEF Publish, TypeOK, ReviewTypes
  <2>1. u \notin Country /\ "approve" \in Kinds(u) /\ job[d].pc = "publish"
    <3>1. job[d].pc = "publish"
      BY <1>4 DEF Publish
    <3> QED
      BY <2>0, <3>1, ConstantTypes DEF MandateInv, JobMandate
  <2>2. /\ approved' = approved \cup ({u} \cap trees)
        /\ latest' = IF Current(u) THEN latest \cup ({u} \cap trees) ELSE latest
        /\ trees' = trees
    BY <1>4, <2>0 DEF Publish, Current
  <2>3. \A t \in (Country \cup Reviewed) \ {u} : LifeOf(t)' = LifeOf(t)
    BY <2>2 DEF LifeOf
  <2>4. CASE u \notin Reviewed \/ u \notin trees \/ u \in approved
    <3>1. u \in Reviewed => LifeOf(u)' = LifeOf(u)
      BY <2>1, <2>2, <2>4 DEF LifeOf, MandateInv, Reviewed
    <3>2. \A t \in Country \cup Reviewed : LifeOf(t)' = LifeOf(t)
      BY <2>1, <2>3, <3>1
    <3>3. UNCHANGED Lives
      BY <3>2 DEF Lives
    <3> QED
      BY <1>2, <3>3 DEF Seen
  <2>5. CASE u \in Reviewed /\ u \in trees /\ u \notin approved
    <3>1. LifeOf(u) = "proposed" /\ LifeOf(u)' = "current"
      BY <2>2, <2>5 DEF LifeOf, Reviewed
    <3>2. Lives' = [Lives EXCEPT ![u] = "current"]
      BY <2>3, <2>5, <3>1 DEF Lives
    <3>3. OriginalOf[u] \in Country => LifeOf(OriginalOf[u]) # "current"
      <4>1. OriginalOf[u] \in Country => OriginalOf[u] \notin latest
        BY <2>0, <2>1, <2>5, ConstantTypes DEF RetirementInv, Reviewed, Tree
      <4> QED
        BY <4>1 DEF LifeOf
    <3>4. /\ Lives[u] = "proposed" /\ "approve" \in Wishes[u]
          /\ OriginalOf[u] \in Country => Lives[OriginalOf[u]] # "current"
      BY <2>1, <2>5, <3>1, <3>3 DEF Lives, Wishes, Asked
    <3>5. Promise!Appear(u)
      BY <1>2, <2>5, <3>2, <3>4 DEF Promise!Appear, Wishes, Lives
    <3> QED
      BY <2>5, <3>5 DEF Seen, Promise!Next
  <2> QED
    BY <2>4, <2>5
<1>5. CASE DeleteRejected(d)
  <2>0. PICK u \in Upload : u = job[d].upload
    BY <1>5 DEF DeleteRejected, TypeOK, ReviewTypes
  <2>1. "reject" \in Kinds(u)
    BY <1>5, <2>0 DEF DeleteRejected, MandateInv, JobMandate
  <2>2. PICK T \in SUBSET {u} : /\ trees' = trees \ T /\ latest' = latest \ T
                                /\ approved' = approved \ T
    BY <1>5, <2>0 DEF DeleteRejected, DeleteTrees
  <2>3. \A w \in Reviewed : Asked(w)' = Asked(w)
    BY <1>1 DEF Asked, Kinds, LeftOut
  <2>4. \A w \in T \cap Reviewed :
           Asked(w) \cap {"reject", "withdraw", "leave out"} # {}
    BY <2>1, <2>2 DEF Asked
  <2>5. T \in SUBSET Upload
    BY <2>1, <2>2
  <2> QED
    BY <2>2, <2>3, <2>4, <2>5, DeletionRemoves DEF Seen, Promise!Next
<1>6. CASE ~ (Supersede(d) \/ Publish(d) \/ DeleteRejected(d))
  <2>1. UNCHANGED entityVars
    BY <1>6 DEF JobStep, WorkerDies, Repoint, SaveApproved, SaveRejected,
       SaveDecision, CloseApproved, CloseRejected, CloseSession, FinishDecision
  <2> QED
    BY <1>1, <2>1, Unseen DEF Seen
<1> QED
  BY <1>3, <1>4, <1>5, <1>6

-----------------------------------------------------------------------------
(* The refinement                                                          *)

\* Whatever requests, tasks, batches and deaths overlap, readers of the data
\* see no more than Publication allows: a revision retired for one that is to
\* be approved, one that appears in a free place, and the removal of what was
\* rejected, withdrawn or left out.
THEOREM Refinement == Spec => Publishes
<1>1. Init => Promise!Init
  <2> SUFFICES ASSUME Init PROVE Promise!Init
    OBVIOUS
  <2>1. \A u \in Reviewed : Asked(u) = {}
    <3> TAKE u \in Reviewed
    <3>1. u \in Upload /\ SessionOf[u] \in Session
      BY ConstantTypes DEF Reviewed
    <3> QED
      BY <3>1 DEF Init, Asked, Kinds, LeftOut
  <2>2. ASSUME NEW t \in Country \cup Reviewed
        PROVE  LifeOf(t) = IF t \in Country THEN "current"
                           ELSE IF t \in Reviewed \cap Validated THEN "proposed"
                           ELSE "gone"
    <3>1. /\ trees = Country \cup Validated /\ approved = Country
          /\ Country \subseteq latest
      BY DEF Init
    <3> QED
      BY <3>1 DEF LifeOf
  <2> QED
    BY <2>1, <2>2 DEF Promise!Init, Promise!Revision
<1>2. ASSUME TypeOK, RetirementInv, MandateInv, Next PROVE Seen
  BY <1>2, SubmitSeen, MatchSeen, VisitSeen, JobSeen, BatchSeen, RematchSeen
     DEF Next
<1>3. UNCHANGED vars => UNCHANGED <<Wishes, Lives>>
  <2>1. UNCHANGED vars => UNCHANGED <<entityVars, decisions, submit>>
    BY DEF vars, requestVars, reviewVars
  <2> QED
    BY <2>1, Unseen
<1>4. TypeOK /\ RetirementInv /\ MandateInv /\ [Next]_vars
        => [Promise!Next]_(Promise!vars)
  BY <1>2, <1>3 DEF Seen, Promise!vars, Wishes, Lives
<1> QED
  BY <1>1, <1>4, TypeCorrect, RetirementInvariant, MandateInvariant, PTL
     DEF Spec, Publishes, Promise!Spec

-----------------------------------------------------------------------------
(* The invariants                                                          *)

\* Matching starts with the dispatch of an upload that was selected and does
\* not touch it again once it has matched it.
MatchedOnce ==
    /\ \A s \in Session : submit[s].selected \subseteq UploadsOf(s)
    /\ \A u \in Upload : match[u].pc # "none" =>
         /\ submit[SessionOf[u]].pc \in {"dispatched", "cleanup", "done"}
         /\ u \in submit[SessionOf[u]].selected
    /\ \A u \in matched : match[u].pc \in {"saved", "done"}

Approving == {"queued", "supersede", "repoint", "publish", "save"}
Rejecting == {"reject", "rejectClose", "rejectDelete"}

\* What d decided
Verdict(d, kind) == [by |-> d, kind |-> kind]

\* Whoever is named in a decision is past the point of taking it.
Taken(u, x) ==
    /\ x.kind = "withdraw" \/ u \in matched
    /\ x.by \in Visit => page[x.by] \in {"requested", "answered"}
    /\ x.by \in Batch => /\ batch[x.by].status \in {"Processing", "Done"}
                         /\ u \notin batch[x.by].todo

\* A job executes the decision of the one whose job it is.
Authored(d) ==
    /\ job[d].pc \in Approving
         => Verdict(d, "approve") \in decisions[job[d].upload]
    /\ job[d].pc \in Rejecting
         => Verdict(d, "reject") \in decisions[job[d].upload]

AuthorsInv ==
    /\ \A u \in Upload : \A x \in decisions[u] : Taken(u, x)
    /\ \A d \in Decider : Authored(d)
    /\ \A v \in Visit : page[v] = "requested"
         => Verdict(v, "approve") \in decisions[job[v].upload]
    /\ \A u \in Upload :
         withdraw[SessionOf[u]] # "idle" => "withdraw" \in Kinds(u)
    /\ \A u \in Upload :
         /\ u \in approved => "approve" \in Kinds(u)
         /\ original[u] \in Upload => "approve" \in Kinds(original[u])

\* As long as the entities of a validated upload are there, its row refers to
\* them and so does every copy a task or a job writes back; they go only when
\* that was asked for.
Kept(u) ==
    /\ u \in trees =>
         /\ revised[u] /\ match[u].copy.revised
         /\ \A d \in Decider :
              job[d].upload = u /\ job[d].pc \notin {"idle", "queued"}
                => job[d].copy.revised
    /\ u \notin trees =>
         Kinds(u) \cap {"reject", "withdraw"} # {} \/ LeftOut(u)

KeptInv == \A u \in Validated : Kept(u)

\* Some job is executing one of these steps on the upload.
AtWork(u, pcs) == \E d \in Decider : job[d].upload = u /\ job[d].pc \in pcs

\* What is left to do of a decision nobody contradicts is what its job has
\* ahead of it.
ApprovalStands(u) ==
    /\ u \in rows \cap trees
    /\ \/ u \in approved /\ (Current(u) => u \in latest)
       \/ AtWork(u, Approving \ {"save"})
    /\ \/ status[u] \in {"Approved", "Processing_Approval"}
       \/ AtWork(u, Approving) \/ u \in overwritten

RejectionStands(u) ==
    /\ u \in rows
    /\ u \in trees <=> AtWork(u, Rejecting)
    /\ status[u] = "Rejected" \/ AtWork(u, {"reject"}) \/ u \in overwritten

Stands(u) ==
    Sole(u) => /\ "approve" \in Kinds(u) => ApprovalStands(u)
               /\ "reject" \in Kinds(u) => RejectionStands(u)

StandsInv == \A u \in Upload : Stands(u)

-----------------------------------------------------------------------------
(* What a step leaves alone                                                *)

\* The steps of the requests that send a session to review or delete it touch
\* no page, batch or job, and record nothing but that it is to be deleted.
LEMMA SessionStep ==
    ASSUME NEW s \in Session,
           \/ \E U \in SUBSET Upload : CheckReady(s, U)
           \/ SubmitStep(s) \/ CheckDeletable(s) \/ WithdrawStep(s)
    PROVE  /\ UNCHANGED <<original, matched, page, batch, job, dead>>
           /\ \A u \in Upload : \/ decisions'[u] = decisions[u]
                                \/ /\ SessionOf[u] = s
                                   /\ decisions'[u] = decisions[u] \cup {Verdict(s, "withdraw")}
<1>1. UNCHANGED <<original, matched, page, batch, job, dead>>
  BY DEF CheckReady, SubmitStep, MarkReviewing, DispatchMatching,
     SetSessionReviewing, DropNonSelected, CheckDeletable, WithdrawStep,
     DeleteEntities, DeleteSession, rowVars, matchVars, reviewVars
<1>2. \/ decisions' = decisions
      \/ CheckDeletable(s)
  BY DEF CheckReady, SubmitStep, MarkReviewing, DispatchMatching,
     SetSessionReviewing, DropNonSelected, WithdrawStep, DeleteEntities,
     DeleteSession, reviewVars
<1> QED
  BY <1>1, <1>2 DEF CheckDeletable, Verdict, UploadsOf

\* A decision of another kind, or of somebody else, contradicts the first.
LEMMA OneVerdict ==
    ASSUME NEW u, Sole(u)
    PROVE  /\ \A k, l \in Kinds(u) : k = l
           /\ \A d, e, k, l : Verdict(d, k) \in decisions[u] /\ Verdict(e, l) \in decisions[u]
                                => d = e /\ k = l
<1>1. \A k, l \in Kinds(u) : k = l
  BY DEF Sole, Kinds
<1>2. ASSUME NEW d, NEW e, NEW k, NEW l,
             Verdict(d, k) \in decisions[u], Verdict(e, l) \in decisions[u]
      PROVE  d = e /\ k = l
  <2>1. Verdict(d, k) = Verdict(e, l)
    BY <1>2 DEF Sole
  <2> QED
    BY <2>1 DEF Verdict
<1> QED
  BY <1>1, <1>2

\* A decision that is recorded is of its kind.
LEMMA VerdictKind ==
    ASSUME NEW u, NEW d, NEW kind, Verdict(d, kind) \in decisions[u]
    PROVE  kind \in Kinds(u)
<1>1. Verdict(d, kind).kind = kind
  BY DEF Verdict
<1> QED
  BY <1>1 DEF Kinds

-----------------------------------------------------------------------------
(* Boundary matching is over for what it has matched                       *)

\* Every upload is matched once: what is said on its row by a decision taken
\* afterwards is not overwritten by the matching task.
THEOREM MatchedOnceInvariant == Spec => []MatchedOnce
<1>1. Init => MatchedOnce
  <2> SUFFICES ASSUME Init PROVE MatchedOnce
    OBVIOUS
  <2>1. /\ \A s \in Session : submit[s].selected = {}
        /\ \A u \in Upload : match[u].pc = "none"
        /\ matched = {}
    BY DEF Init
  <2> QED
    BY <2>1 DEF MatchedOnce
<1>2. ASSUME TypeOK, MatchedOnce, NEW s \in Session,
             (\E U \in SUBSET Upload : CheckReady(s, U)) \/ SubmitStep(s)
      PROVE  MatchedOnce'
  <2>0. /\ submit \in [Session -> [pc : SubmitPc, selected : SUBSET Upload]]
        /\ \A u \in Upload : SessionOf[u] \in Session
        /\ matched \subseteq Upload /\ matched' = matched
    BY <1>2, SessionStep, ConstantTypes DEF TypeOK, RequestTypes, MatchTypes
  <2>1. CASE (\E U \in SUBSET Upload : CheckReady(s, U)) \/ MarkReviewing(s)
    <3>1. match' = match /\ submit[s].pc \in {"idle", "checked"}
      BY <2>1 DEF CheckReady, MarkReviewing, matchVars
    <3>2. \A z \in Session \ {s} : submit'[z] = submit[z]
      BY <2>0, <2>1 DEF CheckReady, MarkReviewing
    <3> QED
      BY <1>2, <2>0, <2>1, <3>1, <3>2 DEF MatchedOnce, CheckReady,
         MarkReviewing, UploadsOf
  <2>2. CASE DispatchMatching(s)
    <3>1. submit[s].pc = "marked" /\ submit' = [submit EXCEPT ![s].pc = "dispatched"]
      BY <2>2 DEF DispatchMatching
    <3>2. \A u \in Upload :
             \/ match'[u] = match[u]
             \/ u \in submit[s].selected /\ SessionOf[u] = s
      BY <1>2, <2>2 DEF DispatchMatching, MatchedOnce, UploadsOf
    <3>3. \A u \in matched : SessionOf[u] # s
      BY <1>2, <2>0, <3>1 DEF MatchedOnce, UploadsOf
    <3>4. \A z \in Session : submit'[z] = IF z = s THEN [submit[s] EXCEPT !.pc = "dispatched"]
                                                   ELSE submit[z]
      BY <2>0, <3>1
    <3>5. submit'[s].pc = "dispatched" /\ submit'[s].selected = submit[s].selected
      BY <2>0, <3>4
    <3>6. \A z \in Session : submit'[z].selected = submit[z].selected
      BY <3>4, <3>5
    <3>7. \A u \in matched' : match'[u].pc \in {"saved", "done"}
      BY <1>2, <2>0, <3>2, <3>3 DEF MatchedOnce
    <3>8. ASSUME NEW u \in Upload, match'[u].pc # "none"
          PROVE  /\ submit'[SessionOf[u]].pc \in {"dispatched", "cleanup", "done"}
                 /\ u \in submit'[SessionOf[u]].selected
      <4>1. CASE match'[u] = match[u]
        BY <1>2, <2>0, <3>4, <3>5, <3>6, <3>8, <4>1 DEF MatchedOnce
      <4>2. CASE u \in submit[s].selected /\ SessionOf[u] = s
        BY <3>5, <4>2
      <4> QED
        BY <3>2, <4>1, <4>2
    <3> QED
      BY <1>2, <2>0, <3>6, <3>7, <3>8 DEF MatchedOnce, UploadsOf
  <2>3. CASE SetSessionReviewing(s) \/ DropNonSelected(s)
    <3>1. /\ match' = match
          /\ \E pc \in {"cleanup", "done"} : submit' = [submit EXCEPT ![s].pc = pc]
      BY <2>3 DEF SetSessionReviewing, DropNonSelected, matchVars
    <3> QED
      BY <1>2, <2>0, <3>1 DEF MatchedOnce
  <2> QED
    BY <1>2, <2>1, <2>2, <2>3 DEF SubmitStep
<1>3. ASSUME TypeOK, MatchedOnce, NEW u \in Upload, MatchStep(u)
      PROVE  MatchedOnce'
  <2>1. /\ submit' = submit
        /\ \A w \in Upload \ {u} : match'[w] = match[w]
        /\ match[u].pc # "none"
    BY <1>3 DEF MatchStep, ReadForMatching, StartMatching, SetCodeVersion,
       FinishMatching, NotifyMatched, SaveMatching, MatchGoesTo, requestVars,
       TypeOK, MatchTypes
  <2>2. /\ matched' \subseteq matched \cup {u}
        /\ u \in matched' => match'[u].pc \in {"saved", "done"}
    <3>0. match[u] \in [pc : MatchPc, status : UploadStatus, copy : Copy]
      BY <1>3 DEF TypeOK, MatchTypes
    <3>1. CASE u \in matched
      <4>1. match[u].pc \in {"saved", "done"}
        BY <1>3, <3>1 DEF MatchedOnce
      <4>2. NotifyMatched(u)
        BY <1>3, <4>1 DEF MatchStep, ReadForMatching, StartMatching, SetCodeVersion,
           FinishMatching
      <4> QED
        BY <1>3, <3>0, <3>1, <4>2 DEF NotifyMatched, MatchGoesTo, TypeOK, MatchTypes
    <3>2. CASE u \notin matched
      <4>1. CASE FinishMatching(u)
        BY <1>3, <3>0, <3>2, <4>1 DEF FinishMatching, SaveMatching,
           MatchGoesTo, TypeOK, MatchTypes
      <4>2. CASE ~ FinishMatching(u)
        BY <1>3, <3>2, <4>2 DEF MatchStep, ReadForMatching, StartMatching,
           SetCodeVersion, NotifyMatched
      <4> QED
        BY <4>1, <4>2
    <3> QED
      BY <3>1, <3>2
  <2> QED
    BY <1>3, <2>1, <2>2 DEF MatchedOnce, TypeOK, MatchTypes
<1>4. ASSUME TypeOK, MatchedOnce, Next PROVE MatchedOnce'
  <2>1. CASE \/ \E s \in Session : (\E U \in SUBSET Upload : CheckReady(s, U))
                                   \/ SubmitStep(s)
             \/ \E u \in Upload : MatchStep(u)
    BY <1>2, <1>3, <1>4, <2>1
  <2>2. CASE UNCHANGED <<submit, match, matched>>
    BY <1>4, <2>2 DEF MatchedOnce
  <2>3. ASSUME NEW s \in Session, CheckDeletable(s) \/ WithdrawStep(s)
        PROVE  UNCHANGED <<submit, match, matched>>
    BY <2>3 DEF CheckDeletable, WithdrawStep, DeleteEntities, DeleteSession,
       matchVars
  <2>4. ASSUME NEW v \in Visit,
               \/ \E u \in Upload : OpenPage(v, u)
               \/ FetchPendingReviews(v) \/ ClickApprove(v)
               \/ SaveProcessingApproval(v) \/ ClickReject(v) \/ StartApproval(v)
        PROVE  UNCHANGED <<submit, match, matched>>
    BY <2>4 DEF OpenPage, FetchPendingReviews, ClickApprove, SaveProcessingApproval,
       ClickReject, StartApproval, requestVars, matchVars
  <2>5. ASSUME NEW b \in Batch,
               \/ \E U \in SUBSET Upload, a \in BOOLEAN : SubmitBatch(b, U, a)
               \/ BatchStep(b)
        PROVE  UNCHANGED <<submit, match, matched>>
    BY <2>5 DEF SubmitBatch, BatchStep, StartBatch, BatchItem, FinishBatch,
       requestVars, matchVars
  <2>6. ASSUME NEW d \in Decider, JobStep(d) \/ WorkerDies(d)
        PROVE  UNCHANGED <<submit, match, matched>>
    BY <2>6 DEF JobStep, WorkerDies, Supersede, Repoint, Publish, SaveApproved,
       SaveRejected, SaveDecision, CloseApproved, CloseRejected, CloseSession,
       DeleteRejected, FinishDecision, requestVars, matchVars
  <2>7. ASSUME NEW v \in Visit, ReadForRematch(v) \/ SaveRematch(v)
        PROVE  UNCHANGED <<submit, match, matched>>
    BY <1>4, <2>7, RematchFrame
  <2> QED
    BY <1>4, <2>1, <2>2, <2>3, <2>4, <2>5, <2>6, <2>7 DEF Next
<1>5. MatchedOnce /\ UNCHANGED vars => MatchedOnce'
  BY DEF MatchedOnce, vars, requestVars, matchVars
<1> QED
  BY <1>1, <1>4, <1>5, TypeCorrect, PTL DEF Spec

-----------------------------------------------------------------------------
(* Every decision has one author, and every job does what its author decided *)

LEMMA AuthorsSession ==
    ASSUME TypeOK, AuthorsInv, NEW s \in Session,
           \/ \E U \in SUBSET Upload : CheckReady(s, U)
           \/ SubmitStep(s) \/ CheckDeletable(s) \/ WithdrawStep(s)
    PROVE  AuthorsInv'
<1>1. /\ UNCHANGED <<original, matched, page, batch, job>>
      /\ \A u \in Upload : \/ decisions'[u] = decisions[u]
                           \/ /\ SessionOf[u] = s
                              /\ decisions'[u] = decisions[u] \cup {Verdict(s, "withdraw")}
  BY SessionStep
<1>2. ASSUME NEW u \in Upload
      PROVE  decisions[u] \subseteq decisions'[u] /\ Kinds(u) \subseteq Kinds(u)'
  BY <1>1 DEF Kinds
<1>3. ASSUME NEW u \in Upload, NEW x \in decisions'[u] PROVE Taken(u, x)'
  <2>1. CASE x \in decisions[u]
    BY <1>1, <2>1 DEF AuthorsInv, Taken
  <2>2. CASE x = Verdict(s, "withdraw")
    BY <2>2, ReviewAssumption DEF Taken, Verdict, Decider
  <2> QED
    BY <1>1, <1>3, <2>1, <2>2
<1>4. \A d \in Decider : Authored(d)'
  <2>1. \A d \in Decider : job[d].pc # "idle" => job[d].upload \in Upload
    BY DEF TypeOK, ReviewTypes
  <2> QED
    BY <1>1, <1>2, <2>1 DEF AuthorsInv, Authored, Approving, Rejecting
<1>5. \A v \in Visit : page'[v] = "requested"
         => Verdict(v, "approve") \in decisions'[job'[v].upload]
  <2>1. \A v \in Visit : page[v] # "closed" => job[v].upload \in Upload
    BY DEF TypeOK, ReviewTypes
  <2> QED
    BY <1>1, <1>2, <2>1 DEF AuthorsInv
<1>6. ASSUME NEW u \in Upload, withdraw'[SessionOf[u]] # "idle"
      PROVE  "withdraw" \in Kinds(u)'
  <2>1. CASE withdraw[SessionOf[u]] # "idle"
    BY <1>2, <2>1 DEF AuthorsInv
  <2>2. CASE withdraw[SessionOf[u]] = "idle"
    <3>1. \/ CheckDeletable(s)
          \/ withdraw[s] # "idle" /\ \E pc : withdraw' = [withdraw EXCEPT ![s] = pc]
          \/ withdraw' = withdraw
      BY DEF CheckReady, SubmitStep, MarkReviewing, DispatchMatching,
         SetSessionReviewing, DropNonSelected, WithdrawStep, DeleteEntities,
         DeleteSession
    <3>2. SessionOf[u] \in Session /\ withdraw \in [Session -> WithdrawPc]
      BY ConstantTypes DEF TypeOK, RequestTypes
    <3>3. CheckDeletable(s) /\ SessionOf[u] = s
      BY <1>6, <2>2, <3>1, <3>2 DEF CheckDeletable
    <3>4. Verdict(s, "withdraw") \in decisions'[u]
      BY <3>3 DEF CheckDeletable, UploadsOf, Verdict
    <3> QED
      BY <3>4 DEF Verdict, Kinds
  <2> QED
    BY <2>1, <2>2
<1>7. approved' \subseteq approved
  BY DEF CheckReady, SubmitStep, MarkReviewing, DispatchMatching,
     SetSessionReviewing, DropNonSelected, CheckDeletable, WithdrawStep,
     DeleteEntities, DeleteSession, DeleteTrees, entityVars
<1>8. \A u \in Upload : /\ u \in approved' => "approve" \in Kinds(u)'
                        /\ original'[u] \in Upload => "approve" \in Kinds(original[u])'
  BY <1>1, <1>2, <1>7 DEF AuthorsInv
<1> QED
  BY <1>1, <1>3, <1>4, <1>5, <1>6, <1>8 DEF AuthorsInv

LEMMA AuthorsMatch ==
    ASSUME TypeOK, RetirementInv, AuthorsInv, NEW u \in Upload, MatchStep(u)
    PROVE  AuthorsInv'
<1>1. /\ UNCHANGED <<withdraw, approved, page, batch, job, decisions>>
      /\ matched \subseteq matched'
  BY DEF MatchStep, ReadForMatching, StartMatching, SetCodeVersion, FinishMatching,
     NotifyMatched, SaveMatching, entityVars, requestVars, reviewVars
<1>2. \A w \in Upload : original'[w] = original[w] \/ original'[w] \notin Upload
  <2>1. match[u].copy.original \notin Upload
    <3>1. match[u].copy.original = OriginalOf[u]
      BY DEF MatchStep, ReadForMatching, StartMatching, SetCodeVersion,
         FinishMatching, NotifyMatched, RetirementInv, OriginalKept
    <3> QED
      BY <3>1, ReviewAssumption
  <2> QED
    BY <2>1 DEF MatchStep, ReadForMatching, StartMatching, SetCodeVersion,
       FinishMatching, NotifyMatched, SaveMatching, SaveRow, rowVars, TypeOK,
       RowTypes
<1> QED
  BY <1>1, <1>2 DEF AuthorsInv, Taken, Authored, Kinds

LEMMA AuthorsRematch ==
    ASSUME TypeOK, RematchKept, AuthorsInv, NEW v \in Visit,
           ReadForRematch(v) \/ SaveRematch(v)
    PROVE  AuthorsInv'
<1>1. UNCHANGED <<withdraw, approved, page, batch, job, decisions, matched>>
  BY RematchFrame
<1>2. \A w \in Upload : original'[w] = original[w] \/ original'[w] \notin Upload
  <2>1. rematch[v].upload \in Upload => rematch[v].copy.original \notin Upload
    BY ReviewAssumption DEF RematchKept
  <2> QED
    BY <2>1, RematchRows DEF SaveRow, TypeOK, RowTypes
<1> QED
  BY <1>1, <1>2 DEF AuthorsInv, Taken, Authored, Kinds

\* A decision that is being recorded is new, and about a matched upload.
LEMMA DecisionTaken ==
    ASSUME TypeOK, AuthorsInv, NEW w \in Upload, NEW d \in Decider, NEW kind,
           Decide(w, d, kind), w \in matched, matched' = matched,
           \A v \in Visit : page[v] \in {"requested", "answered"} => page'[v] \in {"requested", "answered"},
           d \in Visit => page'[d] \in {"requested", "answered"},
           \A b \in Batch : /\ batch[b].status \in {"Processing", "Done"}
                                 => batch'[b].status \in {"Processing", "Done"}
                            /\ batch'[b].todo \subseteq batch[b].todo,
           d \in Batch => /\ batch'[d].status \in {"Processing", "Done"}
                          /\ w \notin batch'[d].todo
    PROVE  /\ \A u \in Upload : \A x \in decisions'[u] : Taken(u, x)'
           /\ Verdict(d, kind) \in decisions'[w]
           /\ \A u \in Upload : decisions[u] \subseteq decisions'[u]
           /\ \A u \in Upload : Kinds(u) \subseteq Kinds(u)'
<1>1. \A u \in Upload : decisions'[u] = IF u = w THEN decisions[w] \cup {Verdict(d, kind)}
                                                 ELSE decisions[u]
  BY DEF Decide, Verdict, TypeOK, ReviewTypes
<1>2. ASSUME NEW u \in Upload, NEW x \in decisions'[u] PROVE Taken(u, x)'
  <2>1. CASE x \in decisions[u]
    BY <2>1 DEF AuthorsInv, Taken
  <2>2. CASE u = w /\ x = Verdict(d, kind)
    BY <2>2 DEF Taken, Verdict
  <2> QED
    BY <1>1, <1>2, <2>1, <2>2
<1> QED
  BY <1>1, <1>2 DEF Kinds

LEMMA AuthorsVisit ==
    ASSUME TypeOK, ReadinessInv, RetirementInv, AuthorsInv, NEW v \in Visit,
           \/ \E u \in Upload : OpenPage(v, u)
           \/ FetchPendingReviews(v) \/ ClickApprove(v)
           \/ SaveProcessingApproval(v) \/ ClickReject(v) \/ StartApproval(v)
    PROVE  AuthorsInv'
<1>0. v \in Decider /\ Visit \subseteq Decider /\ v \notin Batch /\ job[v] \in JobState
  BY ConstantTypes, ReviewAssumption DEF TypeOK, ReviewTypes
<1>1. UNCHANGED <<matched, batch, withdraw, approved, original>>
  BY DEF OpenPage, FetchPendingReviews, ClickApprove, SaveProcessingApproval,
     ClickReject, StartApproval, entityVars, requestVars, rowVars, matchVars
<1>2. /\ \A d \in Decider \ {v} : job'[d] = job[d]
      /\ \A z \in Visit \ {v} : page'[z] = page[z]
      /\ page[v] \in {"requested", "answered"} => page'[v] \in {"requested", "answered"}
  BY DEF OpenPage, FetchPendingReviews, ClickApprove, SaveProcessingApproval,
     ClickReject, StartApproval, TypeOK, ReviewTypes
<1>3. /\ \A d \in Decider : job[d].pc # "idle" => job[d].upload \in Upload
      /\ \A z \in Visit : page[z] # "closed" => job[z].upload \in Upload
  BY DEF TypeOK, ReviewTypes
<1>4. /\ \A u \in Upload : \A x \in decisions'[u] : Taken(u, x)'
      /\ \A u \in Upload : decisions[u] \subseteq decisions'[u]
      /\ \A u \in Upload : Kinds(u) \subseteq Kinds(u)'
      /\ Authored(v)'
      /\ page'[v] = "requested" => Verdict(v, "approve") \in decisions'[job'[v].upload]
  <2>1. CASE ClickApprove(v) \/ ClickReject(v)
    <3>0. PICK w \in Upload, kind \in {"approve", "reject"} :
             /\ w = job[v].upload /\ Decide(w, v, kind) /\ page[v] = "open"
             /\ \/ kind = "approve" /\ ClickApprove(v)
                \/ kind = "reject" /\ ClickReject(v)
      BY <1>3, <2>1 DEF ClickApprove, ClickReject
    <3>1. w \in matched
      BY <3>0 DEF ReadinessInv
    <3>2. page'[v] \in {"requested", "answered"}
      BY <2>1 DEF ClickApprove, ClickReject, TypeOK, ReviewTypes
    <3>3. /\ \A u \in Upload : \A x \in decisions'[u] : Taken(u, x)'
          /\ Verdict(v, kind) \in decisions'[w]
          /\ \A u \in Upload : decisions[u] \subseteq decisions'[u]
          /\ \A u \in Upload : Kinds(u) \subseteq Kinds(u)'
      <4>1. \A z \in Visit : page[z] \in {"requested", "answered"}
                               => page'[z] \in {"requested", "answered"}
        BY <1>2
      <4> QED
        BY <1>0, <1>1, <3>0, <3>1, <3>2, <4>1, DecisionTaken
    <3>4. /\ job'[v].upload = w
          /\ kind = "approve" => job'[v].pc = "queued"
          /\ kind = "reject" => job'[v].pc = "reject" /\ page'[v] = "answered"
      BY <1>0, <3>0 DEF ClickApprove, ClickReject, TypeOK, ReviewTypes, JobState
    <3> QED
      BY <3>0, <3>3, <3>4 DEF Authored, Approving, Rejecting
  <2>2. CASE ~ (ClickApprove(v) \/ ClickReject(v))
    <3>1. decisions' = decisions
      BY <2>2 DEF OpenPage, FetchPendingReviews, SaveProcessingApproval,
         StartApproval
    <3>2. \A u \in Upload : \A x \in decisions'[u] : Taken(u, x)'
      BY <1>1, <1>2, <3>1 DEF AuthorsInv, Taken
    <3>3. CASE \E u \in Upload : OpenPage(v, u)
      <4>1. page[v] = "closed" /\ page'[v] = "open" /\ job'[v].pc = job[v].pc
        BY <1>0, <3>3 DEF OpenPage, TypeOK, ReviewTypes, JobState
      <4>2. job[v].pc = "idle"
        BY <4>1 DEF RetirementInv, OriginalKept
      <4> QED
        BY <3>1, <3>2, <4>1, <4>2 DEF Authored, Approving, Rejecting, Kinds
    <3>4. CASE FetchPendingReviews(v) \/ SaveProcessingApproval(v)
      <4>1. job' = job /\ page'[v] # "requested"
        BY <3>4 DEF FetchPendingReviews, SaveProcessingApproval, TypeOK, ReviewTypes
      <4> QED
        BY <1>0, <3>1, <3>2, <4>1 DEF AuthorsInv, Authored, Kinds
    <3>5. CASE StartApproval(v)
      <4>1. /\ job[v].pc = "queued" /\ page' = page
            /\ job'[v].upload = job[v].upload
            /\ job'[v].pc \in {"supersede", "publish", "failed"}
        BY <1>0, <3>5 DEF StartApproval, ApprovalStart, TypeOK, ReviewTypes
      <4>2. Verdict(v, "approve") \in decisions[job[v].upload]
        BY <1>0, <4>1 DEF AuthorsInv, Authored, Approving
      <4> QED
        BY <3>1, <3>2, <4>1, <4>2 DEF Authored, Approving, Rejecting, Kinds
    <3> QED
      BY <2>2, <3>3, <3>4, <3>5
  <2> QED
    BY <2>1, <2>2
<1>5. \A d \in Decider : Authored(d)'
  BY <1>2, <1>3, <1>4 DEF AuthorsInv, Authored, Approving, Rejecting
<1>6. \A z \in Visit : page'[z] = "requested"
         => Verdict(z, "approve") \in decisions'[job'[z].upload]
  BY <1>0, <1>2, <1>3, <1>4 DEF AuthorsInv
<1> QED
  BY <1>1, <1>4, <1>5, <1>6 DEF AuthorsInv

LEMMA AuthorsBatch ==
    ASSUME TypeOK, ReadinessInv, AuthorsInv, NEW b \in Batch,
           \/ \E U \in SUBSET Upload, a \in BOOLEAN : SubmitBatch(b, U, a)
           \/ BatchStep(b)
    PROVE  AuthorsInv'
<1>0. b \in Decider /\ b \notin Visit /\ Visit \subseteq Decider /\ batch[b] \in BatchState
  BY ConstantTypes, ReviewAssumption DEF TypeOK, ReviewTypes
<1>1. UNCHANGED <<matched, page, withdraw, approved, original>>
  BY DEF SubmitBatch, BatchStep, StartBatch, BatchItem, FinishBatch, entityVars,
     requestVars, rowVars, matchVars
<1>2. /\ \A d \in Decider \ {b} : job'[d] = job[d]
      /\ \A c \in Batch \ {b} : batch'[c] = batch[c]
  BY DEF SubmitBatch, BatchStep, StartBatch, BatchItem, FinishBatch, TypeOK,
     ReviewTypes
<1>3. /\ \A d \in Decider : job[d].pc # "idle" => job[d].upload \in Upload
      /\ \A z \in Visit : page[z] # "closed" => job[z].upload \in Upload
  BY DEF TypeOK, ReviewTypes
<1>4. \/ batch[b].status = "none"
      \/ /\ batch[b].status \in {"Processing", "Done"}
              => batch'[b].status \in {"Processing", "Done"}
         /\ batch'[b].todo \subseteq batch[b].todo
  BY <1>0 DEF SubmitBatch, BatchStep, StartBatch, BatchItem, FinishBatch, TypeOK,
     ReviewTypes, BatchState
<1>5. /\ \A u \in Upload : \A x \in decisions'[u] : Taken(u, x)'
      /\ \A u \in Upload : decisions[u] \subseteq decisions'[u]
      /\ \A u \in Upload : Kinds(u) \subseteq Kinds(u)'
      /\ Authored(b)'
  <2>1. ASSUME NEW w \in Upload, BatchItem(b, w), Reviewable(w)
        PROVE  <1>5!1 /\ <1>5!2 /\ <1>5!3 /\ <1>5!4
    <3> DEFINE kind == IF batch[b].approve THEN "approve" ELSE "reject"
    <3>1. w \in matched
      BY <2>1 DEF ReadinessInv, Reviewable
    <3>2. batch'[b].status = "Processing" /\ w \notin batch'[b].todo /\ Decide(w, b, kind)
      BY <1>0, <2>1 DEF BatchItem, TypeOK, ReviewTypes, BatchState
    <3>3. \A c \in Batch : /\ batch[c].status \in {"Processing", "Done"}
                                => batch'[c].status \in {"Processing", "Done"}
                           /\ batch'[c].todo \subseteq batch[c].todo
      <4>1. batch[b].status = "Processing"
        BY <2>1 DEF BatchItem
      <4> QED
        BY <1>2, <1>4, <4>1
    <3>4. /\ \A u \in Upload : \A x \in decisions'[u] : Taken(u, x)'
          /\ Verdict(b, kind) \in decisions'[w]
          /\ \A u \in Upload : decisions[u] \subseteq decisions'[u]
          /\ \A u \in Upload : Kinds(u) \subseteq Kinds(u)'
      <4> HIDE DEF kind
      <4> QED
        BY <1>0, <1>1, <3>1, <3>2, <3>3, DecisionTaken
    <3>5. /\ job'[b].upload = w
          /\ kind = "approve" => job'[b].pc \in {"supersede", "publish", "failed"}
          /\ kind = "reject" => job'[b].pc = "reject"
      BY <1>0, <2>1 DEF BatchItem, ApprovalStart, TypeOK, ReviewTypes
    <3>6. Authored(b)'
      BY <3>4, <3>5 DEF Authored, Approving, Rejecting
    <3> QED
      BY <3>4, <3>6
  <2>2. CASE UNCHANGED <<job, decisions>>
    <3>1. ASSUME NEW u \in Upload, NEW x \in decisions[u] PROVE Taken(u, x)'
      BY <1>1, <1>2, <1>4, <3>1 DEF AuthorsInv, Taken
    <3>2. Authored(b)'
      BY <1>0, <2>2 DEF AuthorsInv, Authored
    <3> QED
      BY <2>2, <3>1, <3>2 DEF Kinds
  <2>3. \/ UNCHANGED <<job, decisions>>
        \/ \E u \in Upload : BatchItem(b, u) /\ Reviewable(u)
    BY DEF SubmitBatch, BatchStep, StartBatch, BatchItem, FinishBatch
  <2> QED
    BY <2>1, <2>2, <2>3
<1>6. \A d \in Decider : Authored(d)'
  BY <1>2, <1>3, <1>5 DEF AuthorsInv, Authored, Approving, Rejecting
<1>7. \A z \in Visit : page'[z] = "requested"
         => Verdict(z, "approve") \in decisions'[job'[z].upload]
  BY <1>0, <1>1, <1>2, <1>3, <1>5 DEF AuthorsInv
<1> QED
  BY <1>1, <1>5, <1>6, <1>7 DEF AuthorsInv

\* A job goes from one step of its decision to the next one.
LEMMA JobStages ==
    ASSUME TypeOK, NEW d \in Decider, JobStep(d) \/ WorkerDies(d)
    PROVE  /\ job'[d].pc \in Approving => job[d].pc \in Approving
           /\ job'[d].pc \in Rejecting => job[d].pc \in Rejecting
<1>0. job[d] \in JobState
  BY DEF TypeOK, ReviewTypes
<1> USE DEF Approving, Rejecting, JobGoesTo, TypeOK, ReviewTypes, JobState
<1>1. CASE Supersede(d) \/ Repoint(d) \/ Publish(d)
  <2>1. /\ job[d].pc \in Approving
        /\ job'[d].pc \in {"repoint", "publish", "save", "failed"}
    <3>1. CASE Supersede(d)
      BY <1>0, <3>1 DEF Supersede
    <3>2. CASE Repoint(d)
      BY <1>0, <3>2 DEF Repoint
    <3>3. CASE Publish(d)
      BY <1>0, <3>3 DEF Publish
    <3> QED
      BY <1>1, <3>1, <3>2, <3>3
  <2> QED
    BY <2>1
<1>2. CASE SaveApproved(d) \/ SaveRejected(d) \/ CloseApproved(d) \/ CloseRejected(d)
  BY <1>0, <1>2 DEF SaveApproved, SaveRejected, SaveDecision, CloseApproved,
     CloseRejected, CloseSession
<1>3. CASE DeleteRejected(d) \/ FinishDecision(d)
  BY <1>0, <1>3 DEF DeleteRejected, FinishDecision, JobEnd
<1>4. CASE WorkerDies(d)
  BY <1>4 DEF WorkerDies
<1> QED
  BY <1>1, <1>2, <1>3, <1>4 DEF JobStep

LEMMA AuthorsJob ==
    ASSUME TypeOK, RetirementInv, AuthorsInv, NEW d \in Decider,
           JobStep(d) \/ WorkerDies(d)
    PROVE  AuthorsInv'
<1>1. UNCHANGED <<matched, page, batch, withdraw, decisions>>
  BY DEF JobStep, WorkerDies, Supersede, Repoint, Publish, SaveApproved,
     SaveRejected, SaveDecision, CloseApproved, CloseRejected, CloseSession,
     DeleteRejected, FinishDecision, matchVars, requestVars
<1>2. /\ \A e \in Decider \ {d} : job'[e] = job[e]
      /\ job'[d].upload = job[d].upload
  BY JobMovesOn
<1>3. \A e \in Decider : Authored(e)'
  BY <1>1, <1>2, JobStages DEF AuthorsInv, Authored
<1>4. \A v \in Visit : page'[v] = "requested"
         => Verdict(v, "approve") \in decisions'[job'[v].upload]
  BY <1>1, <1>2, ConstantTypes DEF AuthorsInv
<1>5. job[d].pc \in Approving => "approve" \in Kinds(job[d].upload)
  BY VerdictKind DEF AuthorsInv, Authored
<1>6. \A u \in Upload : u \in approved' => "approve" \in Kinds(u)
  <2>1. CASE Publish(d)
    BY <1>5, <2>1 DEF Publish, AuthorsInv, Approving
  <2>2. CASE ~ Publish(d)
    <3>1. approved' \subseteq approved
      BY <2>2 DEF JobStep, WorkerDies, Supersede, Repoint, SaveApproved,
         SaveRejected, SaveDecision, CloseApproved, CloseRejected, CloseSession,
         DeleteRejected, DeleteTrees, FinishDecision, entityVars
    <3> QED
      BY <3>1 DEF AuthorsInv
  <2> QED
    BY <2>1, <2>2
<1>7. \A u \in Upload : original'[u] \in Upload => "approve" \in Kinds(original'[u])
  <2>1. CASE Repoint(d)
    BY <1>5, <2>1 DEF Repoint, AuthorsInv, Approving
  <2>2. CASE SaveApproved(d) \/ SaveRejected(d)
    <3>1. /\ job[d].upload \in Upload
          /\ job[d].copy.original = OriginalOf[job[d].upload]
      BY <2>2 DEF SaveApproved, SaveRejected, SaveDecision, RetirementInv,
         OriginalKept, TypeOK, ReviewTypes
    <3>2. job[d].copy.original \notin Upload
      BY <3>1, ReviewAssumption
    <3>3. \A u \in Upload : original'[u] \in {original[u], job[d].copy.original}
      BY <2>2 DEF SaveApproved, SaveRejected, SaveDecision, SaveRow, rowVars,
         TypeOK, RowTypes
    <3> QED
      BY <3>2, <3>3 DEF AuthorsInv
  <2>3. CASE ~ (Repoint(d) \/ SaveApproved(d) \/ SaveRejected(d))
    <3>1. original' = original
      BY <2>3 DEF JobStep, WorkerDies, Supersede, Publish, CloseApproved,
         CloseRejected, CloseSession, DeleteRejected, FinishDecision, rowVars
    <3> QED
      BY <3>1 DEF AuthorsInv
  <2> QED
    BY <2>1, <2>2, <2>3
<1> QED
  BY <1>1, <1>3, <1>4, <1>6, <1>7 DEF AuthorsInv, Taken, Kinds

\* Every decision on an upload has one author, who takes it once, and what is
\* approved, retired or repointed was decided by somebody.
THEOREM AuthorsInvariant == Spec => []AuthorsInv
<1>1. Init => AuthorsInv
  <2> SUFFICES ASSUME Init PROVE AuthorsInv
    OBVIOUS
  <2>1. /\ \A d \in Decider : job[d].pc = "idle"
        /\ \A v \in Visit : page[v] = "closed"
        /\ \A u \in Upload : decisions[u] = {} /\ withdraw[SessionOf[u]] = "idle"
    BY ConstantTypes DEF Init
  <2>2. approved = Country /\ original = OriginalOf
    BY DEF Init
  <2>3. \A u \in Upload : u \notin approved /\ original[u] \notin Upload
    BY <2>2, ReviewAssumption
  <2> QED
    BY <2>1, <2>3 DEF AuthorsInv, Authored, Approving, Rejecting
<1>2. ASSUME TypeOK, ReadinessInv, RetirementInv, RematchKept, AuthorsInv, Next
      PROVE  AuthorsInv'
  BY <1>2, AuthorsSession, AuthorsMatch, AuthorsVisit, AuthorsBatch, AuthorsJob,
     AuthorsRematch DEF Next
<1>3. AuthorsInv /\ UNCHANGED vars => AuthorsInv'
  BY DEF AuthorsInv, Taken, Authored, Kinds, vars, rowVars, entityVars, requestVars,
     matchVars, reviewVars
<1> QED
  BY <1>1, <1>2, <1>3, TypeCorrect, ReadinessInvariant, RetirementInvariant, PTL
     DEF Spec

-----------------------------------------------------------------------------
(* The entities of an upload, its row and the copies of the row agree      *)

\* A revision stays left out of the session that was sent without it.
LEMMA LeftOutStays ==
    ASSUME TypeOK, NEW s \in Session, NEW u \in Upload, LeftOut(u),
           \/ \E U \in SUBSET Upload : CheckReady(s, U)
           \/ SubmitStep(s) \/ CheckDeletable(s) \/ WithdrawStep(s)
    PROVE  LeftOut(u)'
<1>0. /\ submit \in [Session -> [pc : SubmitPc, selected : SUBSET Upload]]
      /\ SessionOf[u] \in Session
  BY ConstantTypes DEF TypeOK, RequestTypes
<1>1. ASSUME NEW U \in SUBSET Upload, CheckReady(s, U) PROVE LeftOut(u)'
  BY <1>0, <1>1 DEF CheckReady, LeftOut
<1>2. CASE SubmitStep(s)
  <2>1. \E pc : pc # "idle" /\ submit' = [submit EXCEPT ![s].pc = pc]
    BY <1>2 DEF SubmitStep, MarkReviewing, DispatchMatching, SetSessionReviewing,
       DropNonSelected
  <2> QED
    BY <1>0, <2>1 DEF LeftOut
<1>3. CASE CheckDeletable(s) \/ WithdrawStep(s)
  <2>1. submit' = submit
    BY <1>3 DEF CheckDeletable, WithdrawStep, DeleteEntities, DeleteSession
  <2> QED
    BY <2>1 DEF LeftOut
<1> QED
  BY <1>1, <1>2, <1>3

\* Trees that are deleted because that was asked for leave the rest as it was.
LEMMA DeletionKeeps ==
    ASSUME TypeOK, KeptInv, NEW T \in SUBSET Upload,
           trees' = trees \ T,
           \A u \in Upload \ T : revised'[u] = revised[u],
           \A u \in Upload : match'[u].copy = match[u].copy,
           \A d \in Decider : /\ job'[d].upload = job[d].upload
                              /\ job'[d].copy = job[d].copy
                              /\ job'[d].pc \notin {"idle", "queued"}
                                   => job[d].pc \notin {"idle", "queued"},
           \A u \in Upload : /\ Kinds(u) \subseteq Kinds(u)'
                             /\ LeftOut(u) => LeftOut(u)',
           \A u \in T : Kinds(u) \cap {"reject", "withdraw"} # {} \/ LeftOut(u)
    PROVE  KeptInv'
<1> SUFFICES ASSUME NEW u \in Validated PROVE Kept(u)'
  BY DEF KeptInv
<1>1. u \in Upload /\ Kept(u)
  BY ConstantTypes DEF KeptInv
<1>2. CASE u \in trees'
  <2>1. u \in trees \ T
    BY <1>2
  <2>2. revised'[u] /\ match'[u].copy.revised
    BY <1>1, <2>1 DEF Kept
  <2>3. \A d \in Decider :
           job'[d].upload = u /\ job'[d].pc \notin {"idle", "queued"} => job'[d].copy.revised
    BY <1>1, <2>1 DEF Kept
  <2> QED
    BY <1>2, <2>2, <2>3 DEF Kept
<1>3. CASE u \notin trees'
  BY <1>1, <1>3 DEF Kept
<1> QED
  BY <1>2, <1>3

LEMMA KeptSession ==
    ASSUME TypeOK, MandateInv, KeptInv, NEW s \in Session,
           \/ \E U \in SUBSET Upload : CheckReady(s, U)
           \/ SubmitStep(s) \/ CheckDeletable(s) \/ WithdrawStep(s)
    PROVE  KeptInv'
<1>1. job' = job /\ \A u \in Upload : Kinds(u) \subseteq Kinds(u)'
  BY SessionStep DEF Kinds
<1>2. \A u \in Upload : LeftOut(u) => LeftOut(u)'
  BY LeftOutStays
<1>3. \A u \in Upload : match'[u].copy = match[u].copy
  BY DEF CheckReady, SubmitStep, MarkReviewing, DispatchMatching,
     SetSessionReviewing, DropNonSelected, CheckDeletable, WithdrawStep,
     DeleteEntities, DeleteSession, matchVars, TypeOK, MatchTypes
<1>4. \E T \in SUBSET Upload :
         /\ trees' = trees \ T
         /\ \A u \in Upload \ T : revised'[u] = revised[u]
         /\ \A u \in T : Kinds(u) \cap {"reject", "withdraw"} # {} \/ LeftOut(u)
  <2>1. CASE DropNonSelected(s)
    <3> DEFINE T == {u \in (rows \cap UploadsOf(s)) \ submit[s].selected : revised[u]}
    <3>1. /\ T \in SUBSET Upload /\ trees' = trees \ T
          /\ \A u \in Upload \ T : revised'[u] = revised[u]
      BY <2>1 DEF DropNonSelected, DeleteTrees, UploadsOf, TypeOK, RowTypes
    <3>2. \A u \in T : LeftOut(u)
      BY <2>1 DEF DropNonSelected, LeftOut, UploadsOf
    <3> HIDE DEF T
    <3> QED
      BY <3>1, <3>2
  <2>2. CASE DeleteEntities(s)
    <3> DEFINE T == UploadsOf(s)
    <3>1. /\ T \in SUBSET Upload /\ trees' = trees \ T
          /\ \A u \in Upload \ T : revised'[u] = revised[u]
      BY <2>2 DEF DeleteEntities, DeleteTrees, UploadsOf, TypeOK, RowTypes
    <3>2. \A u \in T : "withdraw" \in Kinds(u)
      BY <2>2 DEF DeleteEntities, MandateInv, UploadsOf
    <3> HIDE DEF T
    <3> QED
      BY <3>1, <3>2
  <2>3. CASE ~ (DropNonSelected(s) \/ DeleteEntities(s))
    <3>1. trees' = trees /\ revised' = revised
      BY <2>3 DEF CheckReady, SubmitStep, MarkReviewing, DispatchMatching,
         SetSessionReviewing, CheckDeletable, WithdrawStep, DeleteSession, rowVars,
         entityVars
    <3> QED
      BY <3>1
  <2> QED
    BY <2>1, <2>2, <2>3
<1> QED
  BY <1>1, <1>2, <1>3, <1>4, DeletionKeeps

LEMMA KeptMatch ==
    ASSUME TypeOK, RetirementInv, KeptInv, NEW u \in Upload, MatchStep(u)
    PROVE  KeptInv'
<1>1. UNCHANGED <<trees, job, decisions, submit>>
  BY DEF MatchStep, ReadForMatching, StartMatching, SetCodeVersion, FinishMatching,
     NotifyMatched, SaveMatching, entityVars, requestVars, reviewVars
<1>2. \A w \in Upload \ {u} : match'[w] = match[w] /\ revised'[w] = revised[w]
  BY DEF MatchStep, ReadForMatching, StartMatching, SetCodeVersion, FinishMatching,
     NotifyMatched, SaveMatching, SaveRow, MatchGoesTo, rowVars, TypeOK, MatchTypes,
     RowTypes
<1>3. /\ match'[u].copy.revised \in {match[u].copy.revised, revised[u]}
      /\ revised'[u] \in {match[u].copy.revised, revised[u]}
  <2>0. match[u] \in [pc : MatchPc, status : UploadStatus, copy : Copy]
    BY DEF TypeOK, MatchTypes
  <2>1. CASE ReadForMatching(u)
    BY <2>1 DEF ReadForMatching, RowCopy, rowVars, TypeOK, MatchTypes
  <2>2. CASE ~ ReadForMatching(u)
    <3>1. match'[u].copy = match[u].copy
      BY <2>0, <2>2 DEF MatchStep, StartMatching, SetCodeVersion, FinishMatching,
         NotifyMatched, SaveMatching, MatchGoesTo, TypeOK, MatchTypes
    <3>2. \/ revised' = revised
          \/ revised' = [revised EXCEPT ![u] = match[u].copy.revised]
      BY <2>2 DEF MatchStep, StartMatching, SetCodeVersion, FinishMatching,
         NotifyMatched, SaveMatching, SaveRow, rowVars
    <3> QED
      BY <3>1, <3>2 DEF TypeOK, RowTypes
  <2> QED
    BY <2>1, <2>2
<1>4. ASSUME NEW w \in Validated PROVE Kept(w)'
  <2>1. w \in Upload /\ Kept(w)
    BY <1>4, ConstantTypes DEF KeptInv
  <2>2. w \in trees => revised'[w] /\ match'[w].copy.revised
    BY <1>2, <1>3, <2>1 DEF Kept
  <2> QED
    BY <1>1, <2>1, <2>2 DEF Kept, Kinds, LeftOut
<1> QED
  BY <1>4 DEF KeptInv

\* What a rematch saves refers to the entities.
LEMMA KeptRematch ==
    ASSUME TypeOK, KeptInv, NEW v \in Visit, ReadForRematch(v) \/ SaveRematch(v)
    PROVE  KeptInv'
<1>1. UNCHANGED <<trees, match, job, decisions, submit>>
  BY RematchFrame
<1>2. \A u \in Upload : revised[u] => revised'[u]
  BY RematchRows DEF SaveRow, TypeOK, RowTypes
<1> QED
  BY <1>1, <1>2, ConstantTypes DEF KeptInv, Kept, Kinds, LeftOut

\* What a visit or a batch starts, it starts with a fresh copy.
LEMMA FreshCopyKeeps ==
    ASSUME KeptInv, UNCHANGED <<trees, revised, match, submit>>,
           \A u \in Upload : Kinds(u) \subseteq Kinds(u)',
           NEW d \in Decider, \A e \in Decider \ {d} : job'[e] = job[e],
           \/ job'[d] = job[d]
           \/ job'[d].pc \in {"idle", "queued"}
           \/ job'[d].copy = RowCopy(job'[d].upload)
    PROVE  KeptInv'
<1> SUFFICES ASSUME NEW u \in Validated PROVE Kept(u)'
  BY DEF KeptInv
<1>1. u \in Upload /\ Kept(u)
  BY ConstantTypes DEF KeptInv
<1>2. RowCopy(u).revised = revised[u]
  BY DEF RowCopy
<1>3. ASSUME u \in trees, NEW e \in Decider,
             job'[e].upload = u, job'[e].pc \notin {"idle", "queued"}
      PROVE  job'[e].copy.revised
  <2>1. CASE job'[e] = job[e]
    BY <1>1, <1>3, <2>1 DEF Kept
  <2>2. CASE job'[e].copy = RowCopy(u)
    BY <1>1, <1>2, <1>3, <2>2 DEF Kept
  <2> QED
    BY <1>3, <2>1, <2>2
<1> QED
  BY <1>1, <1>3 DEF Kept, LeftOut

LEMMA KeptVisit ==
    ASSUME TypeOK, RetirementInv, KeptInv, NEW v \in Visit,
           \/ \E u \in Upload : OpenPage(v, u)
           \/ FetchPendingReviews(v) \/ ClickApprove(v)
           \/ SaveProcessingApproval(v) \/ ClickReject(v) \/ StartApproval(v)
    PROVE  KeptInv'
<1>0. v \in Decider /\ job[v] \in JobState
  BY ConstantTypes DEF TypeOK, ReviewTypes
<1>1. UNCHANGED <<trees, revised, match, submit>>
  BY DEF OpenPage, FetchPendingReviews, ClickApprove, SaveProcessingApproval,
     ClickReject, StartApproval, entityVars, requestVars, rowVars, matchVars
<1>2. \A u \in Upload : Kinds(u) \subseteq Kinds(u)'
  BY DEF OpenPage, FetchPendingReviews, ClickApprove, SaveProcessingApproval,
     ClickReject, StartApproval, Decide, Kinds, TypeOK, ReviewTypes
<1>3. \A d \in Decider \ {v} : job'[d] = job[d]
  BY DEF OpenPage, FetchPendingReviews, ClickApprove, SaveProcessingApproval,
     ClickReject, StartApproval, TypeOK, ReviewTypes
<1>4. \/ job'[v] = job[v]
      \/ job'[v].pc \in {"idle", "queued"}
      \/ job'[v].copy = RowCopy(job'[v].upload)
  <2>1. ASSUME NEW u \in Upload, OpenPage(v, u) PROVE job'[v].pc = "idle"
    BY <1>0, <2>1 DEF OpenPage, TypeOK, ReviewTypes, JobState, RetirementInv,
       OriginalKept
  <2>2. CASE ~ \E u \in Upload : OpenPage(v, u)
    BY <1>0, <2>2 DEF FetchPendingReviews, ClickApprove, SaveProcessingApproval,
       ClickReject, StartApproval, TypeOK, ReviewTypes, JobState
  <2> QED
    BY <2>1, <2>2
<1> QED
  BY <1>0, <1>1, <1>2, <1>3, <1>4, FreshCopyKeeps

LEMMA KeptBatch ==
    ASSUME TypeOK, KeptInv, NEW b \in Batch,
           \/ \E U \in SUBSET Upload, a \in BOOLEAN : SubmitBatch(b, U, a)
           \/ BatchStep(b)
    PROVE  KeptInv'
<1>0. b \in Decider
  BY ConstantTypes
<1>1. UNCHANGED <<trees, revised, match, submit>>
  BY DEF SubmitBatch, BatchStep, StartBatch, BatchItem, FinishBatch, entityVars,
     requestVars, rowVars, matchVars
<1>2. \A u \in Upload : Kinds(u) \subseteq Kinds(u)'
  BY DEF SubmitBatch, BatchStep, StartBatch, BatchItem, FinishBatch, Decide, Kinds,
     TypeOK, ReviewTypes
<1>3. /\ \A d \in Decider \ {b} : job'[d] = job[d]
      /\ job'[b] = job[b] \/ job'[b].copy = RowCopy(job'[b].upload)
  BY <1>0 DEF SubmitBatch, BatchStep, StartBatch, BatchItem, FinishBatch, TypeOK,
     ReviewTypes
<1> QED
  BY <1>0, <1>1, <1>2, <1>3, FreshCopyKeeps

LEMMA KeptJob ==
    ASSUME TypeOK, ReadinessInv, RetirementInv, AuthorsInv, KeptInv,
           NEW d \in Decider, JobStep(d) \/ WorkerDies(d)
    PROVE  KeptInv'
<1>1. UNCHANGED <<match, decisions, submit>>
  BY DEF JobStep, WorkerDies, Supersede, Repoint, Publish, SaveApproved,
     SaveRejected, SaveDecision, CloseApproved, CloseRejected, CloseSession,
     DeleteRejected, FinishDecision, matchVars, requestVars
<1>2. /\ \A e \in Decider : job'[e].upload = job[e].upload /\ job'[e].copy = job[e].copy
      /\ \A e \in Decider : job'[e].pc \notin {"idle", "queued"}
                              => job[e].pc \notin {"idle", "queued"}
  <2>1. /\ \A e \in Decider \ {d} : job'[e] = job[e]
        /\ job'[d].upload = job[d].upload /\ job'[d].copy = job[d].copy
    BY JobMovesOn
  <2>2. job[d].pc \notin {"idle", "queued"}
    BY DEF JobStep, WorkerDies, Supersede, Repoint, Publish, SaveApproved,
       SaveRejected, SaveDecision, CloseApproved, CloseRejected, CloseSession,
       DeleteRejected, FinishDecision
  <2> QED
    BY <2>1, <2>2
<1>3. CASE SaveApproved(d) \/ SaveRejected(d)
  <2>1. /\ job[d].pc \notin {"idle", "queued"} /\ trees' = trees
        /\ revised' = revised \/ revised' = [revised EXCEPT ![job[d].upload] = job[d].copy.revised]
    BY <1>3 DEF SaveApproved, SaveRejected, SaveDecision, SaveRow, entityVars,
       rowVars
  <2>2. ASSUME NEW u \in Validated PROVE Kept(u)'
    <3>1. u \in Upload /\ Kept(u)
      BY <2>2, ConstantTypes DEF KeptInv
    <3>2. u \in trees => revised'[u]
      BY <2>1, <3>1 DEF Kept, TypeOK, RowTypes
    <3> QED
      BY <1>1, <1>2, <2>1, <3>1, <3>2 DEF Kept, Kinds, LeftOut
  <2> QED
    BY <2>2 DEF KeptInv
<1>4. CASE ~ (SaveApproved(d) \/ SaveRejected(d))
  <2>1. \E T \in SUBSET Upload :
           /\ trees' = trees \ T
           /\ \A u \in Upload \ T : revised'[u] = revised[u]
           /\ \A u \in T : Kinds(u) \cap {"reject", "withdraw"} # {} \/ LeftOut(u)
    <3>1. CASE DeleteRejected(d)
      <4>0. PICK u \in Upload : u = job[d].upload
        BY <3>1 DEF DeleteRejected, TypeOK, ReviewTypes
      <4>1. PICK T \in SUBSET {u} : DeleteTrees(T)
        BY <3>1, <4>0 DEF DeleteRejected
      <4>2. "reject" \in Kinds(u)
        BY <3>1, <4>0, VerdictKind DEF DeleteRejected, AuthorsInv, Authored,
           Rejecting
      <4>3. \A w \in Upload \ T : revised'[w] = revised[w]
        BY <4>1 DEF DeleteTrees, TypeOK, RowTypes
      <4> QED
        BY <4>1, <4>2, <4>3 DEF DeleteTrees
    <3>2. CASE ~ DeleteRejected(d)
      <4>1. trees' = trees /\ revised' = revised
        BY <1>4, <3>2 DEF JobStep, WorkerDies, Supersede, Repoint, Publish,
           CloseApproved, CloseRejected, CloseSession, FinishDecision, rowVars,
           entityVars
      <4> QED
        BY <4>1
    <3> QED
      BY <3>1, <3>2
  <2>2. \A u \in Upload : /\ match'[u].copy = match[u].copy
                          /\ Kinds(u) \subseteq Kinds(u)'
                          /\ LeftOut(u) => LeftOut(u)'
    BY <1>1 DEF Kinds, LeftOut
  <2> QED
    BY <1>2, <2>1, <2>2, DeletionKeeps
<1> QED
  BY <1>3, <1>4

\* No save of a stale copy detaches a row from entities that exist, and
\* entities that are gone were rejected, withdrawn or left out.
THEOREM KeptInvariant == Spec => []KeptInv
<1>1. Init => KeptInv
  <2> SUFFICES ASSUME Init, NEW u \in Validated PROVE Kept(u)
    BY DEF KeptInv
  <2>1. u \in Upload /\ u \in trees
    BY ConstantTypes DEF Init
  <2>2. revised[u] /\ match[u].copy.revised
    BY <2>1 DEF Init, RowCopy
  <2>3. \A d \in Decider : job[d].pc = "idle"
    BY DEF Init
  <2> QED
    BY <2>1, <2>2, <2>3 DEF Kept
<1>2. ASSUME TypeOK, ReadinessInv, RetirementInv, MandateInv, AuthorsInv, KeptInv, Next
      PROVE  KeptInv'
  BY <1>2, KeptSession, KeptMatch, KeptVisit, KeptBatch, KeptJob, KeptRematch
     DEF Next
<1>3. KeptInv /\ UNCHANGED vars => KeptInv'
  BY DEF KeptInv, Kept, Kinds, LeftOut, vars, rowVars, entityVars, requestVars,
     matchVars, reviewVars
<1> QED
  BY <1>1, <1>2, <1>3, TypeCorrect, ReadinessInvariant, RetirementInvariant,
     MandateInvariant, AuthorsInvariant, PTL DEF Spec

-----------------------------------------------------------------------------
(* A decision nobody contradicts is carried out                            *)

\* What was decided on, approving or rejecting it
Judged(u) == Kinds(u) \cap {"approve", "reject"} # {}

\* An upload that was judged was matched, so it was validated and selected,
\* and it revises what it always did.
LEMMA JudgedMatched ==
    ASSUME TypeOK, ReadinessInv, RetirementInv, MatchedOnce, AuthorsInv,
           NEW u \in Upload, Judged(u) \/ u \in matched
    PROVE  /\ u \in matched /\ u \in Validated
           /\ match[u].pc \in {"saved", "done"}
           /\ submit[SessionOf[u]].pc \in {"dispatched", "cleanup", "done"}
           /\ u \in submit[SessionOf[u]].selected
           /\ original[u] \in Country \cup {None}
<1>1. u \in matched
  BY DEF AuthorsInv, Taken, Judged, Kinds
<1>2. u \in Validated
  BY <1>1, DecidedValidated DEF RetirementInv
<1>3. match[u].pc \in {"saved", "done"}
  BY <1>1 DEF MatchedOnce
<1>4. original[u] = OriginalOf[u]
  BY <1>2 DEF RetirementInv, OriginalKept
<1> QED
  BY <1>1, <1>2, <1>3, <1>4, ConstantTypes DEF MatchedOnce

\* The entities of an upload that was matched and that nobody has decided on
\* yet are there, and its row refers to them.
LEMMA UndecidedThere ==
    ASSUME TypeOK, ReadinessInv, RetirementInv, MatchedOnce, AuthorsInv, KeptInv,
           NEW u \in matched, decisions[u] = {}
    PROVE  u \in trees /\ revised[u]
<1>1. /\ u \in Validated /\ u \in Upload
      /\ u \in submit[SessionOf[u]].selected
  BY JudgedMatched, ConstantTypes DEF TypeOK, MatchTypes
<1>2. ~ LeftOut(u)
  BY <1>1 DEF LeftOut
<1>3. Kinds(u) = {}
  BY DEF Kinds
<1> QED
  BY <1>1, <1>2, <1>3 DEF KeptInv, Kept

\* Nothing happened to the upload.
LEMMA Untouched ==
    ASSUME NEW u \in Upload, Stands(u), decisions'[u] = decisions[u],
           u \in rows => u \in rows',
           u \in trees' <=> u \in trees,
           u \in approved => u \in approved',
           u \in latest => u \in latest',
           status'[u] = status[u] \/ u \in overwritten',
           u \in overwritten => u \in overwritten',
           \A pcs \in {Approving, Approving \ {"save"}, Rejecting, {"reject"}} :
             AtWork(u, pcs)' <=> AtWork(u, pcs)
    PROVE  Stands(u)'
<1>1. (Sole(u)' <=> Sole(u)) /\ Kinds(u)' = Kinds(u)
  BY DEF Sole, Kinds
<1>2. /\ AtWork(u, Approving)' <=> AtWork(u, Approving)
      /\ AtWork(u, Approving \ {"save"})' <=> AtWork(u, Approving \ {"save"})
      /\ AtWork(u, Rejecting)' <=> AtWork(u, Rejecting)
      /\ AtWork(u, {"reject"})' <=> AtWork(u, {"reject"})
  OBVIOUS
<1> QED
  BY <1>1, <1>2 DEF Stands, ApprovalStands, RejectionStands, Current

\* The first decision on an upload is taken by d.
LEMMA FirstDecision ==
    ASSUME NEW u \in Upload, NEW d, NEW kind, Decide(u, d, kind), TypeOK,
           \A x \in decisions[u] : x.by # d, Sole(u)'
    PROVE  decisions[u] = {} /\ Kinds(u)' = {kind}
<1>1. decisions'[u] = decisions[u] \cup {Verdict(d, kind)}
  BY DEF Decide, Verdict, TypeOK, ReviewTypes
<1>2. decisions[u] = {}
  <2> SUFFICES ASSUME NEW x \in decisions[u] PROVE FALSE
    OBVIOUS
  <2>1. x = Verdict(d, kind)
    BY <1>1 DEF Sole
  <2> QED
    BY <2>1 DEF Verdict
<1>3. decisions'[u] = {Verdict(d, kind)} /\ Verdict(d, kind).kind = kind
  BY <1>1, <1>2 DEF Verdict
<1> QED
  BY <1>2, <1>3 DEF Kinds

LEMMA StandsSession ==
    ASSUME overwritten \subseteq overwritten', TypeOK, ReadinessInv, RetirementInv, MatchedOnce, AuthorsInv, StandsInv,
           NEW s \in Session,
           \/ \E U \in SUBSET Upload : CheckReady(s, U)
           \/ SubmitStep(s) \/ CheckDeletable(s) \/ WithdrawStep(s)
    PROVE  StandsInv'
<1> SUFFICES ASSUME NEW u \in Upload, Sole(u)', Judged(u)' PROVE Stands(u)'
  BY DEF StandsInv, Stands, Judged
<1>1. decisions'[u] = decisions[u]
  <2>1. ASSUME decisions'[u] = decisions[u] \cup {Verdict(s, "withdraw")}
        PROVE  FALSE
    <3>1. Verdict(s, "withdraw").kind = "withdraw"
      BY DEF Verdict
    <3>2. PICK x \in decisions'[u] : x.kind \in {"approve", "reject"}
      BY DEF Judged, Kinds
    <3> QED
      BY <2>1, <3>1, <3>2 DEF Sole
  <2> QED
    BY <2>1, SessionStep
<1>2. Sole(u) /\ Judged(u) /\ Stands(u)
  BY <1>1 DEF Sole, Judged, Kinds, StandsInv
<1>3. "withdraw" \notin Kinds(u)
  BY <1>2, OneVerdict DEF Judged
<1>4. withdraw[SessionOf[u]] = "idle"
  BY <1>3 DEF AuthorsInv
<1>5. /\ submit[SessionOf[u]].pc \in {"dispatched", "cleanup", "done"}
      /\ u \in submit[SessionOf[u]].selected
      /\ original[u] \notin Upload
  BY <1>2, JudgedMatched, ReviewAssumption
<1>6. \E T \in SUBSET (Upload \ {u}) :
         /\ trees' = trees \ T /\ latest' = latest \ T /\ approved' = approved \ T
         /\ \A w \in rows : original[w] \notin T /\ SessionOf[w] = SessionOf[u] => w \in rows'
  <2>1. CASE DropNonSelected(s)
    <3> DEFINE T == {w \in (rows \cap UploadsOf(s)) \ submit[s].selected : revised[w]}
    <3>1. T \subseteq Upload /\ DeleteTrees(T)
      BY <2>1 DEF DropNonSelected, UploadsOf
    <3>2. u \notin T
      BY <1>5 DEF UploadsOf
    <3> HIDE DEF T
    <3> QED
      BY <3>1, <3>2 DEF DeleteTrees
  <2>2. CASE DeleteEntities(s)
    <3>1. u \notin UploadsOf(s) /\ UploadsOf(s) \subseteq Upload
      BY <1>4, <2>2 DEF DeleteEntities, UploadsOf
    <3> QED
      BY <2>2, <3>1 DEF DeleteEntities, DeleteTrees
  <2>3. CASE DeleteSession(s)
    <3>1. SessionOf[u] # s
      BY <1>4, <2>3 DEF DeleteSession
    <3> QED
      BY <2>3, <3>1 DEF DeleteSession, UploadsOf, entityVars
  <2>4. CASE ~ (DropNonSelected(s) \/ DeleteEntities(s) \/ DeleteSession(s))
    <3>1. UNCHANGED <<trees, latest, approved, rows>>
      BY <2>4 DEF CheckReady, SubmitStep, MarkReviewing, DispatchMatching,
         SetSessionReviewing, CheckDeletable, WithdrawStep, rowVars, entityVars
    <3> QED
      BY <3>1
  <2> QED
    BY <2>1, <2>2, <2>3, <2>4
<1>7. status'[u] = status[u]
  <2>1. CASE MarkReviewing(s)
    <3>1. submit[s].selected \subseteq UploadsOf(s)
      BY DEF MatchedOnce
    <3>2. u \notin submit[s].selected
      BY <1>5, <2>1, <3>1 DEF MarkReviewing, UploadsOf
    <3> QED
      BY <2>1, <3>2 DEF MarkReviewing
  <2>2. CASE ~ MarkReviewing(s)
    <3>1. status' = status
      BY <2>2 DEF CheckReady, SubmitStep, DispatchMatching, SetSessionReviewing,
         DropNonSelected, CheckDeletable, WithdrawStep, DeleteEntities,
         DeleteSession, rowVars
    <3> QED
      BY <3>1
  <2> QED
    BY <2>1, <2>2
<1>8. u \in rows => u \in rows'
  BY <1>5, <1>6
<1>9. /\ u \in trees' <=> u \in trees
      /\ u \in approved => u \in approved'
      /\ u \in latest => u \in latest'
  BY <1>6
<1>10. job' = job
  BY SessionStep
<1>11. \A pcs : AtWork(u, pcs)' <=> AtWork(u, pcs)
  BY <1>10 DEF AtWork
<1> QED
  BY <1>1, <1>2, <1>7, <1>8, <1>9, <1>11, Untouched

\* A rematch may lose the status in the row, which is then on record.
LEMMA StandsRematch ==
    ASSUME TypeOK, StandsInv, NEW v \in Visit,
           ReadForRematch(v) \/ SaveRematch(v)
    PROVE  StandsInv'
<1> SUFFICES ASSUME NEW u \in Upload PROVE Stands(u)'
  BY DEF StandsInv
<1>1. UNCHANGED <<trees, latest, approved, job, decisions>>
  BY RematchFrame
<1>2. u \in rows => u \in rows'
  BY RematchRows DEF SaveRow
<1>3. status'[u] = status[u] \/ u \in overwritten'
  <2>1. CASE UNCHANGED <<rows, status, ready, revised, original>>
    BY <2>1
  <2>2. CASE /\ SaveRematch(v) /\ rematch[v].upload \in Upload
             /\ rematch[v].copy.revised
             /\ CanSave(rematch[v].upload, rematch[v].copy)
             /\ SaveRow(rematch[v].upload, rematch[v].copy, rematch[v].status,
                        "true")
    <3>1. CASE UNCHANGED rowVars
      BY <3>1 DEF rowVars
    <3>2. CASE /\ rematch[v].copy.revised
               /\ session[SessionOf[rematch[v].upload]] # "Gone"
               /\ CanSave(rematch[v].upload, rematch[v].copy)
      <4>1. status[rematch[v].upload] # rematch[v].status
              => rematch[v].upload \in overwritten'
        BY <2>2, <3>2 DEF SaveRematch
      <4>2. status'[u] = IF u = rematch[v].upload THEN rematch[v].status
                                                  ELSE status[u]
        BY <2>2 DEF SaveRow, TypeOK, RowTypes
      <4> QED
        BY <4>1, <4>2
    <3> QED
      BY <2>2, <3>1, <3>2 DEF SaveRematch
  <2> QED
    BY <2>1, <2>2, RematchRows
<1>4. u \in overwritten => u \in overwritten'
  BY DEF ReadForRematch, SaveRematch
<1>5. Stands(u) /\ decisions'[u] = decisions[u]
  BY <1>1 DEF StandsInv
<1>6. \A pcs : AtWork(u, pcs)' <=> AtWork(u, pcs)
  BY <1>1 DEF AtWork
<1> QED
  BY <1>1, <1>2, <1>3, <1>4, <1>5, <1>6, Untouched

LEMMA StandsMatch ==
    ASSUME overwritten \subseteq overwritten', TypeOK, ReadinessInv, RetirementInv, MatchedOnce, AuthorsInv, StandsInv,
           NEW w \in Upload, MatchStep(w)
    PROVE  StandsInv'
<1> SUFFICES ASSUME NEW u \in Upload, Judged(u)' PROVE Stands(u)'
  BY DEF StandsInv, Stands, Judged
<1>1. UNCHANGED <<trees, latest, approved, job, decisions>>
  BY DEF MatchStep, ReadForMatching, StartMatching, SetCodeVersion, FinishMatching,
     NotifyMatched, SaveMatching, entityVars, reviewVars
<1>2. Judged(u) /\ Stands(u)
  BY <1>1 DEF Judged, Kinds, StandsInv
<1>3. match[u].pc \in {"saved", "done"}
  BY <1>2, JudgedMatched
<1>4. status'[u] = status[u] /\ rows \subseteq rows'
  <2>1. CASE w = u
    <3>1. NotifyMatched(u)
      BY <1>3, <2>1 DEF MatchStep, ReadForMatching, StartMatching, SetCodeVersion,
         FinishMatching
    <3> QED
      BY <3>1 DEF NotifyMatched, rowVars
  <2>2. CASE w # u
    BY <2>2 DEF MatchStep, ReadForMatching, StartMatching, SetCodeVersion,
       FinishMatching, NotifyMatched, SaveMatching, SaveRow, rowVars, TypeOK,
       RowTypes
  <2> QED
    BY <2>1, <2>2
<1>5. \A pcs : AtWork(u, pcs)' <=> AtWork(u, pcs)
  BY <1>1 DEF AtWork
<1> QED
  BY <1>1, <1>2, <1>4, <1>5, Untouched

\* A job that is not at work on the upload, before or after the step, does not
\* count for it.
LEMMA WorkElsewhere ==
    ASSUME NEW u \in Upload, NEW d \in Decider,
           \A e \in Decider \ {d} : job'[e] = job[e],
           job[d].upload # u \/ job[d].pc \notin Approving \cup Rejecting,
           job'[d].upload # u \/ job'[d].pc \notin Approving \cup Rejecting
    PROVE  \A pcs \in {Approving, Approving \ {"save"}, Rejecting, {"reject"}} :
             AtWork(u, pcs)' <=> AtWork(u, pcs)
<1> SUFFICES ASSUME NEW pcs \in {Approving, Approving \ {"save"}, Rejecting, {"reject"}}
             PROVE  AtWork(u, pcs)' <=> AtWork(u, pcs)
  OBVIOUS
<1>1. pcs \subseteq Approving \cup Rejecting
  BY DEF Rejecting
<1> QED
  BY <1>1 DEF AtWork

LEMMA StandsVisit ==
    ASSUME overwritten \subseteq overwritten', TypeOK, ReadinessInv, RetirementInv, MatchedOnce, AuthorsInv, KeptInv,
           StandsInv, NEW v \in Visit,
           \/ \E u \in Upload : OpenPage(v, u)
           \/ FetchPendingReviews(v) \/ ClickApprove(v)
           \/ SaveProcessingApproval(v) \/ ClickReject(v) \/ StartApproval(v)
    PROVE  StandsInv'
<1>0. v \in Decider /\ job[v] \in JobState
  BY ConstantTypes DEF TypeOK, ReviewTypes
<1>1. UNCHANGED <<rows, trees, latest, approved, matched>>
  BY DEF OpenPage, FetchPendingReviews, ClickApprove, SaveProcessingApproval,
     ClickReject, StartApproval, entityVars, rowVars, matchVars
<1>2. \A d \in Decider \ {v} : job'[d] = job[d]
  BY DEF OpenPage, FetchPendingReviews, ClickApprove, SaveProcessingApproval,
     ClickReject, StartApproval, TypeOK, ReviewTypes
<1>3. /\ \A d \in Decider : job[d].pc # "idle" => job[d].upload \in Upload
      /\ \A z \in Visit : page[z] # "closed" => job[z].upload \in Upload
  BY DEF TypeOK, ReviewTypes
<1> SUFFICES ASSUME NEW u \in Upload, Sole(u)' PROVE Stands(u)'
  BY DEF StandsInv, Stands
<1>4. Stands(u)
  BY DEF StandsInv
<1>5. ASSUME NEW w \in Upload, OpenPage(v, w) PROVE Stands(u)'
  <2>1. job[v].pc = "idle" /\ job'[v].pc = "idle"
    BY <1>0, <1>5 DEF OpenPage, TypeOK, ReviewTypes, JobState, RetirementInv,
       OriginalKept
  <2>2. "idle" \notin Approving \cup Rejecting
    BY DEF Approving, Rejecting
  <2>3. status' = status /\ decisions' = decisions
    BY <1>5 DEF OpenPage, rowVars
  <2> QED
    BY <1>0, <1>1, <1>2, <1>4, <2>1, <2>2, <2>3, WorkElsewhere, Untouched
<1>6. CASE FetchPendingReviews(v)
  <2>1. UNCHANGED <<job, status, decisions>>
    BY <1>6 DEF FetchPendingReviews, rowVars
  <2>2. \A pcs : AtWork(u, pcs)' <=> AtWork(u, pcs)
    BY <2>1 DEF AtWork
  <2> QED
    BY <1>1, <1>4, <2>1, <2>2, Untouched
<1>7. CASE SaveProcessingApproval(v)
  <2>1. UNCHANGED <<job, decisions>> /\ page[v] = "requested"
    BY <1>7 DEF SaveProcessingApproval
  <2>2. \A pcs : AtWork(u, pcs)' <=> AtWork(u, pcs)
    BY <2>1 DEF AtWork
  <2>3. CASE status'[u] = status[u]
    BY <1>1, <1>4, <2>1, <2>2, <2>3, Untouched
  <2>4. CASE status'[u] # status[u]
    <3>1. u = job[v].upload /\ status'[u] = "Processing_Approval"
      BY <1>7, <2>4 DEF SaveProcessingApproval
    <3>2. Verdict(v, "approve") \in decisions[u]
      BY <2>1, <3>1 DEF AuthorsInv
    <3>3. Sole(u) /\ Kinds(u)' = Kinds(u)
      BY <2>1 DEF Sole, Kinds
    <3>4. "approve" \in Kinds(u) /\ "reject" \notin Kinds(u)
      BY <3>2, <3>3, VerdictKind, OneVerdict
    <3>5. ApprovalStands(u)'
      BY <1>1, <1>4, <2>2, <3>1, <3>3, <3>4 DEF Stands, ApprovalStands, Current
    <3> QED
      BY <3>3, <3>4, <3>5 DEF Stands
  <2> QED
    BY <2>3, <2>4
<1>8. CASE ClickApprove(v) \/ ClickReject(v)
  <2>0. PICK w \in Upload, kind \in {"approve", "reject"} :
           /\ w = job[v].upload /\ Decide(w, v, kind) /\ page[v] = "open" /\ w \in rows
           /\ \/ kind = "approve" /\ ClickApprove(v)
              \/ kind = "reject" /\ ClickReject(v)
    BY <1>3, <1>8 DEF ClickApprove, ClickReject
  <2>1. /\ job'[v].upload = w /\ status' = status
        /\ kind = "approve" => job'[v].pc = "queued"
        /\ kind = "reject" => job'[v].pc = "reject"
    BY <1>0, <2>0 DEF ClickApprove, ClickReject, TypeOK, ReviewTypes,
       JobState, rowVars
  <2>2. CASE u # w
    <3>1. decisions'[u] = decisions[u]
      BY <2>0, <2>2 DEF Decide, TypeOK, ReviewTypes
    <3> QED
      BY <1>0, <1>1, <1>2, <1>4, <2>0, <2>1, <2>2, <3>1, WorkElsewhere, Untouched
  <2>3. CASE u = w
    <3>1. \A x \in decisions[u] : x.by # v
      BY <2>0 DEF AuthorsInv, Taken
    <3>2. decisions[u] = {} /\ Kinds(u)' = {kind}
      BY <1>0, <2>0, <2>3, <3>1, FirstDecision
    <3>3. u \in matched
      BY <2>0, <2>3 DEF ReadinessInv
    <3>4. u \in trees
      BY <3>2, <3>3, UndecidedThere
    <3>5. kind = "approve" => AtWork(u, Approving \ {"save"})' /\ AtWork(u, Approving)'
      BY <1>0, <2>1, <2>3 DEF AtWork, Approving
    <3>6. kind = "reject" => AtWork(u, Rejecting)' /\ AtWork(u, {"reject"})'
      BY <1>0, <2>1, <2>3 DEF AtWork, Rejecting
    <3> QED
      BY <1>1, <2>0, <2>3, <3>2, <3>4, <3>5, <3>6
         DEF Stands, ApprovalStands, RejectionStands
  <2> QED
    BY <2>2, <2>3
<1>9. CASE StartApproval(v)
  <2>0. PICK w \in Upload : w = job[v].upload
    BY <1>0, <1>3, <1>9 DEF StartApproval
  <2>1. /\ job[v].pc = "queued" /\ UNCHANGED <<status, decisions>>
        /\ job'[v].upload = w
        /\ job'[v].pc = IF w \in rows /\ revised[w] THEN ApprovalStart(w) ELSE "failed"
    BY <1>0, <1>9, <2>0 DEF StartApproval, TypeOK, ReviewTypes, rowVars
  <2>2. CASE u # w
    BY <1>0, <1>1, <1>2, <1>4, <2>0, <2>1, <2>2, WorkElsewhere, Untouched
  <2>3. CASE u = w
    <3>1. Verdict(v, "approve") \in decisions[u]
      BY <1>0, <2>0, <2>1, <2>3 DEF AuthorsInv, Authored, Approving
    <3>2. Sole(u) /\ Kinds(u)' = Kinds(u)
      BY <2>1 DEF Sole, Kinds
    <3>3. "approve" \in Kinds(u) /\ "reject" \notin Kinds(u)
      BY <3>1, <3>2, VerdictKind, OneVerdict
    <3>4. u \in rows /\ u \in trees /\ u \in Validated
      <4>1. u \in Validated
        BY <3>3, JudgedMatched DEF Judged
      <4> QED
        BY <1>4, <3>2, <3>3, <4>1 DEF Stands, ApprovalStands
    <3>5. revised[u]
      BY <3>4 DEF KeptInv, Kept
    <3>6. job'[v].pc \in {"supersede", "publish"}
      BY <2>1, <2>3, <3>4, <3>5 DEF ApprovalStart
    <3>7. AtWork(u, Approving \ {"save"})' /\ AtWork(u, Approving)'
      BY <1>0, <2>1, <2>3, <3>6 DEF AtWork, Approving
    <3> QED
      BY <1>1, <3>2, <3>3, <3>4, <3>7 DEF Stands, ApprovalStands
  <2> QED
    BY <2>2, <2>3
<1> QED
  BY <1>5, <1>6, <1>7, <1>8, <1>9

LEMMA StandsBatch ==
    ASSUME overwritten \subseteq overwritten', TypeOK, ReadinessInv, RetirementInv, MatchedOnce, AuthorsInv, KeptInv,
           StandsInv, NEW b \in Batch,
           \/ \E U \in SUBSET Upload, a \in BOOLEAN : SubmitBatch(b, U, a)
           \/ BatchStep(b)
    PROVE  StandsInv'
<1>0. b \in Decider
  BY ConstantTypes
<1>1. UNCHANGED <<rows, status, revised, trees, latest, approved, matched>>
  BY DEF SubmitBatch, BatchStep, StartBatch, BatchItem, FinishBatch, entityVars,
     rowVars, matchVars
<1>2. \A d \in Decider \ {b} : job'[d] = job[d]
  BY DEF SubmitBatch, BatchStep, StartBatch, BatchItem, FinishBatch, TypeOK,
     ReviewTypes
<1> SUFFICES ASSUME NEW u \in Upload, Sole(u)' PROVE Stands(u)'
  BY DEF StandsInv, Stands
<1>3. Stands(u)
  BY DEF StandsInv
<1>4. ASSUME NEW w \in Upload, BatchItem(b, w), Reviewable(w) PROVE Stands(u)'
  <2> DEFINE kind == IF batch[b].approve THEN "approve" ELSE "reject"
  <2>1. /\ job[b].pc = "idle" /\ job'[b].upload = w /\ Decide(w, b, kind)
        /\ kind = "approve" => job'[b].pc = IF revised[w] THEN ApprovalStart(w) ELSE "failed"
        /\ kind = "reject" => job'[b].pc = "reject"
    BY <1>0, <1>4 DEF BatchItem, TypeOK, ReviewTypes
  <2>2. CASE u # w
    <3>1. decisions'[u] = decisions[u]
      BY <2>1, <2>2 DEF Decide, TypeOK, ReviewTypes
    <3>2. "idle" \notin Approving \cup Rejecting
      BY DEF Approving, Rejecting
    <3> QED
      BY <1>0, <1>1, <1>2, <1>3, <2>1, <2>2, <3>1, <3>2, WorkElsewhere, Untouched
  <2>3. CASE u = w
    <3>1. \A x \in decisions[u] : x.by # b
      BY <1>4, <2>3 DEF AuthorsInv, Taken, BatchItem
    <3>2. decisions[u] = {} /\ Kinds(u)' = {kind} /\ kind \in {"approve", "reject"}
      <4> HIDE DEF kind
      <4>1. decisions[u] = {} /\ Kinds(u)' = {kind}
        BY <1>0, <2>1, <2>3, <3>1, FirstDecision
      <4>2. kind \in {"approve", "reject"}
        BY DEF kind
      <4> QED
        BY <4>1, <4>2
    <3>3. u \in matched /\ u \in rows
      BY <1>4, <2>3 DEF ReadinessInv, Reviewable
    <3>4. u \in trees /\ revised[u]
      BY <3>2, <3>3, UndecidedThere
    <3> HIDE DEF kind
    <3>5. kind = "approve" => job'[b].pc \in {"supersede", "publish"}
      BY <2>1, <2>3, <3>4 DEF ApprovalStart
    <3>6. kind = "approve" => AtWork(u, Approving \ {"save"})' /\ AtWork(u, Approving)'
      BY <1>0, <2>1, <2>3, <3>5 DEF AtWork, Approving
    <3>7. kind = "reject" => AtWork(u, Rejecting)' /\ AtWork(u, {"reject"})'
      BY <1>0, <2>1, <2>3 DEF AtWork, Rejecting
    <3> QED
      BY <1>1, <3>2, <3>3, <3>4, <3>6, <3>7 DEF Stands, ApprovalStands,
         RejectionStands
  <2> QED
    BY <2>2, <2>3
<1>5. CASE UNCHANGED <<job, decisions>>
  <2>1. \A pcs : AtWork(u, pcs)' <=> AtWork(u, pcs)
    BY <1>5 DEF AtWork
  <2> QED
    BY <1>1, <1>3, <1>5, <2>1, Untouched
<1>6. \/ UNCHANGED <<job, decisions>>
      \/ \E w \in Upload : BatchItem(b, w) /\ Reviewable(w)
  BY DEF SubmitBatch, BatchStep, StartBatch, BatchItem, FinishBatch
<1> QED
  BY <1>4, <1>5, <1>6

\* A step of the job that is at work on the upload, whose decision is the only
\* one.
LEMMA StandsWorked ==
    ASSUME overwritten \subseteq overwritten', TypeOK, ReadinessInv, RetirementInv, MatchedOnce, MandateInv, AuthorsInv,
           KeptInv, StandsInv, NEW d \in Decider, JobStep(d), NEW u \in Upload,
           job[d].upload = u, Sole(u)
    PROVE  Stands(u)'
<1>0. /\ job[d] \in JobState /\ original \in [Upload -> Tree \cup {None}]
      /\ status \in [Upload -> UploadStatus]
  BY DEF TypeOK, ReviewTypes, RowTypes
<1>1. /\ \A e \in Decider \ {d} : job'[e] = job[e]
      /\ job'[d].upload = u
  BY JobMovesOn
<1>2. decisions' = decisions
  BY DEF JobStep, Supersede, Repoint, Publish, SaveApproved, SaveRejected,
     SaveDecision, CloseApproved, CloseRejected, CloseSession, DeleteRejected,
     FinishDecision
<1>3. Sole(u)' /\ Kinds(u)' = Kinds(u) /\ Stands(u)
  BY <1>2 DEF Sole, Kinds, StandsInv
<1>4. ASSUME job[d].pc \in Approving
      PROVE  /\ "approve" \in Kinds(u) /\ "reject" \notin Kinds(u)
             /\ ApprovalStands(u) /\ u \in Validated
  <2>1. Verdict(d, "approve") \in decisions[u]
    BY <1>4 DEF AuthorsInv, Authored
  <2>2. "approve" \in Kinds(u) /\ "reject" \notin Kinds(u)
    BY <2>1, VerdictKind, OneVerdict
  <2>3. u \in Validated
    BY <2>2, JudgedMatched DEF Judged
  <2> QED
    BY <1>3, <2>2, <2>3 DEF Stands
<1>5. ASSUME job[d].pc \in Rejecting
      PROVE  /\ "reject" \in Kinds(u) /\ "approve" \notin Kinds(u)
             /\ RejectionStands(u) /\ u \in Validated /\ u \in trees
             /\ \A e \in Decider \ {d} : job[e].upload = u => job[e].pc \notin Rejecting
  <2>1. Verdict(d, "reject") \in decisions[u]
    BY <1>5 DEF AuthorsInv, Authored
  <2>2. "reject" \in Kinds(u) /\ "approve" \notin Kinds(u)
    BY <2>1, VerdictKind, OneVerdict
  <2>3. u \in Validated
    BY <2>2, JudgedMatched DEF Judged
  <2>4. RejectionStands(u)
    BY <1>3, <2>2 DEF Stands
  <2>5. u \in trees
    BY <1>5, <2>4 DEF RejectionStands, AtWork
  <2>6. \A e \in Decider \ {d} : job[e].upload = u => job[e].pc \notin Rejecting
    BY <2>1, OneVerdict DEF AuthorsInv, Authored
  <2> QED
    BY <2>2, <2>3, <2>4, <2>5, <2>6
\* The copy the job read can be saved as long as the entities are there.
<1>6. ASSUME u \in rows, u \in trees, u \in Validated, job[d].pc \notin {"idle", "queued"}
      PROVE  CanSave(u, job[d].copy) /\ job[d].copy.revised
  <2>1. job[d].copy.original \in Country \cup {None}
    <3>1. job[d].copy.original = OriginalOf[u]
      BY <1>6 DEF RetirementInv, OriginalKept
    <3> QED
      BY <3>1, ConstantTypes
  <2>2. Country \subseteq trees
    BY DEF MandateInv, TypeOK, EntityTypes
  <2>3. job[d].copy.revised
    BY <1>6 DEF KeptInv, Kept
  <2> QED
    BY <1>6, <2>1, <2>2, <2>3 DEF CanSave
\* An approval goes on to a later step.
<1>7. ASSUME job[d].pc \in Approving, UNCHANGED <<rows, trees, status>>,
             job'[d].pc \in Approving,
             \/ job'[d].pc # "save"
             \/ u \in approved' /\ (Current(u) => u \in latest')
      PROVE  Stands(u)'
  <2>1. AtWork(u, Approving)'
    BY <1>1, <1>7 DEF AtWork
  <2>2. job'[d].pc # "save" => AtWork(u, Approving \ {"save"})'
    BY <1>1, <1>7 DEF AtWork
  <2> QED
    BY <1>3, <1>4, <1>7, <2>1, <2>2 DEF Stands, ApprovalStands, Current
<1>8. CASE Supersede(d)
  <2>1. job[d].pc = "supersede" /\ job[d].pc \in Approving
    BY <1>8 DEF Supersede, Approving
  <2>2. job[d].copy.original \in trees
    <3>1. job[d].copy.original \in Country
      BY <2>1, ConstantTypes DEF RetirementInv, OriginalKept, MandateInv, JobMandate
    <3> QED
      BY <3>1 DEF MandateInv, TypeOK, EntityTypes
  <2>3. job'[d].pc = "repoint" /\ UNCHANGED <<rows, trees, status>>
    BY <1>0, <1>8, <2>2 DEF Supersede, JobGoesTo, TypeOK, ReviewTypes,
       JobState, rowVars
  <2> QED
    BY <1>7, <2>1, <2>3 DEF Approving
<1>9. CASE Repoint(d)
  <2>1. job[d].pc = "repoint" /\ job[d].pc \in Approving
    BY <1>9 DEF Repoint, Approving
  <2>2. u \in trees
    BY <1>4, <2>1 DEF ApprovalStands
  <2>3. job'[d].pc = "publish" /\ UNCHANGED <<rows, trees, status>>
    BY <1>0, <1>9, <2>2 DEF Repoint, JobGoesTo, TypeOK, ReviewTypes, JobState,
       entityVars
  <2> QED
    BY <1>7, <2>1, <2>3 DEF Approving
<1>10. CASE Publish(d)
  <2>1. job[d].pc = "publish" /\ job[d].pc \in Approving
    BY <1>10 DEF Publish, Approving
  <2>2. u \in trees
    BY <1>4, <2>1 DEF ApprovalStands
  <2>3. /\ job'[d].pc = "save" /\ UNCHANGED <<rows, trees, status>>
        /\ u \in approved' /\ (Current(u) => u \in latest')
    BY <1>0, <1>10, <2>2 DEF Publish, JobGoesTo, TypeOK, ReviewTypes, JobState,
       rowVars, Current
  <2> QED
    BY <1>7, <2>1, <2>3 DEF Approving
<1>11. CASE SaveApproved(d)
  <2>1. job[d].pc = "save" /\ job[d].pc \in Approving
    BY <1>11 DEF SaveApproved, SaveDecision, Approving
  <2>2. CanSave(u, job[d].copy)
    BY <1>4, <1>6, <2>1 DEF ApprovalStands
  <2>3. /\ UNCHANGED <<trees, approved, latest>>
        /\ rows \subseteq rows' /\ status'[u] = "Approved"
    BY <1>0, <1>11, <2>2 DEF SaveApproved, SaveDecision, SaveRow, entityVars
  <2>4. AtWork(u, Approving \ {"save"}) => AtWork(u, Approving \ {"save"})'
    BY <1>1, <2>1 DEF AtWork
  <2> QED
    BY <1>3, <1>4, <2>1, <2>3, <2>4 DEF Stands, ApprovalStands, Current
<1>12. CASE SaveRejected(d)
  <2>1. job[d].pc = "reject" /\ job[d].pc \in Rejecting
    BY <1>12 DEF SaveRejected, SaveDecision, Rejecting
  <2>2. CanSave(u, job[d].copy)
    BY <1>5, <1>6, <2>1 DEF RejectionStands
  <2>3. /\ UNCHANGED trees /\ job'[d].pc = "rejectClose"
        /\ rows \subseteq rows' /\ status'[u] = "Rejected"
    BY <1>0, <1>12, <2>2 DEF SaveRejected, SaveDecision, SaveRow, JobGoesTo,
       entityVars, TypeOK, ReviewTypes, JobState
  <2>4. AtWork(u, Rejecting)'
    BY <1>1, <2>3 DEF AtWork, Rejecting
  <2> QED
    BY <1>3, <1>5, <2>1, <2>3, <2>4 DEF Stands, RejectionStands
<1>13. CASE CloseRejected(d)
  <2>1. job[d].pc = "rejectClose" /\ job[d].pc \in Rejecting
    BY <1>13 DEF CloseRejected, CloseSession, Rejecting
  <2>2. UNCHANGED <<rows, trees, status>> /\ job'[d].pc = "rejectDelete"
    BY <1>0, <1>13 DEF CloseRejected, CloseSession, JobGoesTo, entityVars, rowVars,
       TypeOK, ReviewTypes, JobState
  <2>3. AtWork(u, Rejecting)'
    BY <1>1, <2>2 DEF AtWork, Rejecting
  <2>4. AtWork(u, {"reject"}) => AtWork(u, {"reject"})'
    BY <1>1, <2>1 DEF AtWork
  <2> QED
    BY <1>3, <1>5, <2>1, <2>2, <2>3, <2>4 DEF Stands, RejectionStands
<1>14. CASE DeleteRejected(d)
  <2>1. job[d].pc = "rejectDelete" /\ job[d].pc \in Rejecting
    BY <1>14 DEF DeleteRejected, Rejecting
  <2>2. job[d].copy.revised
    BY <1>5, <1>6, <2>1 DEF RejectionStands
  <2>3. DeleteTrees({u}) /\ status' = status /\ job'[d].pc \notin Rejecting
    BY <1>0, <1>5, <1>14, <2>1, <2>2 DEF DeleteRejected, JobGoesTo, TypeOK,
       ReviewTypes, JobState, Rejecting
  <2>4. u \in rows' /\ u \notin trees'
    <3>1. original[u] # u
      BY <1>5, <2>1, JudgedMatched, ReviewAssumption DEF Judged
    <3> QED
      BY <1>5, <2>1, <2>3, <3>1 DEF DeleteTrees, RejectionStands
  <2>5. ~ AtWork(u, Rejecting)'
    BY <1>1, <1>5, <2>1, <2>3 DEF AtWork
  <2>6. ~ AtWork(u, {"reject"})
    BY <1>5, <2>1 DEF AtWork, Rejecting
  <2> QED
    BY <1>3, <1>5, <2>1, <2>3, <2>4, <2>5, <2>6 DEF Stands, RejectionStands
<1>15. CASE CloseApproved(d) \/ FinishDecision(d)
  <2>1. /\ job[d].pc \in {"close", "finish"}
        /\ UNCHANGED <<rows, status, trees, latest, approved>>
    BY <1>15 DEF CloseApproved, CloseSession, FinishDecision, rowVars, entityVars
  <2>2. job[d].pc \notin Approving \cup Rejecting
    BY <2>1 DEF Approving, Rejecting
  <2>3. job'[d].pc \notin Approving \cup Rejecting
    BY <2>2, JobStages
  <2> QED
    BY <1>1, <1>2, <1>3, <2>1, <2>2, <2>3, WorkElsewhere, Untouched
<1> QED
  BY <1>8, <1>9, <1>10, <1>11, <1>12, <1>13, <1>14, <1>15 DEF JobStep

LEMMA StandsJob ==
    ASSUME overwritten \subseteq overwritten', TypeOK, ReadinessInv, RetirementInv, MatchedOnce, MandateInv, AuthorsInv,
           KeptInv, StandsInv, NEW d \in Decider, JobStep(d)
    PROVE  StandsInv'
<1>1. /\ decisions' = decisions
      /\ \A e \in Decider \ {d} : job'[e] = job[e]
      /\ job'[d].upload = job[d].upload
  BY JobMovesOn DEF JobStep, Supersede, Repoint, Publish, SaveApproved,
     SaveRejected, SaveDecision, CloseApproved, CloseRejected, CloseSession,
     DeleteRejected, FinishDecision
<1> SUFFICES ASSUME NEW u \in Upload, Sole(u)', Judged(u)' PROVE Stands(u)'
  BY DEF StandsInv, Stands, Judged
<1>2. Sole(u) /\ Judged(u) /\ Stands(u)
  BY <1>1 DEF Sole, Judged, Kinds, StandsInv
<1>3. CASE job[d].upload = u
  BY <1>2, <1>3, StandsWorked
<1>4. CASE job[d].upload # u
  <2>1. \A pcs \in {Approving, Approving \ {"save"}, Rejecting, {"reject"}} :
           AtWork(u, pcs)' <=> AtWork(u, pcs)
    BY <1>1, <1>4, WorkElsewhere
  <2>2. status'[u] = status[u]
    BY <1>4 DEF JobStep, Supersede, Repoint, Publish, SaveApproved, SaveRejected,
       SaveDecision, SaveRow, CloseApproved, CloseRejected, CloseSession,
       DeleteRejected, FinishDecision, rowVars, TypeOK, RowTypes
  <2>3. CASE DeleteRejected(d)
    <3>0. job[d].upload \in Upload
      BY <2>3 DEF DeleteRejected, TypeOK, ReviewTypes
    <3>1. PICK T \in SUBSET {job[d].upload} : DeleteTrees(T)
      BY <2>3 DEF DeleteRejected
    <3>2. u \notin T /\ original[u] \notin T
      BY <1>2, <1>4, <3>0, <3>1, JudgedMatched, ReviewAssumption
    <3>3. /\ u \in rows => u \in rows'
          /\ u \in trees' <=> u \in trees
          /\ u \in approved => u \in approved'
          /\ u \in latest => u \in latest'
      BY <3>1, <3>2 DEF DeleteTrees
    <3> QED
      BY <1>1, <1>2, <2>1, <2>2, <3>3, Untouched
  <2>4. CASE ~ DeleteRejected(d)
    <3>1. /\ rows \subseteq rows' /\ trees' = trees /\ approved \subseteq approved'
      BY <2>4 DEF JobStep, Supersede, Repoint, Publish, SaveApproved, SaveRejected,
         SaveDecision, SaveRow, CloseApproved, CloseRejected, CloseSession,
         FinishDecision, rowVars, entityVars
    <3>2. u \in latest => u \in latest'
      <4>1. CASE Supersede(d)
        <5>1. job[d].copy.original \in Country \cup {None}
          <6>1. job[d].upload \in Upload
            BY <4>1 DEF Supersede, TypeOK, ReviewTypes
          <6> QED
            BY <4>1, <6>1, ConstantTypes, ZenonT(40) DEF Supersede, RetirementInv, OriginalKept
        <5> QED
          BY <4>1, <5>1, ReviewAssumption DEF Supersede
      <4>2. CASE ~ Supersede(d)
        BY <2>4, <4>2 DEF JobStep, Repoint, Publish, SaveApproved, SaveRejected,
           SaveDecision, CloseApproved, CloseRejected, CloseSession, FinishDecision,
           entityVars
      <4> QED
        BY <4>1, <4>2
    <3> QED
      BY <1>1, <1>2, <2>1, <2>2, <3>1, <3>2, Untouched
  <2> QED
    BY <2>3, <2>4
<1> QED
  BY <1>3, <1>4

\* Whatever an approval or rejection nobody contradicts has not brought about
\* yet, its job still has ahead of it.
THEOREM StandsInvariant == Spec => []StandsInv
<1>1. Init => StandsInv
  <2> SUFFICES ASSUME Init, NEW u \in Upload PROVE Kinds(u) = {}
    BY DEF StandsInv, Stands
  <2> QED
    BY DEF Init, Kinds
<1>2. ASSUME TypeOK, ReadinessInv, RetirementInv, MatchedOnce, MandateInv, AuthorsInv,
             KeptInv, StandsInv, Next
      PROVE  StandsInv'
  <2>1. ASSUME NEW d \in Decider, WorkerDies(d) PROVE StandsInv'
    <3>1. UNCHANGED <<rows, status, trees, latest, approved, job, decisions,
                      overwritten>>
      BY <2>1 DEF WorkerDies, rowVars, entityVars, rematchVars
    <3> QED
      BY <1>2, <3>1 DEF StandsInv, Stands, Sole, Kinds, ApprovalStands,
         RejectionStands, AtWork, Current
  <2>2. CASE \E v \in Visit : ReadForRematch(v) \/ SaveRematch(v)
    BY <1>2, <2>2, StandsRematch
  <2>3. CASE UNCHANGED <<rematch, overwritten>>
    BY <1>2, <2>1, <2>2, <2>3, StandsSession, StandsMatch, StandsVisit,
       StandsBatch, StandsJob DEF Next
  <2> QED
    BY <1>2, <2>2, <2>3, RematchOnly
<1>3. StandsInv /\ UNCHANGED vars => StandsInv'
  BY DEF StandsInv, Stands, Sole, Kinds, ApprovalStands, RejectionStands, AtWork,
     Current, vars, rowVars, entityVars, reviewVars, rematchVars
<1> QED
  BY <1>1, <1>2, <1>3, TypeCorrect, ReadinessInvariant, RetirementInvariant,
     MatchedOnceInvariant, MandateInvariant, AuthorsInvariant, KeptInvariant, PTL
     DEF Spec

\* Once its job is over, a decision nobody contradicts has taken full effect,
\* whatever the matching task, the batches, the rematches, the other uploads of
\* the session and the deaths of workers wrote in between; only the status in
\* the row can be lost, and only to a rematch that read the row before.
THEOREM DecisionsStand == Spec => []DecisionStands
<1>1. ASSUME TypeOK, StandsInv PROVE DecisionStands
  <2> SUFFICES ASSUME NEW u \in Upload, Sole(u), ~ InFlight(u)
               PROVE  /\ "approve" \in Kinds(u) =>
                           /\ u \in rows \cap trees \cap approved
                           /\ Current(u) => u \in latest
                           /\ \/ u \in overwritten
                              \/ status[u] \in {"Approved", "Processing_Approval"}
                      /\ "reject" \in Kinds(u) =>
                           /\ u \in rows /\ u \notin trees \cup approved
                           /\ ~ revised[u]
                           /\ u \in overwritten \/ status[u] = "Rejected"
    BY DEF DecisionStands, Kinds
  <2>1. /\ ~ AtWork(u, Approving) /\ ~ AtWork(u, Approving \ {"save"})
        /\ ~ AtWork(u, Rejecting) /\ ~ AtWork(u, {"reject"})
    BY DEF InFlight, AtWork, Approving, Rejecting
  <2>2. Stands(u)
    BY <1>1 DEF StandsInv
  <2> QED
    BY <1>1, <2>1, <2>2 DEF Stands, ApprovalStands, RejectionStands, TypeOK,
       EntityTypes, References
<1> QED
  BY <1>1, TypeCorrect, StandsInvariant, PTL

-----------------------------------------------------------------------------
(* A country is without a current revision only within an approval         *)

\* Why the country c may be without its revision: u is taking its place.
Replacing(u, c) ==
    /\ OriginalOf[u] = c /\ Current(u)
    /\ Published(u) \/ ~ Sole(u) \/ AtWork(u, {"repoint", "publish"})

LEMMA GapReplacing ==
    GapOnlyInApproval => \A c \in Country \ latest : \E u \in Upload : Replacing(u, c)
BY DEF GapOnlyInApproval, Replacing, AtWork

\* A step keeps the gaps explained if each country is left current or is being
\* replaced, as it was or from now on.
LEMMA GapStays ==
    ASSUME GapOnlyInApproval,
           \A u \in Upload, c \in Country : Replacing(u, c) => Replacing(u, c)',
           \A c \in (Country \cap latest) \ latest' : \E u \in Upload : Replacing(u, c)'
    PROVE  GapOnlyInApproval'
<1>1. \A c \in Country \ latest' : \E u \in Upload : Replacing(u, c)'
  BY GapReplacing
<1> QED
  BY <1>1 DEF GapOnlyInApproval, Replacing, AtWork

\* An upload is decided on twice once somebody wants its approved entities
\* deleted.
LEMMA TwiceDecided ==
    ASSUME AuthorsInv, NEW u \in Upload,
           u \in approved \/ "approve" \in Kinds(u), Kinds(u) \cap {"reject", "withdraw"} # {}
    PROVE  ~ Sole(u)
BY OneVerdict DEF AuthorsInv

\* An upload keeps taking the place of what it revises, unless its own job
\* moves on.
LEMMA ReplacingStays ==
    ASSUME TypeOK, NEW u \in Upload, NEW c, Replacing(u, c),
           decisions[u] \subseteq decisions'[u],
           Published(u) => Published(u)' \/ ~ Sole(u),
           \A d \in Decider : job[d].upload = u /\ job[d].pc \in {"repoint", "publish"}
             => job'[d] = job[d]
    PROVE  Replacing(u, c)'
<1>1. ~ Sole(u) => ~ Sole(u)'
  BY DEF Sole
<1> QED
  BY <1>1 DEF Replacing, AtWork, Current

LEMMA GapSession ==
    ASSUME TypeOK, ReadinessInv, RetirementInv, MatchedOnce, AuthorsInv,
           GapOnlyInApproval, NEW s \in Session,
           \/ \E U \in SUBSET Upload : CheckReady(s, U)
           \/ SubmitStep(s) \/ CheckDeletable(s) \/ WithdrawStep(s)
    PROVE  GapOnlyInApproval'
<1>1. job' = job /\ \A u \in Upload : decisions[u] \subseteq decisions'[u]
  BY SessionStep
<1>2. \E T \in SUBSET Upload :
         /\ latest' = latest \ T /\ approved' = approved \ T
         /\ \A u \in T \cap approved : ~ Sole(u)
  <2>1. CASE DropNonSelected(s)
    <3> DEFINE T == {w \in (rows \cap UploadsOf(s)) \ submit[s].selected : revised[w]}
    <3>1. T \subseteq Upload /\ DeleteTrees(T)
      BY <2>1 DEF DropNonSelected, UploadsOf
    <3>2. ASSUME NEW u \in T \cap approved PROVE FALSE
      <4>1. u \in Upload /\ SessionOf[u] = s /\ u \notin submit[s].selected
        BY DEF UploadsOf
      <4>2. u \in matched
        BY <4>1 DEF ReadinessInv, ApprovedOnlyMatched
      <4> QED
        BY <4>1, <4>2, JudgedMatched
    <3> HIDE DEF T
    <3> QED
      BY <3>1, <3>2 DEF DeleteTrees
  <2>2. CASE DeleteEntities(s)
    <3>1. \A u \in UploadsOf(s) \cap approved : ~ Sole(u)
      BY <2>2, TwiceDecided DEF DeleteEntities, UploadsOf, AuthorsInv
    <3>2. UploadsOf(s) \in SUBSET Upload
      BY DEF UploadsOf
    <3> QED
      BY <2>2, <3>1, <3>2 DEF DeleteEntities, DeleteTrees
  <2>3. CASE ~ (DropNonSelected(s) \/ DeleteEntities(s))
    <3>1. UNCHANGED <<latest, approved>>
      BY <2>3 DEF CheckReady, SubmitStep, MarkReviewing, DispatchMatching,
         SetSessionReviewing, CheckDeletable, WithdrawStep, DeleteSession,
         entityVars
    <3> WITNESS {} \in SUBSET Upload
    <3> QED
      BY <3>1
  <2> QED
    BY <2>1, <2>2, <2>3
<1>3. \A u \in Upload, c \in Country : Replacing(u, c) => Replacing(u, c)'
  <2> SUFFICES ASSUME NEW u \in Upload, NEW c \in Country, Replacing(u, c)
               PROVE  Replacing(u, c)'
    OBVIOUS
  <2>1. Published(u) => Published(u)' \/ ~ Sole(u)
    BY <1>2 DEF Published
  <2> QED
    BY <1>1, <2>1, ReplacingStays
<1>4. (Country \cap latest) \ latest' = {}
  BY <1>2, ReviewAssumption
<1> QED
  BY <1>3, <1>4, GapStays

LEMMA GapReview ==
    ASSUME TypeOK, RetirementInv, GapOnlyInApproval,
           UNCHANGED <<latest, approved>>,
           \A u \in Upload : decisions[u] \subseteq decisions'[u],
           \A d \in Decider : job[d].pc \in {"repoint", "publish"} => job'[d] = job[d]
    PROVE  GapOnlyInApproval'
<1>1. \A u \in Upload, c \in Country : Replacing(u, c) => Replacing(u, c)'
  BY ReplacingStays DEF Published
<1> QED
  BY <1>1, GapStays

LEMMA GapVisit ==
    ASSUME TypeOK, RetirementInv, AuthorsInv, GapOnlyInApproval, NEW v \in Visit,
           \/ \E u \in Upload : OpenPage(v, u)
           \/ FetchPendingReviews(v) \/ ClickApprove(v)
           \/ SaveProcessingApproval(v) \/ ClickReject(v) \/ StartApproval(v)
    PROVE  GapOnlyInApproval'
<1>0. v \in Decider /\ job[v] \in JobState
  BY ConstantTypes DEF TypeOK, ReviewTypes
<1>1. UNCHANGED <<latest, approved>>
  BY DEF OpenPage, FetchPendingReviews, ClickApprove, SaveProcessingApproval,
     ClickReject, StartApproval, entityVars
<1>2. \A u \in Upload : decisions[u] \subseteq decisions'[u]
  BY DEF OpenPage, FetchPendingReviews, ClickApprove, SaveProcessingApproval,
     ClickReject, StartApproval, Decide, TypeOK, ReviewTypes
<1>3. \A d \in Decider : job[d].pc \in {"repoint", "publish"} => job'[d] = job[d]
  <2>1. \A d \in Decider \ {v} : job'[d] = job[d]
    BY DEF OpenPage, FetchPendingReviews, ClickApprove, SaveProcessingApproval,
       ClickReject, StartApproval, TypeOK, ReviewTypes
  <2>2. CASE \/ \E u \in Upload : OpenPage(v, u)
             \/ ClickApprove(v) \/ ClickReject(v)
    <3>1. page[v] \notin {"requested", "answered"}
      BY <2>2 DEF OpenPage, ClickApprove, ClickReject
    <3>2. job[v].pc \notin Approving
      <4>1. ASSUME Verdict(v, "approve") \in decisions[job[v].upload],
                   job[v].upload \in Upload
            PROVE  FALSE
        <5>1. Taken(job[v].upload, Verdict(v, "approve"))
          BY <4>1 DEF AuthorsInv
        <5> QED
          BY <3>1, <5>1 DEF Taken, Verdict
      <4>2. job[v].pc # "idle" => job[v].upload \in Upload
        BY <1>0 DEF TypeOK, ReviewTypes
      <4> QED
        BY <1>0, <4>1, <4>2 DEF AuthorsInv, Authored, Approving
    <3> QED
      BY <2>1, <3>2 DEF Approving
  <2>3. CASE FetchPendingReviews(v) \/ SaveProcessingApproval(v)
    BY <2>3 DEF FetchPendingReviews, SaveProcessingApproval
  <2>4. CASE StartApproval(v)
    BY <2>1, <2>4 DEF StartApproval
  <2> QED
    BY <2>2, <2>3, <2>4
<1> QED
  BY <1>1, <1>2, <1>3, GapReview

LEMMA GapBatch ==
    ASSUME TypeOK, RetirementInv, GapOnlyInApproval, NEW b \in Batch,
           \/ \E U \in SUBSET Upload, a \in BOOLEAN : SubmitBatch(b, U, a)
           \/ BatchStep(b)
    PROVE  GapOnlyInApproval'
<1>1. UNCHANGED <<latest, approved>>
  BY DEF SubmitBatch, BatchStep, StartBatch, BatchItem, FinishBatch, entityVars
<1>2. \A u \in Upload : decisions[u] \subseteq decisions'[u]
  BY DEF SubmitBatch, BatchStep, StartBatch, BatchItem, FinishBatch, Decide,
     TypeOK, ReviewTypes
<1>3. \A d \in Decider : job[d].pc \in {"repoint", "publish"} => job'[d] = job[d]
  BY DEF SubmitBatch, BatchStep, StartBatch, BatchItem, FinishBatch, TypeOK,
     ReviewTypes
<1> QED
  BY <1>1, <1>2, <1>3, GapReview

LEMMA GapJob ==
    ASSUME TypeOK, RetirementInv, MandateInv, AuthorsInv, StandsInv,
           GapOnlyInApproval, NEW d \in Decider, JobStep(d) \/ WorkerDies(d)
    PROVE  GapOnlyInApproval'
<1>0. job[d] \in JobState
  BY DEF TypeOK, ReviewTypes
<1>1. /\ decisions' = decisions
      /\ \A e \in Decider \ {d} : job'[e] = job[e]
      /\ job'[d].upload = job[d].upload
  BY JobMovesOn DEF JobStep, WorkerDies, Supersede, Repoint, Publish, SaveApproved,
     SaveRejected, SaveDecision, CloseApproved, CloseRejected, CloseSession,
     DeleteRejected, FinishDecision
<1>2. \A u \in Upload : Published(u) => Published(u)' \/ ~ Sole(u)
  <2> SUFFICES ASSUME NEW u \in Upload, Published(u), Sole(u) PROVE Published(u)'
    OBVIOUS
  <2>1. CASE Supersede(d)
    <3>1. job[d].copy.original # u
      <4>1. job[d].upload \in Upload /\ job[d].copy.original = OriginalOf[job[d].upload]
        BY <2>1 DEF Supersede, RetirementInv, OriginalKept, TypeOK, ReviewTypes
      <4> QED
        BY <4>1, ReviewAssumption
    <3> QED
      BY <2>1, <3>1 DEF Supersede, Published
  <2>2. CASE DeleteRejected(d)
    <3>1. PICK T \in SUBSET {job[d].upload} : DeleteTrees(T)
      BY <2>2 DEF DeleteRejected
    <3>2. "reject" \in Kinds(job[d].upload)
      BY <2>2, VerdictKind DEF DeleteRejected, AuthorsInv, Authored, Rejecting
    <3>3. u # job[d].upload
      BY <3>2, TwiceDecided DEF Published
    <3> QED
      BY <3>1, <3>3 DEF DeleteTrees, Published
  <2>3. CASE ~ (Supersede(d) \/ DeleteRejected(d))
    <3>1. latest \subseteq latest' /\ approved \subseteq approved'
      BY <2>3 DEF JobStep, WorkerDies, Repoint, Publish, SaveApproved, SaveRejected,
         SaveDecision, CloseApproved, CloseRejected, CloseSession, FinishDecision,
         entityVars
    <3> QED
      BY <3>1 DEF Published
  <2> QED
    BY <2>1, <2>2, <2>3
\* The upload of the job goes on taking the place of what it revises.
<1>3. ASSUME NEW u \in Upload, u = job[d].upload, Current(u), Sole(u),
             job[d].pc \in {"repoint", "publish"}, JobStep(d)
      PROVE  Published(u)' \/ AtWork(u, {"repoint", "publish"})'
  <2>1. u \in trees
    <3>1. "approve" \in Kinds(u)
      BY <1>3 DEF MandateInv, JobMandate
    <3> QED
      BY <1>3, <3>1 DEF StandsInv, Stands, ApprovalStands
  <2>2. Repoint(d) \/ Publish(d)
    BY <1>3 DEF JobStep, Supersede, SaveApproved, SaveRejected, SaveDecision,
       CloseApproved, CloseRejected, CloseSession, DeleteRejected, FinishDecision
  <2>3. CASE Repoint(d)
    <3>1. job'[d].pc = "publish"
      BY <1>0, <1>3, <2>1, <2>3 DEF Repoint, JobGoesTo, TypeOK, ReviewTypes,
         JobState
    <3> QED
      BY <1>1, <1>3, <3>1 DEF AtWork
  <2>4. CASE Publish(d)
    BY <1>3, <2>1, <2>4 DEF Publish, Published, Current
  <2> QED
    BY <2>2, <2>3, <2>4
<1>4. ASSUME NEW u \in Upload, NEW c \in Country, Replacing(u, c)
      PROVE  Replacing(u, c)'
  <2>1. CASE \/ WorkerDies(d) \/ job[d].upload # u \/ ~ Sole(u)
             \/ job[d].pc \notin {"repoint", "publish"}
    <3>1. CASE ~ Sole(u)
      BY <1>1, <1>4, <3>1 DEF Replacing, Sole, Current
    <3>2. CASE Sole(u)
      <4>1. \A e \in Decider : job[e].upload = u /\ job[e].pc \in {"repoint", "publish"}
               => job'[e] = job[e]
        BY <1>1, <2>1, <3>2 DEF WorkerDies
      <4> QED
        BY <1>1, <1>2, <1>4, <4>1, ReplacingStays
    <3> QED
      BY <3>1, <3>2
  <2>2. CASE /\ JobStep(d) /\ job[d].upload = u /\ Sole(u)
             /\ job[d].pc \in {"repoint", "publish"}
    BY <1>3, <1>4, <2>2 DEF Replacing, Current
  <2> QED
    BY <2>1, <2>2
<1>5. ASSUME NEW c \in Country \cap latest, c \notin latest'
      PROVE  \E u \in Upload : Replacing(u, c)'
  <2>1. Supersede(d) /\ c = job[d].copy.original
    <3>1. CASE DeleteRejected(d)
      <4>1. job[d].upload \in Upload
        BY <3>1 DEF DeleteRejected, TypeOK, ReviewTypes
      <4> QED
        BY <1>5, <3>1, <4>1, ConstantTypes DEF DeleteRejected, DeleteTrees
    <3>2. CASE ~ (DeleteRejected(d) \/ Supersede(d))
      BY <1>5, <3>2 DEF JobStep, WorkerDies, Repoint, Publish, SaveApproved,
         SaveRejected, SaveDecision, CloseApproved, CloseRejected, CloseSession,
         FinishDecision, entityVars
    <3> QED
      BY <1>5, <3>1, <3>2 DEF Supersede
  <2>2. PICK u \in Upload : u = job[d].upload
    BY <2>1 DEF Supersede, TypeOK, ReviewTypes
  <2>3. OriginalOf[u] = c /\ Current(u)
    BY <2>1, <2>2 DEF Supersede, RetirementInv, OriginalKept, MandateInv, JobMandate
  <2>4. c \in trees
    BY <1>5 DEF TypeOK, EntityTypes
  <2>5. job'[d].pc = "repoint"
    BY <1>0, <2>1, <2>4 DEF Supersede, JobGoesTo, TypeOK, ReviewTypes, JobState
  <2> QED
    BY <1>1, <2>2, <2>3, <2>5 DEF Replacing, AtWork, Current
<1> QED
  BY <1>4, <1>5, GapStays

\* Between two current revisions of a country there is nothing but an approval
\* that is executing, was killed in between or was contradicted.
THEOREM GapsExplained == Spec => []GapOnlyInApproval
<1>1. Init => GapOnlyInApproval
  BY DEF Init, GapOnlyInApproval
<1>2. ASSUME TypeOK, ReadinessInv, RetirementInv, MatchedOnce, MandateInv, AuthorsInv,
             StandsInv, GapOnlyInApproval, Next
      PROVE  GapOnlyInApproval'
  <2>1. ASSUME NEW w \in Upload, MatchStep(w) PROVE GapOnlyInApproval'
    <3>1. UNCHANGED <<latest, approved, decisions, job>>
      BY <2>1 DEF MatchStep, ReadForMatching, StartMatching, SetCodeVersion,
         FinishMatching, NotifyMatched, SaveMatching, entityVars, reviewVars
    <3> QED
      BY <1>2, <3>1, GapReview
  <2>2. ASSUME NEW v \in Visit, ReadForRematch(v) \/ SaveRematch(v)
        PROVE  GapOnlyInApproval'
    <3>1. UNCHANGED <<latest, approved, decisions, job>>
      BY <1>2, <2>2, RematchFrame
    <3> QED
      BY <1>2, <3>1, GapReview
  <2> QED
    BY <1>2, <2>1, <2>2, GapSession, GapVisit, GapBatch, GapJob DEF Next
<1>3. GapOnlyInApproval /\ UNCHANGED vars => GapOnlyInApproval'
  BY DEF GapOnlyInApproval, Published, Sole, Current, vars, entityVars, reviewVars
<1> QED
  BY <1>1, <1>2, <1>3, TypeCorrect, ReadinessInvariant, RetirementInvariant,
     MatchedOnceInvariant, MandateInvariant, AuthorsInvariant, StandsInvariant, PTL
     DEF Spec

-----------------------------------------------------------------------------
(* Nothing is lost that nobody asked to lose                               *)

\* A revision is deleted only by the decision to reject or withdraw it, or by
\* the request that left it out of the review.
THEOREM DeletionsExplained == Spec => DeletionExplained
<1>1. ASSUME TypeOK, MandateInv, AuthorsInv, Next, NEW u \in trees \ trees'
      PROVE  /\ u \in Upload
             /\ \/ \E x \in decisions[u] : x.kind \in {"reject", "withdraw"}
                \/ /\ submit[SessionOf[u]].pc = "cleanup"
                   /\ u \notin submit[SessionOf[u]].selected
  <2>1. \/ \E s \in Session : DropNonSelected(s) \/ DeleteEntities(s)
        \/ \E d \in Decider : DeleteRejected(d)
        \/ trees' = trees
    BY <1>1 DEF Next, CheckReady, SubmitStep, MarkReviewing, DispatchMatching,
       SetSessionReviewing, CheckDeletable, WithdrawStep, DeleteSession, MatchStep,
       ReadForMatching, StartMatching, SetCodeVersion, FinishMatching,
       NotifyMatched, SaveMatching, OpenPage, FetchPendingReviews, ClickApprove,
       SaveProcessingApproval, ClickReject, StartApproval, SubmitBatch, BatchStep,
       StartBatch, BatchItem, FinishBatch, JobStep, WorkerDies, Supersede, Repoint,
       Publish, SaveApproved, SaveRejected, SaveDecision, CloseApproved,
       CloseRejected, CloseSession, FinishDecision, ReadForRematch, SaveRematch,
       entityVars
  <2>2. ASSUME NEW s \in Session, DropNonSelected(s)
        PROVE  /\ u \in Upload /\ submit[SessionOf[u]].pc = "cleanup"
               /\ u \notin submit[SessionOf[u]].selected
    BY <1>1, <2>2 DEF DropNonSelected, DeleteTrees, UploadsOf
  <2>3. ASSUME NEW s \in Session, DeleteEntities(s)
        PROVE  u \in Upload /\ "withdraw" \in Kinds(u)
    BY <1>1, <2>3 DEF DeleteEntities, DeleteTrees, UploadsOf, MandateInv
  <2>4. ASSUME NEW d \in Decider, DeleteRejected(d)
        PROVE  u \in Upload /\ "reject" \in Kinds(u)
    <3>1. u = job[d].upload /\ job[d].pc = "rejectDelete"
      BY <1>1, <2>4 DEF DeleteRejected, DeleteTrees
    <3>2. u \in Upload
      BY <1>1, <3>1 DEF TypeOK, ReviewTypes
    <3> QED
      BY <1>1, <3>1, <3>2 DEF MandateInv, JobMandate
  <2> QED
    BY <1>1, <2>1, <2>2, <2>3, <2>4 DEF Kinds
<1>2. TypeOK /\ MandateInv /\ AuthorsInv /\ [Next]_vars =>
        [\A u \in trees \ trees' :
           /\ u \in Upload
           /\ \/ \E x \in decisions[u] : x.kind \in {"reject", "withdraw"}
              \/ /\ submit[SessionOf[u]].pc = "cleanup"
                 /\ u \notin submit[SessionOf[u]].selected]_trees
  BY <1>1 DEF vars, entityVars
<1> QED
  BY <1>2, TypeCorrect, MandateInvariant, AuthorsInvariant, PTL
     DEF Spec, DeletionExplained

\* A row goes only with its session, or by CASCADE with a revision that was
\* decided on twice.
THEOREM RowLossesExplained == Spec => RowLossExplained
<1>1. ASSUME TypeOK, ReadinessInv, RetirementInv, MatchedOnce, AuthorsInv, MandateInv,
             Next, NEW u \in rows \ rows'
      PROVE  \/ \E x \in decisions[u] : x.kind = "withdraw"
             \/ original[u] \in Upload /\ ~ Sole(original[u])
  <2>1. \/ \E s \in Session : DropNonSelected(s) \/ DeleteEntities(s) \/ DeleteSession(s)
        \/ \E d \in Decider : DeleteRejected(d)
        \/ rows \subseteq rows'
    BY <1>1 DEF Next, CheckReady, SubmitStep, MarkReviewing, DispatchMatching,
       SetSessionReviewing, CheckDeletable, WithdrawStep, MatchStep,
       ReadForMatching, StartMatching, SetCodeVersion, FinishMatching,
       NotifyMatched, SaveMatching, SaveRow, OpenPage, FetchPendingReviews,
       ClickApprove, SaveProcessingApproval, ClickReject, StartApproval,
       SubmitBatch, BatchStep, StartBatch, BatchItem, FinishBatch, JobStep,
       WorkerDies, Supersede, Repoint, Publish, SaveApproved, SaveRejected,
       SaveDecision, CloseApproved, CloseRejected, CloseSession,
       FinishDecision, ReadForRematch, SaveRematch, rowVars
  <2>2. u \in Upload
    BY <1>1 DEF TypeOK, RowTypes
  <2> DEFINE t == original[u]
  <2>3. t \in Upload => "approve" \in Kinds(t)
    BY <1>1, <2>2 DEF AuthorsInv
  <2>4. ASSUME NEW s \in Session, DropNonSelected(s) PROVE FALSE
    <3>1. t \in Upload /\ SessionOf[t] = s /\ t \notin submit[s].selected
      BY <1>1, <2>4 DEF DropNonSelected, DeleteTrees, UploadsOf
    <3>2. t \in submit[SessionOf[t]].selected
      <4>1. Judged(t)
        BY <2>3, <3>1 DEF Judged
      <4> QED
        BY <1>1, <3>1, <4>1, JudgedMatched
    <3> QED
      BY <3>1, <3>2
  <2>5. ASSUME NEW s \in Session, DeleteEntities(s)
        PROVE  t \in Upload /\ ~ Sole(t)
    <3>1. t \in Upload /\ SessionOf[t] = s /\ withdraw[s] = "checked"
      BY <1>1, <2>5 DEF DeleteEntities, DeleteTrees, UploadsOf
    <3>2. "withdraw" \in Kinds(t)
      BY <1>1, <3>1 DEF MandateInv
    <3> QED
      BY <1>1, <2>3, <3>1, <3>2, TwiceDecided
  <2>6. ASSUME NEW s \in Session, DeleteSession(s)
        PROVE  "withdraw" \in Kinds(u)
    BY <1>1, <2>2, <2>6 DEF DeleteSession, UploadsOf, AuthorsInv
  <2>7. ASSUME NEW d \in Decider, DeleteRejected(d)
        PROVE  t \in Upload /\ ~ Sole(t)
    <3>1. t = job[d].upload /\ job[d].pc = "rejectDelete"
      BY <1>1, <2>7 DEF DeleteRejected, DeleteTrees
    <3>2. t \in Upload
      BY <1>1, <3>1 DEF TypeOK, ReviewTypes
    <3>3. "reject" \in Kinds(t)
      BY <1>1, <3>1 DEF MandateInv, JobMandate
    <3> QED
      BY <1>1, <2>3, <3>2, <3>3, TwiceDecided
  <2> HIDE DEF t
  <2>8. original[u] = t
    BY DEF t
  <2> QED
    BY <1>1, <2>1, <2>4, <2>5, <2>6, <2>7, <2>8 DEF Kinds
<1>2. TypeOK /\ ReadinessInv /\ RetirementInv /\ MatchedOnce /\ AuthorsInv /\ MandateInv
        /\ [Next]_vars =>
        [\A u \in rows \ rows' :
           \/ \E x \in decisions[u] : x.kind = "withdraw"
           \/ original[u] \in Upload /\ ~ Sole(original[u])]_rows
  BY <1>1 DEF vars, rowVars
<1> QED
  BY <1>2, TypeCorrect, ReadinessInvariant, RetirementInvariant,
     MatchedOnceInvariant, AuthorsInvariant, MandateInvariant, PTL DEF Spec,
     RowLossExplained
=============================================================================
