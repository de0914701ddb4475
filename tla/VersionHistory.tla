--------------------------- MODULE VersionHistory ---------------------------
(***************************************************************************)
(* The dates of the revisions of one country, and what the API answers to  *)
(* "which version was valid then".  A revision is valid from start_date    *)
(* up to, but not including, end_date.  The approval of a new revision     *)
(* ends the one it revises; the approval of a historical upload cuts the   *)
(* version before it and moves the start of the one after it               *)
(* (approve_revision).  Nobody checks that the result is a history: each   *)
(* of these updates is a statement of its own, computed from dates that    *)
(* other approvals move, and on entities chosen when the upload was        *)
(* matched or validated, long before.                                      *)
(*                                                                         *)
(* The files start at admin level 1, so that every revision is a clone of  *)
(* the country it revises, with its code; all entities of a revision have  *)
(* the dates and flags of its country.  A historical session has both its  *)
(* dates.  Requests, copies of rows and second decisions are in            *)
(* UploadReview: here an upload is decided on once.                        *)
(*                                                                         *)
(* An operator X_Y states the code of X with the mistake Y.                *)
(***************************************************************************)
EXTENDS Naturals

CONSTANTS
    Upload,     \* uploads for the country, each of a session of its own
    Base,       \* the revision that is current at first
    BaseStart,  \* its start_date
    Horizon,    \* bound: the last date
    None        \* no revision

Date == 0..Horizon

\* end_date is NULL.
Never == Horizon + 1

Revision == Upload \cup {Base}

ASSUME HistoryAssumption ==
    /\ Horizon \in Nat /\ BaseStart \in Date
    /\ Base \notin Upload /\ None \notin Revision

VARIABLES
    from, to,   \* the session's dates: started_at, or historical_start_date
                \* and historical_end_date
    stage,      \* how far the upload is
    original,   \* its original_geographical_entity
    trees,      \* revisions that are in the database
    approved,   \* those that are is_approved
    latest,     \* those that are is_latest
    start, end, \* start_date and end_date of a revision
    number,     \* its revision_number
    misfits     \* history: uploads that were approved although they did
                \* not fit into the history there was (see Fits)

sessionVars == <<from, to>>
entityVars == <<trees, approved, latest, start, end, number>>
vars == <<sessionVars, stage, original, entityVars, misfits>>

Stage == {"open", "matched", "validated", "reviewing", "supersede", "repoint",
          "cutPrevious", "moveNext", "publish", "approved", "rejected"}

\* is_historical_upload: only such a session has an end.
Historical(u) == to[u] # Never

\* No two sessions start at the same time; the wizard offers no end before
\* the start.
Init ==
    /\ from \in [Upload -> Date]
    /\ to \in [Upload -> Date \cup {Never}]
    /\ \A u \in Upload : from[u] <= to[u]
    /\ \A u, w \in Upload :
         u # w /\ ~ Historical(u) /\ ~ Historical(w) => from[u] # from[w]
    /\ stage = [u \in Upload |-> "open"]
    /\ original = [u \in Upload |-> None]
    /\ trees = {Base} /\ approved = {Base} /\ latest = {Base}
    /\ start = [r \in Revision |-> BaseStart]
    /\ end = [r \in Revision |-> Never]
    /\ number = [r \in Revision |-> 1]
    /\ misfits = {}

-----------------------------------------------------------------------------
(* Upload and validation                                                   *)

Goes(u, x, y) == stage[u] = x /\ stage' = [stage EXCEPT ![u] = y]

\* Those of a set with its maximal revision number
Newest(R) == {r \in R : \A q \in R : number[q] <= number[r]}

\* get_latest_revision_number
Latest == Newest(IF approved \cap latest # {} THEN approved \cap latest
                 ELSE approved)

\* The country a layer file is matched with, by the overlap of its units,
\* among the approved ones with the latest revision number
Preprocess(u) ==
    /\ Goes(u, "open", "matched")
    /\ \E r \in approved : /\ \E n \in Latest : number[r] = number[n]
                           /\ original' = [original EXCEPT ![u] = r]
    /\ UNCHANGED <<sessionVars, entityVars, misfits>>

\* validate_selected_country: no other session has the country in review.
NotUnderReview(u) ==
    ~ \E w \in Upload \ {u} :
        original[w] = original[u] /\ stage[w] = "reviewing"

\* The country is cloned with its is_latest; the clone gets the dates of the
\* session and the next revision number.
Validate(u) ==
    /\ Goes(u, "matched", "validated") /\ NotUnderReview(u)
    /\ trees' = trees \cup {u}
    /\ latest' = IF original[u] \in latest THEN latest \cup {u} ELSE latest
    /\ start' = [start EXCEPT ![u] = from[u]]
    /\ end' = [end EXCEPT ![u] = to[u]]
    /\ \E r \in Newest(approved) : number' = [number EXCEPT ![u] = number[r] + 1]
    /\ UNCHANGED <<sessionVars, original, approved, misfits>>

SendToReview(u) ==
    /\ Goes(u, "validated", "reviewing") /\ NotUnderReview(u)
    /\ UNCHANGED <<sessionVars, original, entityVars, misfits>>

-----------------------------------------------------------------------------
(* Approval and rejection                                                  *)

Executing(u) ==
    stage[u] \in {"supersede", "repoint", "cutPrevious", "moveNext", "publish"}

\* An upload fits if it revises a published version that is still open, and
\* starts after every version there is ...
FitsNew(u) ==
    /\ original[u] \in approved /\ end[original[u]] = Never
    /\ \A r \in approved : start[r] < start[u]

\* ... and a historical one if it is not empty, starts with no other version
\* but before some, and the first of these is approved and outlasts it.
FitsHistorical(u) ==
    /\ start[u] < end[u]
    /\ \A r \in approved : start[r] # start[u]
    /\ \E n \in approved :
         /\ start[u] < start[n] /\ end[u] < end[n]
         /\ \A r \in trees \ {n} : start[u] < start[r] => start[n] < start[r]

Fits(u) == IF Historical(u) THEN FitsHistorical(u) ELSE FitsNew(u)

\* The dates that an approval works on are judged whenever it changes some ...
NoteFit(u) == misfits' = IF Fits(u) THEN misfits ELSE misfits \cup {u}

\* ... and two historical uploads whose approvals overlap do not fit either.
NoteOverlap(u) ==
    misfits' = IF Historical(u) /\ \E w \in Upload : Historical(w) /\ Executing(w)
               THEN misfits \cup {u} ELSE misfits

Approve(u) ==
    /\ Goes(u, "reviewing", IF Historical(u) THEN "cutPrevious" ELSE "supersede")
    /\ NoteOverlap(u)
    /\ UNCHANGED <<sessionVars, original, entityVars>>

Supersede_KeepLatest(u) ==
    /\ Goes(u, "supersede", "repoint")
    /\ end' = [end EXCEPT ![original[u]] = from[u]]
    /\ NoteFit(u)
    /\ UNCHANGED <<sessionVars, original, trees, approved, latest, start, number>>

\* approve_new_revision_upload: the entities it revises are ended ...
Supersede(u) ==
    /\ Goes(u, "supersede", "repoint")
    /\ latest' = latest \ {original[u]}
    /\ end' = [end EXCEPT ![original[u]] = from[u]]
    /\ NoteFit(u)
    /\ UNCHANGED <<sessionVars, original, trees, approved, start, number>>

\* ... and uploads that wait unvalidated will revise the new ones.
Repoint(u) ==
    /\ Goes(u, "repoint", "publish")
    /\ original' = [w \in Upload |->
         IF original[w] = original[u] /\ stage[w] = "matched" THEN u
         ELSE original[w]]
    /\ UNCHANGED <<sessionVars, entityVars, misfits>>

Before(u) == {r \in approved : start[r] < start[u]}
After(u) == {r \in trees : start[r] > start[u]}

CutPrevious_First(u) ==
    /\ Goes(u, "cutPrevious", "moveNext")
    /\ IF Before(u) = {} THEN end' = end
       ELSE \E p \in Before(u) :
              /\ \A r \in Before(u) : start[p] <= start[r]
              /\ end' = [end EXCEPT ![p] = start[u]]
    /\ NoteFit(u)
    /\ UNCHANGED <<sessionVars, original, trees, approved, latest, start, number>>

\* approve_historical_upload: the version before it ends where it starts ...
CutPrevious(u) ==
    /\ Goes(u, "cutPrevious", "moveNext")
    /\ IF Before(u) = {} THEN end' = end
       ELSE \E p \in Before(u) :
              /\ \A r \in Before(u) : start[r] <= start[p]
              /\ end' = [end EXCEPT ![p] = start[u]]
    /\ NoteFit(u)
    /\ UNCHANGED <<sessionVars, original, trees, approved, latest, start, number>>

MoveNext_Last(u) ==
    /\ Goes(u, "moveNext", "publish")
    /\ IF After(u) = {} THEN start' = start
       ELSE \E n \in After(u) :
              /\ \A r \in After(u) : start[r] <= start[n]
              /\ start' = [start EXCEPT ![n] = end[u]]
    /\ NoteFit(u)
    /\ UNCHANGED <<sessionVars, original, trees, approved, latest, end, number>>

\* ... and the one after it, approved or not, starts where it ends.
MoveNext(u) ==
    /\ Goes(u, "moveNext", "publish")
    /\ IF After(u) = {} THEN start' = start
       ELSE \E n \in After(u) :
              /\ \A r \in After(u) : start[n] <= start[r]
              /\ start' = [start EXCEPT ![n] = end[u]]
    /\ NoteFit(u)
    /\ UNCHANGED <<sessionVars, original, trees, approved, latest, end, number>>

\* The new entities are approved, and the latest unless they are historical.
Publish(u) ==
    /\ Goes(u, "publish", "approved")
    /\ approved' = approved \cup {u}
    /\ latest' = IF Historical(u) THEN latest ELSE latest \cup {u}
    /\ UNCHANGED <<sessionVars, original, trees, start, end, number, misfits>>

\* The entities of a rejected revision are deleted.
Reject(u) ==
    /\ Goes(u, "reviewing", "rejected")
    /\ trees' = trees \ {u} /\ latest' = latest \ {u}
    /\ UNCHANGED <<sessionVars, original, approved, start, end, number, misfits>>

-----------------------------------------------------------------------------
Step(u) ==
    \/ Preprocess(u) \/ Validate(u) \/ SendToReview(u)
    \/ Approve(u) \/ Supersede(u) \/ Repoint(u)
    \/ CutPrevious(u) \/ MoveNext(u) \/ Publish(u)
    \/ Reject(u)

Next == \E u \in Upload : Step(u)

Spec == Init /\ [][Next]_vars

-----------------------------------------------------------------------------
(* What the API answers                                                    *)

\* The versions valid at a date (FindEntityVersionsByConceptUCode)
VersionsAt(t) == {r \in approved : start[r] <= t /\ t < end[r]}

\* The entities of a dataset (EntitySearchBase)
Listed == approved \cap latest

-----------------------------------------------------------------------------
(* Properties                                                              *)

\* Every variable keeps its type; what is approved or latest is there.
TypeOK ==
    /\ from \in [Upload -> Date] /\ to \in [Upload -> Date \cup {Never}]
    /\ stage \in [Upload -> Stage]
    /\ original \in [Upload -> Revision \cup {None}]
    /\ trees \subseteq Revision /\ approved \subseteq trees /\ latest \subseteq trees
    /\ start \in [Revision -> Date] /\ end \in [Revision -> Date \cup {Never}]
    /\ number \in [Revision -> Nat]
    /\ misfits \subseteq Upload

\* No approval executes, and every upload approved so far did fit.
Regular == misfits = {} /\ \A u \in Upload : ~ Executing(u)

\* What the guide promises ("we can always access the version of boundaries
\* that was valid at a specific date"): no date has two versions, and a
\* version that ends is followed by another on the same day.  Whatever the
\* order in which new and historical uploads are approved and whichever
\* approvals overlap, a history can only be broken by an upload that does not
\* fit, in one of the ways Fits and NoteOverlap list.
OneVersionAt ==
    Regular =>
      /\ \A t \in Date : \A r, s \in VersionsAt(t) : r = s
      /\ \A r \in approved : end[r] # Never =>
           \E s \in approved : start[s] = end[r]

\* Historical uploads aside (a clone keeps the flag of its original), the
\* dataset shows the version that is valid until further notice: is_latest
\* and end_date, which different statements write, agree.
OpenIsListed ==
    Regular => {r \in Listed : r \in Upload => ~ Historical(r)}
                 = {r \in approved : end[r] = Never}

\* An approval never changes what was valid before its upload starts.
PastKept ==
    [][misfits' = {} =>
         \A u \in Upload : stage'[u] # stage[u] =>
           \A t \in Date : t < from[u] => VersionsAt(t)' = VersionsAt(t)]_vars
=============================================================================
