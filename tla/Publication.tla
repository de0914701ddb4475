----------------------------- MODULE Publication -----------------------------
(***************************************************************************)
(* What the review of uploads promises to those who read the data: which   *)
(* revision of a country is current.  A revision becomes current when it   *)
(* was asked to be approved and after the one it revises has been retired, *)
(* and it leaves the database only when somebody asked for that.  Nothing  *)
(* retired, and nothing that is gone, ever comes back.                     *)
(*                                                                         *)
(* UploadReview implements this specification with pages, tasks, copies of *)
(* rows and batches that overlap (Publishes there).                        *)
(***************************************************************************)

CONSTANTS
    First,   \* the revisions that are current from the start
    Later,   \* those under review, none of them in First
    Present, \* those of them that are in the database at the start
    Revises  \* the revision in First that each of them revises, if any

VARIABLES
    asked, \* what was asked for each revision under review
    life   \* what became of each revision

vars == <<asked, life>>

Revision == First \cup Later
Wish == {"approve", "reject", "withdraw", "leave out"}
Life == {"proposed", "current", "retired", "gone"}

Init ==
    /\ asked = [u \in Later |-> {}]
    /\ life = [r \in Revision |-> IF r \in First THEN "current"
                                  ELSE IF r \in Present THEN "proposed" ELSE "gone"]

\* Something is asked for some revisions, whatever was asked before.
Ask ==
    /\ \E U \in SUBSET Later, kind \in Wish :
         asked' = [u \in Later |-> IF u \in U THEN asked[u] \cup {kind} ELSE asked[u]]
    /\ UNCHANGED life

\* A current revision is retired for one that is to be approved.
Retire(r) ==
    /\ life[r] = "current"
    /\ \E u \in Later : Revises[u] = r /\ "approve" \in asked[u]
    /\ life' = [life EXCEPT ![r] = "retired"]
    /\ UNCHANGED asked

\* It takes its place; the place must be free.
Appear(u) ==
    /\ life[u] = "proposed" /\ "approve" \in asked[u]
    /\ Revises[u] \in First => life[Revises[u]] # "current"
    /\ life' = [life EXCEPT ![u] = "current"]
    /\ UNCHANGED asked

\* Revisions go: rejected, withdrawn, or left out of the review.
Remove(U) ==
    /\ \A u \in U : asked[u] \cap {"reject", "withdraw", "leave out"} # {}
    /\ life' = [r \in Revision |-> IF r \in U THEN "gone" ELSE life[r]]
    /\ UNCHANGED asked

Next ==
    \/ Ask
    \/ \E r \in First : Retire(r)
    \/ \E u \in Later : Appear(u)
    \/ \E U \in SUBSET Later : Remove(U)

Spec == Init /\ [][Next]_vars

-----------------------------------------------------------------------------
(* What follows for a reader of the data                                   *)

\* A revision and the one it revises are never both current.
Replaced ==
    \A u \in Later : life[u] = "current" /\ Revises[u] \in First =>
                       life[Revises[u]] # "current"
=============================================================================
