--------------------------- MODULE MCUploadReview ---------------------------
(***************************************************************************)
(* Instances of UploadReview for TLC.  The uploads, sessions and countries *)
(* of a scenario are strings; the functions that relate them are chosen by *)
(* name in each configuration.                                             *)
(***************************************************************************)
EXTENDS UploadReview, TLC

\* One session with two uploads.
OneSession == "u1" :> "s1" @@ "u2" :> "s1"

\* Two sessions that revise the same country.
SameCountry == "u1" :> "c1" @@ "u2" :> "c1"
TwoSessions == "u1" :> "s1" @@ "u2" :> "s2"

\* With them, one that waits for validation in a session of its own.
OneWaiting == SameCountry @@ "u3" :> "c1"
ThreeSessions == TwoSessions @@ "u3" :> "s3"

\* A country that is new, uploaded with one that is revised.
NewCountry == "u1" :> "c1" @@ "u2" :> None
=============================================================================
