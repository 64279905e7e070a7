----------------------------- MODULE MCLogArchive -----------------------------
(* Two days past, today and tomorrow; what is older than a day is removed. *)
EXTENDS LogArchive
TwoDaysAgo == -2
=============================================================================
