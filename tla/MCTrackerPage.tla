--------------------------- MODULE MCTrackerPage ---------------------------
(* A small instance of TrackerPage. *)
EXTENDS TrackerPage
=============================================================================
