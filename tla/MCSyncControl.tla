--------------------------- MODULE MCSyncControl ---------------------------
(* Another device left one revision, or files of every bad kind. *)
EXTENDS SyncControl
Left(id, kind, value) == [id |-> id, kind |-> kind, value |-> value]
MCClouds == {{Left(1, "corrupt", Empty), Left(2, "future", Empty)},
             {Left(1, "good", 2), Left(2, "malformed", Empty)}}
=============================================================================
