---------------------------- MODULE MCDriveSync ----------------------------
(* Two devices and a small cloud archive. *)
EXTENDS DriveSync

CONSTANTS a, b, s1, s2, x, y

(* Each device has a history of its own to import, one also a preference. *)
MCHabits == {<<a, s1>>, <<b, s2>>, <<b, x>>}

Budget(edits, deletes, faults) == [edits |-> edits, deletes |-> deletes, faults |-> faults]

(* Two edits and a deletion while all requests succeed, or an edit and a fault. *)
MCBudgets == {Budget(2, 1, 0), Budget(1, 0, 1)}

(* Every import and preference on both devices; three edits and a fault. *)
MCPreferences == Devices \X (Snaps \cup Labels)
MCEdits == {Budget(3, 0, 1)}
=============================================================================
