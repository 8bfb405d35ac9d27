----------------------------- MODULE MCArchive -----------------------------
(* Small instances of Archive: profile a was on this device, b comes from    *)
(* another one, c is made here.  The snapshots carry one game identity.      *)
EXTENDS Archive, TLC

CONSTANTS a, b, c, i, s1, s2, l, t1, t2

MCSnapIdent == (s1 :> i) @@ (s2 :> i)

Own(snaps, ident) == [ids |-> {a}, ident |-> ident, snaps |-> snaps]
Other == [ids |-> {b}, ident |-> i, snaps |-> {s2}]

OneProfile == [profiles |-> {Own({}, NoIdent)}, tombs |-> {}, label |-> NoLabel]
OneImport == [profiles |-> {Own({s1}, i)}, tombs |-> {}, label |-> NoLabel]

RemoteProfile == [profiles |-> {Other}, tombs |-> {}, label |-> NoLabel]
RemoteDeletion ==
  [profiles |-> {}, tombs |-> {[ids |-> {a}, ident |-> NoIdent]}, label |-> NoLabel]
RemoteAlias ==
  [profiles |-> {[ids |-> {a, b}, ident |-> i, snaps |-> {s2}]}, tombs |-> {},
   label |-> NoLabel]

MCStarts == {OneProfile, OneImport}
MCStart == {OneImport}
MCRestored == {RemoteProfile, RemoteDeletion}
MCIncoming == {RemoteProfile, RemoteDeletion, RemoteAlias}

-----------------------------------------------------------------------------
(* No call answers from an archive older than itself, no reviewed backup is    *)
(* committed over another archive, and no profile removed from this device     *)
(* comes back with a sync.                                                     *)
ViewsAreCurrent == FreshReads /\ CommitBasis /\ ExcludedHidden
=============================================================================
