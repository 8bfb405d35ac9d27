---------------------------- MODULE ArchiveStore ----------------------------
(***************************************************************************)
(* What the browser archive promises: one store, and operations that each  *)
(* take effect at once on the archive as it is at that moment.  There are  *)
(* no tabs, no cached copies and no separate reads and writes.  Archive    *)
(* implements it.                                                          *)
(***************************************************************************)
EXTENDS Portable

CONSTANTS Incoming,   \* portable archives that come from a backup or from Drive
          Starts,     \* archives an earlier session may have left
          None        \* nothing there

ASSUME StoreAssumption ==
  /\ Starts \subseteq State /\ Incoming \subseteq State
  /\ \A st \in Starts : Valid(st)
  /\ None \notin State

VARIABLES state,      \* the archive
          exclusions, \* profiles removed from this device only
          recovery    \* the archive before the last replacement, or None

storeVars == <<state, exclusions, recovery>>

(* The recovery copy forgets a profile with the archive. *)
Purged(rec, ex) == IF rec = None THEN None ELSE ApplyExclusions(rec, ex)

StoreInit ==
  /\ state \in Starts
  /\ exclusions = {}
  /\ recovery = None

Become(st, ex, rec) == state' = st /\ exclusions' = ex /\ recovery' = rec

StoreCreate ==
  \E id \in Ids \ IdsOf(state.profiles \cup state.tombs \cup exclusions) :
    Become(Created(state, id), exclusions, recovery)

StoreEdit ==
  \E l \in Labels : Become([state EXCEPT !.label = l], exclusions, recovery)

StoreImport ==
  \E p \in state.profiles, s \in Snaps : \E st \in Imported(state, p, s) :
    Become(st, RestoreExclusions(exclusions, st), recovery)

StoreDeleteEverywhere ==
  \E p \in state.profiles :
    Become(DeletedEverywhere(state, p), exclusions, Purged(recovery, {p}))

StoreDeleteFromDevice ==
  \E p \in state.profiles : \E ex \in {ExclusionsWithout(exclusions, p)} :
    Become(ApplyExclusions(state, ex), ex, Purged(recovery, ex))

StoreMerge ==
  \E in \in Incoming : \E st \in MergedStates(state, in) :
    Become(st, RestoreExclusions(exclusions, in), recovery)

StoreReplace ==
  \E in \in Incoming : \E st \in Replaced(in) :
    Become(st, RestoreExclusions(exclusions, in), state)

(* A restore: what the user reviewed is what a review of the current archive
   would show, and the archive before it is kept. *)
StoreRestore ==
  \E in \in Incoming, replace \in BOOLEAN :
    \E prepared \in Prepared(state, in, replace) : \E st \in Replaced(prepared) :
      Become(st, RestoreExclusions(exclusions, in), state)

(* A sync: the current archive reconciled with Drive, less the profiles that
   were removed from this device. *)
StoreSync ==
  \E in \in Incoming : \E merged \in Reconciliations(state, in) :
    \E st \in Replaced(merged) : \E ex \in RetainExclusionAliases(st, exclusions) :
      Become(ApplyExclusions(st, ex), ex, state)

StoreNext ==
  \/ StoreCreate
  \/ StoreEdit
  \/ StoreImport
  \/ StoreDeleteEverywhere
  \/ StoreDeleteFromDevice
  \/ StoreMerge
  \/ StoreReplace
  \/ StoreRestore
  \/ StoreSync

StoreSpec == StoreInit /\ [][StoreNext]_storeVars

=============================================================================
