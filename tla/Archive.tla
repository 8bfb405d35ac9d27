------------------------------- MODULE Archive -------------------------------
(***************************************************************************)
(* The browser archive: one IndexedDB database shared by the workers of    *)
(* several tabs (web/src/lib/local/worker.ts and storage.ts).              *)
(*                                                                         *)
(* A worker runs one call at a time.  It compares the stored revision with *)
(* that of its cached archive, reads the archive again when they differ,   *)
(* computes on its own copy, and writes back in one transaction guarded by *)
(* the revision it computed from.  Mutations hold a Web Lock where the     *)
(* browser has them; the revision guard has to suffice where it does not.  *)
(* The arguments of a call are chosen at the step that uses them.          *)
(***************************************************************************)
EXTENDS ArchiveStore

CONSTANTS Tabs,        \* tabs of the browser, each with its archive worker
          WebLocks,    \* whether navigator.locks exists
          RestoreTabs, \* bound of the model: tabs that review backups
          SyncTabs,    \* bound of the model: tabs that sync with Drive
          MaxRevision  \* bound of the model: writes in one behaviour

Stored == [state : State, exclusions : SUBSET Deletion, revision : Nat]
Preview == [state : State, incoming : Incoming, revision : Nat, open : BOOLEAN]

ASSUME ArchiveAssumption ==
  /\ None \notin Stored /\ None \notin Preview /\ None \notin Tabs
  /\ WebLocks \in BOOLEAN
  /\ RestoreTabs \subseteq Tabs /\ SyncTabs \subseteq Tabs
  /\ MaxRevision \in Nat

VARIABLES revision,     \* counts the writes of the database
          lock,         \* the tab that holds the Web Lock, or None
          pc,           \* where the call of each tab is
          call,         \* what that call is
          asked,        \* the stored revision when the call was made
          cached,       \* the archive a worker holds in memory, or None
          oldRecovery,  \* the recovery copy a deletion has read
          preview,      \* the reviewed backup a worker may commit, or None
          exported      \* the archive the tab's sync pass started from, or None

dbVars == <<state, exclusions, recovery, revision>>  \* the first three of ArchiveStore
vars == <<state, exclusions, recovery, revision, lock, pc, call, asked, cached,
          oldRecovery, preview, exported>>

TypeOK ==
  /\ state \in State
  /\ exclusions \in SUBSET Deletion
  /\ recovery \in State \cup {None}
  /\ revision \in Nat
  /\ lock \in Tabs \cup {None}
  /\ pc \in [Tabs -> {"idle", "loading", "warm", "purging"}]
  /\ call \in [Tabs -> {"none", "mutation", "read", "preview"}]
  /\ asked \in [Tabs -> Nat]
  /\ cached \in [Tabs -> Stored \cup {None}]
  /\ oldRecovery \in [Tabs -> State \cup {None}]
  /\ preview \in [Tabs -> Preview \cup {None}]
  /\ exported \in [Tabs -> State \cup {None}]

Init ==
  /\ state \in Starts
  /\ exclusions = {}
  /\ recovery = None
  /\ revision = 0
  /\ lock = None
  /\ pc = [t \in Tabs |-> "idle"]
  /\ call = [t \in Tabs |-> "none"]
  /\ asked = [t \in Tabs |-> 0]
  /\ cached = [t \in Tabs |-> None]
  /\ oldRecovery = [t \in Tabs |-> None]
  /\ preview = [t \in Tabs |-> None]
  /\ exported = [t \in Tabs |-> None]

(* crypto.randomUUID: an identifier that nothing mentions.  One that nothing
   mentions any more is as good as a new one. *)
IdsInState(st) == IdsOf(st.profiles) \cup IdsOf(st.tombs)
KnownStates ==
  ({state, recovery} \cup Incoming \cup {exported[t] : t \in Tabs}
     \cup {oldRecovery[t] : t \in Tabs}
     \cup {cached[t].state : t \in {u \in Tabs : cached[u] # None}}
     \cup {preview[t].state : t \in {u \in Tabs : preview[u] # None}}) \ {None}
KnownIds ==
  (UNION {IdsInState(st) : st \in KnownStates}) \cup IdsOf(exclusions)
    \cup (UNION {IdsOf(cached[t].exclusions) : t \in {u \in Tabs : cached[u] # None}})

(***************************************************************************)
(* A call begins when it is first in its worker's queue and, if it         *)
(* mutates, has the lock: until then it has touched nothing.               *)
(***************************************************************************)
(* Mutant of Fresh: a worker that has an archive never looks at the revision. *)
FreshOnce(t) == cached[t] # None

Fresh(t) == cached[t] # None /\ cached[t].revision = revision

(* Mutant of Begin: a worker with a current archive skips the lock. *)
BeginUnlocked(t, kind) ==
  /\ pc[t] = "idle"
  /\ kind = "preview" => t \in RestoreTabs
  /\ IF WebLocks /\ kind = "mutation" /\ ~Fresh(t)
     THEN lock = None /\ lock' = t
     ELSE UNCHANGED lock
  /\ pc' = [pc EXCEPT ![t] = IF Fresh(t) THEN "warm" ELSE "loading"]
  /\ call' = [call EXCEPT ![t] = kind]
  /\ asked' = [asked EXCEPT ![t] = revision]
  /\ preview' = [preview EXCEPT ![t] = IF kind = "preview" THEN None ELSE @]
  /\ UNCHANGED <<dbVars, cached, oldRecovery, exported>>

Begin(t, kind) ==
  /\ pc[t] = "idle"
  /\ kind = "preview" => t \in RestoreTabs
  /\ IF WebLocks /\ kind = "mutation"
     THEN lock = None /\ lock' = t
     ELSE UNCHANGED lock
  /\ pc' = [pc EXCEPT ![t] = IF Fresh(t) THEN "warm" ELSE "loading"]
  /\ call' = [call EXCEPT ![t] = kind]
  /\ asked' = [asked EXCEPT ![t] = revision]
  /\ preview' = [preview EXCEPT ![t] = IF kind = "preview" THEN None ELSE @]
  /\ UNCHANGED <<dbVars, cached, oldRecovery, exported>>

ReadArchive(t) ==
  /\ pc[t] = "loading"
  /\ pc' = [pc EXCEPT ![t] = "warm"]
  /\ cached' = [cached EXCEPT ![t] =
       [state |-> state, exclusions |-> exclusions, revision |-> revision]]
  /\ UNCHANGED <<dbVars, lock, call, asked, oldRecovery, preview, exported>>

(* Both deletions read the recovery copy in a transaction of its own. *)
ReadRecovery(t) ==
  /\ pc[t] = "warm"
  /\ call[t] = "mutation"
  /\ pc' = [pc EXCEPT ![t] = "purging"]
  /\ oldRecovery' = [oldRecovery EXCEPT ![t] = recovery]
  /\ UNCHANGED <<dbVars, lock, call, asked, cached, preview, exported>>

End(t) ==
  /\ pc' = [pc EXCEPT ![t] = "idle"]
  /\ call' = [call EXCEPT ![t] = "none"]
  /\ lock' = IF lock = t THEN None ELSE lock
  /\ asked' = [asked EXCEPT ![t] = 0]
  /\ oldRecovery' = [oldRecovery EXCEPT ![t] = None]

(***************************************************************************)
(* writeArchive and what follows it in dispatch                            *)
(***************************************************************************)
(* Mutant of Write: the transaction does not compare the revision. *)
WriteUnguarded(t, newState, newExclusions, newRecovery) ==
  /\ revision < MaxRevision
  /\ state' = newState
  /\ exclusions' = newExclusions
  /\ recovery' = newRecovery
  /\ revision' = cached[t].revision + 1
  /\ cached' = [cached EXCEPT ![t] =
       [state |-> newState, exclusions |-> newExclusions,
        revision |-> cached[t].revision + 1]]
  /\ End(t)

Write(t, newState, newExclusions, newRecovery) ==
  /\ cached[t].revision = revision
  /\ revision < MaxRevision
  /\ state' = newState
  /\ exclusions' = newExclusions
  /\ recovery' = newRecovery
  /\ revision' = revision + 1
  /\ cached' = [cached EXCEPT ![t] =
       [state |-> newState, exclusions |-> newExclusions, revision |-> revision + 1]]
  /\ End(t)

Mutating(t) == pc[t] = "warm" /\ call[t] = "mutation"

CreateProfile(t) ==
  /\ Mutating(t)
  /\ \E id \in Ids \ KnownIds :
       Write(t, Created(cached[t].state, id), cached[t].exclusions, recovery)
  /\ UNCHANGED <<preview, exported>>

(* renameProfile, setPreferences *)
EditDisplay(t) ==
  /\ Mutating(t)
  /\ \E l \in Labels :
       Write(t, [cached[t].state EXCEPT !.label = l], cached[t].exclusions, recovery)
  /\ UNCHANGED <<preview, exported>>

ImportRecords(t) ==
  /\ Mutating(t)
  /\ \E p \in cached[t].state.profiles, s \in Snaps :
       \E st \in Imported(cached[t].state, p, s) :
         Write(t, st, RestoreExclusions(cached[t].exclusions, st), recovery)
  /\ UNCHANGED <<preview, exported>>

DeleteEverywhere(t) ==
  /\ pc[t] = "purging"
  /\ \E p \in cached[t].state.profiles :
       Write(t, DeletedEverywhere(cached[t].state, p), cached[t].exclusions,
             Purged(oldRecovery[t], {p}))
  /\ UNCHANGED <<preview, exported>>

(* Mutant of DeleteFromDevice: the recovery copy is left as it is. *)
DeleteFromDeviceOnly(t) ==
  /\ pc[t] = "purging"
  /\ \E p \in cached[t].state.profiles :
       \E ex \in {ExclusionsWithout(cached[t].exclusions, p)} :
         Write(t, ApplyExclusions(cached[t].state, ex), ex, recovery)
  /\ UNCHANGED <<preview, exported>>

DeleteFromDevice(t) ==
  /\ pc[t] = "purging"
  /\ \E p \in cached[t].state.profiles :
       \E ex \in {ExclusionsWithout(cached[t].exclusions, p)} :
         Write(t, ApplyExclusions(cached[t].state, ex), ex, Purged(oldRecovery[t], ex))
  /\ UNCHANGED <<preview, exported>>

(* mergeState, importBackup without replacement *)
MergeBackup(t) ==
  /\ Mutating(t)
  /\ \E in \in Incoming : \E st \in MergedStates(cached[t].state, in) :
       Write(t, st, RestoreExclusions(cached[t].exclusions, in), recovery)
  /\ UNCHANGED <<preview, exported>>

(* Mutant of ReplaceBackup: no recovery copy is made. *)
ReplaceWithoutRecovery(t) ==
  /\ Mutating(t)
  /\ \E in \in Incoming : \E st \in Replaced(in) :
       Write(t, st, RestoreExclusions(cached[t].exclusions, in), recovery)
  /\ UNCHANGED <<preview, exported>>

(* importBackup with replacement, replaceState without an expected state *)
ReplaceBackup(t) ==
  /\ Mutating(t)
  /\ \E in \in Incoming : \E st \in Replaced(in) :
       Write(t, st, RestoreExclusions(cached[t].exclusions, in), cached[t].state)
  /\ UNCHANGED <<preview, exported>>

(* Mutant of CommitBackup: the revision of the review is not compared. *)
CommitStale(t) ==
  /\ Mutating(t)
  /\ preview[t] # None
  /\ ~preview[t].open
  /\ \E st \in Replaced(preview[t].state) :
       Write(t, st, RestoreExclusions(cached[t].exclusions, preview[t].incoming),
             cached[t].state)
  /\ preview' = [preview EXCEPT ![t] = None]
  /\ UNCHANGED exported

CommitBackup(t) ==
  /\ Mutating(t)
  /\ preview[t] # None
  /\ preview[t].revision = cached[t].revision
  /\ ~preview[t].open
  /\ \E st \in Replaced(preview[t].state) :
       Write(t, st, RestoreExclusions(cached[t].exclusions, preview[t].incoming),
             cached[t].state)
  /\ preview' = [preview EXCEPT ![t] = None]
  /\ UNCHANGED exported

(* replaceState with the state the sync pass exported.  A result that equals
   the stored archive is not written. *)
SyncWrite(t, next, ex) ==
  IF next = cached[t].state /\ ex = cached[t].exclusions
  THEN UNCHANGED <<dbVars, cached>> /\ End(t)
  ELSE Write(t, next, ex, cached[t].state)

(* Mutants of SyncReplace: the archive may have changed since the export; the
   result is written without hiding the excluded profiles. *)
SyncBlind(t) ==
  /\ Mutating(t)
  /\ exported[t] # None
  /\ \E in \in Incoming : \E merged \in Reconciliations(exported[t], in) :
       \E st \in Replaced(merged) :
         \E ex \in RetainExclusionAliases(st, cached[t].exclusions) :
           SyncWrite(t, ApplyExclusions(st, ex), ex)
  /\ exported' = [exported EXCEPT ![t] = None]
  /\ UNCHANGED preview

SyncUnfiltered(t) ==
  /\ Mutating(t)
  /\ exported[t] # None
  /\ cached[t].state = exported[t]
  /\ \E in \in Incoming : \E merged \in Reconciliations(exported[t], in) :
       \E st \in Replaced(merged) :
         \E ex \in RetainExclusionAliases(st, cached[t].exclusions) :
           SyncWrite(t, st, ex)
  /\ exported' = [exported EXCEPT ![t] = None]
  /\ UNCHANGED preview

SyncReplace(t) ==
  /\ Mutating(t)
  /\ exported[t] # None
  /\ cached[t].state = exported[t]
  /\ \E in \in Incoming : \E merged \in Reconciliations(exported[t], in) :
       \E st \in Replaced(merged) :
         \E ex \in RetainExclusionAliases(st, cached[t].exclusions) :
           SyncWrite(t, ApplyExclusions(st, ex), ex)
  /\ exported' = [exported EXCEPT ![t] = None]
  /\ UNCHANGED preview

(***************************************************************************)
(* Calls that write nothing                                                *)
(***************************************************************************)
Reply(t) ==
  /\ pc[t] = "warm"
  /\ call[t] = "read"
  /\ End(t)
  /\ UNCHANGED <<dbVars, cached, preview, exported>>

(* exportState for a sync pass *)
ExportForSync(t) ==
  /\ pc[t] = "warm"
  /\ call[t] = "read"
  /\ t \in SyncTabs
  /\ exported' = [exported EXCEPT ![t] = cached[t].state]
  /\ End(t)
  /\ UNCHANGED <<dbVars, cached, preview>>

(* Mutant of PreviewBackup: the review carries the revision stored when it ends. *)
PreviewLate(t) ==
  /\ pc[t] = "warm"
  /\ call[t] = "preview"
  /\ \E in \in Incoming, replace \in BOOLEAN :
       \E st \in Prepared(cached[t].state, in, replace) :
         preview' = [preview EXCEPT ![t] =
           [state |-> st, incoming |-> in, revision |-> revision, open |-> FALSE]]
  /\ End(t)
  /\ UNCHANGED <<dbVars, cached, exported>>

PreviewBackup(t) ==
  /\ pc[t] = "warm"
  /\ call[t] = "preview"
  /\ \E in \in Incoming, replace \in BOOLEAN :
       \/ /\ ~replace
          /\ Contested(cached[t].state, in)
          /\ preview' = [preview EXCEPT ![t] =
               [state |-> cached[t].state, incoming |-> in,
                revision |-> cached[t].revision, open |-> TRUE]]
       \/ \E st \in Prepared(cached[t].state, in, replace) :
            preview' = [preview EXCEPT ![t] =
              [state |-> st, incoming |-> in,
               revision |-> cached[t].revision, open |-> FALSE]]
  /\ End(t)
  /\ UNCHANGED <<dbVars, cached, exported>>

(* Mutant of Reject: a call that throws leaves the lock taken. *)
RejectLocked(t) ==
  /\ pc[t] \in {"loading", "warm", "purging"}
  /\ pc' = [pc EXCEPT ![t] = "idle"]
  /\ call' = [call EXCEPT ![t] = "none"]
  /\ asked' = [asked EXCEPT ![t] = 0]
  /\ oldRecovery' = [oldRecovery EXCEPT ![t] = None]
  /\ UNCHANGED <<dbVars, lock, cached, preview, exported>>

(* A call that throws: invalid input, a revision conflict, a failed read, no
   space left.  The database and the cached archive stay as they were. *)
Reject(t) ==
  /\ pc[t] \in {"loading", "warm", "purging"}
  /\ End(t)
  /\ UNCHANGED <<dbVars, cached, preview, exported>>

(* commitBackup of a preview that no longer fits the archive drops it. *)
RejectStalePreview(t) ==
  /\ Mutating(t)
  /\ preview[t] # None
  /\ \/ preview[t].revision # cached[t].revision
     \/ cached[t].revision # revision
  /\ preview' = [preview EXCEPT ![t] = None]
  /\ End(t)
  /\ UNCHANGED <<dbVars, cached, exported>>

(* The tab is closed, or its worker dies: memory goes, the browser frees the
   lock, the database stays. *)
Close(t) ==
  /\ End(t)
  /\ cached' = [cached EXCEPT ![t] = None]
  /\ preview' = [preview EXCEPT ![t] = None]
  /\ exported' = [exported EXCEPT ![t] = None]
  /\ UNCHANGED dbVars

Finish(t) ==
  \/ CreateProfile(t)
  \/ EditDisplay(t)
  \/ ImportRecords(t)
  \/ DeleteEverywhere(t)
  \/ DeleteFromDevice(t)
  \/ MergeBackup(t)
  \/ ReplaceBackup(t)
  \/ CommitBackup(t)
  \/ SyncReplace(t)
  \/ Reply(t)
  \/ ExportForSync(t)
  \/ PreviewBackup(t)
  \/ Reject(t)
  \/ RejectStalePreview(t)

Next ==
  \E t \in Tabs :
    \/ \E kind \in {"mutation", "read", "preview"} : Begin(t, kind)
    \/ ReadArchive(t)
    \/ ReadRecovery(t)
    \/ Finish(t)
    \/ Close(t)

Spec == Init /\ [][Next]_vars

(* A worker goes on with the call it has begun; one that can do nothing else
   throws. *)
Fairness == \A t \in Tabs : WF_vars(ReadArchive(t)) /\ WF_vars(Finish(t))

FairSpec == Spec /\ Fairness

(***************************************************************************)
(* Properties                                                              *)
(***************************************************************************)

(* Two tabs never disagree about one revision: a cached archive whose revision
   is the stored one is the stored archive, and no cache runs ahead.  This is
   what lets readRevision stand for reading the archive (storage.ts:51). *)
CacheCoherent ==
  \A t \in Tabs : cached[t] # None =>
    /\ cached[t].revision <= revision
    /\ cached[t].revision = revision =>
         cached[t].state = state /\ cached[t].exclusions = exclusions

(* What a pending commit rests on still holds at the revision it would write
   over: a reviewed backup is what a review of the stored archive would show,
   and the recovery copy a deletion has read is the stored one. *)
CommitBasis ==
  \A t \in Tabs :
    /\ preview[t] # None =>
         /\ preview[t].revision <= revision
         /\ preview[t].revision = revision /\ ~preview[t].open =>
              \E replace \in BOOLEAN :
                preview[t].state \in Prepared(state, preview[t].incoming, replace)
    /\ pc[t] = "purging" /\ cached[t].revision = revision => oldRecovery[t] = recovery

(* The archive always passes its own validation, whatever the order of edits,
   imports, deletions, restores and syncs from several tabs: no two profiles
   for one account, no profile beside its deletion (engine.ts:844-973). *)
StoredValid == Valid(state)

(* A profile removed from this device stays out of its archive until it is
   imported or restored here (device.ts, GOOGLE_DRIVE.md:101). *)
ExcludedHidden ==
  \A p \in state.profiles, e \in exclusions : ~Matches(p, e)

(* A reply never shows an archive older than the one stored when the call was
   made: a change in one tab is seen by the next call of every tab. *)
FreshReads ==
  \A t \in Tabs : pc[t] = "warm" => cached[t].revision >= asked[t]

(* With Web Locks a mutation never meets a revision conflict: what it read is
   still the stored archive when it writes. *)
LockExcludesConflicts ==
  WebLocks => \A t \in Tabs :
    pc[t] \in {"warm", "purging"} /\ call[t] = "mutation" => Fresh(t)

(* History leaves the archive only into the recovery copy, or with a profile
   that a deletion or a device removal names. *)
NothingLost ==
  [][\A p \in state.profiles : \A s \in p.snaps \ SnapsOf(state') :
       \/ recovery' # None /\ s \in SnapsOf(recovery')
       \/ \E x \in state'.tombs \cup exclusions' : Matches(p, x)]_vars

(* A deleted or removed profile is gone from the recovery copy as well, even
   when another tab has replaced the archive meanwhile. *)
DeletionReachesRecovery ==
  [][\A t \in Tabs : (DeleteEverywhere(t) \/ DeleteFromDevice(t)) /\ recovery' # None =>
       \A p \in state.profiles \ state'.profiles, q \in recovery'.profiles :
         ~Matches(p, q)]_vars

(* A sync writes only over the archive it started from, and it never lifts the
   removal of a profile: every excluded identifier stays excluded. *)
SyncIsSafe ==
  [][\A t \in Tabs : SyncReplace(t) /\ revision' # revision =>
       /\ state = exported[t]
       /\ IdsOf(exclusions) \subseteq IdsOf(exclusions')]_vars

(* The detailed archive implements the atomic one: an operation of any tab acts
   on the archive as it is when it commits, a restore commits what a review of
   that archive would show, and a sync reconciles that archive. *)
ImplementsStore == StoreSpec

(* No tab keeps the archive locked: every call that has begun ends, and with it
   its lock, so a call waiting in another tab gets its turn. *)
LockComesBack ==
  \A t \in Tabs : pc[t] # "idle" \/ lock = t ~> pc[t] = "idle" /\ lock # t

=============================================================================
