----------------------------- MODULE DriveSync -----------------------------
(***************************************************************************)
(* Devices that synchronize one archive through immutable revisions in     *)
(* Google Drive: the passes of createDriveSync, interleaved with edits on  *)
(* the devices, with each other, with lost and late uploads, with cloud    *)
(* files that disappear and with pages that are reloaded.                  *)
(*                                                                         *)
(* The archive holds one account and one display preference.  `dead' says  *)
(* that a synced deletion stands for the account, `snaps' is its history.  *)
(* Three fields are history variables, which the code does not keep:       *)
(* `gone' is the history that deletions took, `at' the edit that gave      *)
(* `label' its value and `hist' the edits that this one was made after.    *)
(***************************************************************************)
EXTENDS RevisionGraph, Sequences

CONSTANTS Devices,
          Snaps,         \* source snapshots of the account
          Labels,        \* values of the preference
          NoLabel,       \* a preference never set
          NoDialog,      \* no conflicts were shown
          Habits,        \* bound of the model: <<device, value>> pairs, the snapshots and
                         \* preferences that the user of a device imports and sets
          MaxRevisions,  \* revisions that the cloud archive can hold
          Budgets        \* bounds: how many edits (imports and changes of the preference),
                         \* deletions and faults (failed requests, lost files, restarts)
                         \* one behaviour may have together

ASSUME DriveAssumption ==
  /\ NoLabel \notin Labels
  /\ MaxRevisions \in Nat

VARIABLES local,      \* the archive on each device
          written,    \* every revision ever made: [parents, archive]
          files,      \* the revisions now in the cloud
          pass,       \* the running pass of each device
          baseline,   \* what each device last agreed on: [archive, heads]
          pending,    \* the revision whose upload is unconfirmed, if any
          checkpoint, \* {} or the listing this archive is known to match
          wire,       \* uploads given up on that may still arrive
          done        \* history: edits made and faults met

vars == <<local, written, files, pass, baseline, pending, checkpoint, wire, done>>

Within(k) ==
  \E b \in Budgets : \A x \in DOMAIN done : done[x] + (IF x = k THEN 1 ELSE 0) <= b[x]

-----------------------------------------------------------------------------
(* Archives and their three-way reconciliation *)

Archive == [dead : BOOLEAN, snaps : SUBSET Snaps, gone : SUBSET Snaps,
            label : Labels \cup {NoLabel}, at : Nat, hist : SUBSET Nat]

Empty == [dead |-> FALSE, snaps |-> {}, gone |-> {}, label |-> NoLabel, at |-> 0, hist |-> {}]

Live(a) == a.snaps # {}

(* What the code compares: the history variables are invisible to it. *)
Shown(a) == <<a.dead, a.snaps, a.label>>
ShownArchives == BOOLEAN \X (SUBSET Snaps) \X (Labels \cup {NoLabel})

(* Mutant of DeleteEdit: only a profile that the base lacks is asked about. *)
DeleteUnknown(l, r, b) == l.dead # r.dead /\ (Live(l) \/ Live(r)) /\ ~Live(b)

(* A deletion meets a profile that is not what both sides last agreed on. *)
DeleteEdit(l, r, b) ==
  /\ l.dead # r.dead
  /\ \E live \in {a \in {l, r} : Live(a)} : ~(Live(b) /\ b.snaps = live.snaps)

Differ(l, r) == l.label # r.label /\ NoLabel \notin {l.label, r.label}

LabelConflict(l, r, b) == Differ(l, r) /\ b.label \notin {l.label, r.label}

Conflict(l, r, b) == DeleteEdit(l, r, b) \/ LabelConflict(l, r, b)

(* Whether the deletion stands after the merge: for a profile that changed
   on the other side, the user decides. *)
Fates(l, r, b) == IF DeleteEdit(l, r, b) THEN BOOLEAN ELSE {l.dead \/ r.dead}

(* The sides whose preference can win. *)
Winners(l, r, b) ==
  IF Differ(l, r)
  THEN IF l.label = b.label THEN {r} ELSE IF r.label = b.label THEN {l} ELSE {l, r}
  ELSE IF l.label = NoLabel \/ l.at \in r.hist THEN {r} ELSE {l}

Reconciled(l, r, b) ==
  {[dead |-> dead, label |-> w.label, at |-> w.at, hist |-> l.hist \cup r.hist,
    snaps |-> IF dead THEN {} ELSE l.snaps \cup r.snaps,
    gone  |-> l.gone \cup r.gone \cup (IF dead THEN l.snaps \cup r.snaps ELSE {})] :
      dead \in Fates(l, r, b), w \in Winners(l, r, b)}

-----------------------------------------------------------------------------
(* A pass over one listing *)

NoBaseline == [archive |-> Empty, heads |-> {}]
Idle == [step |-> "idle", view |-> {}, heads |-> {}, todo |-> {}, remote |-> Empty,
         forked |-> FALSE, exported |-> Empty, result |-> Empty, dialog |-> NoDialog,
         steady |-> FALSE]

Graph(view) == [r \in view |-> written[r].parents]

Base(view, h) ==
  LET c == Common(Graph(view), h)
  IN  IF c = NoRevision THEN Empty ELSE written[c].archive

KnownBase(d, view) ==
  IF baseline[d].heads \subseteq view THEN baseline[d].archive ELSE Empty

Inspected(view) ==
  [Idle EXCEPT !.step = "exported", !.view = view,
               !.heads = Heads(Graph(view)), !.todo = Heads(Graph(view))]

(* The exported archive, with the history variables of the device's own. *)
Left(d) == IF Shown(local[d]) = Shown(pass[d].exported) THEN local[d] ELSE pass[d].exported

(* What a dialog, and the answers to it, are about. *)
Dialog(d) == <<pass[d].view, Shown(pass[d].exported)>>

(* There are conflicts, and the pass does not carry the answers to them. *)
Asks(d) ==
  /\ pass[d].dialog # Dialog(d)
  /\ \/ pass[d].forked
     \/ Conflict(Left(d), pass[d].remote, KnownBase(d, pass[d].view))

(* Mutant of NeedsUpload: only forks of the history are joined. *)
NeedsJoin(d, state) == Cardinality(pass[d].heads) # 1

NeedsUpload(d, state) ==
  Cardinality(pass[d].heads) # 1 \/ Shown(state) # Shown(pass[d].remote)

-----------------------------------------------------------------------------
(* Init: fresh devices, or devices that agree on one published archive. *)

Agreed ==
  {[Empty EXCEPT !.label = l, !.at = 1, !.hist = {1}] : l \in Labels}

Init ==
  /\ \E first \in {Empty} \cup Agreed :
       LET known == first # Empty
       IN  /\ local = [d \in Devices |-> first]
           /\ written = [r \in IF known THEN {1} ELSE {} |->
                           [parents |-> {}, archive |-> first]]
           /\ baseline = [d \in Devices |->
                            IF known THEN [archive |-> first, heads |-> {1}] ELSE NoBaseline]
           /\ done = [edits |-> IF known THEN 1 ELSE 0, deletes |-> 0,
                      faults |-> 0]
  /\ files = DOMAIN written
  /\ pass = [d \in Devices |-> Idle]
  /\ pending = [d \in Devices |-> NoRevision]
  /\ checkpoint = [d \in Devices |-> {}]
  /\ wire = {}

(***************************************************************************)
(* Edits on a device, at any moment of a pass                              *)
(***************************************************************************)
Write(d, archive) ==
  /\ local' = [local EXCEPT ![d] = archive]
  /\ pass' = [pass EXCEPT ![d].steady = FALSE]
  /\ checkpoint' = [checkpoint EXCEPT ![d] = {}]
  /\ UNCHANGED <<written, files, baseline, pending, wire>>

Import(d) ==
  /\ Within("edits")
  /\ ~local[d].dead
  /\ \E s \in Snaps \ local[d].snaps :
       <<d, s>> \in Habits /\ Write(d, [local[d] EXCEPT !.snaps = @ \cup {s}])
  /\ done' = [done EXCEPT !.edits = @ + 1]

SetLabel(d) ==
  /\ Within("edits")
  /\ \E l \in Labels \ {local[d].label} :
       <<d, l>> \in Habits /\
       Write(d, [local[d] EXCEPT !.label = l, !.at = done.edits + 1,
                                 !.hist = @ \cup {done.edits + 1}])
  /\ done' = [done EXCEPT !.edits = @ + 1]

DeleteEverywhere(d) ==
  /\ Within("deletes")
  /\ Live(local[d])
  /\ Write(d, [local[d] EXCEPT !.dead = TRUE, !.snaps = {}, !.gone = @ \cup local[d].snaps])
  /\ done' = [done EXCEPT !.deletes = @ + 1]

(***************************************************************************)
(* Passes                                                                  *)
(***************************************************************************)
(* The listing, the archive's revision and the archive are read in this
   order.  An edit between them is here an edit before them: it only makes the
   revision, and so the checkpoint, older.  A pass ends here when neither the
   cloud nor the archive changed since the checkpoint. *)
Begin(d) ==
  /\ pass[d].step \in {"idle", "asked"}
  /\ ~ /\ checkpoint[d] = files /\ files # {}
       /\ pending[d] = NoRevision
       /\ pass[d].step = "idle"
  /\ pass' = [pass EXCEPT ![d] =
                [Inspected(files) EXCEPT !.exported = local[d], !.steady = TRUE,
                                         !.dialog = pass[d].dialog]]
  /\ pending' = [pending EXCEPT ![d] = IF @ \in files THEN NoRevision ELSE @]
  /\ UNCHANGED <<local, written, files, baseline, checkpoint, wire, done>>

First(d) == {h \in pass[d].todo : \A x \in pass[d].todo : h <= x}

(* The heads of the cloud are merged one after the other, from nothing, over
   the answers that the user can give to their conflicts. *)
MergeHead(d) ==
  /\ pass[d].step = "exported"
  /\ \E h \in First(d) :
       LET base == Base(pass[d].view, h)
       IN  \E state \in Reconciled(pass[d].remote, written[h].archive, base) :
             pass' = [pass EXCEPT ![d].todo = @ \ {h}, ![d].remote = state,
                        ![d].forked = @ \/ Conflict(pass[d].remote, written[h].archive, base)]
  /\ UNCHANGED <<local, written, files, baseline, pending, checkpoint, wire, done>>

Ready(d) == pass[d].step = "exported" /\ pass[d].todo = {}

Ask(d) ==
  /\ Ready(d)
  /\ Asks(d)
  /\ pass' = [pass EXCEPT ![d] = [Idle EXCEPT !.step = "asked", !.dialog = Dialog(d)]]
  /\ UNCHANGED <<local, written, files, baseline, pending, checkpoint, wire, done>>

(* replaceState, or nothing when the merge is what the device already has. *)
Replaces(d, state) == Shown(state) # Shown(pass[d].exported)

(* Mutant of Unmoved: the archive is replaced whatever happened to it. *)
MovedAnyway(d) == TRUE

Unmoved(d) == Shown(local[d]) = Shown(pass[d].exported)

Updated(d, state) ==
  IF Replaces(d, state) THEN state
  ELSE [local[d] EXCEPT !.hist = @ \cup state.hist,
                        !.at = IF @ = pass[d].exported.at THEN state.at ELSE @,
                        !.gone = @ \cup state.gone]

Reusable(d, state) ==
  /\ pending[d] # NoRevision
  /\ Shown(written[pending[d]].archive) = Shown(state)
  /\ written[pending[d]].parents = pass[d].heads

Parents(d) == pass[d].heads

(* The upload gets its identifier before it starts and keeps it in a retry. *)
Prepare(d, state) ==
  /\ pass' = [pass EXCEPT ![d] =
                [Idle EXCEPT !.step = "uploading", !.view = pass[d].view, !.result = state,
                             !.steady = pass[d].steady /\ ~Replaces(d, state)]]
  /\ IF Reusable(d, state)
     THEN UNCHANGED <<written, pending>>
     ELSE LET r == Cardinality(DOMAIN written) + 1
          IN  /\ pending' = [pending EXCEPT ![d] = r]
              /\ written' = [x \in DOMAIN written \cup {r} |->
                              IF x = r THEN [parents |-> Parents(d), archive |-> state]
                              ELSE written[x]]
  /\ UNCHANGED <<baseline>>

(* Mutant of Matching: what the device did meanwhile is not looked at. *)
MatchingAnyway(d, listing, steady) == listing

Matching(d, listing, steady) == IF steady THEN listing ELSE {}

Synced(d, state, heads) ==
  /\ baseline' = [baseline EXCEPT ![d] = [archive |-> state, heads |-> heads]]
  /\ pass' = [pass EXCEPT ![d] = Idle]

Forget(d, state) == IF Replaces(d, state) THEN {} ELSE checkpoint[d]

Merged(d) == Reconciled(Left(d), pass[d].remote, KnownBase(d, pass[d].view))

Merge(d) ==
  /\ Ready(d)
  /\ ~Asks(d)
  /\ \E state \in Merged(d) :
       /\ Replaces(d, state) => Unmoved(d)
       /\ local' = [local EXCEPT ![d] = Updated(d, state)]
       /\ \/ /\ NeedsUpload(d, state)
             /\ Cardinality(pass[d].view) < MaxRevisions
             /\ Prepare(d, state)
             /\ checkpoint' = [checkpoint EXCEPT ![d] = Forget(d, state)]
          \/ /\ NeedsUpload(d, state)
             /\ Cardinality(pass[d].view) >= MaxRevisions
             /\ pass' = [pass EXCEPT ![d] = Idle]
             /\ checkpoint' = [checkpoint EXCEPT ![d] = Forget(d, state)]
             /\ UNCHANGED <<written, baseline, pending>>
          \/ /\ ~NeedsUpload(d, state)
             /\ Synced(d, state, Parents(d))
             /\ checkpoint' = [checkpoint EXCEPT ![d] =
                  Matching(d, pass[d].view, pass[d].steady /\ ~Replaces(d, state))]
             /\ UNCHANGED <<written, pending>>
  /\ UNCHANGED <<files, wire, done>>

(* replaceState refuses: the archive changed since it was exported. *)
Stale(d) ==
  /\ Ready(d)
  /\ ~Asks(d)
  /\ ~Unmoved(d)
  /\ \E state \in Merged(d) : Replaces(d, state)
  /\ pass' = [pass EXCEPT ![d] = Idle]
  /\ UNCHANGED <<local, written, files, baseline, pending, checkpoint, wire, done>>

Published(d) ==
  /\ pass[d].step = "uploading"
  /\ files' = files \cup {pending[d]}
  /\ Synced(d, pass[d].result, {pending[d]})
  /\ checkpoint' = [checkpoint EXCEPT ![d] =
                      Matching(d, pass[d].view \cup {pending[d]}, pass[d].steady)]
  /\ pending' = [pending EXCEPT ![d] = NoRevision]
  /\ UNCHANGED <<local, written, wire, done>>

(***************************************************************************)
(* What can go wrong                                                       *)
(***************************************************************************)
(* A listing, a download or the local archive fails: nothing has changed yet. *)
ReadFails(d) ==
  /\ Within("faults")
  /\ pass[d].step = "exported"
  /\ pass' = [pass EXCEPT ![d] = Idle]
  /\ done' = [done EXCEPT !.faults = @ + 1]
  /\ UNCHANGED <<local, written, files, baseline, pending, checkpoint, wire>>

(* A request that was given up may have been lost, or arrive after all. *)
GivenUp(d) ==
  wire' \in IF pass[d].step = "uploading" THEN {wire, wire \cup {pending[d]}} ELSE {wire}

UploadFails(d) ==
  /\ Within("faults")
  /\ pass[d].step = "uploading"
  /\ GivenUp(d)
  /\ pass' = [pass EXCEPT ![d] = Idle]
  /\ done' = [done EXCEPT !.faults = @ + 1]
  /\ UNCHANGED <<local, written, files, baseline, pending, checkpoint>>

Arrive(r) ==
  /\ files' = files \cup {r}
  /\ wire' = wire \ {r}
  /\ UNCHANGED <<local, written, pass, baseline, pending, checkpoint, done>>

(* A damaged payload is found and removed, or the user clears cloud files. *)
Vanish(r) ==
  /\ Within("faults")
  /\ files' = files \ {r}
  /\ done' = [done EXCEPT !.faults = @ + 1]
  /\ UNCHANGED <<local, written, pass, baseline, pending, checkpoint, wire>>

(* Reload, or disconnect and connect: checkpoints live only in memory. *)
Restart(d) ==
  /\ Within("faults")
  /\ GivenUp(d)
  /\ pass' = [pass EXCEPT ![d] = Idle]
  /\ baseline' = [baseline EXCEPT ![d] = NoBaseline]
  /\ pending' = [pending EXCEPT ![d] = NoRevision]
  /\ checkpoint' = [checkpoint EXCEPT ![d] = {}]
  /\ done' = [done EXCEPT !.faults = @ + 1]
  /\ UNCHANGED <<local, written, files>>

Pass(d) == Begin(d) \/ MergeHead(d) \/ Ask(d) \/ Merge(d) \/ Stale(d) \/ Published(d)

Next ==
  \/ \E d \in Devices :
       \/ Import(d) \/ SetLabel(d) \/ DeleteEverywhere(d)
       \/ Pass(d) \/ ReadFails(d) \/ UploadFails(d) \/ Restart(d)
  \/ \E r \in wire : Arrive(r)
  \/ \E r \in files : Vanish(r)

Spec == Init /\ [][Next]_vars

(* Weak fairness of Pass(d), stated without ENABLED: a pass can be begun or
   continued exactly when Due(d), and then its step or its heads change, as they
   do otherwise only in a bounded number of faults. *)
Due(d) ==
  \/ pass[d].step # "idle"
  \/ checkpoint[d] # files \/ files = {} \/ pending[d] # NoRevision

FairPass(d) ==
  \/ []<>(~Due(d))
  \/ []<><<pass'[d].step # pass[d].step \/ pass'[d].todo # pass[d].todo>>_vars

(* Each device keeps syncing (the interval, or the user after an error), the
   user answers its dialogs, and requests end. *)
FairSpec == Spec /\ \A d \in Devices : FairPass(d)

-----------------------------------------------------------------------------
Passes == [step : {"idle", "exported", "asked", "uploading"},
           view : SUBSET DOMAIN written, heads : SUBSET DOMAIN written,
           todo : SUBSET DOMAIN written, remote : Archive, forked : BOOLEAN,
           exported : Archive, result : Archive,
           dialog : {NoDialog} \cup ((SUBSET DOMAIN written) \X ShownArchives),
           steady : BOOLEAN]

TypeOK ==
  /\ local \in [Devices -> Archive]
  /\ \A d \in Devices : local[d].dead => ~Live(local[d])
  /\ DOMAIN written = 1 .. Cardinality(DOMAIN written)
  /\ \A r \in DOMAIN written :
       written[r].parents \subseteq 1 .. (r - 1) /\ written[r].archive \in Archive
  /\ files \subseteq DOMAIN written /\ wire \subseteq DOMAIN written
  /\ done \in [edits : Nat, deletes : Nat, faults : Nat]
  /\ pass \in [Devices -> Passes]
  /\ baseline \in [Devices -> [archive : Archive, heads : SUBSET DOMAIN written]]
  /\ pending \in [Devices -> DOMAIN written \cup {NoRevision}]
  /\ checkpoint \in [Devices -> SUBSET DOMAIN written]
  /\ \A d \in Devices : pass[d].step = "uploading" => pending[d] # NoRevision

(* A device never loses pull history by syncing, only by a deletion that then
   stands for it: an import that lands while a pass runs survives the archive
   the pass writes back (perform, replaceState with the expected state). *)
NothingForgotten ==
  [][\A d \in Devices :
       local[d].snaps \subseteq local'[d].snaps \cup local'[d].gone]_vars

(* A revision takes the place of its parents in every later merge, so it holds
   everything that they held, however the passes of the devices interleave and
   however late an upload arrives (perform, mergedHeads and pendingUpload). *)
RevisionsCarryOn ==
  \A r \in DOMAIN written : \A p \in written[r].parents :
    written[p].archive.snaps \subseteq written[r].archive.snaps \cup written[r].archive.gone

(* The three-way merges that a pass is about to make. *)
NextMerges(d) ==
  IF pass[d].todo # {}
  THEN {<<pass[d].remote, written[h].archive, Base(pass[d].view, h)>> : h \in First(d)}
  ELSE {<<Left(d), pass[d].remote, KnownBase(d, pass[d].view)>>}

(* No merge drops history that the deleting side had not seen without asking:
   where a deletion wins silently it was made knowing all of that history
   (reconcile, the delete-edit conflict against the base that perform picks). *)
NoSilentDeletion ==
  \A d \in Devices : pass[d].step = "exported" =>
    \A m \in NextMerges(d) :
      \A dead \in {a \in {m[1], m[2]} : a.dead}, live \in {a \in {m[1], m[2]} : Live(a)} :
        ~DeleteEdit(m[1], m[2], m[3]) => live.snaps \subseteq dead.gone

(* What lets a later pass end early, and two devices be told that they are in
   sync: the listing of a checkpoint has one head, and that head holds what is
   on the device (perform, checkpoint). *)
CheckpointSound ==
  \A d \in Devices : checkpoint[d] # {} =>
    /\ Cardinality(Heads(Graph(checkpoint[d]))) = 1
    /\ \A h \in Heads(Graph(checkpoint[d])) : Shown(written[h].archive) = Shown(local[d])

(* A silent merge never brings back a preference that the other side had
   already replaced. *)
NoSilentUndo ==
  \A d \in Devices : pass[d].step = "exported" =>
    \A m \in NextMerges(d) :
      Differ(m[1], m[2]) /\ ~LabelConflict(m[1], m[2], m[3]) =>
        \A w \in Winners(m[1], m[2], m[3]) :
          \A l \in {m[1], m[2]} \ {w} : w.at \in l.hist => l.at \in w.hist

(* Once edits stop and devices keep syncing, they end up with one archive,
   unless the cloud archive is full. *)
Converges ==
  <>[](\/ \A d, e \in Devices : Shown(local[d]) = Shown(local[e])
       \/ Cardinality(files) >= MaxRevisions)

=============================================================================
