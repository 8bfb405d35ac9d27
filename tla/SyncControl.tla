---------------------------- MODULE SyncControl ----------------------------
(***************************************************************************)
(* When a device synchronizes: the controller of Drive sync                *)
(* (sync/controller.ts) with its sessions, timers, pauses, dialogs and the *)
(* audit of the cloud files, the pause leases of the operations            *)
(* (local/operation-pauses.ts) and the loading of the authorization script *)
(* (sync/identity.ts).  A pass is cut at its awaits.  What a merge does to *)
(* archives, several heads and races with other devices are DriveSync's;   *)
(* here an archive is one value and the cloud history is a line.           *)
(***************************************************************************)
EXTENDS Naturals, FiniteSets

CONSTANTS Values,     \* what an archive can be, apart from the new, Empty one
          Empty, None,
          Ops,        \* operations that pause sync, each once
          Quota,      \* MAX_REVISIONS
          Clouds,     \* the files that other devices may have left
          MaxEdits, MaxOthers, MaxFaults, MaxSessions

V == Values \cup {Empty}
File == [id : Nat, kind : {"good", "corrupt", "future", "malformed"}, value : V]
Dialog == [generation : {0, 1}, pair : V \X V]
Answer == [dialog : Dialog, choice : {"local", "remote"}]
Ruling == [choice : {"local", "remote"}, pair : V \X V]
Session == [key : (SUBSET File) \X V, decision : Ruling \cup {None}]

ASSUME ControlAssumption ==
  /\ None \notin Dialog
  /\ \A files \in Clouds :
       /\ files \subseteq File /\ IsFiniteSet(files)
       /\ \A f \in files : f.id <= Cardinality(files)

VARIABLES ctl,      \* the closure of createDriveSync
          pass,     \* the running pass, or None
          leases,   \* of each operation: "free", "waiting", "held", "retired", "done"
          google,   \* the authorization script: "absent", "loading", "ready"
          local,    \* the archive: [value, rev]
          cloud,    \* the files in Drive: [id, kind, value]
          count     \* history: edits, others' changes, faults, sessions, files

vars == <<ctl, pass, leases, google, local, cloud, count>>

Controller ==
  [account : {"no", "yes"}, dialog : Dialog \cup {None}, generation : {0, 1},
   phase : {"disconnected", "connecting", "syncing", "synced", "conflict", "reconnect", "error"},
   dirty : BOOLEAN, debounce : BOOLEAN, waiters : BOOLEAN, retry : BOOLEAN, disposed : BOOLEAN,
   deferred : Answer \cup {None}, base : V \X Nat, session : Session \cup {None},
   audited : SUBSET File, checkpoint : ((SUBSET File) \X Nat) \cup {None}]

Pass ==
  [pc : {"list", "audit", "look", "merge", "reconcile", "apply", "refused", "replaced",
         "compare", "upload", "uploaded"},
   stale : BOOLEAN, submitted : BOOLEAN, listed : SUBSET File, todo : SUBSET File,
   bad : SUBSET File, answer : Answer \cup {None}, used : Ruling \cup {None},
   rev : Nat, value : V, state : V]

TypeOK ==
  /\ ctl \in Controller
  /\ pass \in Pass \cup {None}
  /\ leases \in [Ops -> {"free", "waiting", "held", "retired", "done"}]
  /\ google \in {"absent", "loading", "ready"}
  /\ local \in [value : V, rev : Nat]
  /\ cloud \in SUBSET File
  /\ count \in [edits : Nat, others : Nat, faults : Nat, sessions : Nat, files : Nat]

Good(files) == {f \in files : f.kind = "good"}
Newest(files) == CHOOSE f \in Good(files) : \A g \in Good(files) : g.id <= f.id
Content(files) == IF Good(files) = {} THEN Empty ELSE Newest(files).value
Head(files) == IF Good(files) = {} THEN 0 ELSE Newest(files).id

(* pauseCount > 0: a lease counts from its request to its release. *)
Counted == {"waiting", "held", "retired"}
Paused == \E op \in Ops : leases[op] \in Counted

-----------------------------------------------------------------------------
(* The scheduler *)

Schedule(c, paused) ==
  IF paused THEN [c EXCEPT !.dirty = TRUE]
  ELSE IF \/ c.account = "no" \/ c.phase \in {"conflict", "reconnect"}
          \/ c.phase = "error" /\ ~c.retry
  THEN c
  ELSE [c EXCEPT !.debounce = TRUE]

(* The end of a pass, whatever its result: changes met meanwhile are due. *)
End(c) ==
  /\ pass' = None
  /\ ctl' = IF c.dirty THEN Schedule([c EXCEPT !.dirty = FALSE], Paused) ELSE c

(* An answer counts for the dialog that is still shown. *)
Accepted(c, answer) ==
  IF answer # None /\ c.phase = "conflict" /\ answer.dialog.generation = c.dialog.generation THEN answer ELSE None

Sync(c, paused, answer) ==
  IF c.account = "no" THEN ctl' = c /\ UNCHANGED pass
  ELSE IF paused
  THEN /\ ctl' = [c EXCEPT !.dirty = TRUE, !.waiters = TRUE,
                           !.deferred = IF answer # None THEN answer ELSE @]
       /\ UNCHANGED pass
  ELSE IF pass # None THEN ctl' = [c EXCEPT !.dirty = TRUE] /\ UNCHANGED pass
  ELSE /\ ctl' = [c EXCEPT !.phase = "syncing", !.dialog = None]
       /\ pass' = [pc |-> "list", stale |-> FALSE, listed |-> {}, todo |-> {}, bad |-> {},
                   answer |-> Accepted(c, answer), submitted |-> answer # None,
                   rev |-> 0, value |-> Empty, state |-> Empty, used |-> None]

Awake == ctl.debounce /\ UNCHANGED <<leases, google, local, cloud, count>>

Debounce == Awake /\ Sync([ctl EXCEPT !.debounce = FALSE], Paused, None)

DebounceHidden == Awake /\ ctl' = [ctl EXCEPT !.debounce = FALSE] /\ UNCHANGED pass

(* focus, online, visibilitychange and the interval *)
Wake ==
  /\ ~ctl.disposed
  /\ ctl' = Schedule(ctl, Paused)
  /\ UNCHANGED <<pass, leases, google, local, cloud, count>>

(* A change of the archive is announced, but for those of the pass itself. *)
Edit ==
  /\ count.edits < MaxEdits
  /\ \E value \in Values \ {local.value} : local' = [value |-> value, rev |-> local.rev + 1]
  /\ ctl' = IF ctl.disposed \/ (pass # None /\ pass.pc \in {"apply", "refused", "replaced"})
            THEN ctl ELSE Schedule([ctl EXCEPT !.dirty = TRUE], Paused)
  /\ count' = [count EXCEPT !.edits = @ + 1]
  /\ UNCHANGED <<pass, leases, google, cloud>>

-----------------------------------------------------------------------------
(* Sessions *)

Closed(c) ==
  [c EXCEPT !.account = "no", !.phase = "disconnected", !.dialog = None, !.dirty = FALSE,
            !.debounce = FALSE, !.deferred = None, !.waiters = FALSE, !.base = <<Empty, 0>>,
            !.session = None, !.audited = {}, !.checkpoint = None]

(* epoch++ *)
Outdated == IF pass = None THEN None ELSE [pass EXCEPT !.stale = TRUE]

Disconnect ==
  /\ ~ctl.disposed
  /\ \E destroy \in BOOLEAN : ctl' = [Closed(ctl) EXCEPT !.disposed = destroy]
  /\ pass' = Outdated
  /\ UNCHANGED <<leases, google, local, cloud, count>>

Connect ==
  /\ ~ctl.disposed /\ count.sessions < MaxSessions
  /\ ctl' = [Closed(ctl) EXCEPT !.phase = "connecting"]
  /\ pass' = Outdated
  /\ google' = IF google = "absent" THEN "loading" ELSE google
  /\ count' = [count EXCEPT !.sessions = @ + 1]
  /\ UNCHANGED <<leases, local, cloud>>

Fault == count.faults < MaxFaults /\ count' = [count EXCEPT !.faults = @ + 1]

(* One script load, shared and bounded by a timer; a failed one is forgotten. *)
IdentityLoaded ==
  /\ google = "loading" /\ google' = "ready"
  /\ UNCHANGED <<ctl, pass, leases, local, cloud, count>>

IdentityFailed ==
  /\ google = "loading" /\ google' = "absent" /\ Fault
  /\ ctl' = IF ctl.phase = "connecting" THEN [ctl EXCEPT !.phase = "error"] ELSE ctl
  /\ UNCHANGED <<pass, leases, local, cloud>>

(* A person signs in or refuses; an answer to an earlier attempt is ignored. *)
Authorized ==
  /\ ctl.phase = "connecting" /\ google = "ready"
  /\ Sync([ctl EXCEPT !.account = "yes"], Paused, None)
  /\ UNCHANGED <<leases, google, local, cloud, count>>

Refused ==
  /\ ctl.phase = "connecting" /\ google = "ready" /\ Fault
  /\ ctl' = [ctl EXCEPT !.phase = "error"]
  /\ UNCHANGED <<pass, leases, google, local, cloud>>

Expire ==
  /\ ctl.account = "yes" /\ Fault
  /\ ctl' = [ctl EXCEPT !.account = "no", !.session = None, !.phase = "reconnect", !.dialog = None]
  /\ UNCHANGED <<pass, leases, google, local, cloud>>

Resolve ==
  /\ ctl.phase = "conflict" /\ ~ctl.disposed
  /\ \E choice \in {"local", "remote"} :
       Sync(ctl, Paused, [dialog |-> ctl.dialog, choice |-> choice])
  /\ UNCHANGED <<leases, google, local, cloud, count>>

SyncButton ==
  /\ ~ctl.disposed /\ ctl.phase \in {"synced", "error", "conflict"}
  /\ Sync(ctl, Paused, None)
  /\ UNCHANGED <<leases, google, local, cloud, count>>

-----------------------------------------------------------------------------
(* Pause leases *)

Acquire(op) ==
  /\ leases[op] = "free"
  /\ leases' = [leases EXCEPT ![op] = "waiting"]
  /\ ctl' = [ctl EXCEPT !.debounce = FALSE]
  /\ UNCHANGED <<pass, google, local, cloud, count>>

(* The last release runs what was put off. *)
Resume(op) ==
  /\ leases' = [leases EXCEPT ![op] = "done"]
  /\ IF ctl.disposed \/ \E other \in Ops \ {op} : leases[other] \in Counted
     THEN UNCHANGED <<ctl, pass>>
     ELSE IF ctl.waiters
     THEN Sync([ctl EXCEPT !.waiters = FALSE, !.deferred = None, !.dirty = FALSE], FALSE, ctl.deferred)
     ELSE /\ ctl' = IF ctl.dirty THEN Schedule([ctl EXCEPT !.dirty = FALSE], FALSE) ELSE ctl
          /\ UNCHANGED pass
  /\ UNCHANGED <<google, local, cloud, count>>

(* Mutant of Claimed: the lease is given while a pass is still writing. *)
ClaimedAtOnce(op) ==
  /\ leases[op] \in {"waiting", "retired"}
  /\ IF leases[op] = "retired" THEN Resume(op)
     ELSE /\ leases' = [leases EXCEPT ![op] = "held"]
          /\ UNCHANGED <<ctl, pass, google, local, cloud, count>>

(* Mutant of Claimed: a lease that comes after its release stays claimed. *)
ClaimedLate(op) ==
  /\ leases[op] = "waiting" /\ pass = None
  /\ leases' = [leases EXCEPT ![op] = "held"]
  /\ UNCHANGED <<ctl, pass, google, local, cloud, count>>

(* The running pass has ended; a retired operation gives its lease back. *)
Claimed(op) ==
  /\ leases[op] \in {"waiting", "retired"} /\ pass = None
  /\ IF leases[op] = "retired" THEN Resume(op)
     ELSE /\ leases' = [leases EXCEPT ![op] = "held"]
          /\ UNCHANGED <<ctl, pass, google, local, cloud, count>>

Release(op) ==
  \/ leases[op] = "held" /\ Resume(op)
  \/ /\ leases[op] = "waiting"
     /\ leases' = [leases EXCEPT ![op] = "retired"]
     /\ UNCHANGED <<ctl, pass, google, local, cloud, count>>

-----------------------------------------------------------------------------
(* A pass, from await to await *)

At(pc) == pass # None /\ pass.pc = pc
Active == ~pass.stale /\ ctl.account = "yes"

(* The catch of perform; a pass of an earlier session ends in silence. *)
Abort(retry) ==
  End(IF pass.stale THEN ctl
      ELSE [ctl EXCEPT !.phase = IF ctl.account = "no" THEN "reconnect" ELSE "error", !.dialog = None,
                       !.session = IF ctl.account = "no" THEN None ELSE @,
                       !.retry = retry /\ ctl.account = "yes"])

Go(pc) == pass' = [pass EXCEPT !.pc = pc] /\ UNCHANGED ctl
IfActive(step) == IF Active THEN step ELSE Abort(FALSE)

Synced(c) == [c EXCEPT !.phase = "synced", !.retry = FALSE]

List ==
  /\ At("list")
  /\ IF Active
     THEN /\ ctl' = [ctl EXCEPT !.audited = @ \cap cloud]
          /\ pass' = [pass EXCEPT !.pc = "audit", !.listed = cloud,
                        !.todo = {f \in cloud : f.kind # "malformed"} \ ctl.audited]
     ELSE Abort(FALSE)
  /\ UNCHANGED <<leases, google, local, cloud, count>>

(* Mutant of Decode: an invalid file is removed when it is met. *)
DecodeEagerly ==
  /\ At("audit") /\ pass.todo # {}
  /\ \E f \in pass.todo :
       IF ctl.account = "no" \/ f.kind = "future" THEN Abort(FALSE) /\ UNCHANGED cloud
       ELSE IF f.kind = "corrupt"
       THEN /\ cloud' = cloud \ {f}
            /\ pass' = [pass EXCEPT !.todo = @ \ {f}, !.listed = @ \ {f}]
            /\ UNCHANGED ctl
       ELSE /\ pass' = [pass EXCEPT !.todo = @ \ {f}]
            /\ ctl' = [ctl EXCEPT !.audited = @ \cup {f}]
            /\ UNCHANGED cloud
  /\ UNCHANGED <<leases, google, local, count>>

(* A file of a later version stops the pass. *)
Decode ==
  /\ At("audit") /\ pass.todo # {}
  /\ \E f \in pass.todo :
       IF ctl.account = "no" \/ f.kind = "future" THEN Abort(FALSE)
       ELSE IF f.kind = "corrupt"
       THEN pass' = [pass EXCEPT !.todo = @ \ {f}, !.bad = @ \cup {f}] /\ UNCHANGED ctl
       ELSE /\ pass' = [pass EXCEPT !.todo = @ \ {f}]
            /\ ctl' = [ctl EXCEPT !.audited = @ \cup {f}]
  /\ UNCHANGED <<leases, google, local, cloud, count>>

(* Malformed files first, then the corrupt ones, one request at a time. *)
Clean ==
  /\ At("audit") /\ pass.todo = {}
  /\ LET malformed == {f \in pass.listed : f.kind = "malformed"}
         next == IF malformed # {} THEN malformed ELSE pass.bad
     IN  IF ~Active THEN Abort(FALSE) /\ UNCHANGED cloud
         ELSE IF next = {} THEN Go("look") /\ UNCHANGED cloud
         ELSE \E f \in next :
                /\ cloud' = cloud \ {f}
                /\ pass' = [pass EXCEPT !.listed = @ \ {f}, !.bad = @ \ {f}]
                /\ UNCHANGED ctl
  /\ UNCHANGED <<leases, google, local, count>>

Look ==
  /\ At("look")
  /\ IF ~Active THEN Abort(FALSE)
     ELSE IF ctl.checkpoint = <<pass.listed, local.rev>> /\ ~pass.submitted
     THEN End(Synced(ctl))
     ELSE pass' = [pass EXCEPT !.pc = "merge", !.rev = local.rev] /\ UNCHANGED ctl
  /\ UNCHANGED <<leases, google, local, cloud, count>>

(* Mutant of Decision: an answer is kept for whatever question comes next. *)
DecisionKept(session, answer, key, pair) ==
  IF answer # None THEN [choice |-> answer.choice, pair |-> answer.dialog.pair]
  ELSE IF session # None THEN session.decision ELSE None

(* The answer holds for the archives it was given about. *)
Decision(session, answer, key, pair) ==
  LET same == session # None /\ session.key = key
      given == IF ~same THEN None
               ELSE IF answer # None THEN [choice |-> answer.choice, pair |-> answer.dialog.pair]
               ELSE session.decision
  IN  IF given # None /\ given.pair = pair THEN given ELSE None

Base == IF ctl.base[2] = 0 \/ \E f \in pass.listed : f.id = ctl.base[2] THEN ctl.base[1] ELSE Empty

Merge ==
  /\ At("merge")
  /\ LET key == <<pass.listed, local.value>>
         decision == Decision(ctl.session, pass.answer, key, <<local.value, Content(pass.listed)>>)
         c == [ctl EXCEPT !.session = [key |-> key, decision |-> decision]]
     IN  IF Active
         THEN /\ ctl' = c
              /\ pass' = [pass EXCEPT !.pc = "reconcile", !.value = local.value, !.used = decision]
         ELSE IF pass.stale THEN End(c) ELSE Abort(FALSE)
  /\ UNCHANGED <<leases, google, local, cloud, count>>

(* The session is not looked at again before the conflicts are shown. *)
Reconcile ==
  /\ At("reconcile")
  /\ LET l == pass.value
         r == Content(pass.listed)
         clash == l # r /\ Base \notin {l, r} /\ pass.used = None
         state == IF pass.used # None /\ Base \notin {l, r}
                  THEN IF pass.used.choice = "local" THEN l ELSE r
                  ELSE IF l = Base THEN r ELSE l
     IN  IF clash
         THEN End([ctl EXCEPT !.phase = "conflict", !.generation = 1 - @,
                              !.dialog = [generation |-> 1 - ctl.generation, pair |-> <<l, r>>]])
         ELSE IF state = l THEN pass' = [pass EXCEPT !.pc = "compare", !.state = state] /\ UNCHANGED ctl
         ELSE IF Active THEN pass' = [pass EXCEPT !.pc = "apply", !.state = state] /\ UNCHANGED ctl
         ELSE Abort(FALSE)
  /\ UNCHANGED <<leases, google, local, cloud, count>>

(* replaceState compares with the archive the merge was made from. *)
Apply ==
  /\ At("apply")
  /\ IF local.value = pass.value
     THEN Go("replaced") /\ local' = [value |-> pass.state, rev |-> local.rev + 1]
     ELSE Go("refused") /\ UNCHANGED local
  /\ UNCHANGED <<leases, google, cloud, count>>

Applied ==
  /\ \/ At("replaced") /\ IfActive(Go("compare"))
     \/ At("refused") /\ Abort(FALSE)
  /\ UNCHANGED <<leases, google, local, cloud, count>>

Finished(files, head) ==
  End([Synced(ctl) EXCEPT !.base = <<pass.state, head>>, !.session = None, !.dialog = None,
         !.checkpoint = IF pass.state # pass.value THEN None ELSE <<files, pass.rev>>])

(* Nothing to upload: the session is not looked at after the comparison. *)
Compare ==
  /\ At("compare")
  /\ IF Good(pass.listed) # {} /\ pass.state = Content(pass.listed)
     THEN Finished(pass.listed, Head(pass.listed))
     ELSE IF Cardinality(pass.listed) >= Quota THEN Abort(FALSE)
     ELSE IfActive(Go("upload"))
  /\ UNCHANGED <<leases, google, local, cloud, count>>

New(kind, value) == [id |-> count.files + 1, kind |-> kind, value |-> value]

Upload ==
  /\ At("upload")
  /\ IF ctl.account = "no" THEN Abort(FALSE) /\ UNCHANGED <<cloud, count>>
     ELSE /\ cloud' = cloud \cup {New("good", pass.state)}
          /\ count' = [count EXCEPT !.files = @ + 1]
          /\ pass' = [pass EXCEPT !.pc = "uploaded", !.listed = @ \cup {New("good", pass.state)}]
          /\ UNCHANGED ctl
  /\ UNCHANGED <<leases, google, local>>

Uploaded ==
  /\ At("uploaded")
  /\ IF Active
     THEN End([Synced(ctl) EXCEPT !.base = <<pass.state, Head(pass.listed)>>, !.session = None,
                 !.dialog = None, !.audited = @ \cup {Newest(pass.listed)},
                 !.checkpoint = IF pass.state # pass.value THEN None ELSE <<pass.listed, pass.rev>>])
     ELSE Abort(FALSE)
  /\ UNCHANGED <<leases, google, local, cloud, count>>

(* A request fails; only what was read is tried again by itself. *)
Fails ==
  /\ pass # None /\ pass.pc \in {"list", "audit", "upload", "uploaded"} /\ Fault
  /\ Abort(pass.pc \in {"list", "audit"})
  /\ UNCHANGED <<leases, google, local, cloud>>

-----------------------------------------------------------------------------
(* Other devices; DriveSync has their races with a pass *)

OtherDevice ==
  /\ pass = None /\ count.others < MaxOthers
  /\ \/ \E value \in Values : cloud' = cloud \cup {New("good", value)}
     \/ \E kind \in {"corrupt", "future", "malformed"} : cloud' = cloud \cup {New(kind, Empty)}
     \/ \E f \in cloud : cloud' = cloud \ {f}
  /\ count' = [count EXCEPT !.others = @ + 1, !.files = @ + 1]
  /\ UNCHANGED <<ctl, pass, leases, google, local>>

Init ==
  /\ ctl = [account |-> "no", phase |-> "disconnected", dialog |-> None, dirty |-> FALSE,
            debounce |-> FALSE, deferred |-> None, waiters |-> FALSE, retry |-> FALSE,
            base |-> <<Empty, 0>>, session |-> None, audited |-> {}, checkpoint |-> None,
            disposed |-> FALSE, generation |-> 0]
  /\ pass = None
  /\ leases = [op \in Ops |-> "free"]
  /\ google = "absent"
  /\ local = [value |-> Empty, rev |-> 0]
  /\ cloud \in Clouds
  /\ count = [edits |-> 0, others |-> 0, faults |-> 0, sessions |-> 0, files |-> Cardinality(cloud)]

Step ==
  \/ List \/ Decode \/ Clean \/ Look \/ Merge \/ Reconcile
  \/ Apply \/ Applied \/ Compare \/ Upload \/ Uploaded

Next ==
  \/ Step \/ Fails
  \/ Debounce \/ DebounceHidden \/ Wake \/ Edit
  \/ Connect \/ Disconnect \/ IdentityLoaded \/ IdentityFailed \/ Authorized \/ Refused \/ Expire
  \/ Resolve \/ SyncButton
  \/ \E op \in Ops : Acquire(op) \/ Claimed(op) \/ Release(op)
  \/ OtherDevice

Spec == Init /\ [][Next]_vars

(* Requests end, timers fire, the page is visible again and again, and an
   operation ends and gives its lease back. *)
FairSpec ==
  /\ Spec
  /\ WF_vars(Step) /\ WF_vars(Wake) /\ SF_vars(Debounce)
  /\ \A op \in Ops : WF_vars(Claimed(op)) /\ WF_vars(Release(op))

-----------------------------------------------------------------------------
(* While an operation holds its lease no pass runs, whatever timers, dialogs,
   reconnections and releases do: a pass that writes in the middle of an
   import replaces the archive the import was computed from (acquirePause,
   createOperationPauses). *)
PauseExcludesPass == \A op \in Ops : leases[op] = "held" => pass = None

(* A pass removes no file while one that it listed is of a later version: what
   looks corrupt may be the work of a newer program (perform, the audit). *)
AuditFirst ==
  [][\A f \in cloud \ cloud' : pass # None => \A g \in pass.listed : g.kind # "future"]_vars

(* What an answered conflict puts on this device is the choice between the two
   values that the person was shown, although the archive and the cloud may
   have changed, sync may have been paused or the session replaced since. *)
AnswersMatchQuestion ==
  [][At("apply") /\ pass' # pass /\ local' # local /\ pass.used # None =>
       pass.used.pair = <<local.value, Content(cloud)>>]_vars

(* A change on a connected device reaches the cloud, unless the person is asked
   something or told that sync has stopped: no pause, timer or pass that was
   put off loses it for good. *)
Behind == ctl.account = "yes" /\ local.value # Content(cloud)
Told == ctl.account = "no" \/ ctl.phase \in {"conflict", "error"}
ChangesReachDrive == Behind ~> (~Behind \/ Told)

(* After the person disconnects, only connecting again changes what is shown
   (web/tests/sync.test.ts, deferred sync after disconnect). *)
DisconnectIsFinal ==
  [][ctl.phase = "disconnected" => ctl'.phase \in {"disconnected", "connecting"}]_vars

=============================================================================
