----------------------------- MODULE LocalJobs -----------------------------
(***************************************************************************)
(* Collection on the local backend (backend/jobs.py): one daemon thread    *)
(* for each job, with the job table, the snapshots and the identity of the *)
(* profiles in SQLite and the export of each job on disk.                  *)
(*                                                                         *)
(* A section under tracker.lock is one action, and so is a transaction.    *)
(* A crash may fall between any two: the database and the exports survive, *)
(* threads, cancellation events and the finalizing set do not.             *)
(***************************************************************************)
EXTENDS FiniteSets

CONSTANTS JobIds,    \* identifiers (uuid4), each used once
          Profiles,  \* local profiles
          Accounts,  \* game accounts a capture or an export belongs to
          None,      \* nothing there
          Importing  \* bound of the model: profiles that files are imported into

ASSUME LocalAssumption ==
  /\ Importing \subseteq Profiles
  /\ None \notin Accounts
  /\ None \notin {"clear", "set"}
  /\ None \notin [records : BOOLEAN, complete : BOOLEAN]

VARIABLES jobs,        \* the job table
          snapshots,   \* imported snapshots of each profile
          ident,       \* the account each profile is bound to, or None
          export,      \* the export of each job on disk, or None
          work,        \* where the thread of each job is, and its locals
          event,       \* cancellations: no event, or its state
          finalizing,  \* jobs that are being saved
          up           \* is the backend running?

durable == <<jobs, snapshots, ident, export>>
vars == <<jobs, snapshots, ident, export, work, event, finalizing, up>>

ActiveStatuses == {"queued", "running", "cancelling"}
EndStatuses == {"completed", "partial", "cancelled", "failed", "interrupted"}

Export == [records : BOOLEAN, complete : BOOLEAN]

(* import is what the snapshot named by import_id holds. *)
Job == [profile : Profiles, account : Accounts, status : ActiveStatuses \cup EndStatuses,
        import : Export \cup {None}]

Snapshot == [from : JobIds, export : Export]

Work == [at : {"done", "created", "unstarted", "new", "opening", "collecting", "collected",
               "finishing", "importing", "ending", "failing", "releasing"},
         failed : BOOLEAN, cancelled : BOOLEAN, imported : Export \cup {None}]

NoWork == [at |-> "done", failed |-> FALSE, cancelled |-> FALSE, imported |-> None]

TypeOK ==
  /\ DOMAIN jobs \subseteq JobIds
  /\ jobs \in [DOMAIN jobs -> Job]
  /\ snapshots \in [Profiles -> SUBSET Snapshot]
  /\ ident \in [Profiles -> Accounts \cup {None}]
  /\ export \in [JobIds -> Export \cup {None}]
  /\ work \in [JobIds -> Work]
  /\ event \in [JobIds -> {None, "clear", "set"}]
  /\ finalizing \subseteq JobIds
  /\ up \in BOOLEAN

Init ==
  /\ jobs = [j \in {} |-> None]
  /\ snapshots = [p \in Profiles |-> {}]
  /\ ident = [p \in Profiles |-> None]
  /\ export = [j \in JobIds |-> None]
  /\ work = [j \in JobIds |-> NoWork]
  /\ event = [j \in JobIds |-> None]
  /\ finalizing = {}
  /\ up = TRUE

Active(job) == job.status \in ActiveStatuses

(* Mutant of Binds: another account takes the profile over. *)
Rebinds(p, a) == ident' = [ident EXCEPT ![p] = a]

(* bind_identity: a profile belongs to the first account it sees. *)
Binds(p, a) ==
  /\ ident[p] \in {None, a}
  /\ ident' = [ident EXCEPT ![p] = a]

(***************************************************************************)
(* Requests                                                                *)
(***************************************************************************)

(* Mutant of Start: a profile may collect twice at a time. *)
StartAnother(p, a) ==
  /\ up
  /\ Binds(p, a)
  /\ \E j \in JobIds \ DOMAIN jobs :
       /\ jobs' = [k \in DOMAIN jobs \cup {j} |->
            IF k = j THEN [profile |-> p, account |-> a, status |-> "queued", import |-> None]
            ELSE jobs[k]]
       /\ event' = [event EXCEPT ![j] = "clear"]
       /\ work' = [work EXCEPT ![j].at = "created"]
  /\ UNCHANGED <<snapshots, export, finalizing, up>>

Start(p, a) ==
  /\ up
  /\ ~\E k \in DOMAIN jobs : jobs[k].profile = p /\ Active(jobs[k])
  /\ Binds(p, a)
  /\ \E j \in JobIds \ DOMAIN jobs :
       /\ jobs' = [k \in DOMAIN jobs \cup {j} |->
            IF k = j THEN [profile |-> p, account |-> a, status |-> "queued", import |-> None]
            ELSE jobs[k]]
       /\ event' = [event EXCEPT ![j] = "clear"]
       /\ work' = [work EXCEPT ![j].at = "created"]
  /\ UNCHANGED <<snapshots, export, finalizing, up>>

Cancel(j) ==
  /\ up
  /\ j \in DOMAIN jobs
  /\ event[j] # None
  /\ j \notin finalizing
  /\ Active(jobs[j])
  /\ event' = [event EXCEPT ![j] = "set"]
  /\ jobs' = [jobs EXCEPT ![j].status = "cancelling"]
  /\ UNCHANGED <<snapshots, ident, export, work, finalizing, up>>

(* import_snapshot: the digest makes importing the same export twice, from the
   same state of its files, one snapshot. *)
Imports(p, j) ==
  /\ Binds(p, jobs[j].account)
  /\ snapshots' = [snapshots EXCEPT ![p] = @ \cup {[from |-> j, export |-> export[j]]}]

(* The user imports the files of an export into some profile. *)
ImportFiles(p, j) ==
  /\ up
  /\ export[j] # None
  /\ Imports(p, j)
  /\ UNCHANGED <<jobs, export, work, event, finalizing, up>>

(***************************************************************************)
(* The request's thread, when the worker does or does not start            *)
(***************************************************************************)
Goes(j, to) == work' = [work EXCEPT ![j].at = to]

(* Mutant of Update: progress overwrites an accepted stop. *)
UpdateAnyway(j, status) == jobs' = [jobs EXCEPT ![j].status = status]

(* update: progress does not overwrite an accepted stop. *)
Update(j, status) ==
  jobs' = [jobs EXCEPT ![j].status =
             IF @ = "cancelling" /\ status = "running" THEN @ ELSE status]

Launch(j) ==
  /\ work[j].at = "created"
  /\ Goes(j, "new")
  /\ UNCHANGED <<durable, event, finalizing, up>>

LaunchFails(j) ==
  /\ work[j].at = "created"
  /\ Goes(j, "unstarted")
  /\ event' = [event EXCEPT ![j] = None]
  /\ UNCHANGED <<durable, finalizing, up>>

(* Mutant of GiveUp: the request is refused and the job is left queued. *)
GiveUpSilently(j) ==
  /\ work[j].at = "unstarted"
  /\ Goes(j, "done")
  /\ UNCHANGED <<durable, event, finalizing, up>>

GiveUp(j) ==
  /\ work[j].at = "unstarted"
  /\ Goes(j, "done")
  /\ Update(j, "failed")
  /\ UNCHANGED <<snapshots, ident, export, event, finalizing, up>>

(***************************************************************************)
(* The worker thread                                                       *)
(***************************************************************************)
Run(j) ==
  /\ work[j].at = "new"
  /\ Goes(j, "opening")
  /\ Update(j, "running")
  /\ UNCHANGED <<snapshots, ident, export, event, finalizing, up>>

(* The export is created, or it cannot be. *)
Open(j) ==
  /\ work[j].at = "opening"
  /\ \/ /\ export' = [export EXCEPT ![j] = [records |-> FALSE, complete |-> FALSE]]
        /\ Goes(j, "collecting")
     \/ /\ work' = [work EXCEPT ![j].at = "collected", ![j].failed = TRUE]
        /\ UNCHANGED export
  /\ UNCHANGED <<jobs, snapshots, ident, event, finalizing, up>>

(* A page with records is saved, perhaps the one that was on its way when the
   stop was accepted. *)
SavePage(j) ==
  /\ work[j].at = "collecting"
  /\ export' = [export EXCEPT ![j].records = TRUE]
  /\ UNCHANGED <<jobs, snapshots, ident, work, event, finalizing, up>>

(* The collector returns: complete_run, CancelledError or another error. *)
Collect(j) ==
  /\ work[j].at = "collecting"
  /\ \/ /\ export' = [export EXCEPT ![j].complete = TRUE]
        /\ Goes(j, "collected")
     \/ /\ event[j] = "set"
        /\ Goes(j, "collected")
        /\ UNCHANGED export
     \/ /\ work' = [work EXCEPT ![j].at = "collected", ![j].failed = TRUE]
        /\ UNCHANGED export
  /\ UNCHANGED <<jobs, snapshots, ident, event, finalizing, up>>

BeginFinal(j) ==
  /\ work[j].at = "collected"
  /\ work' = [work EXCEPT ![j].at = "finishing", ![j].cancelled = event[j] = "set"]
  /\ finalizing' = finalizing \cup {j}
  /\ UNCHANGED <<durable, event, up>>

(* fail_run marks the export of a stopped collection incomplete. *)
Finish(j) ==
  /\ work[j].at = "finishing"
  /\ IF export[j] = None
     THEN Goes(j, "ending") /\ UNCHANGED export
     ELSE /\ Goes(j, "importing")
          /\ export' = [export EXCEPT ![j].complete = @ /\ ~work[j].cancelled]
  /\ UNCHANGED <<jobs, snapshots, ident, event, finalizing, up>>

(* Mutant of Import: the job remembers an import that is not stored yet. *)
ImportLater(j) ==
  /\ work[j].at = "importing"
  /\ work' = [work EXCEPT ![j].at = "ending", ![j].imported = export[j]]
  /\ UNCHANGED <<durable, event, finalizing, up>>

Import(j) ==
  /\ work[j].at = "importing"
  /\ Imports(jobs[j].profile, j)
  /\ work' = [work EXCEPT ![j].at = "ending", ![j].imported = export[j]]
  /\ UNCHANGED <<jobs, export, event, finalizing, up>>

(* The export cannot be marked, read, validated or imported, or the outcome cannot
   be stored. *)
Break(j) ==
  /\ work[j].at \in {"finishing", "importing", "ending"}
  /\ Goes(j, "failing")
  /\ UNCHANGED <<durable, event, finalizing, up>>

Verdict(w) ==
  CASE w.cancelled -> "cancelled"
    [] ~w.cancelled /\ ~w.failed -> "completed"
    [] OTHER -> IF w.imported # None /\ w.imported.records THEN "partial" ELSE "failed"

Conclude(j) ==
  /\ work[j].at = "ending"
  /\ jobs' = [jobs EXCEPT ![j].status = Verdict(work[j]), ![j].import = work[j].imported]
  /\ Goes(j, "releasing")
  /\ UNCHANGED <<snapshots, ident, export, event, finalizing, up>>

Fail(j) ==
  /\ work[j].at = "failing"
  /\ Update(j, "failed")
  /\ Goes(j, "releasing")
  /\ UNCHANGED <<snapshots, ident, export, event, finalizing, up>>

Release(j) ==
  /\ work[j].at = "releasing"
  /\ work' = [work EXCEPT ![j] = NoWork]
  /\ event' = [event EXCEPT ![j] = None]
  /\ finalizing' = finalizing \ {j}
  /\ UNCHANGED <<durable, up>>

Step(j) ==
  \/ Launch(j)
  \/ LaunchFails(j)
  \/ GiveUp(j)
  \/ Run(j)
  \/ Open(j)
  \/ Collect(j)
  \/ BeginFinal(j)
  \/ Finish(j)
  \/ Import(j)
  \/ Break(j)
  \/ Conclude(j)
  \/ Fail(j)
  \/ Release(j)

(***************************************************************************)
(* The process ends, whatever its threads are doing, and starts again      *)
(***************************************************************************)
Crash ==
  /\ up
  /\ up' = FALSE
  /\ work' = [j \in JobIds |-> NoWork]
  /\ event' = [j \in JobIds |-> None]
  /\ finalizing' = {}
  /\ UNCHANGED durable

(* Mutant of Restart: the jobs of the last process are left as they are. *)
RestartAsIs ==
  /\ ~up
  /\ up' = TRUE
  /\ UNCHANGED <<durable, work, event, finalizing>>

Restart ==
  /\ ~up
  /\ up' = TRUE
  /\ jobs' = [j \in DOMAIN jobs |->
       IF Active(jobs[j]) THEN [jobs[j] EXCEPT !.status = "interrupted"] ELSE jobs[j]]
  /\ UNCHANGED <<snapshots, ident, export, work, event, finalizing>>

Next ==
  \/ \E p \in Profiles, a \in Accounts : Start(p, a)
  \/ \E j \in JobIds : Cancel(j)
  \/ \E p \in Importing, j \in JobIds : ImportFiles(p, j)
  \/ \E j \in JobIds : Step(j)
  \/ \E j \in JobIds : SavePage(j)
  \/ Crash
  \/ Restart

Spec == Init /\ [][Next]_vars

(* Threads are scheduled; every request of a collection has a timeout and the
   scan a last type, so that it returns; somebody starts the backend again. *)
FairSpec == Spec /\ WF_vars(Restart) /\ \A j \in JobIds : WF_vars(Step(j))

(***************************************************************************)
(* Properties                                                              *)
(***************************************************************************)

(* A profile never has two active jobs, across crashes too (jobs.py:48-49). *)
OneActive ==
  \A j, k \in DOMAIN jobs :
    Active(jobs[j]) /\ Active(jobs[k]) /\ jobs[j].profile = jobs[k].profile => j = k

(* While the backend runs, a job that the table shows as active has a thread that
   will end it; the jobs of a process that died do not (jobs.py:25-29,61-65). *)
ActiveHasThread ==
  up => \A j \in DOMAIN jobs :
    Active(jobs[j]) <=> work[j].at \notin {"done", "releasing"}

(* Nothing of an ended job stays in memory (jobs.py:61-64,182-185; asserted by
   tests/test_cancellation.py:81). *)
NothingLeaks ==
  \A j \in JobIds : work[j].at = "done" => event[j] = None /\ j \notin finalizing

(* A stopped job ends as stopped or failed, and what it imported is marked
   incomplete however far the collector got; a completed one has imported a
   complete export (jobs.py:160-176). *)
StopHonoured ==
  \A j \in DOMAIN jobs :
    /\ event[j] = "set" /\ ~Active(jobs[j]) => jobs[j].status \in {"cancelled", "failed"}
    /\ jobs[j].status = "cancelled" =>
         jobs[j].import = None \/ ~jobs[j].import.complete
    /\ jobs[j].status = "completed" =>
         jobs[j].import # None /\ jobs[j].import.complete

(* A job names only a snapshot that its profile has, whenever the process dies. *)
ImportsStored ==
  \A j \in DOMAIN jobs : jobs[j].import # None =>
    [from |-> j, export |-> jobs[j].import] \in snapshots[jobs[j].profile]

(* All history of a profile, collected or imported from files in any order, is
   that of one account (tracker.py:35-43). *)
OneAccount ==
  \A p \in Profiles : \A s \in snapshots[p] : jobs[s.from].account = ident[p]

(* What the user sees of a job is the life of a collection. *)
Life ==
  [j \in JobIds |->
     IF j \notin DOMAIN jobs THEN "new"
     ELSE IF jobs[j].status = "cancelling" THEN "stopping"
     ELSE IF Active(jobs[j]) THEN "active" ELSE jobs[j].status]

Lifecycle == INSTANCE Collection WITH Jobs <- JobIds, life <- Life
ImplementsLifecycle == Lifecycle!Spec

(* Every collection ends, as interrupted if the process dies. *)
EveryJobEnds == Lifecycle!Ends

=============================================================================
