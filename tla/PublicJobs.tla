----------------------------- MODULE PublicJobs -----------------------------
(***************************************************************************)
(* The public relay (backend/public_jobs.py) with the part of the server   *)
(* store its jobs write to (backend/public_store.py): bounded collection   *)
(* jobs kept in memory, one worker thread each, and versioned backups.     *)
(*                                                                         *)
(* A section under PublicJobs.lock is one action, as is a transaction of   *)
(* the store; a worker thread interleaves with requests, maintenance,      *)
(* shutdown and restart between them.  Time passes in units of Tick.       *)
(***************************************************************************)
EXTENDS Naturals, FiniteSets

CONSTANTS JobIds,       \* identifiers (uuid4), each used once
          Owners,       \* browser sessions
          Accounts,     \* verified game accounts
          None,         \* nothing there
          Slots,        \* concurrent workers (2)
          MaxRetained,  \* active jobs and results kept (MAX_RETAINED_RESULTS)
          MaxTerminal,  \* ended jobs without a result kept (MAX_TERMINAL_STATUSES)
          TTL,          \* lifetime of a result (RESULT_TTL)
          Editors,      \* bound of the model: sessions that edit backups
          MaxTurns      \* bound of the model: ticks of the clock and deletions of a
                        \* backup, together

ASSUME JobsAssumption ==
  /\ IsFiniteSet(JobIds)
  /\ None \notin Accounts /\ None \notin Nat /\ None \notin {"partial", "complete"}
  /\ None \notin {"stopped", "failed", "empty"}
  /\ "upload" \notin JobIds /\ Editors \subseteq Owners
  /\ Slots \in Nat /\ MaxRetained \in Nat /\ MaxTerminal \in Nat
  /\ TTL \in Nat \ {0} /\ MaxTurns \in Nat

VARIABLES jobs,     \* the job table
          used,     \* identifiers handed out
          work,     \* where the worker thread of each job is, and its locals
          event,    \* the cancellation event of each job
          slots,    \* free worker slots
          service,  \* open, stopping, joining or closed
          now,      \* the clock
          version,  \* deletions of each backup (history_versions)
          backup,   \* snapshots of each backup: producer, version it knew
          known     \* the backup version each session has read, or None

jobVars == <<jobs, used, work, event, slots, service, now>>
storeVars == <<version, backup, known>>
vars == <<jobs, used, work, event, slots, service, now, version, backup, known>>

ActiveStatuses == {"queued", "running", "cancelling"}
EndStatuses == {"completed", "partial", "cancelled", "failed"}

Job == [owner : Owners, scope : Accounts \cup {None},
        status : ActiveStatuses \cup EndStatuses, expires : Nat,
        result : {None, "partial", "complete"}, finalizing : BOOLEAN]

Work == [at : {"done", "new", "collecting", "collected", "finishing", "saving",
               "ending", "failing", "releasing"},
         account : Accounts \cup {None}, base : Nat \cup {None},
         outcome : {None, "complete", "stopped", "failed", "empty"},
         cancelled : BOOLEAN]

Snapshot == [from : JobIds \cup {"upload"}, base : Nat]

NoWork == [at |-> "done", account |-> None, base |-> None, outcome |-> None,
           cancelled |-> FALSE]

TypeOK ==
  /\ used \subseteq JobIds
  /\ DOMAIN jobs \subseteq used
  /\ jobs \in [DOMAIN jobs -> Job]
  /\ work \in [JobIds -> Work]
  /\ event \in [JobIds -> BOOLEAN]
  /\ slots \in 0..Slots
  /\ service \in {"open", "stopping", "joining", "closed"}
  /\ now \in Nat
  /\ version \in [Accounts -> Nat]
  /\ backup \in [Accounts -> SUBSET Snapshot]
  /\ known \in [Editors -> [Accounts -> Nat \cup {None}]]

Init ==
  /\ jobs = [j \in {} |-> None]
  /\ used = {}
  /\ work = [j \in JobIds |-> NoWork]
  /\ event = [j \in JobIds |-> FALSE]
  /\ slots = Slots
  /\ service = "open"
  /\ now = 0
  /\ version = [a \in Accounts |-> 0]
  /\ backup = [a \in Accounts |-> {}]
  /\ known = [o \in Editors |-> [a \in Accounts |-> None]]

Active(job) == job.status \in ActiveStatuses
Spent(job) == ~Active(job) /\ job.result = None

(***************************************************************************)
(* _prune_jobs: expired jobs go, then the oldest of too many ended jobs    *)
(* without a result.  Among jobs that expire together the random           *)
(* identifiers decide.                                                     *)
(***************************************************************************)
Only(js, keep) == [j \in keep |-> js[j]]

(* Mutant of Live: a job that outlives its first lifetime is dropped. *)
Unexpired(js) == {j \in DOMAIN js : js[j].expires > now}

Live(js) == {j \in DOMAIN js : js[j].expires > now \/ Active(js[j])}

Excess(js) ==
  {gone \in SUBSET {j \in Live(js) : Spent(js[j])} :
     LET rest == {j \in Live(js) : Spent(js[j])} \ gone
     IN  /\ Cardinality(rest) <= MaxTerminal
         /\ gone # {} => Cardinality(rest) = MaxTerminal
         /\ \A j \in gone, k \in rest : js[j].expires <= js[k].expires}

Pruned(js) == {Only(js, Live(js) \ gone) : gone \in Excess(js)}

(* update: a job that has been forgotten stays forgotten. *)
Ending(j, status, result) ==
  IF j \in DOMAIN jobs
  THEN jobs' \in Pruned([jobs EXCEPT ![j].status = status, ![j].result = result,
                                     ![j].expires = now + TTL])
  ELSE UNCHANGED jobs

(***************************************************************************)
(* Requests                                                                *)
(***************************************************************************)

(* The maintenance thread, and every request that looks at the job table and
   changes nothing else: get, a start or a cancel that is refused, a start
   whose thread cannot be started. *)
Cleanup ==
  /\ jobs' \in Pruned(jobs)
  /\ UNCHANGED <<used, work, event, slots, service, now, storeVars>>

Occupied(js) == {j \in DOMAIN js : Active(js[j]) \/ js[j].result # None}

(* Mutant of Rival: only the session is compared. *)
RivalSession(job, o, a) == job.owner = o /\ Active(job)

Rival(job, o, a) ==
  /\ job.owner = o \/ (a # None /\ job.scope = a)
  /\ Active(job)

NewJob(o, a) ==
  [owner |-> o, scope |-> a, status |-> "queued", expires |-> now + TTL,
   result |-> None, finalizing |-> FALSE]

Start(o, a) ==
  /\ service = "open"
  /\ slots > 0
  /\ \E js \in Pruned(jobs), j \in JobIds \ used :
       /\ Cardinality(Occupied(js)) < MaxRetained
       /\ \A k \in DOMAIN js : ~Rival(js[k], o, a)
       /\ jobs' = [k \in DOMAIN js \cup {j} |-> IF k = j THEN NewJob(o, a) ELSE js[k]]
       /\ used' = used \cup {j}
       /\ work' = [work EXCEPT ![j] =
            [NoWork EXCEPT !.at = "new", !.account = a,
                           !.base = IF a = None THEN None ELSE version[a]]]
  /\ slots' = slots - 1
  /\ UNCHANGED <<event, service, now, storeVars>>

Cancel(o, j) ==
  /\ j \in DOMAIN jobs
  /\ jobs[j].owner = o
  /\ Active(jobs[j])
  /\ ~jobs[j].finalizing
  /\ \E js \in Pruned(jobs) : jobs' = [js EXCEPT ![j].status = "cancelling"]
  /\ event' = [event EXCEPT ![j] = TRUE]
  /\ UNCHANGED <<used, work, slots, service, now, storeVars>>

(***************************************************************************)
(* The worker thread                                                       *)
(***************************************************************************)
Goes(j, to) == work' = [work EXCEPT ![j].at = to]

(* Mutant of Launch: progress overwrites an accepted stop. *)
LaunchRunning(j) ==
  /\ work[j].at = "new"
  /\ j \in DOMAIN jobs
  /\ Goes(j, "collecting")
  /\ jobs' = [jobs EXCEPT ![j].status = "running"]
  /\ UNCHANGED <<used, event, slots, service, now, storeVars>>

(* A thread that starts after close has emptied the table dies there, before
   the block that would release its slot. *)
Launch(j) ==
  /\ work[j].at = "new"
  /\ IF j \in DOMAIN jobs
     THEN /\ Goes(j, "collecting")
          /\ jobs' = [jobs EXCEPT ![j].status = IF @ = "cancelling" THEN @ ELSE "running"]
     ELSE work' = [work EXCEPT ![j] = NoWork] /\ UNCHANGED jobs
  /\ UNCHANGED <<used, event, slots, service, now, storeVars>>

(* The collector returns: everything fetched, stopped by the event, or failed
   (provider, limits, deadline, shutdown) with or without records. *)
Collect(j) ==
  /\ work[j].at = "collecting"
  /\ \E outcome \in {"complete", "stopped", "failed", "empty"} :
       /\ outcome = "stopped" => event[j]
       /\ work' = [work EXCEPT ![j].at = "collected", ![j].outcome = outcome]
  /\ UNCHANGED <<jobs, used, event, slots, service, now, storeVars>>

(* An exception outside the collector: no directory, an invalid export, a
   result that is too large. *)
Break(j) ==
  /\ work[j].at \in {"collecting", "finishing"}
  /\ Goes(j, "failing")
  /\ UNCHANGED <<jobs, used, event, slots, service, now, storeVars>>

(* The cancellation window closes. *)
BeginFinal(j) ==
  /\ work[j].at = "collected"
  /\ IF j \in DOMAIN jobs
     THEN /\ work' = [work EXCEPT ![j].at = "finishing", ![j].cancelled = event[j]]
          /\ jobs' = [jobs EXCEPT ![j].finalizing = TRUE]
     ELSE Goes(j, "failing") /\ UNCHANGED jobs
  /\ UNCHANGED <<used, event, slots, service, now, storeVars>>

Verdict(w) ==
  CASE w.cancelled -> "cancelled"
    [] ~w.cancelled /\ w.outcome = "failed" -> "partial"
    [] ~w.cancelled /\ w.outcome = "empty" -> "failed"
    [] OTHER -> "completed"

(* Mutant of Coverage: a failed collection drops the records it has. *)
CoverageOrNothing(w) ==
  IF w.outcome \in {"failed", "empty"} THEN None
  ELSE IF w.cancelled THEN "partial" ELSE "complete"

(* fail_run marks the export of a stopped or failed collection incomplete. *)
Coverage(w) ==
  IF Verdict(w) = "failed" THEN None
  ELSE IF w.cancelled \/ w.outcome # "complete" THEN "partial" ELSE "complete"

Finish(j) ==
  /\ work[j].at = "finishing"
  /\ Goes(j, IF Verdict(work[j]) # "failed" /\ work[j].account # None
             THEN "saving" ELSE "ending")
  /\ UNCHANGED <<jobs, used, event, slots, service, now, storeVars>>

(* put_backup, for a worker or an upload.  It also fails for reasons that are
   not modelled: storage full, a fingerprint that conflicts. *)
(* Mutant of Put: the version is not compared. *)
PutAnyway(a, from, base) ==
  backup' = [backup EXCEPT ![a] = @ \cup {[from |-> from, base |-> base]}]

Put(a, from, base) ==
  /\ base = version[a]
  /\ backup' = [backup EXCEPT ![a] = @ \cup {[from |-> from, base |-> base]}]

Save(j) ==
  /\ work[j].at = "saving"
  /\ Put(work[j].account, j, work[j].base) \/ UNCHANGED backup
  /\ Goes(j, "ending")
  /\ UNCHANGED <<jobs, used, event, slots, service, now, version, known>>

Conclude(j) ==
  /\ work[j].at = "ending"
  /\ Ending(j, Verdict(work[j]), Coverage(work[j]))
  /\ Goes(j, "releasing")
  /\ UNCHANGED <<used, event, slots, service, now, storeVars>>

(* Mutants of Fail: the slot is released with the job and again at the end; the
   job keeps its status. *)
FailReleasing(j) ==
  /\ work[j].at = "failing"
  /\ Ending(j, "failed", None)
  /\ Goes(j, "releasing")
  /\ slots' = slots + 1
  /\ UNCHANGED <<used, event, service, now, storeVars>>

FailSilently(j) ==
  /\ work[j].at = "failing"
  /\ Goes(j, "releasing")
  /\ UNCHANGED <<jobs, used, event, slots, service, now, storeVars>>

Fail(j) ==
  /\ work[j].at = "failing"
  /\ Ending(j, "failed", None)
  /\ Goes(j, "releasing")
  /\ UNCHANGED <<used, event, slots, service, now, storeVars>>

Release(j) ==
  /\ work[j].at = "releasing"
  /\ work' = [work EXCEPT ![j] = NoWork]
  /\ slots' = slots + 1
  /\ UNCHANGED <<jobs, used, event, service, now, storeVars>>

Step(j) ==
  \/ Launch(j)
  \/ Collect(j)
  \/ Break(j)
  \/ BeginFinal(j)
  \/ Finish(j)
  \/ Save(j)
  \/ Conclude(j)
  \/ Fail(j)
  \/ Release(j)

(***************************************************************************)
(* The backup of an account, as its owners read, write and delete it       *)
(***************************************************************************)
ReadVersion(o, a) ==
  /\ known' = [known EXCEPT ![o][a] = version[a]]
  /\ UNCHANGED <<jobVars, version, backup>>

Upload(o, a) ==
  /\ known[o][a] # None
  /\ Put(a, "upload", known[o][a])
  /\ UNCHANGED <<jobVars, version, known>>

DeleteBackup(a) ==
  /\ now + version[a] < MaxTurns
  /\ version' = [version EXCEPT ![a] = @ + 1]
  /\ backup' = [backup EXCEPT ![a] = {}]
  /\ UNCHANGED <<jobVars, known>>

(***************************************************************************)
(* Shutdown and restart                                                    *)
(***************************************************************************)
Shut ==
  /\ service = "open"
  /\ service' = "stopping"
  /\ UNCHANGED <<jobs, used, work, event, slots, now, storeVars>>

(* A job whose thread has ended has no event any more. *)
CancelAll ==
  /\ service = "stopping"
  /\ service' = "joining"
  /\ event' = [j \in JobIds |->
       event[j] \/ (j \in DOMAIN jobs /\ ~jobs[j].finalizing /\ work[j].at # "done")]
  /\ UNCHANGED <<jobs, used, work, slots, now, storeVars>>

(* Joining gives up after twelve seconds: threads may still be running. *)
Clear ==
  /\ service = "joining"
  /\ service' = "closed"
  /\ jobs' = [j \in {} |-> None]
  /\ UNCHANGED <<used, work, event, slots, now, storeVars>>

(* The process ends, by itself or by a crash, and another one starts.  Threads
   are daemons; jobs live in memory; backups are in the database. *)
Restart ==
  /\ jobs' = [j \in {} |-> None]
  /\ work' = [j \in JobIds |-> NoWork]
  /\ event' = [j \in JobIds |-> FALSE]
  /\ slots' = Slots
  /\ service' = "open"
  /\ UNCHANGED <<used, now, storeVars>>

Tick ==
  /\ \A a \in Accounts : now + version[a] < MaxTurns
  /\ now' = now + 1
  /\ UNCHANGED <<jobs, used, work, event, slots, service, storeVars>>

Next ==
  \/ Cleanup
  \/ \E o \in Owners, a \in Accounts \cup {None} : Start(o, a)
  \/ \E o \in Owners, j \in JobIds : Cancel(o, j)
  \/ \E j \in JobIds : Step(j)
  \/ \E o \in Editors, a \in Accounts : ReadVersion(o, a) \/ Upload(o, a)
  \/ \E a \in Accounts : DeleteBackup(a)
  \/ Shut
  \/ CancelAll
  \/ Clear
  \/ Restart
  \/ Tick

Spec == Init /\ [][Next]_vars

(***************************************************************************)
(* Properties                                                              *)
(***************************************************************************)

(* Every slot is free or held by one running worker: refused starts, failures
   and cancelled jobs give theirs back, once (public_jobs.py:108-125,271-275). *)
SlotsConserved ==
  service # "closed" => slots + Cardinality({j \in JobIds : work[j].at # "done"}) = Slots

(* One collection at a time for a session, and for a verified account across
   sessions (public_jobs.py:105). *)
OneCollection ==
  \A j, k \in DOMAIN jobs :
    j # k /\ Active(jobs[j]) /\ Active(jobs[k]) =>
      /\ jobs[j].owner # jobs[k].owner
      /\ jobs[j].scope = None \/ jobs[j].scope # jobs[k].scope

(* Memory stays bounded: active jobs with results, and statuses without. *)
Bounded ==
  /\ Cardinality({j \in DOMAIN jobs : Active(jobs[j]) \/ jobs[j].result # None}) <= MaxRetained
  /\ Cardinality({j \in DOMAIN jobs : Spent(jobs[j])}) <= MaxTerminal

(* A stop accepted before the job began to save ends it as stopped or failed,
   and its export is marked incomplete however far the collector got
   (public_jobs.py:230-237); a stop is never accepted later. *)
StopHonoured ==
  \A j \in DOMAIN jobs : event[j] /\ ~Active(jobs[j]) =>
    jobs[j].status \in {"cancelled", "failed"} /\ jobs[j].result # "complete"

(* A job that its session sees as active has a worker that will end it, and no
   worker goes on with a job that has ended, whatever fails in between
   (public_jobs.py:238-270): else the session could never collect again. *)
ActiveHasThread ==
  \A j \in DOMAIN jobs : Active(jobs[j]) <=> work[j].at \notin {"done", "releasing"}

(* A job that did not fail offers its result, even when the server could not
   store it, and only a completed one offers complete coverage
   (public_jobs.py:254-265). *)
ResultsHonest ==
  \A j \in DOMAIN jobs :
    /\ jobs[j].result = None <=> jobs[j].status \in ActiveStatuses \cup {"failed"}
    /\ jobs[j].result = "complete" <=> jobs[j].status = "completed"

(* A deleted backup is not brought back by a collection or an upload that began
   before the deletion (public_store.py:200-201). *)
DeletedStaysDeleted ==
  \A a \in Accounts : \A s \in backup[a] : s.base = version[a]

(* While the service runs, a result stays for its whole lifetime, and a job that
   has not ended stays until its own worker ends it (public_jobs.py:69-77). *)
KeptWhileNeeded ==
  [][~Clear /\ ~Restart =>
       \A j \in DOMAIN jobs \ DOMAIN jobs' :
         /\ jobs[j].result # None => jobs[j].expires <= now
         /\ Active(jobs[j]) => work[j].at \in {"ending", "failing"} /\ work'[j].at = "releasing"]_vars

(* What a session sees of its job is the life of a collection. *)
Life ==
  [j \in JobIds |->
     CASE j \notin used -> "new"
       [] j \in used /\ j \notin DOMAIN jobs -> "gone"
       [] OTHER -> IF jobs[j].status = "cancelling" THEN "stopping"
                   ELSE IF Active(jobs[j]) THEN "active" ELSE jobs[j].status]

Lifecycle == INSTANCE Collection WITH Jobs <- JobIds, life <- Life
ImplementsLifecycle == Lifecycle!Spec
=============================================================================
