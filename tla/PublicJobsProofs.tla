-------------------------- MODULE PublicJobsProofs --------------------------
(***************************************************************************)
(* The public relay keeps its promises about slots, stops, results and     *)
(* deleted backups for any number of jobs, sessions and accounts, and its  *)
(* jobs live the life of a collection.                                     *)
(***************************************************************************)
EXTENDS PublicJobs, FiniteSetTheorems, TLAPS

Busy == {"new", "collecting", "collected", "finishing", "saving", "ending", "failing"}
Final == {"finishing", "saving", "ending"}

(* What holds of the job, the worker and the event of one identifier. *)
JobInv(j) ==
  /\ j \notin used => work[j] = NoWork /\ ~event[j]
  /\ work[j].at \in {"collected"} \cup Final => work[j].outcome # None
  /\ work[j].at = "collected" /\ work[j].outcome = "stopped" => event[j]
  /\ work[j].at \in Final /\ work[j].outcome = "stopped" => work[j].cancelled
  /\ work[j].at \in Busy /\ service # "closed" => j \in DOMAIN jobs
  /\ j \in DOMAIN jobs =>
       /\ work[j].at \in Busy <=> Active(jobs[j])
       /\ work[j].at \in Final => jobs[j].finalizing /\ work[j].cancelled = event[j]
       /\ jobs[j].status = "cancelling" => event[j]
       /\ ~Active(jobs[j]) /\ ~jobs[j].finalizing => jobs[j].status = "failed"
       /\ ~Active(jobs[j]) /\ event[j] =>
            jobs[j].status \in {"cancelled", "failed"} /\ jobs[j].result # "complete"
       /\ jobs[j].result = None <=> jobs[j].status \in ActiveStatuses \cup {"failed"}
       /\ jobs[j].result = "complete" <=> jobs[j].status = "completed"

IInv == TypeOK /\ \A j \in JobIds : JobInv(j)

(***************************************************************************)
(* Pruning                                                                 *)
(***************************************************************************)
LEMMA PrunedKeeps ==
  ASSUME NEW js, NEW new \in Pruned(js)
  PROVE  /\ DOMAIN new \subseteq DOMAIN js
         /\ new = [j \in DOMAIN new |-> js[j]]
         /\ \A j \in DOMAIN new : new[j] = js[j]
         /\ \A j \in DOMAIN js : Active(js[j]) => j \in DOMAIN new
         /\ \A j \in DOMAIN js \ DOMAIN new :
              js[j].result # None => ~(js[j].expires > now)
<1>1. PICK gone \in Excess(js) : new = Only(js, Live(js) \ gone)
  BY DEF Pruned
<1>2. gone \subseteq {j \in Live(js) : Spent(js[j])}
  BY DEF Excess
<1>3. /\ DOMAIN new = Live(js) \ gone
      /\ new = [j \in DOMAIN new |-> js[j]]
      /\ \A j \in DOMAIN new : new[j] = js[j]
  BY <1>1 DEF Only
<1>4. Live(js) \subseteq DOMAIN js
  BY DEF Live
<1>5. \A j \in DOMAIN js : Active(js[j]) => j \in DOMAIN new
  BY <1>2, <1>3 DEF Live, Spent
<1>6. ASSUME NEW j \in DOMAIN js, j \notin DOMAIN new, js[j].result # None
      PROVE  ~(js[j].expires > now)
  BY <1>2, <1>3, <1>6 DEF Live, Spent
<1> QED
  BY <1>3, <1>4, <1>5, <1>6

LEMMA PrunedType ==
  ASSUME NEW js, NEW dom, js \in [dom -> Job], NEW new \in Pruned(js)
  PROVE  new \in [DOMAIN new -> Job] /\ DOMAIN new \subseteq dom
BY PrunedKeeps

(* The jobs that a step does not touch. *)
LEMMA Untouched ==
  ASSUME IInv, NEW j \in JobIds, work'[j] = work[j], event'[j] = event[j],
         j \in used <=> j \in used',
         service = "closed" => service' = "closed",
         j \in DOMAIN jobs' => j \in DOMAIN jobs /\ jobs'[j] = jobs[j],
         j \in DOMAIN jobs /\ Active(jobs[j]) => j \in DOMAIN jobs' \/ service' = "closed"
  PROVE  JobInv(j)'
BY DEF IInv, JobInv, Active

(***************************************************************************)
(* The initial state and the actions that touch no job, or all of them     *)
(***************************************************************************)
LEMMA InitHolds == Init => IInv
<1> SUFFICES ASSUME Init PROVE IInv
  OBVIOUS
<1> USE JobsAssumption
<1>1. NoWork \in Work
  BY DEF NoWork, Work
<1>2. TypeOK
  BY <1>1 DEF Init, TypeOK
<1>3. ASSUME NEW j \in JobIds PROVE JobInv(j)
  BY DEF Init, JobInv, NoWork, Busy, Final
<1> QED
  BY <1>2, <1>3 DEF IInv

(* Shutdown, restart, the clock and the backups themselves. *)
LEMMA ServiceSteps ==
  ASSUME IInv, Shut \/ CancelAll \/ Clear \/ Restart \/ Tick
  PROVE  IInv'
<1> USE JobsAssumption
<1>0. NoWork \in Work
  BY DEF NoWork, Work
<1>1. CASE Shut
  <2>1. TypeOK' BY <1>1 DEF IInv, TypeOK, Shut, storeVars
  <2>2. ASSUME NEW j \in JobIds PROVE JobInv(j)'
    BY <1>1 DEF IInv, JobInv, Shut, Active
  <2> QED BY <2>1, <2>2 DEF IInv
<1>2. CASE CancelAll
  <2>1. TypeOK' BY <1>2 DEF IInv, TypeOK, CancelAll, storeVars
  <2>2. ASSUME NEW j \in JobIds PROVE JobInv(j)'
    <3>1. JobInv(j) BY DEF IInv
    <3>2. DOMAIN jobs \subseteq used /\ event[j] \in BOOLEAN BY DEF IInv, TypeOK
    <3>3. event'[j] = (event[j] \/ (j \in DOMAIN jobs /\ ~jobs[j].finalizing /\ work[j].at # "done"))
      BY <1>2 DEF CancelAll
    <3>4. UNCHANGED <<jobs, used, work>> /\ service # "closed" /\ service' # "closed"
      BY <1>2 DEF CancelAll
    <3>5. event'[j] = event[j] \/ (event'[j] = TRUE /\ j \in used /\ ~jobs[j].finalizing)
      BY <3>2, <3>3
    <3>6. Active(jobs[j])' <=> Active(jobs[j]) BY <3>4 DEF Active
    <3>7. CASE event'[j] = event[j]
      BY <3>1, <3>4, <3>6, <3>7 DEF JobInv
    <3>8. CASE event'[j] = TRUE /\ j \in used /\ ~jobs[j].finalizing
      BY <3>1, <3>4, <3>6, <3>8 DEF JobInv, Final, Busy
    <3> QED BY <3>5, <3>7, <3>8
  <2> QED BY <2>1, <2>2 DEF IInv
<1>3. CASE Clear
  <2>1. TypeOK' BY <1>3 DEF IInv, TypeOK, Clear, storeVars
  <2>2. ASSUME NEW j \in JobIds PROVE JobInv(j)'
    BY <1>3 DEF IInv, JobInv, Clear
  <2> QED BY <2>1, <2>2 DEF IInv
<1>4. CASE Restart
  <2>1. TypeOK' BY <1>0, <1>4 DEF IInv, TypeOK, Restart, storeVars
  <2>2. ASSUME NEW j \in JobIds PROVE JobInv(j)'
    BY <1>4 DEF JobInv, Restart, NoWork, Busy, Final
  <2> QED BY <2>1, <2>2 DEF IInv
<1>5. CASE Tick
  <2>1. TypeOK' BY <1>5 DEF IInv, TypeOK, Tick, storeVars
  <2>2. ASSUME NEW j \in JobIds PROVE JobInv(j)'
    BY <1>5 DEF IInv, JobInv, Tick, Active
  <2> QED BY <2>1, <2>2 DEF IInv
<1> QED
  BY <1>1, <1>2, <1>3, <1>4, <1>5

LEMMA BackupSteps ==
  ASSUME IInv,
         (\E o \in Editors, a \in Accounts : ReadVersion(o, a) \/ Upload(o, a))
           \/ \E a \in Accounts : DeleteBackup(a)
  PROVE  IInv'
<1>1. UNCHANGED jobVars
  BY DEF ReadVersion, Upload, DeleteBackup
<1>2. ASSUME NEW o \in Editors, NEW a \in Accounts, ReadVersion(o, a) PROVE TypeOK'
  BY <1>2 DEF IInv, TypeOK, ReadVersion, jobVars
<1>3. ASSUME NEW o \in Editors, NEW a \in Accounts, Upload(o, a) PROVE TypeOK'
  <2>1. [from |-> "upload", base |-> known[o][a]] \in Snapshot
    BY <1>3 DEF IInv, TypeOK, Upload, Snapshot
  <2> QED
    BY <1>3, <2>1 DEF IInv, TypeOK, Upload, Put, jobVars
<1>4. ASSUME NEW a \in Accounts, DeleteBackup(a) PROVE TypeOK'
  BY <1>4 DEF IInv, TypeOK, DeleteBackup, jobVars
<1>5. ASSUME NEW j \in JobIds PROVE JobInv(j)'
  BY <1>1 DEF IInv, JobInv, Active, jobVars
<1> QED
  BY <1>2, <1>3, <1>4, <1>5 DEF IInv

(***************************************************************************)
(* Requests                                                                *)
(***************************************************************************)
LEMMA CleanupStep == IInv /\ Cleanup => IInv'
<1> SUFFICES ASSUME IInv, Cleanup PROVE IInv'
  OBVIOUS
<1>1. jobs \in [DOMAIN jobs -> Job] /\ jobs' \in Pruned(jobs)
  BY DEF IInv, TypeOK, Cleanup
<1>2. jobs' \in [DOMAIN jobs' -> Job] /\ DOMAIN jobs' \subseteq DOMAIN jobs
  BY <1>1, PrunedType
<1>3. TypeOK'
  BY <1>2 DEF IInv, TypeOK, Cleanup, storeVars
<1>4. ASSUME NEW i \in JobIds PROVE JobInv(i)'
  <2>1. i \in DOMAIN jobs' => i \in DOMAIN jobs /\ jobs'[i] = jobs[i]
    BY <1>1, <1>2, PrunedKeeps
  <2>2. i \in DOMAIN jobs /\ Active(jobs[i]) => i \in DOMAIN jobs'
    BY <1>1, PrunedKeeps
  <2> QED
    BY <2>1, <2>2, Untouched DEF Cleanup
<1> QED
  BY <1>3, <1>4 DEF IInv

LEMMA StartStep ==
  ASSUME IInv, NEW o \in Owners, NEW a \in Accounts \cup {None}, Start(o, a)
  PROVE  IInv'
<1> USE JobsAssumption
<1>1. PICK js \in Pruned(jobs), j \in JobIds \ used :
        /\ jobs' = [k \in DOMAIN js \cup {j} |-> IF k = j THEN NewJob(o, a) ELSE js[k]]
        /\ used' = used \cup {j}
        /\ work' = [work EXCEPT ![j] =
             [NoWork EXCEPT !.at = "new", !.account = a,
                            !.base = IF a = None THEN None ELSE version[a]]]
  BY DEF Start
<1>2. UNCHANGED <<event, service, now, version, backup, known>> /\ service = "open"
      /\ slots > 0 /\ slots' = slots - 1
  BY DEF Start, storeVars
<1>3. js \in [DOMAIN js -> Job] /\ DOMAIN js \subseteq DOMAIN jobs
  BY PrunedType DEF IInv, TypeOK
<1>4. NewJob(o, a) \in Job
  BY DEF NewJob, Job, ActiveStatuses, IInv, TypeOK
<1>5. jobs' \in [DOMAIN jobs' -> Job] /\ DOMAIN jobs' = DOMAIN js \cup {j}
  BY <1>1, <1>3, <1>4
<1>6. DOMAIN jobs \subseteq used /\ used \subseteq JobIds /\ j \notin DOMAIN js
  BY <1>3 DEF IInv, TypeOK
<1>7. work'[j] \in Work /\ work'[j].at = "new" /\ \A i \in JobIds : i # j => work'[i] = work[i]
  BY <1>1 DEF IInv, TypeOK, NoWork, Work
<1>8. TypeOK'
  <2>1. work' \in [JobIds -> Work]
    BY <1>1, <1>7 DEF IInv, TypeOK
  <2> QED
    BY <1>1, <1>2, <1>3, <1>5, <1>6, <2>1 DEF IInv, TypeOK
<1>9. JobInv(j)'
  <2>1. ~event'[j] /\ jobs'[j] = NewJob(o, a) /\ j \in used' /\ j \in DOMAIN jobs'
    BY <1>1, <1>2, <1>5 DEF IInv, JobInv
  <2> QED
    BY <2>1, <1>7 DEF JobInv, Busy, Final, NewJob, Active, ActiveStatuses
<1>10. ASSUME NEW i \in JobIds, i # j PROVE JobInv(i)'
  <2>1. i \in DOMAIN jobs' => i \in DOMAIN jobs /\ jobs'[i] = jobs[i]
    BY <1>1, <1>3, <1>5, <1>10, PrunedKeeps
  <2>2. i \in DOMAIN jobs /\ Active(jobs[i]) => i \in DOMAIN jobs'
    BY <1>1, <1>5, PrunedKeeps
  <2>3. i \in used <=> i \in used'
    BY <1>1, <1>10
  <2> QED
    BY <1>2, <1>7, <1>10, <2>1, <2>2, <2>3, Untouched
<1> QED
  BY <1>8, <1>9, <1>10 DEF IInv

LEMMA CancelStep ==
  ASSUME IInv, NEW o \in Owners, NEW j \in JobIds, Cancel(o, j)
  PROVE  IInv'
<1>1. PICK js \in Pruned(jobs) : jobs' = [js EXCEPT ![j].status = "cancelling"]
  BY DEF Cancel
<1>2. /\ j \in DOMAIN jobs /\ Active(jobs[j]) /\ ~jobs[j].finalizing
      /\ event' = [event EXCEPT ![j] = TRUE]
      /\ UNCHANGED <<used, work, slots, service, now, version, backup, known>>
  BY DEF Cancel, storeVars
<1>3. js \in [DOMAIN js -> Job] /\ DOMAIN js \subseteq DOMAIN jobs
  BY PrunedType DEF IInv, TypeOK
<1>4. /\ j \in DOMAIN js /\ js[j] = jobs[j]
      /\ \A i \in DOMAIN js : js[i] = jobs[i]
      /\ \A i \in DOMAIN jobs : Active(jobs[i]) => i \in DOMAIN js
  BY <1>2, PrunedKeeps
<1>5. [jobs[j] EXCEPT !.status = "cancelling"] \in Job
  BY <1>3, <1>4 DEF Job, ActiveStatuses
<1>6. /\ jobs' \in [DOMAIN jobs' -> Job] /\ DOMAIN jobs' = DOMAIN js
      /\ jobs'[j] = [jobs[j] EXCEPT !.status = "cancelling"]
      /\ \A i \in DOMAIN jobs' : i # j => jobs'[i] = jobs[i]
  BY <1>1, <1>3, <1>4, <1>5
<1>7. TypeOK'
  BY <1>2, <1>3, <1>6 DEF IInv, TypeOK
<1>8. JobInv(j)'
  <2>1. JobInv(j) /\ event'[j] = TRUE /\ j \in used
    BY <1>2 DEF IInv, TypeOK
  <2>2. jobs[j] \in Job
    BY <1>3, <1>4
  <2>3. /\ jobs'[j].status = "cancelling" /\ jobs'[j].finalizing = jobs[j].finalizing
        /\ jobs'[j].result = jobs[j].result
    BY <1>6, <2>2 DEF Job
  <2>4. Active(jobs'[j]) /\ jobs'[j].status \notin EndStatuses
    BY <2>3 DEF Active, ActiveStatuses, EndStatuses
  <2>5. jobs[j].result = None /\ jobs[j].result # "complete"
    BY <1>2, <2>1, JobsAssumption DEF JobInv, Active
  <2>6. work[j].at \in Busy /\ work[j].at \notin Final
    BY <1>2, <2>1 DEF JobInv
  <2> QED
    BY <1>2, <1>4, <1>6, <2>1, <2>3, <2>4, <2>5, <2>6
    DEF JobInv, ActiveStatuses, EndStatuses
<1>9. ASSUME NEW i \in JobIds, i # j PROVE JobInv(i)'
  <2>1. i \in DOMAIN jobs' => i \in DOMAIN jobs /\ jobs'[i] = jobs[i]
    BY <1>3, <1>6, <1>9
  <2>2. i \in DOMAIN jobs /\ Active(jobs[i]) => i \in DOMAIN jobs'
    BY <1>4, <1>6
  <2> QED
    BY <1>2, <1>9, <2>1, <2>2, Untouched DEF IInv, TypeOK
<1> QED
  BY <1>7, <1>8, <1>9 DEF IInv

(***************************************************************************)
(* The worker thread                                                       *)
(***************************************************************************)

(* The jobs and workers that a step of worker j leaves alone. *)
LEMMA OtherWorkers ==
  ASSUME IInv, NEW j \in JobIds,
         \A i \in JobIds : i # j => work'[i] = work[i],
         DOMAIN jobs' \subseteq DOMAIN jobs,
         \A i \in DOMAIN jobs' : i # j => jobs'[i] = jobs[i],
         \A i \in DOMAIN jobs : i # j /\ Active(jobs[i]) => i \in DOMAIN jobs',
         UNCHANGED <<used, event, service>>
  PROVE  \A i \in JobIds : i # j => JobInv(i)'
BY Untouched

LEMMA EndingStep ==
  ASSUME IInv, NEW j \in JobIds, NEW status \in EndStatuses,
         NEW result \in {None, "partial", "complete"}, Ending(j, status, result)
  PROVE  /\ jobs' \in [DOMAIN jobs' -> Job] /\ DOMAIN jobs' \subseteq DOMAIN jobs
         /\ \A i \in DOMAIN jobs' : i # j => jobs'[i] = jobs[i]
         /\ \A i \in DOMAIN jobs : i # j /\ Active(jobs[i]) => i \in DOMAIN jobs'
         /\ j \in DOMAIN jobs' => jobs'[j].status = status /\ jobs'[j].result = result
                                /\ jobs'[j].finalizing = jobs[j].finalizing
                                /\ jobs'[j].owner = jobs[j].owner
                                /\ jobs'[j].scope = jobs[j].scope
         /\ \A i \in DOMAIN jobs \ DOMAIN jobs' :
              i # j /\ jobs[i].result # None => ~(jobs[i].expires > now)
<1>1. jobs \in [DOMAIN jobs -> Job] /\ now \in Nat
  BY DEF IInv, TypeOK
<1>2. CASE j \notin DOMAIN jobs
  BY <1>1, <1>2 DEF Ending
<1>3. CASE j \in DOMAIN jobs
  <2> DEFINE js == [jobs EXCEPT ![j].status = status, ![j].result = result,
                                ![j].expires = now + TTL]
  <2>1. jobs' \in Pruned(js)
    BY <1>3 DEF Ending
  <2>2. now + TTL \in Nat
    BY <1>1, JobsAssumption
  <2>3. [jobs[j] EXCEPT !.status = status, !.result = result, !.expires = now + TTL] \in Job
    BY <1>1, <1>3, <2>2 DEF Job
  <2>4. /\ js \in [DOMAIN jobs -> Job] /\ \A i \in DOMAIN jobs : i # j => js[i] = jobs[i]
        /\ js[j] = [jobs[j] EXCEPT !.status = status, !.result = result, !.expires = now + TTL]
    BY <1>1, <1>3, <2>3
  <2>5. /\ js[j].status = status /\ js[j].result = result
        /\ js[j].finalizing = jobs[j].finalizing
        /\ js[j].owner = jobs[j].owner /\ js[j].scope = jobs[j].scope
    BY <1>1, <1>3, <2>4 DEF Job
  <2> HIDE DEF js
  <2>6. jobs' \in [DOMAIN jobs' -> Job] /\ DOMAIN jobs' \subseteq DOMAIN jobs
    BY <2>1, <2>4, PrunedType
  <2>7. \A i \in DOMAIN jobs' : jobs'[i] = js[i]
    BY <2>1, PrunedKeeps
  <2>8. DOMAIN js = DOMAIN jobs
    BY <2>4
  <2>9. \A i \in DOMAIN jobs : i # j /\ Active(jobs[i]) => i \in DOMAIN jobs'
    BY <2>1, <2>4, <2>8, PrunedKeeps
  <2>10. \A i \in DOMAIN jobs \ DOMAIN jobs' :
           i # j /\ jobs[i].result # None => ~(jobs[i].expires > now)
    BY <2>1, <2>4, <2>8, PrunedKeeps
  <2> QED
    BY <2>4, <2>5, <2>6, <2>7, <2>9, <2>10
<1> QED
  BY <1>2, <1>3

(* Steps that change the place of worker j and, at most, the status and the
   window of its job. *)
LEMMA LaunchStep == ASSUME IInv, NEW j \in JobIds, Launch(j) PROVE IInv'
<1> USE JobsAssumption
<1>1. UNCHANGED <<used, event, slots, service, now, version, backup, known>>
  BY DEF Launch, storeVars
<1>2. JobInv(j) /\ work[j] \in Work /\ work[j].at = "new"
  BY DEF IInv, TypeOK, Launch
<1>3. CASE j \in DOMAIN jobs
  <2>1. jobs[j] \in Job /\ Active(jobs[j])
    BY <1>2, <1>3 DEF IInv, TypeOK, JobInv, Busy
  <2> DEFINE status == IF jobs[j].status = "cancelling" THEN "cancelling" ELSE "running"
  <2>2. [jobs[j] EXCEPT !.status = status] \in Job
    BY <2>1 DEF Job, ActiveStatuses
  <2>3. /\ jobs' = [jobs EXCEPT ![j] = [jobs[j] EXCEPT !.status = status]]
        /\ work' = [work EXCEPT ![j] = [work[j] EXCEPT !.at = "collecting"]]
    BY <1>3 DEF Launch, Goes
  <2>4. [work[j] EXCEPT !.at = "collecting"] \in Work
    BY <1>2 DEF Work
  <2>5. TypeOK'
    BY <1>1, <1>3, <2>2, <2>3, <2>4 DEF IInv, TypeOK
  <2>6. /\ jobs'[j].status = status /\ jobs'[j].result = jobs[j].result
        /\ jobs'[j].finalizing = jobs[j].finalizing /\ DOMAIN jobs' = DOMAIN jobs
        /\ work'[j].at = "collecting"
    BY <1>2, <1>3, <2>1, <2>3 DEF Job, Work, IInv, TypeOK
  <2>7. Active(jobs'[j])
    BY <2>6 DEF Active, ActiveStatuses
  <2>8. jobs[j].result = None
    BY <1>2, <1>3, <2>1 DEF JobInv, Active
  <2>9. j \in used
    BY <1>3 DEF IInv, TypeOK
  <2>10. JobInv(j)'
    BY <1>1, <1>2, <1>3, <2>6, <2>7, <2>8, <2>9 DEF JobInv, Busy, Final, ActiveStatuses
  <2>11. \A i \in JobIds : i # j => JobInv(i)'
    <3>1. /\ \A i \in JobIds : i # j => work'[i] = work[i]
          /\ \A i \in DOMAIN jobs' : i # j => jobs'[i] = jobs[i]
      BY <2>3, <2>6 DEF IInv, TypeOK
    <3> QED BY <1>1, <2>6, <3>1, OtherWorkers
  <2> QED BY <2>5, <2>10, <2>11 DEF IInv
<1>4. CASE j \notin DOMAIN jobs
  <2>1. jobs' = jobs /\ work' = [work EXCEPT ![j] = NoWork]
    BY <1>4 DEF Launch
  <2>2. TypeOK'
    BY <1>1, <2>1 DEF IInv, TypeOK, NoWork, Work
  <2>3. work'[j] = NoWork
    BY <2>1 DEF IInv, TypeOK
  <2>4. JobInv(j)'
    BY <1>1, <1>2, <1>4, <2>1, <2>3 DEF JobInv, Busy, Final, NoWork
  <2>5. \A i \in JobIds : i # j => JobInv(i)'
    <3>1. \A i \in JobIds : i # j => work'[i] = work[i]
      BY <2>1 DEF IInv, TypeOK
    <3> QED BY <1>1, <2>1, <3>1, OtherWorkers
  <2> QED BY <2>2, <2>4, <2>5 DEF IInv
<1> QED BY <1>3, <1>4

LEMMA MoveStep ==
  ASSUME IInv, NEW j \in JobIds, Collect(j) \/ Break(j) \/ Finish(j)
  PROVE  IInv'
<1> USE JobsAssumption
<1>1. UNCHANGED <<jobs, used, event, slots, service, now, version, backup, known>>
  BY DEF Collect, Break, Finish, storeVars
<1>2. JobInv(j) /\ work[j] \in Work
  BY DEF IInv, TypeOK
<1>3. PICK w \in Work :
        /\ work' = [work EXCEPT ![j] = w]
        /\ w.at \in Busy /\ work[j].at \in Busy /\ w.cancelled = work[j].cancelled
        /\ w.at = "collected" => w.outcome # None /\ (w.outcome = "stopped" => event[j])
        /\ w.at \in Final => work[j].at \in Final /\ w.outcome = work[j].outcome
  <2>1. CASE Collect(j)
    <3>1. PICK outcome \in {"complete", "stopped", "failed", "empty"} :
            /\ outcome = "stopped" => event[j]
            /\ work' = [work EXCEPT ![j].at = "collected", ![j].outcome = outcome]
      BY <2>1, Zenon DEF Collect
    <3>2. [work[j] EXCEPT !.at = "collected", !.outcome = outcome] \in Work
      BY <1>2 DEF Work
    <3> DEFINE w == [work[j] EXCEPT !.at = "collected", !.outcome = outcome]
    <3>3. w.at = "collected" /\ w.outcome = outcome /\ w.cancelled = work[j].cancelled
      BY <1>2 DEF Work
    <3>4. work[j].at \in Busy /\ "collected" \in Busy /\ "collected" \notin Final
          /\ outcome # None
      BY <2>1 DEF Collect, Busy, Final
    <3>5. work' = [work EXCEPT ![j] = w] /\ w \in Work
      <4>1. work \in [JobIds -> Work]
        BY DEF IInv, TypeOK
      <4> HIDE JobsAssumption
      <4> QED BY <3>1, <3>2, <4>1
    <3> HIDE DEF w
    <3> QED BY <3>1, <3>3, <3>4, <3>5
  <2>2. CASE Break(j)
    <3>1. [work[j] EXCEPT !.at = "failing"] \in Work
      BY <1>2 DEF Work
    <3> QED BY <1>2, <2>2, <3>1 DEF Break, Goes, Busy, Final, Work
  <2>3. CASE Finish(j)
    <3>1. PICK to \in {"saving", "ending"} :
            work' = [work EXCEPT ![j] = [work[j] EXCEPT !.at = to]]
      BY <2>3 DEF Finish, Goes
    <3>2. [work[j] EXCEPT !.at = to] \in Work
      BY <1>2 DEF Work
    <3> QED BY <1>2, <2>3, <3>1, <3>2 DEF Finish, Busy, Final, Work
  <2> QED BY <2>1, <2>2, <2>3
<1>4. TypeOK'
  BY <1>1, <1>3 DEF IInv, TypeOK
<1>5. work'[j] = w /\ \A i \in JobIds : i # j => work'[i] = work[i]
  BY <1>3 DEF IInv, TypeOK
<1>6. JobInv(j)'
  <2>1. j \in used
    BY <1>2, <1>3 DEF JobInv, NoWork, Busy
  <2>2. Active(jobs[j])' <=> Active(jobs[j])
    BY <1>1 DEF Active
  <2> QED
    BY <1>1, <1>2, <1>3, <1>5, <2>1, <2>2 DEF JobInv, Final
<1>7. \A i \in JobIds : i # j => JobInv(i)'
  BY <1>1, <1>5, OtherWorkers
<1> QED BY <1>4, <1>6, <1>7 DEF IInv

LEMMA BeginFinalStep == ASSUME IInv, NEW j \in JobIds, BeginFinal(j) PROVE IInv'
<1> USE JobsAssumption
<1>1. UNCHANGED <<used, event, slots, service, now, version, backup, known>>
  BY DEF BeginFinal, storeVars
<1>2. JobInv(j) /\ work[j] \in Work /\ work[j].at = "collected" /\ event[j] \in BOOLEAN
  BY DEF IInv, TypeOK, BeginFinal
<1>3. j \in used
  BY <1>2 DEF JobInv, NoWork
<1>4. CASE j \in DOMAIN jobs
  <2>1. jobs[j] \in Job
    BY <1>4 DEF IInv, TypeOK
  <2>2. [jobs[j] EXCEPT !.finalizing = TRUE] \in Job
    BY <2>1 DEF Job
  <2>3. /\ jobs' = [jobs EXCEPT ![j] = [jobs[j] EXCEPT !.finalizing = TRUE]]
        /\ work' = [work EXCEPT ![j] = [work[j] EXCEPT !.at = "finishing", !.cancelled = event[j]]]
    BY <1>4 DEF BeginFinal
  <2>4. [work[j] EXCEPT !.at = "finishing", !.cancelled = event[j]] \in Work
    BY <1>2 DEF Work
  <2>5. TypeOK'
    BY <1>1, <1>4, <2>2, <2>3, <2>4 DEF IInv, TypeOK
  <2>6. /\ jobs'[j].status = jobs[j].status /\ jobs'[j].result = jobs[j].result
        /\ jobs'[j].finalizing /\ DOMAIN jobs' = DOMAIN jobs
        /\ work'[j].at = "finishing" /\ work'[j].cancelled = event[j]
        /\ work'[j].outcome = work[j].outcome
    BY <1>2, <1>4, <2>1, <2>3 DEF Job, Work, IInv, TypeOK
  <2>7. Active(jobs'[j]) /\ Active(jobs[j])
    BY <1>2, <1>4, <2>6 DEF Active, JobInv, Busy
  <2>8. JobInv(j)'
    BY <1>1, <1>2, <1>3, <1>4, <2>6, <2>7 DEF JobInv, Busy, Final
  <2>9. \A i \in JobIds : i # j => JobInv(i)'
    <3>1. /\ \A i \in JobIds : i # j => work'[i] = work[i]
          /\ \A i \in DOMAIN jobs' : i # j => jobs'[i] = jobs[i]
      BY <2>3, <2>6 DEF IInv, TypeOK
    <3> QED BY <1>1, <2>6, <3>1, OtherWorkers
  <2> QED BY <2>5, <2>8, <2>9 DEF IInv
<1>5. CASE j \notin DOMAIN jobs
  <2>1. jobs' = jobs /\ work' = [work EXCEPT ![j] = [work[j] EXCEPT !.at = "failing"]]
    BY <1>5 DEF BeginFinal, Goes
  <2>2. [work[j] EXCEPT !.at = "failing"] \in Work
    BY <1>2 DEF Work
  <2>3. TypeOK'
    BY <1>1, <2>1, <2>2 DEF IInv, TypeOK
  <2>4. work'[j].at = "failing" /\ \A i \in JobIds : i # j => work'[i] = work[i]
    BY <1>2, <2>1 DEF IInv, TypeOK, Work
  <2>5. JobInv(j)'
    BY <1>1, <1>2, <1>3, <1>5, <2>1, <2>4 DEF JobInv, Busy, Final
  <2>6. \A i \in JobIds : i # j => JobInv(i)'
    BY <1>1, <2>1, <2>4, OtherWorkers
  <2> QED BY <2>3, <2>5, <2>6 DEF IInv
<1> QED BY <1>4, <1>5

LEMMA SaveStep == ASSUME IInv, NEW j \in JobIds, Save(j) PROVE IInv'
<1> USE JobsAssumption
<1>1. UNCHANGED <<jobs, used, event, slots, service, now, version, known>>
  BY DEF Save
<1>2. JobInv(j) /\ work[j] \in Work /\ work[j].at = "saving"
  BY DEF IInv, TypeOK, Save
<1>3. /\ work' = [work EXCEPT ![j] = [work[j] EXCEPT !.at = "ending"]]
      /\ [work[j] EXCEPT !.at = "ending"] \in Work
  BY <1>2 DEF Save, Goes, Work
<1>4. backup' \in [Accounts -> SUBSET Snapshot]
  <2>1. CASE UNCHANGED backup
    BY <2>1 DEF IInv, TypeOK
  <2>2. CASE Put(work[j].account, j, work[j].base)
    <3> DEFINE a == work[j].account
    <3>1. backup' = [backup EXCEPT ![a] = @ \cup {[from |-> j, base |-> work[j].base]}]
      BY <2>2 DEF Put
    <3>2. CASE a \in Accounts
      <4>1. [from |-> j, base |-> work[j].base] \in Snapshot
        BY <2>2, <3>2 DEF Put, Snapshot, IInv, TypeOK
      <4> QED BY <3>1, <4>1 DEF IInv, TypeOK
    <3>3. CASE a \notin Accounts
      BY <3>1, <3>3 DEF IInv, TypeOK
    <3> QED BY <3>2, <3>3
  <2> QED BY <2>1, <2>2 DEF Save
<1>5. TypeOK'
  BY <1>1, <1>3, <1>4 DEF IInv, TypeOK
<1>6. /\ work'[j].at = "ending" /\ work'[j].cancelled = work[j].cancelled
      /\ work'[j].outcome = work[j].outcome
      /\ \A i \in JobIds : i # j => work'[i] = work[i]
  BY <1>2, <1>3 DEF IInv, TypeOK, Work
<1>7. JobInv(j)'
  <2>1. j \in used /\ (Active(jobs[j])' <=> Active(jobs[j]))
    BY <1>1, <1>2 DEF JobInv, NoWork, Active
  <2> QED BY <1>1, <1>2, <1>6, <2>1 DEF JobInv, Busy, Final
<1>8. \A i \in JobIds : i # j => JobInv(i)'
  BY <1>1, <1>6, OtherWorkers
<1> QED BY <1>5, <1>7, <1>8 DEF IInv

LEMMA VerdictFact ==
  ASSUME NEW w \in Work, w.outcome # None, w.outcome = "stopped" => w.cancelled
  PROVE  /\ Verdict(w) \in EndStatuses /\ Coverage(w) \in {None, "partial", "complete"}
         /\ Coverage(w) = None <=> Verdict(w) = "failed"
         /\ Coverage(w) = "complete" <=> Verdict(w) = "completed"
         /\ w.cancelled => Verdict(w) = "cancelled"
<1> USE JobsAssumption
<1>1. w.outcome \in {"complete", "stopped", "failed", "empty"} /\ w.cancelled \in BOOLEAN
  BY DEF Work
<1>2. CASE w.cancelled
  BY <1>2 DEF Verdict, Coverage, EndStatuses
<1>3. CASE ~w.cancelled
  <2>1. CASE w.outcome = "complete"
    BY <1>3, <2>1 DEF Verdict, Coverage, EndStatuses
  <2>2. CASE w.outcome = "failed"
    BY <1>3, <2>2 DEF Verdict, Coverage, EndStatuses
  <2>3. CASE w.outcome = "empty"
    BY <1>3, <2>3 DEF Verdict, Coverage, EndStatuses
  <2> QED BY <1>1, <1>3, <2>1, <2>2, <2>3
<1> QED BY <1>2, <1>3

LEMMA EndStep ==
  ASSUME IInv, NEW j \in JobIds, Conclude(j) \/ Fail(j)
  PROVE  IInv'
<1> USE JobsAssumption
<1>1. UNCHANGED <<used, event, slots, service, now, version, backup, known>>
  BY DEF Conclude, Fail, storeVars
<1>2. JobInv(j) /\ work[j] \in Work /\ work[j].at \in {"ending", "failing"}
  BY DEF IInv, TypeOK, Conclude, Fail
<1>3. PICK status \in EndStatuses, result \in {None, "partial", "complete"} :
        /\ Ending(j, status, result)
        /\ result = None <=> status = "failed"
        /\ result = "complete" <=> status = "completed"
        /\ status # "failed" => work[j].at \in Final
        /\ status # "failed" /\ work[j].cancelled => status = "cancelled"
  <2>1. CASE Conclude(j)
    <3>1. work[j].outcome # None /\ (work[j].outcome = "stopped" => work[j].cancelled)
          /\ work[j].at \in Final
      BY <1>2, <2>1 DEF Conclude, JobInv, Final
    <3> QED BY <1>2, <2>1, <3>1, VerdictFact DEF Conclude
  <2>2. CASE Fail(j)
    <3>1. "failed" \in EndStatuses BY DEF EndStatuses
    <3> QED BY <2>2, <3>1 DEF Fail
  <2> QED BY <2>1, <2>2
<1>4. /\ jobs' \in [DOMAIN jobs' -> Job] /\ DOMAIN jobs' \subseteq DOMAIN jobs
      /\ \A i \in DOMAIN jobs' : i # j => jobs'[i] = jobs[i]
      /\ \A i \in DOMAIN jobs : i # j /\ Active(jobs[i]) => i \in DOMAIN jobs'
      /\ j \in DOMAIN jobs' => jobs'[j].status = status /\ jobs'[j].result = result
                             /\ jobs'[j].finalizing = jobs[j].finalizing
  BY <1>3, EndingStep
<1>5. /\ work' = [work EXCEPT ![j] = [work[j] EXCEPT !.at = "releasing"]]
      /\ [work[j] EXCEPT !.at = "releasing"] \in Work
  BY <1>2 DEF Conclude, Fail, Goes, Work
<1>6. TypeOK'
  BY <1>1, <1>4, <1>5 DEF IInv, TypeOK
<1>7. work'[j].at = "releasing" /\ \A i \in JobIds : i # j => work'[i] = work[i]
  BY <1>2, <1>5 DEF IInv, TypeOK, Work
<1>8. JobInv(j)'
  <2>1. j \in used
    BY <1>2 DEF JobInv, NoWork
  <2>2. j \in DOMAIN jobs' => ~Active(jobs'[j])
    BY <1>4 DEF Active, ActiveStatuses, EndStatuses
  <2>3. j \in DOMAIN jobs' /\ status # "failed" =>
          jobs'[j].finalizing /\ work[j].cancelled = event[j]
    BY <1>2, <1>3, <1>4 DEF JobInv
  <2> QED
    BY <1>1, <1>3, <1>4, <1>7, <2>1, <2>2, <2>3
    DEF JobInv, Busy, Final, ActiveStatuses, EndStatuses
<1>9. \A i \in JobIds : i # j => JobInv(i)'
  BY <1>1, <1>4, <1>7, OtherWorkers
<1> QED BY <1>6, <1>8, <1>9 DEF IInv

(***************************************************************************)
(* The slots                                                               *)
(***************************************************************************)
Held == {j \in JobIds : work[j].at # "done"}

(* After close a thread may die before it can release its slot. *)
SlotInv ==
  /\ slots + Cardinality(Held) <= Slots
  /\ service # "closed" => slots + Cardinality(Held) = Slots

LEMMA HeldFinite == \A S \in SUBSET JobIds : IsFiniteSet(S) /\ Cardinality(S) \in Nat
BY JobsAssumption, FS_Subset, FS_CardinalityType

(* One identifier more, or less, than before holds a slot. *)
LEMMA HeldMore ==
  ASSUME NEW j \in JobIds, j \notin Held, Held' = Held \cup {j}
  PROVE  Cardinality(Held') = Cardinality(Held) + 1
BY HeldFinite, FS_AddElement DEF Held

LEMMA HeldLess ==
  ASSUME NEW j \in JobIds, j \in Held, Held' = Held \ {j}
  PROVE  Cardinality(Held') = Cardinality(Held) - 1
BY HeldFinite, FS_RemoveElement DEF Held

LEMMA HeldAfter ==
  ASSUME NEW j \in JobIds, \A i \in JobIds : i # j => work'[i] = work[i]
  PROVE  /\ work'[j].at # "done" /\ work[j].at # "done" => Held' = Held
         /\ work'[j].at # "done" /\ work[j].at = "done" => Held' = Held \cup {j}
         /\ work'[j].at = "done" => Held' = Held \ {j}
BY DEF Held

LEMMA ReleaseStep ==
  ASSUME IInv, SlotInv, NEW j \in JobIds, Release(j)
  PROVE  IInv' /\ SlotInv'
<1>1. UNCHANGED <<jobs, used, event, service, now, version, backup, known>> /\ slots' = slots + 1
  BY DEF Release, storeVars
<1>2. JobInv(j) /\ work[j] \in Work /\ work[j].at = "releasing" /\ slots \in 0..Slots
  BY DEF IInv, TypeOK, Release
<1>3. /\ work' = [work EXCEPT ![j] = NoWork] /\ NoWork \in Work
  BY DEF Release, NoWork, Work
<1>4. work'[j] = NoWork /\ \A i \in JobIds : i # j => work'[i] = work[i]
  BY <1>3 DEF IInv, TypeOK
<1>5. Cardinality(Held') = Cardinality(Held) - 1 /\ Cardinality(Held') \in Nat
      /\ Cardinality(Held) \in Nat
  <2>1. j \in Held /\ Held' = Held \ {j}
    BY <1>2, <1>4, HeldAfter DEF NoWork, Held
  <2> QED BY <2>1, HeldLess, HeldFinite DEF Held
<1>6. slots' \in 0..Slots /\ SlotInv'
  BY <1>1, <1>2, <1>5, JobsAssumption DEF SlotInv
<1>7. TypeOK'
  BY <1>1, <1>3, <1>6 DEF IInv, TypeOK
<1>8. JobInv(j)'
  <2>1. j \in used /\ (Active(jobs[j])' <=> Active(jobs[j]))
    BY <1>1, <1>2 DEF JobInv, NoWork, Active
  <2> QED BY <1>1, <1>2, <1>4, <2>1 DEF JobInv, Busy, Final, NoWork
<1>9. \A i \in JobIds : i # j => JobInv(i)'
  BY <1>1, <1>4, OtherWorkers
<1> QED BY <1>6, <1>7, <1>8, <1>9 DEF IInv

LEMMA SlotStep ==
  ASSUME IInv, SlotInv, [Next]_vars, \A j \in JobIds : ~Release(j)
  PROVE  SlotInv'
<1> USE JobsAssumption
<1>1. \A S \in SUBSET JobIds : IsFiniteSet(S) /\ Cardinality(S) \in Nat
  BY HeldFinite
<1>2. Cardinality(Held) \in Nat /\ slots \in 0..Slots /\ work \in [JobIds -> Work]
  BY <1>1 DEF Held, IInv, TypeOK
<1>3. CASE Held' = Held /\ slots' = slots /\ (service = "closed" => service' = "closed")
  BY <1>3 DEF SlotInv
<1>4. ASSUME NEW o \in Owners, NEW a \in Accounts \cup {None}, Start(o, a) PROVE SlotInv'
  <2>1. PICK j \in JobIds \ used : work' = [work EXCEPT ![j] =
            [NoWork EXCEPT !.at = "new", !.account = a,
                           !.base = IF a = None THEN None ELSE version[a]]]
    BY <1>4 DEF Start
  <2>2. work[j].at = "done" /\ work'[j].at = "new" /\ \A i \in JobIds : i # j => work'[i] = work[i]
    BY <1>2, <2>1 DEF IInv, JobInv, NoWork
  <2>3. Cardinality(Held') = Cardinality(Held) + 1
    BY <2>2, HeldAfter, HeldMore DEF Held
  <2>4. slots' = slots - 1 /\ service' = service
    BY <1>4 DEF Start
  <2> QED BY <1>2, <2>3, <2>4 DEF SlotInv
<1>5. ASSUME NEW j \in JobIds, Step(j) PROVE SlotInv'
  <2>1. slots' = slots /\ service' = service
    BY <1>5 DEF Step, Launch, Collect, Break, BeginFinal, Finish, Save, Conclude, Fail
  <2>2. work[j].at # "done" /\ \A i \in JobIds : i # j => work'[i] = work[i]
    BY <1>2, <1>5 DEF Step, Launch, Collect, Break, BeginFinal, Finish, Save, Conclude, Fail, Goes
  <2>3. CASE work'[j].at # "done"
    BY <1>3, <2>1, <2>2, <2>3, HeldAfter
  <2>4. CASE work'[j].at = "done"
    <3>1. Launch(j) /\ j \notin DOMAIN jobs
      BY <1>2, <1>5, <2>4
      DEF Step, Launch, Collect, Break, BeginFinal, Finish, Save, Conclude, Fail, Goes, Work
    <3>2. service = "closed"
      BY <3>1 DEF Launch, IInv, JobInv, Busy
    <3>3. Cardinality(Held') = Cardinality(Held) - 1
      BY <2>2, <2>4, HeldAfter, HeldLess DEF Held
    <3> QED BY <1>2, <2>1, <3>2, <3>3 DEF SlotInv
  <2> QED BY <2>3, <2>4
<1>6. CASE Restart
  <2>1. Held' = {} /\ slots' = Slots
    BY <1>6 DEF Restart, Held, NoWork
  <2> QED BY <2>1, FS_EmptySet DEF SlotInv
<1>7. CASE Shut \/ CancelAll \/ Clear \/ Tick \/ Cleanup
  BY <1>3, <1>7 DEF Shut, CancelAll, Clear, Tick, Cleanup, Held
<1>8. ASSUME NEW o \in Owners, NEW j \in JobIds, Cancel(o, j) PROVE SlotInv'
  BY <1>3, <1>8 DEF Cancel, Held
<1>9. CASE UNCHANGED jobVars
  BY <1>3, <1>9 DEF jobVars, Held
<1> QED
  BY <1>4, <1>5, <1>6, <1>7, <1>8, <1>9
  DEF Next, ReadVersion, Upload, DeleteBackup, vars, jobVars

(***************************************************************************)
(* The inductive invariant                                                 *)
(***************************************************************************)
LEMMA StepHolds == IInv /\ SlotInv /\ [Next]_vars => IInv' /\ SlotInv'
<1> SUFFICES ASSUME IInv, SlotInv, [Next]_vars PROVE IInv' /\ SlotInv'
  OBVIOUS
<1>1. ASSUME NEW j \in JobIds, Release(j) PROVE IInv' /\ SlotInv'
  BY <1>1, ReleaseStep
<1>2. CASE \A j \in JobIds : ~Release(j)
  <2>1. SlotInv'
    BY <1>2, SlotStep
  <2>2. CASE UNCHANGED vars
    <3>1. TypeOK'
      BY <2>2 DEF IInv, TypeOK, vars
    <3>2. ASSUME NEW j \in JobIds PROVE JobInv(j)'
      BY <2>2 DEF IInv, JobInv, Active, vars
    <3> QED BY <2>1, <3>1, <3>2 DEF IInv
  <2>3. ASSUME NEW j \in JobIds, Step(j) PROVE IInv'
    BY <1>2, <2>3, LaunchStep, MoveStep, BeginFinalStep, SaveStep, EndStep DEF Step
  <2>4. ASSUME NEW o \in Owners, NEW a \in Accounts \cup {None}, Start(o, a) PROVE IInv'
    BY <2>4, StartStep
  <2>5. ASSUME NEW o \in Owners, NEW j \in JobIds, Cancel(o, j) PROVE IInv'
    BY <2>5, CancelStep
  <2>6. CASE Next
    BY <2>1, <2>3, <2>4, <2>5, <2>6, CleanupStep, BackupSteps, ServiceSteps DEF Next
  <2> QED BY <2>1, <2>2, <2>6
<1> QED
  BY <1>1, <1>2

THEOREM Invariance == Spec => [](IInv /\ SlotInv)
<1>1. Init => SlotInv
  <2> SUFFICES ASSUME Init PROVE SlotInv
    OBVIOUS
  <2>1. Held = {} /\ slots = Slots
    BY DEF Init, Held, NoWork
  <2> QED BY <2>1, FS_EmptySet, JobsAssumption DEF SlotInv
<1> QED
  BY <1>1, InitHolds, StepHolds, PTL DEF Spec

(* Every variable of the relay keeps its type. *)
THEOREM TypeCorrect == Spec => []TypeOK
BY Invariance, PTL DEF IInv

(* While the service runs no slot is lost or released twice. *)
THEOREM SlotsKept == Spec => []SlotsConserved
<1>1. SlotInv => SlotsConserved
  BY DEF SlotInv, SlotsConserved, Held
<1> QED BY <1>1, Invariance, PTL

(* An accepted stop is never answered with a complete result. *)
THEOREM StopsHonoured == Spec => []StopHonoured
<1>1. IInv => StopHonoured
  BY DEF IInv, TypeOK, JobInv, StopHonoured
<1> QED BY <1>1, Invariance, PTL

(* An active job has a worker that will end it, and only an active one. *)
THEOREM Attended == Spec => []ActiveHasThread
<1>1. IInv => ActiveHasThread
  BY DEF IInv, TypeOK, JobInv, ActiveHasThread, Busy, Work
<1> QED BY <1>1, Invariance, PTL

(* A result is offered by every job that did not fail, and claims complete
   coverage exactly when the job completed. *)
THEOREM HonestResults == Spec => []ResultsHonest
<1>1. IInv => ResultsHonest
  BY DEF IInv, TypeOK, JobInv, ResultsHonest
<1> QED BY <1>1, Invariance, PTL

(* No snapshot collected before a deletion is stored after it. *)
THEOREM Deletions == Spec => []DeletedStaysDeleted
<1>1. Init => DeletedStaysDeleted
  BY DEF Init, DeletedStaysDeleted
<1>2. IInv /\ DeletedStaysDeleted /\ [Next]_vars => DeletedStaysDeleted'
  <2> SUFFICES ASSUME IInv, DeletedStaysDeleted, [Next]_vars PROVE DeletedStaysDeleted'
    OBVIOUS
  <2> USE DEF DeletedStaysDeleted
  <2>1. CASE UNCHANGED <<version, backup>>
    BY <2>1
  <2>2. ASSUME NEW a, NEW from, NEW base, Put(a, from, base), UNCHANGED version
        PROVE  DeletedStaysDeleted'
    BY <2>2 DEF Put, IInv, TypeOK
  <2>3. ASSUME NEW a \in Accounts, DeleteBackup(a) PROVE DeletedStaysDeleted'
    BY <2>3 DEF DeleteBackup, IInv, TypeOK
  <2>4. ASSUME NEW o \in Editors, NEW a \in Accounts, Upload(o, a) PROVE DeletedStaysDeleted'
    BY <2>2, <2>4 DEF Upload
  <2>5. ASSUME NEW j \in JobIds, Save(j) PROVE DeletedStaysDeleted'
    BY <2>1, <2>2, <2>5 DEF Save
  <2>6. ASSUME NEW j \in JobIds, Step(j), ~Save(j) PROVE UNCHANGED <<version, backup>>
    BY <2>6 DEF Step, Launch, Collect, Break, BeginFinal, Finish, Conclude, Fail, Release, storeVars
  <2>7. ASSUME NEW o \in Owners, NEW a, NEW j, Start(o, a) \/ Cancel(o, j)
        PROVE  UNCHANGED <<version, backup>>
    BY <2>7 DEF Start, Cancel, storeVars
  <2>8. ASSUME NEW o \in Editors, NEW a \in Accounts, ReadVersion(o, a)
        PROVE  UNCHANGED <<version, backup>>
    BY <2>8 DEF ReadVersion
  <2>9. ASSUME Cleanup \/ Shut \/ CancelAll \/ Clear \/ Restart \/ Tick
        PROVE  UNCHANGED <<version, backup>>
    BY <2>9 DEF Cleanup, Shut, CancelAll, Clear, Restart, Tick, storeVars
  <2> QED
    BY <2>1, <2>3, <2>4, <2>5, <2>6, <2>7, <2>8, <2>9 DEF Next, vars
<1> QED BY <1>1, <1>2, Invariance, PTL DEF Spec

(***************************************************************************)
(* What a step may do to one job                                           *)
(***************************************************************************)

(* A job that is no longer in the table. *)
Dropped(j) ==
  j \in DOMAIN jobs \ DOMAIN jobs' =>
    \/ Clear \/ Restart
    \/ /\ jobs[j].result # None => ~(jobs[j].expires > now)
       /\ Active(jobs[j]) => work[j].at \in {"ending", "failing"} /\ work'[j].at = "releasing"

(* A job that is still there. *)
Moved(j) ==
  j \in DOMAIN jobs /\ j \in DOMAIN jobs' =>
    /\ jobs'[j].owner = jobs[j].owner /\ jobs'[j].scope = jobs[j].scope
    /\ \/ jobs'[j].status = jobs[j].status /\ jobs'[j].result = jobs[j].result
       \/ /\ Active(jobs[j])
          /\ jobs[j].status = "cancelling" => jobs'[j].status \in {"cancelled", "failed"}

JobStep(j) ==
  /\ j \in used => j \in used'
  /\ j \in DOMAIN jobs' => j \in DOMAIN jobs \/ j \notin used
  /\ j \notin used /\ j \in used' => j \in DOMAIN jobs' /\ jobs'[j].status = "queued"
  /\ Moved(j)
  /\ Dropped(j)

(* A step that leaves the job alone, or prunes it. *)
Passed(j) ==
  /\ j \in used <=> j \in used'
  /\ j \in DOMAIN jobs' => j \in DOMAIN jobs /\ jobs'[j] = jobs[j]
  /\ Dropped(j)

LEMMA PassedSteps == \A j \in JobIds : Passed(j) => JobStep(j)
BY DEF Passed, JobStep, Moved

LEMMA PruningPasses ==
  ASSUME NEW js \in Pruned(jobs), NEW j \in JobIds,
         j \in used <=> j \in used',
         j \in DOMAIN jobs' <=> j \in DOMAIN js,
         j \in DOMAIN js => jobs'[j] = js[j]
  PROVE  Passed(j)
BY PrunedKeeps DEF Passed, Dropped

LEMMA StartJobStep ==
  ASSUME IInv, NEW o \in Owners, NEW a \in Accounts \cup {None}, Start(o, a)
  PROVE  \A j \in JobIds : JobStep(j)
<1>1. PICK js \in Pruned(jobs), j \in JobIds \ used :
        /\ jobs' = [k \in DOMAIN js \cup {j} |-> IF k = j THEN NewJob(o, a) ELSE js[k]]
        /\ used' = used \cup {j}
  BY DEF Start
<1>2. DOMAIN js \subseteq DOMAIN jobs /\ DOMAIN jobs \subseteq used
  BY PrunedType DEF IInv, TypeOK
<1>3. ASSUME NEW i \in JobIds, i # j PROVE Passed(i)
  BY <1>1, <1>3, PruningPasses
<1>4. JobStep(j)
  BY <1>1, <1>2 DEF JobStep, Moved, Dropped, NewJob
<1> QED BY <1>3, <1>4, PassedSteps

LEMMA CancelJobStep ==
  ASSUME IInv, NEW o \in Owners, NEW j \in JobIds, Cancel(o, j)
  PROVE  \A i \in JobIds : JobStep(i)
<1>1. PICK js \in Pruned(jobs) : jobs' = [js EXCEPT ![j].status = "cancelling"]
  BY DEF Cancel
<1>2. /\ j \in DOMAIN jobs /\ Active(jobs[j]) /\ used' = used
      /\ DOMAIN jobs \subseteq used /\ jobs \in [DOMAIN jobs -> Job]
  BY DEF Cancel, IInv, TypeOK
<1>3. js \in [DOMAIN js -> Job] /\ js[j] = jobs[j] /\ j \in DOMAIN js
  BY <1>2, PrunedType, PrunedKeeps
<1>4. /\ DOMAIN jobs' = DOMAIN js /\ \A i \in DOMAIN js : i # j => jobs'[i] = js[i]
      /\ jobs'[j] = [jobs[j] EXCEPT !.status = "cancelling"]
  BY <1>1, <1>3
<1>5. ASSUME NEW i \in JobIds, i # j PROVE Passed(i)
  BY <1>2, <1>4, <1>5, PruningPasses
<1>6. JobStep(j)
  <2>1. /\ jobs'[j].owner = jobs[j].owner /\ jobs'[j].scope = jobs[j].scope
        /\ jobs'[j].result = jobs[j].result /\ jobs'[j].status = "cancelling"
    BY <1>2, <1>4 DEF Job
  <2> QED BY <1>2, <1>3, <1>4, <2>1 DEF JobStep, Moved, Dropped
<1> QED BY <1>5, <1>6, PassedSteps

LEMMA WorkerJobStep ==
  ASSUME IInv, NEW j \in JobIds, Step(j)
  PROVE  \A i \in JobIds : JobStep(i)
<1>1. /\ used' = used /\ DOMAIN jobs \subseteq used /\ jobs \in [DOMAIN jobs -> Job]
      /\ JobInv(j) /\ work \in [JobIds -> Work]
  BY DEF Step, Launch, Collect, Break, BeginFinal, Finish, Save, Conclude, Fail, Release,
         IInv, TypeOK
<1>2. CASE UNCHANGED jobs
  <2>1. \A i \in JobIds : Passed(i)
    BY <1>1, <1>2 DEF Passed, Dropped
  <2> QED BY <2>1, PassedSteps
<1>3. ASSUME NEW value \in Job, j \in DOMAIN jobs, jobs' = [jobs EXCEPT ![j] = value],
             value.owner = jobs[j].owner, value.scope = jobs[j].scope,
             Active(jobs[j]), value.status = "cancelling" <=> jobs[j].status = "cancelling",
             value.result = jobs[j].result
      PROVE  \A i \in JobIds : JobStep(i)
  <2>1. \A i \in JobIds : i # j => Passed(i)
    BY <1>1, <1>3 DEF Passed, Dropped
  <2>2. JobStep(j)
    BY <1>1, <1>3 DEF JobStep, Moved, Dropped
  <2> QED BY <2>1, <2>2, PassedSteps
<1>4. CASE Launch(j) /\ j \in DOMAIN jobs
  <2> DEFINE value == [jobs[j] EXCEPT !.status = IF @ = "cancelling" THEN @ ELSE "running"]
  <2>1. jobs' = [jobs EXCEPT ![j] = value]
    BY <1>4 DEF Launch
  <2>2. /\ value \in Job /\ value.owner = jobs[j].owner /\ value.scope = jobs[j].scope
        /\ value.status = "cancelling" <=> jobs[j].status = "cancelling"
        /\ value.result = jobs[j].result
    BY <1>1, <1>4 DEF Job, ActiveStatuses
  <2>3. Active(jobs[j])
    BY <1>1, <1>4 DEF Launch, JobInv, Busy
  <2> QED BY <1>3, <1>4, <2>1, <2>2, <2>3
<1>5. CASE BeginFinal(j) /\ j \in DOMAIN jobs
  <2> DEFINE value == [jobs[j] EXCEPT !.finalizing = TRUE]
  <2>1. jobs' = [jobs EXCEPT ![j] = value]
    BY <1>5 DEF BeginFinal
  <2>2. /\ value \in Job /\ value.owner = jobs[j].owner /\ value.scope = jobs[j].scope
        /\ value.status = jobs[j].status /\ value.result = jobs[j].result
    BY <1>1, <1>5 DEF Job
  <2>3. Active(jobs[j])
    BY <1>1, <1>5 DEF BeginFinal, JobInv, Busy
  <2> QED BY <1>3, <1>5, <2>1, <2>2, <2>3
<1>6. CASE Conclude(j) \/ Fail(j)
  <2>1. work[j].at \in {"ending", "failing"} /\ work'[j].at = "releasing"
    BY <1>1, <1>6 DEF Conclude, Fail, Goes, Work
  <2>2. PICK status \in EndStatuses, result \in {None, "partial", "complete"} :
          /\ Ending(j, status, result)
          /\ j \in DOMAIN jobs /\ jobs[j].status = "cancelling" => status \in {"cancelled", "failed"}
    <3>1. CASE Fail(j)
      BY <3>1 DEF Fail, EndStatuses
    <3>2. CASE Conclude(j)
      <4>1. work[j].outcome # None /\ (work[j].outcome = "stopped" => work[j].cancelled)
        BY <1>1, <3>2 DEF Conclude, JobInv, Final
      <4>2. j \in DOMAIN jobs /\ jobs[j].status = "cancelling" => work[j].cancelled
        BY <1>1, <3>2 DEF Conclude, JobInv, Final
      <4> QED BY <1>1, <3>2, <4>1, <4>2, VerdictFact DEF Conclude
    <3> QED BY <1>6, <3>1, <3>2
  <2>3. j \in DOMAIN jobs => Active(jobs[j]) /\ jobs[j].result = None
    BY <1>1, <2>1 DEF JobInv, Busy, Active
  <2>4. \A i \in JobIds : i # j => Passed(i)
    BY <1>1, <2>2, EndingStep DEF Passed, Dropped
  <2>5. JobStep(j)
    BY <1>1, <2>1, <2>2, <2>3, EndingStep DEF JobStep, Moved, Dropped
  <2> QED BY <2>4, <2>5, PassedSteps
<1> QED
  BY <1>2, <1>4, <1>5, <1>6
  DEF Step, Launch, Collect, Break, BeginFinal, Finish, Save, Release

LEMMA EveryStep ==
  ASSUME IInv, [Next]_vars
  PROVE  \A j \in JobIds : JobStep(j)
<1>1. DOMAIN jobs \subseteq used
  BY DEF IInv, TypeOK
<1>2. CASE UNCHANGED <<jobs, used>>
  BY <1>1, <1>2, PassedSteps DEF Passed, Dropped
<1>3. CASE Clear \/ Restart
  BY <1>1, <1>3 DEF Clear, Restart, JobStep, Moved, Dropped
<1>4. CASE Cleanup
  BY <1>4, PruningPasses, PassedSteps DEF Cleanup
<1>5. ASSUME NEW o \in Owners, NEW a \in Accounts \cup {None}, Start(o, a)
      PROVE  \A j \in JobIds : JobStep(j)
  BY <1>5, StartJobStep
<1>6. ASSUME NEW o \in Owners, NEW j \in JobIds, Cancel(o, j)
      PROVE  \A i \in JobIds : JobStep(i)
  BY <1>6, CancelJobStep
<1>7. ASSUME NEW j \in JobIds, Step(j) PROVE \A i \in JobIds : JobStep(i)
  BY <1>7, WorkerJobStep
<1> QED
  BY <1>2, <1>3, <1>4, <1>5, <1>6, <1>7
  DEF Next, ReadVersion, Upload, DeleteBackup, Shut, CancelAll, Tick, jobVars, vars

(* While the service runs nothing forgets a result before its time, and nothing
   but its own worker ends a job. *)
THEOREM Kept == Spec => KeptWhileNeeded
<1> DEFINE Keeps == ~Clear /\ ~Restart =>
             \A j \in DOMAIN jobs \ DOMAIN jobs' :
               /\ jobs[j].result # None => jobs[j].expires <= now
               /\ Active(jobs[j]) => work[j].at \in {"ending", "failing"} /\ work'[j].at = "releasing"
<1>1. IInv /\ [Next]_vars => [Keeps]_vars
  <2> SUFFICES ASSUME IInv, [Next]_vars, ~Clear, ~Restart, NEW j \in DOMAIN jobs \ DOMAIN jobs'
               PROVE  /\ jobs[j].result # None => jobs[j].expires <= now
                      /\ Active(jobs[j]) => /\ work[j].at \in {"ending", "failing"}
                                            /\ work'[j].at = "releasing"
    OBVIOUS
  <2>1. j \in JobIds /\ jobs[j].expires \in Nat /\ now \in Nat
    BY DEF IInv, TypeOK, Job
  <2>2. Dropped(j)
    BY <2>1, EveryStep DEF JobStep
  <2> QED BY <2>1, <2>2 DEF Dropped
<1> QED BY <1>1, Invariance, PTL DEF Spec, KeptWhileNeeded

(* Only a start adds to the table, and only a job without a rival. *)
LEMMA NewJobs ==
  ASSUME IInv, [Next]_vars
  PROVE  \/ DOMAIN jobs' \subseteq DOMAIN jobs
         \/ \E o \in Owners, a \in Accounts \cup {None} : Start(o, a)
<1>1. jobs \in [DOMAIN jobs -> Job]
  BY DEF IInv, TypeOK
<1>2. CASE Cleanup
  BY <1>1, <1>2, PrunedType DEF Cleanup
<1>3. ASSUME NEW o \in Owners, NEW j \in JobIds, Cancel(o, j)
      PROVE  DOMAIN jobs' \subseteq DOMAIN jobs
  BY <1>1, <1>3, PrunedType DEF Cancel
<1>4. ASSUME NEW j \in JobIds, Conclude(j) \/ Fail(j)
      PROVE  DOMAIN jobs' \subseteq DOMAIN jobs
  <2>1. PICK status, result : Ending(j, status, result)
    BY <1>4 DEF Conclude, Fail
  <2>2. CASE j \notin DOMAIN jobs
    BY <2>1, <2>2 DEF Ending
  <2>3. CASE j \in DOMAIN jobs
    <3> DEFINE js == [jobs EXCEPT ![j].status = status, ![j].result = result,
                                  ![j].expires = now + TTL]
    <3>1. jobs' \in Pruned(js) /\ DOMAIN js = DOMAIN jobs
      BY <2>1, <2>3 DEF Ending
    <3> HIDE DEF js
    <3> QED BY <3>1, PrunedKeeps
  <2> QED BY <2>2, <2>3
<1>5. ASSUME NEW j \in JobIds, Step(j) PROVE DOMAIN jobs' \subseteq DOMAIN jobs
  BY <1>4, <1>5 DEF Step, Launch, Collect, Break, BeginFinal, Finish, Save, Release
<1>6. CASE Clear \/ Restart
  BY <1>6 DEF Clear, Restart
<1>7. CASE UNCHANGED jobs
  BY <1>7
<1> QED
  BY <1>2, <1>3, <1>5, <1>6, <1>7
  DEF Next, ReadVersion, Upload, DeleteBackup, Shut, CancelAll, Tick, jobVars, vars

LEMMA NoRival ==
  ASSUME IInv, NEW o, NEW a, Start(o, a)
  PROVE  \E i \in JobIds \ used :
           /\ jobs'[i] = NewJob(o, a)
           /\ DOMAIN jobs' \subseteq DOMAIN jobs \cup {i}
           /\ \A m \in DOMAIN jobs' \ {i} : jobs'[m] = jobs[m] /\ ~Rival(jobs[m], o, a)
<1>1. PICK js \in Pruned(jobs), i \in JobIds \ used :
        /\ \A k \in DOMAIN js : ~Rival(js[k], o, a)
        /\ jobs' = [k \in DOMAIN js \cup {i} |-> IF k = i THEN NewJob(o, a) ELSE js[k]]
  BY DEF Start
<1>2. DOMAIN js \subseteq DOMAIN jobs /\ \A k \in DOMAIN js : js[k] = jobs[k]
  BY PrunedKeeps
<1> QED BY <1>1, <1>2

(* No session and no verified account ever has two collections at a time. *)
THEOREM OneAtATime == Spec => []OneCollection
<1>1. Init => OneCollection
  BY DEF Init, OneCollection
<1>2. IInv /\ IInv' /\ OneCollection /\ [Next]_vars => OneCollection'
  <2> SUFFICES ASSUME IInv, IInv', OneCollection, [Next]_vars,
                      NEW j \in DOMAIN jobs', NEW k \in DOMAIN jobs', j # k,
                      Active(jobs'[j]), Active(jobs'[k])
               PROVE  /\ jobs'[j].owner # jobs'[k].owner
                      /\ jobs'[j].scope = None \/ jobs'[j].scope # jobs'[k].scope
    BY DEF OneCollection, Active
  <2>1. j \in JobIds /\ k \in JobIds /\ DOMAIN jobs \subseteq used
    BY DEF IInv, TypeOK
  <2>2. CASE DOMAIN jobs' \subseteq DOMAIN jobs
    <3>1. JobStep(j) /\ JobStep(k)
      BY <2>1, EveryStep
    <3>2. Active(jobs[j]) /\ Active(jobs[k])
      BY <2>2, <3>1 DEF JobStep, Moved, Active
    <3>3. /\ jobs'[j].owner = jobs[j].owner /\ jobs'[j].scope = jobs[j].scope
          /\ jobs'[k].owner = jobs[k].owner /\ jobs'[k].scope = jobs[k].scope
      BY <2>2, <3>1 DEF JobStep, Moved
    <3> QED BY <2>2, <3>2, <3>3 DEF OneCollection
  <2>3. ASSUME NEW o \in Owners, NEW a \in Accounts \cup {None}, Start(o, a)
        PROVE  /\ jobs'[j].owner # jobs'[k].owner
               /\ jobs'[j].scope = None \/ jobs'[j].scope # jobs'[k].scope
    <3>1. PICK i \in JobIds \ used :
            /\ jobs'[i] = NewJob(o, a)
            /\ DOMAIN jobs' \subseteq DOMAIN jobs \cup {i}
            /\ \A m \in DOMAIN jobs' \ {i} : jobs'[m] = jobs[m] /\ ~Rival(jobs[m], o, a)
      BY <2>3, NoRival
    <3>2. jobs'[i].owner = o /\ jobs'[i].scope = a
      BY <3>1 DEF NewJob
    <3>3. CASE j # i /\ k # i
      <4>1. jobs'[j] = jobs[j] /\ jobs'[k] = jobs[k] /\ j \in DOMAIN jobs /\ k \in DOMAIN jobs
        BY <3>1, <3>3
      <4>2. Active(jobs[j]) /\ Active(jobs[k])
        BY <4>1
      <4> QED BY <4>1, <4>2 DEF OneCollection
    <3>4. CASE j = i \/ k = i
      BY <3>1, <3>2, <3>4 DEF Rival
    <3> QED BY <3>3, <3>4
  <2> QED BY <2>2, <2>3, NewJobs
<1> QED BY <1>1, <1>2, Invariance, PTL DEF Spec

(***************************************************************************)
(* The life of a collection                                                *)
(***************************************************************************)
LEMMA LifeStep ==
  ASSUME IInv, IInv', NEW j \in JobIds, JobStep(j)
  PROVE  Life'[j] = Life[j] \/ Life'[j] \in Lifecycle!Follows(Life[j])
<1> USE DEF Lifecycle!Follows, Lifecycle!Ended
<1>1. /\ DOMAIN jobs \subseteq used /\ jobs \in [DOMAIN jobs -> Job]
      /\ DOMAIN jobs' \subseteq used' /\ jobs' \in [DOMAIN jobs' -> Job]
  BY DEF IInv, TypeOK
<1>2. CASE j \notin used
  <2>1. Life[j] = "new"
    BY <1>2 DEF Life
  <2>2. CASE j \in used'
    BY <2>1, <2>2, <1>2 DEF Life, JobStep, Active, ActiveStatuses
  <2>3. CASE j \notin used'
    BY <2>1, <2>3 DEF Life
  <2> QED BY <2>2, <2>3
<1>3. CASE j \in used /\ j \notin DOMAIN jobs
  BY <1>3 DEF Life, JobStep
<1>4. CASE j \in DOMAIN jobs /\ j \notin DOMAIN jobs'
  <2>1. Life'[j] = "gone"
    BY <1>1, <1>4 DEF Life, JobStep
  <2>2. Life[j] \in {"active", "stopping"} \cup EndStatuses
    BY <1>1, <1>4 DEF Life, Job, Active, ActiveStatuses, EndStatuses
  <2> QED BY <2>1, <2>2 DEF EndStatuses
<1>5. CASE j \in DOMAIN jobs /\ j \in DOMAIN jobs'
  <2> DEFINE Seen(job) == IF job.status = "cancelling" THEN "stopping"
                          ELSE IF Active(job) THEN "active" ELSE job.status
  <2>1. Life[j] = Seen(jobs[j]) /\ Life'[j] = Seen(jobs'[j])
    BY <1>1, <1>5 DEF Life, Active
  <2>2. jobs[j].status \in ActiveStatuses \cup EndStatuses
        /\ jobs'[j].status \in ActiveStatuses \cup EndStatuses
    BY <1>1, <1>5 DEF Job
  <2>3. CASE jobs'[j].status = jobs[j].status
    BY <2>1, <2>3 DEF Active
  <2>4. CASE Active(jobs[j]) /\ (jobs[j].status = "cancelling" =>
                                   jobs'[j].status \in {"cancelled", "failed"})
    BY <2>1, <2>2, <2>4 DEF Active, ActiveStatuses, EndStatuses
  <2> QED BY <1>5, <2>3, <2>4 DEF JobStep, Moved
<1> QED BY <1>1, <1>2, <1>3, <1>4, <1>5

(* Whatever workers, shutdowns, restarts and pruning do, a session sees the life
   of a collection: outcomes do not change, and a stop is not taken back. *)
THEOREM Refinement == Spec => ImplementsLifecycle
<1>1. Init => Lifecycle!Init
  BY DEF Init, Life, Lifecycle!Init
<1>2. IInv /\ IInv' /\ [Next]_vars => [Lifecycle!Next]_Life
  <2> SUFFICES ASSUME IInv, IInv', [Next]_vars PROVE Lifecycle!Next
    OBVIOUS
  <2>1. Life' \in [JobIds -> Lifecycle!Lives]
    <3>1. /\ DOMAIN jobs' \subseteq used' /\ jobs' \in [DOMAIN jobs' -> Job]
      BY DEF IInv, TypeOK
    <3> QED BY <3>1 DEF Life, Lifecycle!Lives, Lifecycle!Ended, Job, Active,
              ActiveStatuses, EndStatuses
  <2>2. \A j \in JobIds : Life'[j] = Life[j] \/ Life'[j] \in Lifecycle!Follows(Life[j])
    BY EveryStep, LifeStep
  <2> QED BY <2>1, <2>2 DEF Lifecycle!Next
<1> QED
  BY <1>1, <1>2, Invariance, PTL DEF Spec, ImplementsLifecycle, Lifecycle!Spec

(***************************************************************************)
(* Bounded memory                                                          *)
(***************************************************************************)
Ghosts(js) == {j \in DOMAIN js : Spent(js[j])}

LEMMA Smaller ==
  ASSUME NEW S \in SUBSET JobIds, NEW T \in SUBSET JobIds, S \subseteq T, NEW n \in Nat,
         Cardinality(T) <= n
  PROVE  Cardinality(S) <= n
<1>1. IsFiniteSet(T) /\ IsFiniteSet(S) /\ Cardinality(S) \in Nat /\ Cardinality(T) \in Nat
  BY HeldFinite
<1>2. Cardinality(S) <= Cardinality(T)
  BY <1>1, FS_Subset
<1> QED BY <1>1, <1>2

LEMMA PrunedGhosts ==
  ASSUME NEW js, NEW new \in Pruned(js)
  PROVE  Cardinality(Ghosts(new)) <= MaxTerminal
<1>1. PICK gone \in Excess(js) : new = Only(js, Live(js) \ gone)
  BY DEF Pruned
<1>2. Ghosts(new) = {j \in Live(js) : Spent(js[j])} \ gone
  BY <1>1 DEF Only, Ghosts
<1> QED BY <1>1, <1>2 DEF Excess

LEMMA GhostStep ==
  ASSUME IInv, IInv', [Next]_vars, Cardinality(Ghosts(jobs)) <= MaxTerminal
  PROVE  Cardinality(Ghosts(jobs')) <= MaxTerminal
<1> USE JobsAssumption
<1>1. /\ jobs \in [DOMAIN jobs -> Job] /\ DOMAIN jobs \subseteq JobIds
      /\ jobs' \in [DOMAIN jobs' -> Job] /\ DOMAIN jobs' \subseteq JobIds
  BY DEF IInv, TypeOK
<1>2. ASSUME Ghosts(jobs') \subseteq Ghosts(jobs) PROVE Cardinality(Ghosts(jobs')) <= MaxTerminal
  BY <1>1, <1>2, Smaller DEF Ghosts
<1>3. ASSUME NEW js \in Pruned(jobs), Ghosts(jobs') \subseteq Ghosts(js)
      PROVE  Cardinality(Ghosts(jobs')) <= MaxTerminal
  <2>1. DOMAIN js \subseteq JobIds
    BY <1>1, PrunedKeeps
  <2>2. Ghosts(js) \subseteq JobIds /\ Ghosts(jobs') \subseteq JobIds
    BY <1>1, <2>1 DEF Ghosts
  <2>3. Cardinality(Ghosts(js)) <= MaxTerminal
    BY PrunedGhosts
  <2> QED BY <1>3, <2>2, <2>3, Smaller
<1>4. ASSUME NEW o, NEW a, Start(o, a) PROVE Cardinality(Ghosts(jobs')) <= MaxTerminal
  <2>1. PICK js \in Pruned(jobs), j \in JobIds \ used :
          jobs' = [k \in DOMAIN js \cup {j} |-> IF k = j THEN NewJob(o, a) ELSE js[k]]
    BY <1>4 DEF Start
  <2>2. ~Spent(NewJob(o, a))
    BY DEF Spent, NewJob, Active, ActiveStatuses
  <2>3. Ghosts(jobs') \subseteq Ghosts(js)
    BY <2>1, <2>2 DEF Ghosts
  <2> QED BY <1>3, <2>3
<1>5. ASSUME NEW o, NEW j \in JobIds, Cancel(o, j)
      PROVE  Cardinality(Ghosts(jobs')) <= MaxTerminal
  <2>1. PICK js \in Pruned(jobs) : jobs' = [js EXCEPT ![j].status = "cancelling"]
    BY <1>5 DEF Cancel
  <2>2. js \in [DOMAIN js -> Job]
    BY <1>1, PrunedType
  <2>3. \A i \in DOMAIN jobs' : i \in DOMAIN js /\ (i # j => jobs'[i] = js[i])
    BY <2>1, <2>2
  <2>4. j \in DOMAIN jobs' => ~Spent(jobs'[j])
    <3>1. j \in DOMAIN js => jobs'[j].status = "cancelling"
      BY <2>1, <2>2 DEF Job
    <3> QED BY <2>3, <3>1 DEF Spent, Active, ActiveStatuses
  <2>5. Ghosts(jobs') \subseteq Ghosts(js)
    BY <2>3, <2>4 DEF Ghosts
  <2> QED BY <1>3, <2>5
<1>6. ASSUME NEW j \in JobIds, Step(j) PROVE Cardinality(Ghosts(jobs')) <= MaxTerminal
  <2>1. CASE Conclude(j) \/ Fail(j)
    <3>1. PICK status, result : Ending(j, status, result)
      BY <2>1 DEF Conclude, Fail
    <3>2. UNCHANGED jobs \/ \E js : jobs' \in Pruned(js)
      BY <3>1 DEF Ending
    <3> QED BY <1>2, <3>2, PrunedGhosts
  <2>2. CASE UNCHANGED jobs
    BY <1>2, <2>2
  <2>3. CASE j \in DOMAIN jobs /\ (Launch(j) \/ BeginFinal(j))
    <3>1. Active(jobs[j]) /\ DOMAIN jobs' = DOMAIN jobs
          /\ \A i \in DOMAIN jobs : i # j => jobs'[i] = jobs[i]
      BY <1>1, <2>3 DEF Launch, BeginFinal, IInv, JobInv, Busy
    <3>2. Active(jobs'[j])
      BY <1>1, <2>3, <3>1 DEF Launch, BeginFinal, Active, ActiveStatuses, Job
    <3>3. Ghosts(jobs') \subseteq Ghosts(jobs)
      BY <3>1, <3>2 DEF Ghosts, Spent
    <3> QED BY <1>2, <3>3
  <2> QED
    BY <1>6, <2>1, <2>2, <2>3
    DEF Step, Launch, Collect, Break, BeginFinal, Finish, Save, Release
<1>7. CASE Clear \/ Restart
  BY <1>2, <1>7 DEF Clear, Restart, Ghosts
<1>8. CASE Cleanup
  BY <1>8, PrunedGhosts DEF Cleanup
<1>9. CASE UNCHANGED jobs
  BY <1>2, <1>9
<1> QED
  BY <1>4, <1>5, <1>6, <1>7, <1>8, <1>9
  DEF Next, ReadVersion, Upload, DeleteBackup, Shut, CancelAll, Tick, jobVars, vars

LEMMA RoomStep ==
  ASSUME IInv, IInv', [Next]_vars, Cardinality(Occupied(jobs)) <= MaxRetained
  PROVE  Cardinality(Occupied(jobs')) <= MaxRetained
<1> USE JobsAssumption
<1>1. DOMAIN jobs \subseteq JobIds /\ DOMAIN jobs' \subseteq JobIds
  BY DEF IInv, TypeOK
<1>2. CASE DOMAIN jobs' \subseteq DOMAIN jobs
  <2>1. \A j \in DOMAIN jobs' : JobStep(j)
    BY <1>1, EveryStep
  <2>2. Occupied(jobs') \subseteq Occupied(jobs)
    BY <1>2, <2>1 DEF Occupied, JobStep, Moved, Active
  <2> QED BY <1>1, <2>2, Smaller DEF Occupied
<1>3. ASSUME NEW o, NEW a, Start(o, a) PROVE Cardinality(Occupied(jobs')) <= MaxRetained
  <2>1. PICK js \in Pruned(jobs), j \in JobIds \ used :
          /\ Cardinality(Occupied(js)) < MaxRetained
          /\ jobs' = [k \in DOMAIN js \cup {j} |-> IF k = j THEN NewJob(o, a) ELSE js[k]]
    BY <1>3 DEF Start
  <2>2. DOMAIN js \subseteq JobIds
    BY <1>1, PrunedKeeps
  <2>3. Occupied(jobs') \subseteq Occupied(js) \cup {j} /\ Occupied(js) \subseteq JobIds
    BY <2>1, <2>2 DEF Occupied
  <2>4. IsFiniteSet(Occupied(js)) /\ Cardinality(Occupied(js)) \in Nat
    BY <2>3, HeldFinite
  <2>5. Cardinality(Occupied(js) \cup {j}) <= Cardinality(Occupied(js)) + 1
        /\ Cardinality(Occupied(js) \cup {j}) \in Nat
    BY <2>3, <2>4, FS_AddElement, HeldFinite
  <2>6. Cardinality(Occupied(js) \cup {j}) <= MaxRetained
    BY <2>1, <2>4, <2>5
  <2> QED BY <2>3, <2>6, <1>1, Smaller DEF Occupied
<1> QED BY <1>2, <1>3, NewJobs

(* The table never holds more active jobs and results, nor more statuses of
   ended jobs, than the limits. *)
THEOREM MemoryBounded == Spec => []Bounded
<1> DEFINE B == Cardinality(Ghosts(jobs)) <= MaxTerminal /\ Cardinality(Occupied(jobs)) <= MaxRetained
<1>1. Init => B
  <2> SUFFICES ASSUME Init PROVE B
    OBVIOUS
  <2>1. Ghosts(jobs) = {} /\ Occupied(jobs) = {}
    BY DEF Init, Ghosts, Occupied
  <2> QED BY <2>1, FS_EmptySet, JobsAssumption
<1>2. IInv /\ IInv' /\ B /\ [Next]_vars => B'
  BY GhostStep, RoomStep
<1>3. B <=> Bounded
  BY DEF Bounded, Ghosts, Occupied
<1> QED BY <1>1, <1>2, <1>3, Invariance, PTL DEF Spec

=============================================================================
