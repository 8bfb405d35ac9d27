--------------------------- MODULE LocalJobsProofs ---------------------------
(***************************************************************************)
(* The local backend keeps its promises about jobs, stops, imports and     *)
(* accounts for any number of jobs, profiles and accounts, whenever its    *)
(* process dies, and its jobs live the life of a collection.               *)
(***************************************************************************)
EXTENDS LocalJobs, TLAPS

Saving == {"finishing", "importing", "ending", "failing"}
Busy == {"created", "unstarted", "new", "opening", "collecting", "collected"} \cup Saving

Stored(j, e) == [from |-> j, export |-> e] \in snapshots[jobs[j].profile]

(* What a thread carries from step to step. *)
WorkInv(j) ==
  /\ work[j].at \in Saving => (work[j].cancelled <=> event[j] = "set")
  /\ work[j].at \in Busy \ {"ending", "failing"} => work[j].imported = None
  /\ work[j].at \in {"collecting", "importing"} => export[j] # None
  /\ work[j].at = "collected" /\ ~work[j].failed =>
       export[j] # None /\ (export[j].complete \/ event[j] = "set")
  /\ work[j].at = "finishing" /\ ~work[j].failed =>
       export[j] # None /\ (export[j].complete \/ work[j].cancelled)
  /\ work[j].at = "importing" =>
       /\ work[j].cancelled => ~export[j].complete
       /\ ~work[j].failed /\ ~work[j].cancelled => export[j].complete
  /\ work[j].at = "ending" =>
       /\ work[j].cancelled => work[j].imported = None \/ ~work[j].imported.complete
       /\ ~work[j].failed /\ ~work[j].cancelled =>
            work[j].imported # None /\ work[j].imported.complete
       /\ work[j].imported # None => Stored(j, work[j].imported)

(* How the job table, the events and the threads agree. *)
TableInv(j) ==
  /\ ~up => work[j] = NoWork
  /\ j \notin DOMAIN jobs => work[j] = NoWork /\ export[j] = None
  /\ work[j].at \in {"done", "unstarted"} => event[j] = None
  /\ j \in finalizing <=> work[j].at \in Saving \cup {"releasing"}
  /\ j \in DOMAIN jobs =>
       /\ up => (Active(jobs[j]) <=> work[j].at \in Busy)
       /\ jobs[j].status = "cancelling" /\ work[j].at \in Busy \ {"unstarted"} =>
            event[j] = "set"
       /\ event[j] = "set" /\ ~Active(jobs[j]) => jobs[j].status \in {"cancelled", "failed"}
       /\ jobs[j].status = "cancelled" => jobs[j].import = None \/ ~jobs[j].import.complete
       /\ jobs[j].status = "completed" => jobs[j].import # None /\ jobs[j].import.complete
       /\ jobs[j].import # None => Stored(j, jobs[j].import)

JobInv(j) == WorkInv(j) /\ TableInv(j)

(* Snapshots come from jobs of the account of their profile. *)
SnapInv ==
  \A p \in Profiles : \A s \in snapshots[p] :
    s.from \in DOMAIN jobs /\ jobs[s.from].account = ident[p]

IInv == TypeOK /\ SnapInv /\ \A j \in JobIds : JobInv(j)

(***************************************************************************)
(* Types                                                                   *)
(***************************************************************************)
LEMMA TypeFacts ==
  ASSUME TypeOK
  PROVE  /\ NoWork \in Work
         /\ \A j \in JobIds : work[j] \in Work /\ export[j] \in Export \cup {None}
         /\ \A j \in DOMAIN jobs :
              j \in JobIds /\ jobs[j] \in Job /\ jobs[j].profile \in Profiles
BY DEF TypeOK, NoWork, Work, Job

LEMMA ExportIsNotNone == None \notin Export
BY LocalAssumption DEF Export

(* The jobs that a step does not touch. *)
LEMMA Untouched ==
  ASSUME IInv, NEW j \in JobIds,
         work'[j] = work[j], event'[j] = event[j], export'[j] = export[j],
         j \in finalizing' <=> j \in finalizing, up' = up,
         j \in DOMAIN jobs' <=> j \in DOMAIN jobs,
         j \in DOMAIN jobs => jobs'[j] = jobs[j],
         \A p \in Profiles : snapshots[p] \subseteq snapshots'[p]
  PROVE  JobInv(j)'
<1>1. JobInv(j) /\ TypeOK
  BY DEF IInv
<1>2. j \in DOMAIN jobs => jobs[j].profile \in Profiles
  BY <1>1, TypeFacts
<1>3. \A e : j \in DOMAIN jobs /\ Stored(j, e) => Stored(j, e)'
  BY <1>2 DEF Stored
<1>4. work[j].at = "ending" => j \in DOMAIN jobs
  BY <1>1 DEF JobInv, TableInv, NoWork
<1>5. WorkInv(j)'
  BY <1>1, <1>3, <1>4 DEF JobInv, WorkInv
<1>6. TableInv(j)'
  BY <1>1, <1>3 DEF JobInv, TableInv, Active
<1> QED
  BY <1>5, <1>6 DEF JobInv

LEMMA InitHolds == Init => IInv
<1> SUFFICES ASSUME Init PROVE IInv
  OBVIOUS
<1>1. TypeOK
  BY DEF Init, TypeOK, NoWork, Work
<1>2. SnapInv
  BY DEF Init, SnapInv
<1>3. ASSUME NEW j \in JobIds PROVE JobInv(j)
  BY DEF Init, JobInv, WorkInv, TableInv, NoWork, Saving, Busy
<1> QED
  BY <1>1, <1>2, <1>3 DEF IInv

(***************************************************************************)
(* Requests, crash and restart                                             *)
(***************************************************************************)
LEMMA StartKeeps ==
  ASSUME IInv, NEW p \in Profiles, NEW a \in Accounts, Start(p, a)
  PROVE  IInv'
<1>1. TypeOK /\ SnapInv
  BY DEF IInv
<1>2. PICK j \in JobIds \ DOMAIN jobs :
        /\ jobs' = [k \in DOMAIN jobs \cup {j} |->
             IF k = j THEN [profile |-> p, account |-> a, status |-> "queued", import |-> None]
             ELSE jobs[k]]
        /\ event' = [event EXCEPT ![j] = "clear"]
        /\ work' = [work EXCEPT ![j].at = "created"]
  BY DEF Start
<1>3. /\ ident[p] \in {None, a} /\ ident' = [ident EXCEPT ![p] = a] /\ up
      /\ UNCHANGED <<snapshots, export, finalizing, up>>
  BY DEF Start, Binds
<1>4. JobInv(j)
  BY DEF IInv
<1>5. work[j] = NoWork /\ export[j] = None /\ j \notin finalizing
  BY <1>2, <1>4 DEF JobInv, TableInv, NoWork, Saving
<1>6. work'[j] = [NoWork EXCEPT !.at = "created"] /\ event'[j] = "clear"
  BY <1>1, <1>2, <1>5 DEF TypeOK
<1>7. /\ DOMAIN jobs' = DOMAIN jobs \cup {j}
      /\ jobs'[j] = [profile |-> p, account |-> a, status |-> "queued", import |-> None]
      /\ \A k \in DOMAIN jobs : jobs'[k] = jobs[k]
  BY <1>2
<1>8. TypeOK'
  <2>1. jobs' \in [DOMAIN jobs' -> Job]
    <3>1. [profile |-> p, account |-> a, status |-> "queued", import |-> None] \in Job
      BY DEF Job, ActiveStatuses
    <3> QED BY <1>1, <1>2, <1>7, <3>1 DEF TypeOK
  <2>2. work' \in [JobIds -> Work]
    <3>1. [NoWork EXCEPT !.at = "created"] \in Work BY DEF NoWork, Work
    <3>2. work' = [work EXCEPT ![j] = [NoWork EXCEPT !.at = "created"]]
      BY <1>1, <1>2, <1>5 DEF TypeOK
    <3> QED BY <1>1, <3>1, <3>2 DEF TypeOK
  <2> QED BY <1>1, <1>2, <1>3, <1>7, <2>1, <2>2 DEF TypeOK
<1>9. SnapInv'
  <2> SUFFICES ASSUME NEW q \in Profiles, NEW s \in snapshots[q]
               PROVE  s.from \in DOMAIN jobs' /\ jobs'[s.from].account = ident'[q]
    BY <1>3 DEF SnapInv
  <2>1. s.from \in DOMAIN jobs /\ jobs[s.from].account = ident[q]
    BY <1>1 DEF SnapInv
  <2>2. jobs[s.from].account \in Accounts
    BY <1>1, <2>1 DEF TypeOK, Job
  <2>3. ident'[q] = ident[q]
    BY <1>1, <1>3, <2>1, <2>2, LocalAssumption DEF TypeOK
  <2> QED BY <1>7, <2>1, <2>3
<1>10. JobInv(j)'
  <2>1. WorkInv(j)'
    BY <1>6 DEF WorkInv, NoWork, Saving, Busy
  <2>2. TableInv(j)'
    BY <1>3, <1>5, <1>6, <1>7 DEF TableInv, NoWork, Saving, Busy, Active, ActiveStatuses
  <2> QED BY <2>1, <2>2 DEF JobInv
<1>11. ASSUME NEW k \in JobIds, k # j PROVE JobInv(k)'
  <2>1. work'[k] = work[k] /\ event'[k] = event[k]
    BY <1>1, <1>2, <1>11 DEF TypeOK
  <2> QED BY <1>3, <1>7, <1>11, <2>1, Untouched
<1> QED
  BY <1>8, <1>9, <1>10, <1>11 DEF IInv

LEMMA CancelKeeps ==
  ASSUME IInv, NEW j \in JobIds, Cancel(j)
  PROVE  IInv'
<1>1. TypeOK /\ SnapInv /\ JobInv(j) /\ j \in DOMAIN jobs /\ Active(jobs[j])
  BY DEF IInv, Cancel
<1>2. /\ jobs' = [jobs EXCEPT ![j].status = "cancelling"]
      /\ event' = [event EXCEPT ![j] = "set"]
      /\ event[j] # None /\ j \notin finalizing /\ up
      /\ UNCHANGED <<snapshots, ident, export, work, finalizing, up>>
  BY DEF Cancel
<1>3. /\ DOMAIN jobs' = DOMAIN jobs
      /\ jobs'[j] = [jobs[j] EXCEPT !.status = "cancelling"]
      /\ \A k \in DOMAIN jobs : k # j => jobs'[k] = jobs[k]
      /\ event'[j] = "set"
  BY <1>1, <1>2 DEF TypeOK
<1>4. /\ jobs'[j] \in Job /\ jobs'[j].status = "cancelling"
      /\ jobs'[j].profile = jobs[j].profile /\ jobs'[j].account = jobs[j].account
      /\ jobs'[j].import = jobs[j].import
  BY <1>1, <1>3, TypeFacts DEF Job, ActiveStatuses
<1>5. TypeOK'
  BY <1>1, <1>2, <1>3, <1>4 DEF TypeOK
<1>6. SnapInv'
  BY <1>1, <1>2, <1>3, <1>4 DEF SnapInv
<1>7. JobInv(j)'
  <2>1. WorkInv(j)'
    BY <1>1, <1>2, <1>3, <1>4 DEF JobInv, WorkInv, TableInv, Saving, Stored
  <2>2. TableInv(j)'
    BY <1>1, <1>2, <1>3, <1>4 DEF JobInv, TableInv, Stored, Active, ActiveStatuses
  <2> QED BY <2>1, <2>2 DEF JobInv
<1>8. ASSUME NEW k \in JobIds, k # j PROVE JobInv(k)'
  BY <1>1, <1>2, <1>3, <1>8, Untouched DEF TypeOK
<1> QED
  BY <1>5, <1>6, <1>7, <1>8 DEF IInv

(* What an import, by a thread or from files, does to the profile. *)
LEMMA ImportsKeep ==
  ASSUME TypeOK, SnapInv, NEW p \in Profiles, NEW j \in DOMAIN jobs, export[j] # None,
         Imports(p, j), UNCHANGED jobs
  PROVE  /\ ident' \in [Profiles -> Accounts \cup {None}]
         /\ snapshots' \in [Profiles -> SUBSET Snapshot]
         /\ SnapInv'
         /\ [from |-> j, export |-> export[j]] \in snapshots'[p]
         /\ \A q \in Profiles : snapshots[q] \subseteq snapshots'[q]
<1> DEFINE new == [from |-> j, export |-> export[j]]
<1>1. /\ ident[p] \in {None, jobs[j].account}
      /\ ident' = [ident EXCEPT ![p] = jobs[j].account]
      /\ snapshots' = [snapshots EXCEPT ![p] = @ \cup {new}]
  BY DEF Imports, Binds
<1>2. jobs[j].account \in Accounts /\ new \in Snapshot
  BY TypeFacts DEF Job, Snapshot
<1>3. /\ ident' \in [Profiles -> Accounts \cup {None}] /\ ident'[p] = jobs[j].account
      /\ \A q \in Profiles : q # p => ident'[q] = ident[q]
  BY <1>1, <1>2 DEF TypeOK
<1>4. /\ snapshots' \in [Profiles -> SUBSET Snapshot]
      /\ snapshots'[p] = snapshots[p] \cup {new}
      /\ \A q \in Profiles : q # p => snapshots'[q] = snapshots[q]
  BY <1>1, <1>2 DEF TypeOK
<1>5. SnapInv'
  <2> SUFFICES ASSUME NEW q \in Profiles, NEW s \in snapshots'[q]
               PROVE  s.from \in DOMAIN jobs /\ jobs[s.from].account = ident'[q]
    BY DEF SnapInv
  <2>1. CASE s \in snapshots[q]
    <3>1. s.from \in DOMAIN jobs /\ jobs[s.from].account = ident[q]
      BY <2>1 DEF SnapInv
    <3>2. jobs[s.from].account \in Accounts
      BY <3>1, TypeFacts DEF Job
    <3> QED BY <1>1, <1>3, <3>1, <3>2, LocalAssumption
  <2>2. CASE s \notin snapshots[q]
    <3>1. q = p /\ s = new
      BY <1>4, <2>2
    <3> QED BY <1>3, <3>1
  <2> QED BY <2>1, <2>2
<1> QED
  BY <1>3, <1>4, <1>5

LEMMA ImportFilesKeeps ==
  ASSUME IInv, NEW p \in Profiles, NEW j \in JobIds, ImportFiles(p, j)
  PROVE  IInv'
<1>1. TypeOK /\ SnapInv /\ JobInv(j)
  BY DEF IInv
<1>2. export[j] # None /\ Imports(p, j) /\ UNCHANGED <<jobs, export, work, event, finalizing, up>>
  BY DEF ImportFiles
<1>3. j \in DOMAIN jobs
  BY <1>1, <1>2 DEF JobInv, TableInv
<1>4. /\ ident' \in [Profiles -> Accounts \cup {None}]
      /\ snapshots' \in [Profiles -> SUBSET Snapshot]
      /\ SnapInv'
      /\ \A q \in Profiles : snapshots[q] \subseteq snapshots'[q]
  BY <1>1, <1>2, <1>3, ImportsKeep
<1>5. TypeOK'
  BY <1>1, <1>2, <1>4 DEF TypeOK
<1>6. ASSUME NEW k \in JobIds PROVE JobInv(k)'
  BY <1>2, <1>4, Untouched
<1> QED
  BY <1>4, <1>5, <1>6 DEF IInv

LEMMA CrashKeeps == IInv /\ Crash => IInv'
<1> SUFFICES ASSUME IInv, Crash PROVE IInv'
  OBVIOUS
<1>1. TypeOK /\ SnapInv
  BY DEF IInv
<1>2. /\ work' = [j \in JobIds |-> NoWork] /\ event' = [j \in JobIds |-> None]
      /\ finalizing' = {} /\ up' = FALSE /\ UNCHANGED <<jobs, snapshots, ident, export>>
  BY DEF Crash, durable
<1>3. TypeOK'
  BY <1>1, <1>2, TypeFacts DEF TypeOK
<1>4. SnapInv'
  BY <1>1, <1>2 DEF SnapInv
<1>5. ASSUME NEW j \in JobIds PROVE JobInv(j)'
  <2>1. JobInv(j) BY DEF IInv
  <2>2. work'[j] = NoWork /\ event'[j] = None BY <1>2
  <2>3. WorkInv(j)'
    BY <2>2 DEF WorkInv, NoWork, Saving, Busy
  <2>4. TableInv(j)'
    BY <1>2, <2>1, <2>2, LocalAssumption
    DEF JobInv, TableInv, Stored, NoWork, Saving, Busy
  <2> QED BY <2>3, <2>4 DEF JobInv
<1> QED
  BY <1>3, <1>4, <1>5 DEF IInv

LEMMA RestartKeeps == IInv /\ Restart => IInv'
<1> SUFFICES ASSUME IInv, Restart PROVE IInv'
  OBVIOUS
<1>1. TypeOK /\ SnapInv
  BY DEF IInv
<1>2. /\ jobs' = [j \in DOMAIN jobs |->
           IF Active(jobs[j]) THEN [jobs[j] EXCEPT !.status = "interrupted"] ELSE jobs[j]]
      /\ ~up /\ up' = TRUE
      /\ UNCHANGED <<snapshots, ident, export, work, event, finalizing>>
  BY DEF Restart
<1>3. /\ DOMAIN jobs' = DOMAIN jobs
      /\ \A j \in DOMAIN jobs :
           /\ jobs'[j] \in Job /\ ~Active(jobs'[j])
           /\ jobs'[j].status \in {"interrupted", jobs[j].status}
           /\ jobs'[j].profile = jobs[j].profile /\ jobs'[j].account = jobs[j].account
           /\ jobs'[j].import = jobs[j].import
  BY <1>1, <1>2, TypeFacts DEF Job, Active, ActiveStatuses, EndStatuses
<1>4. TypeOK'
  <2>1. jobs' \in [DOMAIN jobs' -> Job] BY <1>2, <1>3
  <2> QED BY <1>1, <1>2, <1>3, <2>1 DEF TypeOK
<1>5. SnapInv'
  BY <1>1, <1>2, <1>3 DEF SnapInv
<1>6. ASSUME NEW j \in JobIds PROVE JobInv(j)'
  <2>1. JobInv(j) BY DEF IInv
  <2>2. work[j] = NoWork /\ event[j] = None
    BY <1>2, <2>1 DEF JobInv, TableInv, NoWork
  <2>3. WorkInv(j)'
    BY <1>2, <2>2 DEF WorkInv, NoWork, Saving, Busy
  <2>4. TableInv(j)'
    BY <1>2, <1>3, <2>1, <2>2, LocalAssumption
    DEF JobInv, TableInv, Stored, NoWork, Saving, Busy
  <2> QED BY <2>3, <2>4 DEF JobInv
<1> QED
  BY <1>4, <1>5, <1>6 DEF IInv

(***************************************************************************)
(* Threads                                                                 *)
(***************************************************************************)
LEMMA Running ==
  ASSUME IInv, NEW j \in JobIds, work[j].at # "done"
  PROVE  /\ TypeOK /\ JobInv(j) /\ up /\ j \in DOMAIN jobs
         /\ work[j] \in Work /\ jobs[j] \in Job /\ export[j] \in Export \cup {None}
BY TypeFacts DEF IInv, JobInv, TableInv, NoWork

(* A step of one thread leaves every other job alone. *)
LEMMA ThreadStep ==
  ASSUME IInv, NEW j \in JobIds, TypeOK', JobInv(j)',
         DOMAIN jobs' = DOMAIN jobs,
         \A k \in DOMAIN jobs :
           jobs'[k].profile = jobs[k].profile /\ jobs'[k].account = jobs[k].account,
         \A k \in JobIds \ {j} :
           /\ work'[k] = work[k] /\ event'[k] = event[k] /\ export'[k] = export[k]
           /\ k \in finalizing' <=> k \in finalizing
           /\ k \in DOMAIN jobs => jobs'[k] = jobs[k],
         UNCHANGED <<snapshots, ident, up>>
  PROVE  IInv'
<1>1. SnapInv'
  BY DEF IInv, SnapInv
<1>2. ASSUME NEW k \in JobIds, k # j PROVE JobInv(k)'
  BY <1>2, Untouched
<1> QED
  BY <1>1, <1>2 DEF IInv

(* A step that only moves the thread. *)
LEMMA GoesKeeps ==
  ASSUME IInv, NEW j \in JobIds, NEW to, Goes(j, to), [work[j] EXCEPT !.at = to] \in Work,
         UNCHANGED <<durable, finalizing, up>>,
         event' \in [JobIds -> {None, "clear", "set"}],
         \A k \in JobIds \ {j} : event'[k] = event[k],
         work'[j] = [work[j] EXCEPT !.at = to] => JobInv(j)'
  PROVE  IInv'
<1>1. TypeOK
  BY DEF IInv
<1>2. /\ work' = [work EXCEPT ![j] = [work[j] EXCEPT !.at = to]]
      /\ UNCHANGED <<jobs, snapshots, ident, export>>
  BY <1>1 DEF Goes, durable, TypeOK
<1>3. work'[j] = [work[j] EXCEPT !.at = to]
  BY <1>1, <1>2 DEF TypeOK
<1>4. \A k \in JobIds \ {j} : work'[k] = work[k]
  BY <1>1, <1>2 DEF TypeOK
<1>5. TypeOK'
  BY <1>1, <1>2 DEF TypeOK
<1> QED
  BY <1>2, <1>3, <1>4, <1>5, ThreadStep

LEMMA MoveTypes ==
  ASSUME NEW w \in Work,
         NEW to \in {"done", "created", "unstarted", "new", "opening", "collecting", "collected",
                     "finishing", "importing", "ending", "failing", "releasing"}
  PROVE  /\ [w EXCEPT !.at = to] \in Work
         /\ [w EXCEPT !.at = to].at = to
         /\ [w EXCEPT !.at = to].failed = w.failed
         /\ [w EXCEPT !.at = to].cancelled = w.cancelled
         /\ [w EXCEPT !.at = to].imported = w.imported
BY DEF Work

LEMMA LaunchKeeps ==
  ASSUME IInv, NEW j \in JobIds, Launch(j) \/ LaunchFails(j)
  PROVE  IInv'
<1>1. work[j].at = "created"
  BY DEF Launch, LaunchFails
<1>2. /\ TypeOK /\ JobInv(j) /\ up /\ j \in DOMAIN jobs /\ work[j] \in Work
  BY <1>1, Running
<1>3. CASE Launch(j)
  <2>1. Goes(j, "new") /\ UNCHANGED <<durable, event, finalizing, up>>
    BY <1>3 DEF Launch
  <2>2. ASSUME work'[j] = [work[j] EXCEPT !.at = "new"] PROVE JobInv(j)'
    <3>1. /\ work'[j].at = "new" /\ work'[j].imported = work[j].imported
      BY <1>2, <2>2, MoveTypes
    <3>2. UNCHANGED <<jobs, snapshots, export, event, finalizing, up>>
      BY <2>1 DEF durable
    <3>3. WorkInv(j)' BY <1>1, <1>2, <3>1, <3>2 DEF JobInv, WorkInv, Saving, Busy
    <3>4. TableInv(j)'
      BY <1>1, <1>2, <3>1, <3>2 DEF JobInv, TableInv, Stored, Saving, Busy, Active
    <3> QED BY <3>3, <3>4 DEF JobInv
  <2>3. [work[j] EXCEPT !.at = "new"] \in Work
    BY <1>2, MoveTypes
  <2> QED BY <1>2, <2>1, <2>2, <2>3, GoesKeeps DEF TypeOK
<1>4. CASE LaunchFails(j)
  <2>1. /\ Goes(j, "unstarted") /\ UNCHANGED <<durable, finalizing, up>>
        /\ event' = [event EXCEPT ![j] = None]
    BY <1>4 DEF LaunchFails
  <2>2. ASSUME work'[j] = [work[j] EXCEPT !.at = "unstarted"] PROVE JobInv(j)'
    <3>1. /\ work'[j].at = "unstarted" /\ work'[j].imported = work[j].imported
      BY <1>2, <2>2, MoveTypes
    <3>2. UNCHANGED <<jobs, snapshots, export, finalizing, up>> /\ event'[j] = None
      BY <1>2, <2>1 DEF durable, TypeOK
    <3>3. WorkInv(j)' BY <1>1, <1>2, <3>1, <3>2 DEF JobInv, WorkInv, Saving, Busy
    <3>4. TableInv(j)'
      BY <1>1, <1>2, <3>1, <3>2, LocalAssumption
      DEF JobInv, TableInv, Stored, Saving, Busy, Active
    <3> QED BY <3>3, <3>4 DEF JobInv
  <2>3. [work[j] EXCEPT !.at = "unstarted"] \in Work
    BY <1>2, MoveTypes
  <2>4. /\ event' \in [JobIds -> {None, "clear", "set"}]
        /\ \A k \in JobIds \ {j} : event'[k] = event[k]
    BY <1>2, <2>1 DEF TypeOK
  <2> QED BY <2>1, <2>2, <2>3, <2>4, GoesKeeps
<1> QED
  BY <1>3, <1>4

(* Update, whatever the status, keeps the job's profile, account and import. *)
LEMMA Updated ==
  ASSUME TypeOK, NEW j \in DOMAIN jobs, NEW s \in {"running", "failed"}, Update(j, s)
  PROVE  /\ DOMAIN jobs' = DOMAIN jobs /\ jobs' \in [DOMAIN jobs -> Job]
         /\ jobs'[j].status = IF jobs[j].status = "cancelling" /\ s = "running"
                              THEN jobs[j].status ELSE s
         /\ \A k \in DOMAIN jobs :
              /\ jobs'[k].profile = jobs[k].profile /\ jobs'[k].account = jobs[k].account
              /\ jobs'[k].import = jobs[k].import
              /\ k # j => jobs'[k] = jobs[k]
<1> DEFINE st == IF jobs[j].status = "cancelling" /\ s = "running" THEN jobs[j].status ELSE s
           r == [jobs[j] EXCEPT !.status = st]
<1>1. jobs' = [jobs EXCEPT ![j] = r]
  BY DEF Update, TypeOK
<1>2. jobs[j] \in Job
  BY TypeFacts
<1>3. st \in ActiveStatuses \cup EndStatuses
  BY <1>2 DEF Job, ActiveStatuses, EndStatuses
<1>4. /\ r \in Job /\ r.status = st /\ r.profile = jobs[j].profile
      /\ r.account = jobs[j].account /\ r.import = jobs[j].import
  BY <1>2, <1>3 DEF Job
<1>5. /\ DOMAIN jobs' = DOMAIN jobs /\ jobs'[j] = r
      /\ \A k \in DOMAIN jobs : k # j => jobs'[k] = jobs[k]
  BY <1>1 DEF TypeOK
<1> QED
  BY <1>1, <1>4, <1>5 DEF TypeOK

(* A step that moves the thread and updates its job. *)
LEMMA UpdateKeeps ==
  ASSUME IInv, NEW j \in JobIds, j \in DOMAIN jobs, NEW s \in {"running", "failed"},
         Update(j, s), NEW to, Goes(j, to), [work[j] EXCEPT !.at = to] \in Work,
         UNCHANGED <<snapshots, ident, export, event, finalizing, up>>,
         work'[j] = [work[j] EXCEPT !.at = to] => JobInv(j)'
  PROVE  IInv'
<1>1. TypeOK
  BY DEF IInv
<1>2. work' = [work EXCEPT ![j] = [work[j] EXCEPT !.at = to]]
  BY <1>1 DEF Goes, TypeOK
<1>3. work'[j] = [work[j] EXCEPT !.at = to] /\ \A k \in JobIds \ {j} : work'[k] = work[k]
  BY <1>1, <1>2 DEF TypeOK
<1>4. TypeOK'
  BY <1>1, <1>2, Updated DEF TypeOK
<1> QED
  BY <1>1, <1>3, <1>4, Updated, ThreadStep

LEMMA GiveUpKeeps ==
  ASSUME IInv, NEW j \in JobIds, GiveUp(j)
  PROVE  IInv'
<1>1. /\ work[j].at = "unstarted" /\ Goes(j, "done") /\ Update(j, "failed")
      /\ UNCHANGED <<snapshots, ident, export, event, finalizing, up>>
  BY DEF GiveUp
<1>2. TypeOK /\ JobInv(j) /\ up /\ j \in DOMAIN jobs /\ work[j] \in Work
  BY <1>1, Running
<1>3. [work[j] EXCEPT !.at = "done"] \in Work
  BY <1>2, MoveTypes
<1>4. ASSUME work'[j] = [work[j] EXCEPT !.at = "done"] PROVE JobInv(j)'
  <2>1. work'[j].at = "done"
    BY <1>2, <1>4, MoveTypes
  <2>2. /\ DOMAIN jobs' = DOMAIN jobs /\ jobs'[j].import = jobs[j].import
        /\ jobs'[j].profile = jobs[j].profile /\ jobs'[j].status = "failed"
    BY <1>1, <1>2, Updated
  <2>3. WorkInv(j)'
    BY <2>1 DEF WorkInv, Saving, Busy
  <2>4. TableInv(j)'
    BY <1>1, <1>2, <2>1, <2>2, LocalAssumption
    DEF JobInv, TableInv, Stored, Saving, Busy, Active, ActiveStatuses
  <2> QED BY <2>3, <2>4 DEF JobInv
<1> QED
  BY <1>1, <1>2, <1>3, <1>4, UpdateKeeps

LEMMA RunKeeps ==
  ASSUME IInv, NEW j \in JobIds, Run(j)
  PROVE  IInv'
<1>1. /\ work[j].at = "new" /\ Goes(j, "opening") /\ Update(j, "running")
      /\ UNCHANGED <<snapshots, ident, export, event, finalizing, up>>
  BY DEF Run
<1>2. TypeOK /\ JobInv(j) /\ up /\ j \in DOMAIN jobs /\ work[j] \in Work
  BY <1>1, Running
<1>3. [work[j] EXCEPT !.at = "opening"] \in Work
  BY <1>2, MoveTypes
<1>4. ASSUME work'[j] = [work[j] EXCEPT !.at = "opening"] PROVE JobInv(j)'
  <2>1. work'[j].at = "opening" /\ work'[j].imported = work[j].imported
    BY <1>2, <1>4, MoveTypes
  <2>2. /\ DOMAIN jobs' = DOMAIN jobs /\ jobs'[j].import = jobs[j].import
        /\ jobs'[j].profile = jobs[j].profile
        /\ jobs'[j].status = IF jobs[j].status = "cancelling" THEN jobs[j].status ELSE "running"
    BY <1>1, <1>2, Updated
  <2>3. WorkInv(j)'
    BY <1>1, <1>2, <2>1 DEF JobInv, WorkInv, Saving, Busy
  <2>4. TableInv(j)'
    BY <1>1, <1>2, <2>1, <2>2
    DEF JobInv, TableInv, Stored, Saving, Busy, Active, ActiveStatuses
  <2> QED BY <2>3, <2>4 DEF JobInv
<1> QED
  BY <1>1, <1>2, <1>3, <1>4, UpdateKeeps

LEMMA FailKeeps ==
  ASSUME IInv, NEW j \in JobIds, Fail(j)
  PROVE  IInv'
<1>1. /\ work[j].at = "failing" /\ Goes(j, "releasing") /\ Update(j, "failed")
      /\ UNCHANGED <<snapshots, ident, export, event, finalizing, up>>
  BY DEF Fail
<1>2. TypeOK /\ JobInv(j) /\ up /\ j \in DOMAIN jobs /\ work[j] \in Work
  BY <1>1, Running
<1>3. [work[j] EXCEPT !.at = "releasing"] \in Work
  BY <1>2, MoveTypes
<1>4. ASSUME work'[j] = [work[j] EXCEPT !.at = "releasing"] PROVE JobInv(j)'
  <2>1. work'[j].at = "releasing"
    BY <1>2, <1>4, MoveTypes
  <2>2. /\ DOMAIN jobs' = DOMAIN jobs /\ jobs'[j].import = jobs[j].import
        /\ jobs'[j].profile = jobs[j].profile /\ jobs'[j].status = "failed"
    BY <1>1, <1>2, Updated
  <2>3. WorkInv(j)'
    BY <2>1 DEF WorkInv, Saving, Busy
  <2>4. TableInv(j)'
    BY <1>1, <1>2, <2>1, <2>2
    DEF JobInv, TableInv, Stored, Saving, Busy, Active, ActiveStatuses
  <2> QED BY <2>3, <2>4 DEF JobInv
<1> QED
  BY <1>1, <1>2, <1>3, <1>4, UpdateKeeps

(* A step of the thread that may change its export or the finalizing set. *)
LEMMA LocalStep ==
  ASSUME IInv, NEW j \in JobIds, j \in DOMAIN jobs,
         NEW w \in Work, work' = [work EXCEPT ![j] = w],
         NEW e \in Export \cup {None}, export' = [export EXCEPT ![j] = e],
         finalizing' \in {finalizing, finalizing \cup {j}},
         UNCHANGED <<jobs, snapshots, ident, event, up>>,
         work'[j] = w /\ export'[j] = e => JobInv(j)'
  PROVE  IInv'
<1>1. TypeOK
  BY DEF IInv
<1>2. /\ work'[j] = w /\ export'[j] = e
      /\ \A k \in JobIds \ {j} : work'[k] = work[k] /\ export'[k] = export[k]
  BY <1>1 DEF TypeOK
<1>3. TypeOK'
  BY <1>1 DEF TypeOK
<1> QED
  BY <1>2, <1>3, ThreadStep

LEMMA Same ==
  ASSUME TypeOK, NEW j \in JobIds
  PROVE  /\ export = [export EXCEPT ![j] = export[j]]
         /\ work = [work EXCEPT ![j] = work[j]]
BY DEF TypeOK

LEMMA OpenKeeps ==
  ASSUME IInv, NEW j \in JobIds, Open(j)
  PROVE  IInv'
<1>1. /\ work[j].at = "opening"
      /\ UNCHANGED <<jobs, snapshots, ident, event, finalizing, up>>
  BY DEF Open
<1>2. /\ TypeOK /\ JobInv(j) /\ up /\ j \in DOMAIN jobs /\ work[j] \in Work
      /\ export[j] \in Export \cup {None}
  BY <1>1, Running
<1>3. CASE /\ export' = [export EXCEPT ![j] = [records |-> FALSE, complete |-> FALSE]]
           /\ Goes(j, "collecting")
  <2> DEFINE w == [work[j] EXCEPT !.at = "collecting"]
             e == [records |-> FALSE, complete |-> FALSE]
  <2>1. w \in Work /\ w.at = "collecting" /\ w.imported = work[j].imported
    BY <1>2, MoveTypes
  <2>2. e \in Export
    BY DEF Export
  <2>5. e # None
    BY <2>2, ExportIsNotNone
  <2>3. work' = [work EXCEPT ![j] = w]
    BY <1>2, <1>3 DEF Goes, TypeOK
  <2>4. ASSUME work'[j] = w, export'[j] = e PROVE JobInv(j)'
    <3>1. WorkInv(j)'
      BY <1>1, <1>2, <2>1, <2>5, <2>4 DEF JobInv, WorkInv, Saving, Busy
    <3>2. TableInv(j)'
      BY <1>1, <1>2, <2>1, <2>4 DEF JobInv, TableInv, Stored, Saving, Busy, Active
    <3> QED BY <3>1, <3>2 DEF JobInv
  <2> HIDE DEF w, e
  <2> QED BY <1>1, <1>2, <1>3, <2>1, <2>2, <2>3, <2>4, LocalStep DEF e
<1>4. CASE /\ work' = [work EXCEPT ![j].at = "collected", ![j].failed = TRUE]
           /\ UNCHANGED export
  <2> DEFINE w == [work[j] EXCEPT !.at = "collected", !.failed = TRUE]
  <2>1. w \in Work /\ w.at = "collected" /\ w.imported = work[j].imported /\ w.failed
    BY <1>2 DEF Work
  <2>2. work' = [work EXCEPT ![j] = w] /\ export' = [export EXCEPT ![j] = export[j]]
    BY <1>2, <1>4 DEF TypeOK
  <2>3. ASSUME work'[j] = w, export'[j] = export[j] PROVE JobInv(j)'
    <3>1. WorkInv(j)'
      BY <1>1, <1>2, <2>1, <2>3 DEF JobInv, WorkInv, Saving, Busy
    <3>2. TableInv(j)'
      BY <1>1, <1>2, <2>1, <2>3 DEF JobInv, TableInv, Stored, Saving, Busy, Active
    <3> QED BY <3>1, <3>2 DEF JobInv
  <2> HIDE DEF w
  <2> QED BY <1>1, <1>2, <2>1, <2>2, <2>3, LocalStep
<1> QED
  BY <1>3, <1>4 DEF Open

LEMMA SavePageKeeps ==
  ASSUME IInv, NEW j \in JobIds, SavePage(j)
  PROVE  IInv'
<1>1. /\ work[j].at = "collecting" /\ export' = [export EXCEPT ![j].records = TRUE]
      /\ UNCHANGED <<jobs, snapshots, ident, work, event, finalizing, up>>
  BY DEF SavePage
<1>2. /\ TypeOK /\ JobInv(j) /\ up /\ j \in DOMAIN jobs /\ work[j] \in Work
      /\ export[j] \in Export \cup {None}
  BY <1>1, Running
<1>3. export[j] \in Export
  BY <1>1, <1>2 DEF JobInv, WorkInv
<1> DEFINE e == [export[j] EXCEPT !.records = TRUE]
<1>4. e \in Export
  BY <1>3 DEF Export
<1>7. e # None /\ e.complete = export[j].complete
  BY <1>3, <1>4, ExportIsNotNone DEF Export
<1>5. export' = [export EXCEPT ![j] = e] /\ work' = [work EXCEPT ![j] = work[j]]
  BY <1>1, <1>2 DEF TypeOK
<1>6. ASSUME export'[j] = e PROVE JobInv(j)'
  <2>1. WorkInv(j)'
    BY <1>1, <1>2, <1>7, <1>6 DEF JobInv, WorkInv, Saving, Busy
  <2>2. TableInv(j)'
    BY <1>1, <1>2, <1>6 DEF JobInv, TableInv, Stored, Active
  <2> QED BY <2>1, <2>2 DEF JobInv
<1> HIDE DEF e
<1> QED
  BY <1>1, <1>2, <1>4, <1>5, <1>6, LocalStep

LEMMA CollectKeeps ==
  ASSUME IInv, NEW j \in JobIds, Collect(j)
  PROVE  IInv'
<1>1. /\ work[j].at = "collecting"
      /\ UNCHANGED <<jobs, snapshots, ident, event, finalizing, up>>
  BY DEF Collect
<1>2. /\ TypeOK /\ JobInv(j) /\ up /\ j \in DOMAIN jobs /\ work[j] \in Work
      /\ export[j] \in Export \cup {None}
  BY <1>1, Running
<1>3. export[j] \in Export /\ export[j] # None
  BY <1>1, <1>2 DEF JobInv, WorkInv
<1> DEFINE moved == [work[j] EXCEPT !.at = "collected"]
           failed == [work[j] EXCEPT !.at = "collected", !.failed = TRUE]
           done == [export[j] EXCEPT !.complete = TRUE]
<1>4. moved \in Work /\ moved.at = "collected" /\ moved.imported = work[j].imported
  BY <1>2, MoveTypes
<1>5. /\ failed \in Work /\ failed.at = "collected" /\ failed.imported = work[j].imported
      /\ failed.failed
  BY <1>2 DEF Work
<1>6. done \in Export /\ done.complete
  BY <1>3 DEF Export
<1>7. done # None
  BY <1>6, ExportIsNotNone
<1>8. ASSUME NEW w \in {moved, failed}, NEW e \in {done, export[j]},
             work' = [work EXCEPT ![j] = w], export' = [export EXCEPT ![j] = e],
             w.failed \/ e.complete \/ event[j] = "set"
      PROVE  IInv'
  <2>1. w \in Work /\ w.at = "collected" /\ w.imported = work[j].imported
    BY <1>4, <1>5
  <2>2. e \in Export \cup {None} /\ e # None
    BY <1>3, <1>6, <1>7
  <2>3. ASSUME work'[j] = w, export'[j] = e PROVE JobInv(j)'
    <3>1. WorkInv(j)'
      BY <1>1, <1>2, <1>8, <2>1, <2>2, <2>3 DEF JobInv, WorkInv, Saving, Busy
    <3>2. TableInv(j)'
      BY <1>1, <1>2, <2>1, <2>3 DEF JobInv, TableInv, Stored, Saving, Busy, Active
    <3> QED BY <3>1, <3>2 DEF JobInv
  <2> QED
    BY <1>1, <1>2, <1>8, <2>1, <2>2, <2>3, LocalStep
<1>9. \/ /\ work' = [work EXCEPT ![j] = moved]
         /\ export' = [export EXCEPT ![j] = done]
      \/ /\ event[j] = "set"
         /\ work' = [work EXCEPT ![j] = moved]
         /\ export' = [export EXCEPT ![j] = export[j]]
      \/ /\ work' = [work EXCEPT ![j] = failed]
         /\ export' = [export EXCEPT ![j] = export[j]]
  BY <1>2 DEF Collect, Goes, TypeOK
<1> HIDE DEF moved, failed, done
<1> QED
  BY <1>5, <1>6, <1>8, <1>9

LEMMA BeginFinalKeeps ==
  ASSUME IInv, NEW j \in JobIds, BeginFinal(j)
  PROVE  IInv'
<1> DEFINE w == [work[j] EXCEPT !.at = "finishing", !.cancelled = event[j] = "set"]
<1>1. /\ work[j].at = "collected"
      /\ finalizing' = finalizing \cup {j}
      /\ UNCHANGED <<jobs, snapshots, ident, export, event, up>>
  BY DEF BeginFinal, durable
<1>2. /\ TypeOK /\ JobInv(j) /\ up /\ j \in DOMAIN jobs /\ work[j] \in Work
      /\ export[j] \in Export \cup {None}
  BY <1>1, Running
<1>3. /\ w \in Work /\ w.at = "finishing" /\ w.imported = work[j].imported
      /\ w.failed = work[j].failed /\ w.cancelled = (event[j] = "set")
  BY <1>2 DEF Work
<1>4. work' = [work EXCEPT ![j] = w] /\ export' = [export EXCEPT ![j] = export[j]]
  BY <1>1, <1>2 DEF BeginFinal, TypeOK
<1>5. ASSUME work'[j] = w, export'[j] = export[j] PROVE JobInv(j)'
  <2>1. WorkInv(j)'
    BY <1>1, <1>2, <1>3, <1>5 DEF JobInv, WorkInv, Saving, Busy
  <2>2. TableInv(j)'
    BY <1>1, <1>2, <1>3, <1>5 DEF JobInv, TableInv, Stored, Saving, Busy, Active
  <2> QED BY <2>1, <2>2 DEF JobInv
<1> HIDE DEF w
<1> QED
  BY <1>1, <1>2, <1>3, <1>4, <1>5, LocalStep

LEMMA FinishKeeps ==
  ASSUME IInv, NEW j \in JobIds, Finish(j)
  PROVE  IInv'
<1>1. /\ work[j].at = "finishing"
      /\ UNCHANGED <<jobs, snapshots, ident, event, finalizing, up>>
  BY DEF Finish
<1>2. /\ TypeOK /\ JobInv(j) /\ up /\ j \in DOMAIN jobs /\ work[j] \in Work
      /\ export[j] \in Export \cup {None}
  BY <1>1, Running
<1>3. CASE export[j] = None
  <2> DEFINE w == [work[j] EXCEPT !.at = "ending"]
  <2>1. /\ w \in Work /\ w.at = "ending" /\ w.imported = work[j].imported
        /\ w.failed = work[j].failed /\ w.cancelled = work[j].cancelled
    BY <1>2, MoveTypes
  <2>2. work' = [work EXCEPT ![j] = w] /\ export' = [export EXCEPT ![j] = export[j]]
    BY <1>2, <1>3 DEF Finish, Goes, TypeOK
  <2>3. ASSUME work'[j] = w, export'[j] = export[j] PROVE JobInv(j)'
    <3>1. WorkInv(j)'
      BY <1>1, <1>2, <1>3, <2>1, <2>3 DEF JobInv, WorkInv, Saving, Busy
    <3>2. TableInv(j)'
      BY <1>1, <1>2, <2>1, <2>3 DEF JobInv, TableInv, Stored, Saving, Busy, Active
    <3> QED BY <3>1, <3>2 DEF JobInv
  <2> HIDE DEF w
  <2> QED BY <1>1, <1>2, <2>1, <2>2, <2>3, LocalStep
<1>4. CASE export[j] # None
  <2> DEFINE w == [work[j] EXCEPT !.at = "importing"]
             e == [export[j] EXCEPT !.complete = @ /\ ~work[j].cancelled]
  <2>1. /\ w \in Work /\ w.at = "importing" /\ w.imported = work[j].imported
        /\ w.failed = work[j].failed /\ w.cancelled = work[j].cancelled
    BY <1>2, MoveTypes
  <2>2. work[j].cancelled \in BOOLEAN /\ export[j] \in Export
    BY <1>2, <1>4 DEF Work
  <2>3. e \in Export /\ (e.complete <=> export[j].complete /\ ~work[j].cancelled)
    BY <2>2 DEF Export
  <2>4. e # None
    BY <2>3, ExportIsNotNone
  <2>5. work' = [work EXCEPT ![j] = w] /\ export' = [export EXCEPT ![j] = e]
    BY <1>2, <1>4 DEF Finish, Goes, TypeOK
  <2>6. ASSUME work'[j] = w, export'[j] = e PROVE JobInv(j)'
    <3>1. WorkInv(j)'
      BY <1>1, <1>2, <2>1, <2>3, <2>4, <2>6 DEF JobInv, WorkInv, Saving, Busy
    <3>2. TableInv(j)'
      BY <1>1, <1>2, <2>1, <2>6 DEF JobInv, TableInv, Stored, Saving, Busy, Active
    <3> QED BY <3>1, <3>2 DEF JobInv
  <2> HIDE DEF w, e
  <2> QED BY <1>1, <1>2, <2>1, <2>3, <2>5, <2>6, LocalStep
<1> QED
  BY <1>3, <1>4

LEMMA BreakKeeps ==
  ASSUME IInv, NEW j \in JobIds, Break(j)
  PROVE  IInv'
<1>1. /\ work[j].at \in {"finishing", "importing", "ending"} /\ Goes(j, "failing")
      /\ UNCHANGED <<durable, event, finalizing, up>>
  BY DEF Break
<1>2. /\ TypeOK /\ JobInv(j) /\ up /\ j \in DOMAIN jobs /\ work[j] \in Work
  BY <1>1, Running
<1>3. [work[j] EXCEPT !.at = "failing"] \in Work
  BY <1>2, MoveTypes
<1>4. ASSUME work'[j] = [work[j] EXCEPT !.at = "failing"] PROVE JobInv(j)'
  <2>1. work'[j].at = "failing" /\ work'[j].cancelled = work[j].cancelled
    BY <1>2, <1>4, MoveTypes
  <2>2. UNCHANGED <<jobs, snapshots, export, event, finalizing, up>>
    BY <1>1 DEF durable
  <2>3. WorkInv(j)' BY <1>1, <1>2, <2>1, <2>2 DEF JobInv, WorkInv, Saving, Busy
  <2>4. TableInv(j)'
    BY <1>1, <1>2, <2>1, <2>2 DEF JobInv, TableInv, Stored, Saving, Busy, Active
  <2> QED BY <2>3, <2>4 DEF JobInv
<1> QED
  BY <1>1, <1>2, <1>3, <1>4, GoesKeeps DEF TypeOK

LEMMA ImportKeeps ==
  ASSUME IInv, NEW j \in JobIds, Import(j)
  PROVE  IInv'
<1> DEFINE w == [work[j] EXCEPT !.at = "ending", !.imported = export[j]]
<1>1. /\ work[j].at = "importing" /\ Imports(jobs[j].profile, j)
      /\ UNCHANGED <<jobs, export, event, finalizing, up>>
  BY DEF Import
<1>2. /\ TypeOK /\ SnapInv /\ JobInv(j) /\ up /\ j \in DOMAIN jobs /\ work[j] \in Work
      /\ jobs[j].profile \in Profiles
  BY <1>1, Running, TypeFacts DEF IInv
<1>3. export[j] # None /\ export[j] \in Export \cup {None}
  BY <1>1, <1>2, TypeFacts DEF JobInv, WorkInv
<1>4. /\ ident' \in [Profiles -> Accounts \cup {None}]
      /\ snapshots' \in [Profiles -> SUBSET Snapshot]
      /\ SnapInv'
      /\ [from |-> j, export |-> export[j]] \in snapshots'[jobs[j].profile]
      /\ \A q \in Profiles : snapshots[q] \subseteq snapshots'[q]
  BY <1>1, <1>2, <1>3, ImportsKeep
<1>5. /\ w \in Work /\ w.at = "ending" /\ w.imported = export[j]
      /\ w.failed = work[j].failed /\ w.cancelled = work[j].cancelled
  BY <1>2, <1>3 DEF Work
<1>6. work' = [work EXCEPT ![j] = w]
  BY <1>2 DEF Import, TypeOK
<1> HIDE DEF w
<1>7. work'[j] = w /\ \A k \in JobIds \ {j} : work'[k] = work[k]
  BY <1>2, <1>6 DEF TypeOK
<1>8. TypeOK'
  BY <1>1, <1>2, <1>4, <1>5, <1>6 DEF TypeOK
<1>9. JobInv(j)'
  <2>1. WorkInv(j)'
    BY <1>1, <1>2, <1>3, <1>4, <1>5, <1>7 DEF JobInv, WorkInv, Stored, Saving, Busy
  <2>2. TableInv(j)'
    BY <1>1, <1>2, <1>4, <1>5, <1>7 DEF JobInv, TableInv, Stored, Saving, Busy, Active
  <2> QED BY <2>1, <2>2 DEF JobInv
<1>10. ASSUME NEW k \in JobIds, k # j PROVE JobInv(k)'
  BY <1>1, <1>4, <1>7, <1>10, Untouched
<1> QED
  BY <1>4, <1>8, <1>9, <1>10 DEF IInv

(* The statuses of an ended thread. *)
LEMMA VerdictFacts ==
  ASSUME NEW w \in Work
  PROVE  /\ Verdict(w) \in EndStatuses \ {"interrupted"}
         /\ Verdict(w) = "cancelled" <=> w.cancelled
         /\ Verdict(w) = "completed" => ~w.cancelled /\ ~w.failed
<1>1. CASE w.cancelled
  BY <1>1 DEF Verdict, EndStatuses
<1>2. CASE ~w.cancelled /\ ~w.failed
  BY <1>2 DEF Verdict, EndStatuses
<1>3. CASE ~w.cancelled /\ w.failed
  <2>1. Verdict(w) = IF w.imported # None /\ w.imported.records THEN "partial" ELSE "failed"
    BY <1>3 DEF Verdict
  <2> QED BY <1>3, <2>1 DEF EndStatuses
<1> QED
  BY <1>1, <1>2, <1>3

LEMMA ConcludeFacts ==
  ASSUME IInv, NEW j \in JobIds, Conclude(j)
  PROVE  /\ j \in DOMAIN jobs /\ Active(jobs[j]) /\ jobs' \in [DOMAIN jobs -> Job]
         /\ DOMAIN jobs' = DOMAIN jobs
         /\ jobs'[j].status = Verdict(work[j]) /\ jobs'[j].import = work[j].imported
         /\ jobs[j].status = "cancelling" => work[j].cancelled
         /\ \A k \in DOMAIN jobs :
              /\ jobs'[k].profile = jobs[k].profile /\ jobs'[k].account = jobs[k].account
              /\ k # j => jobs'[k] = jobs[k]
<1> DEFINE r == [jobs[j] EXCEPT !.status = Verdict(work[j]), !.import = work[j].imported]
<1>1. /\ work[j].at = "ending"
      /\ jobs' = [jobs EXCEPT ![j].status = Verdict(work[j]), ![j].import = work[j].imported]
  BY DEF Conclude
<1>2. TypeOK /\ JobInv(j) /\ up /\ j \in DOMAIN jobs /\ work[j] \in Work /\ jobs[j] \in Job
  BY <1>1, Running
<1>3. jobs' = [jobs EXCEPT ![j] = r]
  BY <1>1, <1>2 DEF TypeOK
<1>4. Verdict(work[j]) \in EndStatuses /\ work[j].imported \in Export \cup {None}
  BY <1>2, VerdictFacts DEF Work
<1>5. /\ r \in Job /\ r.status = Verdict(work[j]) /\ r.import = work[j].imported
      /\ r.profile = jobs[j].profile /\ r.account = jobs[j].account
  BY <1>2, <1>4 DEF Job
<1>6. Active(jobs[j]) /\ (jobs[j].status = "cancelling" => work[j].cancelled)
  BY <1>1, <1>2 DEF JobInv, TableInv, WorkInv, Busy, Saving
<1> HIDE DEF r
<1>7. /\ DOMAIN jobs' = DOMAIN jobs /\ jobs'[j] = r /\ jobs' \in [DOMAIN jobs -> Job]
      /\ \A k \in DOMAIN jobs : k # j => jobs'[k] = jobs[k]
  BY <1>2, <1>3, <1>5 DEF TypeOK
<1> QED
  BY <1>2, <1>5, <1>6, <1>7

LEMMA ConcludeKeeps ==
  ASSUME IInv, NEW j \in JobIds, Conclude(j)
  PROVE  IInv'
<1> DEFINE w == [work[j] EXCEPT !.at = "releasing"]
<1>1. /\ work[j].at = "ending" /\ Goes(j, "releasing")
      /\ UNCHANGED <<snapshots, ident, export, event, finalizing, up>>
  BY DEF Conclude
<1>2. TypeOK /\ JobInv(j) /\ up /\ j \in DOMAIN jobs /\ work[j] \in Work
  BY <1>1, Running
<1>3. w \in Work /\ w.at = "releasing"
  BY <1>2, MoveTypes
<1>4. work' = [work EXCEPT ![j] = w]
  BY <1>1, <1>2 DEF Goes, TypeOK
<1> HIDE DEF w
<1>5. work'[j] = w /\ \A k \in JobIds \ {j} : work'[k] = work[k]
  BY <1>2, <1>4 DEF TypeOK
<1>6. TypeOK'
  BY <1>1, <1>2, <1>3, <1>4, ConcludeFacts DEF TypeOK
<1>7. JobInv(j)'
  <2>1. /\ jobs'[j].status \in EndStatuses /\ jobs'[j].import = work[j].imported
        /\ jobs'[j].status = "cancelled" <=> work[j].cancelled
        /\ jobs'[j].status = "completed" => ~work[j].cancelled /\ ~work[j].failed
        /\ jobs'[j].profile = jobs[j].profile
    BY <1>2, VerdictFacts, ConcludeFacts
  <2>2. WorkInv(j)'
    BY <1>3, <1>5 DEF WorkInv, Saving, Busy
  <2>3. TableInv(j)'
    BY <1>1, <1>2, <1>3, <1>5, <2>1, ConcludeFacts
    DEF JobInv, WorkInv, TableInv, Stored, Saving, Busy, Active, ActiveStatuses, EndStatuses
  <2> QED BY <2>2, <2>3 DEF JobInv
<1> QED
  BY <1>1, <1>2, <1>5, <1>6, <1>7, ConcludeFacts, ThreadStep

LEMMA ReleaseKeeps ==
  ASSUME IInv, NEW j \in JobIds, Release(j)
  PROVE  IInv'
<1>1. /\ work[j].at = "releasing" /\ work' = [work EXCEPT ![j] = NoWork]
      /\ event' = [event EXCEPT ![j] = None] /\ finalizing' = finalizing \ {j}
      /\ UNCHANGED <<jobs, snapshots, ident, export, up>>
  BY DEF Release, durable
<1>2. TypeOK /\ JobInv(j) /\ up /\ j \in DOMAIN jobs /\ NoWork \in Work
  BY <1>1, Running, TypeFacts
<1>3. /\ work'[j] = NoWork /\ event'[j] = None
      /\ \A k \in JobIds \ {j} : work'[k] = work[k] /\ event'[k] = event[k]
  BY <1>1, <1>2 DEF TypeOK
<1>4. TypeOK'
  BY <1>1, <1>2 DEF TypeOK
<1>5. JobInv(j)'
  <2>1. WorkInv(j)'
    BY <1>3 DEF WorkInv, NoWork, Saving, Busy
  <2>2. TableInv(j)'
    BY <1>1, <1>2, <1>3, LocalAssumption
    DEF JobInv, TableInv, Stored, NoWork, Saving, Busy, Active
  <2> QED BY <2>1, <2>2 DEF JobInv
<1> QED
  BY <1>1, <1>3, <1>4, <1>5, ThreadStep

(***************************************************************************)
(* The invariant and what follows from it                                  *)
(***************************************************************************)
LEMMA StepHolds == IInv /\ [Next]_vars => IInv'
<1> SUFFICES ASSUME IInv, [Next]_vars PROVE IInv'
  OBVIOUS
<1>1. CASE \E p \in Profiles, a \in Accounts : Start(p, a)
  BY <1>1, StartKeeps
<1>2. CASE \E j \in JobIds : Cancel(j)
  BY <1>2, CancelKeeps
<1>3. CASE \E p \in Importing, j \in JobIds : ImportFiles(p, j)
  BY <1>3, ImportFilesKeeps, LocalAssumption
<1>4. CASE \E j \in JobIds : Step(j)
  BY <1>4, LaunchKeeps, GiveUpKeeps, RunKeeps, OpenKeeps, CollectKeeps, BeginFinalKeeps,
     FinishKeeps, ImportKeeps, BreakKeeps, ConcludeKeeps, FailKeeps, ReleaseKeeps DEF Step
<1>5. CASE \E j \in JobIds : SavePage(j)
  BY <1>5, SavePageKeeps
<1>6. CASE Crash \/ Restart
  BY <1>6, CrashKeeps, RestartKeeps
<1>7. CASE UNCHANGED vars
  <2>1. UNCHANGED <<jobs, snapshots, ident, export, work, event, finalizing, up>>
    BY <1>7 DEF vars
  <2>2. TypeOK'
    BY <2>1 DEF IInv, TypeOK
  <2>3. SnapInv'
    BY <2>1 DEF IInv, SnapInv
  <2>4. ASSUME NEW j \in JobIds PROVE JobInv(j)'
    BY <2>1, Untouched
  <2> QED
    BY <2>2, <2>3, <2>4 DEF IInv
<1> QED
  BY <1>1, <1>2, <1>3, <1>4, <1>5, <1>6, <1>7 DEF Next

THEOREM Invariance == Spec => []IInv
BY InitHolds, StepHolds, PTL DEF Spec

(* Every reachable state has its types, whenever the process dies. *)
THEOREM TypeCorrect == Spec => []TypeOK
<1>1. IInv => TypeOK
  BY DEF IInv
<1> QED
  BY <1>1, Invariance, PTL

(* While the backend runs, the active jobs are those with a thread. *)
THEOREM Attended == Spec => []ActiveHasThread
<1>1. IInv => ActiveHasThread
  <2> SUFFICES ASSUME IInv, up, NEW j \in DOMAIN jobs
               PROVE  Active(jobs[j]) <=> work[j].at \notin {"done", "releasing"}
    BY DEF ActiveHasThread
  <2>1. j \in JobIds /\ work[j] \in Work
    BY DEF IInv, TypeOK
  <2>2. work[j].at \in Busy <=> work[j].at \notin {"done", "releasing"}
    BY <2>1 DEF Work, Busy, Saving
  <2> QED
    BY <2>1, <2>2 DEF IInv, JobInv, TableInv
<1> QED
  BY <1>1, Invariance, PTL

(* No event and no finalizing mark outlives its thread. *)
THEOREM Clean == Spec => []NothingLeaks
<1>1. IInv => NothingLeaks
  BY DEF IInv, JobInv, TableInv, NothingLeaks, Saving
<1> QED
  BY <1>1, Invariance, PTL

(* Stopped jobs import incomplete exports, completed ones complete exports. *)
THEOREM StopsHonoured == Spec => []StopHonoured
<1>1. IInv => StopHonoured
  BY DEF IInv, TypeOK, JobInv, TableInv, StopHonoured
<1> QED
  BY <1>1, Invariance, PTL

(* Whatever the moment of a crash, a job names only what its profile has. *)
THEOREM ImportsKept == Spec => []ImportsStored
<1>1. IInv => ImportsStored
  BY DEF IInv, TypeOK, JobInv, TableInv, Stored, ImportsStored
<1> QED
  BY <1>1, Invariance, PTL

(* No profile ever mixes the history of two accounts. *)
THEOREM AccountsApart == Spec => []OneAccount
<1>1. IInv => OneAccount
  BY DEF IInv, SnapInv, OneAccount
<1> QED
  BY <1>1, Invariance, PTL

(***************************************************************************)
(* The life of a collection                                                *)
(***************************************************************************)

(* What any step does to a job: it stays in the table, active jobs move, an accepted
   stop is final, and a new job has no rival. *)
JobStep(j) ==
  /\ j \in DOMAIN jobs =>
       /\ j \in DOMAIN jobs' /\ jobs'[j].profile = jobs[j].profile
       /\ \/ jobs'[j].status = jobs[j].status
          \/ /\ Active(jobs[j])
             /\ jobs[j].status = "cancelling" =>
                  jobs'[j].status \in {"cancelled", "failed", "interrupted"}
  /\ j \in DOMAIN jobs' /\ j \notin DOMAIN jobs =>
       /\ jobs'[j].status = "queued"
       /\ DOMAIN jobs' = DOMAIN jobs \cup {j}
       /\ \A k \in DOMAIN jobs : jobs[k].profile = jobs'[j].profile => ~Active(jobs[k])

LEMMA StartMoves ==
  ASSUME IInv, NEW p \in Profiles, NEW a \in Accounts, Start(p, a), NEW j \in JobIds
  PROVE  JobStep(j)
<1>1. PICK i \in JobIds \ DOMAIN jobs :
        jobs' = [k \in DOMAIN jobs \cup {i} |->
          IF k = i THEN [profile |-> p, account |-> a, status |-> "queued", import |-> None]
          ELSE jobs[k]]
  BY DEF Start
<1>2. \A k \in DOMAIN jobs : jobs[k].profile = p => ~Active(jobs[k])
  BY DEF Start
<1>3. CASE j = i
  BY <1>1, <1>2, <1>3 DEF JobStep
<1>4. CASE j # i
  BY <1>1, <1>4 DEF JobStep
<1> QED
  BY <1>3, <1>4

(* A request or a thread moves the status of one active job. *)
LEMMA StatusMoves ==
  ASSUME IInv, NEW i \in DOMAIN jobs, Active(jobs[i]), NEW job, jobs' = [jobs EXCEPT ![i] = job],
         job.profile = jobs[i].profile,
         job.status = jobs[i].status \/ jobs[i].status # "cancelling"
           \/ job.status \in {"cancelled", "failed"},
         NEW j \in JobIds
  PROVE  JobStep(j)
<1>1. DOMAIN jobs' = DOMAIN jobs /\ jobs'[i] = job /\ \A k \in DOMAIN jobs : k # i => jobs'[k] = jobs[k]
  OBVIOUS
<1> QED
  BY <1>1 DEF JobStep

LEMMA StillMoves ==
  ASSUME jobs' = jobs, NEW j \in JobIds
  PROVE  JobStep(j)
BY DEF JobStep

(* A thread that has not released its job finds it active. *)
LEMMA BusyIsActive ==
  ASSUME IInv, NEW j \in JobIds, work[j].at \in Busy
  PROVE  j \in DOMAIN jobs /\ Active(jobs[j])
<1>1. work[j].at # "done"
  BY DEF Busy, Saving
<1> QED
  BY <1>1, Running DEF JobInv, TableInv

LEMMA ThreadMoves ==
  ASSUME IInv, NEW i \in JobIds, Step(i) \/ SavePage(i), NEW j \in JobIds
  PROVE  JobStep(j)
<1>1. CASE GiveUp(i) \/ Fail(i)
  <2>1. work[i].at \in Busy /\ Update(i, "failed")
    BY <1>1 DEF GiveUp, Fail, Busy, Saving
  <2>2. i \in DOMAIN jobs /\ Active(jobs[i]) /\ jobs[i] \in Job
    BY <2>1, BusyIsActive, TypeFacts DEF IInv
  <2>3. jobs' = [jobs EXCEPT ![i] = [jobs[i] EXCEPT !.status = "failed"]]
    BY <2>1, <2>2 DEF Update
  <2>4. /\ [jobs[i] EXCEPT !.status = "failed"].profile = jobs[i].profile
        /\ [jobs[i] EXCEPT !.status = "failed"].status = "failed"
    BY <2>2 DEF Job
  <2> QED
    BY <2>2, <2>3, <2>4, StatusMoves
<1>2. CASE Run(i)
  <2>1. work[i].at \in Busy /\ Update(i, "running")
    BY <1>2 DEF Run, Busy
  <2>2. i \in DOMAIN jobs /\ Active(jobs[i]) /\ jobs[i] \in Job
    BY <2>1, BusyIsActive, TypeFacts DEF IInv
  <2> DEFINE new == [jobs[i] EXCEPT !.status = IF @ = "cancelling" THEN @ ELSE "running"]
  <2>3. jobs' = [jobs EXCEPT ![i] = new]
    BY <2>1, <2>2 DEF Update
  <2>4. new.profile = jobs[i].profile
        /\ new.status = IF jobs[i].status = "cancelling" THEN jobs[i].status ELSE "running"
    BY <2>2 DEF Job
  <2> QED
    BY <2>2, <2>3, <2>4, StatusMoves
<1>3. CASE Conclude(i)
  <2>1. /\ work[i].at = "ending"
        /\ jobs' = [jobs EXCEPT ![i].status = Verdict(work[i]), ![i].import = work[i].imported]
    BY <1>3 DEF Conclude
  <2>2. i \in DOMAIN jobs /\ Active(jobs[i]) /\ jobs[i] \in Job /\ JobInv(i)
    BY <2>1, BusyIsActive, TypeFacts DEF IInv, Busy, Saving
  <2> DEFINE new == [jobs[i] EXCEPT !.status = Verdict(work[i]), !.import = work[i].imported]
  <2>3. jobs' = [jobs EXCEPT ![i] = new]
    BY <2>1, <2>2
  <2>4. new.profile = jobs[i].profile /\ new.status = Verdict(work[i])
    BY <2>2 DEF Job
  <2>5. jobs[i].status = "cancelling" => Verdict(work[i]) = "cancelled"
    <3> SUFFICES ASSUME jobs[i].status = "cancelling" PROVE work[i].cancelled = TRUE
      BY DEF Verdict
    <3>1. event[i] = "set"
      BY <2>1, <2>2 DEF JobInv, TableInv, Busy, Saving
    <3>2. work[i].cancelled \in BOOLEAN
      BY TypeFacts DEF IInv, Work
    <3> QED
      BY <2>1, <2>2, <3>1, <3>2 DEF JobInv, WorkInv, Saving
  <2> QED
    BY <2>2, <2>3, <2>4, <2>5, StatusMoves
<1>4. CASE UNCHANGED jobs
  BY <1>4, StillMoves
<1>5. UNCHANGED jobs \/ GiveUp(i) \/ Fail(i) \/ Run(i) \/ Conclude(i)
  BY DEF Step, SavePage, Launch, LaunchFails, Open, Collect, BeginFinal, Finish, Import, Break,
         Release, durable
<1> QED
  BY <1>1, <1>2, <1>3, <1>4, <1>5

LEMMA EveryStep ==
  ASSUME IInv, [Next]_vars, NEW j \in JobIds
  PROVE  JobStep(j)
<1>1. ASSUME NEW i \in JobIds, Cancel(i) PROVE JobStep(j)
  <2>1. i \in DOMAIN jobs /\ Active(jobs[i]) /\ jobs' = [jobs EXCEPT ![i].status = "cancelling"]
    BY <1>1 DEF Cancel
  <2>2. jobs[i] \in Job
    BY <2>1, TypeFacts DEF IInv
  <2> DEFINE new == [jobs[i] EXCEPT !.status = "cancelling"]
  <2>3. jobs' = [jobs EXCEPT ![i] = new]
    BY <2>1
  <2>4. new.profile = jobs[i].profile /\ new.status = "cancelling"
    BY <2>2 DEF Job
  <2> QED
    BY <2>1, <2>3, <2>4, StatusMoves
<1>2. CASE Restart
  <2>1. jobs' = [i \in DOMAIN jobs |->
          IF Active(jobs[i]) THEN [jobs[i] EXCEPT !.status = "interrupted"] ELSE jobs[i]]
    BY <1>2 DEF Restart
  <2>2. \A i \in DOMAIN jobs : jobs[i] \in Job
    BY TypeFacts DEF IInv
  <2> QED
    BY <2>1, <2>2 DEF JobStep, Job
<1>3. CASE Crash \/ UNCHANGED vars
  BY <1>3, StillMoves DEF Crash, vars, durable
<1>4. ASSUME NEW p \in Importing, NEW i \in JobIds, ImportFiles(p, i) PROVE JobStep(j)
  BY <1>4, StillMoves DEF ImportFiles
<1> QED
  BY <1>1, <1>2, <1>3, <1>4, StartMoves, ThreadMoves DEF Next

(* Whatever requests, threads, crashes and restarts do, a profile has one active job. *)
THEOREM OneAtATime == Spec => []OneActive
<1>1. Init => OneActive
  BY DEF Init, OneActive
<1>2. IInv /\ OneActive /\ [Next]_vars /\ IInv' => OneActive'
  <2> SUFFICES ASSUME IInv, OneActive, [Next]_vars, IInv',
                      NEW j \in DOMAIN jobs', NEW k \in DOMAIN jobs',
                      Active(jobs'[j]), Active(jobs'[k]), jobs'[j].profile = jobs'[k].profile
               PROVE  j = k
    BY DEF OneActive, Active
  <2>1. j \in JobIds /\ k \in JobIds
    BY DEF IInv, TypeOK
  <2>2. JobStep(j) /\ JobStep(k)
    BY <2>1, EveryStep
  <2>3. \A i \in {j, k} \cap DOMAIN jobs : Active(jobs[i])
    BY <2>2 DEF JobStep, Active
  <2>4. CASE j \in DOMAIN jobs /\ k \in DOMAIN jobs
    BY <2>2, <2>3, <2>4 DEF JobStep, OneActive
  <2>5. CASE j \notin DOMAIN jobs \/ k \notin DOMAIN jobs
    BY <2>2, <2>3, <2>5 DEF JobStep
  <2> QED
    BY <2>4, <2>5
<1> QED
  BY <1>1, <1>2, Invariance, PTL DEF Spec

LEMMA LifeStep ==
  ASSUME IInv, IInv', NEW j \in JobIds, JobStep(j)
  PROVE  Life'[j] = Life[j] \/ Life'[j] \in Lifecycle!Follows(Life[j])
<1> USE DEF Lifecycle!Follows, Lifecycle!Ended
<1> DEFINE Seen(job) == IF job.status = "cancelling" THEN "stopping"
                        ELSE IF Active(job) THEN "active" ELSE job.status
<1>1. /\ jobs \in [DOMAIN jobs -> Job] /\ jobs' \in [DOMAIN jobs' -> Job]
  BY DEF IInv, TypeOK
<1>2. CASE j \notin DOMAIN jobs /\ j \notin DOMAIN jobs'
  BY <1>2 DEF Life
<1>3. CASE j \notin DOMAIN jobs /\ j \in DOMAIN jobs'
  BY <1>3 DEF Life, JobStep, Active, ActiveStatuses
<1>4. CASE j \in DOMAIN jobs
  <2>1. Life[j] = Seen(jobs[j]) /\ Life'[j] = Seen(jobs'[j])
    BY <1>4 DEF Life, Active, JobStep
  <2>2. jobs[j].status \in ActiveStatuses \cup EndStatuses
        /\ jobs'[j].status \in ActiveStatuses \cup EndStatuses
    BY <1>1, <1>4 DEF Job, JobStep
  <2>3. CASE jobs'[j].status = jobs[j].status
    BY <2>1, <2>3 DEF Active
  <2>4. CASE Active(jobs[j]) /\ (jobs[j].status = "cancelling" =>
                                   jobs'[j].status \in {"cancelled", "failed", "interrupted"})
    BY <2>1, <2>2, <2>4 DEF Active, ActiveStatuses, EndStatuses
  <2> QED
    BY <1>4, <2>3, <2>4 DEF JobStep
<1> QED
  BY <1>2, <1>3, <1>4

(* Whatever requests, threads, crashes and restarts do, the user sees the life of a
   collection: outcomes do not change, and a stop is not taken back. *)
THEOREM Refinement == Spec => ImplementsLifecycle
<1>1. Init => Lifecycle!Init
  BY DEF Init, Life, Lifecycle!Init
<1>2. IInv /\ IInv' /\ [Next]_vars => [Lifecycle!Next]_Life
  <2> SUFFICES ASSUME IInv, IInv', [Next]_vars PROVE Lifecycle!Next
    OBVIOUS
  <2>1. Life' \in [JobIds -> Lifecycle!Lives]
    <3>1. jobs' \in [DOMAIN jobs' -> Job]
      BY DEF IInv, TypeOK
    <3> QED BY <3>1 DEF Life, Lifecycle!Lives, Lifecycle!Ended, Job, Active,
              ActiveStatuses, EndStatuses
  <2>2. \A j \in JobIds : Life'[j] = Life[j] \/ Life'[j] \in Lifecycle!Follows(Life[j])
    BY EveryStep, LifeStep
  <2> QED
    BY <2>1, <2>2 DEF Lifecycle!Next
<1> QED
  BY <1>1, <1>2, Invariance, PTL DEF Spec, ImplementsLifecycle, Lifecycle!Spec

=============================================================================
