---------------------------- MODULE TrackerPage ----------------------------
(***************************************************************************)
(* Imports on the tracker page (routes/[section=trackerSection]/           *)
(* +page.svelte, hosted mode): one operation owns the page at a time, and  *)
(* every asynchronous function that belongs to it asks after each await    *)
(* whether it still does.  An import pauses Drive sync with a lease, the   *)
(* collected records stay in the tab until they are stored, and the job of *)
(* a collection is remembered in the browser until its result is saved.    *)
(***************************************************************************)
EXTENDS Naturals, FiniteSets

CONSTANTS Profiles, None,
          Hasty,    \* whether the person acts again before a chosen profile is shown
          MaxOps, MaxJobs, MaxFaults, MaxLoads

Jobs == 1 .. MaxJobs
Operation == [id : Nat, profile : Profiles]
Collected == [job : 0 .. MaxJobs, op : Nat, profile : Profiles]

ASSUME PageAssumption ==
  /\ MaxOps \in Nat /\ MaxJobs \in Nat
  /\ None \notin Operation \cup Collected

VARIABLES page,      \* the component's state in this tab
          tasks,     \* the functions that wait at an await
          timer,     \* pollTimer
          memory,    \* the remembered job of each profile (localStorage)
          relay,     \* external: the jobs of the public relay
          archive,   \* what is stored
          handed,    \* history: records that saveCollected was given
          given,     \* history: records that the person let go
          count      \* history: faults and page loads

vars == <<page, tasks, timer, memory, relay, archive, handed, given, count>>

NoTimer == [job |-> 0, op |-> 0]

Page ==
  [profile : Profiles, op : Operation \cup {None}, last : 0 .. MaxOps,
   leases : [1 .. MaxOps -> {"none", "waiting", "held", "retired", "done"}],
   drive : {"loading", "ready", "absent"}, retained : Collected \cup {None}, job : 0 .. MaxJobs,
   state : {"idle", "running", "complete", "cancelled", "error"},
   preflight : BOOLEAN, stopping : BOOLEAN, saving : BOOLEAN, polling : BOOLEAN,
   abort : BOOLEAN, preparing : BOOLEAN]

Waiting ==
  [fn : {"import", "poll", "retry", "change", "stop"}, op : Operation,
   pc : {"pause", "lease", "destinations", "file", "collect", "relay", "recover", "match",
         "saving", "refresh", "status", "result", "cancel"},
   mode : {"none", "file", "collect", "relay", "recover"}, job : 0 .. MaxJobs]

TypeOK ==
  /\ page \in Page
  /\ tasks \in SUBSET Waiting
  /\ timer \in {NoTimer} \cup [job : Jobs, op : Operation]
  /\ memory \in [Profiles -> 0 .. MaxJobs]
  /\ relay \in [Jobs -> [status : {"none", "running", "done", "empty", "gone"},
                        profile : Profiles \cup {None}]]
  /\ archive \in SUBSET Collected /\ handed \in SUBSET Collected /\ given \in SUBSET Collected
  /\ count \in [faults : Nat, loads : Nat]

Busy == page.op # None
Changing == \E t \in tasks : t.fn = "change"
Free == ~Changing \/ Hasty

Owns(op) == page.op # None /\ page.op.id = op.id
NewOp(p) == [id |-> page.last + 1, profile |-> p]
Begun(pg, op) == [pg EXCEPT !.op = op, !.last = op.id, !.stopping = FALSE, !.saving = FALSE]

(* operation-pauses.ts: a lease that is still awaited is given back late. *)
Lease(pg, op) == pg.leases[op.id]
SetLease(pg, op, value) == [pg EXCEPT !.leases[op.id] = value]
Unleased(pg, op) ==
  IF Lease(pg, op) = "held" THEN SetLease(pg, op, "done")
  ELSE IF Lease(pg, op) = "waiting" THEN SetLease(pg, op, "retired") ELSE pg

(* Mutant of Finished: the lease of an operation that ended is kept. *)
FinishedOnly(pg, op) ==
  IF pg.op = None \/ pg.op.id # op.id THEN pg
  ELSE [pg EXCEPT !.op = None, !.preflight = FALSE, !.stopping = FALSE, !.saving = FALSE, !.abort = FALSE]

Finished(pg, op) ==
  LET free == Unleased(pg, op)
  IN  IF pg.op = None \/ pg.op.id # op.id THEN free
      ELSE [free EXCEPT !.op = None, !.preflight = FALSE, !.stopping = FALSE, !.saving = FALSE,
                        !.abort = FALSE]

(* A task goes on, or ends; the page changes with it. *)
Task(fn, op, pc, job) == [fn |-> fn, op |-> op, pc |-> pc, mode |-> "none", job |-> job]
Go(t, pc, pg) == tasks' = (tasks \ {t}) \cup {[t EXCEPT !.pc = pc]} /\ page' = pg
(* Mutant of Ended: a poll that returns early leaves its flag set. *)
EndedEarly(t, pg) == tasks' = tasks \ {t} /\ page' = pg

Ended(t, pg) ==
  /\ tasks' = tasks \ {t}
  /\ page' = IF t.fn = "poll" THEN [pg EXCEPT !.polling = FALSE] ELSE pg
Fault == count.faults < MaxFaults /\ count' = [count EXCEPT !.faults = @ + 1]

Error(pg) == [pg EXCEPT !.state = "error"]
Payload(t) ==
  IF t.fn = "retry" THEN page.retained
  ELSE [job |-> t.job, op |-> IF t.job = 0 THEN t.op.id ELSE 0, profile |-> t.op.profile]

-----------------------------------------------------------------------------
(* What the person does *)

World == UNCHANGED <<relay, archive, given>>
Quiet == World /\ UNCHANGED handed

Import ==
  /\ Free /\ ~Busy /\ page.retained = None /\ ~page.preparing
  /\ page.last < MaxOps
  /\ \E mode \in {"file", "collect", "relay", "recover"} :
       LET op == NewOp(page.profile)
       IN  /\ page' = [Begun(page, op) EXCEPT !.preflight = TRUE, !.job = 0, !.state = "running"]
           /\ tasks' = tasks \cup {[Task("import", op, "pause", 0) EXCEPT !.mode = mode]}
  /\ Quiet /\ UNCHANGED <<timer, memory, count>>

(* Choosing files (inspecting) or adding a profile (creating) keeps imports away while it waits. *)
Prepare ==
  /\ Free /\ ~Busy /\ ~page.preparing
  /\ page' = [page EXCEPT !.preparing = TRUE]
  /\ Quiet /\ UNCHANGED <<tasks, timer, memory, count>>

Prepared ==
  /\ page.preparing
  /\ page' = [page EXCEPT !.preparing = FALSE]
  /\ Quiet /\ UNCHANGED <<tasks, timer, memory, count>>

(* pollJob up to its first await *)
Poll(pg, others, job, op) ==
  IF pg.op # op \/ pg.polling THEN page' = pg /\ tasks' = others /\ UNCHANGED timer
  ELSE /\ page' = [pg EXCEPT !.polling = TRUE]
       /\ tasks' = others \cup {Task("poll", op, "pause", job)}
       /\ timer' = NoTimer

(* The selection is open while nothing runs; the new profile loads first. *)
ChangeProfile ==
  /\ Free /\ ~Busy
  /\ Cardinality({t \in tasks : t.fn = "change"}) < 2
  /\ \E p \in Profiles \ {page.profile} :
       /\ page' = [page EXCEPT !.profile = p, !.job = 0,
                     !.state = IF page.retained = None THEN "idle" ELSE @]
       /\ tasks' = tasks \cup {Task("change", [id |-> IF Changing THEN 1 ELSE 0, profile |-> p], "refresh", 0)}
  /\ timer' = NoTimer
  /\ Quiet /\ UNCHANGED <<memory, count>>

(* The chosen profile was deleted: another one is shown (archiveChanged). *)
ProfileDeleted ==
  /\ ~Busy
  /\ \E p \in Profiles \ {page.profile} : page' = [page EXCEPT !.profile = p]
  /\ Quiet /\ UNCHANGED <<tasks, timer, memory, count>>

ProfileShown(t) ==
  /\ t.fn = "change"
  /\ IF memory[page.profile] # 0 /\ page.retained = None /\ page.last < MaxOps
     THEN LET op == NewOp(page.profile)
          IN  Poll(Begun(page, op), tasks \ {t}, memory[page.profile], op)
     ELSE Ended(t, page) /\ UNCHANGED timer
  /\ Quiet /\ UNCHANGED <<memory, count>>

CheckJob ==
  /\ Free /\ page.state = "error" /\ page.retained = None /\ page.last < MaxOps
  /\ LET op == IF Busy THEN page.op ELSE NewOp(page.profile)
     IN  /\ memory[op.profile] # 0
         /\ Poll(IF Busy THEN page ELSE Begun(page, op), tasks, memory[op.profile], op)
  /\ Quiet /\ UNCHANGED <<memory, count>>

RetryCollected ==
  /\ Free /\ page.retained # None /\ ~page.saving /\ ~page.polling /\ page.last < MaxOps
  /\ page.state = "error"
  /\ LET op == IF Busy THEN page.op ELSE NewOp(page.retained.profile)
     IN  /\ page' = [(IF Busy THEN page ELSE Begun(page, op)) EXCEPT !.saving = TRUE, !.state = "running"]
         /\ tasks' = tasks \cup {Task("retry", op, "pause", page.retained.job)}
  /\ Quiet /\ UNCHANGED <<timer, memory, count>>

Discard ==
  /\ page.retained # None /\ page.state = "error" /\ ~page.saving /\ ~page.polling
  /\ given' = given \cup {page.retained}
  /\ LET pg == [page EXCEPT !.retained = None]
     IN  page' = IF Busy THEN Finished(pg, page.op) ELSE pg
  /\ UNCHANGED <<tasks, timer, memory, relay, archive, handed, count>>

Stop ==
  /\ Busy /\ ~page.stopping /\ ~page.saving
  /\ IF page.preflight
     THEN page' = Finished([page EXCEPT !.state = "cancelled"], page.op) /\ UNCHANGED tasks
     ELSE /\ page.abort \/ page.job # 0
          /\ page' = [page EXCEPT !.stopping = TRUE]
          /\ tasks' = IF page.abort THEN tasks
                      ELSE tasks \cup {Task("stop", page.op, "cancel", page.job)}
  /\ Quiet /\ UNCHANGED <<timer, memory, count>>

Cancelled(t) ==
  /\ t.fn = "stop"
  /\ \/ /\ IF Owns(t.op) THEN Poll(page, tasks \ {t}, t.job, t.op)
           ELSE Ended(t, page) /\ UNCHANGED timer
        /\ UNCHANGED count
     \/ /\ Ended(t, IF Owns(t.op) THEN [Error(page) EXCEPT !.stopping = FALSE] ELSE page)
        /\ Fault /\ UNCHANGED timer
  /\ Quiet /\ UNCHANGED memory

-----------------------------------------------------------------------------
(* pauseForImport *)

(* What a caller of pauseForImport does when another operation owns the page. *)
Disowned(t, pg) == Ended(t, IF t.fn = "retry" THEN Finished(pg, t.op) ELSE pg)

Failed(t) ==
  IF t.fn = "retry" THEN Ended(t, Finished(Error(page), t.op))
  ELSE IF ~Owns(t.op) THEN Ended(t, IF t.fn = "import" THEN Finished(page, t.op) ELSE page)
  ELSE IF t.fn = "import" THEN Ended(t, Finished(Error(page), t.op))
  ELSE Ended(t, IF page.retained # None THEN Finished(Error(page), t.op)
                ELSE [Error(page) EXCEPT !.saving = FALSE])

(* Mutant of Store: the tab does not keep the records while they are written. *)
StoreUnkept(t) ==
  /\ Go(t, "saving", [page EXCEPT !.saving = TRUE])
  /\ handed' = handed \cup {Payload(t)}

(* saveCollected up to its write: other records in the tab are not replaced. *)
Store(t) ==
  IF page.retained \notin {None, Payload(t)} THEN Failed(t) /\ UNCHANGED handed
  ELSE /\ Go(t, "saving", [page EXCEPT !.retained = Payload(t), !.saving = TRUE])
       /\ handed' = handed \cup {Payload(t)}

Start(t) ==
  IF t.fn = "retry" THEN Store(t)
  ELSE /\ UNCHANGED handed
       /\ IF t.fn = "poll" THEN Go(t, "status", page)
          ELSE Go(t, t.mode, [page EXCEPT !.preflight = FALSE, !.abort = t.mode = "collect"])

DriveReady(t) ==
  /\ t.pc = "pause" /\ page.drive # "loading"
  /\ IF ~Owns(t.op) THEN Disowned(t, page)
     ELSE IF page.drive = "absent" THEN Go(t, "destinations", page)
     ELSE Go(t, "lease", IF Lease(page, t.op) \in {"none", "done"} THEN SetLease(page, t.op, "waiting") ELSE page)
  /\ Quiet /\ UNCHANGED <<timer, memory, count>>

(* Mutant of Leased: the caller goes on before the running pass has ended. *)
LeasedAtOnce(t) ==
  /\ t.pc = "lease"
  /\ IF Owns(t.op) THEN Go(t, "destinations", page) ELSE Disowned(t, Unleased(page, t.op))
  /\ Quiet /\ UNCHANGED <<timer, memory, count>>

Leased(t) ==
  /\ t.pc = "lease" /\ Lease(page, t.op) \in {"held", "done"}
  /\ IF Owns(t.op) THEN Go(t, "destinations", page) ELSE Disowned(t, Unleased(page, t.op))
  /\ Quiet /\ UNCHANGED <<timer, memory, count>>

(* The destination is looked up again after the pass that was awaited; a poll
   goes straight on. *)
Destinations(t) ==
  /\ t.pc = "destinations"
  /\ IF ~Owns(t.op) THEN Disowned(t, page) /\ UNCHANGED <<count, handed>>
     ELSE \/ Start(t) /\ UNCHANGED count
          \/ t.fn # "poll" /\ Failed(t) /\ Fault /\ UNCHANGED handed
  /\ World /\ UNCHANGED <<timer, memory>>

(* SyncControl: the pass in progress ends and the lease is given. *)
Grant ==
  /\ \E i \in 1 .. MaxOps :
       /\ page.leases[i] \in {"waiting", "retired"}
       /\ page' = [page EXCEPT !.leases[i] = IF @ = "waiting" THEN "held" ELSE "done"]
  /\ Quiet /\ UNCHANGED <<tasks, timer, memory, count>>

DriveLoads ==
  /\ page.drive = "loading"
  /\ \E drive \in {"ready", "absent"} : page' = [page EXCEPT !.drive = drive]
  /\ Quiet /\ UNCHANGED <<tasks, timer, memory, count>>

-----------------------------------------------------------------------------
(* The work of an import *)

Done(t, pg) == Ended(t, Finished(pg, t.op))

(* Files are read, or the browser collects; a stopped or failed collection may
   leave partial records, which are saved like the others. *)
Read(t) ==
  /\ t.pc \in {"file", "collect"}
  /\ IF ~Owns(t.op) THEN Done(t, page) /\ UNCHANGED <<count, handed>>
     ELSE \/ Store(t) /\ UNCHANGED count
          \/ /\ t.pc = "collect" /\ page.stopping
             /\ Go(t, "refresh", [page EXCEPT !.state = "cancelled"]) /\ UNCHANGED <<count, handed>>
          \/ Failed(t) /\ Fault /\ UNCHANGED handed
  /\ World /\ UNCHANGED <<timer, memory>>

(* The relay may take the capture although its answer is lost. *)
Submit(t) ==
  /\ t.pc = "relay"
  /\ \/ /\ \E j \in Jobs : relay[j].status = "none"
        /\ LET j == CHOOSE j \in Jobs : relay[j].status = "none"
           IN  /\ relay' = [relay EXCEPT ![j] = [status |-> "running", profile |-> t.op.profile]]
               /\ \/ /\ Owns(t.op)
                     /\ memory' = [memory EXCEPT ![t.op.profile] = j]
                     /\ Poll([page EXCEPT !.job = j], tasks \ {t}, j, t.op)
                     /\ UNCHANGED count
                  \/ ~Owns(t.op) /\ Done(t, page) /\ UNCHANGED <<memory, timer, count>>
                  \/ Failed(t) /\ Fault /\ UNCHANGED <<memory, timer>>
     \/ Failed(t) /\ Fault /\ UNCHANGED <<memory, timer, relay>>
     \/ (\A j \in Jobs : relay[j].status # "none") /\ Failed(t) /\ UNCHANGED <<memory, timer, relay, count>>
  /\ UNCHANGED <<archive, handed, given>>

(* The saved snapshots of the verified account are imported one by one. *)
Recover(t) ==
  /\ t.pc \in {"recover", "match"}
  /\ IF ~Owns(t.op) THEN Done(t, page) /\ UNCHANGED count
     ELSE \/ t.pc = "recover" /\ Go(t, "match", page) /\ UNCHANGED count
          \/ t.pc = "match" /\ Go(t, "saving", [page EXCEPT !.saving = TRUE]) /\ UNCHANGED count
          \/ Failed(t) /\ Fault
  /\ Quiet /\ UNCHANGED <<timer, memory>>

Saved(t) ==
  /\ t.pc = "saving"
  /\ \/ LET pg == IF t.mode = "recover" THEN page ELSE [page EXCEPT !.retained = None]
        IN  /\ archive' = archive \cup {Payload(t)}
            /\ IF t.fn # "retry" /\ ~Owns(t.op)
               THEN /\ IF t.fn = "import" THEN Done(t, pg) ELSE Ended(t, pg)
                    /\ UNCHANGED memory
               ELSE /\ Go(t, "refresh", [pg EXCEPT !.state = "complete"])
                    /\ memory' = IF t.fn = "import" THEN memory ELSE [memory EXCEPT ![t.op.profile] = 0]
            /\ UNCHANGED count
     \/ Failed(t) /\ Fault /\ UNCHANGED <<archive, memory>>
  /\ UNCHANGED <<timer, relay, handed, given>>

Refreshed(t) ==
  /\ t.pc = "refresh" /\ t.fn # "change"
  /\ Done(t, page)
  /\ Quiet /\ UNCHANGED <<timer, memory, count>>

-----------------------------------------------------------------------------
(* The remembered job *)

Gone(t) ==
  /\ memory' = [memory EXCEPT ![t.op.profile] = 0]
  /\ Done(t, Error(page))

Status(t) ==
  /\ t.pc = "status"
  /\ LET status == relay[t.job].status
     IN  IF ~Owns(t.op) THEN Ended(t, page) /\ UNCHANGED <<timer, memory, count>>
         ELSE \/ /\ status = "running"
                 /\ timer' = [job |-> t.job, op |-> t.op]
                 /\ memory' = [memory EXCEPT ![t.op.profile] = t.job]
                 /\ Ended(t, [page EXCEPT !.job = t.job, !.state = "running"]) /\ UNCHANGED count
              \/ /\ status = "done"
                 /\ Go(t, "result", [page EXCEPT !.job = t.job, !.saving = TRUE])
                 /\ UNCHANGED <<timer, memory, count>>
              \/ /\ status = "empty"
                 /\ memory' = [memory EXCEPT ![t.op.profile] = 0]
                 /\ Go(t, "refresh", [page EXCEPT !.job = t.job, !.state = "cancelled"])
                 /\ UNCHANGED <<timer, count>>
              \/ status = "gone" /\ Gone(t) /\ UNCHANGED <<timer, count>>
              \/ Failed(t) /\ Fault /\ UNCHANGED <<timer, memory>>
  /\ Quiet

Result(t) ==
  /\ t.pc = "result"
  /\ IF ~Owns(t.op) THEN Ended(t, page) /\ UNCHANGED <<memory, count, handed>>
     ELSE \/ relay[t.job].status = "done" /\ Store(t) /\ UNCHANGED <<memory, count>>
          \/ relay[t.job].status = "gone" /\ Gone(t) /\ UNCHANGED <<count, handed>>
          \/ Failed(t) /\ Fault /\ UNCHANGED <<memory, handed>>
  /\ World /\ UNCHANGED timer

TimerFires ==
  /\ timer.job # 0
  /\ IF Owns(timer.op) THEN Poll(page, tasks, timer.job, timer.op)
     ELSE timer' = NoTimer /\ UNCHANGED <<page, tasks>>
  /\ Quiet /\ UNCHANGED <<memory, count>>

-----------------------------------------------------------------------------
(* External: the relay; and the life of the tab *)

RelayStep ==
  \E j \in Jobs :
    /\ \/ relay[j].status = "running" /\ \E end \in {"done", "empty"} : relay' = [relay EXCEPT ![j].status = end]
       \/ relay[j].status \in {"done", "empty"} /\ relay' = [relay EXCEPT ![j].status = "gone"]
    /\ UNCHANGED <<page, tasks, timer, memory, archive, handed, given, count>>

NewPage(p, last) ==
  [profile |-> p, op |-> None, last |-> last, leases |-> [i \in 1 .. MaxOps |-> "none"], drive |-> "loading",
   preflight |-> FALSE, stopping |-> FALSE, saving |-> FALSE, polling |-> FALSE, abort |-> FALSE,
   preparing |-> FALSE, retained |-> None, state |-> "idle", job |-> 0]

(* The tab is closed or reloaded: initialize asks for the remembered job. *)
Reload ==
  /\ count.loads < MaxLoads
  /\ count' = [count EXCEPT !.loads = @ + 1]
  /\ given' = given \cup ({page.retained} \ {None})
  /\ archive' \in {archive} \cup {archive \cup {page.retained} : t \in {t \in tasks : t.pc = "saving" /\ t.mode # "recover"}}
  /\ LET pg == NewPage(page.profile, page.last)
         op == [id |-> page.last + 1, profile |-> page.profile]
     IN  IF memory[page.profile] # 0 /\ page.last < MaxOps
         THEN Poll(Begun(pg, op), {}, memory[page.profile], op)
         ELSE page' = pg /\ tasks' = {} /\ timer' = NoTimer
  /\ UNCHANGED <<memory, relay, handed>>

Init ==
  /\ \E p \in Profiles : page = NewPage(p, 0)
  /\ tasks = {} /\ timer = NoTimer
  /\ memory = [p \in Profiles |-> 0]
  /\ relay = [j \in Jobs |-> [status |-> "none", profile |-> None]]
  /\ archive = {} /\ handed = {} /\ given = {}
  /\ count = [faults |-> 0, loads |-> 0]

Person == Import \/ Prepare \/ ChangeProfile \/ CheckJob \/ RetryCollected \/ Discard \/ Stop \/ Reload

Continue(t) ==
  \/ ProfileShown(t) \/ Cancelled(t) \/ DriveReady(t) \/ Leased(t) \/ Destinations(t)
  \/ Read(t) \/ Submit(t) \/ Recover(t) \/ Saved(t) \/ Refreshed(t) \/ Status(t) \/ Result(t)

Machine == ProfileDeleted \/ Prepared \/ Grant \/ DriveLoads \/ TimerFires \/ (\E t \in tasks : Continue(t))

Next == Person \/ Machine \/ RelayStep

Spec == Init /\ [][Next]_vars

(* Requests are answered, leases are given and jobs end; nothing is asked of
   the person. *)
FairSpec ==
  /\ Spec /\ WF_vars(Prepared) /\ WF_vars(Grant) /\ WF_vars(DriveLoads) /\ WF_vars(TimerFires)
  /\ WF_vars(\E t \in tasks : Continue(t)) /\ WF_vars(RelayStep)

-----------------------------------------------------------------------------
(* Records that were collected are stored, still in the tab, or let go by the
   person, who left the page or discarded them: no failed save, other operation
   or second collection loses them (saveCollected, pollJob, retryCollected). *)
CollectedStays == \A x \in handed : x \in archive \/ x = page.retained \/ x \in given

(* While records are being written, sync is paused for their operation. *)
WritesPaused ==
  \A t \in tasks : t.pc = "saving" /\ page.drive = "ready" => Lease(page, t.op) = "held"

(* A lease never outlives what it was taken for: nobody else gives it back, and
   sync would stay stopped until the page is closed. *)
NoOrphanLease ==
  \A i \in 1 .. MaxOps : page.leases[i] \in {"waiting", "held"} =>
    \/ page.op # None /\ page.op.id = i
    \/ \E t \in tasks : t.fn \in {"import", "poll", "retry"} /\ t.op.id = i

(* Sync is paused while records are written, and the pause is given back when
   what it was taken for is over. *)
PauseFollowsWrites == WritesPaused /\ NoOrphanLease

(* An operation ends, or the person is told that it needs attention. *)
EveryImportEnds == page.op # None ~> (page.op = None \/ page.state = "error")

(* "Freeze every input before the first await; callbacks cannot redirect this
   import" (+page.svelte, runImport): an operation is not replaced. *)
ImportNotRedirected ==
  [][page.op # None /\ page'.op # None /\ count' = count => page'.op = page.op]_vars

=============================================================================
