------------------------- MODULE TrackerPageProofs -------------------------
(***************************************************************************)
(* The tracker page keeps what was collected, pauses sync for as long as   *)
(* it writes, and keeps its operations apart, for any number of them and   *)
(* any faults, jobs and reloads, as long as the person waits until a       *)
(* chosen profile is shown (Hasty = FALSE; see ImportNotRedirected).       *)
(*                                                                         *)
(* The invariant is stated of any page, tasks and timer, so that an action *)
(* can be followed through the intermediate pages it is composed of.       *)
(***************************************************************************)
EXTENDS TrackerPage, TLAPS

Workers(ts) == {t \in ts : t.fn \in {"import", "poll", "retry"}}
Early == {"pause", "lease", "destinations"}
Mine(pg, op) == pg.op # None /\ pg.op.id = op.id

(* An import or a retry shares its operation with nothing else. *)
Exclusive(t) == t.fn \in {"import", "retry"}

(* Tasks and timer name operations of this tab by number, and a number names
   one operation. *)
Known(pg, ts, tm) ==
  /\ pg.op # None => pg.op.id \in 1 .. pg.last
  /\ \A t \in ts : t.fn # "change" =>
       /\ t.op.id \in 1 .. pg.last
       /\ Mine(pg, t.op) => t.op = pg.op
  /\ tm.job # 0 =>
       /\ tm.op.id \in 1 .. pg.last
       /\ Mine(pg, tm.op) => tm.op = pg.op

(* Where a function can wait, and what it carries. *)
Shape(t) ==
  /\ t.fn = "change" => t.pc = "refresh"
  /\ t.fn = "stop" => t.pc = "cancel" /\ t.job # 0
  /\ t.fn = "poll" => t.pc \in Early \cup {"status", "result", "saving", "refresh"} /\ t.job # 0
  /\ t.fn = "retry" => t.pc \in Early \cup {"saving", "refresh"}
  /\ t.fn = "import" =>
       /\ t.pc \in Early \cup {"file", "collect", "relay", "recover", "match", "saving", "refresh"}
       /\ t.mode # "none"
  /\ t.mode = "recover" => t.fn = "import"
  /\ t.pc \in {"recover", "match"} => t.mode = "recover"

(* One function works for the operation that owns the page. *)
Single(pg, ts) ==
  \A t, u \in Workers(ts) : Mine(pg, t.op) /\ Mine(pg, u.op) => t = u

(* Only an import that has not yet begun its work can lose the page, and that
   is what preflight means. *)
Committed(pg, ts) ==
  /\ \A t \in Workers(ts) : t.fn # "import" \/ t.pc \notin Early => Mine(pg, t.op)
  /\ \A t \in Workers(ts) : Mine(pg, t.op) =>
       (pg.preflight <=> t.fn = "import" /\ t.pc \in Early)
  /\ pg.preflight => \E t \in Workers(ts) : Mine(pg, t.op)

(* A profile is loaded while nothing runs. *)
Idle(pg, ts) ==
  \A t \in ts : t.fn = "change" => pg.op = None /\ \A u \in ts : u.fn = "change" => u = t

(* A poll has set its flag. *)
Polled(pg, ts) == \A t \in ts : t.fn = "poll" => pg.polling

(* No stop, timer or error comes to an import or a retry, nor an older job to
   an import. *)
Alone(pg, ts, tm) ==
  \A t \in ts : Exclusive(t) /\ Mine(pg, t.op) =>
    /\ \A u \in ts : u.fn = "stop" => u.op.id # t.op.id
    /\ tm.job # 0 => tm.op.id # t.op.id
    /\ pg.state # "error"
    /\ t.fn = "import" => pg.job = 0

Records(t) == [job |-> t.job, op |-> IF t.job = 0 THEN t.op.id ELSE 0, profile |-> t.op.profile]

(* While records are written the page shows it, and keeps them. *)
Writing(pg, ts) ==
  /\ \A t \in Workers(ts) : t.fn = "retry" \/ t.pc = "saving" => pg.saving
  /\ pg.op # None /\ pg.retained # None => pg.saving
  /\ \A t \in Workers(ts) : t.pc = "saving" /\ t.fn # "retry" /\ t.mode # "recover" =>
       pg.retained = Records(t)
  /\ \A t \in Workers(ts) : t.fn = "retry" /\ t.pc # "refresh" => pg.retained # None

(* The operation that owns the page is the only one with a lease, and a
   function that works has it. *)
Leasing(pg, ts) ==
  /\ pg.op # None => Lease(pg, pg.op) \in {"none", "waiting", "held"}
  /\ \A i \in 1 .. MaxOps :
       /\ pg.leases[i] \in {"waiting", "held"} => pg.op # None /\ pg.op.id = i
       /\ i > pg.last => pg.leases[i] = "none"
  /\ \A t \in Workers(ts) : Mine(pg, t.op) =>
       /\ t.pc # "pause" => pg.drive # "loading"
       /\ t.pc = "lease" => Lease(pg, t.op) # "none"
       /\ t.pc \notin {"pause", "lease"} /\ pg.drive = "ready" => Lease(pg, t.op) = "held"

Sound(pg, ts, tm) ==
  /\ Known(pg, ts, tm) /\ \A t \in ts : Shape(t)
  /\ Single(pg, ts) /\ Committed(pg, ts) /\ Idle(pg, ts) /\ Polled(pg, ts)
  /\ Alone(pg, ts, tm) /\ Writing(pg, ts) /\ Leasing(pg, ts)

IInv == TypeOK /\ Sound(page, tasks, timer) /\ CollectedStays

Timer == {NoTimer} \cup [job : Jobs, op : Operation]

(***************************************************************************)
(* Pages, tasks and timers                                                 *)
(***************************************************************************)

(* A change of the page that no function looks at. *)
Alike(q, pg) ==
  /\ q.op = pg.op /\ q.last = pg.last /\ q.leases = pg.leases /\ q.drive = pg.drive
  /\ q.retained = pg.retained /\ q.preflight = pg.preflight
  /\ q.saving = pg.saving /\ q.polling = pg.polling
  /\ pg.op # None => q.job = pg.job /\ (q.state = "error" => pg.state = "error")

LEMMA AlikeKeeps ==
  ASSUME NEW pg, NEW q, NEW ts, NEW tm, Sound(pg, ts, tm), Alike(q, pg)
  PROVE  Sound(q, ts, tm)
<1> USE DEF Alike, Mine, Workers
<1>1. Known(q, ts, tm) /\ Single(q, ts) /\ Committed(q, ts) /\ Idle(q, ts) /\ Polled(q, ts)
  BY DEF Sound, Known, Single, Committed, Idle, Polled
<1>2. Alone(q, ts, tm) /\ Writing(q, ts) /\ Leasing(q, ts)
  BY DEF Sound, Alone, Writing, Leasing, Lease
<1> QED
  BY <1>1, <1>2 DEF Sound

(* A function ends that did not keep the page in preflight. *)
LEMMA DropKeeps ==
  ASSUME NEW pg, NEW ts, NEW tm, Sound(pg, ts, tm), NEW t \in ts,
         pg.preflight /\ t \in Workers(ts) => ~Mine(pg, t.op)
  PROVE  Sound(pg, ts \ {t}, tm)
<1> DEFINE rest == ts \ {t}
<1>1. \A u \in rest : u \in ts /\ u # t
  OBVIOUS
<1>2. \A u : u \in Workers(rest) <=> u \in Workers(ts) /\ u # t
  BY DEF Workers
<1>3. Known(pg, rest, tm) /\ Idle(pg, rest) /\ Polled(pg, rest) /\ Alone(pg, rest, tm)
  BY <1>1 DEF Sound, Known, Idle, Polled, Alone
<1>4. Single(pg, rest) /\ Writing(pg, rest) /\ Leasing(pg, rest)
  BY <1>2 DEF Sound, Single, Writing, Leasing
<1>5. Committed(pg, rest)
  BY <1>2 DEF Sound, Committed
<1> QED
  BY <1>1, <1>3, <1>4, <1>5 DEF Sound

(* What giving a lease back does to a page. *)
LEMMA UnleasedPage ==
  ASSUME NEW pg \in Page, NEW op \in Operation, op.id \in 1 .. MaxOps
  PROVE  LET f == Unleased(pg, op)
         IN  /\ f \in Page
             /\ f.op = pg.op /\ f.last = pg.last /\ f.drive = pg.drive /\ f.retained = pg.retained
             /\ f.polling = pg.polling
             /\ \A i \in 1 .. MaxOps : f.leases[i] =
                  IF i = op.id /\ pg.leases[i] = "held" THEN "done"
                  ELSE IF i = op.id /\ pg.leases[i] = "waiting" THEN "retired" ELSE pg.leases[i]
<1>1. CASE Lease(pg, op) = "held"
  BY <1>1 DEF Unleased, Lease, SetLease, Page
<1>2. CASE Lease(pg, op) = "waiting"
  BY <1>2 DEF Unleased, Lease, SetLease, Page
<1>3. CASE Lease(pg, op) \notin {"held", "waiting"}
  BY <1>3 DEF Unleased, Lease, Page
<1> QED
  BY <1>1, <1>2, <1>3

(* The work of an operation has ended: its worker leaves, or the operation was
   stopped before its import began to work. *)
LEMMA FinishKeeps ==
  ASSUME NEW pg \in Page, NEW ts \in SUBSET Waiting, NEW tm, Sound(pg, ts, tm),
         NEW op \in Operation, Mine(pg, op), NEW s \in {"idle", "running", "complete", "cancelled", "error"},
         NEW rest \in SUBSET ts,
         \A u \in Workers(rest) : Mine(pg, u.op) => u.fn = "import" /\ u.pc \in Early
  PROVE  /\ Finished([pg EXCEPT !.state = s], op) \in Page
         /\ Sound(Finished([pg EXCEPT !.state = s], op), rest, tm)
         /\ Finished([pg EXCEPT !.state = s], op).polling = pg.polling
         /\ Finished([pg EXCEPT !.state = s], op).retained = pg.retained
<1> DEFINE q == Finished([pg EXCEPT !.state = s], op)
<1>1. pg.op = op \/ pg.op.id = op.id
  BY DEF Mine
<1>2. op.id \in 1 .. MaxOps
  BY PageAssumption DEF Mine, Sound, Known, Page
<1> DEFINE r == [pg EXCEPT !.state = s]
<1>13. /\ r \in Page
       /\ r.op = pg.op /\ r.last = pg.last /\ r.drive = pg.drive /\ r.retained = pg.retained
       /\ r.polling = pg.polling /\ r.leases = pg.leases
  BY DEF Page
<1>14. q = Finished(r, op)
  OBVIOUS
<1> HIDE DEF r
<1>16. LET f == Unleased(r, op)
       IN  /\ f \in Page
           /\ f.op = pg.op /\ f.last = pg.last /\ f.drive = pg.drive /\ f.retained = pg.retained
           /\ f.polling = pg.polling
           /\ \A i \in 1 .. MaxOps : f.leases[i] =
                IF i = op.id /\ pg.leases[i] = "held" THEN "done"
                ELSE IF i = op.id /\ pg.leases[i] = "waiting" THEN "retired" ELSE pg.leases[i]
  BY <1>2, <1>13, UnleasedPage
<1>3. /\ q \in Page
      /\ q.op = None /\ q.last = pg.last /\ q.drive = pg.drive /\ q.retained = pg.retained
      /\ q.polling = pg.polling /\ ~q.preflight /\ ~q.saving
      /\ \A i \in 1 .. MaxOps : q.leases[i] =
           IF i = op.id /\ pg.leases[i] = "held" THEN "done"
           ELSE IF i = op.id /\ pg.leases[i] = "waiting" THEN "retired" ELSE pg.leases[i]
  <2> DEFINE f == Unleased(r, op)
  <2>1. q = [f EXCEPT !.op = None, !.preflight = FALSE, !.stopping = FALSE, !.saving = FALSE, !.abort = FALSE]
    BY <1>13, <1>14 DEF Mine, Finished
  <2>2. /\ f \in Page
        /\ f.op = pg.op /\ f.last = pg.last /\ f.drive = pg.drive /\ f.retained = pg.retained
        /\ f.polling = pg.polling
        /\ \A i \in 1 .. MaxOps : f.leases[i] =
             IF i = op.id /\ pg.leases[i] = "held" THEN "done"
             ELSE IF i = op.id /\ pg.leases[i] = "waiting" THEN "retired" ELSE pg.leases[i]
    BY <1>16
  <2> HIDE DEF f, q
  <2>3. q \in Page
    BY <2>1, <2>2 DEF Page
  <2>4. /\ q.op = None /\ q.last = f.last /\ q.drive = f.drive /\ q.retained = f.retained
        /\ q.polling = f.polling /\ ~q.preflight /\ ~q.saving /\ q.leases = f.leases
    BY <2>1, <2>2 DEF Page
  <2> QED
    BY <2>2, <2>3, <2>4
<1> HIDE DEF q
<1>4. \A o : ~Mine(q, o)
  BY <1>3 DEF Mine
<1>5. \A u \in rest : u \in ts
  OBVIOUS
<1>6. \A u : u \in Workers(rest) => u \in Workers(ts)
  BY <1>5 DEF Workers
<1>7. \A u \in Workers(rest) : u.fn = "import" /\ u.pc \in Early
  BY <1>6 DEF Sound, Committed
<1>8. Known(q, rest, tm) /\ Single(q, rest) /\ Polled(q, rest) /\ Alone(q, rest, tm)
  BY <1>3, <1>4, <1>5 DEF Sound, Known, Single, Polled, Alone
<1>9. Committed(q, rest)
  BY <1>3, <1>4, <1>7 DEF Committed
<1>10. Writing(q, rest)
  BY <1>3, <1>7 DEF Writing, Early
<1>11. Leasing(q, rest)
  BY <1>2, <1>3, <1>4 DEF Sound, Known, Leasing, Mine, Page
<1>12. Idle(q, rest)
  BY <1>3, <1>5 DEF Sound, Idle
<1> QED
  BY <1>3, <1>5, <1>8, <1>9, <1>10, <1>11, <1>12 DEF Sound, q

(* A poll gives its flag back. *)
LEMMA PollEnds ==
  ASSUME NEW pg \in Page, NEW ts, NEW tm, Sound(pg, ts, tm), \A u \in ts : u.fn # "poll"
  PROVE  /\ [pg EXCEPT !.polling = FALSE] \in Page
         /\ Sound([pg EXCEPT !.polling = FALSE], ts, tm)
<1> DEFINE q == [pg EXCEPT !.polling = FALSE]
<1>1. /\ q \in Page
      /\ q.op = pg.op /\ q.last = pg.last /\ q.leases = pg.leases /\ q.drive = pg.drive
      /\ q.retained = pg.retained /\ q.job = pg.job /\ q.preflight = pg.preflight
      /\ q.saving = pg.saving /\ q.state = pg.state
  BY DEF Page
<1> HIDE DEF q
<1> USE DEF Mine, Workers
<1>2. Known(q, ts, tm) /\ Single(q, ts) /\ Committed(q, ts) /\ Idle(q, ts) /\ Polled(q, ts)
  BY <1>1 DEF Sound, Known, Single, Committed, Idle, Polled
<1>3. Alone(q, ts, tm) /\ Writing(q, ts) /\ Leasing(q, ts)
  BY <1>1 DEF Sound, Alone, Writing, Leasing, Lease
<1>4. Sound(q, ts, tm)
  BY <1>2, <1>3 DEF Sound
<1> QED
  BY <1>1, <1>4 DEF q

(* The timer is cleared. *)
LEMMA TimerOff ==
  ASSUME NEW pg, NEW ts, NEW tm, Sound(pg, ts, tm)
  PROVE  Sound(pg, ts, NoTimer)
BY DEF Sound, Known, Alone, NoTimer

(* What does not own the page has no lease to give back, and ends nothing. *)
LEMMA StrangerFinishes ==
  ASSUME NEW pg \in Page, NEW ts, NEW tm, Sound(pg, ts, tm),
         NEW op \in Operation, op.id \in 1 .. pg.last, ~Mine(pg, op)
  PROVE  Unleased(pg, op) = pg /\ Finished(pg, op) = pg
<1>1. op.id \in 1 .. MaxOps
  BY PageAssumption DEF Page
<1>2. Lease(pg, op) \notin {"waiting", "held"}
  BY <1>1 DEF Sound, Leasing, Lease, Mine
<1>3. Unleased(pg, op) = pg
  BY <1>2 DEF Unleased
<1> QED
  BY <1>3 DEF Finished, Mine

(* A function that works for the owner of the page goes on to u, on page q. *)
LEMMA MoveKeeps ==
  ASSUME NEW pg \in Page, NEW q \in Page, NEW ts \in SUBSET Waiting, NEW tm, Sound(pg, ts, tm),
         NEW t \in Workers(ts), Mine(pg, t.op), NEW u, u.fn = t.fn, u.op = t.op, Shape(u),
         q.op = pg.op, q.last = pg.last, q.drive = pg.drive, q.polling = pg.polling,
         q.preflight <=> u.fn = "import" /\ u.pc \in Early,
         Exclusive(u) => q.state # "error",
         u.fn = "import" => q.job = 0,
         u.fn = "retry" \/ u.pc = "saving" \/ q.retained # None => q.saving,
         u.pc = "saving" /\ u.fn # "retry" /\ u.mode # "recover" => q.retained = Records(u),
         u.fn = "retry" /\ u.pc # "refresh" => q.retained # None,
         \A i \in 1 .. MaxOps : i # u.op.id => q.leases[i] = pg.leases[i],
         Lease(q, u.op) \in {"none", "waiting", "held"},
         u.pc # "pause" => q.drive # "loading",
         u.pc = "lease" => Lease(q, u.op) # "none",
         u.pc \notin {"pause", "lease"} /\ q.drive = "ready" => Lease(q, u.op) = "held"
  PROVE  Sound(q, (ts \ {t}) \cup {u}, tm)
<1> DEFINE now == (ts \ {t}) \cup {u}
<1>1. \A v \in now : v = u \/ (v \in ts /\ v # t)
  OBVIOUS
<1>2. u \in Workers(now) /\ \A v \in Workers(now) : v = u \/ (v \in Workers(ts) /\ v # t)
  BY DEF Workers
<1>3. \A o : Mine(q, o) <=> Mine(pg, o)
  BY DEF Mine
<1>4. \A v \in Workers(now) : v = u \/ (v \in Workers(ts) /\ ~Mine(pg, v.op) /\ v.fn = "import" /\ v.pc \in Early)
  BY <1>2 DEF Sound, Single, Committed
<1>5. Known(q, now, tm)
  BY <1>1, <1>3 DEF Sound, Known, Workers
<1>6. Single(q, now)
  BY <1>2, <1>3, <1>4 DEF Single
<1>7. Committed(q, now)
  BY <1>2, <1>3, <1>4 DEF Committed
<1>8. Idle(q, now)
  BY <1>1 DEF Sound, Idle, Workers
<1>9. Polled(q, now)
  BY <1>1 DEF Sound, Polled, Workers
<1>10. Alone(q, now, tm)
  BY <1>1, <1>2, <1>3, <1>4 DEF Sound, Alone, Exclusive, Workers
<1>11. Writing(q, now)
  BY <1>4 DEF Writing, Early, Mine
<1>12. Leasing(q, now)
  BY <1>2, <1>3, <1>4 DEF Sound, Leasing, Lease, Mine, Known, Page, Workers
<1>13. \A v \in now : Shape(v)
  BY <1>1 DEF Sound
<1> QED
  BY <1>5, <1>6, <1>7, <1>8, <1>9, <1>10, <1>11, <1>12, <1>13 DEF Sound

(***************************************************************************)
(* What the functions of the page have in common                           *)
(***************************************************************************)

Kept(pg, ts, tm) == pg \in Page /\ ts \in SUBSET Waiting /\ tm \in Timer /\ Sound(pg, ts, tm)

Rest ==
  /\ memory \in [Profiles -> 0 .. MaxJobs]
  /\ relay \in [Jobs -> [status : {"none", "running", "done", "empty", "gone"},
                        profile : Profiles \cup {None}]]
  /\ archive \in SUBSET Collected /\ handed \in SUBSET Collected /\ given \in SUBSET Collected
  /\ count \in [faults : Nat, loads : Nat]

LEMMA Parts == IInv => Kept(page, tasks, timer) /\ Rest /\ CollectedStays
BY DEF IInv, TypeOK, Kept, Rest, Timer

(* A step that keeps the page sound and loses no records keeps the invariant. *)
LEMMA StepKeeps ==
  ASSUME IInv, Kept(page', tasks', timer'), Rest',
         handed' \subseteq handed \cup {page'.retained},
         archive \subseteq archive', given \subseteq given',
         page.retained \in {None, page'.retained} \cup archive' \cup given'
  PROVE  IInv'
<1>1. TypeOK' /\ Sound(page', tasks', timer')
  BY DEF Kept, Rest, TypeOK, Timer
<1>2. None \notin handed
  BY PageAssumption DEF IInv, TypeOK
<1>3. CollectedStays'
  BY <1>2 DEF IInv, CollectedStays
<1> QED
  BY <1>1, <1>3 DEF IInv

(* The owner of the page waits for a poll, and no other function works for it. *)
LEMMA PollBegins ==
  ASSUME NEW pg, NEW ts, NEW tm, Kept(pg, ts, tm), NEW op \in Operation, NEW job \in Jobs,
         pg.op = op, \A u \in Workers(ts) : ~Mine(pg, u.op)
  PROVE  Kept([pg EXCEPT !.polling = TRUE], ts \cup {Task("poll", op, "pause", job)}, NoTimer)
<1> DEFINE q == [pg EXCEPT !.polling = TRUE]
           u == Task("poll", op, "pause", job)
           now == ts \cup {u}
<1>1. /\ q \in Page
      /\ q.op = pg.op /\ q.last = pg.last /\ q.leases = pg.leases /\ q.drive = pg.drive
      /\ q.retained = pg.retained /\ q.job = pg.job /\ q.preflight = pg.preflight
      /\ q.saving = pg.saving /\ q.state = pg.state /\ q.polling
  BY DEF Kept, Page
<1>2. /\ u \in Waiting
      /\ u.fn = "poll" /\ u.op = op /\ u.pc = "pause" /\ u.job # 0 /\ u.mode = "none"
  BY PageAssumption DEF Task, Waiting, Jobs
<1>3. op # None /\ op.id \in 1 .. pg.last
  BY PageAssumption DEF Kept, Sound, Known
<1>4. NoTimer \in Timer /\ NoTimer.job = 0
  BY DEF Timer, NoTimer
<1> HIDE DEF q, u
<1>5. \A o : Mine(q, o) <=> Mine(pg, o)
  BY <1>1 DEF Mine
<1>6. \A v \in now : v = u \/ v \in ts
  OBVIOUS
<1>7. \A v \in Workers(now) : v = u \/ (v \in Workers(ts) /\ ~Mine(pg, v.op))
  BY <1>6 DEF Workers
<1>8. Known(q, now, NoTimer)
  BY <1>1, <1>2, <1>3, <1>4, <1>5, <1>6 DEF Kept, Sound, Known
<1>9. Single(q, now)
  BY <1>5, <1>7 DEF Single
<1>10. ~pg.preflight
  BY DEF Kept, Sound, Committed
<1>11. Mine(q, u.op)
  BY <1>1, <1>2, <1>3 DEF Mine
<1>12. Committed(q, now)
  BY <1>1, <1>2, <1>5, <1>7, <1>10, <1>11 DEF Kept, Sound, Committed
<1>13. Idle(q, now)
  BY <1>1, <1>2, <1>3, <1>6 DEF Kept, Sound, Idle
<1>14. Polled(q, now)
  BY <1>1 DEF Polled
<1>15. Alone(q, now, NoTimer)
  BY <1>2, <1>4, <1>5, <1>7 DEF Alone, Exclusive, Workers
<1>16. Writing(q, now)
  BY <1>1, <1>2, <1>7 DEF Kept, Sound, Writing
<1>17. Leasing(q, now)
  BY <1>1, <1>2, <1>5, <1>7 DEF Kept, Sound, Leasing, Lease
<1>18. \A v \in now : Shape(v)
  BY <1>2, <1>6 DEF Kept, Sound, Shape, Early
<1>19. Sound(q, now, NoTimer)
  BY <1>8, <1>9, <1>12, <1>13, <1>14, <1>15, <1>16, <1>17, <1>18 DEF Sound
<1>20. q \in Page /\ now \in SUBSET Waiting /\ NoTimer \in Timer /\ Sound(q, now, NoTimer)
  BY <1>1, <1>2, <1>4, <1>19 DEF Kept
<1> QED
  BY <1>20 DEF Kept, q, u

(* pollJob up to its first await. *)
LEMMA PollKeeps ==
  ASSUME NEW pg, NEW ts, NEW op \in Operation, NEW job \in Jobs,
         Kept(pg, ts, timer), Poll(pg, ts, job, op),
         pg.op = op => \A u \in Workers(ts) : Mine(pg, u.op) => u.fn = "poll"
  PROVE  Kept(page', tasks', timer') /\ page'.retained = pg.retained
<1>1. CASE pg.op # op \/ pg.polling
  BY <1>1 DEF Poll
<1>2. CASE pg.op = op /\ ~pg.polling
  <2>1. \A u \in Workers(ts) : ~Mine(pg, u.op)
    BY <1>2 DEF Kept, Sound, Polled, Workers
  <2>2. [pg EXCEPT !.polling = TRUE].retained = pg.retained
    BY DEF Kept, Page
  <2>3. /\ page' = [pg EXCEPT !.polling = TRUE]
        /\ tasks' = ts \cup {Task("poll", op, "pause", job)} /\ timer' = NoTimer
    BY <1>2 DEF Poll
  <2>4. Kept([pg EXCEPT !.polling = TRUE], ts \cup {Task("poll", op, "pause", job)}, NoTimer)
    BY <1>2, <2>1, PollBegins
  <2> QED
    BY <2>2, <2>3, <2>4
<1> QED
  BY <1>1, <1>2

(* The owner's function finishes the operation. *)
LEMMA WorkEnds ==
  ASSUME Kept(page, tasks, timer), NEW t \in Workers(tasks), Mine(page, t.op),
         NEW s \in {"idle", "running", "complete", "cancelled", "error"},
         Ended(t, Finished([page EXCEPT !.state = s], t.op))
  PROVE  Kept(page', tasks', timer) /\ page'.retained = page.retained
<1> DEFINE q == Finished([page EXCEPT !.state = s], t.op)
           rest == tasks \ {t}
<1>1. t \in tasks /\ t \in Waiting /\ t.fn # "change"
  BY DEF Workers, Kept
<1>2. t.op \in Operation
  BY <1>1 DEF Waiting
<1>3. rest \in SUBSET tasks /\ \A u \in Workers(rest) : u \in Workers(tasks) /\ ~Mine(page, u.op)
  BY DEF Kept, Sound, Single, Workers
<1>4. q \in Page /\ Sound(q, rest, timer) /\ q.retained = page.retained
  <2>1. page \in Page /\ tasks \in SUBSET Waiting /\ Sound(page, tasks, timer)
    BY DEF Kept
  <2>2. \A u \in Workers(rest) : Mine(page, u.op) => u.fn = "import" /\ u.pc \in Early
    BY <1>3
  <2> HIDE DEF rest
  <2> QED
    BY <1>2, <1>3, <2>1, <2>2, FinishKeeps, ZenonT(60)
<1> HIDE DEF q
<1>5. CASE t.fn = "poll"
  <2>1. \A u \in rest : u.fn # "poll"
    BY <1>3 DEF Kept, Sound, Committed, Workers
  <2>2. page' = [q EXCEPT !.polling = FALSE] /\ tasks' = rest
    BY <1>5 DEF Ended, q
  <2>3. page'.retained = q.retained
    BY <1>4, <2>2 DEF Page
  <2> QED
    BY <1>3, <1>4, <2>1, <2>2, <2>3, PollEnds DEF Kept
<1>6. CASE t.fn # "poll"
  <2>1. page' = q /\ tasks' = rest
    BY <1>6 DEF Ended, q
  <2> QED
    BY <1>4, <2>1 DEF Kept
<1> QED
  BY <1>5, <1>6

LEMMA WorkDone ==
  ASSUME Kept(page, tasks, timer), NEW t \in Workers(tasks), Mine(page, t.op), Done(t, page)
  PROVE  Kept(page', tasks', timer) /\ page'.retained = page.retained
<1>1. page.state \in {"idle", "running", "complete", "cancelled", "error"}
      /\ [page EXCEPT !.state = page.state] = page
  BY DEF Kept, Page
<1>2. Ended(t, Finished([page EXCEPT !.state = page.state], t.op))
  BY <1>1 DEF Done
<1> QED
  BY <1>1, <1>2, WorkEnds

(* An import that lost the page before its work began leaves nothing. *)
LEMMA StrangerLeaves ==
  ASSUME Kept(page, tasks, timer), NEW t \in Workers(tasks), ~Mine(page, t.op),
         Done(t, page) \/ Disowned(t, page) \/ Disowned(t, Unleased(page, t.op)) \/ Ended(t, page)
  PROVE  Kept(page', tasks', timer) /\ page'.retained = page.retained
<1>1. t.fn = "import" /\ t.pc \in Early
  BY DEF Kept, Sound, Committed
<1>2. t \in tasks /\ t.op \in Operation /\ t.op.id \in 1 .. page.last
  BY <1>1 DEF Workers, Kept, Waiting, Sound, Known
<1>3. Unleased(page, t.op) = page /\ Finished(page, t.op) = page
  BY <1>2, StrangerFinishes DEF Kept
<1>4. page' = page /\ tasks' = tasks \ {t}
  BY <1>1, <1>3 DEF Done, Disowned, Ended
<1>5. Sound(page, tasks \ {t}, timer)
  BY <1>2, DropKeeps DEF Kept
<1> QED
  BY <1>4, <1>5 DEF Kept

(* A poll that cannot be answered leaves the operation to the person. *)
LEMMA LostKeeps ==
  ASSUME Kept(page, tasks, timer), NEW t \in Workers(tasks), Mine(page, t.op),
         t.fn = "poll", page.retained = None, Ended(t, [Error(page) EXCEPT !.saving = FALSE])
  PROVE  Kept(page', tasks', timer) /\ page'.retained = page.retained
<1> DEFINE rest == tasks \ {t}
<1>1. /\ page' \in Page
      /\ page'.op = page.op /\ page'.last = page.last /\ page'.leases = page.leases
      /\ page'.drive = page.drive /\ page'.retained = None /\ page'.job = page.job
      /\ page'.preflight = page.preflight
  BY DEF Kept, Page, Ended, Error
<1>2. tasks' = rest
  BY DEF Ended
<1>3. \A u \in rest : u \in tasks
  OBVIOUS
<1>4. \A u \in Workers(rest) : u \in Workers(tasks) /\ ~Mine(page, u.op) /\ u.fn = "import" /\ u.pc \in Early
  BY DEF Kept, Sound, Single, Committed, Workers
<1>5. \A o : Mine(page', o) <=> Mine(page, o)
  BY <1>1 DEF Mine
<1>6. ~page.preflight
  BY DEF Kept, Sound, Committed
<1> HIDE DEF rest
<1>7. Known(page', rest, timer) /\ Idle(page', rest)
  BY <1>1, <1>3, <1>5 DEF Kept, Sound, Known, Idle
<1>8. Single(page', rest) /\ Committed(page', rest)
  BY <1>1, <1>4, <1>5, <1>6 DEF Single, Committed
<1>9. Polled(page', rest) /\ Alone(page', rest, timer)
  BY <1>4, <1>5 DEF Polled, Alone, Exclusive, Workers
<1>10. Writing(page', rest)
  BY <1>1, <1>4 DEF Writing, Early
<1>11. Leasing(page', rest)
  BY <1>1, <1>4, <1>5 DEF Kept, Sound, Leasing, Lease
<1>12. Sound(page', rest, timer)
  BY <1>3, <1>7, <1>8, <1>9, <1>10, <1>11 DEF Kept, Sound
<1>13. rest \in SUBSET Waiting
  BY <1>3 DEF Kept
<1> QED
  BY <1>1, <1>2, <1>12, <1>13 DEF Kept

(* Whatever fails in a function that works. *)
LEMMA FailedKeeps ==
  ASSUME Kept(page, tasks, timer), NEW t \in Workers(tasks), Failed(t)
  PROVE  Kept(page', tasks', timer) /\ page'.retained = page.retained
<1>1. t.fn \in {"import", "poll", "retry"} /\ (t.fn # "import" => Mine(page, t.op))
  BY DEF Workers, Kept, Sound, Committed
<1>2. Owns(t.op) <=> Mine(page, t.op)
  BY DEF Owns, Mine
<1>3. CASE ~Mine(page, t.op)
  <2>1. Done(t, page)
    BY <1>1, <1>2, <1>3 DEF Failed, Done
  <2> QED
    BY <1>3, <2>1, StrangerLeaves
<1>4. CASE Mine(page, t.op) /\ (t.fn # "poll" \/ page.retained # None)
  <2>1. Ended(t, Finished([page EXCEPT !.state = "error"], t.op))
    BY <1>1, <1>2, <1>4 DEF Failed, Error
  <2> QED
    BY <1>4, <2>1, WorkEnds
<1>5. CASE Mine(page, t.op) /\ t.fn = "poll" /\ page.retained = None
  <2>1. Ended(t, [Error(page) EXCEPT !.saving = FALSE])
    BY <1>2, <1>5 DEF Failed
  <2> QED
    BY <1>5, <2>1, LostKeeps
<1> QED
  BY <1>1, <1>3, <1>4, <1>5

(* A function that works for the owner goes on to the next await. *)
LEMMA GoKeeps ==
  ASSUME Kept(page, tasks, timer), NEW t \in Workers(tasks), Mine(page, t.op), NEW pc, NEW q \in Page,
         Go(t, pc, q), [t EXCEPT !.pc = pc] \in Waiting, Shape([t EXCEPT !.pc = pc]),
         q.op = page.op, q.last = page.last, q.drive = page.drive, q.polling = page.polling,
         q.preflight <=> t.fn = "import" /\ pc \in Early,
         Exclusive(t) => q.state # "error",
         t.fn = "import" => q.job = 0,
         t.fn = "retry" \/ pc = "saving" \/ q.retained # None => q.saving,
         pc = "saving" /\ t.fn # "retry" /\ t.mode # "recover" => q.retained = Records(t),
         t.fn = "retry" /\ pc # "refresh" => q.retained # None,
         \A i \in 1 .. MaxOps : i # t.op.id => q.leases[i] = page.leases[i],
         Lease(q, t.op) \in {"none", "waiting", "held"},
         pc # "pause" => q.drive # "loading",
         pc = "lease" => Lease(q, t.op) # "none",
         pc \notin {"pause", "lease"} /\ q.drive = "ready" => Lease(q, t.op) = "held"
  PROVE  Kept(page', tasks', timer) /\ page' = q
<1> DEFINE u == [t EXCEPT !.pc = pc]
<1>1. t \in Waiting
  BY DEF Workers, Kept
<1>2. u.fn = t.fn /\ u.op = t.op /\ u.pc = pc /\ u.mode = t.mode /\ u.job = t.job
  BY <1>1 DEF Waiting
<1>3. u \in Waiting /\ Shape(u)
  OBVIOUS
<1>4. page' = q /\ tasks' = (tasks \ {t}) \cup {u}
  BY DEF Go
<1> HIDE DEF u
<1>5. Exclusive(u) = Exclusive(t) /\ Records(u) = Records(t)
  BY <1>2 DEF Exclusive, Records
<1>6. Sound(q, (tasks \ {t}) \cup {u}, timer)
  BY <1>2, <1>3, <1>5, MoveKeeps DEF Kept
<1> QED
  BY <1>3, <1>4, <1>6 DEF Kept

(* What is known of the function that works for the owner of the page. *)
LEMMA AtWork ==
  ASSUME Kept(page, tasks, timer), NEW t \in Workers(tasks), Mine(page, t.op)
  PROVE  /\ page \in Page /\ t \in Waiting /\ Shape(t) /\ t.fn \in {"import", "poll", "retry"}
         /\ page.op = t.op /\ t.op.id \in 1 .. MaxOps /\ Owns(t.op)
         /\ page.preflight <=> t.fn = "import" /\ t.pc \in Early
         /\ Exclusive(t) => page.state # "error"
         /\ t.fn = "import" => page.job = 0
         /\ t.fn = "retry" \/ t.pc = "saving" \/ page.retained # None => page.saving
         /\ t.fn = "retry" /\ t.pc # "refresh" => page.retained # None
         /\ t.pc = "saving" /\ t.fn # "retry" /\ t.mode # "recover" => page.retained = Records(t)
         /\ Lease(page, t.op) \in {"none", "waiting", "held"}
         /\ t.pc # "pause" => page.drive # "loading"
         /\ t.pc = "lease" => Lease(page, t.op) # "none"
         /\ t.pc \notin {"pause", "lease"} /\ page.drive = "ready" => Lease(page, t.op) = "held"
         /\ t.fn = "poll" => page.polling
<1>1. t \in tasks /\ t.fn \in {"import", "poll", "retry"} /\ page \in Page /\ t \in Waiting /\ Shape(t)
  BY DEF Workers, Kept, Sound
<1>2. page.op = t.op /\ page.op # None /\ t.op.id \in 1 .. page.last
  BY <1>1 DEF Kept, Sound, Known, Mine
<1>3. t.op.id \in 1 .. MaxOps
  BY <1>1, <1>2, PageAssumption DEF Page
<1>4. Owns(t.op)
  BY DEF Owns, Mine
<1>5. /\ page.preflight <=> t.fn = "import" /\ t.pc \in Early
      /\ t.fn = "poll" => page.polling
  BY <1>1 DEF Kept, Sound, Committed, Polled
<1>6. /\ Exclusive(t) => page.state # "error"
      /\ t.fn = "import" => page.job = 0
  BY <1>1 DEF Kept, Sound, Alone, Exclusive
<1>7. /\ t.fn = "retry" \/ t.pc = "saving" \/ page.retained # None => page.saving
      /\ t.fn = "retry" /\ t.pc # "refresh" => page.retained # None
      /\ t.pc = "saving" /\ t.fn # "retry" /\ t.mode # "recover" => page.retained = Records(t)
  BY <1>2 DEF Kept, Sound, Writing
<1>8. /\ Lease(page, t.op) \in {"none", "waiting", "held"}
      /\ t.pc # "pause" => page.drive # "loading"
      /\ t.pc = "lease" => Lease(page, t.op) # "none"
      /\ t.pc \notin {"pause", "lease"} /\ page.drive = "ready" => Lease(page, t.op) = "held"
  BY <1>2 DEF Kept, Sound, Leasing
<1> QED
  BY <1>1, <1>2, <1>3, <1>4, <1>5, <1>6, <1>7, <1>8

LEMMA PayloadType ==
  ASSUME Kept(page, tasks, timer), NEW t \in Workers(tasks), Mine(page, t.op), t.pc # "refresh"
  PROVE  Payload(t) \in Collected /\ (t.fn # "retry" => Payload(t) = Records(t))
<1>1. t \in Waiting /\ (t.fn = "retry" => page.retained # None) /\ page \in Page
  BY AtWork
<1>2. CASE t.fn = "retry"
  BY <1>1, <1>2 DEF Payload, Page
<1>3. CASE t.fn # "retry"
  <2>1. Payload(t) = Records(t)
    BY <1>3 DEF Payload, Records
  <2>2. t.job \in 0 .. MaxJobs /\ t.op.id \in Nat /\ t.op.profile \in Profiles
    BY <1>1 DEF Waiting, Operation
  <2>3. (IF t.job = 0 THEN t.op.id ELSE 0) \in Nat
    BY <2>2
  <2> QED
    BY <2>1, <2>2, <2>3 DEF Records, Collected
<1> QED
  BY <1>2, <1>3

(* Records are given to saveCollected: the tab keeps them, or refuses them for
   the ones it has. *)
LEMMA StoreKeeps ==
  ASSUME Kept(page, tasks, timer), NEW t \in Workers(tasks), Mine(page, t.op),
         t.fn = "retry" \/ t.pc \notin Early, t.pc \notin {"pause", "lease", "refresh"}, Store(t)
  PROVE  /\ Kept(page', tasks', timer)
         /\ page.retained \in {None, page'.retained}
         /\ \/ handed' = handed
            \/ page'.retained \in Collected /\ handed' = handed \cup {page'.retained}
<1>1. CASE page.retained \notin {None, Payload(t)}
  <2>1. Failed(t) /\ handed' = handed
    BY <1>1 DEF Store
  <2> QED
    BY <2>1, FailedKeeps
<1>2. CASE page.retained \in {None, Payload(t)}
  <2> DEFINE q == [page EXCEPT !.retained = Payload(t), !.saving = TRUE]
  <2>1. Go(t, "saving", q) /\ handed' = handed \cup {Payload(t)}
    BY <1>2 DEF Store
  <2>2. Payload(t) \in Collected /\ (t.fn # "retry" => Payload(t) = Records(t)) /\ Payload(t) # None
    BY PayloadType, PageAssumption
  <2>3. /\ page \in Page /\ t \in Waiting /\ Shape(t) /\ t.fn \in {"import", "poll", "retry"}
        /\ t.op.id \in 1 .. MaxOps
    BY AtWork
  <2>4. /\ q \in Page
        /\ q.op = page.op /\ q.last = page.last /\ q.drive = page.drive /\ q.polling = page.polling
        /\ q.preflight = page.preflight /\ q.state = page.state /\ q.job = page.job /\ q.saving
        /\ q.retained = Payload(t) /\ q.leases = page.leases
    BY <2>2, <2>3 DEF Page
  <2>5. [t EXCEPT !.pc = "saving"] \in Waiting /\ Shape([t EXCEPT !.pc = "saving"])
    BY <2>3 DEF Waiting, Shape
  <2> HIDE DEF q
  <2>6. Lease(q, t.op) = Lease(page, t.op)
    BY <2>4 DEF Lease
  <2>7. Kept(page', tasks', timer) /\ page' = q
    <3>1. /\ page.preflight <=> t.fn = "import" /\ t.pc \in Early
          /\ Exclusive(t) => page.state # "error"
          /\ t.fn = "import" => page.job = 0
          /\ Lease(page, t.op) \in {"none", "waiting", "held"}
          /\ page.drive # "loading"
          /\ page.drive = "ready" => Lease(page, t.op) = "held"
      BY AtWork
    <3>2. ~page.preflight
      BY <3>1
    <3> QED
      BY <2>1, <2>2, <2>4, <2>5, <2>6, <3>1, <3>2, GoKeeps DEF Early
  <2> QED
    BY <1>2, <2>1, <2>2, <2>4, <2>7
<1> QED
  BY <1>1, <1>2

(***************************************************************************)
(* What the person does                                                    *)
(***************************************************************************)

(* While nothing runs, only imports that lost the page still wait. *)
LEMMA NothingRuns ==
  ASSUME NEW pg, NEW ts, NEW tm, Kept(pg, ts, tm), pg.op = None
  PROVE  ~pg.preflight /\ \A u \in Workers(ts) : u.fn = "import" /\ u.pc \in Early
BY DEF Kept, Sound, Committed, Mine

(* What beginning an operation does to a page. *)
LEMMA BegunPage ==
  ASSUME NEW pg \in Page, NEW op \in Operation, op.id \in 0 .. MaxOps
  PROVE  LET q == Begun(pg, op)
         IN  /\ q \in Page
             /\ q.op = op /\ q.last = op.id /\ q.leases = pg.leases /\ q.drive = pg.drive
             /\ q.retained = pg.retained /\ q.job = pg.job /\ q.preflight = pg.preflight
             /\ q.polling = pg.polling
<1> DEFINE q == Begun(pg, op)
           i == op.id
<1>1. q = [pg EXCEPT !.op = op, !.last = i, !.stopping = FALSE, !.saving = FALSE]
  BY DEF Begun
<1> HIDE DEF i, q
<1>2. i \in 0 .. MaxOps
  BY DEF i
<1>3. /\ q \in Page
      /\ q.op = op /\ q.last = i /\ q.leases = pg.leases /\ q.drive = pg.drive
      /\ q.retained = pg.retained /\ q.job = pg.job /\ q.preflight = pg.preflight
      /\ q.polling = pg.polling
  BY <1>1, <1>2 DEF Page
<1> QED
  BY <1>3 DEF i, q

(* A new operation has a number that nothing else names. *)
LEMMA Begins ==
  ASSUME NEW pg, NEW ts, NEW tm, Kept(pg, ts, tm), pg.op = None, pg.last < MaxOps,
         \A u \in ts : u.fn # "change", pg.retained = None,
         NEW op \in Operation, op.id = pg.last + 1
  PROVE  /\ Kept(Begun(pg, op), ts, tm)
         /\ Begun(pg, op).op = op /\ Begun(pg, op).retained = None
         /\ \A u \in Workers(ts) : ~Mine(Begun(pg, op), u.op)
<1> DEFINE q == Begun(pg, op)
<1>1. pg \in Page /\ pg.last \in 0 .. MaxOps /\ op.id \in 1 .. MaxOps /\ op # None
  BY PageAssumption DEF Kept, Page
<1>11. op \in Operation \cup {None} /\ op.id \in 0 .. MaxOps
  BY <1>1
<1>2. /\ q \in Page
      /\ q.op = op /\ q.last = op.id /\ q.leases = pg.leases /\ q.drive = pg.drive
      /\ q.retained = pg.retained /\ q.job = pg.job /\ q.preflight = pg.preflight
      /\ q.polling = pg.polling
  BY <1>1, <1>11, BegunPage
<1> HIDE DEF q
<1>3. \A i \in 1 .. pg.last : i # op.id /\ i \in 1 .. q.last
  BY <1>1, <1>2
<1>4. \A u \in ts : ~Mine(q, u.op) /\ u.op.id \in 1 .. q.last
  BY <1>2, <1>3 DEF Kept, Sound, Known, Mine
<1>5. ~pg.preflight /\ \A u \in Workers(ts) : u.fn = "import" /\ u.pc \in Early /\ u \in ts
  BY NothingRuns DEF Workers
<1>6. Known(q, ts, tm)
  BY <1>1, <1>2, <1>3, <1>4 DEF Kept, Sound, Known, Mine
<1>7. Single(q, ts) /\ Committed(q, ts) /\ Idle(q, ts) /\ Polled(q, ts)
  BY <1>2, <1>4, <1>5 DEF Kept, Sound, Single, Committed, Idle, Polled
<1>8. Alone(q, ts, tm) /\ Writing(q, ts)
  BY <1>2, <1>4, <1>5 DEF Alone, Writing, Early
<1>9. Leasing(q, ts)
  <2>1. pg.leases[op.id] = "none"
    BY <1>1 DEF Kept, Sound, Leasing
  <2>2. \A i \in 1 .. MaxOps : pg.leases[i] \notin {"waiting", "held"} /\ (i > q.last => pg.leases[i] = "none")
    BY <1>1, <1>2 DEF Kept, Sound, Leasing
  <2> QED
    BY <1>2, <1>4, <1>5, <2>1, <2>2 DEF Leasing, Lease
<1>10. Sound(q, ts, tm)
  BY <1>6, <1>7, <1>8, <1>9 DEF Kept, Sound
<1> QED
  BY <1>2, <1>4, <1>5, <1>10 DEF Kept, q

(* An import or a retry begins to work for a new operation. *)
LEMMA WorkBegins ==
  ASSUME Kept(page, tasks, timer), page.op = None, page.last < MaxOps,
         \A u \in tasks : u.fn # "change",
         NEW t \in Waiting, Exclusive(t), t.pc = "pause", Shape(t), t.op.id = page.last + 1,
         NEW q \in Page, q.op = t.op, q.last = t.op.id, q.leases = page.leases, q.drive = page.drive,
         q.retained = page.retained, q.polling = page.polling,
         q.preflight <=> t.fn = "import", q.state # "error", t.fn = "import" => q.job = 0,
         t.fn = "retry" => q.retained # None, q.retained # None => t.fn = "retry", t.fn = "retry" => q.saving
  PROVE  Kept(q, tasks \cup {t}, timer)
<1> DEFINE now == tasks \cup {t}
<1>1. page \in Page /\ page.last \in 0 .. MaxOps /\ t.op.id \in 1 .. MaxOps /\ t.op # None /\ t.op \in Operation
  BY PageAssumption DEF Kept, Page, Waiting
<1>2. \A i \in 1 .. page.last : i # t.op.id /\ i \in 1 .. q.last
  BY <1>1
<1>3. \A u \in tasks : ~Mine(q, u.op) /\ u.op.id \in 1 .. q.last /\ u.op.id # t.op.id
  BY <1>2 DEF Kept, Sound, Known, Mine
<1>4. t \in Workers(now) /\ Mine(q, t.op) /\ t.fn # "change" /\ t.fn \in {"import", "retry"}
  BY <1>1 DEF Workers, Exclusive, Mine
<1>5. ~page.preflight /\ \A u \in Workers(tasks) : u.fn = "import" /\ u.pc \in Early
  BY NothingRuns
<1>6. \A u \in now : u = t \/ u \in tasks
  OBVIOUS
<1>7. \A u \in Workers(now) : u = t \/ (u \in Workers(tasks) /\ u \in tasks /\ u.fn = "import" /\ u.pc \in Early)
  BY <1>5, <1>6 DEF Workers
<1>8. timer.job # 0 => timer.op.id \in 1 .. page.last
  BY DEF Kept, Sound, Known
<1> HIDE DEF now
<1>9. Known(q, now, timer)
  BY <1>1, <1>2, <1>3, <1>4, <1>6, <1>8 DEF Known, Mine
<1>10. Single(q, now)
  BY <1>3, <1>7 DEF Single
<1>11. Committed(q, now)
  BY <1>3, <1>4, <1>7 DEF Committed, Early
<1>12. Idle(q, now) /\ Polled(q, now)
  BY <1>4, <1>6 DEF Kept, Sound, Idle, Polled
<1>13. Alone(q, now, timer)
  BY <1>2, <1>3, <1>4, <1>6, <1>8 DEF Alone, Exclusive
<1>14. Writing(q, now)
  BY <1>4, <1>7 DEF Writing, Early
<1>15. Leasing(q, now)
  <2>1. page.leases[t.op.id] = "none"
    BY <1>1 DEF Kept, Sound, Leasing
  <2>2. \A i \in 1 .. MaxOps : page.leases[i] \notin {"waiting", "held"} /\ (i > q.last => page.leases[i] = "none")
    BY <1>1 DEF Kept, Sound, Leasing
  <2> QED
    BY <1>1, <1>3, <1>4, <1>7, <2>1, <2>2 DEF Leasing, Lease
<1>16. \A u \in now : Shape(u)
  BY <1>6 DEF Kept, Sound
<1>17. Sound(q, now, timer)
  BY <1>9, <1>10, <1>11, <1>12, <1>13, <1>14, <1>15, <1>16 DEF Sound
<1> QED
  BY <1>17 DEF Kept, now

LEMMA ImportKeeps ==
  ASSUME IInv, Hasty = FALSE, Import
  PROVE  IInv'
<1>1. PICK mode \in {"file", "collect", "relay", "recover"} :
        /\ page' = [Begun(page, NewOp(page.profile)) EXCEPT !.preflight = TRUE, !.job = 0, !.state = "running"]
        /\ tasks' = tasks \cup {[Task("import", NewOp(page.profile), "pause", 0) EXCEPT !.mode = mode]}
  BY DEF Import
<1> DEFINE op == NewOp(page.profile)
           t == [Task("import", op, "pause", 0) EXCEPT !.mode = mode]
<1>2. Kept(page, tasks, timer) /\ Rest
  BY Parts
<1>3. /\ page.op = None /\ page.retained = None /\ page.last < MaxOps
      /\ \A u \in tasks : u.fn # "change"
      /\ UNCHANGED <<timer, memory, relay, archive, handed, given, count>>
  BY DEF Import, Free, Changing, Busy, Quiet, World
<1>4. /\ page \in Page /\ op \in Operation /\ op.id = page.last + 1 /\ op.id \in 0 .. MaxOps
  BY <1>2, <1>3, PageAssumption DEF Kept, Page, Operation, NewOp
<1>5. /\ t \in Waiting /\ t.fn = "import" /\ t.pc = "pause" /\ t.op = op /\ t.mode = mode
  BY <1>4, PageAssumption DEF Task, Waiting
<1>6. /\ page' \in Page
      /\ page'.op = op /\ page'.last = op.id /\ page'.leases = page.leases /\ page'.drive = page.drive
      /\ page'.retained = page.retained /\ page'.polling = page.polling /\ page'.preflight
      /\ page'.state = "running" /\ page'.job = 0
  <2> DEFINE r == Begun(page, op)
  <2>1. /\ r \in Page
        /\ r.op = op /\ r.last = op.id /\ r.leases = page.leases /\ r.drive = page.drive
        /\ r.retained = page.retained /\ r.polling = page.polling /\ r.preflight = page.preflight
    BY <1>4, BegunPage
  <2>2. page' = [r EXCEPT !.preflight = TRUE, !.job = 0, !.state = "running"]
    BY <1>1
  <2>3. 0 \in 0 .. MaxJobs
    BY PageAssumption
  <2> HIDE DEF op, r
  <2>4. page' \in Page
    BY <2>1, <2>2, <2>3 DEF Page
  <2> QED
    BY <2>1, <2>2, <2>4 DEF Page
<1>7. tasks' = tasks \cup {t}
  BY <1>1
<1> HIDE DEF op, t
<1>8. Shape(t) /\ Exclusive(t)
  BY <1>5 DEF Shape, Exclusive, Early
<1>9. Kept(page', tasks', timer)
  BY <1>2, <1>3, <1>4, <1>5, <1>6, <1>7, <1>8, WorkBegins
<1>10. Kept(page', tasks', timer') /\ Rest'
  BY <1>2, <1>3, <1>9 DEF Rest
<1> QED
  BY <1>3, <1>10, StepKeeps

LEMMA RetryCollectedKeeps ==
  ASSUME IInv, Hasty = FALSE, RetryCollected
  PROVE  IInv'
<1>1. Kept(page, tasks, timer) /\ Rest
  BY Parts
<1>2. page.op = None
  BY <1>1 DEF RetryCollected, Kept, Sound, Writing
<1> DEFINE op == NewOp(page.retained.profile)
           t == Task("retry", op, "pause", page.retained.job)
<1>3. /\ page.retained # None /\ page.last < MaxOps
      /\ \A u \in tasks : u.fn # "change"
      /\ page' = [Begun(page, op) EXCEPT !.saving = TRUE, !.state = "running"]
      /\ tasks' = tasks \cup {t}
      /\ UNCHANGED <<timer, memory, relay, archive, handed, given, count>>
  BY <1>2 DEF RetryCollected, Free, Changing, Busy, Quiet, World
<1>4. /\ page \in Page /\ op \in Operation /\ op.id = page.last + 1 /\ op.id \in 0 .. MaxOps
      /\ page.retained \in Collected
  BY <1>1, <1>3, PageAssumption DEF Kept, Page, Operation, NewOp, Collected
<1>5. /\ t \in Waiting /\ t.fn = "retry" /\ t.pc = "pause" /\ t.op = op /\ t.mode = "none"
  BY <1>4, PageAssumption DEF Task, Waiting, Collected
<1>6. /\ page' \in Page
      /\ page'.op = op /\ page'.last = op.id /\ page'.leases = page.leases /\ page'.drive = page.drive
      /\ page'.retained = page.retained /\ page'.polling = page.polling /\ page'.preflight = page.preflight
      /\ page'.state = "running" /\ page'.saving
  <2> DEFINE r == Begun(page, op)
  <2>1. /\ r \in Page
        /\ r.op = op /\ r.last = op.id /\ r.leases = page.leases /\ r.drive = page.drive
        /\ r.retained = page.retained /\ r.polling = page.polling /\ r.preflight = page.preflight
    BY <1>4, BegunPage
  <2>2. page' = [r EXCEPT !.saving = TRUE, !.state = "running"]
    BY <1>3
  <2> HIDE DEF op, r
  <2> QED
    BY <2>1, <2>2, PageAssumption DEF Page
<1>7. tasks' = tasks \cup {t}
  BY <1>3
<1> HIDE DEF op, t
<1>8. Shape(t) /\ Exclusive(t)
  BY <1>5 DEF Shape, Exclusive, Early
<1>9. ~page.preflight
  BY <1>1, <1>2, NothingRuns
<1>10. Kept(page', tasks', timer)
  BY <1>1, <1>2, <1>3, <1>4, <1>5, <1>6, <1>7, <1>8, <1>9, WorkBegins
<1>11. Kept(page', tasks', timer') /\ Rest'
  BY <1>1, <1>3, <1>10 DEF Rest
<1> QED
  BY <1>3, <1>6, <1>11, StepKeeps

(* A change of the page that no function looks at keeps the invariant. *)
LEMMA AlikeStep ==
  ASSUME IInv, page' \in Page, Alike(page', page),
         UNCHANGED <<tasks, timer, memory, relay, archive, handed, given, count>>
  PROVE  IInv'
<1>1. Kept(page, tasks, timer) /\ Rest
  BY Parts
<1>2. Sound(page', tasks, timer)
  BY <1>1, AlikeKeeps DEF Kept
<1>3. Kept(page', tasks', timer') /\ Rest'
  BY <1>1, <1>2 DEF Kept, Rest
<1>4. page.retained = page'.retained
  BY DEF Alike
<1> QED
  BY <1>3, <1>4, StepKeeps

LEMMA PrepareKeeps ==
  ASSUME IInv, Prepare \/ Prepared \/ ProfileDeleted
  PROVE  IInv'
<1>1. page \in Page
  BY Parts DEF Kept
<1>2. UNCHANGED <<tasks, timer, memory, relay, archive, handed, given, count>>
  BY DEF Prepare, Prepared, ProfileDeleted, Quiet, World
<1>3. page' \in Page /\ Alike(page', page)
  <2>1. CASE Prepare
    BY <1>1, <2>1 DEF Prepare, Page, Alike
  <2>2. CASE Prepared
    BY <1>1, <2>2 DEF Prepared, Page, Alike
  <2>3. CASE ProfileDeleted
    BY <1>1, <2>3 DEF ProfileDeleted, Page, Alike
  <2> QED BY <2>1, <2>2, <2>3
<1> QED
  BY <1>2, <1>3, AlikeStep

LEMMA ChangeProfileKeeps ==
  ASSUME IInv, Hasty = FALSE, ChangeProfile
  PROVE  IInv'
<1>1. Kept(page, tasks, timer) /\ Rest
  BY Parts
<1>2. /\ page.op = None /\ (\A u \in tasks : u.fn # "change") /\ ~Changing
      /\ UNCHANGED <<memory, relay, archive, handed, given, count>> /\ timer' = NoTimer
  BY DEF ChangeProfile, Free, Changing, Busy, Quiet, World
<1>3. PICK p \in Profiles :
        /\ page' = [page EXCEPT !.profile = p, !.job = 0, !.state = IF page.retained = None THEN "idle" ELSE @]
        /\ tasks' = tasks \cup {Task("change", [id |-> 0, profile |-> p], "refresh", 0)}
  BY <1>2 DEF ChangeProfile
<1> DEFINE c == Task("change", [id |-> 0, profile |-> p], "refresh", 0)
<1>4. c \in Waiting /\ c.fn = "change" /\ c.pc = "refresh" /\ c.mode = "none"
  BY PageAssumption DEF Task, Waiting, Operation
<1>5. page' \in Page /\ Alike(page', page)
  <2> DEFINE s == IF page.retained = None THEN "idle" ELSE page.state
  <2>1. page \in Page
    BY <1>1 DEF Kept
  <2>2. s \in {"idle", "running", "complete", "cancelled", "error"}
    BY <2>1 DEF Page
  <2>3. page' = [page EXCEPT !.profile = p, !.job = 0, !.state = s]
    BY <1>3
  <2>4. 0 \in 0 .. MaxJobs
    BY PageAssumption
  <2> HIDE DEF s
  <2>5. page' \in Page
    BY <2>1, <2>2, <2>3, <2>4 DEF Page
  <2>6. Alike(page', page)
    BY <1>2, <2>1, <2>3 DEF Page, Alike
  <2> QED
    BY <2>5, <2>6
<1>6. Sound(page', tasks, NoTimer)
  BY <1>1, <1>5, AlikeKeeps, TimerOff DEF Kept
<1>7. page'.op = None /\ page'.retained = page.retained
  BY <1>2, <1>5 DEF Alike
<1>8. tasks' = tasks \cup {c}
  BY <1>3
<1> HIDE DEF c
<1>9. Workers(tasks') = Workers(tasks)
  BY <1>4, <1>8 DEF Workers
<1>10. \A u \in tasks' : u = c \/ (u \in tasks /\ u.fn # "change")
  BY <1>2, <1>8
<1>11. Sound(page', tasks', NoTimer)
  <2>1. Known(page', tasks', NoTimer) /\ Polled(page', tasks') /\ Idle(page', tasks')
    BY <1>4, <1>6, <1>7, <1>10 DEF Sound, Known, Polled, Idle
  <2>2. Single(page', tasks') /\ Committed(page', tasks') /\ Writing(page', tasks') /\ Leasing(page', tasks')
    BY <1>6, <1>9 DEF Sound, Single, Committed, Writing, Leasing
  <2>3. Alone(page', tasks', NoTimer)
    BY <1>7 DEF Alone, Mine
  <2>4. \A u \in tasks' : Shape(u)
    BY <1>4, <1>6, <1>10 DEF Sound, Shape
  <2> QED
    BY <2>1, <2>2, <2>3, <2>4 DEF Sound
<1>12. Kept(page', tasks', timer') /\ Rest'
  BY <1>1, <1>2, <1>4, <1>5, <1>8, <1>11 DEF Kept, Rest, Timer
<1> QED
  BY <1>2, <1>7, <1>12, StepKeeps

LEMMA ProfileShownKeeps ==
  ASSUME IInv, NEW t \in tasks, ProfileShown(t)
  PROVE  IInv'
<1>1. Kept(page, tasks, timer) /\ Rest
  BY Parts
<1>2. /\ t.fn = "change" /\ page.op = None /\ \A u \in tasks \ {t} : u.fn # "change"
      /\ UNCHANGED <<memory, relay, archive, handed, given, count>>
  BY <1>1 DEF ProfileShown, Quiet, World, Kept, Sound, Idle
<1>3. Kept(page, tasks \ {t}, timer)
  BY <1>1, <1>2, DropKeeps DEF Kept, Workers
<1>4. CASE memory[page.profile] # 0 /\ page.retained = None /\ page.last < MaxOps
  <2> DEFINE op == NewOp(page.profile)
  <2>1. Poll(Begun(page, op), tasks \ {t}, memory[page.profile], op)
    BY <1>4 DEF ProfileShown
  <2>2. /\ op \in Operation /\ op.id = page.last + 1 /\ memory[page.profile] \in Jobs
    BY <1>1, <1>4, PageAssumption DEF Kept, Rest, Page, Operation, NewOp, Jobs
  <2> HIDE DEF op
  <2>3. /\ Kept(Begun(page, op), tasks \ {t}, timer)
        /\ Begun(page, op).op = op /\ Begun(page, op).retained = None
        /\ \A u \in Workers(tasks \ {t}) : ~Mine(Begun(page, op), u.op)
    BY <1>2, <1>3, <1>4, <2>2, Begins
  <2>4. Kept(page', tasks', timer') /\ page'.retained = None
    BY <2>1, <2>2, <2>3, PollKeeps
  <2> QED
    BY <1>1, <1>2, <1>4, <2>4, StepKeeps DEF Rest
<1>5. CASE ~(memory[page.profile] # 0 /\ page.retained = None /\ page.last < MaxOps)
  <2>1. page' = page /\ tasks' = tasks \ {t} /\ timer' = timer
    BY <1>2, <1>5 DEF ProfileShown, Ended
  <2> QED
    BY <1>1, <1>2, <1>3, <2>1, StepKeeps DEF Rest
<1> QED
  BY <1>4, <1>5

LEMMA CheckJobKeeps ==
  ASSUME IInv, Hasty = FALSE, CheckJob
  PROVE  IInv'
<1>1. Kept(page, tasks, timer) /\ Rest
  BY Parts
<1>2. /\ page.state = "error" /\ page.retained = None /\ page.last < MaxOps
      /\ \A u \in tasks : u.fn # "change"
      /\ UNCHANGED <<memory, relay, archive, handed, given, count>>
  BY DEF CheckJob, Free, Changing, Quiet, World
<1>3. CASE page.op # None
  <2>1. memory[page.op.profile] # 0 /\ Poll(page, tasks, memory[page.op.profile], page.op)
    BY <1>3 DEF CheckJob, Busy
  <2>2. page.op \in Operation /\ memory[page.op.profile] \in Jobs
    BY <1>1, <1>3, <2>1, PageAssumption DEF Kept, Rest, Page, Operation, Jobs
  <2>3. \A u \in Workers(tasks) : Mine(page, u.op) => u.fn = "poll"
    BY <1>1, <1>2 DEF Kept, Sound, Alone, Exclusive, Workers
  <2>4. Kept(page', tasks', timer') /\ page'.retained = page.retained
    BY <1>1, <2>1, <2>2, <2>3, PollKeeps
  <2> QED
    BY <1>1, <1>2, <2>4, StepKeeps DEF Rest
<1>4. CASE page.op = None
  <2> DEFINE op == NewOp(page.profile)
  <2>1. memory[op.profile] # 0 /\ Poll(Begun(page, op), tasks, memory[op.profile], op)
    BY <1>4 DEF CheckJob, Busy
  <2>2. /\ op \in Operation /\ op.id = page.last + 1 /\ memory[op.profile] \in Jobs
    BY <1>1, <2>1, PageAssumption DEF Kept, Rest, Page, Operation, NewOp, Jobs
  <2> HIDE DEF op
  <2>3. /\ Kept(Begun(page, op), tasks, timer)
        /\ Begun(page, op).op = op /\ Begun(page, op).retained = None
        /\ \A u \in Workers(tasks) : ~Mine(Begun(page, op), u.op)
    BY <1>1, <1>2, <1>4, <2>2, Begins
  <2>4. Kept(page', tasks', timer') /\ page'.retained = None
    BY <2>1, <2>2, <2>3, PollKeeps
  <2> QED
    BY <1>1, <1>2, <2>4, StepKeeps DEF Rest
<1> QED
  BY <1>3, <1>4

LEMMA DiscardKeeps ==
  ASSUME IInv, Discard
  PROVE  IInv'
<1>1. Kept(page, tasks, timer) /\ Rest
  BY Parts
<1>2. page.op = None
  BY <1>1 DEF Discard, Kept, Sound, Writing
<1>3. /\ page.retained # None /\ page' = [page EXCEPT !.retained = None]
      /\ given' = given \cup {page.retained}
      /\ UNCHANGED <<tasks, timer, memory, relay, archive, handed, count>>
  BY <1>2 DEF Discard, Busy
<1>4. /\ page' \in Page /\ page.retained \in Collected
      /\ page'.op = None /\ page'.last = page.last /\ page'.leases = page.leases
      /\ page'.drive = page.drive /\ page'.job = page.job
      /\ page'.preflight = page.preflight /\ page'.saving = page.saving /\ page'.polling = page.polling
  BY <1>1, <1>2, <1>3 DEF Kept, Page
<1>5. \A u \in Workers(tasks) : u.fn = "import" /\ u.pc \in Early
  BY <1>1, <1>2, NothingRuns
<1>6. \A o : ~Mine(page', o) /\ ~Mine(page, o)
  BY <1>2, <1>4 DEF Mine
<1>7. /\ Known(page', tasks, timer) /\ Single(page', tasks) /\ Committed(page', tasks)
      /\ Idle(page', tasks) /\ Polled(page', tasks) /\ Alone(page', tasks, timer)
  BY <1>1, <1>4, <1>6 DEF Kept, Sound, Known, Single, Committed, Idle, Polled, Alone
<1>8. Writing(page', tasks)
  BY <1>4, <1>5 DEF Writing, Early
<1>9. Leasing(page', tasks)
  BY <1>1, <1>2, <1>4, <1>6 DEF Kept, Sound, Leasing
<1>10. Kept(page', tasks', timer')
  BY <1>1, <1>3, <1>4, <1>7, <1>8, <1>9 DEF Kept, Sound
<1>11. Rest'
  BY <1>1, <1>3, <1>4 DEF Rest
<1> QED
  BY <1>3, <1>10, <1>11, StepKeeps

(* A change of the state or the shown job, while neither an import nor a retry
   works. *)
LEMMA StateKeeps ==
  ASSUME NEW pg, NEW q, NEW ts, NEW tm, Sound(pg, ts, tm),
         \A u \in ts : Exclusive(u) => ~Mine(pg, u.op),
         q.op = pg.op, q.last = pg.last, q.leases = pg.leases, q.drive = pg.drive,
         q.retained = pg.retained, q.preflight = pg.preflight,
         q.saving = pg.saving, q.polling = pg.polling
  PROVE  Sound(q, ts, tm)
<1> USE DEF Mine, Workers
<1>1. Known(q, ts, tm) /\ Single(q, ts) /\ Committed(q, ts) /\ Idle(q, ts) /\ Polled(q, ts)
  BY DEF Sound, Known, Single, Committed, Idle, Polled
<1>2. Alone(q, ts, tm) /\ Writing(q, ts) /\ Leasing(q, ts)
  BY DEF Sound, Alone, Writing, Leasing, Lease
<1> QED
  BY <1>1, <1>2 DEF Sound

LEMMA StopKeeps ==
  ASSUME IInv, Stop
  PROVE  IInv'
<1>1. Kept(page, tasks, timer) /\ Rest
  BY Parts
<1>2. /\ page.op # None /\ page.op \in Operation /\ page \in Page
      /\ UNCHANGED <<timer, memory, relay, archive, handed, given, count>>
  BY <1>1 DEF Stop, Busy, Quiet, World, Kept, Page
<1>3. CASE page.preflight
  <2>1. page' = Finished([page EXCEPT !.state = "cancelled"], page.op) /\ tasks' = tasks
    BY <1>3 DEF Stop
  <2>2. \A u \in Workers(tasks) : Mine(page, u.op) => u.fn = "import" /\ u.pc \in Early
    BY <1>1, <1>3 DEF Kept, Sound, Committed
  <2>3. Mine(page, page.op)
    BY <1>2 DEF Mine
  <2>4. /\ page' \in Page /\ Sound(page', tasks, timer) /\ page'.retained = page.retained
    <3>1. page \in Page /\ tasks \in SUBSET Waiting /\ Sound(page, tasks, timer) /\ tasks \in SUBSET tasks
      BY <1>1 DEF Kept
    <3> QED
      BY <1>2, <2>1, <2>2, <2>3, <3>1, FinishKeeps
  <2>5. Kept(page', tasks', timer') /\ Rest'
    BY <1>1, <1>2, <2>1, <2>4 DEF Kept, Rest
  <2> QED
    BY <1>2, <2>4, <2>5, StepKeeps
<1>4. CASE ~page.preflight /\ page.abort
  <2>1. page' = [page EXCEPT !.stopping = TRUE] /\ tasks' = tasks
    BY <1>4 DEF Stop
  <2>2. page' \in Page /\ Alike(page', page)
    BY <1>2, <2>1 DEF Page, Alike
  <2> QED
    BY <1>2, <2>1, <2>2, AlikeStep
<1>5. CASE ~page.preflight /\ ~page.abort
  <2> DEFINE u == Task("stop", page.op, "cancel", page.job)
  <2>1. /\ page' = [page EXCEPT !.stopping = TRUE] /\ tasks' = tasks \cup {u}
        /\ page.job # 0 /\ ~page.saving
    BY <1>5 DEF Stop
  <2>2. page' \in Page /\ Alike(page', page)
    BY <1>2, <2>1 DEF Page, Alike
  <2>3. /\ u \in Waiting /\ u.fn = "stop" /\ u.op = page.op /\ u.pc = "cancel" /\ u.job # 0 /\ u.mode = "none"
    BY <1>2, <2>1 DEF Task, Waiting, Page
  <2>4. Sound(page', tasks, timer)
    BY <1>1, <2>2, AlikeKeeps DEF Kept
  <2> HIDE DEF u
  <2>5. \A v \in tasks : Exclusive(v) => ~Mine(page, v.op)
    BY <1>1, <2>1 DEF Kept, Sound, Alone, Writing, Exclusive, Workers
  <2>6. /\ Workers(tasks') = Workers(tasks) /\ \A v \in tasks' : v = u \/ v \in tasks
    BY <2>1, <2>3 DEF Workers
  <2>7. page'.op = page.op /\ page'.last = page.last /\ page'.retained = page.retained
    BY <2>2 DEF Alike
  <2>8. Known(page', tasks', timer)
    BY <1>2, <2>3, <2>4, <2>6, <2>7 DEF Sound, Known
  <2>9. Idle(page', tasks') /\ Polled(page', tasks')
    BY <1>2, <2>3, <2>4, <2>6, <2>7 DEF Sound, Idle, Polled
  <2>10. Single(page', tasks') /\ Committed(page', tasks') /\ Writing(page', tasks') /\ Leasing(page', tasks')
    BY <2>4, <2>6 DEF Sound, Single, Committed, Writing, Leasing
  <2>11. Alone(page', tasks', timer)
    BY <2>3, <2>5, <2>6, <2>7 DEF Alone, Mine, Exclusive
  <2>12. \A v \in tasks' : Shape(v)
    BY <2>3, <2>4, <2>6 DEF Sound, Shape
  <2>13. Kept(page', tasks', timer') /\ Rest'
    BY <1>1, <1>2, <2>1, <2>2, <2>3, <2>8, <2>9, <2>10, <2>11, <2>12 DEF Kept, Sound, Rest
  <2> QED
    BY <1>2, <2>7, <2>13, StepKeeps
<1> QED
  BY <1>3, <1>4, <1>5

LEMMA CancelledKeeps ==
  ASSUME IInv, NEW t \in tasks, Cancelled(t)
  PROVE  IInv'
<1>1. Kept(page, tasks, timer) /\ Rest
  BY Parts
<1>2. /\ t.fn = "stop" /\ t \in Waiting /\ t.op \in Operation /\ t.job \in Jobs
      /\ UNCHANGED <<memory, relay, archive, handed, given>>
      /\ \A u \in tasks : Exclusive(u) /\ Mine(page, u.op) => u.op.id # t.op.id
  BY <1>1, PageAssumption
     DEF Cancelled, Quiet, World, Kept, Sound, Shape, Waiting, Jobs, Alone
<1>3. Kept(page, tasks \ {t}, timer)
  BY <1>1, <1>2, DropKeeps DEF Kept, Workers
<1>4. CASE Owns(t.op) /\ Poll(page, tasks \ {t}, t.job, t.op) /\ count' = count
  <2>1. \A u \in Workers(tasks \ {t}) : page.op = t.op /\ Mine(page, u.op) => u.fn = "poll"
    BY <1>2 DEF Workers, Exclusive, Mine
  <2>2. Kept(page', tasks', timer') /\ page'.retained = page.retained
    BY <1>2, <1>3, <1>4, <2>1, PollKeeps
  <2> QED
    BY <1>1, <1>2, <1>4, <2>2, StepKeeps DEF Rest
<1>5. CASE ~Owns(t.op) /\ Ended(t, page) /\ timer' = timer /\ count' = count
  <2>1. page' = page /\ tasks' = tasks \ {t}
    BY <1>2, <1>5 DEF Ended
  <2> QED
    BY <1>1, <1>2, <1>3, <1>5, <2>1, StepKeeps DEF Rest
<1>6. CASE /\ Ended(t, IF Owns(t.op) THEN [Error(page) EXCEPT !.stopping = FALSE] ELSE page)
           /\ Fault /\ timer' = timer
  <2>1. tasks' = tasks \ {t} /\ page' = IF Owns(t.op) THEN [Error(page) EXCEPT !.stopping = FALSE] ELSE page
    BY <1>2, <1>6 DEF Ended
  <2>2. Rest'
    BY <1>1, <1>2, <1>6 DEF Rest, Fault
  <2>3. CASE Owns(t.op)
    <3>1. \A u \in tasks \ {t} : Exclusive(u) => ~Mine(page, u.op)
      BY <1>2, <2>3 DEF Owns, Mine
    <3>2. /\ page' \in Page
          /\ page'.op = page.op /\ page'.last = page.last /\ page'.leases = page.leases
          /\ page'.drive = page.drive /\ page'.retained = page.retained
          /\ page'.preflight = page.preflight /\ page'.saving = page.saving /\ page'.polling = page.polling
      BY <1>1, <2>1, <2>3 DEF Kept, Page, Error
    <3>3. Sound(page', tasks \ {t}, timer)
      BY <1>3, <3>1, <3>2, StateKeeps DEF Kept
    <3>4. Kept(page', tasks', timer')
      BY <1>3, <1>6, <2>1, <3>2, <3>3 DEF Kept
    <3> QED
      BY <1>2, <2>2, <3>2, <3>4, StepKeeps
  <2>4. CASE ~Owns(t.op)
    BY <1>2, <1>3, <1>6, <2>1, <2>2, <2>4, StepKeeps
  <2> QED
    BY <2>3, <2>4
<1>7. \/ Owns(t.op) /\ Poll(page, tasks \ {t}, t.job, t.op) /\ count' = count
      \/ ~Owns(t.op) /\ Ended(t, page) /\ timer' = timer /\ count' = count
      \/ /\ Ended(t, IF Owns(t.op) THEN [Error(page) EXCEPT !.stopping = FALSE] ELSE page)
         /\ Fault /\ timer' = timer
  BY DEF Cancelled
<1> QED
  BY <1>4, <1>5, <1>6, <1>7

(***************************************************************************)
(* The page's surroundings                                                 *)
(***************************************************************************)

LEMMA TimerFiresKeeps ==
  ASSUME IInv, TimerFires
  PROVE  IInv'
<1>1. Kept(page, tasks, timer) /\ Rest
  BY Parts
<1>2. timer.job # 0 /\ UNCHANGED <<memory, relay, archive, handed, given, count>>
  BY DEF TimerFires, Quiet, World
<1>3. timer.job \in Jobs /\ timer.op \in Operation
  BY <1>1, <1>2 DEF Kept, Timer, NoTimer
<1>4. CASE Owns(timer.op)
  <2>1. Poll(page, tasks, timer.job, timer.op)
    BY <1>4 DEF TimerFires
  <2>2. \A u \in Workers(tasks) : page.op = timer.op /\ Mine(page, u.op) => u.fn = "poll"
    BY <1>1, <1>2 DEF Kept, Sound, Alone, Exclusive, Workers, Mine
  <2>3. Kept(page', tasks', timer') /\ page'.retained = page.retained
    BY <1>1, <1>3, <2>1, <2>2, PollKeeps
  <2> QED
    BY <1>1, <1>2, <2>3, StepKeeps DEF Rest
<1>5. CASE ~Owns(timer.op)
  <2>1. timer' = NoTimer /\ page' = page /\ tasks' = tasks
    BY <1>5 DEF TimerFires
  <2>2. Kept(page', tasks', timer')
    BY <1>1, <2>1, TimerOff DEF Kept, Timer
  <2> QED
    BY <1>1, <1>2, <2>1, <2>2, StepKeeps DEF Rest
<1> QED
  BY <1>4, <1>5

LEMMA GrantKeeps ==
  ASSUME IInv, Grant
  PROVE  IInv'
<1>1. Kept(page, tasks, timer) /\ Rest
  BY Parts
<1>2. PICK i \in 1 .. MaxOps :
        /\ page.leases[i] \in {"waiting", "retired"}
        /\ page' = [page EXCEPT !.leases[i] = IF @ = "waiting" THEN "held" ELSE "done"]
  BY DEF Grant
<1>3. UNCHANGED <<tasks, timer, memory, relay, archive, handed, given, count>>
  BY DEF Grant, Quiet, World
<1>4. /\ page' \in Page
      /\ page'.op = page.op /\ page'.last = page.last /\ page'.drive = page.drive
      /\ page'.retained = page.retained /\ page'.job = page.job /\ page'.preflight = page.preflight
      /\ page'.saving = page.saving /\ page'.polling = page.polling /\ page'.state = page.state
      /\ \A j \in 1 .. MaxOps : page'.leases[j] =
           IF j # i THEN page.leases[j] ELSE IF page.leases[i] = "waiting" THEN "held" ELSE "done"
  BY <1>1, <1>2 DEF Kept, Page
<1>5. \A o : Mine(page', o) <=> Mine(page, o)
  BY <1>4 DEF Mine
<1>6. /\ Known(page', tasks, timer) /\ Single(page', tasks) /\ Committed(page', tasks)
      /\ Idle(page', tasks) /\ Polled(page', tasks) /\ Alone(page', tasks, timer) /\ Writing(page', tasks)
  BY <1>1, <1>4, <1>5 DEF Kept, Sound, Known, Single, Committed, Idle, Polled, Alone, Writing
<1>7. Leasing(page', tasks)
  <2>1. page.op # None => page.op.id \in 1 .. MaxOps
    BY <1>1, PageAssumption DEF Kept, Sound, Known, Page
  <2>2. page.op # None => Lease(page', page.op) \in {"none", "waiting", "held"}
    <3>1. page.op # None => page.leases[page.op.id] \in {"none", "waiting", "held"}
      BY <1>1 DEF Kept, Sound, Leasing, Lease
    <3>2. page.op # None => page'.leases[page.op.id] \in {"none", "waiting", "held"}
      BY <1>2, <1>4, <2>1, <3>1
    <3> QED
      BY <3>2, <1>4 DEF Lease
  <2>3. \A j \in 1 .. MaxOps :
          /\ page'.leases[j] \in {"waiting", "held"} => page.op # None /\ page.op.id = j
          /\ j > page.last => page'.leases[j] = "none"
    BY <1>1, <1>2, <1>4 DEF Kept, Sound, Leasing
  <2>4. \A t \in Workers(tasks) : Mine(page, t.op) => t.op.id \in 1 .. MaxOps
    BY <2>1 DEF Mine
  <2>5. \A t \in Workers(tasks) : Mine(page, t.op) =>
          /\ t.pc = "lease" => Lease(page', t.op) # "none"
          /\ t.pc \notin {"pause", "lease"} /\ page.drive = "ready" => Lease(page', t.op) = "held"
    BY <1>1, <1>2, <1>4, <2>4 DEF Kept, Sound, Leasing, Lease
  <2>6. \A t \in Workers(tasks) : Mine(page, t.op) => (t.pc # "pause" => page.drive # "loading")
    BY <1>1 DEF Kept, Sound, Leasing
  <2> QED
    BY <1>4, <1>5, <2>2, <2>3, <2>5, <2>6 DEF Leasing
<1>8. Kept(page', tasks', timer') /\ Rest'
  BY <1>1, <1>3, <1>4, <1>6, <1>7 DEF Kept, Sound, Rest
<1> QED
  BY <1>3, <1>4, <1>8, StepKeeps

LEMMA DriveLoadsKeeps ==
  ASSUME IInv, DriveLoads
  PROVE  IInv'
<1>1. Kept(page, tasks, timer) /\ Rest
  BY Parts
<1>2. /\ page.drive = "loading" /\ \E drive \in {"ready", "absent"} : page' = [page EXCEPT !.drive = drive]
      /\ UNCHANGED <<tasks, timer, memory, relay, archive, handed, given, count>>
  BY DEF DriveLoads, Quiet, World
<1>3. /\ page' \in Page
      /\ page'.op = page.op /\ page'.last = page.last /\ page'.leases = page.leases
      /\ page'.retained = page.retained /\ page'.job = page.job /\ page'.preflight = page.preflight
      /\ page'.saving = page.saving /\ page'.polling = page.polling /\ page'.state = page.state
  BY <1>1, <1>2 DEF Kept, Page
<1>4. \A o : Mine(page', o) <=> Mine(page, o)
  BY <1>3 DEF Mine
<1>5. /\ Known(page', tasks, timer) /\ Single(page', tasks) /\ Committed(page', tasks)
      /\ Idle(page', tasks) /\ Polled(page', tasks) /\ Alone(page', tasks, timer) /\ Writing(page', tasks)
  BY <1>1, <1>3, <1>4 DEF Kept, Sound, Known, Single, Committed, Idle, Polled, Alone, Writing
<1>6. Leasing(page', tasks)
  BY <1>1, <1>2, <1>3, <1>4 DEF Kept, Sound, Leasing, Lease
<1>7. Kept(page', tasks', timer') /\ Rest'
  BY <1>1, <1>2, <1>3, <1>5, <1>6 DEF Kept, Sound, Rest
<1> QED
  BY <1>2, <1>3, <1>7, StepKeeps

LEMMA RelayStepKeeps ==
  ASSUME IInv, RelayStep
  PROVE  IInv'
<1>1. Kept(page, tasks, timer) /\ Rest
  BY Parts
<1>2. UNCHANGED <<page, tasks, timer, memory, archive, handed, given, count>>
  BY DEF RelayStep
<1>3. PICK j \in Jobs : \E s \in {"done", "empty", "gone"} : relay' = [relay EXCEPT ![j].status = s]
  BY DEF RelayStep
<1>4. relay' \in [Jobs -> [status : {"none", "running", "done", "empty", "gone"}, profile : Profiles \cup {None}]]
  BY <1>1, <1>3 DEF Rest
<1>5. Kept(page', tasks', timer') /\ Rest'
  BY <1>1, <1>2, <1>4 DEF Rest
<1> QED
  BY <1>2, <1>5, StepKeeps

(* A page that was just opened. *)
LEMMA Opened ==
  ASSUME Kept(page, tasks, timer), NEW last \in 0 .. MaxOps, timer.job # 0 => timer.op.id \in 1 .. last,
         NEW p \in Profiles
  PROVE  /\ Kept(NewPage(p, last), {}, timer)
         /\ NewPage(p, last).op = None /\ NewPage(p, last).last = last /\ NewPage(p, last).retained = None
<1> DEFINE q == NewPage(p, last)
<1>1. /\ q \in Page /\ q.op = None /\ q.last = last /\ q.retained = None /\ ~q.preflight
      /\ \A i \in 1 .. MaxOps : q.leases[i] = "none"
  BY PageAssumption DEF NewPage, Page
<1> HIDE DEF q
<1>2. Workers({}) = {}
  BY DEF Workers
<1>3. Known(q, {}, timer) /\ Single(q, {}) /\ Committed(q, {}) /\ Idle(q, {}) /\ Polled(q, {})
  BY <1>1, <1>2 DEF Known, Single, Committed, Idle, Polled, Mine
<1>4. Alone(q, {}, timer) /\ Writing(q, {}) /\ Leasing(q, {})
  BY <1>1, <1>2 DEF Alone, Writing, Leasing
<1> QED
  BY <1>1, <1>3, <1>4 DEF Kept, Sound, q

LEMMA ReloadKeeps ==
  ASSUME IInv, Reload
  PROVE  IInv'
<1>1. Kept(page, tasks, timer) /\ Rest
  BY Parts
<1>2. /\ UNCHANGED <<memory, relay, handed>> /\ given' = given \cup ({page.retained} \ {None})
      /\ count' = [count EXCEPT !.loads = @ + 1]
  BY DEF Reload
<1>3. archive' \in {archive, archive \cup {page.retained}}
      /\ (archive' # archive => page.retained \in Collected)
  <2>1. CASE archive' = archive
    BY <2>1
  <2>2. CASE archive' # archive
    <3>1. PICK t \in tasks : t.pc = "saving" /\ t.mode # "recover" /\ archive' = archive \cup {page.retained}
      BY <2>2 DEF Reload
    <3>2. t \in Workers(tasks)
      BY <1>1, <3>1 DEF Kept, Sound, Shape, Waiting, Workers
    <3>3. Mine(page, t.op)
      BY <1>1, <3>1, <3>2 DEF Kept, Sound, Committed, Early
    <3>4. /\ t.fn = "retry" => page.retained # None
          /\ t.fn # "retry" => page.retained = Records(t)
          /\ page \in Page
      BY <1>1, <3>1, <3>2, <3>3, AtWork
    <3>5. page.retained \in Collected
      BY <1>1, <3>1, <3>2, <3>3, <3>4, PayloadType DEF Page
    <3> QED
      BY <3>1, <3>5
  <2> QED
    BY <2>1, <2>2
<1>4. page.last \in 0 .. MaxOps /\ page.profile \in Profiles /\ page.retained \in Collected \cup {None}
  BY <1>1 DEF Kept, Page
<1>5. timer.job # 0 => timer.op.id \in 1 .. page.last
  BY <1>1 DEF Kept, Sound, Known
<1> DEFINE pg == NewPage(page.profile, page.last)
           op == [id |-> page.last + 1, profile |-> page.profile]
<1>6. Kept(pg, {}, timer) /\ pg.op = None /\ pg.last = page.last /\ pg.retained = None
  BY <1>1, <1>4, <1>5, Opened
<1>7. \/ /\ memory[page.profile] # 0 /\ page.last < MaxOps
         /\ Poll(Begun(pg, op), {}, memory[page.profile], op)
      \/ page' = pg /\ tasks' = {} /\ timer' = NoTimer
  BY DEF Reload
<1>8. op.id = page.last + 1 /\ op \in Operation
  BY <1>4, PageAssumption DEF Operation
<1> HIDE DEF pg, op
<1>9. Kept(page', tasks', timer')
  <2>1. CASE page' = pg /\ tasks' = {} /\ timer' = NoTimer
    BY <1>6, <2>1, TimerOff DEF Kept, Timer
  <2>2. CASE /\ memory[page.profile] # 0 /\ page.last < MaxOps
             /\ Poll(Begun(pg, op), {}, memory[page.profile], op)
    <3>1. memory[page.profile] \in Jobs
      BY <1>1, <1>4, <2>2, PageAssumption DEF Rest, Jobs
    <3>2. /\ Kept(Begun(pg, op), {}, timer) /\ \A u \in Workers({}) : ~Mine(Begun(pg, op), u.op)
      BY <1>6, <1>8, <2>2, Begins
    <3> QED
      BY <1>8, <2>2, <3>1, <3>2, PollKeeps
  <2> QED
    BY <1>7, <2>1, <2>2
<1>10. Rest'
  BY <1>1, <1>2, <1>3, <1>4 DEF Rest
<1> QED
  BY <1>2, <1>3, <1>9, <1>10, StepKeeps

(***************************************************************************)
(* What the functions of an operation do after an await                    *)
(***************************************************************************)

LEMMA Working ==
  ASSUME Kept(page, tasks, timer), NEW t \in tasks, t.pc # "cancel", t.pc # "refresh" \/ t.fn # "change"
  PROVE  /\ t \in Workers(tasks) /\ t \in Waiting
         /\ Owns(t.op) <=> Mine(page, t.op)
         /\ t.pc \notin Early => Mine(page, t.op)
         /\ t.fn # "import" => Mine(page, t.op)
<1>1. t \in Waiting /\ Shape(t)
  BY DEF Kept, Sound
<1>2. t \in Workers(tasks)
  BY <1>1 DEF Waiting, Shape, Workers
<1> QED
  BY <1>1, <1>2 DEF Kept, Sound, Committed, Owns, Mine

(* The owner's function goes on, and the page stays as it is for the others. *)
LEMMA GoesOn ==
  ASSUME Kept(page, tasks, timer), NEW t \in Workers(tasks), Mine(page, t.op), NEW pc, NEW q \in Page,
         Go(t, pc, q), [t EXCEPT !.pc = pc] \in Waiting, Shape([t EXCEPT !.pc = pc]),
         q.op = page.op, q.last = page.last, q.drive = page.drive, q.polling = page.polling,
         q.leases = page.leases, q.retained \in {None, page.retained}, page.saving => q.saving,
         q.preflight <=> t.fn = "import" /\ pc \in Early,
         q.state \in {page.state, "complete", "cancelled"}, t.fn = "import" => q.job = page.job,
         pc = "saving" => q.saving /\ t.mode = "recover",
         t.fn = "retry" => pc = "refresh",
         t.pc \notin {"pause", "lease"}, pc \notin {"pause", "lease"}
  PROVE  Kept(page', tasks', timer) /\ page' = q
<1>1. /\ Exclusive(t) => page.state # "error"
      /\ t.fn = "import" => page.job = 0
      /\ t.fn = "retry" \/ t.pc = "saving" \/ page.retained # None => page.saving
      /\ Lease(page, t.op) \in {"none", "waiting", "held"}
      /\ page.drive # "loading"
      /\ page.drive = "ready" => Lease(page, t.op) = "held"
  BY AtWork
<1>2. Lease(q, t.op) = Lease(page, t.op)
  BY DEF Lease
<1>3. /\ Exclusive(t) => q.state # "error"
      /\ t.fn = "import" => q.job = 0
      /\ t.fn = "retry" \/ pc = "saving" \/ q.retained # None => q.saving
      /\ pc = "saving" /\ t.fn # "retry" /\ t.mode # "recover" => q.retained = Records(t)
      /\ t.fn = "retry" /\ pc # "refresh" => q.retained # None
  BY <1>1
<1>4. /\ \A i \in 1 .. MaxOps : i # t.op.id => q.leases[i] = page.leases[i]
      /\ Lease(q, t.op) \in {"none", "waiting", "held"}
      /\ pc # "pause" => q.drive # "loading"
      /\ pc = "lease" => Lease(q, t.op) # "none"
      /\ pc \notin {"pause", "lease"} /\ q.drive = "ready" => Lease(q, t.op) = "held"
  BY <1>1, <1>2
<1> QED
  BY <1>3, <1>4, GoKeeps

LEMMA DriveReadyKeeps ==
  ASSUME IInv, NEW t \in tasks, DriveReady(t)
  PROVE  IInv'
<1>1. Kept(page, tasks, timer) /\ Rest
  BY Parts
<1>2. /\ t.pc = "pause" /\ page.drive # "loading"
      /\ UNCHANGED <<timer, memory, relay, archive, handed, given, count>>
  BY DEF DriveReady, Quiet, World
<1>3. t \in Workers(tasks) /\ t \in Waiting /\ (Owns(t.op) <=> Mine(page, t.op))
  BY <1>1, <1>2, Working
<1>4. Rest'
  BY <1>1, <1>2 DEF Rest
<1>5. Kept(page', tasks', timer) /\ page'.retained = page.retained
  <2>1. CASE ~Mine(page, t.op)
    BY <1>1, <1>3, <2>1, StrangerLeaves DEF DriveReady
  <2>2. CASE Mine(page, t.op)
    <3>1. /\ page \in Page /\ Shape(t) /\ t.fn \in {"import", "poll", "retry"} /\ t.op.id \in 1 .. MaxOps
          /\ page.preflight <=> t.fn = "import" /\ t.pc \in Early
          /\ Exclusive(t) => page.state # "error"
          /\ t.fn = "import" => page.job = 0
          /\ t.fn = "retry" \/ page.retained # None => page.saving
          /\ t.fn = "retry" => page.retained # None
          /\ Lease(page, t.op) \in {"none", "waiting", "held"}
      BY <1>1, <1>2, <1>3, <2>2, AtWork
    <3>2. \A pc \in {"lease", "destinations"} :
            [t EXCEPT !.pc = pc] \in Waiting /\ Shape([t EXCEPT !.pc = pc]) /\ pc \in Early
      BY <1>2, <1>3, <3>1 DEF Waiting, Shape, Early
    <3>3. CASE page.drive = "absent"
      <4>1. Go(t, "destinations", page)
        BY <1>3, <2>2, <3>3 DEF DriveReady
      <4>2. Kept(page', tasks', timer) /\ page' = page
        BY <1>1, <1>2, <1>3, <2>2, <3>1, <3>2, <3>3, <4>1, GoKeeps DEF Early
      <4> QED
        BY <4>2
    <3>4. CASE page.drive # "absent"
      <4> DEFINE q == IF Lease(page, t.op) \in {"none", "done"} THEN SetLease(page, t.op, "waiting") ELSE page
      <4>1. Go(t, "lease", q)
        BY <1>3, <2>2, <3>4 DEF DriveReady
      <4>2. /\ q \in Page
            /\ q.op = page.op /\ q.last = page.last /\ q.drive = page.drive /\ q.polling = page.polling
            /\ q.preflight = page.preflight /\ q.state = page.state /\ q.job = page.job
            /\ q.saving = page.saving /\ q.retained = page.retained
            /\ \A i \in 1 .. MaxOps : i # t.op.id => q.leases[i] = page.leases[i]
            /\ Lease(q, t.op) \in {"waiting", "held"}
        <5>1. CASE Lease(page, t.op) = "none"
          BY <3>1, <5>1 DEF SetLease, Lease, Page
        <5>2. CASE Lease(page, t.op) # "none"
          BY <3>1, <5>2
        <5> QED
          BY <5>1, <5>2
      <4> HIDE DEF q
      <4>3. /\ q.preflight <=> t.fn = "import" /\ "lease" \in Early
            /\ Exclusive(t) => q.state # "error"
            /\ t.fn = "import" => q.job = 0
            /\ t.fn = "retry" \/ q.retained # None => q.saving
            /\ t.fn = "retry" => q.retained # None
            /\ q.drive # "loading"
        BY <1>2, <3>1, <4>2 DEF Early
      <4>4. [t EXCEPT !.pc = "lease"] \in Waiting /\ Shape([t EXCEPT !.pc = "lease"])
        BY <3>2
      <4>5. Kept(page', tasks', timer) /\ page' = q
        BY <1>1, <1>3, <2>2, <4>1, <4>2, <4>3, <4>4, GoKeeps
      <4> QED
        BY <4>2, <4>5
    <3> QED
      BY <3>3, <3>4
  <2> QED
    BY <2>1, <2>2
<1> QED
  BY <1>2, <1>4, <1>5, StepKeeps

LEMMA LeasedKeeps ==
  ASSUME IInv, NEW t \in tasks, Leased(t)
  PROVE  IInv'
<1>1. Kept(page, tasks, timer) /\ Rest
  BY Parts
<1>2. /\ t.pc = "lease" /\ Lease(page, t.op) \in {"held", "done"}
      /\ UNCHANGED <<timer, memory, relay, archive, handed, given, count>>
  BY DEF Leased, Quiet, World
<1>3. t \in Workers(tasks) /\ t \in Waiting /\ (Owns(t.op) <=> Mine(page, t.op))
  BY <1>1, <1>2, Working
<1>4. Rest'
  BY <1>1, <1>2 DEF Rest
<1>5. Kept(page', tasks', timer) /\ page'.retained = page.retained
  <2>1. CASE ~Mine(page, t.op)
    BY <1>1, <1>3, <2>1, StrangerLeaves DEF Leased
  <2>2. CASE Mine(page, t.op)
    <3>1. /\ page \in Page /\ Shape(t) /\ t.fn \in {"import", "poll", "retry"}
          /\ page.preflight <=> t.fn = "import" /\ t.pc \in Early
          /\ Exclusive(t) => page.state # "error"
          /\ t.fn = "import" => page.job = 0
          /\ t.fn = "retry" \/ page.retained # None => page.saving
          /\ t.fn = "retry" => page.retained # None
          /\ Lease(page, t.op) = "held" /\ page.drive # "loading"
      BY <1>1, <1>2, <1>3, <2>2, AtWork
    <3>2. [t EXCEPT !.pc = "destinations"] \in Waiting /\ Shape([t EXCEPT !.pc = "destinations"])
      BY <1>2, <1>3, <3>1 DEF Waiting, Shape, Early
    <3>3. Go(t, "destinations", page)
      BY <1>3, <2>2 DEF Leased
    <3>4. Kept(page', tasks', timer) /\ page' = page
      BY <1>1, <1>2, <1>3, <2>2, <3>1, <3>2, <3>3, GoKeeps DEF Early
    <3> QED
      BY <3>4
  <2> QED
    BY <2>1, <2>2
<1> QED
  BY <1>2, <1>4, <1>5, StepKeeps

LEMMA DestinationsKeeps ==
  ASSUME IInv, NEW t \in tasks, Destinations(t)
  PROVE  IInv'
<1>1. Kept(page, tasks, timer) /\ Rest
  BY Parts
<1>2. t.pc = "destinations" /\ UNCHANGED <<timer, memory, relay, archive, given>>
  BY DEF Destinations, World
<1>3. t \in Workers(tasks) /\ t \in Waiting /\ (Owns(t.op) <=> Mine(page, t.op))
  BY <1>1, <1>2, Working
<1>4. CASE ~Mine(page, t.op)
  <2>1. Disowned(t, page) /\ UNCHANGED <<count, handed>>
    BY <1>3, <1>4 DEF Destinations
  <2>2. Kept(page', tasks', timer) /\ page'.retained = page.retained
    BY <1>1, <1>3, <1>4, <2>1, StrangerLeaves
  <2> QED
    BY <1>1, <1>2, <2>1, <2>2, StepKeeps DEF Rest
<1>5. CASE Mine(page, t.op) /\ Failed(t) /\ Fault /\ handed' = handed
  <2>1. Kept(page', tasks', timer) /\ page'.retained = page.retained
    BY <1>1, <1>3, <1>5, FailedKeeps
  <2>2. Rest'
    BY <1>1, <1>2, <1>5 DEF Rest, Fault
  <2> QED
    BY <1>2, <1>5, <2>1, <2>2, StepKeeps
<1>6. CASE Mine(page, t.op) /\ Start(t) /\ count' = count
  <2>1. CASE t.fn = "retry"
    <3>1. Store(t)
      BY <1>6, <2>1 DEF Start
    <3>2. /\ Kept(page', tasks', timer)
          /\ page.retained \in {None, page'.retained}
          /\ \/ handed' = handed
             \/ page'.retained \in Collected /\ handed' = handed \cup {page'.retained}
      BY <1>1, <1>2, <1>3, <1>6, <2>1, <3>1, StoreKeeps
    <3>3. Rest'
      BY <1>1, <1>2, <1>6, <3>2 DEF Rest
    <3> QED
      BY <1>2, <3>2, <3>3, StepKeeps
  <2>2. CASE t.fn # "retry"
    <3>1. /\ page \in Page /\ Shape(t) /\ t.fn \in {"import", "poll"}
          /\ page.preflight <=> t.fn = "import" /\ t.pc \in Early
      BY <1>1, <1>3, <1>6, <2>2, AtWork
    <3>2. handed' = handed
      BY <1>6, <2>2 DEF Start
    <3>3. CASE t.fn = "poll"
      <4>1. Go(t, "status", page)
        BY <1>6, <2>2, <3>3 DEF Start
      <4>2. [t EXCEPT !.pc = "status"] \in Waiting /\ Shape([t EXCEPT !.pc = "status"])
        BY <1>3, <3>1, <3>3 DEF Waiting, Shape, Early
      <4>3. Kept(page', tasks', timer) /\ page' = page
        BY <1>1, <1>2, <1>3, <1>6, <3>1, <3>3, <4>1, <4>2, GoesOn
      <4> QED
        BY <1>1, <1>2, <1>6, <3>2, <4>3, StepKeeps DEF Rest
    <3>4. CASE t.fn = "import"
      <4> DEFINE q == [page EXCEPT !.preflight = FALSE, !.abort = t.mode = "collect"]
      <4>1. Go(t, t.mode, q)
        BY <1>6, <2>2, <3>4 DEF Start
      <4>2. t.mode \in {"file", "collect", "relay", "recover"} /\ t.mode \notin Early
        BY <1>3, <3>1, <3>4 DEF Waiting, Shape, Early
      <4>3. [t EXCEPT !.pc = t.mode] \in Waiting /\ Shape([t EXCEPT !.pc = t.mode])
        BY <1>3, <3>1, <3>4, <4>2 DEF Waiting, Shape, Early
      <4>4. /\ q \in Page
            /\ q.op = page.op /\ q.last = page.last /\ q.drive = page.drive /\ q.polling = page.polling
            /\ q.leases = page.leases /\ q.retained = page.retained /\ q.saving = page.saving
            /\ ~q.preflight /\ q.state = page.state /\ q.job = page.job
        BY <3>1 DEF Page
      <4> HIDE DEF q
      <4>5. Kept(page', tasks', timer) /\ page' = q
        BY <1>1, <1>2, <1>3, <1>6, <3>4, <4>1, <4>2, <4>3, <4>4, GoesOn
      <4>6. Rest'
        BY <1>1, <1>2, <1>6, <3>2 DEF Rest
      <4> QED
        BY <1>2, <3>2, <4>4, <4>5, <4>6, StepKeeps
    <3> QED
      BY <3>1, <3>3, <3>4
  <2> QED
    BY <2>1, <2>2
<1>7. \/ ~Mine(page, t.op)
      \/ Mine(page, t.op) /\ Failed(t) /\ Fault /\ handed' = handed
      \/ Mine(page, t.op) /\ Start(t) /\ count' = count
  BY <1>3 DEF Destinations
<1> QED
  BY <1>4, <1>5, <1>6, <1>7

(* Records were stored, refused or lost; nothing else changes. *)
LEMMA StoreStep ==
  ASSUME IInv, NEW t \in tasks, t.pc \in {"file", "collect", "result"}, Store(t),
         UNCHANGED <<timer, memory, relay, archive, given, count>>
  PROVE  IInv'
<1>1. Kept(page, tasks, timer) /\ Rest
  BY Parts
<1>2. t \in Workers(tasks) /\ Mine(page, t.op) /\ t.pc \notin Early
  BY <1>1, Working DEF Early
<1>3. /\ Kept(page', tasks', timer)
      /\ page.retained \in {None, page'.retained}
      /\ \/ handed' = handed
         \/ page'.retained \in Collected /\ handed' = handed \cup {page'.retained}
  BY <1>1, <1>2, StoreKeeps DEF Early
<1>4. Rest'
  BY <1>1, <1>3 DEF Rest
<1> QED
  BY <1>3, <1>4, StepKeeps

(* A function failed; what else changed is not the page's. *)
LEMMA FailedStep ==
  ASSUME IInv, NEW t \in tasks, t.pc \notin {"cancel", "refresh"}, Failed(t), Rest',
         UNCHANGED <<timer, archive, handed, given>>
  PROVE  IInv'
<1>1. Kept(page, tasks, timer) /\ Rest
  BY Parts
<1>2. t \in Workers(tasks)
  BY <1>1, Working
<1>3. Kept(page', tasks', timer) /\ page'.retained = page.retained
  BY <1>1, <1>2, FailedKeeps
<1> QED
  BY <1>3, StepKeeps

LEMMA ReadKeeps ==
  ASSUME IInv, NEW t \in tasks, Read(t)
  PROVE  IInv'
<1>1. Kept(page, tasks, timer) /\ Rest
  BY Parts
<1>2. t.pc \in {"file", "collect"} /\ UNCHANGED <<timer, memory, relay, archive, given>>
  BY DEF Read, World
<1>3. t \in Workers(tasks) /\ t \in Waiting /\ Owns(t.op) /\ Mine(page, t.op) /\ t.pc \notin Early
  BY <1>1, <1>2, Working DEF Early
<1>4. CASE Store(t) /\ count' = count
  BY <1>2, <1>4, StoreStep
<1>5. CASE Failed(t) /\ Fault /\ handed' = handed
  <2>1. Rest'
    BY <1>1, <1>2, <1>5 DEF Rest, Fault
  <2> QED
    BY <1>2, <1>5, <2>1, FailedStep
<1>6. CASE Go(t, "refresh", [page EXCEPT !.state = "cancelled"]) /\ UNCHANGED <<count, handed>>
  <2> DEFINE q == [page EXCEPT !.state = "cancelled"]
  <2>1. /\ page \in Page /\ Shape(t) /\ ~page.preflight /\ t.fn \in {"import", "poll", "retry"}
    BY <1>1, <1>3, AtWork
  <2>2. [t EXCEPT !.pc = "refresh"] \in Waiting /\ Shape([t EXCEPT !.pc = "refresh"])
    BY <1>3, <2>1 DEF Waiting, Shape
  <2>3. /\ q \in Page
        /\ q.op = page.op /\ q.last = page.last /\ q.drive = page.drive /\ q.polling = page.polling
        /\ q.leases = page.leases /\ q.retained = page.retained /\ q.saving = page.saving
        /\ q.preflight = page.preflight /\ q.state = "cancelled" /\ q.job = page.job
    BY <2>1 DEF Page
  <2>4. Go(t, "refresh", q)
    BY <1>6
  <2> HIDE DEF q
  <2>5. Kept(page', tasks', timer) /\ page' = q
    BY <1>1, <1>2, <1>3, <2>1, <2>2, <2>3, <2>4, GoesOn DEF Early
  <2>6. Rest'
    BY <1>1, <1>2, <1>6 DEF Rest
  <2> QED
    BY <1>2, <1>6, <2>3, <2>5, <2>6, StepKeeps
<1>7. \/ Store(t) /\ count' = count
      \/ Failed(t) /\ Fault /\ handed' = handed
      \/ Go(t, "refresh", [page EXCEPT !.state = "cancelled"]) /\ UNCHANGED <<count, handed>>
  BY <1>3 DEF Read
<1> QED
  BY <1>4, <1>5, <1>6, <1>7

LEMMA SubmitKeeps ==
  ASSUME IInv, NEW t \in tasks, Submit(t)
  PROVE  IInv'
<1>1. Kept(page, tasks, timer) /\ Rest
  BY Parts
<1>2. t.pc = "relay" /\ UNCHANGED <<archive, handed, given>>
  BY DEF Submit
<1>3. /\ t \in Workers(tasks) /\ t \in Waiting /\ Owns(t.op) /\ Mine(page, t.op) /\ t.pc \notin Early
      /\ t.op \in Operation
  BY <1>1, <1>2, Working DEF Early, Waiting
<1> DEFINE j == CHOOSE j \in Jobs : relay[j].status = "none"
           Taken == /\ \E i \in Jobs : relay[i].status = "none"
                    /\ relay' = [relay EXCEPT ![j] = [status |-> "running", profile |-> t.op.profile]]
<1>4. Taken => /\ j \in Jobs
               /\ relay' \in [Jobs -> [status : {"none", "running", "done", "empty", "gone"},
                                      profile : Profiles \cup {None}]]
  BY <1>1, <1>3 DEF Rest, Operation
<1>5. Fault => count' \in [faults : Nat, loads : Nat]
  BY <1>1 DEF Fault, Rest
<1>6. CASE Failed(t) /\ (Taken \/ relay' = relay) /\ UNCHANGED <<memory, timer>> /\ (Fault \/ count' = count)
  <2>1. Rest'
    BY <1>1, <1>2, <1>4, <1>5, <1>6 DEF Rest
  <2> QED
    BY <1>2, <1>6, <2>1, FailedStep
<1>7. CASE /\ Taken /\ memory' = [memory EXCEPT ![t.op.profile] = j]
           /\ Poll([page EXCEPT !.job = j], tasks \ {t}, j, t.op) /\ count' = count
  <2> HIDE DEF j
  <2> DEFINE q == [page EXCEPT !.job = j]
             rest == tasks \ {t}
  <2>1. page \in Page /\ ~page.preflight /\ j \in Jobs
    BY <1>1, <1>3, <1>4, <1>7, AtWork
  <2>2. /\ q \in Page
        /\ q.op = page.op /\ q.last = page.last /\ q.leases = page.leases /\ q.drive = page.drive
        /\ q.retained = page.retained /\ q.preflight = page.preflight /\ q.saving = page.saving
        /\ q.polling = page.polling
    BY <2>1 DEF Page, Jobs
  <2>3. Sound(page, rest, timer) /\ rest \in SUBSET Waiting
    BY <1>1, <1>3, <2>1, DropKeeps DEF Kept, Workers
  <2>4. \A u \in Workers(rest) : ~Mine(page, u.op)
    BY <1>1, <1>3 DEF Kept, Sound, Single, Workers
  <2>5. \A u \in rest : Exclusive(u) => ~Mine(page, u.op)
    BY <2>4 DEF Exclusive, Workers
  <2> HIDE DEF q, rest
  <2>6. Kept(q, rest, timer)
    BY <1>1, <2>2, <2>3, <2>5, StateKeeps DEF Kept
  <2>7. \A u \in Workers(rest) : ~Mine(q, u.op)
    BY <2>2, <2>4 DEF Mine
  <2>8. Poll(q, rest, j, t.op)
    BY <1>7 DEF q, rest
  <2>9. Kept(page', tasks', timer') /\ page'.retained = page.retained
    BY <1>3, <2>1, <2>2, <2>6, <2>7, <2>8, PollKeeps
  <2>10. memory' \in [Profiles -> 0 .. MaxJobs]
    <3>1. j \in 0 .. MaxJobs /\ memory \in [Profiles -> 0 .. MaxJobs]
      BY <1>1, <2>1, PageAssumption DEF Rest, Jobs
    <3>2. memory' = [memory EXCEPT ![t.op.profile] = j]
      BY <1>7
    <3> QED
      BY <3>1, <3>2
  <2>11. Rest'
    BY <1>1, <1>2, <1>4, <1>7, <2>10 DEF Rest
  <2> QED
    BY <1>2, <2>9, <2>11, StepKeeps
<1>8. \/ Failed(t) /\ (Taken \/ relay' = relay) /\ UNCHANGED <<memory, timer>> /\ (Fault \/ count' = count)
      \/ /\ Taken /\ memory' = [memory EXCEPT ![t.op.profile] = j]
         /\ Poll([page EXCEPT !.job = j], tasks \ {t}, j, t.op) /\ count' = count
  BY <1>3 DEF Submit
<1> QED
  BY <1>6, <1>7, <1>8

LEMMA RecoverKeeps ==
  ASSUME IInv, NEW t \in tasks, Recover(t)
  PROVE  IInv'
<1>1. Kept(page, tasks, timer) /\ Rest
  BY Parts
<1>2. t.pc \in {"recover", "match"} /\ UNCHANGED <<timer, memory, relay, archive, handed, given>>
  BY DEF Recover, Quiet, World
<1>3. t \in Workers(tasks) /\ t \in Waiting /\ Owns(t.op) /\ Mine(page, t.op) /\ t.pc \notin Early
  BY <1>1, <1>2, Working DEF Early
<1>4. /\ page \in Page /\ Shape(t) /\ ~page.preflight /\ t.fn = "import" /\ t.mode = "recover"
  BY <1>1, <1>2, <1>3, AtWork DEF Shape
<1>5. CASE Failed(t) /\ Fault
  <2>1. Rest'
    BY <1>1, <1>2, <1>5 DEF Rest, Fault
  <2> QED
    BY <1>2, <1>5, <2>1, FailedStep
<1>6. \A pc \in {"match", "saving"} :
        [t EXCEPT !.pc = pc] \in Waiting /\ Shape([t EXCEPT !.pc = pc]) /\ pc \notin Early
  BY <1>3, <1>4 DEF Waiting, Shape, Early
<1>7. CASE Go(t, "match", page) /\ count' = count
  <2>1. Kept(page', tasks', timer) /\ page' = page
    BY <1>1, <1>2, <1>3, <1>4, <1>6, <1>7, GoesOn
  <2> QED
    BY <1>1, <1>2, <1>7, <2>1, StepKeeps DEF Rest
<1>8. CASE Go(t, "saving", [page EXCEPT !.saving = TRUE]) /\ count' = count
  <2> DEFINE q == [page EXCEPT !.saving = TRUE]
  <2>1. /\ q \in Page
        /\ q.op = page.op /\ q.last = page.last /\ q.drive = page.drive /\ q.polling = page.polling
        /\ q.leases = page.leases /\ q.retained = page.retained /\ q.saving
        /\ q.preflight = page.preflight /\ q.state = page.state /\ q.job = page.job
    BY <1>4 DEF Page
  <2>2. Go(t, "saving", q)
    BY <1>8
  <2> HIDE DEF q
  <2>3. Kept(page', tasks', timer) /\ page' = q
    BY <1>1, <1>2, <1>3, <1>4, <1>6, <2>1, <2>2, GoesOn
  <2>4. Rest'
    BY <1>1, <1>2, <1>8 DEF Rest
  <2> QED
    BY <1>2, <2>1, <2>3, <2>4, StepKeeps
<1> QED
  BY <1>3, <1>5, <1>7, <1>8 DEF Recover

LEMMA SavedKeeps ==
  ASSUME IInv, NEW t \in tasks, Saved(t)
  PROVE  IInv'
<1>1. Kept(page, tasks, timer) /\ Rest
  BY Parts
<1>2. t.pc = "saving" /\ UNCHANGED <<timer, relay, handed, given>>
  BY DEF Saved
<1>3. t \in Workers(tasks) /\ t \in Waiting /\ Owns(t.op) /\ Mine(page, t.op) /\ t.pc \notin Early
  BY <1>1, <1>2, Working DEF Early
<1>4. CASE Failed(t) /\ Fault /\ UNCHANGED <<archive, memory>>
  <2>1. Rest'
    BY <1>1, <1>2, <1>4 DEF Rest, Fault
  <2> QED
    BY <1>2, <1>4, <2>1, FailedStep
<1> DEFINE pg == IF t.mode = "recover" THEN page ELSE [page EXCEPT !.retained = None]
           q == [pg EXCEPT !.state = "complete"]
<1>5. CASE /\ archive' = archive \cup {Payload(t)} /\ Go(t, "refresh", q)
           /\ memory' = (IF t.fn = "import" THEN memory ELSE [memory EXCEPT ![t.op.profile] = 0])
           /\ count' = count
  <2>1. /\ page \in Page /\ Shape(t) /\ ~page.preflight /\ page.saving
        /\ t.mode # "recover" => page.retained = Payload(t)
        /\ Payload(t) \in Collected
    <3>1. /\ page \in Page /\ Shape(t) /\ ~page.preflight /\ page.saving
          /\ t.fn # "retry" /\ t.mode # "recover" => page.retained = Records(t)
      BY <1>1, <1>2, <1>3, AtWork
    <3>2. Payload(t) \in Collected /\ (t.fn # "retry" => Payload(t) = Records(t))
      BY <1>1, <1>2, <1>3, PayloadType
    <3>3. t.fn = "retry" => Payload(t) = page.retained
      BY DEF Payload
    <3> QED
      BY <3>1, <3>2, <3>3
  <2>2. [t EXCEPT !.pc = "refresh"] \in Waiting /\ Shape([t EXCEPT !.pc = "refresh"])
    BY <1>3, <2>1 DEF Waiting, Shape, Workers
  <2>3. /\ pg \in Page
        /\ pg.op = page.op /\ pg.last = page.last /\ pg.drive = page.drive /\ pg.polling = page.polling
        /\ pg.leases = page.leases /\ pg.saving = page.saving /\ pg.job = page.job
        /\ pg.preflight = page.preflight
        /\ pg.retained = IF t.mode = "recover" THEN page.retained ELSE None
    BY <2>1 DEF Page
  <2> HIDE DEF pg
  <2>4. /\ q \in Page
        /\ q.op = page.op /\ q.last = page.last /\ q.drive = page.drive /\ q.polling = page.polling
        /\ q.leases = page.leases /\ q.saving = page.saving /\ q.job = page.job
        /\ q.preflight = page.preflight /\ q.state = "complete"
        /\ q.retained = IF t.mode = "recover" THEN page.retained ELSE None
    BY <2>3 DEF Page
  <2>5. Go(t, "refresh", q)
    BY <1>5
  <2> HIDE DEF q
  <2>6. Kept(page', tasks', timer) /\ page' = q
    BY <1>1, <1>2, <1>3, <2>1, <2>2, <2>4, <2>5, GoesOn DEF Early
  <2>7. Rest'
    <3>1. memory' \in [Profiles -> 0 .. MaxJobs]
      <4>1. 0 \in 0 .. MaxJobs /\ memory \in [Profiles -> 0 .. MaxJobs]
        BY <1>1, PageAssumption DEF Rest
      <4>2. [memory EXCEPT ![t.op.profile] = 0] \in [Profiles -> 0 .. MaxJobs]
        BY <4>1
      <4> QED
        BY <1>5, <4>1, <4>2
    <3> QED
      BY <1>1, <1>2, <1>5, <2>1, <3>1 DEF Rest
  <2> QED
    BY <1>2, <1>5, <2>1, <2>4, <2>6, <2>7, StepKeeps
<1>6. \/ Failed(t) /\ Fault /\ UNCHANGED <<archive, memory>>
      \/ /\ archive' = archive \cup {Payload(t)} /\ Go(t, "refresh", q)
         /\ memory' = (IF t.fn = "import" THEN memory ELSE [memory EXCEPT ![t.op.profile] = 0])
         /\ count' = count
  BY <1>3 DEF Saved
<1> QED
  BY <1>4, <1>5, <1>6

LEMMA RefreshedKeeps ==
  ASSUME IInv, NEW t \in tasks, Refreshed(t)
  PROVE  IInv'
<1>1. Kept(page, tasks, timer) /\ Rest
  BY Parts
<1>2. /\ t.pc = "refresh" /\ t.fn # "change" /\ Done(t, page)
      /\ UNCHANGED <<timer, memory, relay, archive, handed, given, count>>
  BY DEF Refreshed, Quiet, World
<1>3. t \in Workers(tasks) /\ Mine(page, t.op)
  BY <1>1, <1>2, Working DEF Early
<1>4. Kept(page', tasks', timer) /\ page'.retained = page.retained
  BY <1>1, <1>2, <1>3, WorkDone
<1>5. Rest'
  BY <1>1, <1>2 DEF Rest
<1> QED
  BY <1>2, <1>4, <1>5, StepKeeps

(* The relay no longer knows the job. *)
LEMMA GoneStep ==
  ASSUME IInv, NEW t \in tasks, t.pc \in {"status", "result"}, Gone(t),
         UNCHANGED <<timer, relay, archive, handed, given, count>>
  PROVE  IInv'
<1>1. Kept(page, tasks, timer) /\ Rest
  BY Parts
<1>2. t \in Workers(tasks) /\ Mine(page, t.op)
  BY <1>1, Working DEF Early
<1>3. Ended(t, Finished([page EXCEPT !.state = "error"], t.op))
  BY DEF Gone, Done, Error
<1>4. Kept(page', tasks', timer) /\ page'.retained = page.retained
  BY <1>1, <1>2, <1>3, WorkEnds
<1>5. Rest'
  <2>1. 0 \in 0 .. MaxJobs /\ memory \in [Profiles -> 0 .. MaxJobs]
    BY <1>1, PageAssumption DEF Rest
  <2>2. memory' = [memory EXCEPT ![t.op.profile] = 0]
    BY DEF Gone
  <2>3. memory' \in [Profiles -> 0 .. MaxJobs]
    BY <2>1, <2>2
  <2> QED
    BY <1>1, <2>3 DEF Rest
<1> QED
  BY <1>4, <1>5, StepKeeps

(* The poll that found the job running asks for another one. *)
LEMMA PollAgain ==
  ASSUME Kept(page, tasks, timer), NEW t \in Workers(tasks), Mine(page, t.op), t.fn = "poll",
         Ended(t, [page EXCEPT !.job = t.job, !.state = "running"]),
         timer' = [job |-> t.job, op |-> t.op]
  PROVE  Kept(page', tasks', timer') /\ page'.retained = page.retained
<1> DEFINE q == [page EXCEPT !.job = t.job, !.state = "running"]
           rest == tasks \ {t}
<1>1. page \in Page /\ t \in Waiting /\ t.job \in Jobs /\ ~page.preflight /\ page.op = t.op
  BY AtWork, PageAssumption DEF Waiting, Shape, Jobs
<1>2. /\ q \in Page
      /\ q.op = page.op /\ q.last = page.last /\ q.leases = page.leases /\ q.drive = page.drive
      /\ q.retained = page.retained /\ q.preflight = page.preflight
      /\ q.saving = page.saving /\ q.polling = page.polling
  <2>1. t.job \in 0 .. MaxJobs
    BY <1>1 DEF Waiting
  <2>2. q \in Page
    BY <1>1, <2>1 DEF Page
  <2> QED
    BY <1>1, <2>2 DEF Page
<1>3. page' = [q EXCEPT !.polling = FALSE] /\ tasks' = rest
  BY DEF Ended
<1> HIDE DEF q
<1>4. \A u \in Workers(rest) : u \in Workers(tasks) /\ ~Mine(page, u.op)
  BY DEF Kept, Sound, Single, Workers
<1>5. /\ \A u \in rest : u.fn # "poll"
      /\ \A u \in rest : Exclusive(u) => ~Mine(page, u.op)
  BY <1>4 DEF Kept, Sound, Committed, Workers, Exclusive
<1>6. Sound(page, rest, timer) /\ rest \in SUBSET Waiting
  BY <1>1, DropKeeps DEF Kept, Workers
<1> HIDE DEF rest
<1>7. Sound(q, rest, timer)
  BY <1>2, <1>5, <1>6, StateKeeps
<1>8. Sound(page', rest, timer) /\ page' \in Page
  BY <1>2, <1>3, <1>5, <1>7, PollEnds
<1>9. page'.op = t.op /\ page'.last = page.last /\ page'.retained = page.retained
  BY <1>1, <1>2, <1>3 DEF Page
<1>10. timer'.op = t.op /\ timer' \in Timer
  BY <1>1 DEF Timer, Waiting
<1>11. Known(page', rest, timer')
  <2>1. t.op.id \in 1 .. page.last
    BY <1>1 DEF Kept, Sound, Known, Workers
  <2> QED
    BY <1>8, <1>9, <1>10, <2>1 DEF Sound, Known
<1>12. Alone(page', rest, timer')
  <2>1. \A u \in rest : Exclusive(u) => ~Mine(page', u.op)
    BY <1>1, <1>5, <1>9 DEF Mine
  <2> QED
    BY <2>1 DEF Alone
<1>13. Sound(page', rest, timer')
  BY <1>8, <1>11, <1>12 DEF Sound
<1> QED
  BY <1>3, <1>6, <1>8, <1>9, <1>10, <1>13 DEF Kept

LEMMA StatusKeeps ==
  ASSUME IInv, NEW t \in tasks, Status(t)
  PROVE  IInv'
<1>1. Kept(page, tasks, timer) /\ Rest
  BY Parts
<1>2. t.pc = "status" /\ UNCHANGED <<relay, archive, handed, given>>
  BY DEF Status, Quiet, World
<1>3. t \in Workers(tasks) /\ t \in Waiting /\ Owns(t.op) /\ Mine(page, t.op) /\ t.pc \notin Early
  BY <1>1, <1>2, Working DEF Early
<1>4. /\ page \in Page /\ Shape(t) /\ t.fn = "poll" /\ ~page.preflight /\ t.job \in 0 .. MaxJobs
      /\ t.op.profile \in Profiles
  BY <1>1, <1>2, <1>3, AtWork DEF Shape, Early, Waiting, Operation
<1>5. \A job \in 0 .. MaxJobs : [memory EXCEPT ![t.op.profile] = job] \in [Profiles -> 0 .. MaxJobs]
  BY <1>1, <1>4 DEF Rest
<1>6. \A pc \in {"result", "refresh"} :
        [t EXCEPT !.pc = pc] \in Waiting /\ Shape([t EXCEPT !.pc = pc]) /\ pc \notin Early
  BY <1>3, <1>4 DEF Waiting, Shape, Early
<1>7. CASE /\ timer' = [job |-> t.job, op |-> t.op]
           /\ memory' = [memory EXCEPT ![t.op.profile] = t.job]
           /\ Ended(t, [page EXCEPT !.job = t.job, !.state = "running"]) /\ count' = count
  <2>1. Kept(page', tasks', timer') /\ page'.retained = page.retained
    BY <1>1, <1>3, <1>4, <1>7, PollAgain
  <2>2. Rest'
    BY <1>1, <1>2, <1>4, <1>5, <1>7 DEF Rest
  <2> QED
    BY <1>2, <2>1, <2>2, StepKeeps
<1>8. CASE /\ Go(t, "result", [page EXCEPT !.job = t.job, !.saving = TRUE])
           /\ UNCHANGED <<timer, memory, count>>
  <2> DEFINE q == [page EXCEPT !.job = t.job, !.saving = TRUE]
  <2>1. /\ q \in Page
        /\ q.op = page.op /\ q.last = page.last /\ q.drive = page.drive /\ q.polling = page.polling
        /\ q.leases = page.leases /\ q.retained = page.retained /\ q.saving
        /\ q.preflight = page.preflight /\ q.state = page.state
    BY <1>4 DEF Page
  <2>2. Go(t, "result", q)
    BY <1>8
  <2> HIDE DEF q
  <2>3. Kept(page', tasks', timer) /\ page' = q
    BY <1>1, <1>2, <1>3, <1>4, <1>6, <2>1, <2>2, GoesOn
  <2>4. Rest'
    BY <1>1, <1>2, <1>8 DEF Rest
  <2> QED
    BY <1>2, <1>8, <2>1, <2>3, <2>4, StepKeeps
<1>9. CASE /\ memory' = [memory EXCEPT ![t.op.profile] = 0]
           /\ Go(t, "refresh", [page EXCEPT !.job = t.job, !.state = "cancelled"])
           /\ UNCHANGED <<timer, count>>
  <2> DEFINE q == [page EXCEPT !.job = t.job, !.state = "cancelled"]
  <2>1. /\ q \in Page
        /\ q.op = page.op /\ q.last = page.last /\ q.drive = page.drive /\ q.polling = page.polling
        /\ q.leases = page.leases /\ q.retained = page.retained /\ q.saving = page.saving
        /\ q.preflight = page.preflight /\ q.state = "cancelled"
    BY <1>4 DEF Page
  <2>2. Go(t, "refresh", q)
    BY <1>9
  <2> HIDE DEF q
  <2>3. Kept(page', tasks', timer) /\ page' = q
    BY <1>1, <1>2, <1>3, <1>4, <1>6, <2>1, <2>2, GoesOn
  <2>4. Rest'
    BY <1>1, <1>2, <1>5, <1>9, PageAssumption DEF Rest
  <2> QED
    BY <1>2, <1>9, <2>1, <2>3, <2>4, StepKeeps
<1>10. CASE Gone(t) /\ UNCHANGED <<timer, count>>
  BY <1>2, <1>10, GoneStep
<1>11. CASE Failed(t) /\ Fault /\ UNCHANGED <<timer, memory>>
  <2>1. Rest'
    BY <1>1, <1>2, <1>11 DEF Rest, Fault
  <2> QED
    BY <1>2, <1>11, <2>1, FailedStep
<1> QED
  BY <1>3, <1>7, <1>8, <1>9, <1>10, <1>11 DEF Status

LEMMA ResultKeeps ==
  ASSUME IInv, NEW t \in tasks, Result(t)
  PROVE  IInv'
<1>1. Kept(page, tasks, timer) /\ Rest
  BY Parts
<1>2. t.pc = "result" /\ UNCHANGED <<timer, relay, archive, given>>
  BY DEF Result, World
<1>3. Owns(t.op)
  BY <1>1, <1>2, Working DEF Early
<1>4. CASE Store(t) /\ UNCHANGED <<memory, count>>
  BY <1>2, <1>4, StoreStep
<1>5. CASE Gone(t) /\ UNCHANGED <<count, handed>>
  BY <1>2, <1>5, GoneStep
<1>6. CASE Failed(t) /\ Fault /\ UNCHANGED <<memory, handed>>
  <2>1. Rest'
    BY <1>1, <1>2, <1>6 DEF Rest, Fault
  <2> QED
    BY <1>2, <1>6, <2>1, FailedStep
<1> QED
  BY <1>3, <1>4, <1>5, <1>6 DEF Result

(***************************************************************************)
(* The theorems                                                            *)
(***************************************************************************)

LEMMA InitSound == Init => IInv
<1> SUFFICES ASSUME Init PROVE IInv
  OBVIOUS
<1>1. PICK p \in Profiles : page = NewPage(p, 0)
  BY DEF Init
<1>2. /\ tasks = {} /\ timer = NoTimer /\ archive = {} /\ handed = {} /\ given = {}
      /\ memory = [q \in Profiles |-> 0] /\ count = [faults |-> 0, loads |-> 0]
      /\ relay = [j \in Jobs |-> [status |-> "none", profile |-> None]]
  BY DEF Init
<1>3. page \in Page /\ page.op = None /\ ~page.preflight /\ \A i \in 1 .. MaxOps : page.leases[i] = "none"
  BY <1>1, PageAssumption DEF NewPage, Page
<1>4. TypeOK
  BY <1>2, <1>3, PageAssumption DEF TypeOK
<1>5. Workers(tasks) = {} /\ timer.job = 0
  BY <1>2 DEF Workers, NoTimer
<1>6. /\ Known(page, tasks, timer) /\ Single(page, tasks) /\ Committed(page, tasks) /\ Idle(page, tasks)
      /\ Polled(page, tasks) /\ Alone(page, tasks, timer) /\ Writing(page, tasks) /\ Leasing(page, tasks)
  BY <1>2, <1>3, <1>5 DEF Known, Single, Committed, Idle, Polled, Alone, Writing, Leasing
<1> QED
  BY <1>2, <1>4, <1>6 DEF IInv, Sound, CollectedStays

LEMMA StepSound ==
  ASSUME IInv, Hasty = FALSE, [Next]_vars
  PROVE  IInv'
<1>1. CASE Person
  BY <1>1, ImportKeeps, PrepareKeeps, ChangeProfileKeeps, CheckJobKeeps, RetryCollectedKeeps,
     DiscardKeeps, StopKeeps, ReloadKeeps DEF Person
<1>2. CASE ProfileDeleted \/ Prepared \/ Grant \/ DriveLoads \/ TimerFires \/ RelayStep
  BY <1>2, PrepareKeeps, GrantKeeps, DriveLoadsKeeps, TimerFiresKeeps, RelayStepKeeps
<1>3. ASSUME NEW t \in tasks, Continue(t) PROVE IInv'
  BY <1>3, ProfileShownKeeps, CancelledKeeps, DriveReadyKeeps, LeasedKeeps, DestinationsKeeps,
     ReadKeeps, SubmitKeeps, RecoverKeeps, SavedKeeps, RefreshedKeeps, StatusKeeps, ResultKeeps
     DEF Continue
<1>4. CASE UNCHANGED vars
  <2>1. page' = page /\ UNCHANGED <<tasks, timer, memory, relay, archive, handed, given, count>>
    BY <1>4 DEF vars
  <2>2. page' \in Page /\ Alike(page', page)
    BY <2>1, Parts DEF Kept, Alike
  <2> QED
    BY <2>1, <2>2, AlikeStep
<1> QED
  BY <1>1, <1>2, <1>3, <1>4 DEF Next, Machine

(* Every variable of the page keeps its type, for any number of operations and
   jobs. *)
THEOREM TypeCorrect ==
  ASSUME Hasty = FALSE
  PROVE  Spec => []TypeOK
<1>1. Init => IInv
  BY InitSound
<1>2. IInv /\ [Next]_vars => IInv'
  BY StepSound
<1>3. IInv => TypeOK
  BY DEF IInv
<1> QED
  BY <1>1, <1>2, <1>3, PTL DEF Spec

(* Records that were collected are stored, still in the tab, or let go by the
   person: no failed save, other operation or later collection loses them. *)
THEOREM RecordsStay ==
  ASSUME Hasty = FALSE
  PROVE  Spec => []CollectedStays
<1>1. Init => IInv
  BY InitSound
<1>2. IInv /\ [Next]_vars => IInv'
  BY StepSound
<1>3. IInv => CollectedStays
  BY DEF IInv
<1> QED
  BY <1>1, <1>2, <1>3, PTL DEF Spec

(* Sync is paused for whoever writes, and a pause ends with the operation it
   was taken for. *)
LEMMA PausesFollow == IInv => PauseFollowsWrites
<1> SUFFICES ASSUME IInv PROVE PauseFollowsWrites
  OBVIOUS
<1>1. Kept(page, tasks, timer)
  BY Parts
<1>2. WritesPaused
  <2> SUFFICES ASSUME NEW t \in tasks, t.pc = "saving", page.drive = "ready"
               PROVE  Lease(page, t.op) = "held"
    BY DEF WritesPaused
  <2>1. t \in Workers(tasks) /\ Mine(page, t.op)
    BY <1>1, Working DEF Early
  <2> QED
    BY <1>1, <2>1, AtWork
<1>3. NoOrphanLease
  BY <1>1 DEF Kept, Sound, Leasing, NoOrphanLease
<1> QED
  BY <1>2, <1>3 DEF PauseFollowsWrites

THEOREM WritesArePaused ==
  ASSUME Hasty = FALSE
  PROVE  Spec => []PauseFollowsWrites
<1>1. Init => IInv
  BY InitSound
<1>2. IInv /\ [Next]_vars => IInv'
  BY StepSound
<1>3. IInv => PauseFollowsWrites
  BY PausesFollow
<1> QED
  BY <1>1, <1>2, <1>3, PTL DEF Spec

(***************************************************************************)
(* An operation is not replaced                                            *)
(***************************************************************************)

(* A page that keeps the owner of this one, or has none any more. *)
SameOwner(q) == DOMAIN q = DOMAIN page /\ q.op \in {None, page.op}

LEMMA FinishedOwner ==
  ASSUME page \in Page, NEW pg, SameOwner(pg), NEW op
  PROVE  SameOwner(Unleased(pg, op)) /\ SameOwner(Finished(pg, op)) /\ SameOwner(Error(pg))
<1>1. "op" \in DOMAIN pg
  BY DEF SameOwner, Page
<1>2. SameOwner(Unleased(pg, op))
  BY <1>1 DEF SameOwner, Unleased, SetLease
<1>3. SameOwner(Finished(pg, op))
  <2> DEFINE f == Unleased(pg, op)
             q == [f EXCEPT !.op = None, !.preflight = FALSE, !.stopping = FALSE, !.saving = FALSE, !.abort = FALSE]
  <2>1. Finished(pg, op) \in {f, q}
    BY DEF Finished
  <2> HIDE DEF f
  <2>2. SameOwner(f)
    BY <1>2 DEF f
  <2>3. "op" \in DOMAIN f
    BY <2>2 DEF SameOwner, Page
  <2>4. DOMAIN q = DOMAIN f /\ q.op = None
    BY <2>3
  <2> QED
    BY <2>1, <2>2, <2>4 DEF SameOwner
<1>4. SameOwner(Error(pg))
  BY <1>1 DEF SameOwner, Error
<1> QED
  BY <1>2, <1>3, <1>4

LEMMA EndedOwner ==
  ASSUME page \in Page, NEW t, NEW q, SameOwner(q), Ended(t, q)
  PROVE  SameOwner(page')
BY DEF Ended, SameOwner, Page

LEMMA DoneOwner ==
  ASSUME page \in Page, NEW t, NEW q, SameOwner(q), Done(t, q)
  PROVE  SameOwner(page')
BY FinishedOwner, EndedOwner DEF Done

LEMMA DisownedOwner ==
  ASSUME page \in Page, NEW t, NEW q, SameOwner(q), Disowned(t, q)
  PROVE  SameOwner(page')
BY FinishedOwner, EndedOwner DEF Disowned

LEMMA FailedOwner ==
  ASSUME page \in Page, NEW t, Failed(t)
  PROVE  SameOwner(page')
<1>1. SameOwner(page) /\ SameOwner(Error(page))
  BY FinishedOwner DEF SameOwner
<1>2. SameOwner(Finished(page, t.op)) /\ SameOwner(Finished(Error(page), t.op))
  BY <1>1, FinishedOwner
<1>3. SameOwner([Error(page) EXCEPT !.saving = FALSE])
  BY <1>1 DEF SameOwner, Page
<1> QED
  BY <1>1, <1>2, <1>3, EndedOwner DEF Failed

LEMMA PollOwner ==
  ASSUME NEW pg \in Page, NEW ts, NEW job, NEW op, Poll(pg, ts, job, op)
  PROVE  page' \in Page /\ page'.op = pg.op
BY DEF Poll, Page

LEMMA StoreOwner ==
  ASSUME page \in Page, NEW t, Store(t)
  PROVE  page'.op \in {None, page.op}
<1>1. CASE Failed(t)
  BY <1>1, FailedOwner DEF SameOwner
<1>2. CASE Go(t, "saving", [page EXCEPT !.retained = Payload(t), !.saving = TRUE])
  BY <1>2 DEF Go, Page
<1> QED
  BY <1>1, <1>2 DEF Store

LEMMA ContinueOwner ==
  ASSUME IInv, NEW t \in tasks, Continue(t), page.op # None
  PROVE  page'.op \in {None, page.op}
<1>1. page \in Page /\ SameOwner(page)
  BY Parts DEF Kept, SameOwner
<1>2. ~ProfileShown(t)
  BY DEF ProfileShown, IInv, Sound, Idle
<1>3. CASE Cancelled(t)
  <2>1. SameOwner([Error(page) EXCEPT !.stopping = FALSE])
    BY <1>1 DEF SameOwner, Error, Page
  <2>2. SameOwner(IF Owns(t.op) THEN [Error(page) EXCEPT !.stopping = FALSE] ELSE page)
    BY <1>1, <2>1
  <2>3. \/ page'.op = page.op
        \/ SameOwner(page')
    BY <1>1, <1>3, <2>2, PollOwner, EndedOwner DEF Cancelled
  <2> QED
    BY <2>3 DEF SameOwner
<1>4. CASE DriveReady(t)
  <2>1. \/ SameOwner(page')
        \/ page' \in {page, SetLease(page, t.op, "waiting")}
    BY <1>1, <1>4, DisownedOwner DEF DriveReady, Go
  <2> QED
    BY <1>1, <2>1 DEF SameOwner, SetLease, Page
<1>5. CASE Leased(t)
  BY <1>1, <1>5, FinishedOwner, DisownedOwner DEF Leased, Go, SameOwner
<1>6. CASE Destinations(t)
  <2>1. CASE Start(t)
    <3>1. CASE t.fn = "retry"
      BY <1>1, <2>1, <3>1, StoreOwner DEF Start
    <3>2. CASE t.fn # "retry"
      BY <1>1, <2>1, <3>2 DEF Start, Go, Page
    <3> QED
      BY <3>1, <3>2
  <2>2. CASE Disowned(t, page) \/ Failed(t)
    BY <1>1, <2>2, DisownedOwner, FailedOwner DEF SameOwner
  <2> QED
    BY <1>6, <2>1, <2>2 DEF Destinations
<1>7. CASE Read(t)
  <2>1. CASE Store(t) \/ Failed(t) \/ Done(t, page)
    BY <1>1, <2>1, StoreOwner, FailedOwner, DoneOwner DEF SameOwner
  <2>2. CASE Go(t, "refresh", [page EXCEPT !.state = "cancelled"])
    BY <1>1, <2>2 DEF Go, Page
  <2> QED
    BY <1>7, <2>1, <2>2 DEF Read
<1>8. CASE Submit(t)
  <2>1. CASE Done(t, page) \/ Failed(t)
    BY <1>1, <2>1, DoneOwner, FailedOwner DEF SameOwner
  <2>2. CASE \E j \in Jobs : relay[j].status = "none" /\ Poll([page EXCEPT !.job = j], tasks \ {t}, j, t.op)
    <3>1. PICK j \in Jobs : Poll([page EXCEPT !.job = j], tasks \ {t}, j, t.op)
      BY <2>2
    <3>2. [page EXCEPT !.job = j] \in Page /\ [page EXCEPT !.job = j].op = page.op
      BY <1>1, PageAssumption DEF Page, Jobs
    <3> QED
      BY <3>1, <3>2, PollOwner
  <2> QED
    BY <1>8, <2>1, <2>2 DEF Submit
<1>9. CASE Recover(t)
  <2>1. CASE Done(t, page) \/ Failed(t)
    BY <1>1, <2>1, DoneOwner, FailedOwner DEF SameOwner
  <2> QED
    BY <1>1, <1>9, <2>1 DEF Recover, Go, Page
<1>10. CASE Saved(t)
  <2> DEFINE pg == IF t.mode = "recover" THEN page ELSE [page EXCEPT !.retained = None]
  <2>1. SameOwner(pg)
    BY <1>1 DEF SameOwner, Page
  <2>2. SameOwner([pg EXCEPT !.state = "complete"])
    BY <1>1, <2>1 DEF SameOwner, Page
  <2> HIDE DEF pg
  <2>3. Done(t, pg) \/ Ended(t, pg) \/ Go(t, "refresh", [pg EXCEPT !.state = "complete"]) \/ Failed(t)
    BY <1>10 DEF Saved, pg
  <2>4. SameOwner(page')
    BY <1>1, <2>1, <2>2, <2>3, DoneOwner, EndedOwner, FailedOwner DEF Go
  <2> QED
    BY <2>4 DEF SameOwner
<1>11. CASE Refreshed(t)
  BY <1>1, <1>11, DoneOwner DEF Refreshed, SameOwner
<1>12. SameOwner(Error(page))
  BY <1>1, FinishedOwner
<1>13. CASE Status(t)
  <2>1. SameOwner([page EXCEPT !.job = t.job, !.state = "running"])
    BY <1>1 DEF SameOwner, Page
  <2>2. CASE Ended(t, page) \/ Ended(t, [page EXCEPT !.job = t.job, !.state = "running"]) \/ Gone(t) \/ Failed(t)
    BY <1>1, <1>12, <2>1, <2>2, EndedOwner, DoneOwner, FailedOwner DEF Gone, SameOwner
  <2>3. CASE \/ Go(t, "result", [page EXCEPT !.job = t.job, !.saving = TRUE])
             \/ Go(t, "refresh", [page EXCEPT !.job = t.job, !.state = "cancelled"])
    BY <1>1, <2>3 DEF Go, Page
  <2> QED
    BY <1>13, <2>2, <2>3 DEF Status
<1>14. CASE Result(t)
  BY <1>1, <1>12, <1>14, EndedOwner, StoreOwner, DoneOwner, FailedOwner DEF Result, Gone, SameOwner
<1> QED
  BY <1>2, <1>3, <1>4, <1>5, <1>6, <1>7, <1>8, <1>9, <1>10, <1>11, <1>13, <1>14 DEF Continue

LEMMA StepOwner ==
  ASSUME IInv, Hasty = FALSE, Next, page.op # None, page'.op # None, count' = count
  PROVE  page'.op = page.op
<1>1. page \in Page /\ page.op \in Operation /\ SameOwner(page)
  BY Parts DEF Kept, Page, SameOwner
<1>2. ~Import /\ ~ChangeProfile /\ ~ProfileDeleted /\ ~Prepare
  BY DEF Import, ChangeProfile, ProfileDeleted, Prepare, Busy
<1>3. ~RetryCollected /\ ~Discard
  BY DEF RetryCollected, Discard, IInv, Sound, Writing
<1>4. ~Reload
  BY Parts DEF Reload, Rest
<1>5. CASE CheckJob
  BY <1>1, <1>5, PollOwner DEF CheckJob, Busy
<1>6. CASE Stop
  <2>1. SameOwner([page EXCEPT !.state = "cancelled"])
    BY <1>1 DEF SameOwner, Page
  <2>2. SameOwner(Finished([page EXCEPT !.state = "cancelled"], page.op))
    BY <1>1, <2>1, FinishedOwner
  <2> QED
    BY <1>1, <1>6, <2>2 DEF Stop, SameOwner, Page
<1>7. CASE Prepared \/ Grant \/ DriveLoads
  BY <1>1, <1>7 DEF Prepared, Grant, DriveLoads, Page
<1>8. CASE TimerFires
  BY <1>1, <1>8, PollOwner DEF TimerFires
<1>9. CASE RelayStep
  BY <1>9 DEF RelayStep
<1>10. ASSUME NEW t \in tasks, Continue(t) PROVE page'.op = page.op
  BY <1>10, ContinueOwner
<1> QED
  BY <1>2, <1>3, <1>4, <1>5, <1>6, <1>7, <1>8, <1>9, <1>10 DEF Next, Person, Machine

(* An operation is not replaced while the tab is open: the run in which it is
   needs a person who acts before a chosen profile is shown. *)
THEOREM NotRedirected ==
  ASSUME Hasty = FALSE
  PROVE  Spec => ImportNotRedirected
<1>1. Init => IInv
  BY InitSound
<1>2. IInv /\ [Next]_vars => IInv'
  BY StepSound
<1>3. IInv /\ [Next]_vars =>
        [page.op # None /\ page'.op # None /\ count' = count => page'.op = page.op]_vars
  BY StepOwner DEF vars
<1> QED
  BY <1>1, <1>2, <1>3, PTL DEF Spec, ImportNotRedirected

=============================================================================
