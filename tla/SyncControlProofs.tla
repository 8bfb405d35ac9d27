-------------------------- MODULE SyncControlProofs --------------------------
(***************************************************************************)
(* The sync controller keeps its passes apart from paused operations, its  *)
(* clean-up behind its audit and its answers with their questions, for any *)
(* archives, operations, faults, edits and sessions.                       *)
(***************************************************************************)
EXTENDS SyncControl, FiniteSetTheorems, WellFoundedInduction, TLAPS

(* The question a dialog shows is kept with it. *)
Asked == ctl.phase = "conflict" => ctl.dialog # None

(* A file counts as audited only once it was read as one this program knows. *)
AuditedReadable == \A f \in ctl.audited : f.kind # "future"

(* Files are numbered as they are made. *)
Numbered == \A f \in cloud : f.id <= count.files

(* What a pass has listed is what is there, a file of a later version among it
   is still to be read, and the answer in use was given about what the pass
   has in hand. *)
PassSound ==
  pass # None =>
    /\ pass.pc # "list" =>
         /\ pass.listed = cloud
         /\ \A f \in pass.listed : f.kind = "future" => f \in pass.todo
    /\ pass.pc \in {"reconcile", "apply"} /\ pass.used # None =>
         pass.used.pair = <<pass.value, Content(pass.listed)>>
    /\ pass.pc = "uploaded" => Good(pass.listed) # {}

IInv ==
  /\ TypeOK
  /\ Asked
  /\ AuditedReadable
  /\ Numbered
  /\ PassSound
  /\ PauseExcludesPass

(***************************************************************************)
(* The newest revision                                                     *)
(***************************************************************************)

(* A set of numbers with a bound has a greatest element. *)
LEMMA Greatest ==
  ASSUME NEW S \in SUBSET Nat, S # {}, NEW n \in Nat, \A x \in S : x <= n
  PROVE  \E x \in S : \A y \in S : y <= x
<1> DEFINE T == {n - x : x \in S}
           R == OpToRel(<, Nat)
<1>1. T \subseteq Nat /\ T # {}
  <2>1. \A x \in S : n - x \in Nat
    OBVIOUS
  <2> QED
    BY <2>1
<1>2. IsWellFoundedOn(R, Nat)
  BY NatLessThanWellFounded
<1>3. \A x, y \in Nat : <<y, x>> \in R <=> y < x
  BY DEF OpToRel
<1> HIDE DEF R
<1>4. PICK m \in T : \A k \in T : ~(<<k, m>> \in R)
  BY <1>1, <1>2, WFMin
<1>5. ASSUME NEW k \in T PROVE m <= k
  <2>1. m \in Nat /\ k \in Nat
    BY <1>1
  <2> HIDE DEF T
  <2>2. ~(k < m)
    BY <1>3, <1>4, <2>1
  <2> QED
    BY <2>1, <2>2
<1>6. PICK x \in S : m = n - x
  BY <1>4
<1>7. ASSUME NEW y \in S PROVE y <= x
  <2>1. m <= n - y
    BY <1>5
  <2> QED
    BY <1>6, <2>1
<1> QED
  BY <1>7

LEMMA NewestIsGood ==
  ASSUME NEW files \in SUBSET File, Good(files) # {}, NEW n \in Nat,
         \A f \in files : f.id <= n
  PROVE  Newest(files) \in Good(files)
<1> DEFINE ids == {f.id : f \in Good(files)}
<1>1. ids \in SUBSET Nat /\ ids # {} /\ \A x \in ids : x <= n
  BY DEF Good, File
<1>2. PICK x \in ids : \A y \in ids : y <= x
  BY <1>1, Greatest
<1>3. PICK f \in Good(files) : f.id = x
  BY <1>2
<1>4. \A g \in Good(files) : g.id <= f.id
  BY <1>2, <1>3
<1> QED
  BY <1>4 DEF Newest

LEMMA ContentType ==
  ASSUME NEW files \in SUBSET File, NEW n \in Nat, \A f \in files : f.id <= n
  PROVE  Content(files) \in V /\ Head(files) \in Nat
<1>1. CASE Good(files) = {}
  BY <1>1 DEF Content, Head, V
<1>2. CASE Good(files) # {}
  <2>1. Newest(files) \in File
    BY <1>2, NewestIsGood DEF Good
  <2> QED
    BY <1>2, <2>1 DEF Content, Head, File
<1> QED
  BY <1>1, <1>2

(***************************************************************************)
(* The scheduler                                                           *)
(***************************************************************************)

(* What a state of the controller leads to that matters to a pass: neither
   files nor questions are touched by scheduling. *)
Agrees(c, d) == c.audited = d.audited /\ c.phase = d.phase /\ c.dialog = d.dialog

LEMMA ScheduleKeeps ==
  ASSUME NEW c \in Controller, NEW paused
  PROVE  Schedule(c, paused) \in Controller /\ Agrees(Schedule(c, paused), c)
<1>1. ASSUME NEW d \in {[c EXCEPT !.dirty = TRUE], [c EXCEPT !.debounce = TRUE]}
      PROVE  d \in Controller /\ Agrees(d, c)
  BY DEF Controller, Agrees
<1>2. Schedule(c, paused) \in {c, [c EXCEPT !.dirty = TRUE], [c EXCEPT !.debounce = TRUE]}
  BY DEF Schedule
<1> QED
  BY <1>1, <1>2 DEF Agrees

(* The end of a pass leaves no pass and the files and questions of c. *)
LEMMA EndKeeps ==
  ASSUME NEW c \in Controller, End(c)
  PROVE  ctl' \in Controller /\ Agrees(ctl', c) /\ pass' = None
<1>1. [c EXCEPT !.dirty = FALSE] \in Controller /\ Agrees([c EXCEPT !.dirty = FALSE], c)
  BY DEF Controller, Agrees
<1>2. ctl' = c \/ ctl' = Schedule([c EXCEPT !.dirty = FALSE], Paused)
  BY DEF End
<1> QED
  BY <1>1, <1>2, ScheduleKeeps DEF End, Agrees

LEMMA AbortKeeps ==
  ASSUME TypeOK, Asked, NEW retry \in BOOLEAN, Abort(retry)
  PROVE  /\ ctl' \in Controller /\ pass' = None
         /\ Asked' /\ ctl'.audited = ctl.audited
<1> DEFINE c == IF pass.stale THEN ctl
      ELSE [ctl EXCEPT !.phase = IF ctl.account = "no" THEN "reconnect" ELSE "error", !.dialog = None,
                       !.session = IF ctl.account = "no" THEN None ELSE @,
                       !.retry = retry /\ ctl.account = "yes"]
<1>1. c \in Controller /\ c.audited = ctl.audited
  <2>1. ctl \in Controller
    BY DEF TypeOK
  <2>2. CASE pass.stale
    BY <2>1, <2>2
  <2>3. CASE ~pass.stale
    <3> DEFINE phase == IF ctl.account = "no" THEN "reconnect" ELSE "error"
               session == IF ctl.account = "no" THEN None ELSE ctl.session
               again == retry /\ ctl.account = "yes"
    <3>1. c = [ctl EXCEPT !.phase = phase, !.dialog = None, !.session = session, !.retry = again]
      BY <2>3
    <3>2. /\ phase \in {"reconnect", "error"}
          /\ session \in Session \cup {None}
          /\ again \in BOOLEAN
      BY <2>1 DEF Controller
    <3> HIDE DEF c, phase, session, again
    <3> QED
      BY <2>1, <3>1, <3>2 DEF Controller
  <2> QED
    BY <2>2, <2>3
<1>2. c.phase = "conflict" => c.dialog # None
  BY DEF Asked, TypeOK, Controller
<1>3. End(c)
  BY DEF Abort
<1> HIDE DEF c
<1> QED
  BY <1>1, <1>2, <1>3, EndKeeps DEF Asked, Agrees

(* A request to synchronize starts at most a new pass, and none while sync is
   paused. *)
LEMMA SyncKeeps ==
  ASSUME TypeOK, NEW c \in Controller, NEW paused \in BOOLEAN,
         NEW answer \in Answer \cup {None}, Sync(c, paused, answer),
         c.phase = "conflict" => c.dialog # None
  PROVE  /\ ctl' \in Controller /\ ctl'.audited = c.audited /\ Asked'
         /\ pass' \in Pass \cup {None}
         /\ \/ pass' = pass
            \/ pass = None /\ ~paused /\ pass'.pc = "list"
<1>1. CASE c.account = "no"
  BY <1>1 DEF Sync, TypeOK, Asked
<1>2. CASE c.account # "no" /\ paused
  <2> DEFINE later == IF answer # None THEN answer ELSE c.deferred
  <2>1. later \in Answer \cup {None}
    BY DEF Controller
  <2>2. ctl' = [c EXCEPT !.dirty = TRUE, !.waiters = TRUE, !.deferred = later] /\ pass' = pass
    BY <1>2 DEF Sync
  <2> HIDE DEF later
  <2>3. ctl' \in Controller /\ ctl'.audited = c.audited
    BY <2>1, <2>2 DEF Controller
  <2>4. ctl'.phase = c.phase /\ ctl'.dialog = c.dialog
    BY <2>2 DEF Controller
  <2> QED
    BY <2>2, <2>3, <2>4 DEF TypeOK, Asked
<1>3. CASE c.account # "no" /\ ~paused /\ pass # None
  <2>1. ctl' = [c EXCEPT !.dirty = TRUE] /\ pass' = pass
    BY <1>3 DEF Sync
  <2> QED
    BY <2>1 DEF TypeOK, Asked, Controller
<1>4. CASE c.account # "no" /\ ~paused /\ pass = None
  <2> DEFINE new == [pc |-> "list", stale |-> FALSE, listed |-> {}, todo |-> {}, bad |-> {},
                     answer |-> Accepted(c, answer), submitted |-> answer # None,
                     rev |-> 0, value |-> Empty, state |-> Empty, used |-> None]
  <2>1. ctl' = [c EXCEPT !.phase = "syncing", !.dialog = None] /\ pass' = new
    BY <1>4 DEF Sync
  <2>2. Accepted(c, answer) \in Answer \cup {None}
    BY DEF Accepted
  <2>3. new \in Pass /\ new.pc = "list"
    BY <2>2 DEF Pass, V
  <2> HIDE DEF new
  <2> QED
    BY <1>4, <2>1, <2>3 DEF Asked, Controller
<1> QED
  BY <1>1, <1>2, <1>3, <1>4

(***************************************************************************)
(* Steps that do not belong to a pass                                      *)
(***************************************************************************)

(* What a step outside the passes may do: start a pass while nothing is
   paused, or mark the running one as outdated. *)
LEMMA OutsideKeeps ==
  ASSUME IInv, TypeOK', Asked', ctl'.audited \subseteq ctl.audited,
         UNCHANGED <<cloud, count.files>>,
         \/ pass' = pass
         \/ pass # None /\ pass' = [pass EXCEPT !.stale = TRUE]
         \/ pass = None /\ pass'.pc = "list",
         \A op \in Ops : leases'[op] = "held" => pass' = None
  PROVE  IInv'
<1>1. AuditedReadable'
  BY DEF IInv, AuditedReadable
<1>2. Numbered'
  BY DEF IInv, Numbered
<1>3. PassSound'
  BY DEF IInv, PassSound, TypeOK, Pass
<1>4. PauseExcludesPass'
  BY DEF PauseExcludesPass
<1> QED
  BY <1>1, <1>2, <1>3, <1>4 DEF IInv

(* A request of the timers, the person or the pauses. *)
LEMMA RequestKeeps ==
  ASSUME IInv, NEW c \in Controller, NEW paused \in BOOLEAN,
         NEW answer \in Answer \cup {None}, Sync(c, paused, answer),
         c.audited = ctl.audited, c.phase = "conflict" => c.dialog # None,
         UNCHANGED <<google, local, cloud, count>>,
         leases' \in [Ops -> {"free", "waiting", "held", "retired", "done"}],
         \A op \in Ops : leases'[op] = "held" => leases[op] = "held" /\ (Paused => paused)
  PROVE  IInv'
<1>1. TypeOK
  BY DEF IInv
<1>2. /\ ctl' \in Controller /\ ctl'.audited = ctl.audited /\ Asked'
      /\ pass' \in Pass \cup {None}
      /\ \/ pass' = pass
         \/ pass = None /\ ~paused /\ pass'.pc = "list"
  BY <1>1, SyncKeeps
<1>3. TypeOK'
  BY <1>1, <1>2 DEF TypeOK
<1>4. ASSUME NEW op \in Ops, leases'[op] = "held" PROVE pass' = None
  <2>1. leases[op] = "held" /\ Paused
    BY <1>4 DEF Paused, Counted
  <2>2. pass = None /\ paused
    BY <1>4, <2>1 DEF IInv, PauseExcludesPass
  <2> QED
    BY <1>2, <2>2
<1> QED
  BY <1>2, <1>3, <1>4, OutsideKeeps

LEMMA SchedulerKeeps ==
  ASSUME IInv, Debounce \/ DebounceHidden \/ Wake \/ Edit
  PROVE  IInv'
<1> USE DEF Awake
<1>1. TypeOK /\ Asked /\ ctl \in Controller
  BY DEF IInv, TypeOK
<1>2. Paused \in BOOLEAN /\ \A op \in Ops : leases[op] = "held" => pass = None
  BY DEF Paused, IInv, PauseExcludesPass
<1>3. CASE Debounce
  <2> DEFINE c == [ctl EXCEPT !.debounce = FALSE]
  <2>1. c \in Controller /\ Agrees(c, ctl)
    BY <1>1 DEF Controller, Agrees
  <2>2. Sync(c, Paused, None)
    BY <1>3 DEF Debounce
  <2> HIDE DEF c
  <2> QED
    BY <1>1, <1>2, <1>3, <2>1, <2>2, RequestKeeps DEF Debounce, TypeOK, Asked, Agrees
<1>4. CASE DebounceHidden
  <2>1. ctl' \in Controller /\ Agrees(ctl', ctl)
    BY <1>1, <1>4 DEF DebounceHidden, Controller, Agrees
  <2> QED
    BY <1>1, <1>2, <1>4, <2>1, OutsideKeeps DEF DebounceHidden, TypeOK, Asked, Agrees
<1>5. CASE Wake
  BY <1>1, <1>2, <1>5, ScheduleKeeps, OutsideKeeps DEF Wake, TypeOK, Asked, Agrees
<1>6. CASE Edit
  <2>1. [ctl EXCEPT !.dirty = TRUE] \in Controller /\ Agrees([ctl EXCEPT !.dirty = TRUE], ctl)
    BY <1>1 DEF Controller, Agrees
  <2>2. ctl' \in Controller /\ Agrees(ctl', ctl)
    BY <1>1, <1>6, <2>1, ScheduleKeeps DEF Edit, Agrees
  <2>3. /\ local' \in [value : V, rev : Nat]
        /\ count' \in [edits : Nat, others : Nat, faults : Nat, sessions : Nat, files : Nat]
        /\ count'.files = count.files
    BY <1>1, <1>6 DEF Edit, TypeOK, V
  <2> QED
    BY <1>1, <1>2, <1>6, <2>2, <2>3, OutsideKeeps DEF Edit, TypeOK, Asked, Agrees
<1> QED
  BY <1>3, <1>4, <1>5, <1>6

(* Connecting and disconnecting outdate the pass that runs. *)
LEMMA ClosedKeeps ==
  ASSUME NEW c \in Controller
  PROVE  /\ Closed(c) \in Controller
         /\ Closed(c).audited = {} /\ Closed(c).phase = "disconnected"
BY DEF Closed, Controller, V

LEMMA SessionKeeps ==
  ASSUME IInv,
         \/ Connect \/ Disconnect \/ IdentityLoaded \/ IdentityFailed
         \/ Authorized \/ Refused \/ Expire \/ Resolve \/ SyncButton
  PROVE  IInv'
<1> USE DEF Fault
<1>1. TypeOK /\ Asked /\ ctl \in Controller
  BY DEF IInv, TypeOK
<1>2. Paused \in BOOLEAN /\ \A op \in Ops : leases[op] = "held" => pass = None
  BY DEF Paused, IInv, PauseExcludesPass
<1>3. /\ Outdated \in Pass \cup {None}
      /\ \/ Outdated = pass
         \/ pass # None /\ Outdated = [pass EXCEPT !.stale = TRUE]
      /\ pass = None => Outdated = None
  BY <1>1 DEF Outdated, TypeOK, Pass
<1>4. ASSUME count' = [count EXCEPT !.faults = @ + 1]
             \/ count' = [count EXCEPT !.sessions = @ + 1]
      PROVE  /\ count' \in [edits : Nat, others : Nat, faults : Nat, sessions : Nat, files : Nat]
             /\ count'.files = count.files
  BY <1>1, <1>4 DEF TypeOK
<1>5. CASE Disconnect
  <2>1. PICK destroy \in BOOLEAN : ctl' = [Closed(ctl) EXCEPT !.disposed = destroy]
    BY <1>5 DEF Disconnect
  <2>2. ctl' \in Controller /\ ctl'.audited = {} /\ ctl'.phase = "disconnected"
    BY <1>1, <2>1, ClosedKeeps DEF Controller
  <2> QED
    BY <1>1, <1>2, <1>3, <1>5, <2>2, OutsideKeeps DEF Disconnect, TypeOK, Asked
<1>6. CASE Connect
  <2>1. ctl' \in Controller /\ ctl'.audited = {} /\ ctl'.phase = "connecting"
    BY <1>1, <1>6, ClosedKeeps DEF Connect, Controller
  <2> QED
    BY <1>1, <1>2, <1>3, <1>4, <1>6, <2>1, OutsideKeeps DEF Connect, TypeOK, Asked
<1>7. CASE IdentityLoaded
  BY <1>1, <1>2, <1>7, OutsideKeeps DEF IdentityLoaded, TypeOK, Asked
<1>8. CASE IdentityFailed \/ Refused
  <2>1. /\ ctl' \in Controller /\ ctl'.audited = ctl.audited
        /\ ctl'.phase = "conflict" => ctl'.dialog # None
    BY <1>1, <1>8 DEF IdentityFailed, Refused, Controller, Asked
  <2> QED
    BY <1>1, <1>2, <1>4, <1>8, <2>1, OutsideKeeps DEF IdentityFailed, Refused, TypeOK, Asked
<1>9. CASE Expire
  <2>1. /\ ctl' \in Controller /\ ctl'.audited = ctl.audited
        /\ ctl'.phase = "reconnect"
    BY <1>1, <1>9 DEF Expire, Controller
  <2> QED
    BY <1>1, <1>2, <1>4, <1>9, <2>1, OutsideKeeps DEF Expire, TypeOK, Asked
<1>10. CASE Authorized
  <2> DEFINE c == [ctl EXCEPT !.account = "yes"]
  <2>1. c \in Controller /\ Agrees(c, ctl)
    BY <1>1 DEF Controller, Agrees
  <2>2. Sync(c, Paused, None)
    BY <1>10 DEF Authorized
  <2> HIDE DEF c
  <2> QED
    BY <1>1, <1>2, <1>10, <2>1, <2>2, RequestKeeps DEF Authorized, TypeOK, Asked, Agrees
<1>11. CASE Resolve
  <2>1. PICK choice \in {"local", "remote"} :
          Sync(ctl, Paused, [dialog |-> ctl.dialog, choice |-> choice])
    BY <1>11 DEF Resolve
  <2>2. [dialog |-> ctl.dialog, choice |-> choice] \in Answer
    BY <1>1, <1>11 DEF Resolve, Asked, Controller, Answer
  <2> QED
    BY <1>1, <1>2, <1>11, <2>1, <2>2, RequestKeeps DEF Resolve, TypeOK, Asked
<1>12. CASE SyncButton
  BY <1>1, <1>2, <1>12, RequestKeeps DEF SyncButton, TypeOK, Asked
<1> QED
  BY <1>5, <1>6, <1>7, <1>8, <1>9, <1>10, <1>11, <1>12

(* The last lease that is given back runs what was put off: by then no other
   operation holds one. *)
LEMMA ResumeKeeps ==
  ASSUME IInv, NEW op \in Ops, leases[op] \in Counted, Resume(op)
  PROVE  IInv'
<1>1. TypeOK /\ Asked /\ ctl \in Controller
  BY DEF IInv, TypeOK
<1>2. /\ leases' \in [Ops -> {"free", "waiting", "held", "retired", "done"}]
      /\ \A o \in Ops : leases'[o] = "held" => o # op /\ leases[o] = "held"
      /\ UNCHANGED <<google, local, cloud, count>>
  BY <1>1 DEF Resume, TypeOK
<1>3. \A o \in Ops : leases'[o] = "held" => pass = None
  BY <1>2 DEF IInv, PauseExcludesPass
<1>4. CASE UNCHANGED <<ctl, pass>>
  BY <1>1, <1>2, <1>3, <1>4, OutsideKeeps DEF TypeOK, Asked
<1>5. CASE /\ \A other \in Ops \ {op} : leases[other] \notin Counted
           /\ Sync([ctl EXCEPT !.waiters = FALSE, !.deferred = None, !.dirty = FALSE],
                   FALSE, ctl.deferred)
  <2> DEFINE c == [ctl EXCEPT !.waiters = FALSE, !.deferred = None, !.dirty = FALSE]
  <2>1. c \in Controller /\ Agrees(c, ctl)
    BY <1>1 DEF Controller, Agrees
  <2>2. Sync(c, FALSE, ctl.deferred) /\ ctl.deferred \in Answer \cup {None}
    BY <1>1, <1>5 DEF Controller
  <2>3. \A o \in Ops : leases'[o] # "held"
    BY <1>2, <1>5 DEF Counted
  <2> HIDE DEF c
  <2> QED
    BY <1>1, <1>2, <2>1, <2>2, <2>3, RequestKeeps DEF Asked, Agrees
<1>6. CASE /\ ctl' = IF ctl.dirty THEN Schedule([ctl EXCEPT !.dirty = FALSE], FALSE) ELSE ctl
           /\ UNCHANGED pass
  <2>1. [ctl EXCEPT !.dirty = FALSE] \in Controller /\ Agrees([ctl EXCEPT !.dirty = FALSE], ctl)
    BY <1>1 DEF Controller, Agrees
  <2>2. ctl' \in Controller /\ Agrees(ctl', ctl)
    BY <1>1, <1>6, <2>1, ScheduleKeeps DEF Agrees
  <2> QED
    BY <1>1, <1>2, <1>3, <1>6, <2>2, OutsideKeeps DEF TypeOK, Asked, Agrees
<1> QED
  BY <1>4, <1>5, <1>6 DEF Resume

LEMMA LeaseKeeps ==
  ASSUME IInv, NEW op \in Ops, Acquire(op) \/ Claimed(op) \/ Release(op)
  PROVE  IInv'
<1>1. TypeOK /\ Asked /\ ctl \in Controller
  BY DEF IInv, TypeOK
<1>2. \A o \in Ops : leases[o] = "held" => pass = None
  BY DEF IInv, PauseExcludesPass
<1>3. CASE Acquire(op)
  <2>1. ctl' \in Controller /\ Agrees(ctl', ctl)
    BY <1>1, <1>3 DEF Acquire, Controller, Agrees
  <2> QED
    BY <1>1, <1>2, <1>3, <2>1, OutsideKeeps DEF Acquire, TypeOK, Asked, Agrees
<1>4. CASE Claimed(op)
  <2>1. CASE leases[op] = "retired"
    BY <1>4, <2>1, ResumeKeeps DEF Claimed, Counted
  <2>2. CASE leases[op] # "retired"
    BY <1>1, <1>2, <1>4, <2>2, OutsideKeeps DEF Claimed, TypeOK, Asked
  <2> QED
    BY <2>1, <2>2
<1>5. CASE Release(op)
  <2>1. CASE leases[op] = "held" /\ Resume(op)
    BY <2>1, ResumeKeeps DEF Counted
  <2>2. CASE leases[op] = "waiting" /\ leases' = [leases EXCEPT ![op] = "retired"]
             /\ UNCHANGED <<ctl, pass, google, local, cloud, count>>
    BY <1>1, <1>2, <2>2, OutsideKeeps DEF TypeOK, Asked
  <2> QED
    BY <1>5, <2>1, <2>2 DEF Release
<1> QED
  BY <1>3, <1>4, <1>5

(***************************************************************************)
(* Steps of a pass                                                         *)
(***************************************************************************)

(* A pass that ends leaves the files and the questions in order. *)
LEMMA EndedKeeps ==
  ASSUME IInv, pass' = None, ctl' \in Controller, Asked', AuditedReadable',
         UNCHANGED <<leases, google, local, cloud>>,
         count' \in [edits : Nat, others : Nat, faults : Nat, sessions : Nat, files : Nat],
         count'.files = count.files
  PROVE  IInv'
BY DEF IInv, TypeOK, Numbered, PassSound, PauseExcludesPass

LEMMA AbortedKeeps ==
  ASSUME IInv, NEW retry \in BOOLEAN, Abort(retry),
         UNCHANGED <<leases, google, local, cloud>>,
         \/ count' = count
         \/ count' = [count EXCEPT !.faults = @ + 1]
  PROVE  IInv'
<1>1. TypeOK /\ Asked
  BY DEF IInv
<1>2. /\ ctl' \in Controller /\ pass' = None
      /\ Asked' /\ ctl'.audited = ctl.audited
  BY <1>1, AbortKeeps
<1>3. AuditedReadable'
  BY <1>2 DEF IInv, AuditedReadable
<1>4. /\ count' \in [edits : Nat, others : Nat, faults : Nat, sessions : Nat, files : Nat]
      /\ count'.files = count.files
  BY <1>1 DEF TypeOK
<1> QED
  BY <1>2, <1>3, <1>4, EndedKeeps

(* A pass that goes on: while it does nothing holds a lease. *)
LEMMA OngoingKeeps ==
  ASSUME IInv, pass # None, TypeOK', Asked', AuditedReadable', Numbered', PassSound',
         UNCHANGED leases
  PROVE  IInv'
BY DEF IInv, PauseExcludesPass

(* Where a pass goes on in the same archives and files. *)
LEMMA GoKeeps ==
  ASSUME IInv, pass # None, pass.pc # "list", NEW pc, pass' \in Pass, pass'.pc = pc,
         pc \in {"look", "merge", "compare", "upload", "refused", "replaced"},
         pass'.listed = pass.listed, pass'.todo = pass.todo,
         ctl' = ctl, local' \in [value : V, rev : Nat],
         UNCHANGED <<leases, google, cloud, count>>
  PROVE  IInv'
<1>1. TypeOK'
  BY DEF IInv, TypeOK
<1>2. Asked' /\ AuditedReadable' /\ Numbered'
  BY DEF IInv, Asked, AuditedReadable, Numbered
<1>3. PassSound'
  BY DEF IInv, PassSound
<1> QED
  BY <1>1, <1>2, <1>3, OngoingKeeps

LEMMA ListKeeps ==
  ASSUME IInv, List
  PROVE  IInv'
<1>1. TypeOK /\ Asked /\ ctl \in Controller /\ pass \in Pass /\ pass # None
  BY DEF IInv, TypeOK, List, At
<1>2. CASE Active
  <2> DEFINE todo == {f \in cloud : f.kind # "malformed"} \ ctl.audited
  <2>1. /\ ctl' = [ctl EXCEPT !.audited = @ \cap cloud]
        /\ pass' = [pass EXCEPT !.pc = "audit", !.listed = cloud, !.todo = todo]
        /\ UNCHANGED <<leases, google, local, cloud, count>>
    BY <1>2 DEF List
  <2>2. todo \in SUBSET File
    BY <1>1 DEF TypeOK
  <2>3. /\ ctl' \in Controller /\ ctl'.audited \subseteq ctl.audited
        /\ ctl'.phase = ctl.phase /\ ctl'.dialog = ctl.dialog
    BY <1>1, <2>1 DEF Controller
  <2>4. \A f \in cloud : f.kind = "future" => f \in todo
    BY DEF IInv, AuditedReadable
  <2> HIDE DEF todo
  <2>5. pass' \in Pass /\ pass'.listed = cloud /\ pass'.todo = todo /\ pass'.pc = "audit"
    BY <1>1, <2>1, <2>2 DEF Pass, TypeOK
  <2>6. TypeOK'
    BY <1>1, <2>1, <2>3, <2>5 DEF TypeOK
  <2>7. Asked' /\ AuditedReadable' /\ Numbered'
    BY <1>1, <2>1, <2>3 DEF IInv, Asked, AuditedReadable, Numbered
  <2>8. PassSound'
    BY <2>1, <2>4, <2>5 DEF PassSound
  <2> QED
    BY <1>1, <2>1, <2>6, <2>7, <2>8, OngoingKeeps
<1>3. CASE ~Active
  BY <1>3, AbortedKeeps DEF List
<1> QED
  BY <1>2, <1>3

LEMMA DecodeKeeps ==
  ASSUME IInv, Decode
  PROVE  IInv'
<1>1. /\ TypeOK /\ Asked /\ ctl \in Controller /\ pass \in Pass
      /\ pass # None /\ pass.pc = "audit" /\ pass.todo \subseteq File
  BY DEF IInv, TypeOK, Decode, At, Pass
<1>2. PICK f \in pass.todo :
        IF ctl.account = "no" \/ f.kind = "future" THEN Abort(FALSE)
        ELSE IF f.kind = "corrupt"
        THEN pass' = [pass EXCEPT !.todo = @ \ {f}, !.bad = @ \cup {f}] /\ UNCHANGED ctl
        ELSE /\ pass' = [pass EXCEPT !.todo = @ \ {f}]
             /\ ctl' = [ctl EXCEPT !.audited = @ \cup {f}]
  BY DEF Decode
<1>3. UNCHANGED <<leases, google, local, cloud, count>>
  BY DEF Decode
<1>4. CASE Abort(FALSE)
  BY <1>3, <1>4, AbortedKeeps
<1>5. CASE /\ f.kind # "future"
           /\ \/ pass' = [pass EXCEPT !.todo = @ \ {f}, !.bad = @ \cup {f}] /\ UNCHANGED ctl
              \/ /\ pass' = [pass EXCEPT !.todo = @ \ {f}]
                 /\ ctl' = [ctl EXCEPT !.audited = @ \cup {f}]
  <2>1. /\ pass' \in Pass /\ pass'.listed = pass.listed /\ pass'.todo = pass.todo \ {f}
        /\ pass'.pc = "audit"
    <3>1. CASE pass' = [pass EXCEPT !.todo = @ \ {f}, !.bad = @ \cup {f}]
      BY <1>1, <3>1 DEF Pass
    <3>2. CASE pass' = [pass EXCEPT !.todo = @ \ {f}]
      BY <1>1, <3>2 DEF Pass
    <3> QED
      BY <1>5, <3>1, <3>2
  <2>2. /\ ctl' \in Controller /\ ctl'.audited \subseteq ctl.audited \cup {f}
        /\ ctl'.phase = ctl.phase /\ ctl'.dialog = ctl.dialog
    BY <1>1, <1>5 DEF Controller
  <2>3. TypeOK'
    BY <1>1, <1>3, <2>1, <2>2 DEF TypeOK
  <2>4. Asked' /\ Numbered'
    BY <1>3, <2>2 DEF IInv, Asked, Numbered
  <2>5. AuditedReadable'
    BY <1>5, <2>2 DEF IInv, AuditedReadable
  <2>6. PassSound'
    BY <1>1, <1>3, <1>5, <2>1 DEF IInv, PassSound
  <2> QED
    BY <1>1, <1>3, <2>3, <2>4, <2>5, <2>6, OngoingKeeps
<1> QED
  BY <1>2, <1>4, <1>5

(* Clean-up removes from the cloud what it removes from its own listing. *)
LEMMA CleanKeeps ==
  ASSUME IInv, Clean
  PROVE  IInv'
<1>1. /\ TypeOK /\ ctl \in Controller /\ pass \in Pass
      /\ pass # None /\ pass.pc = "audit"
  BY DEF IInv, TypeOK, Clean, At
<1>2. CASE ~Active
  BY <1>2, AbortedKeeps DEF Clean
<1>3. CASE pass' = [pass EXCEPT !.pc = "look"] /\ UNCHANGED <<ctl, cloud>>
  <2>1. /\ pass' \in Pass /\ pass'.pc = "look" /\ pass'.listed = pass.listed
        /\ pass'.todo = pass.todo
    BY <1>1, <1>3 DEF Pass
  <2> QED
    BY <1>1, <1>3, <2>1, GoKeeps DEF Clean, TypeOK
<1>4. ASSUME NEW f, cloud' = cloud \ {f},
             pass' = [pass EXCEPT !.listed = @ \ {f}, !.bad = @ \ {f}], UNCHANGED ctl
      PROVE  IInv'
  <2>1. /\ pass' \in Pass /\ pass'.listed = pass.listed \ {f} /\ pass'.todo = pass.todo
        /\ pass'.pc = "audit"
    BY <1>1, <1>4 DEF Pass
  <2>2. UNCHANGED <<leases, google, local, count>>
    BY DEF Clean
  <2>3. TypeOK'
    BY <1>1, <1>4, <2>1, <2>2 DEF TypeOK
  <2>4. Asked' /\ AuditedReadable' /\ Numbered'
    BY <1>4, <2>2 DEF IInv, Asked, AuditedReadable, Numbered
  <2>5. PassSound'
    BY <1>1, <1>4, <2>1 DEF IInv, PassSound
  <2> QED
    BY <1>1, <2>2, <2>3, <2>4, <2>5, OngoingKeeps
<1> QED
  BY <1>2, <1>3, <1>4 DEF Clean, Go

LEMMA LookKeeps ==
  ASSUME IInv, Look
  PROVE  IInv'
<1>1. /\ TypeOK /\ ctl \in Controller /\ pass \in Pass
      /\ pass # None /\ pass.pc = "look"
  BY DEF IInv, TypeOK, Look, At
<1>2. CASE Abort(FALSE)
  BY <1>2, AbortedKeeps DEF Look
<1>3. CASE End(Synced(ctl))
  <2>1. /\ Synced(ctl) \in Controller /\ Synced(ctl).phase = "synced"
        /\ Synced(ctl).audited = ctl.audited
    BY <1>1 DEF Synced, Controller
  <2>2. /\ ctl' \in Controller /\ pass' = None /\ ctl'.phase = "synced"
        /\ ctl'.audited = ctl.audited
    BY <1>3, <2>1, EndKeeps DEF Agrees
  <2> QED
    BY <1>1, <2>2, EndedKeeps DEF Look, Asked, IInv, AuditedReadable, TypeOK
<1>4. CASE pass' = [pass EXCEPT !.pc = "merge", !.rev = local.rev] /\ UNCHANGED ctl
  <2>1. /\ pass' \in Pass /\ pass'.pc = "merge" /\ pass'.listed = pass.listed
        /\ pass'.todo = pass.todo
    BY <1>1, <1>4 DEF Pass, TypeOK
  <2> QED
    BY <1>1, <1>4, <2>1, GoKeeps DEF Look, TypeOK
<1> QED
  BY <1>2, <1>3, <1>4 DEF Look

LEMMA DecisionAnswers ==
  ASSUME NEW session \in Session \cup {None}, NEW answer \in Answer \cup {None},
         NEW key, NEW pair
  PROVE  /\ Decision(session, answer, key, pair) \in Ruling \cup {None}
         /\ Decision(session, answer, key, pair) # None =>
              Decision(session, answer, key, pair).pair = pair
<1> DEFINE same == session # None /\ session.key = key
           told == [choice |-> answer.choice, pair |-> answer.dialog.pair]
           given == IF ~same THEN None
                    ELSE IF answer # None THEN told ELSE session.decision
<1>1. Decision(session, answer, key, pair) =
        IF given # None /\ given.pair = pair THEN given ELSE None
  BY DEF Decision
<1>2. given \in Ruling \cup {None}
  <2>1. CASE ~same
    BY <2>1
  <2>2. CASE same /\ answer # None
    BY <2>2 DEF Answer, Dialog, Ruling
  <2>3. CASE same /\ answer = None
    BY <2>3 DEF Session
  <2> QED
    BY <2>1, <2>2, <2>3
<1> HIDE DEF given
<1> QED
  BY <1>1, <1>2

(* The answer is taken for the archive of this device and the one of the cloud
   that the pass then works with. *)
LEMMA MergeKeeps ==
  ASSUME IInv, Merge
  PROVE  IInv'
<1> DEFINE key == <<pass.listed, local.value>>
           pair == <<local.value, Content(pass.listed)>>
           decision == Decision(ctl.session, pass.answer, key, pair)
           c == [ctl EXCEPT !.session = [key |-> key, decision |-> decision]]
<1>1. /\ TypeOK /\ ctl \in Controller /\ pass \in Pass
      /\ pass # None /\ pass.pc = "merge"
      /\ UNCHANGED <<leases, google, local, cloud, count>>
  BY DEF IInv, TypeOK, Merge, At
<1>2. decision \in Ruling \cup {None} /\ (decision # None => decision.pair = pair)
  BY <1>1, DecisionAnswers DEF Controller, Pass
<1>3. [key |-> key, decision |-> decision] \in Session
  BY <1>1, <1>2 DEF Session, TypeOK, Pass
<1>4. c \in Controller /\ Agrees(c, ctl)
  <2> HIDE DEF key, decision
  <2> QED
    BY <1>1, <1>3 DEF Controller, Agrees
<1>5. \/ ctl' = c /\ pass' = [pass EXCEPT !.pc = "reconcile", !.value = local.value,
                                         !.used = decision]
      \/ End(c)
      \/ Abort(FALSE)
  BY DEF Merge
<1> HIDE DEF c, decision, key
<1>6. CASE Abort(FALSE)
  BY <1>1, <1>6, AbortedKeeps
<1>7. CASE End(c)
  <2>1. ctl' \in Controller /\ Agrees(ctl', c) /\ pass' = None
    BY <1>4, <1>7, EndKeeps
  <2>2. Asked' /\ AuditedReadable'
    BY <1>4, <2>1 DEF IInv, Asked, AuditedReadable, Agrees
  <2> QED
    BY <1>1, <2>1, <2>2, EndedKeeps DEF TypeOK
<1>8. CASE ctl' = c /\ pass' = [pass EXCEPT !.pc = "reconcile", !.value = local.value,
                                           !.used = decision]
  <2>1. /\ pass' \in Pass /\ pass'.listed = pass.listed /\ pass'.todo = pass.todo
        /\ pass'.pc = "reconcile" /\ pass'.value = local.value /\ pass'.used = decision
    BY <1>1, <1>2, <1>8 DEF Pass, TypeOK
  <2>2. TypeOK'
    BY <1>1, <1>4, <1>8, <2>1 DEF TypeOK
  <2>3. Asked' /\ AuditedReadable' /\ Numbered'
    BY <1>1, <1>4, <1>8 DEF IInv, Asked, AuditedReadable, Numbered, Agrees
  <2>4. PassSound'
    <3>1. /\ pass'.listed = cloud'
          /\ \A f \in pass'.listed : f.kind = "future" => f \in pass'.todo
      BY <1>1, <2>1 DEF IInv, PassSound
    <3>2. pass'.used # None => pass'.used.pair = <<pass'.value, Content(pass'.listed)>>
      BY <1>2, <2>1
    <3> QED
      BY <2>1, <3>1, <3>2 DEF PassSound
  <2> QED
    BY <1>1, <2>2, <2>3, <2>4, OngoingKeeps
<1> QED
  BY <1>5, <1>6, <1>7, <1>8

LEMMA ReconcileKeeps ==
  ASSUME IInv, Reconcile
  PROVE  IInv'
<1> DEFINE l == pass.value
           r == Content(pass.listed)
           state == IF pass.used # None /\ Base \notin {l, r}
                    THEN IF pass.used.choice = "local" THEN l ELSE r
                    ELSE IF l = Base THEN r ELSE l
           shown == [generation |-> 1 - ctl.generation, pair |-> <<l, r>>]
           c == [ctl EXCEPT !.phase = "conflict", !.generation = 1 - @, !.dialog = shown]
<1>1. /\ TypeOK /\ ctl \in Controller /\ pass \in Pass
      /\ pass # None /\ pass.pc = "reconcile"
      /\ UNCHANGED <<leases, google, local, cloud, count>>
  BY DEF IInv, TypeOK, Reconcile, At
<1>2. l \in V /\ r \in V /\ state \in V
  <2>1. /\ pass.listed = cloud /\ cloud \in SUBSET File /\ count.files \in Nat
        /\ \A f \in cloud : f.id <= count.files
    BY <1>1 DEF IInv, PassSound, Numbered, TypeOK
  <2>2. r \in V
    BY <2>1, ContentType
  <2> QED
    BY <1>1, <2>2 DEF Pass
<1>3. \/ End(c)
      \/ pass' = [pass EXCEPT !.pc = "compare", !.state = state] /\ UNCHANGED ctl
      \/ pass' = [pass EXCEPT !.pc = "apply", !.state = state] /\ UNCHANGED ctl
      \/ Abort(FALSE)
  BY DEF Reconcile
<1>4. CASE Abort(FALSE)
  BY <1>1, <1>4, AbortedKeeps
<1>5. CASE End(c)
  <2>1. shown \in Dialog /\ shown # None
    BY <1>1, <1>2, ControlAssumption DEF Dialog, Controller
  <2> DEFINE other == 1 - ctl.generation
  <2>2. other \in {0, 1} /\ ctl.generation \in {0, 1}
    BY <1>1 DEF Controller
  <2>3. c = [ctl EXCEPT !.phase = "conflict", !.generation = other, !.dialog = shown]
    OBVIOUS
  <2> HIDE DEF shown, other, c
  <2>4. c \in Controller /\ c.audited = ctl.audited /\ c.dialog # None
    BY <1>1, <2>1, <2>2, <2>3 DEF Controller
  <2>5. ctl' \in Controller /\ Agrees(ctl', c) /\ pass' = None
    BY <1>5, <2>4, EndKeeps DEF c
  <2>6. Asked' /\ AuditedReadable'
    BY <2>4, <2>5 DEF IInv, Asked, AuditedReadable, Agrees
  <2> QED
    BY <1>1, <2>5, <2>6, EndedKeeps DEF TypeOK
<1> HIDE DEF state, c
<1>6. CASE pass' = [pass EXCEPT !.pc = "compare", !.state = state] /\ UNCHANGED ctl
  <2>1. /\ pass' \in Pass /\ pass'.listed = pass.listed /\ pass'.todo = pass.todo
        /\ pass'.pc = "compare"
    BY <1>1, <1>2, <1>6 DEF Pass
  <2> QED
    BY <1>1, <1>6, <2>1, GoKeeps DEF TypeOK
<1>7. CASE pass' = [pass EXCEPT !.pc = "apply", !.state = state] /\ UNCHANGED ctl
  <2>1. /\ pass' \in Pass /\ pass'.listed = pass.listed /\ pass'.todo = pass.todo
        /\ pass'.pc = "apply" /\ pass'.used = pass.used /\ pass'.value = pass.value
    BY <1>1, <1>2, <1>7 DEF Pass
  <2>2. TypeOK'
    BY <1>1, <1>7, <2>1 DEF TypeOK
  <2>3. Asked' /\ AuditedReadable' /\ Numbered'
    BY <1>1, <1>7 DEF IInv, Asked, AuditedReadable, Numbered
  <2>4. PassSound'
    BY <1>1, <2>1 DEF IInv, PassSound
  <2> QED
    BY <1>1, <2>2, <2>3, <2>4, OngoingKeeps
<1> QED
  BY <1>3, <1>4, <1>5, <1>6, <1>7

LEMMA ApplyKeeps ==
  ASSUME IInv, Apply
  PROVE  IInv'
<1>1. /\ TypeOK /\ pass \in Pass /\ pass # None /\ pass.pc = "apply"
      /\ UNCHANGED <<ctl, leases, google, cloud, count>>
  BY DEF IInv, TypeOK, Apply, At, Go
<1>2. PICK pc \in {"refused", "replaced"} : pass' = [pass EXCEPT !.pc = pc]
  BY DEF Apply, Go
<1>3. /\ pass' \in Pass /\ pass'.listed = pass.listed /\ pass'.todo = pass.todo
      /\ pass'.pc = pc
  BY <1>1, <1>2 DEF Pass
<1>4. local' \in [value : V, rev : Nat]
  BY <1>1 DEF Apply, TypeOK, Pass
<1> QED
  BY <1>1, <1>2, <1>3, <1>4, GoKeeps

LEMMA AppliedKeeps ==
  ASSUME IInv, Applied
  PROVE  IInv'
<1>1. /\ TypeOK /\ pass \in Pass /\ pass # None /\ pass.pc # "list"
      /\ UNCHANGED <<leases, google, local, cloud, count>>
  BY DEF IInv, TypeOK, Applied, At
<1>2. CASE Abort(FALSE)
  BY <1>1, <1>2, AbortedKeeps
<1>3. CASE pass' = [pass EXCEPT !.pc = "compare"] /\ UNCHANGED ctl
  <2>1. /\ pass' \in Pass /\ pass'.listed = pass.listed /\ pass'.todo = pass.todo
        /\ pass'.pc = "compare"
    BY <1>1, <1>3 DEF Pass
  <2> QED
    BY <1>1, <1>3, <2>1, GoKeeps DEF TypeOK
<1> QED
  BY <1>2, <1>3 DEF Applied, IfActive, Go

(* A pass that has published, or had nothing to publish, ends. *)
LEMMA SyncedKeeps ==
  ASSUME IInv, pass # None, pass \in Pass, NEW head \in Nat, NEW audited \in SUBSET File,
         \A f \in audited : f.kind # "future",
         NEW mark \in ((SUBSET File) \X Nat) \cup {None},
         End([Synced(ctl) EXCEPT !.base = <<pass.state, head>>, !.session = None, !.dialog = None,
                !.audited = audited, !.checkpoint = mark]),
         UNCHANGED <<leases, google, local, cloud, count>>
  PROVE  IInv'
<1> DEFINE c == [Synced(ctl) EXCEPT !.base = <<pass.state, head>>, !.session = None,
                   !.dialog = None, !.audited = audited, !.checkpoint = mark]
<1>1. Synced(ctl) \in Controller /\ Synced(ctl).phase = "synced"
  BY DEF Synced, Controller, IInv, TypeOK
<1>2. <<pass.state, head>> \in V \X Nat
  BY DEF Pass
<1>3. c \in Controller /\ c.audited = audited /\ c.phase = "synced"
  BY <1>1, <1>2 DEF Controller
<1> HIDE DEF c
<1>4. ctl' \in Controller /\ Agrees(ctl', c) /\ pass' = None
  BY <1>3, EndKeeps DEF c
<1>5. Asked' /\ AuditedReadable'
  BY <1>3, <1>4 DEF Asked, AuditedReadable, Agrees
<1> QED
  BY <1>4, <1>5, EndedKeeps DEF IInv, TypeOK

LEMMA CompareKeeps ==
  ASSUME IInv, Compare
  PROVE  IInv'
<1>1. /\ TypeOK /\ pass \in Pass /\ pass # None /\ pass.pc = "compare"
      /\ UNCHANGED <<leases, google, local, cloud, count>>
  BY DEF IInv, TypeOK, Compare, At
<1>2. CASE Abort(FALSE)
  BY <1>1, <1>2, AbortedKeeps
<1>3. CASE pass' = [pass EXCEPT !.pc = "upload"] /\ UNCHANGED ctl
  <2>1. /\ pass' \in Pass /\ pass'.listed = pass.listed /\ pass'.todo = pass.todo
        /\ pass'.pc = "upload"
    BY <1>1, <1>3 DEF Pass
  <2> QED
    BY <1>1, <1>3, <2>1, GoKeeps DEF TypeOK
<1>4. CASE Finished(pass.listed, Head(pass.listed))
  <2> DEFINE mark == IF pass.state # pass.value THEN None ELSE <<pass.listed, pass.rev>>
             head == Head(pass.listed)
  <2>1. /\ pass.listed = cloud /\ cloud \in SUBSET File /\ count.files \in Nat
        /\ \A f \in cloud : f.id <= count.files
    BY <1>1 DEF IInv, PassSound, Numbered, TypeOK
  <2>2. head \in Nat
    BY <2>1, ContentType
  <2>3. mark \in ((SUBSET File) \X Nat) \cup {None}
    BY <1>1 DEF Pass
  <2>4. /\ ctl.audited \in SUBSET File /\ ctl \in Controller
        /\ \A f \in ctl.audited : f.kind # "future"
    BY <1>1 DEF TypeOK, Controller, IInv, AuditedReadable
  <2>5. End([Synced(ctl) EXCEPT !.base = <<pass.state, head>>, !.session = None, !.dialog = None,
               !.audited = ctl.audited, !.checkpoint = mark])
    <3>1. Synced(ctl) \in Controller /\ Synced(ctl).audited = ctl.audited
      BY <2>4 DEF Synced, Controller
    <3> HIDE DEF mark, head
    <3>2. [Synced(ctl) EXCEPT !.base = <<pass.state, head>>, !.session = None,
             !.dialog = None, !.checkpoint = mark]
            = [Synced(ctl) EXCEPT !.base = <<pass.state, head>>, !.session = None,
                 !.dialog = None, !.audited = ctl.audited, !.checkpoint = mark]
      BY <3>1 DEF Controller
    <3> QED
      BY <1>4, <3>2 DEF Finished, mark, head
  <2> HIDE DEF mark, head
  <2> QED
    BY <1>1, <2>2, <2>3, <2>4, <2>5, SyncedKeeps
<1> QED
  BY <1>2, <1>3, <1>4 DEF Compare, IfActive, Go

(* The new file is on top of the listing, as it is of the cloud. *)
LEMMA UploadKeeps ==
  ASSUME IInv, Upload
  PROVE  IInv'
<1> DEFINE new == New("good", pass.state)
<1>1. /\ TypeOK /\ pass \in Pass /\ pass # None /\ pass.pc = "upload"
      /\ UNCHANGED <<leases, google, local>>
  BY DEF IInv, TypeOK, Upload, At
<1>2. CASE Abort(FALSE) /\ UNCHANGED <<cloud, count>>
  BY <1>1, <1>2, AbortedKeeps
<1>3. CASE /\ cloud' = cloud \cup {new}
           /\ count' = [count EXCEPT !.files = @ + 1]
           /\ pass' = [pass EXCEPT !.pc = "uploaded", !.listed = @ \cup {new}]
           /\ UNCHANGED ctl
  <2>1. /\ new \in File /\ new.id = count.files + 1 /\ new.kind = "good"
        /\ count.files \in Nat
    BY <1>1 DEF New, File, TypeOK, Pass
  <2> HIDE DEF new
  <2>2. /\ pass' \in Pass /\ pass'.listed = pass.listed \cup {new}
        /\ pass'.todo = pass.todo /\ pass'.pc = "uploaded"
    BY <1>1, <1>3, <2>1 DEF Pass
  <2>3. TypeOK' /\ count'.files = count.files + 1
    BY <1>1, <1>3, <2>1, <2>2 DEF TypeOK
  <2>4. Asked' /\ AuditedReadable'
    BY <1>3 DEF IInv, Asked, AuditedReadable
  <2>5. Numbered'
    <3>1. \A f \in cloud : f.id \in Nat /\ f.id <= count.files
      BY <1>1 DEF IInv, Numbered, TypeOK, File
    <3> QED
      BY <1>3, <2>1, <2>3, <3>1 DEF Numbered
  <2>6. PassSound'
    BY <1>1, <1>3, <2>1, <2>2 DEF IInv, PassSound, Good
  <2> QED
    BY <1>1, <2>3, <2>4, <2>5, <2>6, OngoingKeeps
<1> QED
  BY <1>2, <1>3 DEF Upload

LEMMA UploadedKeeps ==
  ASSUME IInv, Uploaded
  PROVE  IInv'
<1>1. /\ TypeOK /\ pass \in Pass /\ pass # None /\ pass.pc = "uploaded"
      /\ UNCHANGED <<leases, google, local, cloud, count>>
  BY DEF IInv, TypeOK, Uploaded, At
<1>2. CASE ~Active
  BY <1>1, <1>2, AbortedKeeps DEF Uploaded
<1>3. CASE Active
  <2> DEFINE mark == IF pass.state # pass.value THEN None ELSE <<pass.listed, pass.rev>>
             head == Head(pass.listed)
             audited == ctl.audited \cup {Newest(pass.listed)}
  <2>1. /\ pass.listed = cloud /\ cloud \in SUBSET File /\ count.files \in Nat
        /\ \A f \in cloud : f.id <= count.files
        /\ Good(pass.listed) # {}
    BY <1>1 DEF IInv, PassSound, Numbered, TypeOK
  <2>2. head \in Nat /\ Newest(pass.listed) \in Good(pass.listed)
    BY <2>1, ContentType, NewestIsGood
  <2>3. mark \in ((SUBSET File) \X Nat) \cup {None}
    BY <1>1 DEF Pass
  <2>4. audited \in SUBSET File /\ \A f \in audited : f.kind # "future"
    BY <1>1, <2>1, <2>2 DEF TypeOK, Controller, IInv, AuditedReadable, Good
  <2>5. End([Synced(ctl) EXCEPT !.base = <<pass.state, head>>, !.session = None, !.dialog = None,
               !.audited = audited, !.checkpoint = mark])
    <3>1. ctl \in Controller
      BY <1>1 DEF TypeOK
    <3>2. Synced(ctl).audited = ctl.audited
      BY <3>1 DEF Synced, Controller
    <3> QED
      BY <1>3, <3>2 DEF Uploaded
  <2> HIDE DEF mark, head, audited
  <2> QED
    BY <1>1, <2>2, <2>3, <2>4, <2>5, SyncedKeeps
<1> QED
  BY <1>2, <1>3

LEMMA FailsKeeps ==
  ASSUME IInv, Fails
  PROVE  IInv'
<1> DEFINE again == pass.pc \in {"list", "audit"}
<1>1. again \in BOOLEAN
  OBVIOUS
<1>2. Abort(again)
  BY DEF Fails
<1> HIDE DEF again
<1> QED
  BY <1>1, <1>2, AbortedKeeps DEF Fails, Fault

(* Other devices change the files while no pass runs here. *)
LEMMA OtherDeviceKeeps ==
  ASSUME IInv, OtherDevice
  PROVE  IInv'
<1>1. TypeOK /\ pass = None /\ UNCHANGED <<ctl, pass, leases, google, local>>
  BY DEF IInv, OtherDevice
<1>2. count.files \in Nat /\ \A f \in cloud : f.id \in Nat /\ f.id <= count.files
  BY <1>1 DEF IInv, Numbered, TypeOK, File
<1>3. /\ count' \in [edits : Nat, others : Nat, faults : Nat, sessions : Nat, files : Nat]
      /\ count'.files = count.files + 1
  <2>1. count.others + 1 \in Nat /\ count.files + 1 \in Nat
    BY <1>1 DEF TypeOK
  <2>2. count' = [count EXCEPT !.others = count.others + 1, !.files = count.files + 1]
    BY DEF OtherDevice
  <2> QED
    BY <1>1, <2>1, <2>2 DEF TypeOK
<1>4. ASSUME NEW kind \in {"good", "corrupt", "future", "malformed"}, NEW value \in V
      PROVE  New(kind, value) \in File /\ New(kind, value).id = count.files + 1
  BY <1>2 DEF New, File
<1>5. cloud' \in SUBSET File /\ \A f \in cloud' : f.id <= count.files + 1
  <2>1. CASE \E value \in Values : cloud' = cloud \cup {New("good", value)}
    BY <1>1, <1>2, <1>4, <2>1 DEF TypeOK, V
  <2>2. CASE \E kind \in {"corrupt", "future", "malformed"} : cloud' = cloud \cup {New(kind, Empty)}
    BY <1>1, <1>2, <1>4, <2>2 DEF TypeOK, V
  <2>3. CASE \E f \in cloud : cloud' = cloud \ {f}
    BY <1>1, <1>2, <2>3 DEF TypeOK
  <2> QED
    BY <2>1, <2>2, <2>3 DEF OtherDevice
<1>6. TypeOK'
  BY <1>1, <1>3, <1>5 DEF TypeOK
<1>7. Numbered'
  BY <1>3, <1>5 DEF Numbered
<1> QED
  BY <1>1, <1>6, <1>7 DEF IInv, Asked, AuditedReadable, PassSound, PauseExcludesPass

(***************************************************************************)
(* Every step                                                              *)
(***************************************************************************)
LEMMA InitIInv == Init => IInv
<1> SUFFICES ASSUME Init PROVE IInv
  OBVIOUS
<1>1. Cardinality(cloud) \in Nat /\ cloud \in SUBSET File
  BY ControlAssumption, FS_CardinalityType DEF Init
<1>2. ctl \in Controller
  BY DEF Init, Controller, V
<1>3. TypeOK
  BY <1>1, <1>2 DEF Init, TypeOK, V
<1>4. Numbered
  BY ControlAssumption DEF Init, Numbered
<1>5. Asked /\ AuditedReadable
  BY DEF Init, Asked, AuditedReadable
<1> QED
  BY <1>3, <1>4, <1>5 DEF IInv, Init, PassSound, PauseExcludesPass

LEMMA NextKeeps == IInv /\ [Next]_vars => IInv'
<1> SUFFICES ASSUME IInv, [Next]_vars PROVE IInv'
  OBVIOUS
<1>1. CASE UNCHANGED vars
  BY <1>1 DEF vars, IInv, TypeOK, Asked, AuditedReadable, Numbered, PassSound,
              PauseExcludesPass
<1>2. CASE Step
  BY <1>2, ListKeeps, DecodeKeeps, CleanKeeps, LookKeeps, MergeKeeps, ReconcileKeeps,
     ApplyKeeps, AppliedKeeps, CompareKeeps, UploadKeeps, UploadedKeeps DEF Step
<1>3. CASE Next
  BY <1>2, <1>3, FailsKeeps, SchedulerKeeps, SessionKeeps, LeaseKeeps, OtherDeviceKeeps
  DEF Next
<1> QED
  BY <1>1, <1>3

THEOREM Invariance == Spec => []IInv
BY InitIInv, NextKeeps, PTL DEF Spec

(* The variables keep their types, whatever other devices leave in the cloud. *)
THEOREM TypeCorrect == Spec => []TypeOK
<1>1. IInv => TypeOK
  BY DEF IInv
<1> QED
  BY <1>1, Invariance, PTL

(* No timer, dialog, reconnection or late release starts a pass while any
   operation holds its lease. *)
THEOREM PausesHold == Spec => []PauseExcludesPass
<1>1. IInv => PauseExcludesPass
  BY DEF IInv
<1> QED
  BY <1>1, Invariance, PTL

(* A pass deletes only files it has listed, once it has read all the others and
   found none of a later version. *)
AuditedStep == \A f \in cloud \ cloud' : pass # None => \A g \in pass.listed : g.kind # "future"

LEMMA OnlyCleanRemoves ==
  ASSUME [Next]_vars, pass # None, ~(cloud \subseteq cloud')
  PROVE  Clean
<1>1. CASE Step
  BY <1>1 DEF Step, List, Decode, Look, Merge, Reconcile, Apply, Applied, Compare, Upload, Uploaded
<1>2. CASE Debounce \/ DebounceHidden \/ Wake \/ Edit \/ Fails
  BY <1>2 DEF Debounce, DebounceHidden, Awake, Wake, Edit, Fails
<1>3. CASE \/ Connect \/ Disconnect \/ IdentityLoaded \/ IdentityFailed \/ Authorized
           \/ Refused \/ Expire \/ Resolve \/ SyncButton
  BY <1>3 DEF Connect, Disconnect, IdentityLoaded, IdentityFailed, Authorized, Refused, Expire,
              Resolve, SyncButton
<1>4. CASE \E op \in Ops : Acquire(op) \/ Claimed(op) \/ Release(op)
  BY <1>4 DEF Acquire, Claimed, Release, Resume
<1>5. CASE OtherDevice \/ UNCHANGED vars
  BY <1>5 DEF OtherDevice, vars
<1> QED
  BY <1>1, <1>2, <1>3, <1>4, <1>5 DEF Next

LEMMA AuditedBefore == IInv /\ [Next]_vars => AuditedStep
<1> SUFFICES ASSUME IInv, [Next]_vars, NEW f \in cloud \ cloud', pass # None, NEW g \in pass.listed
             PROVE  g.kind # "future"
  BY DEF AuditedStep
<1>1. Clean
  BY OnlyCleanRemoves
<1> QED
  BY <1>1 DEF Clean, At, IInv, PassSound

(* One corrupt file and one of a later version in a listing: nothing is removed. *)
THEOREM AuditComesFirst == Spec => AuditFirst
<1>1. IInv /\ [Next]_vars => [AuditedStep]_vars
  BY AuditedBefore
<1> QED
  BY <1>1, Invariance, PTL DEF Spec, AuditFirst, AuditedStep

(* What a person chose is applied to the two archives the person was shown, and
   to no others. *)
AnsweredStep ==
  At("apply") /\ pass' # pass /\ local' # local /\ pass.used # None =>
    pass.used.pair = <<local.value, Content(cloud)>>

LEMMA AnsweredAsAsked == IInv /\ [Next]_vars => AnsweredStep
<1> SUFFICES ASSUME IInv, [Next]_vars, At("apply"), pass' # pass, local' # local,
                    pass.used # None
             PROVE  pass.used.pair = <<local.value, Content(cloud)>>
  BY DEF AnsweredStep
<1>1. Apply
  <2>1. CASE Step
    BY <2>1 DEF Step, List, Decode, Clean, Look, Merge, Reconcile, Applied, Compare, Upload,
                Uploaded
  <2>2. CASE Debounce \/ DebounceHidden \/ Wake \/ Edit \/ Fails
    BY <2>2 DEF Debounce, DebounceHidden, Awake, Wake, Edit, Fails
  <2>3. CASE \/ Connect \/ Disconnect \/ IdentityLoaded \/ IdentityFailed \/ Authorized
             \/ Refused \/ Expire \/ Resolve \/ SyncButton
    BY <2>3 DEF Connect, Disconnect, IdentityLoaded, IdentityFailed, Authorized, Refused, Expire,
                Resolve, SyncButton
  <2>4. CASE \E op \in Ops : Acquire(op) \/ Claimed(op) \/ Release(op)
    BY <2>4 DEF Acquire, Claimed, Release, Resume
  <2>5. CASE OtherDevice \/ UNCHANGED vars
    BY <2>5 DEF OtherDevice, vars
  <2> QED
    BY <2>1, <2>2, <2>3, <2>4, <2>5 DEF Next
<1>2. local.value = pass.value
  BY <1>1 DEF Apply, Go
<1> QED
  BY <1>2 DEF At, IInv, PassSound

(* An edit, a stale session or a dialog that was replaced never redirects an
   answer. *)
THEOREM AnswersHold == Spec => AnswersMatchQuestion
<1>1. IInv /\ [Next]_vars => [AnsweredStep]_vars
  BY AnsweredAsAsked
<1> QED
  BY <1>1, Invariance, PTL DEF Spec, AnswersMatchQuestion, AnsweredStep

=============================================================================
