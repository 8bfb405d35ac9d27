----------------------------- MODULE RateLimit -----------------------------
(***************************************************************************)
(* The request quotas of the public server (RateLimit in public_app.py): a *)
(* bounded table of sliding windows, with a period and a maximum for every *)
(* kind of key.  A thread reads the clock before it gets the lock, so      *)
(* requests may enter a window in another order than their times.          *)
(***************************************************************************)
EXTENDS Integers, FiniteSets, Sequences

CONSTANTS Threads, Keys, None,
          Period, Maximum,    \* of each key
          Capacity,           \* windows in the table
          Delay,              \* ticks that a thread waits for the lock at most
          MaxTime

VARIABLES now,       \* the monotonic clock
          events,    \* key -> times of its requests, in the order they came
          waiting,   \* thread -> what it read before the lock
          grants     \* history: the requests that were let through

vars == <<now, events, waiting, grants>>

Init ==
  /\ now = Delay + 1 /\ events = <<>> /\ grants = <<>>
  /\ waiting = [t \in Threads |-> None]

Arrive(t) ==
  /\ waiting[t] = None
  /\ \E k \in Keys : waiting' = [waiting EXCEPT ![t] = [key |-> k, at |-> now]]
  /\ UNCHANGED <<now, events, grants>>

Recent(at, k, time) == at + Period[k] > time

(* Mutant of Kept: one period for all windows. *)
KeptShortly(k, time) == events[k] # <<>> /\ events[k][Len(events[k])] + 1 > time

(* A window stays in the table for its period after the last request in it. *)
Kept(k, time) == events[k] # <<>> /\ Recent(events[k][Len(events[k])], k, time)

Popped(queue, k, time) ==
  LET old == {n \in 0 .. Len(queue) : \A i \in 1 .. n : ~Recent(queue[i], k, time)}
  IN  SubSeq(queue, 1 + CHOOSE n \in old : \A m \in old : m <= n, Len(queue))

Full(table, k) == k \notin table /\ Cardinality(table) >= Capacity

Take(t) ==
  /\ waiting[t] # None
  /\ LET k     == waiting[t].key
         at    == waiting[t].at
         table == {j \in DOMAIN events : Kept(j, at)}
         queue == Popped(IF k \in table THEN events[k] ELSE <<>>, k, at)
         grant == ~Full(table, k) /\ Len(queue) < Maximum[k]
     IN  /\ events' = [j \in table \cup (IF Full(table, k) THEN {} ELSE {k}) |->
                         IF j # k THEN events[j] ELSE IF grant THEN Append(queue, at) ELSE queue]
         /\ grants' = IF grant THEN Append(grants, waiting[t]) ELSE grants
  /\ waiting' = [waiting EXCEPT ![t] = None]
  /\ UNCHANGED now

Tick ==
  /\ now < MaxTime /\ \A t \in Threads : waiting[t] # None => now < waiting[t].at + Delay
  /\ now' = now + 1
  /\ UNCHANGED <<events, waiting, grants>>

Next == Tick \/ \E t \in Threads : Arrive(t) \/ Take(t)
Spec == Init /\ [][Next]_vars

-----------------------------------------------------------------------------
(* What must hold *)

Within(k, after, until) ==
  Cardinality({i \in DOMAIN grants : grants[i].key = k /\ after < grants[i].at /\ grants[i].at <= until})

(* No span of a period lets more than the maximum through, but for twice the time that a thread may wait for
   the lock: the tables are pruned for other keys, are full and are entered out of order, so that a window is
   dropped for its last request while an earlier one has a later time. *)
QuotaHolds ==
  \A i \in DOMAIN grants : LET g == grants[i]
                           IN  Within(g.key, g.at + 2 * Delay - Period[g.key], g.at) <= Maximum[g.key]
=============================================================================
