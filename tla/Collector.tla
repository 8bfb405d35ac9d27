----------------------------- MODULE Collector -----------------------------
(***************************************************************************)
(* The pull history collector (scripts/fetch_pull_history.py): a run scans *)
(* the recruitment types of the official service page by page, stops early *)
(* where a saved export overlaps, and checkpoints an export on disk.  The  *)
(* process may die between any two writes, and new pulls appear while it   *)
(* reads.  The service lists the newest pull first.                        *)
(***************************************************************************)
EXTENDS Naturals, FiniteSets, SequencesExt

CONSTANTS Types,       \* recruitment types the scan may probe, 1 .. max_type
          Controls,    \* types that the captured request may name
          StartType, Misses, Retries,
          Items, PageSize,
          Histories,   \* what the service may list at first
          MaxRuns, MaxPulls

VARIABLES log,       \* external: every pull of a type, newest first
          hidden,    \* external: how many of the oldest are no longer listed
          exports,   \* the export directories, in order of their names
          run        \* memory of the collecting process, or NoRun

vars == <<log, hidden, exports, run>>

NoRun == [pc |-> "none"]
Key(r) == <<r.time, r.item>>
KeysOf(rows) == [i \in DOMAIN rows |-> Key(rows[i])]
Listed(t) == SubSeq(log[t], 1, Len(log[t]) - hidden[t])

-----------------------------------------------------------------------------
(* The overlap with saved history *)

NewestFirst(rows) == rows # <<>> /\ \A i \in 2 .. Len(rows) : rows[i - 1].time >= rows[i].time

Count(rows, k, Time(_)) == Cardinality({i \in DOMAIN rows : Key(rows[i]) = k /\ Time(rows[i].time)})

(* Mutant of Crossed: one row of the saved history is thought enough. *)
CrossedEarly(saved, boundary) == boundary <= saved[1].time

(* Both overlap groups must be read to their end: a page boundary may cut a
   ten-pull in two. *)
Crossed(saved, boundary) ==
  \E i \in DOMAIN saved : saved[i].time < saved[1].time /\ boundary < saved[i].time

(* The rows to add to the saved ones, if the overlap is proved. *)
Incremental(saved, current) ==
  LET frontier == saved[1].time
      boundary == current[Len(current)].time
      keys == {Key(saved[i]) : i \in DOMAIN saved} \cup {Key(current[i]) : i \in DOMAIN current}
      AtHead(t) == t = frontier
      Between(t) == boundary < t /\ t < frontier
      AtBoundary(t) == t = boundary
      extra(k) == Count(current, k, AtHead) - Count(saved, k, AtHead)
      fresh == {i \in DOMAIN current :
                  \/ current[i].time > frontier
                  \/ /\ current[i].time = frontier
                     /\ Count(SubSeq(current, 1, i), Key(current[i]), AtHead) <= extra(Key(current[i]))}
      new == [i \in 1 .. Cardinality(fresh) |-> current[SetToSortSeq(fresh, <)[i]]]
      prefix == SubSeq(new \o saved, 1, Len(current))
  IN  IF /\ NewestFirst(current)
         /\ Crossed(saved, boundary)
         /\ \A k \in keys : /\ Count(saved, k, AtHead) <= Count(current, k, AtHead)
                            /\ Count(saved, k, Between) = Count(current, k, Between)
                            /\ Count(current, k, AtBoundary) <= Count(saved, k, AtBoundary)
         /\ KeysOf(current) = KeysOf(prefix)
      THEN {new}
      ELSE {}

(* Saved records of a type: the newest finished export whose records and raw
   pages agree; no other file is trusted. *)
Rows(e, t) == FlattenSeq(SubSeq(e.raw[t], 1, e.manifest.types[t].pages))

Usable(e, t) ==
  /\ e.manifest.complete
  /\ t \in DOMAIN e.manifest.types
  /\ e.manifest.types[t].status = "complete"
  /\ e.manifest.types[t].pages >= 1
  /\ e.records[t] = Rows(e, t)
  /\ NewestFirst(e.records[t])

Baseline ==
  LET of(t) == {n \in DOMAIN exports : Usable(exports[n], t)}
      known == {t \in Types : of(t) # {}}
      latest(t) == CHOOSE n \in of(t) : \A m \in of(t) : m <= n
  IN  [t \in known |-> SelectSeq(exports[latest(t)].raw[t], LAMBDA p : p # <<>>)]

-----------------------------------------------------------------------------
(* Checkpoints: the records are written first, the manifest last *)

(* A change of the run in memory that a checkpoint has to store. *)
Save(change) == run' = [change EXCEPT !.dirty = "records"] /\ UNCHANGED <<log, hidden>>

WriteRecords ==
  /\ run # NoRun /\ run.dirty = "records"
  /\ exports' = [exports EXCEPT ![run.export].records = run.records]
  /\ run' = [run EXCEPT !.dirty = "manifest"]
  /\ UNCHANGED <<log, hidden>>

WriteManifest ==
  /\ run # NoRun /\ run.dirty = "manifest"
  /\ exports' = [exports EXCEPT ![run.export].manifest =
                    [types |-> run.types, complete |-> run.pc = "complete"]]
  /\ run' = IF run.pc \in {"complete", "failed"} THEN NoRun
            ELSE IF run.pc = "error" THEN [run EXCEPT !.pc = "failed", !.dirty = "records"]
            ELSE [run EXCEPT !.dirty = "no"]
  /\ UNCHANGED <<log, hidden>>

At(pc) == run # NoRun /\ run.pc = pc /\ run.dirty = "no"

-----------------------------------------------------------------------------
(* The scan *)

Nobody == [t \in Types |-> <<>>]

Begin ==
  /\ run = NoRun
  /\ Len(exports) < MaxRuns
  /\ \E full \in BOOLEAN, control \in Controls :
       LET saved == IF full THEN <<>> ELSE Baseline
       IN  /\ exports' = Append(exports, [records |-> Nobody, raw |-> Nobody,
                                          manifest |-> [types |-> <<>>, complete |-> FALSE],
                                          listed |-> [t \in Types |-> Listed(t)],
                                          known |-> DOMAIN saved])
           /\ Save([pc |-> "type", dirty |-> "records", export |-> Len(exports) + 1,
                    type |-> control, control |-> control, next |-> StartType, misses |-> 0, types |-> <<>>,
                    records |-> Nobody, baseline |-> saved, cursor |-> 0, more |-> 0,
                    seen |-> {}, tries |-> 0])

(* Mutant of Wanted: the scan ends after the misses, whatever was saved. *)
WantedByMisses == run.misses < Misses

Wanted == run.misses < Misses \/ \E t \in DOMAIN run.baseline : run.next <= t

Collect(t) ==
  /\ Save([run EXCEPT !.pc = "page", !.type = t, !.cursor = 0, !.seen = {}, !.tries = 0,
                      !.types = (t :> [status |-> "in_progress", pages |-> 0]) @@ @])
  /\ UNCHANGED exports

(* The captured type is read first, then the types from StartType on; each
   type without records is a miss. *)
Scan ==
  /\ At("type")
  /\ IF run.types = <<>> THEN Collect(run.control)
     ELSE IF Wanted /\ run.next \in Types \ DOMAIN run.types THEN Collect(run.next)
     ELSE /\ Save(IF ~Wanted THEN [run EXCEPT !.pc = "complete"]
                  ELSE IF run.next \notin Types THEN [run EXCEPT !.pc = "failed"]
                  ELSE [run EXCEPT !.next = @ + 1,
                          !.misses = IF run.records[run.next] # <<>> THEN 0 ELSE @ + 1])
          /\ UNCHANGED exports

-----------------------------------------------------------------------------
(* One type *)

IsControl == DOMAIN run.types = {run.control}
FirstPage == run.types[run.type].pages = 0

After(t) ==
  LET at == {0} \cup {i \in DOMAIN log[t] : log[t][i].id = run.cursor}
  IN  SubSeq(Listed(t), Max(at) + 1, Len(Listed(t)))

(* save_page: the raw response is stored before the checkpoint. *)
Page ==
  /\ At("page")
  /\ LET t == run.type
         rest == After(t)
         rows == SubSeq(rest, 1, IF Len(rest) < PageSize THEN Len(rest) ELSE PageSize)
     IN  /\ \E more \in {Len(rows) < Len(rest), rows # <<>>} :
              \E next \in IF more THEN {rows[Len(rows)].id} \cup run.seen ELSE {0} :
                Save([run EXCEPT !.pc = "decide", !.more = next, !.tries = 0,
                                 !.types[t].pages = @ + 1, !.records[t] = @ \o rows])
         /\ exports' = [exports EXCEPT ![run.export].raw[t] = Append(@, rows)]

(* reuse_history: the new rows of the fetched pages, then the saved pages. *)
Reuse(new) ==
  LET t == run.type
      fetched == exports[run.export].raw[t]
      kept(p) == SelectSeq(fetched[p], LAMBDA r : \E i \in DOMAIN new : new[i] = r)
      pages == [p \in DOMAIN fetched |-> kept(p)] \o run.baseline[t]
  IN  /\ exports' = [exports EXCEPT ![run.export].raw[t] = pages]
      /\ Save([run EXCEPT !.pc = "type", !.records[t] = FlattenSeq(pages),
                          !.types[t] = [status |-> "complete", pages |-> Len(pages)]])

Decide ==
  /\ At("decide")
  /\ LET t == run.type
         current == run.records[t]
         new == IF run.more # 0 /\ t \in DOMAIN run.baseline
                THEN Incremental(FlattenSeq(run.baseline[t]), current) ELSE {}
     IN  IF run.more \notin run.seen /\ new # {}
         THEN \E rows \in new : Reuse(rows)
         ELSE /\ IF run.more \in run.seen
                 THEN Save([run EXCEPT !.pc = "error", !.types[t].status = "error"])
                 ELSE IF run.more = 0
                 THEN Save([run EXCEPT !.pc = "type", !.types[t].status =
                                        IF current # <<>> THEN "complete" ELSE "empty"])
                 ELSE /\ run' = [run EXCEPT !.pc = "page", !.cursor = run.more,
                                            !.seen = @ \cup {run.more}]
                      /\ UNCHANGED <<log, hidden>>
              /\ UNCHANGED exports

(* A refused first page of a type that was not captured. *)
Unavailable ==
  /\ At("page") /\ FirstPage /\ ~IsControl
  /\ Save([run EXCEPT !.pc = "control", !.types[run.type].status = "unavailable"])
  /\ UNCHANGED exports

ControlCheck ==
  /\ At("control")
  /\ \/ run' = [run EXCEPT !.pc = "type"] /\ UNCHANGED <<log, hidden>>
     \/ Save([run EXCEPT !.pc = "failed"])
  /\ UNCHANGED exports

(* Timeouts, 408, 429 and 5xx are tried again; the last try, a limit, a stop
   or a malformed answer ends the run. *)
Retry ==
  /\ At("page") /\ run.tries < Retries
  /\ run' = [run EXCEPT !.tries = @ + 1]
  /\ UNCHANGED <<log, hidden, exports>>

GiveUp ==
  /\ At("page")
  /\ Save([run EXCEPT !.pc = "error", !.types[run.type].status = "error"])
  /\ UNCHANGED exports

Interrupt ==
  /\ run # NoRun /\ run.dirty = "no" /\ run.types # <<>> /\ ~IsControl
  /\ run.pc \notin {"complete", "error", "failed"}
  /\ Save([run EXCEPT !.pc = "failed", !.types = [t \in DOMAIN @ |->
             IF @[t].status = "in_progress" THEN [@[t] EXCEPT !.status = "error"] ELSE @[t]]])
  /\ UNCHANGED exports

Crash ==
  /\ run # NoRun
  /\ run' = NoRun
  /\ UNCHANGED <<log, hidden, exports>>

-----------------------------------------------------------------------------
(* The service: pulls appear, also inside the newest group; old ones expire.
   The run observes the service only when it begins and when it reads a page,
   so these steps need no other place in the interleaving. *)

Observed == run = NoRun \/ At("page")

Pull ==
  \E t \in Types, item \in Items :
    /\ Observed
    /\ Len(log[t]) < MaxPulls[t]
    /\ LET newest == IF log[t] = <<>> THEN 0 ELSE log[t][1].time
           group == Cardinality({i \in DOMAIN log[t] : log[t][i].time = newest})
           new(time) == [id |-> Len(log[t]) + 1, time |-> time, item |-> item]
       IN  \/ log' = [log EXCEPT ![t] = InsertAt(@, 1, new(newest + 1))]
           \/ /\ newest > 0
              /\ \E i \in 1 .. group + 1 : log' = [log EXCEPT ![t] = InsertAt(@, i, new(newest))]
    /\ UNCHANGED <<hidden, exports, run>>

Expire ==
  \E t \in Types :
    /\ run = NoRun /\ hidden[t] = 0 /\ log[t] # <<>>
    /\ hidden' = [hidden EXCEPT ![t] = 1]
    /\ UNCHANGED <<log, exports, run>>

(* An earlier run saved all that is listed, or died after its first page. *)
Earlier(finished) ==
  LET first(t) == SubSeq(log[t], 1, IF Len(log[t]) < PageSize THEN Len(log[t]) ELSE PageSize)
      pages(t) == IF finished THEN <<first(t), SubSeq(log[t], Len(first(t)) + 1, Len(log[t]))>>
                  ELSE <<first(t)>>
      read == {t \in Types : log[t] # <<>>}
      status == IF finished THEN "complete" ELSE "in_progress"
  IN  [raw |-> [t \in Types |-> IF t \in read THEN pages(t) ELSE <<>>],
       records |-> [t \in Types |-> IF t \in read THEN FlattenSeq(pages(t)) ELSE <<>>],
       manifest |-> [types |-> [t \in read |-> [status |-> status, pages |-> Len(pages(t))]],
                     complete |-> finished],
       listed |-> [t \in Types |-> Listed(t)],
       known |-> {}]

Init ==
  /\ log \in Histories
  /\ hidden = [t \in Types |-> 0]
  /\ \E finished \in BOOLEAN : exports = <<Earlier(finished)>>
  /\ run = NoRun

Next ==
  \/ Begin \/ Scan \/ Page \/ Decide \/ Unavailable \/ ControlCheck
  \/ Retry \/ GiveUp \/ Interrupt \/ Crash
  \/ WriteRecords \/ WriteManifest
  \/ Pull \/ Expire

Spec == Init /\ [][Next]_vars

-----------------------------------------------------------------------------
(* The rows of s occur in u in the same order. *)
SubSequence(s, u) ==
  FoldLeft(LAMBDA rest, x : IF rest # <<>> /\ Head(rest) = x THEN Tail(rest) ELSE rest, s, u) = <<>>

(* What a finished export holds of a type is exactly what was pulled: nothing
   that the service listed when the run began is missing, no pull is there
   twice or out of order, whatever was read from an earlier export, appeared
   meanwhile or was half written when the process died; and no type that was
   saved before is left out.  A hole here is never noticed again: every later
   run stops at the overlap (incremental_new_records, load_baseline). *)
ExportsExact ==
  \A n \in DOMAIN exports :
    LET e == exports[n]
    IN  /\ \A t \in Types : Usable(e, t) =>
              /\ SubSequence(KeysOf(e.listed[t]), KeysOf(e.records[t]))
              /\ SubSequence(KeysOf(e.records[t]), KeysOf(log[t]))
        /\ e.manifest.complete => e.known \subseteq DOMAIN e.manifest.types

=============================================================================
