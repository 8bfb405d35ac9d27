--------------------------- MODULE RewardHistory ---------------------------
(***************************************************************************)
(* The reward history under the summary of a recruitment (EliteHistory.    *)
(* svelte, HistorySummary.svelte): a list read in windows or, with Show    *)
(* all, page after page while the archive may change; the statistics of    *)
(* the recruitment; and the model comparison that a worker computes from   *)
(* them.  The page gives the component a profile, a revision and whether   *)
(* it waits itself; every change of what is asked starts a new request.    *)
(***************************************************************************)
EXTENDS Naturals, Sequences

CONSTANTS Profiles, Types, None, Lengths, MaxRevisions, MaxActs, MaxFaults

VARIABLES archive,   \* external: revision and pages of the recruitment in the archive
          props,     \* profile, revision and loading, set by the page
          asked,     \* selectedType, window and showAll
          list,      \* requestId, pending, queryError, stale, overview
          reads,     \* queries that wait for the archive worker
          summary,   \* statisticsRequest, pending and statistics
          luck,      \* modelRequest, result and error
          runs,      \* calculations of the comparison
          count

vars == <<archive, props, asked, list, reads, summary, luck, runs, count>>

Windows == {"preview", "window", "all"}
Acts == count.acts < MaxActs /\ count' = [count EXCEPT !.acts = @ + 1]
Fault == count.faults < MaxFaults /\ count' = [count EXCEPT !.faults = @ + 1]
Context(p, a) == <<p.profile, p.revision, a.type>>

Init ==
  /\ archive \in [revision : {1}, pages : Lengths]
  /\ props = [profile |-> CHOOSE p \in Profiles : TRUE, revision |-> 1, loading |-> TRUE]
  /\ asked = [type |-> CHOOSE t \in Types : TRUE, window |-> "preview"]
  /\ list = [id |-> 0, pending |-> FALSE, error |-> FALSE, stale |-> FALSE, overview |-> None]
  /\ summary = [id |-> 0, pending |-> FALSE, statistics |-> None]
  /\ luck = [id |-> 0, result |-> None, error |-> None]
  /\ reads = {} /\ runs = {}
  /\ count = [acts |-> 0, faults |-> 0]

-----------------------------------------------------------------------------
(* calculateLuck: a new calculation stops the one before it *)

Aborted(rs) == {[r EXCEPT !.at = "aborted"] : r \in rs}

(* The comparison starts again when the statistics, their wait or their failure change. *)
Compare(s) ==
  /\ luck' = [id |-> luck.id + 1, result |-> None, error |-> None]
  /\ runs' = Aborted(runs) \cup IF s.pending \/ s.statistics = None THEN {}
                                ELSE {[id |-> luck.id + 1, about |-> s.statistics, at |-> "running"]}

(* Mutant of Mine: the end of a stopped calculation is taken for that of the new one. *)
MineOrAborted(run) == run \in runs

Mine(run) == run.id = luck.id

Computed(run) ==
  /\ runs' = runs \ {run}
  /\ \/ run.at = "running" /\ luck' = (IF Mine(run) THEN [luck EXCEPT !.result = run.about] ELSE luck)
        /\ UNCHANGED count
     \/ run.at = "running" /\ Fault
        /\ luck' = (IF Mine(run) THEN [luck EXCEPT !.error = run] ELSE luck)
     \/ run.at = "aborted" /\ luck' = (IF Mine(run) THEN [luck EXCEPT !.error = run] ELSE luck)
        /\ UNCHANGED count
  /\ UNCHANGED <<archive, props, asked, list, reads, summary>>

-----------------------------------------------------------------------------
(* load and loadStatistics *)

(* resetContext: another context hides the list and asks for its beginning again. *)
Rebound(l) == [l EXCEPT !.stale = l.overview # None]

ListRead(id, p, a) ==
  [what |-> "list", id |-> id, profile |-> p.profile, type |-> a.type, window |-> a.window,
   parts |-> <<>>, pages |-> 0]

(* The reactive statements: what the component asks after a change of its inputs. *)
Load(p, a) ==
  LET moved == Context(p, a) # Context(props, asked)
      now   == IF moved THEN [a EXCEPT !.window = "preview"] ELSE a
      id    == list.id + 1
  IN  /\ props' = p /\ asked' = now
      /\ list' = [(IF moved THEN Rebound(list) ELSE list) EXCEPT
                    !.id = id, !.pending = ~p.loading, !.error = IF p.loading THEN @ ELSE FALSE]
      /\ IF moved \/ p.loading # props.loading
         THEN /\ summary' = [id |-> summary.id + 1, pending |-> ~p.loading, statistics |-> None]
              /\ Compare(summary')
              /\ reads' = reads \cup (IF p.loading THEN {} ELSE
                   {ListRead(id, p, now), [ListRead(summary.id + 1, p, now) EXCEPT !.what = "summary"]})
         ELSE /\ reads' = reads \cup (IF p.loading THEN {} ELSE {ListRead(id, p, now)})
              /\ UNCHANGED <<summary, luck, runs>>

(* Mutant of Live: the answer of an older question is shown. *)
EveryRead(read) == read \in reads

Live(read) == read.id = list.id

Whole(read, parts) == read.window # "all" \/ Len(parts) >= archive.pages

(* One page of the list: Show all goes on until it has what the first page announced. *)
ReadList(read) ==
  /\ read.what = "list"
  /\ LET next  == [read EXCEPT !.parts = Append(@, archive.revision), !.pages = archive.pages]
         moved == read.pages \notin {0, archive.pages}
     IN  /\ reads' = (reads \ {read}) \cup
                     IF Live(read) /\ ~moved /\ ~Whole(read, next.parts) THEN {next} ELSE {}
         /\ list' = IF ~Live(read) THEN list
                    ELSE IF moved THEN [list EXCEPT !.pending = FALSE, !.error = TRUE, !.stale = FALSE,
                                                    !.overview = IF list.stale THEN None ELSE @]
                    ELSE IF Whole(read, next.parts)
                    THEN [list EXCEPT !.pending = FALSE, !.stale = FALSE, !.overview = next] ELSE list
  /\ UNCHANGED <<archive, props, asked, summary, luck, runs, count>>

ReadSummary(read) ==
  /\ read.what = "summary"
  /\ reads' = reads \ {read}
  /\ IF read.id = summary.id
     THEN /\ summary' = [summary EXCEPT !.pending = FALSE,
                           !.statistics = [profile |-> read.profile, type |-> read.type,
                                           revision |-> archive.revision]]
          /\ Compare(summary')
     ELSE UNCHANGED <<summary, luck, runs>>
  /\ UNCHANGED <<archive, props, asked, list, count>>

ReadFails(read) ==
  /\ Fault
  /\ reads' = reads \ {read}
  /\ IF read.what = "list"
     THEN /\ list' = IF Live(read) THEN [list EXCEPT !.pending = FALSE, !.error = TRUE, !.stale = FALSE,
                                                     !.overview = IF list.stale THEN None ELSE @]
                     ELSE list
          /\ UNCHANGED <<summary, luck, runs>>
     ELSE /\ UNCHANGED list
          /\ IF read.id = summary.id
             THEN summary' = [summary EXCEPT !.pending = FALSE] /\ Compare(summary')
             ELSE UNCHANGED <<summary, luck, runs>>
  /\ UNCHANGED <<archive, props, asked>>

-----------------------------------------------------------------------------
(* The person, and the page around the component *)

Ask ==
  /\ Acts
  /\ \/ list.error /\ Load(props, asked)
     \/ \E t \in Types \ {asked.type} : Load(props, [asked EXCEPT !.type = t])
     \/ \E w \in Windows \ {asked.window} :
          /\ ~props.loading /\ ~list.stale /\ list.overview # None
          /\ ~list.pending \/ (asked.window = "all" /\ w = "preview")
          /\ Load(props, [asked EXCEPT !.window = w])
  /\ UNCHANGED archive

(* The page selects a profile and waits for its totals, or learns a new revision. *)
SelectProfile ==
  /\ Acts
  /\ \E p \in Profiles \ {props.profile} : Load([props EXCEPT !.profile = p, !.loading = TRUE], asked)
  /\ UNCHANGED archive

Learn ==
  /\ props.revision # archive.revision \/ props.loading
  /\ Load([props EXCEPT !.revision = archive.revision, !.loading = FALSE], asked)
  /\ UNCHANGED <<archive, count>>

Change ==
  /\ archive.revision < MaxRevisions
  /\ archive' \in [revision : {archive.revision + 1}, pages : Lengths]
  /\ UNCHANGED <<props, asked, list, reads, summary, luck, runs, count>>

Next == \/ Learn \/ Ask \/ SelectProfile \/ Change
        \/ \E read \in reads : ReadList(read) \/ ReadSummary(read) \/ ReadFails(read)
        \/ \E run \in runs : Computed(run)

Spec == Init /\ [][Next]_vars

-----------------------------------------------------------------------------
(* What must hold *)

Shown == ~props.loading /\ ~list.pending /\ ~list.error /\ ~list.stale /\ list.overview # None

(* The rewards on the screen are those of the selected profile, type and window; and once the page knows
   the newest revision, every page of a whole list is of that revision: no list is put together from two
   archives, whatever changed between its pages. *)
ListIsWhole ==
  Shown => /\ list.overview.profile = props.profile /\ list.overview.type = asked.type
           /\ list.overview.window = asked.window
           /\ props.revision = archive.revision =>
                \A i \in 1 .. Len(list.overview.parts) : list.overview.parts[i] = archive.revision

(* The comparison belongs to the statistics beside it, and an error in its place is its own. *)
LuckIsOfSummary ==
  /\ luck.result # None => luck.result = summary.statistics
  /\ luck.error # None => luck.error.about = summary.statistics /\ luck.error.at # "aborted"
=============================================================================
