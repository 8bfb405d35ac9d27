---------------------------- MODULE HistoryView ----------------------------
(***************************************************************************)
(* The recruitment history on the tracker page (+page.svelte): what the    *)
(* page shows for a selection (profile, filter, page) while the archive    *)
(* changes in this tab or in another one.  Every request has a number and  *)
(* only the newest may write; answers are cached by archive revision; the  *)
(* notices of changes are handled one at a time, and kept while an import  *)
(* is at work.  The worker's messages arrive in order, so an answer is     *)
(* taken from the archive of the moment it arrives.                        *)
(***************************************************************************)
EXTENDS Naturals, FiniteSets

CONSTANTS Profiles, Filters, Pages, None, Pending,
          MaxRevisions, MaxActs, MaxFaults

VARIABLES archive,   \* external: revision and profiles of the stored archive
          sel,       \* filters: the selection
          view,      \* request, loading, error, history, stats, optionsProfile
          ops,       \* the functions that wait for the worker, by request number
          cache,     \* ledger and metadata: key and promise
          notice,    \* archiveChanged and its flags
          known,     \* archiveRevision
          visible,   \* the history section is shown
          working,   \* an import is at work (importBusy)
          count

vars == <<archive, sel, view, ops, cache, notice, known, visible, working, count>>

NoCache == [key |-> None, value |-> None]
Fault == count.faults < MaxFaults /\ count' = [count EXCEPT !.faults = @ + 1]
Acts == count.acts < MaxActs /\ count' = [count EXCEPT !.acts = @ + 1]

Init ==
  /\ archive = [revision |-> 1, profiles |-> Profiles]
  /\ sel = [profile |-> CHOOSE p \in Profiles : TRUE, filter |-> CHOOSE f \in Filters : TRUE, page |-> 1]
  /\ view = [request |-> 0, loading |-> TRUE, error |-> FALSE, history |-> None, stats |-> None,
             about |-> None]
  /\ ops = {} /\ cache = [ledger |-> NoCache, metadata |-> NoCache]
  /\ notice = [arrived |-> FALSE, at |-> "idle", dirty |-> FALSE, last |-> 0, revision |-> 0, id |-> 0]
  /\ known = 0 /\ visible = FALSE /\ working = FALSE
  /\ count = [acts |-> 0, faults |-> 0]

-----------------------------------------------------------------------------
(* invalidateResults, refresh and changePage *)

Invalidated(v, s) ==
  [v EXCEPT !.request = @ + 1, !.loading = TRUE, !.error = FALSE,
            !.stats = IF v.about # s.profile THEN None ELSE @]

Op(id, at, s) == [id |-> id, at |-> at, profile |-> s.profile, page |-> s.page]

(* A hidden section asks nothing: only the selection changes. *)
Refresh(s) ==
  /\ sel' = s
  /\ IF visible
     THEN /\ view' = Invalidated(view, s)
          /\ ops' = ops \cup {Op(view.request + 1, "revision", s)}
     ELSE UNCHANGED <<view, ops>>

(* Mutant of Live: every answer is shown. *)
AnyAnswer(op) == op \in ops

Live(op) == op.id = view.request

LedgerKey == [revision |-> archive.revision, sel |-> sel]

MetadataKey(op) == [revision |-> archive.revision, profile |-> op.profile]

Asked(c, key) == IF c.key = key /\ c.value # None THEN c ELSE [key |-> key, value |-> Pending]

Failed(op) == IF op.id = view.request
              THEN view' = [view EXCEPT !.error = TRUE, !.loading = FALSE] ELSE UNCHANGED view

(* The page learns the revision even for a request that was superseded. *)
ReadRevision(op) ==
  /\ op.at = "revision"
  /\ known' = archive.revision
  /\ IF Live(op)
     THEN /\ ops' = (ops \ {op}) \cup {[op EXCEPT !.at = "data"]}
          /\ cache' = [ledger |-> Asked(cache.ledger, LedgerKey),
                       metadata |-> Asked(cache.metadata, MetadataKey(op))]
     ELSE ops' = ops \ {op} /\ UNCHANGED cache
  /\ UNCHANGED <<archive, sel, view, notice, visible, working, count>>

(* The worker answers the cached questions with what it holds now. *)
Answer ==
  /\ \E what \in {"ledger", "metadata"} :
       /\ cache[what].value = Pending
       /\ cache' = [cache EXCEPT ![what].value =
            IF what = "ledger" THEN [sel |-> cache.ledger.key.sel, revision |-> archive.revision]
            ELSE [profile |-> cache.metadata.key.profile, revision |-> archive.revision]]
  /\ UNCHANGED <<archive, sel, view, ops, notice, known, visible, working, count>>

Settle(op) ==
  /\ op.at = "data" /\ cache.ledger.value \notin {Pending, None}
  /\ cache.metadata.value \notin {Pending, None}
  /\ ops' = ops \ {op}
  /\ view' = IF Live(op) THEN [view EXCEPT !.history = cache.ledger.value, !.stats = cache.metadata.value,
                                           !.about = op.profile, !.loading = FALSE]
             ELSE view
  /\ UNCHANGED <<archive, sel, cache, notice, known, visible, working, count>>

(* A read fails: its promise leaves the cache, and what waits for it ends. *)
ReadFails ==
  /\ Fault
  /\ \/ \E op \in ops : op.at \in {"revision", "page"} /\ ops' = ops \ {op} /\ Failed(op) /\ UNCHANGED cache
     \/ \E what \in {"ledger", "metadata"} :
          /\ cache[what].value = Pending
          /\ cache' = [cache EXCEPT ![what] = NoCache]
          /\ ops' = {op \in ops : op.at # "data"}
          /\ IF \E op \in ops : op.at = "data" /\ op.id = view.request
             THEN view' = [view EXCEPT !.error = TRUE, !.loading = FALSE] ELSE UNCHANGED view
  /\ UNCHANGED <<archive, sel, notice, known, visible, working>>

ChangePage ==
  /\ Acts /\ visible /\ ~view.loading /\ view.history # None
  /\ \E page \in Pages \ {view.history.sel.page} :
       ops' = ops \cup {Op(view.request + 1, "page", [sel EXCEPT !.page = page])}
  /\ view' = [view EXCEPT !.request = @ + 1, !.loading = TRUE]
  /\ UNCHANGED <<archive, sel, cache, notice, known, visible, working>>

ShowPage(op) ==
  /\ op.at = "page"
  /\ ops' = ops \ {op}
  /\ IF Live(op)
     THEN /\ sel' = [sel EXCEPT !.page = op.page]
          /\ view' = [view EXCEPT !.loading = FALSE,
                        !.history = [sel |-> [sel EXCEPT !.page = op.page], revision |-> archive.revision]]
     ELSE UNCHANGED <<sel, view>>
  /\ UNCHANGED <<archive, cache, notice, known, visible, working, count>>

-----------------------------------------------------------------------------
(* What the person does *)

Select ==
  /\ Acts /\ \E s \in [profile : archive.profiles, filter : Filters, page : {1}] \ {sel} : Refresh(s)
  /\ UNCHANGED <<archive, cache, notice, known, visible, working>>

(* searchChanged: what is shown goes at once, the refresh comes with the timer. *)
Search ==
  /\ Acts /\ visible /\ ~\E op \in ops : op.at = "search"
  /\ \E f \in Filters \ {sel.filter} :
       LET s == [sel EXCEPT !.filter = f]
       IN  /\ sel' = s /\ view' = Invalidated(view, s)
           /\ ops' = ops \cup {Op(0, "search", s)}
  /\ UNCHANGED <<archive, cache, notice, known, visible, working>>

SearchTimer(op) ==
  /\ op.at = "search"
  /\ LET s == [sel EXCEPT !.page = 1]
     IN  /\ sel' = s
         /\ IF visible THEN view' = Invalidated(view, s)
                            /\ ops' = (ops \ {op}) \cup {Op(view.request + 1, "revision", s)}
                       ELSE ops' = ops \ {op} /\ UNCHANGED view
  /\ UNCHANGED <<archive, cache, notice, known, visible, working, count>>

TryAgain ==
  /\ Acts /\ visible /\ view.error /\ Refresh(sel)
  /\ UNCHANGED <<archive, cache, notice, known, visible, working>>

Enter ==
  /\ ~visible /\ visible' = TRUE
  /\ view' = Invalidated(view, sel) /\ ops' = ops \cup {Op(view.request + 1, "revision", sel)}
  /\ UNCHANGED <<archive, sel, cache, notice, known, working, count>>

Leave == Acts /\ visible /\ visible' = FALSE
         /\ UNCHANGED <<archive, sel, view, ops, cache, notice, known, working>>

-----------------------------------------------------------------------------
(* Changes of the archive *)

Change ==
  /\ archive.revision < MaxRevisions
  /\ \E kept \in (SUBSET archive.profiles) \ {{}} :
       /\ Cardinality(archive.profiles \ kept) <= 1
       /\ archive' = [revision |-> archive.revision + 1, profiles |-> kept]
  /\ notice' = [notice EXCEPT !.arrived = TRUE]
  /\ UNCHANGED <<sel, view, ops, cache, known, visible, working, count>>

Started(n) == IF n.at = "idle" THEN [n EXCEPT !.at = "revision", !.dirty = FALSE]
              ELSE [n EXCEPT !.dirty = TRUE]

(* subscribe: a notice during an import waits for the end of the import. *)
Notified ==
  /\ notice.arrived
  /\ LET n == [notice EXCEPT !.arrived = FALSE, !.dirty = TRUE]
     IN  notice' = IF working THEN n ELSE Started(n)
  /\ UNCHANGED <<archive, sel, view, ops, cache, known, visible, working, count>>

BeginWork == Acts /\ ~working /\ working' = TRUE
             /\ UNCHANGED <<archive, sel, view, ops, cache, notice, known, visible>>

(* Mutant of WorkDone: the notices of the import's time are forgotten. *)
WorkForgets(n) == n

WorkDone(n) == IF n.dirty THEN Started(n) ELSE n

EndWork ==
  /\ working /\ working' = FALSE
  /\ notice' = WorkDone(notice)
  /\ UNCHANGED <<archive, sel, view, ops, cache, known, visible, count>>

Again(n) == IF n.dirty THEN [n EXCEPT !.at = "revision", !.dirty = FALSE] ELSE [n EXCEPT !.at = "idle"]

NoticeRevision ==
  /\ notice.at = "revision"
  /\ IF archive.revision = notice.last THEN notice' = Again(notice) /\ UNCHANGED known
     ELSE /\ known' = archive.revision
          /\ notice' = [notice EXCEPT !.at = "profiles", !.revision = archive.revision]
  /\ UNCHANGED <<archive, sel, view, ops, cache, visible, working, count>>

NoticeProfiles ==
  /\ notice.at = "profiles"
  /\ Refresh(IF ~working /\ sel.profile \notin archive.profiles
             THEN [sel EXCEPT !.profile = CHOOSE p \in archive.profiles : TRUE] ELSE sel)
  /\ notice' = [notice EXCEPT !.at = "refresh", !.id = view'.request]
  /\ UNCHANGED <<archive, cache, known, visible, working, count>>

(* The refresh of the notice ended, or a newer request took its place. *)
NoticeDone ==
  /\ notice.at = "refresh" /\ ~\E op \in ops : op.id = notice.id /\ Live(op)
  /\ notice' = Again([notice EXCEPT !.last = notice.revision])
  /\ UNCHANGED <<archive, sel, view, ops, cache, known, visible, working, count>>

(* archiveRefresh is rejected: the page shows the error. *)
NoticeFails ==
  /\ Fault /\ notice.at \in {"revision", "profiles"}
  /\ notice' = [notice EXCEPT !.at = "idle"]
  /\ view' = [view EXCEPT !.error = TRUE]
  /\ UNCHANGED <<archive, sel, ops, cache, known, visible, working>>

Step == Answer \/ NoticeRevision \/ NoticeProfiles \/ NoticeDone \/ Notified \/ EndWork
        \/ \E op \in ops : ReadRevision(op) \/ Settle(op) \/ ShowPage(op) \/ SearchTimer(op)

Next == Step \/ ReadFails \/ ChangePage \/ Select \/ Search \/ TryAgain \/ Enter \/ Leave
        \/ Change \/ BeginWork \/ NoticeFails

Spec == Init /\ [][Next]_vars

-----------------------------------------------------------------------------
(* What must hold *)

Shown == visible /\ ~view.loading /\ ~view.error /\ view.history # None

(* Rows and totals on the screen belong to the selected profile, filter and page, whatever was asked
   before, was answered late or failed. *)
ShownAsLabelled ==
  Shown => view.history.sel = sel /\ view.stats # None /\ view.stats.profile = sel.profile

(* When every notice was handled, the rows and the totals are those of the stored archive. *)
NoticeLeadsToArchive ==
  Shown /\ ~working /\ ~notice.arrived /\ notice.at = "idle"
    => view.history.revision = archive.revision /\ view.stats.revision = archive.revision

=============================================================================
