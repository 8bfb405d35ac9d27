-------------------------- MODULE StatisticsPanel --------------------------
(***************************************************************************)
(* Personal statistics (PersonalStatistics.svelte) and the client of its   *)
(* calculations (probability-client.ts).  Several figures are computed     *)
(* side by side: the history of the selection, comparisons and a plan in   *)
(* workers, and the community's answer over the network.  Each is an       *)
(* effect that is cancelled and started again when what it reads changes;  *)
(* an answer that comes after that must not be shown, nor its worker stay. *)
(***************************************************************************)
EXTENDS Naturals

CONSTANTS Profiles, Budgets, None, MaxRevisions, MaxActs, MaxFaults

VARIABLES sel,       \* profileId, typeId and the revision that the page gives
          plan,      \* the inputs of the planner
          figure,    \* per figure: the number of its effect, what it shows, its error
          tasks,     \* what the effects wait for
          workers,   \* probability workers that were not terminated
          count

vars == <<sel, plan, figure, tasks, workers, count>>

(* The two comparisons have one effect and a client each: summary stands for both. *)
Calculated == {"summary", "planner"}
Figures == Calculated \cup {"history", "community"}
Acts == count.acts < MaxActs /\ count' = [count EXCEPT !.acts = @ + 1]
Fault == count.faults < MaxFaults /\ count' = [count EXCEPT !.faults = @ + 1]

(* What a figure reads: the history reads the selection, the comparisons the history that is shown,
   the planner its inputs. *)
Reads(what, s, history, p) ==
  CASE what = "history" -> s
    [] what = "planner" -> p
    [] OTHER -> history

Started(what, n, about) ==
  IF about = None THEN {}
  ELSE {[what |-> what, id |-> n, about |-> about,
         at |-> IF what \in Calculated THEN "import" ELSE "waiting"]}

(* The cleanup of an effect: a calculation is disposed, so its promise is rejected; the request of the
   community is aborted; the answer of the archive worker comes all the same. *)
Cleaned(ts, which) ==
  {IF t.what \in which /\ t.at = "running" THEN [t EXCEPT !.at = "rejected"] ELSE t :
     t \in {t \in ts : ~(t.what \in which /\ t.what = "community")}}

Disposed(ws, which) == {w \in ws : w.what \notin which}

Restart(which, s, history, p) ==
  /\ figure' = [what \in Figures |->
       IF what \in which THEN [id |-> figure[what].id + 1, value |-> None, error |-> None]
       ELSE IF what = "history" /\ history # figure.history.value
       THEN [figure.history EXCEPT !.value = history] ELSE figure[what]]
  /\ tasks' = Cleaned(tasks, which) \cup
       UNION {Started(what, figure[what].id + 1, Reads(what, s, history, p)) : what \in which}
  /\ workers' = Disposed(workers, which)

Init ==
  /\ sel = [profile |-> CHOOSE p \in Profiles : TRUE, revision |-> 1]
  /\ plan = [of |-> None, budget |-> CHOOSE b \in Budgets : TRUE]
  /\ figure = [what \in Figures |-> [id |-> 1, value |-> None, error |-> None]]
  /\ tasks = Started("history", 1, sel) \cup Started("planner", 1, plan)
  /\ workers = {}
  /\ count = [acts |-> 0, faults |-> 0]

-----------------------------------------------------------------------------
(* The person and the page *)

Select ==
  /\ Acts
  /\ \E p \in Profiles \ {sel.profile} :
       /\ sel' = [sel EXCEPT !.profile = p] /\ plan' = [plan EXCEPT !.of = None]
       /\ Restart(Figures, sel', None, plan')

Revise ==
  /\ sel.revision < MaxRevisions
  /\ sel' = [sel EXCEPT !.revision = @ + 1] /\ plan' = [plan EXCEPT !.of = None]
  /\ Restart(Figures, sel', None, plan')
  /\ UNCHANGED count

EditBudget ==
  /\ Acts
  /\ \E b \in Budgets \ {plan.budget} : plan' = [plan EXCEPT !.budget = b]
  /\ Restart({"planner"}, sel, figure.history.value, plan')
  /\ UNCHANGED sel

(* verifiedAccounts changed: only the comparison with the community is asked again. *)
Verify ==
  /\ Acts /\ Restart({"community"}, sel, figure.history.value, plan)
  /\ UNCHANGED <<sel, plan>>

-----------------------------------------------------------------------------
(* Answers *)

(* Mutant of Mine: cancelled is never asked. *)
NeverCancelled(t) == t \in tasks

Mine(t) == t.id = figure[t.what].id

(* The history of the selection: every other figure starts again from it, and resetPlanner takes its pity. *)
History(t) ==
  /\ t.what = "history" /\ t.at = "waiting"
  /\ IF Mine(t)
     THEN /\ plan' = [plan EXCEPT !.of = t.about]
          /\ figure' = [what \in Figures |->
               IF what = "history" THEN [figure.history EXCEPT !.value = t.about]
               ELSE [id |-> figure[what].id + 1, value |-> None, error |-> None]]
          /\ tasks' = Cleaned(tasks \ {t}, Figures \ {"history"}) \cup
               UNION {Started(what, figure[what].id + 1, Reads(what, sel, t.about, plan')) :
                        what \in Figures \ {"history"}}
          /\ workers' = Disposed(workers, Figures)
     ELSE tasks' = tasks \ {t} /\ UNCHANGED <<plan, figure, workers>>
  /\ UNCHANGED <<sel, count>>

(* Mutant of Wanted: the client is made although the effect was cancelled during the import. *)
AlwaysWanted(t) == t.at = "import"

Wanted(t) == t.id = figure[t.what].id

(* The module was loaded: a client with its own worker begins to calculate. *)
Imported(t) ==
  /\ t.at = "import"
  /\ IF Wanted(t)
     THEN /\ tasks' = (tasks \ {t}) \cup {[t EXCEPT !.at = "running"]}
          /\ workers' = workers \cup {[what |-> t.what, id |-> t.id]}
     ELSE tasks' = tasks \ {t} /\ UNCHANGED workers
  /\ UNCHANGED <<sel, plan, figure, count>>

Answered(t) ==
  /\ t.at = "running" \/ (t.what = "community" /\ t.at = "waiting")
  /\ tasks' = tasks \ {t}
  /\ figure' = IF Mine(t) THEN [figure EXCEPT ![t.what].value = t.about] ELSE figure
  /\ UNCHANGED <<sel, plan, workers, count>>

Refused(t) == figure' = IF Mine(t) THEN [figure EXCEPT ![t.what].error = t] ELSE figure

(* stop: the promise of a calculation that was disposed is rejected. *)
Rejected(t) ==
  /\ t.at = "rejected" /\ tasks' = tasks \ {t} /\ Refused(t)
  /\ UNCHANGED <<sel, plan, workers, count>>

(* A query, a request, an import or a worker fails; a worker that fails is terminated. *)
Fails(t) ==
  /\ Fault /\ t.at # "rejected" /\ tasks' = tasks \ {t} /\ Refused(t)
  /\ workers' = workers \ {[what |-> t.what, id |-> t.id]}
  /\ UNCHANGED <<sel, plan>>

Next ==
  \/ Select \/ Revise \/ EditBudget \/ Verify
  \/ \E t \in tasks : History(t) \/ Imported(t) \/ Answered(t) \/ Rejected(t) \/ Fails(t)

Spec == Init /\ [][Next]_vars

-----------------------------------------------------------------------------
(* What must hold *)

(* Every figure on the screen, and every error in its place, is about the same selection: the history that
   is shown beside it, or the inputs of the plan. *)
OneHistory ==
  \A what \in Figures :
    LET reads == Reads(what, sel, figure.history.value, plan)
    IN  /\ figure[what].value # None => figure[what].value = reads
        /\ figure[what].error # None => figure[what].error.about = reads /\ figure[what].error.at # "rejected"

(* A worker lives only for the effect that is on the screen now, whenever its module was loaded. *)
NoWorkerOutlives == \A w \in workers : w.id = figure[w.what].id
=============================================================================
