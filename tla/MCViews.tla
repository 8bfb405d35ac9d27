------------------------------ MODULE MCViews ------------------------------
(* The parts of the hosted page that show an archive that others change, the  *)
(* calls to its workers, and its telemetry.  They do not share state, so one   *)
(* run checks them side by side: a behaviour is about one part, its subject,   *)
(* the others rest in their initial states, and the state space is the sum of  *)
(* the parts', not their product.                                              *)
EXTENDS Naturals

CONSTANTS Profiles, Filters, Types, Budgets, Consumers, Tabs, None, Pending,
          Pages, Lengths, MaxRevisions, MaxActs, MaxEdits, MaxCalls, MaxOthers, MaxFaults,
          MaxChoices, MaxMutes, MaxEvents, MaxReports  \* bounds

ASSUME ConsumersAssumption == {"mutate", "read", "export"} \cap Consumers = {}
ASSUME InputsAssumption ==
  Profiles # {} /\ Filters # {} /\ Types # {} /\ Budgets # {} /\ Lengths # {}
ASSUME NoneAssumption == None \notin Nat /\ None # Pending
ASSUME BoundsAssumption == MaxCalls \in Nat /\ MaxOthers \in Nat /\ MaxReports \in Nat

VARIABLES subject,
          archive, sel, view, ops, cache, notice, known, visible, working, count,
          held, props, asked, list, reads, summary, luck, runs, rewardCount,
          chosen, plan, figure, tasks, workers, panelCount,
          calls, pending, settled, heard, stored, queue, preview, latest, codec, outbox, callCount,
          open, cookie, saved, inbox, seen, permitted, epoch, loading, loads, client, aborted,
          queued, handed, sent, era, diag, flights, given, used

historyVars == <<archive, sel, view, ops, cache, notice, known, visible, working, count>>
rewardVars == <<held, props, asked, list, reads, summary, luck, runs, rewardCount>>
panelVars == <<chosen, plan, figure, tasks, workers, panelCount>>
callVars == <<calls, pending, settled, heard, stored, queue, preview, latest, codec, outbox,
              callCount>>
tellVars == <<open, cookie, saved, inbox, seen, permitted, epoch, loading, loads, client, aborted,
              queued, handed, sent, era, diag, flights, given, used>>
vars == <<subject, historyVars, rewardVars, panelVars, callVars, tellVars>>

History == INSTANCE HistoryView
Rewards == INSTANCE RewardHistory WITH archive <- held, count <- rewardCount
Panel == INSTANCE StatisticsPanel WITH MaxActs <- MaxEdits, sel <- chosen, count <- panelCount
Calls == INSTANCE WorkerCalls WITH
  sent <- calls, known <- heard, archive <- stored, inbox <- queue, era <- preview,
  count <- callCount
(* Analytics in all tabs, which may change the choice; reports in one.         *)
Analytics == INSTANCE Telemetry WITH MaxReports <- 0
Reports == INSTANCE Telemetry WITH
  Tabs <- {CHOOSE t \in Tabs : TRUE}, MaxChoices <- MaxMutes, MaxEvents <- 0, MaxFaults <- 0

Init ==
  /\ subject \in {"history", "rewards", "panel", "calls", "analytics", "reports"}
  /\ History!Init /\ Rewards!Init /\ Panel!Init /\ Calls!Init
  /\ subject # "reports" => Analytics!Init
  /\ subject = "reports" => Reports!Init
  /\ subject # "rewards" => held.pages = 1  \* the others need only one archive

Next ==
  \/ /\ subject = "history" /\ History!Next
     /\ UNCHANGED <<subject, rewardVars, panelVars, callVars, tellVars>>
  \/ /\ subject = "rewards" /\ Rewards!Next
     /\ UNCHANGED <<subject, historyVars, panelVars, callVars, tellVars>>
  \/ /\ subject = "panel" /\ Panel!Next
     /\ UNCHANGED <<subject, historyVars, rewardVars, callVars, tellVars>>
  \/ /\ subject = "calls" /\ Calls!Next
     /\ UNCHANGED <<subject, historyVars, rewardVars, panelVars, tellVars>>
  \/ /\ subject = "analytics" /\ Analytics!Next
     /\ UNCHANGED <<subject, historyVars, rewardVars, panelVars, callVars>>
  \/ /\ subject = "reports" /\ Reports!Next
     /\ UNCHANGED <<subject, historyVars, rewardVars, panelVars, callVars>>
Spec == Init /\ [][Next]_vars

-----------------------------------------------------------------------------
(* The history view shows under each label rows of that profile, filter and    *)
(* page as the archive held them, and its notice leads to what it announced.   *)
HistoryIsAsLabelled ==
  subject = "history" => History!ShownAsLabelled /\ History!NoticeLeadsToArchive

(* What the panels show together is of one history: the list of rewards is one *)
(* reading of the archive and the luck beside it that of the summary shown;    *)
(* the figures of the statistics panel are of the profile and the archive it   *)
(* names, and no worker outlives the inputs it computes for.                   *)
FiguresAreOneHistory ==
  /\ subject = "rewards" => Rewards!ListIsWhole /\ Rewards!LuckIsOfSummary
  /\ subject = "panel" => Panel!OneHistory /\ Panel!NoWorkerOutlives

(* A call to the worker gets the archive as of its place in the queue; a       *)
(* preview gives way only to a newer one; a notice precedes its answer.        *)
CallsAnswered == subject = "calls" =>
  Calls!AnswersAtTheirPlace /\ Calls!OnlyNewerReplaces /\ Calls!NoticeFirst

(* A report is handed over once and an answer settles only its own prompt; a   *)
(* tab has one analytics library that may send.                                *)
TelemetrySettles ==
  /\ subject = "analytics" => Analytics!OneLibrary /\ Analytics!ReportedOnce
  /\ subject = "reports" => Reports!ReportedOnce

(* What was captured before an opt-out is never sent after a later opt-in. *)
OldConsentSendsNothing == Analytics!OldConsentSendsNothing
=============================================================================
