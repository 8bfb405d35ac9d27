---------------------------- MODULE MCHistories ----------------------------
(* How a pull history is collected, imported, listed in the cloud, kept on a   *)
(* server, put in order, read and drawn.                                       *)
(* The parts do not share state, so one run checks them side by side: a        *)
(* behaviour is about one part, its subject, and the variables of the others   *)
(* are None.  The state space is the sum of the parts', not their product.     *)
EXTENDS Remote, Integers, Sequences, SequencesExt, TLC

CONSTANT Damaged

VARIABLES log, hidden, exports, run,
          truth, snapshots,
          lawful, provider, launch, player, lost, row, browser, server, shown, analysis,
          sequences, since,
          service, valid, collection, begun, outcome,
          folder, picked, source, input, stored,
          archive, engine, changes,
          rows, ask, got, said,
          model, start, waits, budget, game,
          asked, chart

exportVars == <<log, hidden, exports, run>>
orderVars == <<truth, snapshots>>
outcomeVars == <<lawful, provider, launch, player, lost, row, browser, server, shown, analysis,
                 sequences, since>>
captureVars == <<service, valid, collection, begun, outcome>>
intakeVars == <<folder, picked, source, input, stored>>
derivedVars == <<archive, engine, changes>>
queryVars == <<rows, ask, got, said>>
luckVars == <<model, start, waits, budget, game>>
chartVars == <<asked, chart>>
vars == <<remoteVars, exportVars, orderVars, outcomeVars, captureVars, intakeVars, derivedVars,
          queryVars, luckVars, chartVars>>

(* Two runs over a first type whose ten-pull is cut by the pages, and a third  *)
(* type with one pull; the service forgets old pulls and lists new ones.       *)
Row(i, time, item) == [id |-> i, time |-> time, item |-> item]
Listings ==
  {1 :> <<Row(4, 3, "a"), Row(3, 3, "b"), Row(2, 2, "a"), Row(1, 1, "a")>> @@ 2 :> <<>>
     @@ 3 :> <<Row(1, 1, "a")>>}

Collecting == INSTANCE Collector WITH
  Types <- {1, 2, 3}, Controls <- {1, 3}, StartType <- 1, Misses <- 1, Retries <- 1,
  Items <- {"a", "b"}, PageSize <- 2, Histories <- Listings, MaxRuns <- 2,
  MaxPulls <- 1 :> 5 @@ 2 :> 0 @@ 3 :> 1
(* Every history of up to four pulls, 5* or not, in two ten-pulls.             *)
Order == INSTANCE SourceOrder WITH
  Times <- {1, 2}, Items <- {"e", "x"}, Elite <- "e", MaxPulls <- 4, MaxSnapshots <- 2
Reading == INSTANCE Outcomes WITH MaxPulls <- 4, truth <- player
(* A table of two windows for three keys of two periods.                     *)
MCPeriod == "a" :> 3 @@ "b" :> 4 @@ "c" :> 4
MCMaximum == "a" :> 2 @@ "b" :> 1 @@ "c" :> 1

(* What the service lists a page of two at a time: two lists of which one     *)
(* leaves out a type in the middle.  A server value may also be misread.       *)
Offers == {1 :> <<3, 2, 1>> @@ 3 :> <<1>>, 1 :> <<1>> @@ 2 :> <<>> @@ 3 :> <<2, 1>>}
Captured == INSTANCE Capture WITH
  MaxType <- 6, MissThreshold <- 2, MaxPages <- 9, MaxRecords <- 4, PageSize <- 2,
  Servers <- {1, 12}, Server <- 12, log <- service, job <- collection,
  Listings <- Offers

(* The folders of two runs, the later one over a grown history and cut short.  *)
Files == INSTANCE Documents
Folder(at, complete, list) ==
  LET doc == Files!Document(2, at, "me",
               FlattenSeq([n \in DOMAIN list |->
                             [i \in DOMAIN list[n] |-> Files!Entry(1, n, list[n][i])]]))
      type == [status |-> IF complete THEN "complete" ELSE "error", pages |-> Len(list),
               records |-> Len(doc.records)]
      manifest == [schema |-> 2, started |-> at, finished |-> complete, complete |-> complete,
                   ident |-> "me", types |-> 1 :> type]
  IN  Files!Path("records", 0, 0) :> doc @@ Files!Path("manifest", 0, 0) :> manifest
      @@ [p \in {Files!Path("raw", 1, n) : n \in DOMAIN list} |-> list[p.page]]
      @@ Files!Path("responses", 1, 1) :> list[1] \o <<0>>
(* Backups of another tracker: one profile, two, two accounts, out of order.   *)
Pulled(a, time, pull) == [account |-> a, time |-> time, pull |-> pull]
Others ==
  {"x" :> (1 :> <<Pulled("u", 1, 1), Pulled("u", 1, 2), Pulled("u", 2, 1)>>
             @@ 3 :> <<Pulled("u", 1, 9)>>),
   "x" :> (1 :> <<Pulled("u", 1, 1)>>) @@ "y" :> (1 :> <<Pulled("v", 2, 1)>>),
   "x" :> (1 :> <<Pulled("u", 1, 1)>> @@ 3 :> <<Pulled("v", 2, 1)>>),
   "x" :> (1 :> <<Pulled("u", 2, 1), Pulled("u", 1, 2)>>)}
Folders ==
  "early" :> Folder(1, TRUE, <<<<2, 1>>>>) @@ "late" :> Folder(2, FALSE, <<<<3, 2>>, <<1>>>>)
Import == INSTANCE Intake WITH
  Exports <- Folders, Backups <- Others, MaxFiles <- 4, disk <- folder

Orders == {<<"s">>, <<"s", "t">>, <<"t", "s">>}
Derived == INSTANCE DerivedRows WITH
  Ids <- {"x", "y"}, Hosts <- {"h"}, Snaps <- {"s", "t"}, Sequences <- Orders, MaxChanges <- 2, disk <- archive
Query == INSTANCE Queries WITH
  Types <- {1, 3}, Days <- {1, 2}, Default <- 3, Rarities <- {"Elite", "Standard", "Odd"},
  MaxRows <- 3, MaxSize <- 2

(* Chances in halves; a short and a long pity, a certain and an impossible     *)
(* 50/50, and a model that is refused.                                         *)
Model(base, soft, max, p) == [base |-> base, soft |-> soft, max |-> max, p |-> p]
Games == {Model(1, 1, 2, 1), Model(1, 2, 3, 1), Model(1, 1, 3, 2), Model(1, 1, 3, 1),
          Model(1, 2, 2, 1), Model(2, 1, 2, 0)}
Odds == INSTANCE Luck WITH
  Models <- Games, Parts <- 2, MaxBudget <- 4, p <- model

(* Every distribution of six outcomes with three weights.                      *)
Waits == UNION {[1 .. n -> {0, 1, 7}] : n \in 0 .. 3}
Chart == INSTANCE Charts WITH
  Weights <- {0, 1, 4}, MaxOutcome <- 5, Intervals <- Waits, Ends <- {0, 4},
  Halves <- {-1, 4, 5, 8}, Complete <- 2, OneIn <- 5, Columns <- 2,
  Group <- 2

Meta(kind, revision, content, large) ==
  [kind |-> kind, revision |-> revision, content |-> content, ours |-> TRUE, large |-> large]
MCMetas ==
  {Meta("good", "r", "c", FALSE), Meta("good", "r", "d", FALSE), Meta("damaged", "r", "c", FALSE),
   Meta("good", "q", "c", TRUE), Meta("newer", "r", "c", FALSE)}

Init ==
  /\ subject \in {"exports", "order", "reading", "graph", "server", "limit",
                 "capture", "intake", "derived", "queries", "luck", "charts", "listing"}
  /\ IF subject = "exports" THEN Collecting!Init
     ELSE log = None /\ hidden = None /\ exports = None /\ run = None
  /\ IF subject = "order" THEN Order!Init ELSE truth = None /\ snapshots = None
  /\ IF subject = "reading" THEN Reading!Init
     ELSE /\ lawful = None /\ provider = None /\ launch = None /\ player = None /\ lost = None
          /\ row = None /\ browser = None /\ server = None /\ shown = None /\ analysis = None
          /\ sequences = None /\ since = None
  /\ IF subject = "capture" THEN Captured!Init
     ELSE service = None /\ valid = None /\ collection = None /\ begun = None /\ outcome = None
  /\ IF subject = "intake" THEN Import!Init
     ELSE folder = None /\ picked = None /\ source = None /\ input = None /\ stored = None
  /\ IF subject = "derived" THEN Derived!Init
     ELSE archive = None /\ engine = None /\ changes = None
  /\ IF subject = "queries" THEN Query!Init
     ELSE rows = None /\ ask = None /\ got = None /\ said = None
  /\ IF subject = "luck" THEN Odds!Init
     ELSE model = None /\ start = None /\ waits = None /\ budget = None /\ game = None
  /\ IF subject = "charts" THEN Chart!Init
     ELSE asked = None /\ chart = None
  /\ RemoteInit

Next ==
  \/ /\ RemoteNext
     /\ UNCHANGED <<exportVars, orderVars, outcomeVars, captureVars, intakeVars,
                    derivedVars, queryVars, luckVars, chartVars>>
  \/ /\ subject = "exports" /\ Collecting!Next
     /\ UNCHANGED <<remoteVars, orderVars, outcomeVars, captureVars, intakeVars,
                    derivedVars, queryVars, luckVars, chartVars>>
  \/ /\ subject = "order" /\ Order!Next
     /\ UNCHANGED <<remoteVars, exportVars, outcomeVars, captureVars, intakeVars,
                    derivedVars, queryVars, luckVars, chartVars>>
  \/ /\ subject = "reading" /\ Reading!Next
     /\ UNCHANGED <<remoteVars, exportVars, orderVars, captureVars, intakeVars, derivedVars,
                    queryVars, luckVars, chartVars>>
  \/ /\ subject = "capture" /\ Captured!Next
     /\ UNCHANGED <<remoteVars, exportVars, orderVars, outcomeVars, intakeVars, derivedVars,
                    queryVars, luckVars, chartVars>>
  \/ /\ subject = "intake" /\ Import!Next
     /\ UNCHANGED <<remoteVars, exportVars, orderVars, outcomeVars, captureVars,
                    derivedVars, queryVars, luckVars, chartVars>>
  \/ /\ subject = "derived" /\ Derived!Next
     /\ UNCHANGED <<remoteVars, exportVars, orderVars, outcomeVars, captureVars, intakeVars,
                    queryVars, luckVars, chartVars>>
  \/ /\ subject = "queries" /\ Query!Next
     /\ UNCHANGED <<remoteVars, exportVars, orderVars, outcomeVars, captureVars, intakeVars,
                    derivedVars, luckVars, chartVars>>
  \/ /\ subject = "luck" /\ Odds!Next
     /\ UNCHANGED <<remoteVars, exportVars, orderVars, outcomeVars, captureVars, intakeVars,
                    derivedVars, queryVars, chartVars>>
  \/ /\ subject = "charts" /\ Chart!Next
     /\ UNCHANGED <<remoteVars, exportVars, orderVars, outcomeVars, captureVars, intakeVars,
                    derivedVars, queryVars, luckVars>>

Spec == Init /\ [][Next]_vars

-----------------------------------------------------------------------------
(* A finished export, and a finished collection in the browser, hold exactly   *)
(* what the service listed and the player pulled, whatever overlaps, appeared  *)
(* meanwhile, was half written or expired; files of two exports never mix, and *)
(* a history from another tracker is one profile's, in order.                  *)
ExportsAreExact ==
  /\ subject = "exports" => Collecting!ExportsExact
  /\ subject = "capture" =>
       Captured!CollectionIsWhole /\ Captured!OfferedIsAccepted /\ Captured!ServerIsCaptured
  /\ subject = "intake" => Import!ExportsDoNotMix /\ Import!ForeignOrder

(* Overlapping imports are merged into one order that counts every pull once,  *)
(* and a pity shown as certain is the pity of such a pull.                     *)
OrderIsTrue == subject = "order" => Order!CountedOnce /\ Order!CertainPityIsTrue

(* The 50/50 results of a history: the browser's reading and the server's are  *)
(* the same, what they infer is the player's real state, and the windows they  *)
(* compare hold every pull of their stretch.  Rows kept by the engine are      *)
(* those of what is stored.  Pages, summaries and statistics are those of the  *)
(* rows, the probabilities beside them those of the game, and the charts show  *)
(* the event that they are quoted for.                                         *)
ReadingsAreTrue ==
  /\ subject = "reading" =>
       Reading!SameReading /\ Reading!InferredIsTrue /\ Reading!WindowIsWhole
  /\ subject = "derived" => Derived!BuiltOfWhatIsStored
  /\ subject = "queries" =>
       Query!PagesAreTheRows /\ Query!SummaryIsOfTheRecruitment /\ Query!StatisticsAddUp
  /\ subject = "luck" =>
       Odds!CountsAreTheGame /\ Odds!LuckIsOneEvent /\ Odds!RangeHolds /\ Odds!WinsAreThrows
  /\ subject = "charts" =>
       Chart!BarsAreTheWhole /\ Chart!ShadedIsTheEvent /\ Chart!TallyIsWhole
=============================================================================
