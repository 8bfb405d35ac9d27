------------------------------ MODULE Outcomes ------------------------------
(* What a history says about the 50/50: the classification of every 5* pull    *)
(* and the guarantee carried from one to the next, computed by the browser     *)
(* (src/web/src/lib/banner-outcomes.ts) and by the server                      *)
(* (src/backend/banner_outcomes.py), and the stretch of pulls that the luck    *)
(* and the comparison with other accounts are computed from                    *)
(* (src/web/src/lib/statistics/history.ts, src/backend/statistics_comparison.py). *)
(* All four read one recruitment type from its oldest record on, so a step     *)
(* here is one pull of the player and, unless the record of it was lost, one   *)
(* round of the four loops. The player's real state runs along: it is what the *)
(* inferences are compared with.                                               *)
EXTENDS Naturals

CONSTANTS MaxPulls,  \* bound: pulls the player makes
          None

VARIABLES lawful,    \* luck follows the game's rule (FALSE: the catalog is wrong about it)
          provider,  \* the history's provider is one of catalog.hosts
          launch,    \* the history begins on the launch day
          truth,     \* the player's real state
          lost,      \* records were lost since the last one kept
          row,       \* the record of this round, with its coverage annotations
          browser,   \* the carry of annotateBannerOutcomes
          server,    \* the carry of annotate_banner_outcomes
          shown,     \* the results both give this record
          analysis,  \* windows of analyzeHistory
          sequences, \* windows of comparison_sequences
          since      \* the real state where each window of the browser began

given == <<lawful, provider, launch>>
vars == <<given, truth, lost, row, browser, server, shown, analysis, sequences, since>>

-----------------------------------------------------------------------------
(* The classification of one record r. In a dated pool the featured items are  *)
(* listed; in another pool of a targeted banner the roster of standard items   *)
(* tells them; in a rerun of a standard item the roster does not.              *)

(* Mutant: the roster also decides a rerun of a standard item. *)
RosterAnyPool(r) == provider /\ r.pool \in {"roster", "rerun"}
FixedPool(r) == provider /\ r.pool = "roster"
DatedPool(r) == provider /\ r.pool = "dated"
Featured(r) == r.won /\ r.pool # "rerun"

NoResult == [featured |-> None, outcome |-> "not_applicable", before |-> None,
             after |-> None, pity |-> None, reason |-> None]

Add1(n) == IF n = None THEN None ELSE n + 1

(* Mutant: a gap does not break the carry. *)
EnteringBlind(r, c) ==
    IF ~DatedPool(r) /\ ~FixedPool(r)
    THEN [guarantee |-> None, interval |-> None,
          why |-> IF provider THEN "unknown_pool" ELSE "unknown_provider"]
    ELSE [c EXCEPT !.interval = Add1(@)]

(* annotateBannerOutcomes: the carry on entering a record. *)
Entering(r, c) ==
    LET broken == r.gap \/ r.rarity = "Unknown"
    IN IF ~DatedPool(r) /\ ~FixedPool(r)
       THEN [guarantee |-> None, interval |-> None,
             why |-> IF provider THEN "unknown_pool" ELSE "unknown_provider"]
       ELSE IF broken
       THEN [guarantee |-> None, interval |-> None,
             why |-> IF r.gap THEN "history_gap" ELSE "unknown_item"]
       ELSE [c EXCEPT !.interval = Add1(@)]

(* What the record makes of it: the next carry and the row's result.           *)
Browser(r, c0) ==
    LET c == Entering(r, c0)
        plain == [NoResult EXCEPT !.before = c.guarantee, !.after = c.guarantee]
        known == DatedPool(r) \/ FixedPool(r)
        kept == known /\ r.kind
        loss == [c EXCEPT !.guarantee = TRUE, !.why = None]
    IN CASE r.rarity # "Elite" ->
              [carry |-> c,
               result |-> [plain EXCEPT !.reason = IF known /\ r.rarity # "Unknown"
                                                   THEN None ELSE c.why]]
         [] r.rarity = "Elite" /\ kept /\ Featured(r) ->
              [carry |-> [guarantee |-> FALSE, interval |-> 0, why |-> None],
               result |-> [plain EXCEPT !.featured = TRUE, !.pity = c.interval, !.after = FALSE,
                             !.outcome = IF c.guarantee = None THEN "unknown"
                                         ELSE IF c.guarantee THEN "guaranteed" ELSE "win",
                             !.reason = IF c.guarantee = None THEN c.why ELSE None]]
         [] r.rarity = "Elite" /\ kept /\ ~Featured(r) /\ c.guarantee = TRUE ->
              [carry |-> [loss EXCEPT !.interval = None],
               result |-> [plain EXCEPT !.featured = FALSE, !.after = TRUE,
                             !.outcome = "unknown", !.reason = "guarantee_conflict"]]
         [] r.rarity = "Elite" /\ kept /\ ~Featured(r) /\ c.guarantee # TRUE ->
              [carry |-> loss,
               result |-> [plain EXCEPT !.featured = FALSE, !.before = FALSE, !.after = TRUE,
                             !.outcome = "loss"]]
         [] r.rarity = "Elite" /\ ~kept ->
              LET why == IF known THEN "unknown_item" ELSE c.why
              IN [carry |-> [guarantee |-> None, interval |-> None, why |-> why],
                  result |-> [plain EXCEPT !.outcome = "unknown", !.after = None, !.reason = why]]

(* annotate_banner_outcomes of the server. *)
Server(r, c0) ==
    LET c1 == IF r.gap \/ r.rarity = "Unknown"
              THEN [guarantee |-> None, interval |-> None,
                    why |-> IF r.gap THEN "history_gap" ELSE "unknown_item"]
              ELSE c0
        unknown == IF ~provider THEN "unknown_provider"
                   ELSE IF DatedPool(r) \/ FixedPool(r) THEN None ELSE "unknown_pool"
        c == [c1 EXCEPT !.interval = Add1(@)]
        base == [NoResult EXCEPT !.before = c.guarantee, !.after = c.guarantee]
    IN IF unknown # None
       THEN [carry |-> [guarantee |-> None, interval |-> None, why |-> unknown],
             result |-> [NoResult EXCEPT !.reason = unknown,
                           !.outcome = IF r.rarity = "Elite" THEN "unknown" ELSE @]]
       ELSE IF r.rarity # "Elite"
       THEN [carry |-> c, result |-> IF r.rarity = "Unknown" THEN [base EXCEPT !.reason = c.why]
                                     ELSE base]
       ELSE IF ~r.kind
       THEN [carry |-> [guarantee |-> None, interval |-> None, why |-> "unknown_item"],
             result |-> [base EXCEPT !.outcome = "unknown", !.after = None,
                                     !.reason = "unknown_item"]]
       ELSE IF Featured(r)
       THEN [carry |-> [guarantee |-> FALSE, interval |-> 0, why |-> None],
             result |-> [base EXCEPT !.featured = TRUE, !.after = FALSE, !.pity = c.interval,
                           !.outcome = CASE c.guarantee = None -> "unknown"
                                         [] c.guarantee = TRUE -> "guaranteed"
                                         [] c.guarantee = FALSE -> "win",
                           !.reason = IF c.guarantee = None THEN c.why ELSE None]]
       ELSE IF c.guarantee = TRUE
       THEN [carry |-> [guarantee |-> TRUE, interval |-> None, why |-> None],
             result |-> [base EXCEPT !.featured = FALSE, !.outcome = "unknown", !.after = TRUE,
                                     !.reason = "guarantee_conflict"]]
       ELSE [carry |-> [guarantee |-> TRUE, interval |-> c.interval, why |-> None],
             result |-> [base EXCEPT !.featured = FALSE, !.outcome = "loss", !.before = FALSE,
                                     !.after = TRUE]]

(* summarizeBannerOutcomes and summarize_banner_outcomes: the counters a 5*    *)
(* record raises in either summary.                                            *)
BrowserTally(b) ==
    {IF b.featured = None THEN "unknown_elites"
     ELSE IF b.featured THEN "featured_count" ELSE "off_banner_count"}
    \cup {IF b.outcome \in {"win", "loss", "guaranteed"} THEN b.outcome ELSE "unknown_outcomes"}
    \cup IF b.pity # None THEN {"featured_intervals"} ELSE {}

ServerTally(b) ==
    {c \in {"win", "loss", "guaranteed"} : b.outcome = c}
    \cup (IF b.outcome = "unknown" THEN {"unknown_outcomes"} ELSE {})
    \cup (IF b.featured = TRUE THEN {"featured_count"} ELSE {})
    \cup (IF b.featured = FALSE THEN {"off_banner_count"} ELSE {})
    \cup (IF b.featured = None THEN {"unknown_elites"} ELSE {})
    \cup (IF b.featured = TRUE /\ b.pity # None THEN {"featured_intervals"} ELSE {})

-----------------------------------------------------------------------------
(* The windows. w holds the elite and the featured window, None or a record.   *)

Breaks == {"unknown_pool", "unknown_provider", "unknown_item", "guarantee_conflict",
           "unsupported_type"}
PityBreak(r) == r.gap \/ r.rarity = "Unknown"
FeaturedBreak(r, b) == \/ PityBreak(r) \/ b.after = None \/ b.reason \in Breaks
                       \/ r.rarity = "Elite" /\ b.featured = None

Window(pity, guaranteed) == [budget |-> 0, count |-> 0, pity |-> pity, guaranteed |-> guaranteed]
Counted(w, success) == IF w = None THEN None
                       ELSE [w EXCEPT !.budget = @ + 1, !.count = @ + (IF success THEN 1 ELSE 0)]

(* initialPity: a history that begins on the launch day. *)
Initial(r) == IF ~r.uncertain /\ ~r.gap /\ r.rarity # "Unknown"
              THEN [elite |-> Window(r.pity - 1, FALSE), featured |-> None]
              ELSE [elite |-> None, featured |-> None]

(* Mutant: the 5* that establishes a window counts as its first success. *)
AnalyzeAnchored(r, b, w) ==
    LET elite == r.rarity = "Elite"
        e0 == IF PityBreak(r) THEN None ELSE w.elite
        f0 == IF FeaturedBreak(r, b) THEN None ELSE w.featured
    IN [elite |-> Counted(IF e0 = None /\ elite THEN Window(0, FALSE) ELSE e0, elite),
        featured |-> Counted(IF f0 = None /\ elite /\ b.featured # None /\ b.after # None
                             THEN Window(0, b.after) ELSE f0,
                             elite /\ b.featured = TRUE)]

(* analyzeHistory: break, count, and only then begin after an established 5*.  *)
Analyze(r, b, w) ==
    LET elite == r.rarity = "Elite"
        e == Counted(IF PityBreak(r) THEN None ELSE w.elite, elite)
        f == Counted(IF FeaturedBreak(r, b) THEN None ELSE w.featured,
                     elite /\ b.featured = TRUE)
    IN [elite |-> IF e = None /\ elite THEN Window(0, FALSE) ELSE e,
        featured |-> IF f = None /\ elite /\ b.featured # None /\ b.after # None
                     THEN Window(0, b.after) ELSE f]

(* comparison_sequences: its values are a sequence of 0 and 1; their number    *)
(* and their sum is what the account is compared by.                           *)
Sequences(r, b, w) ==
    LET one == IF r.rarity = "Elite" THEN 1 ELSE 0
        oneFeatured == IF r.rarity = "Elite" /\ b.featured = TRUE THEN 1 ELSE 0
        push(v, n) == [v EXCEPT !.budget = @ + 1, !.count = @ + n]
        e == IF PityBreak(r) \/ w.elite = None THEN None ELSE push(w.elite, one)
        f == IF FeaturedBreak(r, b) \/ w.featured = None THEN None
             ELSE push(w.featured, oneFeatured)
    IN [elite |-> IF one = 1 /\ e = None THEN Window(0, FALSE) ELSE e,
        featured |-> IF one = 1 /\ f = None /\ b.featured # None /\ b.after # None
                     THEN Window(0, b.after) ELSE f]

-----------------------------------------------------------------------------
(* The play: what the player draws, and what the history keeps of it.          *)

Init == /\ lawful \in BOOLEAN /\ provider \in BOOLEAN /\ launch \in BOOLEAN
        /\ \E g \in IF launch THEN {FALSE} ELSE BOOLEAN :
              truth = [guarantee |-> g, pulls |-> 0, elites |-> 0, featured |-> 0, pity |-> 0]
        /\ lost = FALSE /\ row = None /\ shown = None
        /\ browser = [guarantee |-> None, interval |-> None, why |-> "unknown_start"]
        /\ server = browser
        /\ analysis = [elite |-> None, featured |-> None] /\ sequences = analysis
        /\ since = [elite |-> None, featured |-> None]

(* The game: a 5* is featured or standard, featured when the last one was not. *)
Drawn(reward) == LET elite == reward # "none" IN
    /\ truth.pulls < MaxPulls
    /\ reward = "standard" => (lawful => ~truth.guarantee)
    /\ truth' = [guarantee |-> IF elite THEN reward = "standard" ELSE truth.guarantee,
                 pulls |-> truth.pulls + 1,
                 elites |-> truth.elites + (IF elite THEN 1 ELSE 0),
                 featured |-> truth.featured + (IF reward = "featured" THEN 1 ELSE 0),
                 pity |-> IF elite THEN 0 ELSE truth.pity + 1]

(* The coverage annotations of the next record: what the last 5* and the gaps  *)
(* since it leave known of its pity. The first record has no gap before it.    *)
Pity == IF row = None \/ row.rarity = "Elite" THEN 1 ELSE row.pity + 1
Uncertain(gap, rarity) ==
    \/ gap \/ rarity = "Unknown"
    \/ IF row = None THEN ~launch ELSE row.rarity # "Elite" /\ row.uncertain

Record(reward, pool, seen) ==
    LET gap == lost /\ row # None
        rarity == IF seen = "unknown" THEN "Unknown"
                  ELSE IF reward = "none" THEN "Other" ELSE "Elite"
        r == [rarity |-> rarity, kind |-> seen = "exact", pool |-> pool,
              won |-> reward = "featured", gap |-> gap, pity |-> Pity,
              uncertain |-> Uncertain(gap, rarity)]
        b == Browser(r, browser)
        s == Server(r, server)
        before == IF row = None THEN Initial(r) ELSE analysis
        start(w, v, old) == IF v = None THEN None
                            ELSE IF w # None /\ v.budget > 0 THEN old ELSE truth'
    IN /\ Drawn(reward)
       /\ row' = r /\ lost' = FALSE
       /\ browser' = b.carry /\ server' = s.carry
       /\ shown' = [browser |-> b.result, server |-> s.result]
       /\ analysis' = Analyze(r, b.result, before)
       /\ sequences' = Sequences(r, s.result, IF row = None THEN Initial(r) ELSE sequences)
       /\ since' = [elite |-> start(before.elite, analysis'.elite,
                                    IF row = None THEN truth ELSE since.elite),
                    featured |-> start(before.featured, analysis'.featured, since.featured)]
       /\ UNCHANGED given

(* A pull whose record no import kept. A history that begins on the launch day *)
(* is taken to begin with its first pull.                                      *)
Lose(reward) ==
    /\ launch => row # None
    /\ Drawn(reward)
    /\ lost' = TRUE
    /\ UNCHANGED <<given, row, browser, server, shown, analysis, sequences, since>>

Rewards == {"none", "featured", "standard"}

(* Without the provider's calendar the pools are not told apart, but for reruns. *)
Pools == IF provider THEN {"dated", "roster", "rerun", "unmapped"} ELSE {"dated", "rerun"}

Next == \E reward \in Rewards :
          \/ Lose(reward)
          \/ \E pool \in Pools, seen \in {"exact", "stranger", "unknown"} :
               Record(reward, pool, seen)

Spec == Init /\ [][Next]_vars

-----------------------------------------------------------------------------
(* The browser's classification of a history and the server's agree on every   *)
(* record, raise the same counters, and give the same stretches to compare.    *)
SameReading ==
    shown # None =>
      /\ shown.browser = shown.server /\ browser = server /\ analysis = sequences
      /\ row.rarity = "Elite" => BrowserTally(shown.browser) = ServerTally(shown.server)

(* What is inferred is true: while luck follows the game's rule and no record  *)
(* was lost since, a guarantee that is not null is the player's, a win was not *)
(* guaranteed and a guaranteed one was, and no conflict is reported.           *)
InferredIsTrue ==
    shown # None /\ lawful =>
      /\ ~lost /\ browser.guarantee # None => browser.guarantee = truth.guarantee
      /\ shown.browser.reason # "guarantee_conflict"
      /\ shown.browser.featured # None => shown.browser.featured = row.won

(* A window begins with the player's real state and holds every pull made      *)
(* since: none that was lost, none that established it, each success once.     *)
WindowIsWhole ==
    \A k \in {"elite", "featured"} : LET w == analysis[k] IN
      w # None /\ ~lost =>
        /\ w.budget = truth.pulls - since[k].pulls
        /\ k = "elite" => w.count = truth.elites - since[k].elites /\ w.pity = since[k].pity
        /\ k = "featured" => w.count = truth.featured - since[k].featured
        /\ k = "featured" /\ lawful => w.guaranteed = since[k].guarantee
=============================================================================
