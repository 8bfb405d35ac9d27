------------------------------ MODULE Queries ------------------------------
(***************************************************************************)
(* What the engine answers from the rows of a profile: the pages of a      *)
(* filtered history, the windows of the rewards of one recruitment with    *)
(* their summary (lib/reward-query.ts), and the counts of the statistics.  *)
(* A row is [type, rarity, day, pity, uncertain]; the rows are newest      *)
(* first.  The reader asks for one page or window after the other, as the  *)
(* history and the list of rewards do.                                     *)
(***************************************************************************)
EXTENDS Integers, FiniteSets, SequencesExt

CONSTANTS Types, Days, Default,  \* recruitment types; the one shown at first
          Rarities,              \* what the catalog calls a rarity
          MaxRows, MaxSize, None

VARIABLES rows, ask, got, said

vars == <<rows, ask, got, said>>

Shown == {"Elite", "Standard", "Unknown"}
RewardRarity(r) == IF r \in Shown THEN r ELSE "Unknown"

-----------------------------------------------------------------------------
(* filtered, history *)

(* An absent filter lets every row pass. *)
Admits(filter, value) == filter = None \/ value \in filter

Filtered(f) ==
  SelectSeq(rows, LAMBDA r : /\ Admits(f.rarity, r.rarity)
                             /\ Admits(f.type, r.type)
                             /\ f.from = None \/ r.day >= f.from
                             /\ f.to = None \/ r.day <= f.to)

Clamped(n, low, high) == IF n < low THEN low ELSE IF n > high THEN high ELSE n
Slice(s, start, count) == SubSeq(s, start + 1, Clamped(start + count, 0, Len(s)))
Ceiling(n, d) == (n + d - 1) \div d

History(f, page, pageSize) ==
  LET hits == Filtered(f)
      size == Clamped(pageSize, 1, MaxSize)
      n == Clamped(page, 1, page + 1)
  IN  [items |-> Slice(hits, (n - 1) * size, size), total |-> Len(hits), page |-> n,
       pages |-> Clamped(Ceiling(Len(hits), size), 1, Len(hits) + 1)]

(* statistics *)
CountOf(hits, Key(_)) ==
  [v \in {Key(hits[i]) : i \in DOMAIN hits} |-> Cardinality({i \in DOMAIN hits : Key(hits[i]) = v})]

Statistics(f) ==
  LET hits == Filtered(f)
      known == SelectSeq(hits, LAMBDA r : r.rarity # "Unknown")
  IN  [total |-> Len(hits), known |-> Len(known), unknown |-> Len(hits) - Len(known),
       rarities |-> CountOf(known, LAMBDA r : r.rarity),
       types |-> CountOf(hits, LAMBDA r : r.type),
       from |-> IF hits = <<>> THEN None ELSE hits[Len(hits)].day,
       to |-> IF hits = <<>> THEN None ELSE hits[1].day]

-----------------------------------------------------------------------------
(* createRewardQuery *)

Group(t) == SelectSeq(rows, LAMBDA r : r.type = t)
Offered == {rows[i].type : i \in DOMAIN rows}

Selected(t) ==
  IF t \in Offered THEN t
  ELSE IF Default \in Offered THEN Default
  ELSE IF Offered = {} THEN None ELSE Min(Offered)

Counts(scoped) ==
  [k \in Shown |-> Cardinality({i \in DOMAIN scoped : RewardRarity(scoped[i].rarity) = k})]

Summary(scoped) ==
  LET elites == SelectSeq(scoped, LAMBDA r : r.rarity = "Elite")
      certain == SelectSeq(elites, LAMBDA r : ~r.uncertain)
      latest == scoped[1]
      elite == latest.rarity = "Elite"
  IN  IF scoped = <<>>
      THEN [pity |-> 0, uncertain |-> FALSE, pulls |-> 0, over |-> 0, last |-> None,
            breakdown |-> [k \in Shown \ {"Unknown"} |-> 0]]
      ELSE [pity |-> IF elite THEN 0 ELSE latest.pity,
            uncertain |-> ~elite /\ latest.uncertain,
            pulls |-> FoldLeft(LAMBDA n, r : n + r.pity, 0, certain), over |-> Len(certain),
            last |-> IF elites = <<>> THEN None ELSE elites[1],
            breakdown |-> [k \in {j \in Shown : j # "Unknown" \/ Counts(scoped)[j] > 0} |->
                             Counts(scoped)[k]]]

(* Mutant of Total: every row of the recruitment counts. *)
TotalOfAll(summary, rarities) ==
  FoldSet(LAMBDA k, n : n + summary.breakdown[k], 0, DOMAIN summary.breakdown)

Total(summary, rarities) ==
  FoldSet(LAMBDA k, n : n + summary.breakdown[k], 0, DOMAIN summary.breakdown \cap rarities)

Window(scoped, total, rarities, start, count) ==
  IF start >= total THEN <<>>
  ELSE IF total = Len(scoped) THEN Slice(scoped, start, count)
  ELSE Slice(SelectSeq(scoped, LAMBDA r : RewardRarity(r.rarity) \in rarities), start, count)

Rewards(t, rarities, offset, limit) ==
  LET type == Selected(t)
      scoped == IF type = None THEN <<>> ELSE Group(type)
      summary == Summary(scoped)
      total == Total(summary, rarities)
  IN  [type |-> type, summary |-> summary, total |-> total,
       items |-> Window(scoped, total, rarities, Clamped(offset, 0, offset + 1), Clamped(limit, 1, MaxSize)),
       available |-> {k \in Shown : k # "Unknown" \/ k \in rarities \/ k \in DOMAIN summary.breakdown}]

-----------------------------------------------------------------------------
(* The rows: any history, with the pity of the pulls since the last 5*; the
   first of them are uncertain. *)

Since(list, i) == {j \in i + 1 .. Len(list) : list[j].type = list[i].type
                     /\ \A k \in i + 1 .. j : list[k].type = list[i].type => list[k].rarity # "Elite"}
Follows(list, i) == \E j \in i + 1 .. Len(list) : list[j].type = list[i].type /\ list[j].rarity = "Elite"
Annotated(list) ==
  [i \in DOMAIN list |-> [type |-> list[i].type, rarity |-> list[i].rarity, day |-> list[i].day, at |-> i,
                          pity |-> 1 + Cardinality(Since(list, i)), uncertain |-> ~Follows(list, i)]]

Histories ==
  {Annotated(list) : list \in
     {l \in UNION {[1 .. n -> [type : Types, rarity : Rarities, day : Days]] : n \in 0 .. MaxRows} :
        \A i \in 2 .. Len(l) : l[i - 1].day >= l[i].day}}

Asks ==
  [kind : {"history"}, size : {0, MaxSize + 1}, start : {1},
   filter : [rarity : {None, {"Elite"}, Rarities \ {"Elite"}}, type : {None, {Min(Types)}},
             from : {None, Max(Days)}, to : {None, Min(Days)}]]
  \cup [kind : {"rewards"}, size : {1, MaxSize}, start : {-1}, type : Types \cup {None},
        rarities : SUBSET Shown]

Answer(request, start) ==
  IF request.kind = "history" THEN History(request.filter, start, request.size)
  ELSE Rewards(request.type, request.rarities, start, request.size)

Init ==
  /\ rows \in Histories
  /\ ask \in Asks
  /\ got = <<>>
  /\ said = Answer(ask, ask.start)

Next ==
  /\ said.items # <<>>
  /\ got' = got \o said.items
  /\ said' = Answer(ask, IF ask.kind = "history" THEN said.page + 1 ELSE Len(got'))
  /\ UNCHANGED <<rows, ask>>

Spec == Init /\ [][Next]_vars

-----------------------------------------------------------------------------
(* Page after page and window after window, the reader gets every row that the
   filter admits, once and in order, and as many as every answer announced;
   the windows of the rewards take their total from counts made when the query
   was built, before any rarity was selected. *)
PagesAreTheRows ==
  LET wanted == IF ask.kind = "history" THEN Filtered(ask.filter)
                ELSE SelectSeq(IF said.type = None THEN <<>> ELSE Group(said.type),
                               LAMBDA r : RewardRarity(r.rarity) \in ask.rarities)
  IN  /\ said.total = Len(wanted)
      /\ IsPrefix(got, wanted)
      /\ said.items = <<>> => got = wanted

(* The summary is of the whole recruitment whatever the window shows: its
   counts cover every row, the pity is the number of pulls after the last 5*
   and it is called certain only after one. *)
SummaryIsOfTheRecruitment ==
  ask.kind = "rewards" /\ said.type # None =>
    LET scoped == Group(said.type)
        elites == {i \in DOMAIN scoped : scoped[i].rarity = "Elite"}
    IN  /\ Total(said.summary, Shown) = Len(scoped)
        /\ said.summary.pity = IF elites = {} THEN Len(scoped) ELSE Min(elites) - 1
        /\ said.summary.uncertain = (elites = {})
        /\ said.summary.last # None => said.summary.last = scoped[Min(elites)]

(* The statistics of a filter count each of its rows in one type and in one
   rarity, or as unknown, and are of as many rows as the pages of it. *)
StatisticsAddUp ==
  ask.kind = "history" =>
    LET s == Statistics(ask.filter)
        sum(f) == FoldFunction(LAMBDA n, m : n + m, 0, f)
    IN  /\ s.total = said.total
        /\ sum(s.types) = s.total
        /\ sum(s.rarities) + s.unknown = s.total
=============================================================================
