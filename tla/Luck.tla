-------------------------------- MODULE Luck --------------------------------
(***************************************************************************)
(* The probabilities that the statistics show (statistics/probability.ts), *)
(* against the game they are about.  The code never plays: it convolves    *)
(* waiting times and counts renewals.  Here the game is played pull by     *)
(* pull from a pity and a guarantee, with every outcome and its weight,    *)
(* and the code's figures are compared after each pull.                    *)
(*                                                                         *)
(* A distribution is a function from outcomes 0 .. n to whole weights      *)
(* whose sum is its unit; a chance is a whole number of Parts.  Transforms *)
(* are modelled by the products of distributions that they compute, with   *)
(* no rounding and no omitted tail.                                        *)
(***************************************************************************)
EXTENDS Integers, FiniteSets, SequencesExt, TLC

CONSTANTS Models,     \* [base, soft, max, p], base and p in Parts
          Parts,      \* the whole of a chance
          MaxBudget

VARIABLES p,          \* the model
          start,      \* [pity, guaranteed] before the first pull
          waits,      \* waiting times of any and of featured 5*: the first, and a cycle
          budget,     \* pulls made
          game        \* weight of every [pity, guaranteed, elite, featured]

vars == <<p, start, waits, budget, game>>

-----------------------------------------------------------------------------
(* Distributions *)

Top(d) == Cardinality(DOMAIN d) - 1
At(d, i) == IF i \in DOMAIN d THEN d[i] ELSE 0
Within(d, n) == LET s[i \in -1 .. n] == IF i = -1 THEN 0 ELSE s[i - 1] + At(d, i) IN s[n]
Sum(d) == Within(d, Top(d))
Weighed(d) == Sum([i \in DOMAIN d |-> i * d[i]])

(* In lowest terms: the units are powers of two, all below 2 ^ 30 (@@ makes TLC
   compute the function once, and changes nothing). *)
Lowest(d) ==
  LET n == Max({k \in 0 .. 30 : \A i \in DOMAIN d : d[i] % 2 ^ k = 0})
  IN  [i \in DOMAIN d |-> d[i] \div 2 ^ n] @@ <<>>

Convolved(a, b) ==
  Lowest([n \in 0 .. Top(a) + Top(b) |->
            Sum([i \in 0 .. n |-> At(a, i) * At(b, n - i)])])

Power(base, count) ==
  FoldLeft(LAMBDA d, n : Convolved(d, base), [i \in {0} |-> 1], [n \in 1 .. count |-> n])

(* Shares rate of one distribution and the rest of another. *)
Mixed(a, b, rate) ==
  Lowest([n \in 0 .. Max({Top(a), Top(b)}) |->
            At(a, n) * Sum(b) * rate + At(b, n) * Sum(a) * (Parts - rate)])

-----------------------------------------------------------------------------
(* Waiting times *)

Valid(m) ==
  /\ m.soft >= 1 /\ m.max > m.soft
  /\ m.base > 0 /\ m.base <= Parts /\ m.p >= 0 /\ m.p <= Parts

(* The chance of a pull at a pity, out of Parts * (max - soft). *)
Scale(m) == Parts * (m.max - m.soft)
Chance(m, pull) ==
  IF pull < m.soft THEN m.base * (m.max - m.soft)
  ELSE m.base * (m.max - m.soft) + (Parts - m.base) * (pull - m.soft)

Survival(m, from) ==
  LET s[n \in from .. m.max] == IF n = from THEN 1 ELSE s[n - 1] * (Scale(m) - Chance(m, n))
  IN  s

(* The wait for the next 5*, from a pity. *)
ResidualElite(m, pity) ==
  LET survival == Survival(m, pity)
      unit(n) == Scale(m) ^ (m.max - n)
  IN  Lowest([w \in 0 .. m.max - pity |->
                IF w = 0 THEN 0
                ELSE survival[pity + w - 1] * Chance(m, pity + w) * unit(pity + w)])

Pmf(m) == ResidualElite(m, 0)

(* Mutant of FeaturedCycle: the second 5* of a lost 50/50 starts with the rest
   of the first one's pity. *)
FeaturedCycleLate(elite, rate) == Mixed(elite, Convolved(elite, Convolved(elite, elite)), rate)

(* The wait from one featured 5* to the next. *)
FeaturedCycle(elite, rate) == Mixed(elite, Convolved(elite, elite), rate)

-----------------------------------------------------------------------------
(* rewardCounts: the number of rewards in a budget, from the waiting times *)

Minimum(d) == Min({i \in DOMAIN d : d[i] > 0})

MaximumCount(base, n, first) ==
  IF n < Minimum(first) THEN 0 ELSE 1 + (n - Minimum(first)) \div Minimum(base)

(* The wait for the kth reward. *)
Arrival(base, first, k) == Convolved(first, Power(base, k - 1))

(* P(the kth has come), <<weight, unit>>, and 0 or 1 where no wait can differ. *)
Reached(base, n, first, k) ==
  LET arrival == Arrival(base, first, k)
  IN  IF k = 0 \/ Top(first) + (k - 1) * Top(base) <= n THEN <<1, 1>>
      ELSE IF Minimum(first) + (k - 1) * Minimum(base) > n THEN <<0, 1>>
      ELSE <<Within(arrival, n), Sum(arrival)>>

RewardCounts(base, n, first) ==
  LET last == MaximumCount(base, n, first)
      reached == [k \in 0 .. last + 1 |-> Reached(base, n, first, k)]
      unit == Max({reached[k][2] : k \in DOMAIN reached})
      cdf(k) == reached[k][1] * (unit \div reached[k][2])
  IN  Lowest([k \in 0 .. last |-> cdf(k) - cdf(k + 1)])

(* The mean from the renewals, <<sum, unit>>: one at pull t weighs
   renewal[t] of Sum(first) * Sum(base) ^ (t - 1). *)
RenewalMean(base, n, first) ==
  LET renewal[t \in 0 .. n] ==
        IF t = 0 THEN 0
        ELSE At(first, t) * Sum(base) ^ (t - 1)
               + Sum([i \in 0 .. t - 1 |-> renewal[i] * At(base, t - i) * Sum(base) ^ (t - i - 1)])
  IN  <<Sum([t \in 0 .. n |-> renewal[t] * Sum(base) ^ (n - t)]),
        IF n = 0 THEN 1 ELSE Sum(first) * Sum(base) ^ (n - 1)>>

First(m, from, featured) ==
  LET residual == ResidualElite(m, from.pity)
  IN  IF ~featured \/ from.guaranteed THEN residual
      ELSE Mixed(residual, Convolved(residual, Pmf(m)), m.p)

Cycle(m, featured) == IF featured THEN FeaturedCycle(Pmf(m), m.p) ELSE Pmf(m)

Waits(m, from) ==
  [featured \in BOOLEAN |-> [first |-> First(m, from, featured), cycle |-> Cycle(m, featured)]]

(* countDistribution *)
Counts(n, featured) == RewardCounts(waits[featured].cycle, n, waits[featured].first)

(* The smallest outcome whose cumulative weight reaches a share. *)
Quantile(d, part, whole) ==
  Min({i \in DOMAIN d : Within(d, i) * whole >= part * Sum(d)})

(* planner, summary, acquisition, winsMetric *)
Range90(d) ==
  [dist |-> d, low |-> Quantile(d, 1, 20), high |-> Quantile(d, 19, 20), atLeastOne |-> Sum(d) - d[0]]
Planner(n, featured) == Range90(Counts(n, featured))

Summary(n, count, featured) ==
  LET d == Counts(n, featured) IN <<Sum(d) - Within(d, count - 1), Sum(d)>>

Acquisition(count, spent, featured) ==
  LET d == Power(waits[featured].cycle, count) IN <<Within(d, spent), Sum(d)>>

Wins(m, wins, trials) ==
  LET d == Power([i \in {0, 1} |-> IF i = 1 THEN m.p ELSE Parts - m.p], trials)
  IN  <<Sum(d) - Within(d, wins - 1), Sum(d)>>

-----------------------------------------------------------------------------
(* The game *)

Featured(m, guaranteed) == IF guaranteed THEN Parts ELSE m.p

(* What one pull makes of a state, with its weight. *)
Outcomes(m, s) ==
  LET hit == Chance(m, s.pity + 1)
      won == Featured(m, s.guaranteed)
      elite(f, weight) ==
        <<[pity |-> 0, guaranteed |-> ~f, elite |-> s.elite + 1,
           featured |-> s.featured + (IF f THEN 1 ELSE 0)], weight>>
  IN  {<<[s EXCEPT !.pity = @ + 1], (Scale(m) - hit) * Parts>>,
       elite(TRUE, hit * won), elite(FALSE, hit * (Parts - won))}

Weight(g, S) == FoldFunctionOnSet(LAMBDA x, y : x + y, 0, g, S)

Played(m, g) ==
  LET steps == UNION {{<<s, o>> : o \in {x \in Outcomes(m, s) : x[2] > 0}} : s \in DOMAIN g}
      weight == [st \in steps |-> g[st[1]] * st[2][2]]
  IN  Lowest([t \in {st[2][1] : st \in steps} |-> Weight(weight, {st \in steps : st[2][1] = t})])

Init ==
  /\ p \in {m \in Models : Valid(m)}
  /\ start \in [pity : 0 .. p.max - 1, guaranteed : BOOLEAN]
  /\ waits = Waits(p, start)
  /\ budget = 0
  /\ game = [s \in {[pity |-> start.pity, guaranteed |-> start.guaranteed,
                     elite |-> 0, featured |-> 0]} |-> 1]

Pull ==
  /\ budget < MaxBudget
  /\ budget' = budget + 1
  /\ game' = Played(p, game)
  /\ UNCHANGED <<p, start, waits>>

Next == Pull

Spec == Init /\ [][Next]_vars

-----------------------------------------------------------------------------
Number(s, featured) == IF featured THEN s.featured ELSE s.elite
InGame(S) == <<Weight(game, S), Weight(game, DOMAIN game)>>

(* The number of rewards in the game, as a distribution. *)
Rewards(featured) ==
  LET top == Max({Number(s, featured) : s \in DOMAIN game})
  IN  Lowest([k \in 0 .. top |-> Weight(game, {s \in DOMAIN game : Number(s, featured) = k})])

Trimmed(d) == [k \in 0 .. Max({i \in DOMAIN d : d[i] > 0}) |-> d[k]]

(* Two fractions whose units are powers of two. *)
Same(a, b) ==
  IF a[2] >= b[2] THEN a[1] = b[1] * (a[2] \div b[2]) ELSE b[1] = a[1] * (b[2] \div a[2])

(* After every number of pulls, from any pity and guarantee, the distribution
   of the rewards is that of the game, and the mean from the renewals is that
   of the distribution. *)
CountsAreTheGame ==
  \A featured \in BOOLEAN :
    LET d == Counts(budget, featured)
        mean == RenewalMean(waits[featured].cycle, budget, waits[featured].first)
    IN  /\ Trimmed(d) = Rewards(featured)
        /\ Same(mean, <<Weighed(d), Sum(d)>>)

(* What is said about a history, "at least so many in these pulls" and "so
   many took at most these pulls", are one event of the game. *)
LuckIsOneEvent ==
  start = [pity |-> 0, guaranteed |-> FALSE] =>
    \A featured \in BOOLEAN, count \in 1 .. 3 :
      count <= budget =>
        LET reached == {s \in DOMAIN game : Number(s, featured) >= count}
        IN  /\ Same(Summary(budget, count, featured), InGame(reached))
            /\ Same(Acquisition(count, budget, featured), InGame(reached))

(* In the planner's range lie at least nine tenths of the games. *)
RangeHolds ==
  \A featured \in BOOLEAN : \A plan \in {Planner(budget, featured)} :
    LET inside == {s \in DOMAIN game : Number(s, featured) \in plan.low .. plan.high}
        some == {s \in DOMAIN game : Number(s, featured) >= 1}
    IN  /\ 10 * InGame(inside)[1] >= 9 * InGame(inside)[2]
        /\ Same(<<plan.atLeastOne, Sum(plan.dist)>>, InGame(some))

(* The wins among 50/50s are those of as many independent throws. *)
WinsAreThrows ==
  \A trials \in 1 .. 3, wins \in 0 .. 3 :
    LET throws == {t \in SUBSET (1 .. trials) : Cardinality(t) >= wins}
        of(t) == [i \in 1 .. trials |-> IF i \in t THEN p.p ELSE Parts - p.p]
        weight == [t \in throws |-> FoldFunction(LAMBDA x, y : x * y, 1, of(t))]
    IN  wins <= trials => Same(Wins(p, wins, trials), <<Weight(weight, throws), Parts ^ trials>>)
=============================================================================
