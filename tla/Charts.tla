------------------------------- MODULE Charts -------------------------------
(***************************************************************************)
(* The charts of the statistics (statistics/charts.ts): which outcomes of  *)
(* a distribution are drawn, in which bars, which bars are shaded as the   *)
(* event that a probability is quoted for, and how observed intervals are  *)
(* tallied.  Weights are whole numbers; an observation is given in halves, *)
(* since an average lies between outcomes.  Drawing is left out.           *)
(***************************************************************************)
EXTENDS Integers, FiniteSets, SequencesExt

CONSTANTS Weights, MaxOutcome,   \* bounds of the model
          Intervals, Ends,       \* sequences of intervals; lengths asked of the axis
          Halves,                \* observations, in halves
          Complete,              \* supports this small are drawn whole
          OneIn,                  \* one part in OneIn is cut at each end
          Columns,               \* the bars aimed at
          Group,                 \* pulls tallied in a bar
          None

VARIABLES asked, chart

vars == <<asked, chart>>

Total(f, S) == FoldFunctionOnSet(LAMBDA x, y : x + y, 0, f, S)
Mass(d) == Total(d, DOMAIN d)
Support(d) == {i \in DOMAIN d : d[i] > 0}
ValidPmf(d) == d # None /\ Mass(d) > 0

Step == {1, 2, 5, 10, 20, 50, 100}

(* The round number at or above n / d, at least 1. *)
NiceStep(n, d) == Min({s \in Step : s * d >= n})

Quantile(d, part, whole) ==
  Min({i \in DOMAIN d : Total(d, {j \in DOMAIN d : j <= i}) * whole >= part * Mass(d)})

-----------------------------------------------------------------------------
(* distributionBins *)

Floor(halves) == halves \div 2
Ceiling(halves) == (halves + 1) \div 2

Observing(a) == ~a.planner /\ a.observation # None

InEvent(a, from, to) ==
  Observing(a) /\ IF a.direction = "upper" THEN 2 * from >= a.observation ELSE 2 * to <= a.observation

(* The outcomes drawn: whole if few, else without the tails, and then with the
   observation. *)
Window(a) ==
  LET d == a.dist
      first == Min(Support(d))
      last == Max(Support(d))
      small == last - first + 1 <= Complete
      lo == IF small THEN first ELSE Quantile(d, 1, OneIn)
      hi == IF small THEN last ELSE Quantile(d, OneIn - 1, OneIn)
      inside == Observing(a) /\ a.observation \in 2 * first .. 2 * last
  IN  IF inside THEN <<Min({lo, Floor(a.observation)}), Max({hi, Ceiling(a.observation)})>>
      ELSE <<lo, hi>>

(* Mutant of Cuts: an observation cuts a bar once. *)
CutsOnce(a, start, end) ==
  {start, end + 1}
    \cup IF Observing(a) THEN {c \in {Floor(a.observation) + 1} : c > start /\ c <= end} ELSE {}

(* Where the bars of one step begin, and its end: an observation cuts it, so
   that no bar is half in the event. *)
Cuts(a, start, end) ==
  {start, end + 1}
    \cup IF Observing(a)
         THEN {c \in {Floor(a.observation) + 1, Ceiling(a.observation)} : c > start /\ c <= end}
         ELSE {}

Bar(a, from, to) ==
  [lo |-> from, hi |-> to, mass |-> Total(a.dist, from .. to), event |-> InEvent(a, from, to),
   observed |-> Observing(a) /\ 2 * from = a.observation /\ 2 * to = a.observation]

Drawn(a) ==
  LET lo == Window(a)[1]
      hi == Window(a)[2]
      step == NiceStep(hi - lo + 1, Columns)
      end(start) == Min({hi, start + step - 1})
      bars(start) == {Bar(a, from, Min({c \in Cuts(a, start, end(start)) : c > from}) - 1) :
                        from \in Cuts(a, start, end(start)) \ {end(start) + 1}}
  IN  [bins |-> UNION {bars(start) : start \in {s \in lo .. hi : (s - lo) % step = 0}},
       lo |-> lo, hi |-> hi,
       event |-> Total(a.dist, {i \in DOMAIN a.dist : InEvent(a, i, i)}),
       below |-> Total(a.dist, {i \in DOMAIN a.dist : i < lo}),
       above |-> Total(a.dist, {i \in DOMAIN a.dist : i > hi}),
       central |-> <<Quantile(a.dist, 1, 20), Quantile(a.dist, 19, 20)>>]

-----------------------------------------------------------------------------
(* xTicks, niceTicks *)

XTicks(lo, hi, ends) ==
  LET step == NiceStep(hi - lo, 4)
      round == {n \in lo .. hi : n % step = 0}
      apart(n) == n > lo /\ (n - lo) * 100 >= (hi - lo) * 15 /\ (hi - n) * 100 >= (hi - lo) * 15
  IN  IF lo = hi THEN {lo}
      ELSE IF ends THEN {lo, hi} \cup {n \in round : apart(n)}
      ELSE round

(* The scale of counts, up to the first round step at or above the highest. *)
Ticks(highest) ==
  LET step == NiceStep(highest, 4)
  IN  {n \in 0 .. highest + step : n % step = 0 /\ n - step < Max({highest, 1})}

-----------------------------------------------------------------------------
(* observedBins: a value that is no interval is 0 here. *)

Tallied(a) ==
  LET values == SelectSeq(a.intervals, LAMBDA x : x >= 1)
      end == Max({IF a.max > 0 THEN a.max ELSE 1} \cup ToSet(values))
      count(from, to) == Cardinality({i \in DOMAIN values : values[i] \in from .. to})
      bin(lo) ==
        LET hi == Min({end, lo + Group - 1})
        IN  [lo |-> lo, hi |-> hi, count |-> count(lo, hi),
             expected |-> IF ValidPmf(a.dist)
                          THEN Total(a.dist, {i \in DOMAIN a.dist : i \in lo .. hi}) * Len(values)
                          ELSE None]
  IN  [bins |-> {bin(lo) : lo \in {n \in 1 .. end : (n - 1) % Group = 0}},
       hi |-> end, n |-> Len(values)]

-----------------------------------------------------------------------------
Unavailable == [bins |-> {}]

Dists == [0 .. MaxOutcome -> Weights]

Distribution ==
  /\ chart = None /\ asked.kind = "distribution"
  /\ chart' = IF ValidPmf(asked.dist) THEN Drawn(asked) ELSE Unavailable
  /\ UNCHANGED asked

Observed ==
  /\ chart = None /\ asked.kind = "observed"
  /\ chart' = IF Tallied(asked).n = 0 THEN Unavailable ELSE Tallied(asked)
  /\ UNCHANGED asked

Init ==
  /\ chart = None
  /\ \/ asked \in [kind : {"distribution"}, dist : Dists, observation : Halves \cup {None},
                   direction : {"lower", "upper"}, planner : BOOLEAN]
     \/ asked \in [kind : {"observed"}, dist : {None, [i \in 0 .. MaxOutcome |-> i]},
                   intervals : Intervals, max : Ends]

Next == Distribution \/ Observed

Spec == Init /\ [][Next]_vars

-----------------------------------------------------------------------------
Shown(kind) == chart \notin {None, Unavailable} /\ asked.kind = kind
Outcomes(bin) == bin.lo .. bin.hi

(* The bars cover the drawn outcomes once, and with the two tails that a note
   gives, their areas are the whole distribution. *)
BarsAreTheWhole ==
  Shown("distribution") =>
    /\ UNION {Outcomes(b) : b \in chart.bins} = chart.lo .. chart.hi
    /\ \A b, c \in chart.bins : b # c => Outcomes(b) \cap Outcomes(c) = {}
    /\ Total([b \in chart.bins |-> b.mass], chart.bins) + chart.below + chart.above
         = Mass(asked.dist)

(* The shaded bars are the event the probability is quoted for: none is half
   in it, and if the observed value can occur it is drawn, in a bar of its own.
   With the tail on its side, their areas are that probability. *)
ShadedIsTheEvent ==
  Shown("distribution") /\ Observing(asked) =>
    LET shaded == {b \in chart.bins : b.event}
        area == Total([b \in shaded |-> b.mass], shaded)
        possible == asked.observation \in 2 * Min(Support(asked.dist)) .. 2 * Max(Support(asked.dist))
    IN  /\ \A b \in chart.bins : \A i \in Outcomes(b) : b.event = InEvent(asked, i, i)
        /\ possible => chart.event = area + (IF asked.direction = "upper" THEN chart.above ELSE chart.below)
        /\ possible /\ asked.observation % 2 = 0 =>
             Cardinality({b \in chart.bins : b.observed}) = 1

(* Every observed interval is in one bar, also those beyond the end that was
   asked; the outline drawn over them is the model's share of as many; and the
   labels stay on the axis and above the bars. *)
TallyIsWhole ==
  /\ Shown("observed") =>
       LET counts == [b \in chart.bins |-> b.count]
           highest == Max({b.count : b \in chart.bins})
       IN  /\ Total(counts, chart.bins) = Cardinality({i \in DOMAIN asked.intervals : asked.intervals[i] >= 1})
           /\ asked.dist # None =>
                Total([b \in chart.bins |-> b.expected], chart.bins)
                  = chart.n * Total(asked.dist, {i \in DOMAIN asked.dist : i \in 1 .. chart.hi})
           /\ Max(Ticks(highest)) >= highest
           /\ {1, chart.hi} \subseteq XTicks(1, chart.hi, TRUE)
  /\ Shown("distribution") => XTicks(chart.lo, chart.hi, FALSE) # {}
=============================================================================
