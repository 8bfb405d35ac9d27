---------------------------- MODULE SourceOrder ----------------------------
(***************************************************************************)
(* How the snapshots of one history become one list of pulls with pity:    *)
(* merge_source_order (backend/database.py) and mergeSourceOrder           *)
(* (local/engine.ts), the occurrences of identical records, the observed   *)
(* adjacency (backend/coverage.py) and the pity count.  Snapshots list the *)
(* newest pull first; identical pulls cannot be told apart.                *)
(***************************************************************************)
EXTENDS Naturals, FiniteSets, SequencesExt

CONSTANTS Times, Items, Elite,
          MaxPulls, MaxSnapshots

VARIABLES truth,      \* every pull ever made, newest first
          snapshots   \* what was imported: sequences of [key, page]

vars == <<truth, snapshots>>

Key(pull) == <<pull.time, pull.item>>

-----------------------------------------------------------------------------
(* One order of the pulls of a timestamp *)

(* Mutant of MergeOrder: what follows the last known one is left out. *)
MergeAnchored(existing, incoming) ==
  LET step(acc, token) ==
        IF Contains(existing, token)
        THEN LET i == CHOOSE i \in DOMAIN acc.merged : acc.merged[i] = token
             IN  [merged |-> SubSeq(acc.merged, 1, i - 1) \o acc.pending
                             \o SubSeq(acc.merged, i, Len(acc.merged)),
                  pending |-> <<>>]
        ELSE [acc EXCEPT !.pending = Append(@, token)]
      done == FoldLeft(step, [merged |-> existing, pending |-> <<>>], incoming)
  IN  IF ToSet(existing) \subseteq ToSet(incoming) THEN incoming
      ELSE done.merged

(* New occurrences go before the next known one they were listed with. *)
MergeOrder(existing, incoming) ==
  LET step(acc, token) ==
        IF Contains(existing, token)
        THEN LET i == CHOOSE i \in DOMAIN acc.merged : acc.merged[i] = token
             IN  [merged |-> SubSeq(acc.merged, 1, i - 1) \o acc.pending
                             \o SubSeq(acc.merged, i, Len(acc.merged)),
                  pending |-> <<>>]
        ELSE [acc EXCEPT !.pending = Append(@, token)]
      done == FoldLeft(step, [merged |-> existing, pending |-> <<>>], incoming)
  IN  IF ToSet(existing) \subseteq ToSet(incoming) THEN incoming
      ELSE done.merged \o done.pending

-----------------------------------------------------------------------------
(* Occurrences: the nth copy of a record in a snapshot, from the newest *)

Identity(s, i) == <<s[i].key, Cardinality({j \in 1 .. i : s[j].key = s[i].key})>>
Identities(s) == [i \in DOMAIN s |-> Identity(s, i)]
OfTime(ids, t) == SelectSeq(ids, LAMBDA id : id[1][1] = t)

(* The order of each timestamp after all the imports, and the whole history,
   newest first. *)
Group(t) ==
  FoldLeft(LAMBDA known, s : MergeOrder(known, OfTime(Identities(s), t)), <<>>, snapshots)

History ==
  FoldLeft(LAMBDA rows, t : rows \o Group(t), <<>>, SetToSortSeq(Times, >))

-----------------------------------------------------------------------------
(* Observed adjacency *)

(* Mutant of Distinct: identical pulls are told apart by their position. *)
AnyCopy(s, key) == TRUE

(* The copies of a record are known apart only in a snapshot with all of them. *)
Distinct(s, key) ==
  Cardinality({i \in DOMAIN s : s[i].key = key})
    = Cardinality({i \in DOMAIN History : History[i][1] = key})

Edges ==
  UNION {{<<Identity(s, i - 1), Identity(s, i)>> :
            i \in {i \in 2 .. Len(s) :
                     /\ s[i].page - s[i - 1].page \in {0, 1}
                     /\ s[i - 1].key[1] >= s[i].key[1]
                     /\ Distinct(s, s[i - 1].key) /\ Distinct(s, s[i].key)}} :
         s \in ToSet(snapshots)}

(* Pity counts the pulls since the last Elite; it is certain from the first
   Elite on, as long as no gap is met.  (Code 395-401 also trusts a history
   that starts on the launch day: no pull of the model is that old.) *)
Annotated(rows) ==
  LET step(acc, i) ==
        LET row == rows[i]
            gap == i < Len(rows) /\ <<row, rows[i + 1]>> \notin Edges
            uncertain == acc.uncertain \/ gap
            elite == row[1][2] = Elite
        IN  [count |-> IF elite THEN 0 ELSE acc.count + 1,
             uncertain |-> IF elite THEN FALSE ELSE uncertain,
             out |-> acc.out \cup {[row |-> row, pity |-> acc.count + 1, uncertain |-> uncertain]}]
  IN  FoldRight(LAMBDA i, acc : step(acc, i),
                [i \in DOMAIN rows |-> i],
                [count |-> 0, uncertain |-> TRUE, out |-> {}]).out

-----------------------------------------------------------------------------
(* Imports of one history: a listing starts at the newest pull of its time (the
   pulls of one timestamp appear in the service together), may be cut at its
   older end and may lack a page. *)

Listings ==
  LET starts == {a \in DOMAIN truth : a = 1 \/ truth[a - 1].time > truth[a].time}
      window(a, b) == [i \in 1 .. b - a + 1 |-> [key |-> Key(truth[a + i - 1]), page |-> i]]
      whole == UNION {{window(a, b) : b \in a .. Len(truth)} : a \in starts}
  IN  whole \cup UNION {{RemoveAt(w, i) : i \in {i \in DOMAIN w : Len(w) > 1}} : w \in whole}

Init ==
  /\ \E n \in 1 .. MaxPulls :
       truth \in {p \in [1 .. n -> [time : Times, item : Items]] :
                    \A i \in 2 .. n : p[i - 1].time >= p[i].time}
  /\ snapshots = <<>>

Import ==
  /\ Len(snapshots) < MaxSnapshots
  /\ \E s \in Listings : snapshots' = Append(snapshots, s)
  /\ UNCHANGED truth

Next == Import

Spec == Init /\ [][Next]_vars

-----------------------------------------------------------------------------
TruePity(i) ==
  1 + Cardinality({j \in i + 1 .. Len(truth) :
                     \A k \in i + 1 .. j : truth[k].item # Elite})

(* However the imports overlap, repeat or are cut, every pull is counted once:
   a record occurs as often as in the fullest snapshot of it. *)
CountedOnce ==
  LET seen(s, k) == Cardinality({i \in DOMAIN s : s[i].key = k})
      most(k) == Max({0} \cup {seen(snapshots[n], k) : n \in DOMAIN snapshots})
      rows(k) == {i \in DOMAIN History : History[i][1] = k}
  IN  \A time \in Times, item \in Items :
        Cardinality(rows(<<time, item>>)) = most(<<time, item>>)

(* A pity shown as certain is the pity of such a pull: no gap of the imports,
   no copy taken for another and no wrong order shortens it, once some import
   lists all the copies of each record (they cannot be counted otherwise). *)
CertainPityIsTrue ==
  LET copies(s, k) == Cardinality({i \in DOMAIN s : s[i].key = k})
      all(k) == Cardinality({i \in DOMAIN truth : Key(truth[i]) = k})
      told == \A i \in DOMAIN History :
                \E s \in ToSet(snapshots) : copies(s, History[i][1]) = all(History[i][1])
  IN  told => \A a \in Annotated(History) :
        \/ a.uncertain
        \/ \E i \in DOMAIN truth : Key(truth[i]) = a.row[1] /\ TruePity(i) = a.pity

=============================================================================
