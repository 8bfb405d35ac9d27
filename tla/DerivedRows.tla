---------------------------- MODULE DerivedRows ----------------------------
(***************************************************************************)
(* The rows and the queries that the engine of an archive worker keeps for *)
(* each profile (LocalEngine): a mutation works on a fork of the engine    *)
(* that takes them over, another tab changes the stored archive under the  *)
(* cached engine, and profiles change their canonical identifier when sync *)
(* merges them.  What is built from a profile depends on its host and on   *)
(* its snapshots, in their order; it stands for the rows here.             *)
(***************************************************************************)
EXTENDS Naturals, FiniteSets, SequencesExt, TLC

CONSTANTS Ids,       \* canonical identifiers of profiles
          Hosts, Snaps, None,
          Sequences, \* the sequences of snapshots that profiles have
          MaxChanges

Kinds == {"rows", "rewards", "statistics"}

VARIABLES disk,      \* the stored archive: a profile by its identifier
          engine,    \* the cached engine: its state, and what it built
          changes

vars == <<disk, engine, changes>>

(* The host of a profile is not known before a snapshot names it. *)
Profile == [host : Hosts \cup {None}, snaps : Sequences]
States == UNION {[ids -> Profile] : ids \in SUBSET Ids}

Nothing == [k \in Kinds |-> <<>>]

-----------------------------------------------------------------------------
(* A build is what the rows, or a query over them, were made from. *)

Without(built, ids) ==
  [k \in Kinds |-> [id \in DOMAIN built[k] \ ids |-> built[k][id]]]

SameDerived(p, q) == p.host = q.host /\ p.snaps = q.snaps

(* Mutants of Retained: the host, or the order of the snapshots, is left out. *)
RetainedByDigests(built, previous, next) ==
  Without(built, {id \in DOMAIN previous :
                    id \notin DOMAIN next \/ ToSet(previous[id].snaps) # ToSet(next[id].snaps)})
RetainedByLength(built, previous, next) ==
  Without(built, {id \in DOMAIN previous :
                    \/ id \notin DOMAIN next
                    \/ previous[id].host # next[id].host
                    \/ Len(previous[id].snaps) # Len(next[id].snaps)})

(* retainDerivedCaches *)
Retained(built, previous, next) ==
  Without(built, {id \in DOMAIN previous :
                    id \notin DOMAIN next \/ ~SameDerived(previous[id], next[id])})

Fork(e, st) == [state |-> st, built |-> Retained(e.built, e.state, st)]

(* rows, and the queries that are made of them *)
Built(e, id, kind) ==
  LET kept == e.built["rows"] @@ (id :> e.state[id])
  IN  IF id \in DOMAIN e.built[kind] THEN e
      ELSE [e EXCEPT !.built["rows"] = kept, !.built[kind] = (id :> kept[id]) @@ @]

-----------------------------------------------------------------------------
(* Operations of the engine on its state; each gives the engine after it. *)

Importing(e, id, s, host) ==
  LET before == Built(e, id, "rows")
      p == e.state[id]
  IN  IF Contains(p.snaps, s) THEN before
      ELSE Built([state |-> [e.state EXCEPT ![id] = [host |-> host, snaps |-> Append(p.snaps, s)]],
                  built |-> Without(before.built, {id})], id, "rows")

Deleting(e, id) ==
  [state |-> [i \in DOMAIN e.state \ {id} |-> e.state[i]], built |-> Without(e.built, {id})]

(* replaceState: a restore, a merge, or what sync wrote. *)
Replacing(e, st) == [state |-> st, built |-> Retained(e.built, e.state, st)]

Mutations(e) ==
  UNION {{Importing(e, id, s, h) :
            s \in Snaps, h \in IF e.state[id].host = None THEN Hosts ELSE {e.state[id].host}} :
         id \in DOMAIN e.state}
    \cup {Deleting(e, id) : id \in DOMAIN e.state}
    \cup {Replacing(e, st) : st \in States}

-----------------------------------------------------------------------------
(* The worker: every request reads the stored archive first (archive); a
   mutation is written, or it fails and its fork is dropped. *)

Current == IF engine.state = disk THEN engine ELSE Fork(engine, disk)

Query ==
  /\ \E id \in DOMAIN disk, kind \in Kinds : engine' = Built(Current, id, kind)
  /\ UNCHANGED <<disk, changes>>

Mutate ==
  /\ changes < MaxChanges
  /\ \E after \in Mutations(Fork(Current, Current.state)) :
       /\ after.state \in States
       /\ \/ disk' = after.state /\ engine' = after
          \/ disk' = disk /\ engine' = Current
  /\ changes' = changes + 1

(* Another tab writes. *)
Elsewhere ==
  /\ changes < MaxChanges
  /\ disk' \in States
  /\ changes' = changes + 1
  /\ UNCHANGED engine

Init ==
  /\ LET first(S) == CHOOSE x \in S : TRUE  \* they are all alike
     IN  disk = first(Ids) :> [host |-> first(Hosts), snaps |-> first(Sequences)]
  /\ engine = [state |-> disk, built |-> Nothing]
  /\ changes = 0

Next == Query \/ Mutate \/ Elsewhere

Spec == Init /\ [][Next]_vars

-----------------------------------------------------------------------------
(* What a profile's figures are answered from is built of that profile as it
   is stored, whatever was forked, dropped, merged, restored or deleted and
   came back, and the three caches agree. *)
BuiltOfWhatIsStored ==
  \A k \in Kinds : \A id \in DOMAIN Current.built[k] :
    id \in DOMAIN disk /\ Current.built[k][id] = disk[id]
=============================================================================
