------------------------------ MODULE Portable ------------------------------
(***************************************************************************)
(* The portable archive as a value, and the pure functions of the browser  *)
(* client that compute one archive from another: the engine's operations,  *)
(* the device exclusions, validation, and the reconciliation that a backup *)
(* restore and a Drive sync apply.                                         *)
(*                                                                         *)
(* A profile is its set of identifiers (canonical identifier and aliases), *)
(* its complete game identity or NoIdent, and the set of its source        *)
(* snapshots.  `label' stands for the display data a user edits in place   *)
(* (profile names, portable settings): one value per archive.              *)
(* Timestamps, partial identities and size limits are abstracted away.     *)
(***************************************************************************)
EXTENDS Naturals, FiniteSets

CONSTANTS Ids,        \* profile identifiers (UUIDs)
          Idents,     \* complete game identities
          NoIdent,    \* an identity that is not complete
          Snaps,      \* source snapshots, named by their digests
          SnapIdent,  \* the identity each snapshot carries
          Labels,     \* values of the display data
          NoLabel     \* display data never set

ASSUME IdentAssumption ==
  /\ NoIdent \notin Idents
  /\ NoLabel \notin Labels
  /\ SnapIdent \in [Snaps -> Idents \cup {NoIdent}]

(* A record has at least the identifier it was made with. *)
Named == (SUBSET Ids) \ {{}}

Profile == [ids : Named, ident : Idents \cup {NoIdent}, snaps : SUBSET Snaps]

(* A synced deletion and a device exclusion hold identifiers only. *)
Deletion == [ids : Named, ident : Idents \cup {NoIdent}]

State == [profiles : SUBSET Profile, tombs : SUBSET Deletion,
          label : Labels \cup {NoLabel}]

EmptyState == [profiles |-> {}, tombs |-> {}, label |-> NoLabel]

IdsOf(things) == UNION {x.ids : x \in things}
IdentsOf(things) == {x.ident : x \in things} \ {NoIdent}
SnapsOf(st) == UNION {p.snaps : p \in st.profiles}

(* Two records denote the same profile: a shared identifier, or the same
   complete identity.  NoIdent never matches. *)
Matches(a, b) ==
  \/ a.ids \cap b.ids # {}
  \/ a.ident # NoIdent /\ a.ident = b.ident

(***************************************************************************)
(* validateState                                                           *)
(***************************************************************************)
Valid(st) ==
  /\ \A p, q \in st.profiles : p # q => ~Matches(p, q)
  /\ \A p \in st.profiles : \A s \in p.snaps : SnapIdent[s] \in {NoIdent, p.ident}
  /\ \A p \in st.profiles, d \in st.tombs : ~Matches(p, d)
  /\ \A c, d \in st.tombs : c # d => c.ids \cap d.ids = {}

(***************************************************************************)
(* Operations of the engine.  Each gives the set of its results: empty     *)
(* when the operation throws.                                              *)
(***************************************************************************)
Created(st, id) ==
  [st EXCEPT !.profiles = @ \cup {[ids |-> {id}, ident |-> NoIdent, snaps |-> {}]}]

Bound(p, s) == [p EXCEPT !.ident = IF SnapIdent[s] = NoIdent THEN @ ELSE SnapIdent[s]]

Imported(st, p, s) ==
  LET bound == Bound(p, s)
  IN  IF /\ NoIdent \in {p.ident, SnapIdent[s]} \/ p.ident = SnapIdent[s]
         /\ \A d \in st.tombs : ~Matches(bound, d)
         /\ \A q \in st.profiles \ {p} : q.ident = NoIdent \/ q.ident # bound.ident
      THEN IF s \in p.snaps
           THEN {st}
           ELSE {[st EXCEPT !.profiles =
                    (@ \ {p}) \cup {[bound EXCEPT !.snaps = @ \cup {s}]}]}
      ELSE {}

DeletedEverywhere(st, p) ==
  [st EXCEPT !.profiles = @ \ {p},
             !.tombs = {d \in @ : d.ids \cap p.ids = {}}
                         \cup {[ids |-> p.ids, ident |-> p.ident]}]

Replaced(st) == {x \in {st} : Valid(x)}

Collapse(ps) ==
  [ids   |-> IdsOf(ps),
   ident |-> IF IdentsOf(ps) = {} THEN NoIdent ELSE CHOOSE i \in IdentsOf(ps) : TRUE,
   snaps |-> UNION {p.snaps : p \in ps}]

CollapseDeletions(ds) ==
  [ids   |-> IdsOf(ds),
   ident |-> IF IdentsOf(ds) = {} THEN NoIdent ELSE CHOOSE i \in IdentsOf(ds) : TRUE]

(* mergeState: a deletion on one side and a live profile on the other, two
   identities for one profile, or one incoming item for two local ones, throw. *)
Partners(x, set) == {y \in set : Matches(x, y)}

Merged(st, incoming) ==
  [profiles |-> {Collapse({p} \cup Partners(p, incoming.profiles)) : p \in st.profiles}
                  \cup {p \in incoming.profiles : Partners(p, st.profiles) = {}},
   tombs    |-> {CollapseDeletions({d} \cup Partners(d, incoming.tombs)) : d \in st.tombs}
                  \cup {d \in incoming.tombs : Partners(d, st.tombs) = {}},
   label    |-> IF st.label = NoLabel THEN incoming.label ELSE st.label]

Fusible(set, news) ==
  /\ \A x \in news : Cardinality(Partners(x, set)) <= 1
  /\ \A x \in set : Cardinality(IdentsOf({x} \cup Partners(x, news))) <= 1

MergedStates(st, incoming) ==
  IF /\ Valid(incoming)
     /\ \A p \in st.profiles, d \in incoming.tombs : ~Matches(p, d)
     /\ \A p \in incoming.profiles : \A d \in Merged(st, incoming).tombs : ~Matches(p, d)
     /\ Fusible(st.profiles, incoming.profiles)
     /\ Fusible(st.tombs, incoming.tombs)
  THEN Replaced(Merged(st, incoming))
  ELSE {}

(***************************************************************************)
(* Device exclusions                                                       *)
(***************************************************************************)
ApplyExclusions(st, ex) ==
  [st EXCEPT !.profiles = {p \in @ : \A e \in ex : ~Matches(p, e)}]

RestoreExclusions(ex, restored) ==
  {e \in ex : \A p \in restored.profiles : ~Matches(p, e)}

(* Throws (the empty set) when one exclusion would refer to two accounts. *)
Aliases(st, e) == {e} \cup {p \in st.profiles : Matches(p, e)}

RetainExclusionAliases(st, ex) ==
  IF \A e \in ex : Cardinality(IdentsOf(Aliases(st, e))) <= 1
  THEN {{CollapseDeletions(Aliases(st, e)) : e \in ex}}
  ELSE {}

ExclusionsWithout(ex, p) ==
  {e \in ex : ~Matches(p, e)} \cup {[ids |-> p.ids, ident |-> p.ident]}

(***************************************************************************)
(* reconcile, over every answer the user can give to its conflicts.  The   *)
(* merge base is empty, as it is for a backup, for a first sync and for    *)
(* heads without a common revision.                                        *)
(***************************************************************************)

(* The profiles that denote one account, transitively, across both sides. *)
Component(all, p) ==
  {q \in all : \A S \in SUBSET all :
     (p \in S /\ \A x \in S, y \in all : Matches(x, y) => y \in S) => q \in S}
Groups(st, incoming) ==
  LET all == st.profiles \cup incoming.profiles
  IN  {Component(all, p) : p \in all}

Incompatible(g) == Cardinality(IdentsOf(g)) > 1

(* What is merged into one profile: a group, or each profile of the side
   chosen for a group that mixes identities. *)
Units(st, incoming, g, side) ==
  IF ~Incompatible(g)
  THEN {[left |-> g \cap st.profiles, right |-> g \cap incoming.profiles]}
  ELSE IF side = "local"
       THEN {[left |-> {p}, right |-> {}] : p \in g \cap st.profiles}
       ELSE {[left |-> {}, right |-> {p}] : p \in g \cap incoming.profiles}

DeletionsOf(st, u) ==
  {d \in st.tombs : \E p \in u.left \cup u.right : Matches(p, d)}
UnitDeletions(st, incoming, u) == DeletionsOf(st, u) \cup DeletionsOf(incoming, u)
UnitIds(st, incoming, u) ==
  IdsOf(u.left \cup u.right \cup UnitDeletions(st, incoming, u))
LiveSide(st, u) == IF DeletionsOf(st, u) # {} THEN u.right ELSE u.left

Contested(st, incoming) ==
  \/ \E g \in Groups(st, incoming) :
       \/ Incompatible(g)
       \/ \E u \in Units(st, incoming, g, "local") :
            UnitDeletions(st, incoming, u) # {} /\ LiveSide(st, u) # {}
  \/ st.label # incoming.label /\ NoLabel \notin {st.label, incoming.label}

(* Deletions that denote one account become one.  Where their aliases link two
   identities the code joins them or refuses the result, depending on their
   order; here they are joined. *)
MergeDeletions(ds) ==
  LET close(d) == {c \in ds : \A S \in SUBSET ds :
        (d \in S /\ \A x \in S, y \in ds : Matches(x, y) => y \in S) => c \in S}
  IN  {CollapseDeletions(close(d)) : d \in ds}

(* deletionMatches, for the identifiers and identities of a unit. *)
Hits(st, incoming, d, u) ==
  \/ d.ids \cap UnitIds(st, incoming, u) # {}
  \/ d.ident \in IdentsOf(u.left \cup u.right)

(* A deletion that wins learns the identifiers of what it deletes. *)
Grown(st, incoming, d, units) ==
  LET hit == {u \in units : UnitDeletions(st, incoming, u) # {} /\ Hits(st, incoming, d, u)}
      known == IdentsOf(UNION {u.left \cup u.right : u \in hit})
  IN  [ids   |-> d.ids \cup UNION {UnitIds(st, incoming, u) : u \in hit},
       ident |-> IF d.ident = NoIdent /\ Cardinality(known) = 1
                 THEN CHOOSE i \in known : TRUE ELSE d.ident]

(* `kept' are the units with a deletion for which the user keeps the profile. *)
Resolved(st, incoming, units, kept, label) ==
  [profiles |->
     {Collapse(u.left \cup u.right) :
        u \in {v \in units : UnitDeletions(st, incoming, v) = {}}}
       \cup {[Collapse(LiveSide(st, u)) EXCEPT !.ids = UnitIds(st, incoming, u)] : u \in kept},
   tombs |->
     MergeDeletions({Grown(st, incoming, d, units \ kept) :
       d \in {e \in st.tombs \cup incoming.tombs :
                \A u \in kept : ~Hits(st, incoming, e, u)}}),
   label |-> label]

MergedLabels(st, incoming) ==
  IF NoLabel \in {st.label, incoming.label}
  THEN {IF st.label = NoLabel THEN incoming.label ELSE st.label}
  ELSE {st.label, incoming.label}

AllUnits(st, incoming, sides) ==
  UNION {Units(st, incoming, g, sides[g]) : g \in Groups(st, incoming)}

Doubtful(st, incoming, units) ==
  {u \in units : UnitDeletions(st, incoming, u) # {} /\ LiveSide(st, u) # {}}

Reconciliations(st, incoming) ==
  UNION {LET units == AllUnits(st, incoming, sides)
         IN  {Resolved(st, incoming, units, kept, label) :
                kept \in SUBSET Doubtful(st, incoming, units),
                label \in MergedLabels(st, incoming)}
           : sides \in [Groups(st, incoming) -> {"local", "remote"}]}

(* prepareBackupRestore: the states a restore can end in, given the choice
   between replacing the archive and merging into it. *)
Prepared(st, incoming, replace) ==
  IF replace THEN {incoming} ELSE Reconciliations(st, incoming)

=============================================================================
