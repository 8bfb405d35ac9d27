---------------------------- MODULE ArchiveProofs ----------------------------
(***************************************************************************)
(* The atomic archive store never holds an archive that fails its own      *)
(* validation.  The browser archive is coherent across tabs and implements *)
(* that store, for any number of tabs, identifiers, snapshots and backups, *)
(* with and without Web Locks.                                             *)
(***************************************************************************)
EXTENDS Archive, FiniteSetTheorems, TLAPS

-----------------------------------------------------------------------------
(***************************************************************************)
(* Every operation on portable archives gives a portable archive           *)
(***************************************************************************)

(* Merging records of profiles and deletions keeps identifiers only. *)
LEMMA CollapseDeletionsType ==
  ASSUME NEW ds \in SUBSET (Profile \cup Deletion), ds # {}
  PROVE  CollapseDeletions(ds) \in Deletion
<1>1. IdsOf(ds) \in Named
  BY DEF IdsOf, Profile, Deletion, Named
<1>2. IdentsOf(ds) \subseteq Idents
  BY DEF IdentsOf, Profile, Deletion
<1>3. IdentsOf(ds) # {} => (CHOOSE i \in IdentsOf(ds) : TRUE) \in Idents
  BY <1>2
<1> QED
  BY <1>1, <1>3 DEF CollapseDeletions, Deletion

(* Merging profiles gives a profile. *)
LEMMA CollapseType ==
  ASSUME NEW ps \in SUBSET Profile, ps # {}
  PROVE  Collapse(ps) \in Profile
<1>1. IdsOf(ps) \in Named
  BY DEF IdsOf, Profile, Named
<1>2. IdentsOf(ps) \subseteq Idents
  BY DEF IdentsOf, Profile
<1>3. IdentsOf(ps) # {} => (CHOOSE i \in IdentsOf(ps) : TRUE) \in Idents
  BY <1>2
<1>4. UNION {p.snaps : p \in ps} \subseteq Snaps
  BY DEF Profile
<1> QED
  BY <1>1, <1>3, <1>4 DEF Collapse, Profile

(* The engine's operations. *)
LEMMA CreatedType ==
  ASSUME NEW st \in State, NEW id \in Ids
  PROVE  Created(st, id) \in State
BY DEF Created, State, Profile, Named

LEMMA EditedType ==
  ASSUME NEW st \in State, NEW l \in Labels
  PROVE  [st EXCEPT !.label = l] \in State
BY DEF State

LEMMA ImportedType ==
  ASSUME NEW st \in State, NEW p \in st.profiles, NEW s \in Snaps,
         NEW new \in Imported(st, p, s)
  PROVE  new \in State
<1>1. p \in Profile
  BY DEF State
<1>2. Bound(p, s) \in Profile
  BY <1>1, IdentAssumption DEF Bound, Profile
<1> DEFINE grown == [Bound(p, s) EXCEPT !.snaps = @ \cup {s}]
<1>3. grown \in Profile
  BY <1>2 DEF Profile
<1>4. \/ new = st
      \/ new = [st EXCEPT !.profiles = (@ \ {p}) \cup {grown}]
  BY Zenon DEF Imported
<1> HIDE DEF grown
<1> QED
  BY <1>3, <1>4 DEF State

LEMMA DeletedEverywhereType ==
  ASSUME NEW st \in State, NEW p \in st.profiles
  PROVE  DeletedEverywhere(st, p) \in State
<1>1. [ids |-> p.ids, ident |-> p.ident] \in Deletion
  BY DEF State, Profile, Deletion
<1> QED
  BY <1>1 DEF DeletedEverywhere, State

LEMMA MergedStatesType ==
  ASSUME NEW st \in State, NEW incoming \in State,
         NEW new \in MergedStates(st, incoming)
  PROVE  new \in State
<1>1. new = Merged(st, incoming)
  BY DEF MergedStates, Replaced
<1>2. ASSUME NEW p \in st.profiles
      PROVE  Collapse({p} \cup Partners(p, incoming.profiles)) \in Profile
  BY CollapseType DEF Partners, State
<1>3. ASSUME NEW d \in st.tombs
      PROVE  CollapseDeletions({d} \cup Partners(d, incoming.tombs)) \in Deletion
  BY CollapseDeletionsType DEF Partners, State
<1> DEFINE profiles ==
             {Collapse({p} \cup Partners(p, incoming.profiles)) : p \in st.profiles}
               \cup {p \in incoming.profiles : Partners(p, st.profiles) = {}}
           tombs ==
             {CollapseDeletions({d} \cup Partners(d, incoming.tombs)) : d \in st.tombs}
               \cup {d \in incoming.tombs : Partners(d, st.tombs) = {}}
           label == IF st.label = NoLabel THEN incoming.label ELSE st.label
<1>4. profiles \in SUBSET Profile
  BY <1>2 DEF State
<1>5. tombs \in SUBSET Deletion
  BY <1>3 DEF State
<1>6. label \in Labels \cup {NoLabel}
  BY DEF State
<1>7. Merged(st, incoming) = [profiles |-> profiles, tombs |-> tombs, label |-> label]
  BY DEF Merged
<1> HIDE DEF profiles, tombs, label
<1> QED
  BY <1>1, <1>4, <1>5, <1>6, <1>7 DEF State

(* Device exclusions. *)
LEMMA ApplyExclusionsType ==
  ASSUME NEW st \in State, NEW ex
  PROVE  ApplyExclusions(st, ex) \in State
BY DEF ApplyExclusions, State

LEMMA RestoreExclusionsType ==
  ASSUME NEW ex \in SUBSET Deletion, NEW st
  PROVE  RestoreExclusions(ex, st) \in SUBSET Deletion
BY DEF RestoreExclusions

LEMMA ExclusionsWithoutType ==
  ASSUME NEW ex \in SUBSET Deletion, NEW p \in Profile
  PROVE  ExclusionsWithout(ex, p) \in SUBSET Deletion
BY DEF ExclusionsWithout, Profile, Deletion

LEMMA RetainExclusionAliasesType ==
  ASSUME NEW st \in State, NEW ex \in SUBSET Deletion,
         NEW new \in RetainExclusionAliases(st, ex)
  PROVE  new \in SUBSET Deletion
<1>1. ASSUME NEW e \in ex
      PROVE  CollapseDeletions(Aliases(st, e)) \in Deletion
  BY CollapseDeletionsType DEF Aliases, State
<1>2. new = {CollapseDeletions(Aliases(st, e)) : e \in ex}
  BY DEF RetainExclusionAliases
<1> QED
  BY <1>1, <1>2

(***************************************************************************)
(* Reconciliation                                                          *)
(***************************************************************************)
Unit ==
  {u \in [left : SUBSET Profile, right : SUBSET Profile] : u.left \cup u.right # {}}

LEMMA UnitsType ==
  ASSUME NEW st \in State, NEW incoming \in State, NEW side, NEW g, g # {},
         g \subseteq st.profiles \cup incoming.profiles
  PROVE  Units(st, incoming, g, side) \in SUBSET Unit
BY DEF Units, Unit, State

LEMMA AllUnitsType ==
  ASSUME NEW st \in State, NEW incoming \in State, NEW sides
  PROVE  AllUnits(st, incoming, sides) \in SUBSET Unit
<1>1. ASSUME NEW g \in Groups(st, incoming)
      PROVE  g # {} /\ g \subseteq st.profiles \cup incoming.profiles
  BY DEF Groups, Component
<1>2. ASSUME NEW g \in Groups(st, incoming)
      PROVE  Units(st, incoming, g, sides[g]) \in SUBSET Unit
  BY <1>1, UnitsType
<1> QED
  BY <1>2 DEF AllUnits

LEMMA UnitIdsType ==
  ASSUME NEW st \in State, NEW incoming \in State, NEW u \in Unit
  PROVE  UnitIds(st, incoming, u) \in Named
<1>1. UnitDeletions(st, incoming, u) \in SUBSET Deletion
  BY DEF UnitDeletions, DeletionsOf, State
<1> QED
  BY <1>1 DEF UnitIds, IdsOf, Unit, Profile, Deletion, Named

LEMMA GrownType ==
  ASSUME NEW st \in State, NEW incoming \in State, NEW d \in Deletion,
         NEW units \in SUBSET Unit
  PROVE  Grown(st, incoming, d, units) \in Deletion
<1> DEFINE hit == {u \in units : UnitDeletions(st, incoming, u) # {}
                                 /\ Hits(st, incoming, d, u)}
           known == IdentsOf(UNION {u.left \cup u.right : u \in hit})
           ids == d.ids \cup UNION {UnitIds(st, incoming, u) : u \in hit}
           ident == IF d.ident = NoIdent /\ Cardinality(known) = 1
                    THEN CHOOSE i \in known : TRUE ELSE d.ident
<1>1. known \in SUBSET Idents
  BY DEF IdentsOf, Unit, Profile
<1>2. ids \in Named
  BY UnitIdsType DEF Deletion, Named
<1>3. ident \in Idents \cup {NoIdent}
  <2>1. CASE known = {}
    <3>1. Cardinality(known) = 0
      BY <2>1, FS_EmptySet, Zenon
    <3> QED
      BY <3>1 DEF Deletion
  <2>2. CASE known # {}
    <3>1. (CHOOSE i \in known : TRUE) \in Idents
      BY <1>1, <2>2
    <3> QED
      BY <3>1 DEF Deletion
  <2> QED
    BY <2>1, <2>2
<1>4. Grown(st, incoming, d, units) = [ids |-> ids, ident |-> ident]
  BY DEF Grown
<1> HIDE DEF hit, known, ids, ident
<1> QED
  BY <1>2, <1>3, <1>4 DEF Deletion

LEMMA MergeDeletionsType ==
  ASSUME NEW ds \in SUBSET Deletion
  PROVE  MergeDeletions(ds) \in SUBSET Deletion
BY CollapseDeletionsType DEF MergeDeletions

LEMMA ReconciliationsType ==
  ASSUME NEW st \in State, NEW incoming \in State,
         NEW new \in Reconciliations(st, incoming)
  PROVE  new \in State
<1>1. PICK sides \in [Groups(st, incoming) -> {"local", "remote"}] :
        \E kept \in SUBSET Doubtful(st, incoming, AllUnits(st, incoming, sides)),
           label \in MergedLabels(st, incoming) :
          new = Resolved(st, incoming, AllUnits(st, incoming, sides), kept, label)
  BY DEF Reconciliations
<1> DEFINE units == AllUnits(st, incoming, sides)
<1>2. PICK kept \in SUBSET Doubtful(st, incoming, units),
           label \in MergedLabels(st, incoming) :
        new = Resolved(st, incoming, units, kept, label)
  BY <1>1
<1>3. units \in SUBSET Unit
  BY AllUnitsType
<1> HIDE DEF units
<1>4. kept \in SUBSET Unit
  BY <1>2, <1>3 DEF Doubtful
<1>5. label \in Labels \cup {NoLabel}
  BY <1>2 DEF MergedLabels, State
<1> DEFINE plain == {Collapse(u.left \cup u.right) :
                       u \in {v \in units : UnitDeletions(st, incoming, v) = {}}}
           saved == {[Collapse(LiveSide(st, u)) EXCEPT !.ids = UnitIds(st, incoming, u)]
                       : u \in kept}
           grown == {Grown(st, incoming, d, units \ kept) :
                       d \in {e \in st.tombs \cup incoming.tombs :
                                \A u \in kept : ~Hits(st, incoming, e, u)}}
<1>6. plain \in SUBSET Profile
  BY <1>3, CollapseType DEF Unit
<1>7. saved \in SUBSET Profile
  <2>1. ASSUME NEW u \in kept
        PROVE  [Collapse(LiveSide(st, u)) EXCEPT !.ids = UnitIds(st, incoming, u)] \in Profile
    <3>1. u \in Unit
      BY <1>4
    <3>2. Collapse(LiveSide(st, u)) \in Profile
      BY <1>2, <3>1, CollapseType DEF Doubtful, LiveSide, Unit
    <3>3. UnitIds(st, incoming, u) \in Named
      BY <3>1, UnitIdsType
    <3> QED
      BY <3>2, <3>3 DEF Profile
  <2> QED
    BY <2>1
<1>8. grown \in SUBSET Deletion
  <2>1. units \ kept \in SUBSET Unit
    BY <1>3
  <2> QED
    BY <2>1, GrownType DEF State
<1>9. MergeDeletions(grown) \in SUBSET Deletion
  BY <1>8, MergeDeletionsType
<1>10. new = [profiles |-> plain \cup saved, tombs |-> MergeDeletions(grown),
              label |-> label]
  BY <1>2 DEF Resolved
<1> HIDE DEF plain, saved, grown
<1> QED
  BY <1>5, <1>6, <1>7, <1>9, <1>10 DEF State

LEMMA PreparedType ==
  ASSUME NEW st \in State, NEW incoming \in State, NEW replace \in BOOLEAN,
         NEW new \in Prepared(st, incoming, replace)
  PROVE  new \in State
BY ReconciliationsType DEF Prepared

(***************************************************************************)
(* The store                                                               *)
(***************************************************************************)

StoreTypeOK ==
  /\ state \in State
  /\ exclusions \in SUBSET Deletion
  /\ recovery \in State \cup {None}

(***************************************************************************)
(* The operations that do not validate their result keep it valid          *)
(***************************************************************************)
LEMMA CreatedValid ==
  ASSUME NEW st \in State, Valid(st), NEW id \in Ids,
         id \notin IdsOf(st.profiles \cup st.tombs)
  PROVE  Valid(Created(st, id))
<1> DEFINE new == [ids |-> {id}, ident |-> NoIdent, snaps |-> {}]
<1>1. \A x \in st.profiles \cup st.tombs : id \notin x.ids
  BY DEF IdsOf
<1>2. new.ids = {id} /\ new.ident = NoIdent /\ new.snaps = {}
  OBVIOUS
<1>3. /\ Created(st, id).profiles = st.profiles \cup {new}
      /\ Created(st, id).tombs = st.tombs
  BY DEF Created, State
<1> HIDE DEF new
<1>4. \A x \in st.profiles \cup st.tombs : ~Matches(new, x) /\ ~Matches(x, new)
  BY <1>1, <1>2 DEF Matches
<1> QED
  BY <1>2, <1>3, <1>4 DEF Valid

LEMMA ImportedValid ==
  ASSUME NEW st \in State, Valid(st), NEW p \in st.profiles, NEW s \in Snaps,
         NEW new \in Imported(st, p, s)
  PROVE  Valid(new)
<1> DEFINE bound == Bound(p, s)
           grown == [bound EXCEPT !.snaps = @ \cup {s}]
<1>1. p \in Profile
  BY DEF State
<1>2. /\ bound \in Profile /\ bound.ids = p.ids /\ bound.snaps = p.snaps
      /\ bound.ident = IF SnapIdent[s] = NoIdent THEN p.ident ELSE SnapIdent[s]
  BY <1>1, IdentAssumption DEF Bound, Profile
<1>3. CASE new = st
  BY <1>3
<1>4. CASE new # st
  <2>1. /\ NoIdent \in {p.ident, SnapIdent[s]} \/ p.ident = SnapIdent[s]
        /\ \A d \in st.tombs : ~Matches(bound, d)
        /\ \A q \in st.profiles \ {p} : q.ident = NoIdent \/ q.ident # bound.ident
        /\ new = [st EXCEPT !.profiles = (@ \ {p}) \cup {grown}]
    BY <1>4, Zenon DEF Imported
  <2>2. new.profiles = (st.profiles \ {p}) \cup {grown} /\ new.tombs = st.tombs
    BY <2>1 DEF State
  <2>3. /\ grown.ids = p.ids /\ grown.ident = bound.ident
        /\ grown.snaps = p.snaps \cup {s}
    BY <1>2 DEF Profile
  <2> HIDE DEF bound, grown
  <2>4. \A q \in st.profiles \ {p} : ~Matches(grown, q) /\ ~Matches(q, grown)
    BY <2>1, <2>3 DEF Valid, Matches
  <2>5. \A d \in st.tombs : ~Matches(grown, d)
    BY <1>2, <2>1, <2>3 DEF Matches
  <2>6. \A x \in grown.snaps : SnapIdent[x] \in {NoIdent, grown.ident}
    BY <1>2, <2>1, <2>3 DEF Valid
  <2> QED
    BY <2>2, <2>4, <2>5, <2>6 DEF Valid
<1> QED
  BY <1>3, <1>4

LEMMA DeletedEverywhereValid ==
  ASSUME NEW st \in State, Valid(st), NEW p \in st.profiles
  PROVE  Valid(DeletedEverywhere(st, p))
<1> DEFINE gone == [ids |-> p.ids, ident |-> p.ident]
<1>1. gone.ids = p.ids /\ gone.ident = p.ident
  OBVIOUS
<1>2. /\ DeletedEverywhere(st, p).profiles = st.profiles \ {p}
      /\ DeletedEverywhere(st, p).tombs = {d \in st.tombs : d.ids \cap p.ids = {}} \cup {gone}
  BY DEF DeletedEverywhere, State
<1> HIDE DEF gone
<1>3. \A q \in st.profiles \ {p} : ~Matches(q, gone)
  BY <1>1 DEF Valid, Matches
<1> QED
  BY <1>1, <1>2, <1>3 DEF Valid

LEMMA FilteredValid ==
  ASSUME NEW st \in State, Valid(st), NEW ex
  PROVE  Valid(ApplyExclusions(st, ex))
<1>1. /\ ApplyExclusions(st, ex).profiles \subseteq st.profiles
      /\ ApplyExclusions(st, ex).tombs = st.tombs
  BY DEF ApplyExclusions, State
<1> QED
  BY <1>1 DEF Valid

(***************************************************************************)
(* Every operation                                                         *)
(***************************************************************************)
SInv == StoreTypeOK /\ Valid(state)

LEMMA OperationKeeps ==
  ASSUME NEW st \in State, Valid(st), NEW ex \in SUBSET Deletion,
         NEW rec \in State \cup {None}, Become(st, ex, rec)
  PROVE  SInv'
BY DEF Become, SInv, StoreTypeOK

LEMMA PurgedType ==
  ASSUME NEW rec \in State \cup {None}, NEW ex
  PROVE  Purged(rec, ex) \in State \cup {None}
BY ApplyExclusionsType DEF Purged

LEMMA StoreKeeps ==
  ASSUME SInv, StoreNext
  PROVE  SInv'
<1> USE DEF SInv, StoreTypeOK
<1>1. CASE StoreCreate
  <2>1. PICK id \in Ids \ IdsOf(state.profiles \cup state.tombs \cup exclusions) :
          Become(Created(state, id), exclusions, recovery)
    BY <1>1 DEF StoreCreate
  <2>2. id \notin IdsOf(state.profiles \cup state.tombs)
    BY <2>1 DEF IdsOf
  <2> QED
    BY <2>1, <2>2, CreatedType, CreatedValid, OperationKeeps
<1>2. CASE StoreEdit
  <2>1. PICK l \in Labels : Become([state EXCEPT !.label = l], exclusions, recovery)
    BY <1>2 DEF StoreEdit
  <2>2. Valid([state EXCEPT !.label = l])
    BY DEF Valid, State
  <2> QED
    BY <2>1, <2>2, EditedType, OperationKeeps
<1>3. CASE StoreImport
  BY <1>3, ImportedType, ImportedValid, RestoreExclusionsType, OperationKeeps DEF StoreImport
<1>4. CASE StoreDeleteEverywhere
  BY <1>4, DeletedEverywhereType, DeletedEverywhereValid, PurgedType, OperationKeeps
  DEF StoreDeleteEverywhere
<1>5. CASE StoreDeleteFromDevice
  <2>1. PICK p \in state.profiles :
          \E ex \in {ExclusionsWithout(exclusions, p)} :
            Become(ApplyExclusions(state, ex), ex, Purged(recovery, ex))
    BY <1>5 DEF StoreDeleteFromDevice
  <2> DEFINE ex == ExclusionsWithout(exclusions, p)
  <2>2. Become(ApplyExclusions(state, ex), ex, Purged(recovery, ex))
    BY <2>1
  <2>3. ex \in SUBSET Deletion
    BY ExclusionsWithoutType DEF State
  <2> HIDE DEF ex
  <2> QED
    BY <2>2, <2>3, ApplyExclusionsType, FilteredValid, PurgedType, OperationKeeps
<1>6. CASE StoreMerge
  <2>1. PICK in \in Incoming : \E st \in MergedStates(state, in) :
          Become(st, RestoreExclusions(exclusions, in), recovery)
    BY <1>6 DEF StoreMerge
  <2>2. \A st \in MergedStates(state, in) : st \in State /\ Valid(st)
    BY MergedStatesType, StoreAssumption DEF MergedStates, Replaced
  <2> QED
    BY <2>1, <2>2, RestoreExclusionsType, OperationKeeps
<1>7. CASE StoreReplace
  BY <1>7, RestoreExclusionsType, OperationKeeps, StoreAssumption DEF StoreReplace, Replaced
<1>8. CASE StoreRestore
  <2>1. PICK in \in Incoming, replace \in BOOLEAN :
          \E prepared \in Prepared(state, in, replace) : \E st \in Replaced(prepared) :
            Become(st, RestoreExclusions(exclusions, in), state)
    BY <1>8 DEF StoreRestore
  <2>2. PICK st \in Prepared(state, in, replace) :
          Valid(st) /\ Become(st, RestoreExclusions(exclusions, in), state)
    BY <2>1 DEF Replaced
  <2>3. st \in State
    BY PreparedType, StoreAssumption
  <2> QED
    BY <2>2, <2>3, RestoreExclusionsType, OperationKeeps
<1>9. CASE StoreSync
  <2>1. PICK in \in Incoming : \E merged \in Reconciliations(state, in) :
          \E st \in Replaced(merged) : \E ex \in RetainExclusionAliases(st, exclusions) :
            Become(ApplyExclusions(st, ex), ex, state)
    BY <1>9 DEF StoreSync
  <2>2. PICK st \in Reconciliations(state, in) :
          /\ Valid(st)
          /\ \E ex \in RetainExclusionAliases(st, exclusions) :
               Become(ApplyExclusions(st, ex), ex, state)
    BY <2>1 DEF Replaced
  <2>3. st \in State
    BY ReconciliationsType, StoreAssumption
  <2>4. PICK ex \in RetainExclusionAliases(st, exclusions) :
          Become(ApplyExclusions(st, ex), ex, state)
    BY <2>2
  <2>5. ex \in SUBSET Deletion
    BY <2>3, RetainExclusionAliasesType
  <2>6. ApplyExclusions(st, ex) \in State /\ Valid(ApplyExclusions(st, ex))
    BY <2>2, <2>3, ApplyExclusionsType, FilteredValid
  <2> QED
    BY <2>4, <2>5, <2>6, OperationKeeps
<1> QED
  BY <1>1, <1>2, <1>3, <1>4, <1>5, <1>6, <1>7, <1>8, <1>9 DEF StoreNext

(* No sequence of operations leaves an archive that fails validateState. *)
THEOREM StoreStaysValid == StoreSpec => []Valid(state)
<1>1. StoreInit => SInv
  BY StoreAssumption DEF StoreInit, SInv, StoreTypeOK
<1>2. SInv /\ [StoreNext]_storeVars => SInv'
  <2>1. SInv /\ StoreNext => SInv'
    BY StoreKeeps
  <2>2. SInv /\ UNCHANGED storeVars => SInv'
    BY DEF SInv, StoreTypeOK, storeVars
  <2> QED
    BY <2>1, <2>2
<1>3. SInv => Valid(state)
  BY DEF SInv
<1> QED
  BY <1>1, <1>2, <1>3, PTL DEF StoreSpec

(***************************************************************************)
(* Nothing is lost                                                         *)
(***************************************************************************)

(* Every snapshot of a profile is still there, in the recovery copy, or went
   with a profile that a deletion or a device removal names. *)
Kept ==
  \A p \in state.profiles : \A s \in p.snaps \ SnapsOf(state') :
    \/ recovery' # None /\ s \in SnapsOf(recovery')
    \/ \E x \in state'.tombs \cup exclusions' : Matches(p, x)

(* A profile and a record with its names denote the same profile. *)
LEMMA OwnName ==
  ASSUME NEW p \in Profile, NEW x, x.ids = p.ids
  PROVE  Matches(p, x)
BY DEF Matches, Profile, Named

LEMMA ImportedHolds ==
  ASSUME NEW st \in State, NEW p \in st.profiles, NEW s \in Snaps,
         NEW new \in Imported(st, p, s)
  PROVE  SnapsOf(st) \subseteq SnapsOf(new)
<1>1. p \in Profile /\ Bound(p, s) \in Profile /\ Bound(p, s).snaps = p.snaps
  BY IdentAssumption DEF State, Bound, Profile
<1> DEFINE grown == [Bound(p, s) EXCEPT !.snaps = @ \cup {s}]
<1>2. grown.snaps = p.snaps \cup {s}
  BY <1>1 DEF Profile
<1>3. \/ new = st
      \/ new = [st EXCEPT !.profiles = (@ \ {p}) \cup {grown}]
  BY Zenon DEF Imported
<1> HIDE DEF grown
<1>4. CASE new = [st EXCEPT !.profiles = (@ \ {p}) \cup {grown}]
  <2>1. new.profiles = (st.profiles \ {p}) \cup {grown}
    BY <1>4 DEF State
  <2> QED
    BY <1>2, <2>1 DEF SnapsOf
<1> QED
  BY <1>3, <1>4

LEMMA MergedHolds ==
  ASSUME NEW st, NEW incoming, NEW new \in MergedStates(st, incoming)
  PROVE  SnapsOf(st) \subseteq SnapsOf(new)
<1>1. new = Merged(st, incoming)
  BY DEF MergedStates, Replaced
<1>2. ASSUME NEW p \in st.profiles
      PROVE  \E q \in new.profiles : p.snaps \subseteq q.snaps
  <2> DEFINE q == Collapse({p} \cup Partners(p, incoming.profiles))
  <2>1. q \in new.profiles
    BY <1>1 DEF Merged
  <2>2. p.snaps \subseteq q.snaps
    BY DEF Collapse
  <2> QED
    BY <2>1, <2>2
<1> QED
  BY <1>2 DEF SnapsOf

LEMMA StoreLosesNothing ==
  ASSUME StoreTypeOK, StoreNext
  PROVE  Kept
<1> USE DEF StoreTypeOK
<1>1. ASSUME SnapsOf(state) \subseteq SnapsOf(state') PROVE Kept
  BY <1>1 DEF Kept, SnapsOf
<1>2. ASSUME recovery' = state PROVE Kept
  <2>1. recovery' # None
    BY <1>2, StoreAssumption
  <2> QED
    BY <1>2, <2>1 DEF Kept, SnapsOf
<1>3. CASE StoreCreate
  BY <1>1, <1>3 DEF StoreCreate, Created, Become, SnapsOf, State
<1>4. CASE StoreEdit
  BY <1>1, <1>4 DEF StoreEdit, Become, SnapsOf, State
<1>5. CASE StoreImport
  BY <1>1, <1>5, ImportedHolds DEF StoreImport, Become
<1>6. CASE StoreDeleteEverywhere
  <2>1. PICK p \in state.profiles : state' = DeletedEverywhere(state, p)
    BY <1>6 DEF StoreDeleteEverywhere, Become
  <2> DEFINE gone == [ids |-> p.ids, ident |-> p.ident]
  <2>2. state'.profiles = state.profiles \ {p} /\ gone \in state'.tombs
    BY <2>1 DEF DeletedEverywhere, State
  <2>3. Matches(p, gone)
    BY OwnName DEF State
  <2> QED
    BY <2>2, <2>3 DEF Kept, SnapsOf
<1>7. CASE StoreDeleteFromDevice
  <2>1. state' = ApplyExclusions(state, exclusions')
    BY <1>7 DEF StoreDeleteFromDevice, Become
  <2>2. state'.profiles = {p \in state.profiles : \A e \in exclusions' : ~Matches(p, e)}
    BY <2>1 DEF ApplyExclusions, State
  <2> QED
    BY <2>2 DEF Kept, SnapsOf
<1>8. CASE StoreMerge
  BY <1>1, <1>8, MergedHolds DEF StoreMerge, Become
<1>9. CASE StoreReplace \/ StoreRestore \/ StoreSync
  BY <1>2, <1>9 DEF StoreReplace, StoreRestore, StoreSync, Become
<1> QED
  BY <1>3, <1>4, <1>5, <1>6, <1>7, <1>8, <1>9 DEF StoreNext

(***************************************************************************)
(* What was removed from this device stays out of it                       *)
(***************************************************************************)
Hidden(st, ex) == \A p \in st.profiles, e \in ex : ~Matches(p, e)

(* A profile merged from others is known by their names only. *)
LEMMA CollapseMatches ==
  ASSUME NEW ps, NEW e, Matches(Collapse(ps), e)
  PROVE  \E p \in ps : Matches(p, e)
<1>1. CASE Collapse(ps).ids \cap e.ids # {}
  BY <1>1 DEF Collapse, IdsOf, Matches
<1>2. CASE Collapse(ps).ident # NoIdent /\ Collapse(ps).ident = e.ident
  <2>1. Collapse(ps).ident \in IdentsOf(ps)
    BY <1>2 DEF Collapse
  <2> QED
    BY <1>2, <2>1 DEF IdentsOf, Matches
<1> QED
  BY <1>1, <1>2 DEF Matches

(* The operations that commit no review. *)
StoreUnreviewed ==
  \/ StoreCreate \/ StoreEdit \/ StoreImport
  \/ StoreDeleteEverywhere \/ StoreDeleteFromDevice
  \/ StoreMerge \/ StoreReplace \/ StoreSync

(* A review may keep a profile under an identifier that only a deletion knew;
   no other operation gives a profile a name that is excluded here. *)
LEMMA HiddenStays ==
  ASSUME StoreTypeOK, Hidden(state, exclusions), StoreUnreviewed
  PROVE  Hidden(state', exclusions')
<1> USE DEF StoreTypeOK
<1>1. CASE StoreCreate
  <2>1. PICK id \in Ids \ IdsOf(state.profiles \cup state.tombs \cup exclusions) :
          Become(Created(state, id), exclusions, recovery)
    BY <1>1 DEF StoreCreate
  <2> DEFINE new == [ids |-> {id}, ident |-> NoIdent, snaps |-> {}]
  <2>2. state'.profiles = state.profiles \cup {new} /\ exclusions' = exclusions
    BY <2>1 DEF Become, Created, State
  <2>3. new.ids = {id} /\ new.ident = NoIdent
    OBVIOUS
  <2> HIDE DEF new
  <2>4. \A e \in exclusions : ~Matches(new, e)
    BY <2>1, <2>3 DEF IdsOf, Matches
  <2> QED
    BY <2>2, <2>4 DEF Hidden
<1>2. CASE StoreEdit \/ StoreDeleteEverywhere
  <2>1. state'.profiles \subseteq state.profiles /\ exclusions' = exclusions
    BY <1>2 DEF StoreEdit, StoreDeleteEverywhere, DeletedEverywhere, Become, State
  <2> QED
    BY <2>1 DEF Hidden
<1>3. CASE StoreImport \/ StoreReplace
  BY <1>3 DEF StoreImport, StoreReplace, Replaced, Become, RestoreExclusions, Hidden
<1>4. CASE StoreDeleteFromDevice \/ StoreSync
  <2>1. PICK st \in State : state' = ApplyExclusions(st, exclusions')
    <3>1. CASE StoreDeleteFromDevice
      BY <3>1 DEF StoreDeleteFromDevice, Become
    <3>2. CASE StoreSync
      BY <3>2, ReconciliationsType, StoreAssumption DEF StoreSync, Replaced, Become
    <3> QED
      BY <1>4, <3>1, <3>2
  <2> QED
    BY <2>1 DEF ApplyExclusions, State, Hidden
<1>5. CASE StoreMerge
  <2>1. PICK in \in Incoming : /\ state' \in MergedStates(state, in)
                               /\ exclusions' = RestoreExclusions(exclusions, in)
    BY <1>5 DEF StoreMerge, Become
  <2>2. state' = Merged(state, in)
    BY <2>1 DEF MergedStates, Replaced
  <2>3. ASSUME NEW e \in exclusions', NEW p \in state.profiles \cup in.profiles
        PROVE  ~Matches(p, e)
    BY <2>1, <2>3 DEF Hidden, RestoreExclusions
  <2>4. ASSUME NEW e \in exclusions', NEW q \in state'.profiles
        PROVE  ~Matches(q, e)
    <3>1. CASE q \in in.profiles
      BY <2>3, <3>1
    <3>2. CASE \E p \in state.profiles : q = Collapse({p} \cup Partners(p, in.profiles))
      BY <2>3, <3>2, CollapseMatches DEF Partners
    <3> QED
      BY <2>2, <3>1, <3>2 DEF Merged
  <2> QED
    BY <2>4 DEF Hidden
<1> QED
  BY <1>1, <1>2, <1>3, <1>4, <1>5 DEF StoreUnreviewed

(***************************************************************************)
(* A deletion reaches the recovery copy                                    *)
(***************************************************************************)

(* The profiles that a deletion takes are gone from the recovery copy: the one
   it was asked for always, and where nothing excluded is in the archive there
   are no others. *)
Purges(p) == \A q \in recovery'.profiles : ~Matches(p, q)

LEMMA DeletionPurges ==
  ASSUME SInv, StoreDeleteEverywhere \/ StoreDeleteFromDevice, recovery' # None,
         NEW p \in state.profiles \ state'.profiles,
         \A e \in exclusions : ~Matches(p, e)
  PROVE  Purges(p)
<1> USE DEF SInv, StoreTypeOK
<1>1. CASE StoreDeleteEverywhere
  <2>1. PICK x \in state.profiles :
          Become(DeletedEverywhere(state, x), exclusions, Purged(recovery, {x}))
    BY <1>1 DEF StoreDeleteEverywhere
  <2>2. p = x
    BY <2>1 DEF Become, DeletedEverywhere, State
  <2>3. recovery \in State /\ recovery' = ApplyExclusions(recovery, {x})
    BY <2>1 DEF Become, Purged
  <2>4. \A q \in recovery'.profiles : ~Matches(q, x)
    BY <2>3 DEF ApplyExclusions, State
  <2> QED
    BY <2>2, <2>4 DEF Purges, Matches
<1>2. CASE StoreDeleteFromDevice
  <2>1. PICK x \in state.profiles :
          LET ex == ExclusionsWithout(exclusions, x)
          IN  Become(ApplyExclusions(state, ex), ex, Purged(recovery, ex))
    BY <1>2 DEF StoreDeleteFromDevice
  <2> DEFINE gone == [ids |-> x.ids, ident |-> x.ident]
             ex == ExclusionsWithout(exclusions, x)
  <2>2. recovery \in State /\ recovery' = ApplyExclusions(recovery, ex)
    BY <2>1 DEF Become, Purged
  <2>3. \A q \in recovery'.profiles : ~Matches(q, gone)
    BY <2>2 DEF ApplyExclusions, State, ExclusionsWithout
  <2>4. p = x
    <3>1. \E e \in ex : Matches(p, e)
      BY <2>1 DEF Become, ApplyExclusions, State
    <3>2. Matches(p, gone)
      BY <3>1 DEF ExclusionsWithout
    <3>3. Matches(p, x)
      BY <3>2 DEF Matches
    <3> QED
      BY <3>3 DEF Valid
  <2> QED
    BY <2>3, <2>4 DEF Purges, Matches
<1> QED
  BY <1>1, <1>2

-----------------------------------------------------------------------------
(* A call computes on a cached archive only after it has one. *)
Loaded == \A t \in Tabs : pc[t] \in {"warm", "purging"} => cached[t] # None

(* A call was made at a revision already written. *)
AskedBefore == \A t \in Tabs : asked[t] <= revision

IInv ==
  /\ TypeOK
  /\ Loaded
  /\ AskedBefore
  /\ CacheCoherent
  /\ CommitBasis
  /\ FreshReads

LEMMA InitIInv == Init => IInv
<1> SUFFICES ASSUME Init PROVE IInv
  OBVIOUS
<1>1. TypeOK
  BY StoreAssumption, ArchiveAssumption DEF Init, TypeOK
<1>2. Loaded /\ AskedBefore /\ CacheCoherent /\ CommitBasis /\ FreshReads
  BY DEF Init, Loaded, AskedBefore, CacheCoherent, CommitBasis, FreshReads
<1> QED
  BY <1>1, <1>2 DEF IInv

(***************************************************************************)
(* The two ways a call can finish: with a guarded write, or without one    *)
(***************************************************************************)

(* What a write finds and leaves: the guard makes the cached archive the
   stored one. *)
LEMMA WriteFinds ==
  ASSUME IInv, NEW t \in Tabs, cached[t] # None, NEW st, NEW ex, NEW rec,
         Write(t, st, ex, rec)
  PROVE  /\ cached[t].state = state /\ cached[t].exclusions = exclusions
         /\ cached[t].revision = revision
         /\ state' = st /\ exclusions' = ex /\ recovery' = rec
         /\ revision' = revision + 1
BY DEF IInv, CacheCoherent, Write

LEMMA WriteKeeps ==
  ASSUME IInv, NEW t \in Tabs, NEW st \in State, NEW ex \in SUBSET Deletion,
         NEW rec \in State \cup {None}, Write(t, st, ex, rec),
         preview' \in {preview, [preview EXCEPT ![t] = None]},
         exported' \in {exported, [exported EXCEPT ![t] = None]}
  PROVE  IInv'
<1> DEFINE new == [state |-> st, exclusions |-> ex, revision |-> revision + 1]
<1>1. TypeOK
  BY DEF IInv
<1>2. new \in Stored /\ new # None
  <2>1. new \in Stored
    BY <1>1 DEF TypeOK, Stored
  <2> QED
    BY <2>1, StoreAssumption, ArchiveAssumption
<1>3. /\ revision' = revision + 1 /\ revision' \in Nat
      /\ revision \in Nat
      /\ cached' = [cached EXCEPT ![t] = new]
      /\ state' = st /\ exclusions' = ex
  BY <1>1 DEF Write, TypeOK
<1>4. /\ new.revision = revision + 1 /\ new.state = st /\ new.exclusions = ex
  OBVIOUS
<1> HIDE DEF new
<1>5. TypeOK'
  BY <1>1, <1>2, <1>3 DEF TypeOK, Write, End
<1>6. \A u \in Tabs : cached[u] # None => cached[u].revision \in Nat
  BY <1>1 DEF TypeOK, Stored
<1>7. \A u \in Tabs : preview[u] # None => preview[u].revision \in Nat
  BY <1>1 DEF TypeOK, Preview
<1>8. Loaded'
  BY <1>1, <1>2, <1>3 DEF IInv, Loaded, TypeOK, Write, End
<1>9. AskedBefore'
  BY <1>1, <1>3 DEF IInv, AskedBefore, TypeOK, Write, End
<1>10. CacheCoherent'
  <2> SUFFICES ASSUME NEW u \in Tabs, cached'[u] # None
               PROVE  /\ cached'[u].revision <= revision'
                      /\ cached'[u].revision = revision' =>
                           cached'[u].state = state' /\ cached'[u].exclusions = exclusions'
    BY DEF CacheCoherent
  <2>1. CASE u = t
    BY <1>1, <1>3, <1>4, <2>1 DEF TypeOK
  <2>2. CASE u # t
    <3>1. cached'[u] = cached[u]
      BY <1>1, <1>3, <2>2 DEF TypeOK
    <3>2. cached[u].revision <= revision /\ cached[u].revision \in Nat
      BY <1>6, <3>1 DEF IInv, CacheCoherent
    <3> QED
      BY <1>3, <3>1, <3>2
  <2> QED
    BY <2>1, <2>2
<1>11. CommitBasis'
  <2> SUFFICES ASSUME NEW u \in Tabs
               PROVE  /\ preview'[u] # None => preview'[u].revision < revision'
                      /\ pc'[u] = "purging" => cached'[u].revision < revision'
    BY <1>3, <1>5 DEF CommitBasis, TypeOK, Preview
  <2>1. preview'[u] # None => preview'[u] = preview[u]
    BY <1>1 DEF TypeOK
  <2>2. preview[u] # None => preview[u].revision <= revision
    BY DEF IInv, CommitBasis
  <2>3. preview'[u] # None => preview'[u].revision < revision'
    BY <1>3, <1>7, <2>1, <2>2
  <2>4. ASSUME pc'[u] = "purging"
        PROVE  cached'[u].revision < revision'
    <3>1. u # t /\ pc[u] = "purging"
      BY <1>1, <2>4 DEF TypeOK, Write, End
    <3>2. cached[u] # None
      BY <3>1 DEF IInv, Loaded
    <3>3. cached[u].revision <= revision /\ cached[u].revision \in Nat
      BY <1>6, <3>2 DEF IInv, CacheCoherent
    <3>4. cached'[u] = cached[u]
      BY <1>1, <1>3, <3>1 DEF TypeOK
    <3> QED
      BY <1>3, <3>3, <3>4
  <2> QED
    BY <2>3, <2>4
<1>12. FreshReads'
  BY <1>1, <1>3, <1>6 DEF IInv, FreshReads, TypeOK, Write, End
<1> QED
  BY <1>5, <1>8, <1>9, <1>10, <1>11, <1>12 DEF IInv

(* A call that writes nothing may leave a review of the archive it has read. *)
LEMMA AnswerKeeps ==
  ASSUME IInv, NEW t \in Tabs, UNCHANGED <<dbVars, cached>>, End(t),
         preview' \in [Tabs -> Preview \cup {None}],
         \A u \in Tabs \ {t} : preview'[u] = preview[u],
         \/ preview'[t] \in {preview[t], None}
         \/ /\ pc[t] = "warm"
            /\ preview'[t].revision = cached[t].revision
            /\ ~preview'[t].open =>
                 \E replace \in BOOLEAN :
                   preview'[t].state \in
                     Prepared(cached[t].state, preview'[t].incoming, replace),
         exported' \in [Tabs -> State \cup {None}]
  PROVE  IInv'
<1>1. TypeOK'
  BY DEF IInv, TypeOK, dbVars, End
<1>2. Loaded' /\ AskedBefore' /\ FreshReads'
  BY DEF IInv, TypeOK, Loaded, AskedBefore, FreshReads, dbVars, End
<1>3. CacheCoherent'
  BY DEF IInv, CacheCoherent, dbVars
<1>4. CommitBasis'
  <2> SUFFICES ASSUME NEW u \in Tabs
               PROVE  /\ preview'[u] # None =>
                           /\ preview'[u].revision <= revision
                           /\ preview'[u].revision = revision /\ ~preview'[u].open =>
                                \E replace \in BOOLEAN :
                                  preview'[u].state \in
                                    Prepared(state, preview'[u].incoming, replace)
                      /\ pc'[u] = "purging" /\ cached[u].revision = revision =>
                           oldRecovery'[u] = recovery
    BY DEF CommitBasis, dbVars
  <2>1. pc'[u] = "purging" /\ cached[u].revision = revision => oldRecovery'[u] = recovery
    BY DEF IInv, TypeOK, CommitBasis, End
  <2>2. CASE preview'[u] = preview[u]
    BY <2>1, <2>2 DEF IInv, CommitBasis
  <2>3. CASE preview'[u] = None
    BY <2>1, <2>3
  <2>4. CASE /\ u = t
             /\ pc[t] = "warm"
             /\ preview'[t].revision = cached[t].revision
             /\ ~preview'[t].open =>
                  \E replace \in BOOLEAN :
                    preview'[t].state \in
                      Prepared(cached[t].state, preview'[t].incoming, replace)
    <3>1. cached[t] # None
      BY <2>4 DEF IInv, Loaded
    <3>2. /\ cached[t].revision <= revision
          /\ cached[t].revision = revision => cached[t].state = state
      BY <3>1 DEF IInv, CacheCoherent
    <3> QED
      BY <2>1, <2>4, <3>2
  <2> QED
    BY <2>2, <2>3, <2>4
<1> QED
  BY <1>1, <1>2, <1>3, <1>4 DEF IInv

(***************************************************************************)
(* Every step of the archive                                               *)
(***************************************************************************)

(* What a call that computes has in hand. *)
LEMMA InHand ==
  ASSUME IInv, NEW t \in Tabs, pc[t] \in {"warm", "purging"}
  PROVE  /\ cached[t] # None
         /\ cached[t].state \in State
         /\ cached[t].exclusions \in SUBSET Deletion
         /\ cached[t].state.profiles \subseteq Profile
         /\ recovery \in State \cup {None}
         /\ oldRecovery[t] \in State \cup {None}
<1>1. cached[t] \in Stored
  BY DEF IInv, Loaded, TypeOK
<1> QED
  BY <1>1 DEF IInv, Loaded, TypeOK, Stored, State

LEMMA BeginKeeps ==
  ASSUME IInv, NEW t \in Tabs, NEW kind \in {"mutation", "read", "preview"},
         Begin(t, kind)
  PROVE  IInv'
<1>1. TypeOK'
  BY DEF IInv, TypeOK, Begin, dbVars
<1>2. Loaded'
  BY DEF IInv, TypeOK, Loaded, Begin, Fresh
<1>3. AskedBefore'
  BY DEF IInv, TypeOK, AskedBefore, Begin, dbVars
<1>4. CacheCoherent'
  BY DEF IInv, CacheCoherent, Begin, dbVars
<1>5. CommitBasis'
  BY DEF IInv, TypeOK, CommitBasis, Begin, dbVars
<1>6. FreshReads'
  BY DEF IInv, TypeOK, FreshReads, Begin, Fresh, dbVars
<1> QED
  BY <1>1, <1>2, <1>3, <1>4, <1>5, <1>6 DEF IInv

LEMMA ReadArchiveKeeps ==
  ASSUME IInv, NEW t \in Tabs, ReadArchive(t)
  PROVE  IInv'
<1> DEFINE read == [state |-> state, exclusions |-> exclusions, revision |-> revision]
<1>1. read \in Stored /\ read # None
  BY StoreAssumption, ArchiveAssumption DEF IInv, TypeOK, Stored
<1>2. /\ read.state = state /\ read.exclusions = exclusions /\ read.revision = revision
      /\ cached' = [cached EXCEPT ![t] = read]
      /\ UNCHANGED dbVars
  BY DEF ReadArchive
<1> HIDE DEF read
<1>3. TypeOK'
  BY <1>1, <1>2 DEF IInv, TypeOK, ReadArchive, dbVars
<1>4. Loaded'
  BY <1>1, <1>2 DEF IInv, TypeOK, Loaded, ReadArchive
<1>5. AskedBefore'
  BY <1>2 DEF IInv, AskedBefore, ReadArchive, dbVars
<1>6. CacheCoherent'
  BY <1>2 DEF IInv, TypeOK, CacheCoherent, dbVars
<1>7. CommitBasis'
  BY <1>2 DEF IInv, TypeOK, CommitBasis, ReadArchive, dbVars
<1>8. FreshReads'
  BY <1>2 DEF IInv, TypeOK, FreshReads, AskedBefore, ReadArchive
<1> QED
  BY <1>3, <1>4, <1>5, <1>6, <1>7, <1>8 DEF IInv

LEMMA ReadRecoveryKeeps ==
  ASSUME IInv, NEW t \in Tabs, ReadRecovery(t)
  PROVE  IInv'
<1>1. TypeOK'
  BY DEF IInv, TypeOK, ReadRecovery, dbVars
<1>2. Loaded' /\ AskedBefore' /\ CacheCoherent' /\ FreshReads'
  BY DEF IInv, TypeOK, Loaded, AskedBefore, CacheCoherent, FreshReads, ReadRecovery, dbVars
<1>3. CommitBasis'
  BY DEF IInv, TypeOK, CommitBasis, ReadRecovery, dbVars
<1> QED
  BY <1>1, <1>2, <1>3 DEF IInv

LEMMA CloseKeeps ==
  ASSUME IInv, NEW t \in Tabs, Close(t)
  PROVE  IInv'
<1>1. TypeOK'
  BY DEF IInv, TypeOK, Close, End, dbVars
<1>2. Loaded' /\ AskedBefore' /\ CacheCoherent' /\ FreshReads'
  BY DEF IInv, TypeOK, Loaded, AskedBefore, CacheCoherent, FreshReads, Close, End, dbVars
<1>3. CommitBasis'
  BY DEF IInv, TypeOK, CommitBasis, Close, End, dbVars
<1> QED
  BY <1>1, <1>2, <1>3 DEF IInv

LEMMA FinishKeeps ==
  ASSUME IInv, NEW t \in Tabs, Finish(t)
  PROVE  IInv'
<1> USE DEF Mutating
<1>0. preview \in [Tabs -> Preview \cup {None}] /\ exported \in [Tabs -> State \cup {None}]
  BY DEF IInv, TypeOK
<1>1. CASE CreateProfile(t)
  BY <1>1, InHand, CreatedType, WriteKeeps DEF CreateProfile
<1>2. CASE EditDisplay(t)
  BY <1>2, InHand, EditedType, WriteKeeps DEF EditDisplay
<1>3. CASE ImportRecords(t)
  BY <1>3, InHand, ImportedType, RestoreExclusionsType, WriteKeeps DEF ImportRecords
<1>4. CASE DeleteEverywhere(t)
  BY <1>4, InHand, DeletedEverywhereType, PurgedType, WriteKeeps DEF DeleteEverywhere
<1>5. CASE DeleteFromDevice(t)
  <2>1. PICK p \in cached[t].state.profiles :
        \E ex \in {ExclusionsWithout(cached[t].exclusions, p)} :
          Write(t, ApplyExclusions(cached[t].state, ex), ex, Purged(oldRecovery[t], ex))
    BY <1>5 DEF DeleteFromDevice
  <2> DEFINE ex == ExclusionsWithout(cached[t].exclusions, p)
  <2>2. Write(t, ApplyExclusions(cached[t].state, ex), ex, Purged(oldRecovery[t], ex))
    BY <2>1
  <2>3. ex \in SUBSET Deletion
    BY <1>5, InHand, ExclusionsWithoutType DEF DeleteFromDevice
  <2> HIDE DEF ex
  <2> QED
    BY <1>5, <2>2, <2>3, InHand, ApplyExclusionsType, PurgedType, WriteKeeps
    DEF DeleteFromDevice
<1>6. CASE MergeBackup(t)
  BY <1>6, InHand, MergedStatesType, RestoreExclusionsType, WriteKeeps, StoreAssumption, ArchiveAssumption
  DEF MergeBackup
<1>7. CASE ReplaceBackup(t)
  BY <1>7, InHand, RestoreExclusionsType, WriteKeeps, StoreAssumption, ArchiveAssumption
  DEF ReplaceBackup, Replaced
<1>8. CASE CommitBackup(t)
  <2>1. preview[t].state \in State
    BY <1>0, <1>8 DEF CommitBackup, Preview
  <2> QED
    BY <1>8, <2>1, InHand, RestoreExclusionsType, WriteKeeps DEF CommitBackup, Replaced
<1>9. CASE SyncReplace(t)
  <2>1. PICK in \in Incoming : \E merged \in Reconciliations(exported[t], in) :
          \E st \in Replaced(merged) : \E ex \in RetainExclusionAliases(st, cached[t].exclusions) :
            SyncWrite(t, ApplyExclusions(st, ex), ex)
    BY <1>9 DEF SyncReplace
  <2>2. PICK st \in Reconciliations(exported[t], in) :
          \E ex \in RetainExclusionAliases(st, cached[t].exclusions) :
            SyncWrite(t, ApplyExclusions(st, ex), ex)
    BY <2>1 DEF Replaced
  <2>3. PICK ex \in RetainExclusionAliases(st, cached[t].exclusions) :
          SyncWrite(t, ApplyExclusions(st, ex), ex)
    BY <2>2
  <2>4. exported[t] \in State
    BY <1>0, <1>9 DEF SyncReplace
  <2>5. st \in State
    BY <2>4, ReconciliationsType, StoreAssumption, ArchiveAssumption
  <2>6. ex \in SUBSET Deletion
    BY <1>9, <2>5, InHand, RetainExclusionAliasesType DEF SyncReplace
  <2>7. ApplyExclusions(st, ex) \in State
    BY <2>5, ApplyExclusionsType
  <2>8. CASE UNCHANGED <<dbVars, cached>> /\ End(t)
    BY <1>0, <1>9, <2>8, AnswerKeeps DEF SyncReplace
  <2>9. CASE Write(t, ApplyExclusions(st, ex), ex, cached[t].state)
    BY <1>9, <2>6, <2>7, <2>9, InHand, WriteKeeps DEF SyncReplace
  <2> QED
    BY <2>3, <2>8, <2>9 DEF SyncWrite
<1>10. CASE Reply(t)
  BY <1>0, <1>10, AnswerKeeps DEF Reply
<1>11. CASE ExportForSync(t)
  BY <1>0, <1>11, InHand, AnswerKeeps DEF ExportForSync
<1>12. CASE PreviewBackup(t)
  <2>1. cached[t].revision \in Nat
    BY <1>12, InHand DEF PreviewBackup, IInv, TypeOK, Stored
  <2>2. PICK in \in Incoming, replace \in BOOLEAN :
          \/ preview' = [preview EXCEPT ![t] =
               [state |-> cached[t].state, incoming |-> in,
                revision |-> cached[t].revision, open |-> TRUE]]
          \/ \E st \in Prepared(cached[t].state, in, replace) :
               preview' = [preview EXCEPT ![t] =
                 [state |-> st, incoming |-> in,
                  revision |-> cached[t].revision, open |-> FALSE]]
    BY <1>12 DEF PreviewBackup
  <2>3. CASE preview' = [preview EXCEPT ![t] =
               [state |-> cached[t].state, incoming |-> in,
                revision |-> cached[t].revision, open |-> TRUE]]
    <3>1. preview' \in [Tabs -> Preview \cup {None}]
      BY <1>0, <1>12, <2>1, <2>3, InHand DEF PreviewBackup, Preview
    <3> QED
      BY <1>0, <1>12, <2>3, <3>1, AnswerKeeps DEF PreviewBackup
  <2>4. ASSUME NEW st \in Prepared(cached[t].state, in, replace),
               preview' = [preview EXCEPT ![t] =
                 [state |-> st, incoming |-> in,
                  revision |-> cached[t].revision, open |-> FALSE]]
        PROVE  IInv'
    <3>1. st \in State
      BY <1>12, InHand, PreparedType, StoreAssumption, ArchiveAssumption DEF PreviewBackup
    <3>2. preview' \in [Tabs -> Preview \cup {None}]
      BY <1>0, <2>1, <2>4, <3>1 DEF Preview
    <3> QED
      BY <1>0, <1>12, <2>4, <3>2, AnswerKeeps DEF PreviewBackup
  <2> QED
    BY <2>2, <2>3, <2>4
<1>13. CASE Reject(t)
  BY <1>0, <1>13, AnswerKeeps DEF Reject
<1>14. CASE RejectStalePreview(t)
  BY <1>0, <1>14, AnswerKeeps DEF RejectStalePreview
<1> QED
  BY <1>1, <1>2, <1>3, <1>4, <1>5, <1>6, <1>7, <1>8, <1>9, <1>10, <1>11, <1>12,
     <1>13, <1>14 DEF Finish

LEMMA NextKeeps == IInv /\ [Next]_vars => IInv'
<1> SUFFICES ASSUME IInv, [Next]_vars PROVE IInv'
  OBVIOUS
<1>1. CASE UNCHANGED vars
  BY <1>1 DEF vars, IInv, TypeOK, Loaded, AskedBefore, CacheCoherent, CommitBasis,
              FreshReads
<1>2. CASE Next
  BY <1>2, BeginKeeps, ReadArchiveKeeps, ReadRecoveryKeeps, FinishKeeps, CloseKeeps
  DEF Next
<1> QED
  BY <1>1, <1>2

THEOREM Invariance == Spec => []IInv
<1>1. Init => IInv
  BY InitIInv
<1>2. IInv /\ [Next]_vars => IInv'
  BY NextKeeps
<1> QED
  BY <1>1, <1>2, PTL DEF Spec

(* The variables keep their types. *)
THEOREM TypeCorrect == Spec => []TypeOK
<1>1. IInv => TypeOK
  BY DEF IInv
<1> QED
  BY <1>1, Invariance, PTL

(* Caches, reviews and recovery copies that carry the stored revision agree
   with the database, and replies are never stale: however many tabs, and with
   no help from Web Locks. *)
THEOREM Coherence == Spec => [](CacheCoherent /\ CommitBasis /\ FreshReads)
<1>1. IInv => CacheCoherent /\ CommitBasis /\ FreshReads
  BY DEF IInv
<1> QED
  BY <1>1, Invariance, PTL

(***************************************************************************)
(* Refinement                                                              *)
(***************************************************************************)

(* A review made at the revision it commits over is a review of the stored
   archive. *)
LEMMA CommitImplements ==
  ASSUME IInv, NEW t \in Tabs, CommitBackup(t)
  PROVE  StoreRestore
<1>1. cached[t] # None
  BY InHand DEF CommitBackup, Mutating
<1>2. PICK st \in Replaced(preview[t].state) :
        Write(t, st, RestoreExclusions(cached[t].exclusions, preview[t].incoming),
              cached[t].state)
  BY DEF CommitBackup
<1>3. /\ cached[t].state = state /\ cached[t].exclusions = exclusions
      /\ preview[t].revision = revision
      /\ Become(st, RestoreExclusions(exclusions, preview[t].incoming), state)
  BY <1>1, <1>2, WriteFinds DEF Become, CommitBackup
<1>4. PICK replace \in BOOLEAN :
        preview[t].state \in Prepared(state, preview[t].incoming, replace)
  BY <1>3 DEF IInv, CommitBasis, CommitBackup
<1>5. preview[t].incoming \in Incoming
  BY DEF IInv, TypeOK, CommitBackup, Preview
<1> QED
  BY <1>2, <1>3, <1>4, <1>5 DEF StoreRestore

LEMMA DeleteImplements ==
  ASSUME IInv, NEW t \in Tabs, DeleteEverywhere(t) \/ DeleteFromDevice(t)
  PROVE  StoreDeleteEverywhere \/ StoreDeleteFromDevice
<1>1. cached[t] # None
  BY InHand DEF DeleteEverywhere, DeleteFromDevice
<1>2. cached[t].revision = revision => oldRecovery[t] = recovery
  BY DEF IInv, CommitBasis, DeleteEverywhere, DeleteFromDevice
<1>3. CASE DeleteEverywhere(t)
  <2>1. PICK p \in cached[t].state.profiles :
          Write(t, DeletedEverywhere(cached[t].state, p), cached[t].exclusions,
                Purged(oldRecovery[t], {p}))
    BY <1>3 DEF DeleteEverywhere
  <2>2. /\ cached[t].state = state /\ cached[t].exclusions = exclusions
        /\ oldRecovery[t] = recovery
        /\ Become(DeletedEverywhere(cached[t].state, p), cached[t].exclusions,
                  Purged(oldRecovery[t], {p}))
    BY <1>1, <1>2, <2>1, WriteFinds DEF Become
  <2> QED
    BY <2>1, <2>2 DEF StoreDeleteEverywhere
<1>4. CASE DeleteFromDevice(t)
  <2>1. PICK p \in cached[t].state.profiles :
          \E ex \in {ExclusionsWithout(cached[t].exclusions, p)} :
            Write(t, ApplyExclusions(cached[t].state, ex), ex, Purged(oldRecovery[t], ex))
    BY <1>4 DEF DeleteFromDevice
  <2> DEFINE ex == ExclusionsWithout(cached[t].exclusions, p)
  <2>2. Write(t, ApplyExclusions(cached[t].state, ex), ex, Purged(oldRecovery[t], ex))
    BY <2>1
  <2>3. /\ cached[t].state = state /\ cached[t].exclusions = exclusions
        /\ oldRecovery[t] = recovery
        /\ Become(ApplyExclusions(cached[t].state, ex), ex, Purged(oldRecovery[t], ex))
    BY <1>1, <1>2, <2>2, WriteFinds DEF Become
  <2> QED
    BY <2>1, <2>3 DEF StoreDeleteFromDevice
<1> QED
  BY <1>3, <1>4

LEMMA SyncImplements ==
  ASSUME IInv, NEW t \in Tabs, SyncReplace(t)
  PROVE  StoreSync \/ UNCHANGED storeVars
<1>1. cached[t] # None
  BY InHand DEF SyncReplace, Mutating
<1>2. cached[t].state = exported[t]
  BY DEF SyncReplace
<1>3. PICK in \in Incoming : \E merged \in Reconciliations(cached[t].state, in) :
        \E st \in Replaced(merged) : \E ex \in RetainExclusionAliases(st, cached[t].exclusions) :
          SyncWrite(t, ApplyExclusions(st, ex), ex)
  BY <1>2 DEF SyncReplace
<1>4. PICK merged \in Reconciliations(cached[t].state, in) :
        \E st \in Replaced(merged) : \E ex \in RetainExclusionAliases(st, cached[t].exclusions) :
          SyncWrite(t, ApplyExclusions(st, ex), ex)
  BY <1>3
<1>5. PICK st \in Replaced(merged) :
        \E ex \in RetainExclusionAliases(st, cached[t].exclusions) :
          SyncWrite(t, ApplyExclusions(st, ex), ex)
  BY <1>4
<1>6. PICK ex \in RetainExclusionAliases(st, cached[t].exclusions) :
        SyncWrite(t, ApplyExclusions(st, ex), ex)
  BY <1>5
<1>7. CASE UNCHANGED dbVars
  BY <1>7 DEF dbVars, storeVars
<1>8. CASE Write(t, ApplyExclusions(st, ex), ex, cached[t].state)
  <2>1. /\ cached[t].state = state /\ cached[t].exclusions = exclusions
        /\ Become(ApplyExclusions(st, ex), ex, cached[t].state)
    BY <1>1, <1>8, WriteFinds DEF Become
  <2> QED
    BY <1>3, <1>4, <1>5, <1>6, <2>1 DEF StoreSync
<1> QED
  BY <1>6, <1>7, <1>8 DEF SyncWrite

(* What holds of the arguments of the other writes once their guard holds. *)
LEMMA UnknownId ==
  ASSUME IInv, NEW t \in Tabs, NEW id \in Ids \ KnownIds
  PROVE  id \notin IdsOf(state.profiles \cup state.tombs \cup exclusions)
<1>1. state \in KnownStates
  BY StoreAssumption, ArchiveAssumption DEF IInv, TypeOK, KnownStates
<1>2. IdsInState(state) \cup IdsOf(exclusions) \subseteq KnownIds
  BY <1>1 DEF KnownIds
<1>3. IdsOf(state.profiles \cup state.tombs \cup exclusions)
        \subseteq IdsInState(state) \cup IdsOf(exclusions)
  BY DEF IdsInState, IdsOf
<1> QED
  BY <1>2, <1>3

LEMMA PlainImplements ==
  ASSUME IInv, NEW t \in Tabs,
         \/ CreateProfile(t) \/ EditDisplay(t) \/ ImportRecords(t)
         \/ MergeBackup(t) \/ ReplaceBackup(t)
  PROVE  StoreCreate \/ StoreEdit \/ StoreImport \/ StoreMerge \/ StoreReplace
<1>1. cached[t] # None
  BY InHand DEF CreateProfile, EditDisplay, ImportRecords, MergeBackup, ReplaceBackup,
                Mutating
<1>2. CASE CreateProfile(t)
  <2>1. PICK id \in Ids \ KnownIds :
          Write(t, Created(cached[t].state, id), cached[t].exclusions, recovery)
    BY <1>2 DEF CreateProfile
  <2>2. /\ cached[t].state = state /\ cached[t].exclusions = exclusions
        /\ Become(Created(cached[t].state, id), cached[t].exclusions, recovery)
    BY <1>1, <2>1, WriteFinds DEF Become
  <2> QED
    BY <2>1, <2>2, UnknownId DEF StoreCreate
<1>3. CASE EditDisplay(t)
  <2>1. PICK l \in Labels :
          Write(t, [cached[t].state EXCEPT !.label = l], cached[t].exclusions, recovery)
    BY <1>3 DEF EditDisplay
  <2>2. /\ cached[t].state = state /\ cached[t].exclusions = exclusions
        /\ Become([cached[t].state EXCEPT !.label = l], cached[t].exclusions, recovery)
    BY <1>1, <2>1, WriteFinds DEF Become
  <2> QED
    BY <2>1, <2>2 DEF StoreEdit
<1>4. CASE ImportRecords(t)
  <2>1. PICK p \in cached[t].state.profiles, s \in Snaps :
          \E st \in Imported(cached[t].state, p, s) :
            Write(t, st, RestoreExclusions(cached[t].exclusions, st), recovery)
    BY <1>4 DEF ImportRecords
  <2>2. PICK st \in Imported(cached[t].state, p, s) :
          Write(t, st, RestoreExclusions(cached[t].exclusions, st), recovery)
    BY <2>1
  <2>3. /\ cached[t].state = state /\ cached[t].exclusions = exclusions
        /\ Become(st, RestoreExclusions(cached[t].exclusions, st), recovery)
    BY <1>1, <2>2, WriteFinds DEF Become
  <2> QED
    BY <2>1, <2>2, <2>3 DEF StoreImport
<1>5. CASE MergeBackup(t)
  <2>1. PICK in \in Incoming : \E st \in MergedStates(cached[t].state, in) :
          Write(t, st, RestoreExclusions(cached[t].exclusions, in), recovery)
    BY <1>5 DEF MergeBackup
  <2>2. PICK st \in MergedStates(cached[t].state, in) :
          Write(t, st, RestoreExclusions(cached[t].exclusions, in), recovery)
    BY <2>1
  <2>3. /\ cached[t].state = state /\ cached[t].exclusions = exclusions
        /\ Become(st, RestoreExclusions(cached[t].exclusions, in), recovery)
    BY <1>1, <2>2, WriteFinds DEF Become
  <2> QED
    BY <2>1, <2>2, <2>3 DEF StoreMerge
<1>6. CASE ReplaceBackup(t)
  <2>1. PICK in \in Incoming : \E st \in Replaced(in) :
          Write(t, st, RestoreExclusions(cached[t].exclusions, in), cached[t].state)
    BY <1>6 DEF ReplaceBackup
  <2>2. PICK st \in Replaced(in) :
          Write(t, st, RestoreExclusions(cached[t].exclusions, in), cached[t].state)
    BY <2>1
  <2>3. /\ cached[t].state = state /\ cached[t].exclusions = exclusions
        /\ Become(st, RestoreExclusions(cached[t].exclusions, in), cached[t].state)
    BY <1>1, <2>2, WriteFinds DEF Become
  <2> QED
    BY <2>1, <2>2, <2>3 DEF StoreReplace
<1> QED
  BY <1>2, <1>3, <1>4, <1>5, <1>6

LEMMA StepImplements == IInv /\ [Next]_vars => [StoreNext]_storeVars
<1> SUFFICES ASSUME IInv, [Next]_vars PROVE StoreNext \/ UNCHANGED storeVars
  OBVIOUS
<1>1. CASE UNCHANGED vars
  BY <1>1 DEF vars, storeVars
<1>2. ASSUME NEW t \in Tabs,
             \/ \E kind \in {"mutation", "read", "preview"} : Begin(t, kind)
             \/ ReadArchive(t) \/ ReadRecovery(t) \/ Close(t)
             \/ Reply(t) \/ ExportForSync(t) \/ PreviewBackup(t) \/ Reject(t)
             \/ RejectStalePreview(t)
      PROVE  UNCHANGED storeVars
  BY <1>2 DEF Begin, ReadArchive, ReadRecovery, Close, Reply, ExportForSync,
              PreviewBackup, Reject, RejectStalePreview, dbVars, storeVars
<1>3. ASSUME NEW t \in Tabs, Finish(t)
      PROVE  StoreNext \/ UNCHANGED storeVars
  BY <1>2, <1>3, PlainImplements, DeleteImplements, CommitImplements, SyncImplements
  DEF Finish, StoreNext
<1>4. CASE Next
  BY <1>2, <1>3, <1>4 DEF Next
<1> QED
  BY <1>1, <1>4

(* Several tabs with caches behave as one store whose operations are atomic:
   every property of the atomic store is one of the archive. *)
THEOREM Refinement == Spec => ImplementsStore
<1>1. Init => StoreInit
  BY DEF Init, StoreInit
<1>2. IInv /\ [Next]_vars => [StoreNext]_storeVars
  BY StepImplements
<1> QED
  BY <1>1, <1>2, Invariance, PTL DEF Spec, ImplementsStore, StoreSpec

(* No order of edits, imports, deletions, restores and syncs from any number
   of tabs leaves an archive that fails validateState. *)
THEOREM Validity == Spec => []StoredValid
BY Refinement, StoreStaysValid, PTL DEF ImplementsStore, StoredValid

(***************************************************************************)
(* Sync                                                                    *)
(***************************************************************************)
SyncStepSafe(t) ==
  SyncReplace(t) /\ revision' # revision =>
    /\ state = exported[t]
    /\ IdsOf(exclusions) \subseteq IdsOf(exclusions')

LEMMA AliasesKeepIds ==
  ASSUME NEW st, NEW ex, NEW new \in RetainExclusionAliases(st, ex)
  PROVE  IdsOf(ex) \subseteq IdsOf(new)
<1> SUFFICES ASSUME NEW e \in ex, NEW id \in e.ids PROVE id \in IdsOf(new)
  BY DEF IdsOf
<1>1. new = {CollapseDeletions(Aliases(st, x)) : x \in ex}
  BY DEF RetainExclusionAliases
<1>2. e \in Aliases(st, e)
  BY DEF Aliases
<1>3. id \in CollapseDeletions(Aliases(st, e)).ids
  BY <1>2 DEF CollapseDeletions, IdsOf
<1> QED
  BY <1>1, <1>3 DEF IdsOf

LEMMA SyncStep ==
  ASSUME IInv, NEW t \in Tabs
  PROVE  SyncStepSafe(t)
<1> SUFFICES ASSUME SyncReplace(t), revision' # revision
             PROVE  state = exported[t] /\ IdsOf(exclusions) \subseteq IdsOf(exclusions')
  BY DEF SyncStepSafe
<1>1. cached[t] # None /\ cached[t].state = exported[t]
  BY InHand DEF SyncReplace, Mutating
<1>2. PICK in \in Incoming : \E merged \in Reconciliations(exported[t], in) :
        \E st \in Replaced(merged) : \E ex \in RetainExclusionAliases(st, cached[t].exclusions) :
          SyncWrite(t, ApplyExclusions(st, ex), ex)
  BY DEF SyncReplace
<1>3. PICK st : \E ex \in RetainExclusionAliases(st, cached[t].exclusions) :
        SyncWrite(t, ApplyExclusions(st, ex), ex)
  BY <1>2
<1>4. PICK ex \in RetainExclusionAliases(st, cached[t].exclusions) :
        SyncWrite(t, ApplyExclusions(st, ex), ex)
  BY <1>3
<1>5. Write(t, ApplyExclusions(st, ex), ex, cached[t].state)
  BY <1>4 DEF SyncWrite, dbVars
<1>6. /\ cached[t].state = state /\ cached[t].exclusions = exclusions
      /\ exclusions' = ex
  BY <1>1, <1>5, WriteFinds
<1> QED
  BY <1>1, <1>4, <1>6, AliasesKeepIds

(* A sync that finds the archive changed under it changes nothing, and one that
   writes keeps every exclusion of this device. *)
THEOREM SyncSafety == Spec => SyncIsSafe
<1>1. IInv /\ [Next]_vars => [\A t \in Tabs : SyncStepSafe(t)]_vars
  BY SyncStep
<1> QED
  BY <1>1, Invariance, PTL DEF Spec, SyncIsSafe, SyncStepSafe

(***************************************************************************)
(* What leaves the archive                                                 *)
(***************************************************************************)
LEMMA StepKeeps == IInv /\ [Next]_vars => Kept
<1> SUFFICES ASSUME IInv, [Next]_vars PROVE Kept
  OBVIOUS
<1>1. StoreTypeOK
  BY DEF IInv, TypeOK, StoreTypeOK
<1>2. StoreNext \/ UNCHANGED storeVars
  BY StepImplements
<1>3. UNCHANGED storeVars => Kept
  BY DEF storeVars, Kept, SnapsOf
<1> QED
  BY <1>1, <1>2, <1>3, StoreLosesNothing

(* Whatever the tabs do, history is in the archive or in the recovery copy, or
   its profile was named by a deletion or a removal. *)
THEOREM HistoryIsKept == Spec => NothingLost
<1>1. IInv /\ [Next]_vars => [Kept]_vars
  BY StepKeeps
<1> QED
  BY <1>1, Invariance, PTL DEF Spec, NothingLost, Kept

(* A step of a behaviour that commits no reviewed backup. *)
Unreviewed == \A t \in Tabs : ~CommitBackup(t)

LEMMA UnreviewedStep ==
  ASSUME IInv, [Next]_vars, Unreviewed
  PROVE  StoreUnreviewed \/ UNCHANGED storeVars
<1>1. CASE UNCHANGED vars
  BY <1>1 DEF vars, storeVars
<1>2. ASSUME NEW t \in Tabs,
             \/ \E kind \in {"mutation", "read", "preview"} : Begin(t, kind)
             \/ ReadArchive(t) \/ ReadRecovery(t) \/ Close(t)
             \/ Reply(t) \/ ExportForSync(t) \/ PreviewBackup(t) \/ Reject(t)
             \/ RejectStalePreview(t)
      PROVE  UNCHANGED storeVars
  BY <1>2 DEF Begin, ReadArchive, ReadRecovery, Close, Reply, ExportForSync,
              PreviewBackup, Reject, RejectStalePreview, dbVars, storeVars
<1>3. ASSUME NEW t \in Tabs, Finish(t)
      PROVE  StoreUnreviewed \/ UNCHANGED storeVars
  BY <1>2, <1>3, PlainImplements, DeleteImplements, SyncImplements
  DEF Finish, Unreviewed, StoreUnreviewed
<1> QED
  BY <1>1, <1>2, <1>3 DEF Next

LEMMA HiddenKeeps ==
  IInv /\ ExcludedHidden /\ [Next]_vars /\ [Unreviewed]_vars => ExcludedHidden'
<1> SUFFICES ASSUME IInv, ExcludedHidden, [Next]_vars, [Unreviewed]_vars
             PROVE  ExcludedHidden'
  OBVIOUS
<1>1. StoreTypeOK /\ Hidden(state, exclusions)
  BY DEF IInv, TypeOK, StoreTypeOK, ExcludedHidden, Hidden
<1>2. CASE UNCHANGED storeVars
  BY <1>2 DEF storeVars, ExcludedHidden
<1>3. CASE StoreUnreviewed
  BY <1>1, <1>3, HiddenStays DEF Hidden, ExcludedHidden
<1>4. UNCHANGED vars => UNCHANGED storeVars
  BY DEF vars, storeVars
<1> QED
  BY <1>2, <1>3, <1>4, UnreviewedStep

(* As long as no reviewed backup is committed, a profile removed from this
   device stays out of its archive.  A review may keep a profile under an
   identifier that only its deletion knew, and that may be an excluded one. *)
THEOREM RemovedStaysOut ==
  Spec /\ [][Unreviewed]_vars => []ExcludedHidden
<1>1. Init => ExcludedHidden
  BY DEF Init, ExcludedHidden
<1>2. IInv /\ ExcludedHidden /\ [Next]_vars /\ [Unreviewed]_vars => ExcludedHidden'
  BY HiddenKeeps
<1> QED
  BY <1>1, <1>2, Invariance, PTL DEF Spec

(***************************************************************************)
(* Deletions and the recovery copy                                         *)
(***************************************************************************)
(* The profile a deletion is asked for is one that no exclusion names. *)
Unexcluded(p) == \A e \in exclusions : ~Matches(p, e)

PurgesAll ==
  \A t \in Tabs : (DeleteEverywhere(t) \/ DeleteFromDevice(t)) /\ recovery' # None =>
    \A p \in state.profiles \ state'.profiles, q \in recovery'.profiles : ~Matches(p, q)

PurgesUnexcluded ==
  \A t \in Tabs : (DeleteEverywhere(t) \/ DeleteFromDevice(t)) /\ recovery' # None =>
    \A p \in state.profiles \ state'.profiles, q \in recovery'.profiles :
      Unexcluded(p) => ~Matches(p, q)

LEMMA DeletionReaches == IInv /\ StoredValid => PurgesUnexcluded
<1> SUFFICES ASSUME IInv, StoredValid, NEW t \in Tabs, DeleteEverywhere(t) \/ DeleteFromDevice(t),
                    recovery' # None, NEW p \in state.profiles \ state'.profiles, Unexcluded(p)
             PROVE  Purges(p)
  BY DEF PurgesUnexcluded, Purges
<1>1. SInv
  BY DEF IInv, TypeOK, StoredValid, SInv, StoreTypeOK
<1>2. StoreDeleteEverywhere \/ StoreDeleteFromDevice
  BY DeleteImplements
<1> QED
  BY <1>1, <1>2, DeletionPurges DEF Unexcluded

(* A deletion leaves nothing of its profile in the recovery copy, although
   other tabs may have replaced the archive since the copy was read.  Only a
   profile that an earlier removal hides by accident may stay there. *)
THEOREM DeletionPurgesRecovery == Spec => [][PurgesUnexcluded]_vars
<1>1. IInv /\ StoredValid => [PurgesUnexcluded]_vars
  BY DeletionReaches
<1> QED
  BY <1>1, Invariance, Validity, PTL

(* As long as no reviewed backup is committed there is no such profile. *)
THEOREM DeletionPurgesAll ==
  Spec /\ [][Unreviewed]_vars => DeletionReachesRecovery
<1>1. ExcludedHidden /\ PurgesUnexcluded => PurgesAll
  BY DEF ExcludedHidden, PurgesUnexcluded, PurgesAll, Unexcluded
<1>2. ExcludedHidden /\ [PurgesUnexcluded]_vars => [PurgesAll]_vars
  BY <1>1
<1> QED
  BY <1>2, DeletionPurgesRecovery, RemovedStaysOut, PTL DEF DeletionReachesRecovery, PurgesAll

(***************************************************************************)
(* Web Locks                                                               *)
(***************************************************************************)

(* A mutation has the lock from its beginning to its end, so there is one. *)
Locked ==
  WebLocks => \A t \in Tabs : pc[t] # "idle" /\ call[t] = "mutation" => lock = t

(* Only a mutation reads the recovery copy, and a call that writes is one. *)
Purging == \A t \in Tabs : pc[t] = "purging" => call[t] = "mutation"

LInv == IInv /\ Locked /\ Purging /\ LockExcludesConflicts

(* The lock has one holder, so no other tab is in a mutation when one writes. *)
LEMMA WriteAlone ==
  ASSUME LInv, NEW t \in Tabs, pc[t] # "idle", call[t] = "mutation",
         End(t), \A u \in Tabs \ {t} : cached'[u] = cached[u]
  PROVE  Locked' /\ Purging' /\ LockExcludesConflicts'
<1>1. TypeOK
  BY DEF LInv, IInv
<1>2. /\ pc' = [pc EXCEPT ![t] = "idle"] /\ call' = [call EXCEPT ![t] = "none"]
      /\ lock' = IF lock = t THEN None ELSE lock
  BY DEF End
<1>3. Purging'
  BY <1>1, <1>2 DEF LInv, Purging, TypeOK
<1>4. WebLocks => \A u \in Tabs : pc'[u] = "idle" \/ call'[u] # "mutation"
  BY <1>1, <1>2 DEF LInv, Locked, TypeOK
<1> QED
  BY <1>3, <1>4 DEF Locked, LockExcludesConflicts

(* A call that ends without a write changes nothing for the others. *)
LEMMA EndAlone ==
  ASSUME LInv, NEW t \in Tabs, End(t), revision' = revision,
         \A u \in Tabs \ {t} : cached'[u] = cached[u]
  PROVE  Locked' /\ Purging' /\ LockExcludesConflicts'
<1>1. TypeOK
  BY DEF LInv, IInv
<1>2. /\ pc' = [pc EXCEPT ![t] = "idle"] /\ call' = [call EXCEPT ![t] = "none"]
      /\ lock' = IF lock = t THEN None ELSE lock
  BY DEF End
<1>3. Purging'
  BY <1>1, <1>2 DEF LInv, Purging, TypeOK
<1>4. ASSUME NEW u \in Tabs, WebLocks, pc'[u] # "idle", call'[u] = "mutation"
      PROVE  u # t /\ pc'[u] = pc[u] /\ call[u] = "mutation" /\ lock = u /\ lock' = u
  BY <1>1, <1>2, <1>4 DEF LInv, Locked, TypeOK
<1>5. Locked'
  BY <1>4 DEF Locked
<1>6. LockExcludesConflicts'
  BY <1>4 DEF LInv, LockExcludesConflicts, Fresh
<1> QED
  BY <1>3, <1>5, <1>6

LEMMA BeginLocked ==
  ASSUME LInv, NEW t \in Tabs, NEW kind \in {"mutation", "read", "preview"}, Begin(t, kind)
  PROVE  Locked' /\ Purging' /\ LockExcludesConflicts'
<1>1. TypeOK
  BY DEF LInv, IInv
<1>2. /\ pc' = [pc EXCEPT ![t] = IF Fresh(t) THEN "warm" ELSE "loading"]
      /\ call' = [call EXCEPT ![t] = kind] /\ cached' = cached /\ revision' = revision
      /\ WebLocks /\ kind = "mutation" => lock = None /\ lock' = t
      /\ ~(WebLocks /\ kind = "mutation") => lock' = lock
      /\ pc[t] = "idle"
  BY DEF Begin, dbVars
<1>3. Purging'
  BY <1>1, <1>2 DEF LInv, Purging, TypeOK
<1>4. Locked'
  BY <1>1, <1>2, ArchiveAssumption DEF LInv, Locked, TypeOK
<1>5. LockExcludesConflicts'
  BY <1>1, <1>2 DEF LInv, LockExcludesConflicts, Fresh, TypeOK
<1> QED
  BY <1>3, <1>4, <1>5

LEMMA ReadLocked ==
  ASSUME LInv, NEW t \in Tabs, ReadArchive(t) \/ ReadRecovery(t)
  PROVE  Locked' /\ Purging' /\ LockExcludesConflicts'
<1>1. TypeOK /\ UNCHANGED <<lock, call, revision>>
  BY DEF LInv, IInv, ReadArchive, ReadRecovery, dbVars
<1>2. CASE ReadArchive(t)
  <2> DEFINE read == [state |-> state, exclusions |-> exclusions, revision |-> revision]
  <2>1. read.revision = revision /\ read # None /\ cached' = [cached EXCEPT ![t] = read]
    BY <1>1, <1>2, ArchiveAssumption DEF ReadArchive, TypeOK, Stored
  <2> HIDE DEF read
  <2> QED
    BY <1>1, <1>2, <2>1 DEF ReadArchive, LInv, Locked, Purging, LockExcludesConflicts, Fresh,
                            TypeOK
<1>3. CASE ReadRecovery(t)
  BY <1>1, <1>3 DEF ReadRecovery, LInv, Locked, Purging, LockExcludesConflicts, Fresh, TypeOK
<1> QED
  BY <1>2, <1>3

LEMMA WritesLocked ==
  ASSUME LInv, NEW t \in Tabs,
         \/ CreateProfile(t) \/ EditDisplay(t) \/ ImportRecords(t)
         \/ DeleteEverywhere(t) \/ DeleteFromDevice(t)
         \/ MergeBackup(t) \/ ReplaceBackup(t) \/ CommitBackup(t) \/ SyncReplace(t)
  PROVE  Locked' /\ Purging' /\ LockExcludesConflicts'
<1>1. pc[t] # "idle" /\ call[t] = "mutation"
  BY DEF LInv, Purging, Mutating, CreateProfile, EditDisplay, ImportRecords, DeleteEverywhere,
         DeleteFromDevice, MergeBackup, ReplaceBackup, CommitBackup, SyncReplace
<1>2. End(t) /\ (cached' = cached \/ \E new : cached' = [cached EXCEPT ![t] = new])
  BY DEF CreateProfile, EditDisplay, ImportRecords, DeleteEverywhere, DeleteFromDevice,
         MergeBackup, ReplaceBackup, CommitBackup, SyncReplace, SyncWrite, Write, dbVars
<1>3. \A u \in Tabs \ {t} : cached'[u] = cached[u]
  BY <1>2 DEF LInv, IInv, TypeOK
<1> QED
  BY <1>1, <1>2, <1>3, WriteAlone

LEMMA NextLocked == LInv /\ [Next]_vars => LInv'
<1> SUFFICES ASSUME LInv, [Next]_vars PROVE LInv'
  OBVIOUS
<1>1. IInv'
  BY NextKeeps DEF LInv
<1>2. CASE UNCHANGED vars
  BY <1>1, <1>2 DEF vars, LInv, Locked, Purging, LockExcludesConflicts, Fresh
<1>3. ASSUME NEW t \in Tabs,
             Reply(t) \/ ExportForSync(t) \/ PreviewBackup(t) \/ Reject(t) \/ RejectStalePreview(t)
      PROVE  LInv'
  BY <1>1, <1>3, EndAlone
  DEF Reply, ExportForSync, PreviewBackup, Reject, RejectStalePreview, dbVars, LInv
<1>4. ASSUME NEW t \in Tabs, Close(t) PROVE LInv'
  BY <1>1, <1>4, EndAlone DEF Close, dbVars, LInv, IInv, TypeOK
<1>5. ASSUME NEW t \in Tabs, Finish(t) PROVE LInv'
  BY <1>1, <1>3, <1>5, WritesLocked DEF Finish, LInv
<1> QED
  BY <1>1, <1>2, <1>4, <1>5, BeginLocked, ReadLocked DEF Next, LInv

(* With Web Locks a mutation of any of the tabs finds, when it writes, the
   archive it has read: the revision guard never refuses it. *)
THEOREM LocksSuffice == Spec => []LockExcludesConflicts
<1>1. Init => LInv
  BY InitIInv DEF Init, LInv, Locked, Purging, LockExcludesConflicts
<1>2. LInv /\ [Next]_vars => LInv'
  BY NextLocked
<1>3. LInv => LockExcludesConflicts
  BY DEF LInv
<1> QED
  BY <1>1, <1>2, <1>3, PTL DEF Spec
=============================================================================
