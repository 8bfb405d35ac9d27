--------------------------- MODULE DriveSyncProofs ---------------------------
(***************************************************************************)
(* What the operators of RevisionGraph guarantee, for every graph; and     *)
(* synced devices lose nothing silently, for any number of devices,        *)
(* snapshots and revisions, with and without faults: no import is          *)
(* overwritten, no revision drops what its parents held, no deletion takes *)
(* history that it did not know, and what a device takes for synced is.    *)
(***************************************************************************)
EXTENDS DriveSync, FiniteSetTheorems, WellFoundedInduction, TLAPS

-----------------------------------------------------------------------------
(***************************************************************************)
(* A finite set of numbers has a smallest and a greatest member            *)
(***************************************************************************)
LEMMA HasGreatest ==
  ASSUME NEW S \in SUBSET Int, IsFiniteSet(S), S # {}
  PROVE  \E m \in S : \A x \in S : x <= m
<1> DEFINE From(a) == {x \in S : a <= x}
           R == StrictSubsetOrdering(S)
           T == {From(a) : a \in S}
<1>1. IsWellFoundedOn(R, FiniteSubsetsOf(S))
  BY FS_StrictSubsetOrderingWellFounded
<1>2. T \subseteq FiniteSubsetsOf(S) /\ T # {}
  <2>1. \A a \in S : From(a) \in SUBSET S
    OBVIOUS
  <2>2. \A a \in S : IsFiniteSet(From(a))
    BY <2>1, FS_Subset
  <2> HIDE DEF From
  <2> QED
    BY <2>1, <2>2 DEF FiniteSubsetsOf
<1>3. PICK B \in T : \A C \in T : ~ (<<C, B>> \in R)
  <2> HIDE DEF R, T
  <2> QED
    BY <1>1, <1>2, WFMin
<1>4. PICK a \in S : B = From(a)
  OBVIOUS
<1>5. ASSUME NEW x \in S, a < x
      PROVE  FALSE
  <2>0. S \subseteq Int /\ a \in Int /\ x \in Int /\ ~(x <= a)
    BY <1>5
  <2>1. From(x) \subseteq From(a) /\ a \in From(a) /\ a \notin From(x)
    <3>1. \A y \in From(x) : y \in From(a)
      BY <1>5, <2>0
    <3>2. a \in From(a)
      BY <2>0
    <3>3. a \notin From(x)
      BY <2>0
    <3> HIDE DEF From
    <3> QED
      BY <3>1, <3>2, <3>3
  <2>2. From(x) \in SUBSET S /\ From(a) \in SUBSET S
    OBVIOUS
  <2>3. <<From(x), From(a)>> \in R
    BY <2>1, <2>2 DEF StrictSubsetOrdering
  <2> QED
    BY <1>3, <1>4, <2>3
<1> QED
  BY <1>5

LEMMA HasLeast ==
  ASSUME NEW S \in SUBSET Int, IsFiniteSet(S), S # {}
  PROVE  \E m \in S : \A x \in S : m <= x
<1> DEFINE T == {-x : x \in S}
<1>1. T \in SUBSET Int /\ T # {}
  OBVIOUS
<1>2. IsFiniteSet(T)
  <2> DEFINE f == [x \in S |-> -x]
  <2>1. f \in Surjection(S, T)
    BY DEF Surjection
  <2> QED
    BY <2>1, FS_Surjection
<1>3. PICK m \in T : \A x \in T : x <= m
  BY <1>1, <1>2, HasGreatest
<1>4. PICK k \in S : m = -k
  OBVIOUS
<1>5. \A x \in S : k <= x
  <2> SUFFICES ASSUME NEW x \in S PROVE k <= x
    OBVIOUS
  <2>1. -x <= -k
    BY <1>3, <1>4
  <2> QED
    BY <2>1
<1> QED
  BY <1>5

(***************************************************************************)
(* Ancestors                                                               *)
(***************************************************************************)
(* One step up: a set of revisions with their parents. *)
Climbed(g, known) == known \cup UNION {g[x] : x \in known \cap DOMAIN g}

(* The recursion of Ancestors, as an equation. *)
IsClimb(f, g, r, n) ==
  f = [i \in 0 .. n |-> IF i = 0 THEN {r} ELSE Climbed(g, f[i - 1])]

(* The recursive function that Ancestors uses is well defined. *)
LEMMA ClimbExists ==
  ASSUME NEW g, NEW r, NEW N \in Nat
  PROVE  \E f : IsClimb(f, g, r, N)
<1> DEFINE Bad == {n \in 0 .. N : ~ \E f : IsClimb(f, g, r, n)}
<1> SUFFICES Bad = {}
  OBVIOUS
<1> SUFFICES ASSUME Bad # {} PROVE FALSE
  OBVIOUS
<1>1. IsFiniteSet(0 .. N)
  BY FS_Interval
<1>2. Bad \in SUBSET (0 .. N)
  OBVIOUS
<1>3. Bad \in SUBSET Int /\ IsFiniteSet(Bad)
  BY <1>1, <1>2, FS_Subset
<1>4. PICK m \in Bad : \A x \in Bad : m <= x
  <2> HIDE DEF Bad
  <2> QED
    BY <1>3, HasLeast
<1>5. m \in 0 .. N /\ ~ \E f : IsClimb(f, g, r, m)
  OBVIOUS
<1>6. m # 0
  <2> SUFFICES ASSUME m = 0 PROVE FALSE
    OBVIOUS
  <2> DEFINE f == [i \in 0 .. 0 |-> {r}]
  <2>1. IsClimb(f, g, r, 0)
    BY DEF IsClimb
  <2> QED
    BY <1>5, <2>1
<1>7. m - 1 \in 0 .. N /\ m - 1 \notin Bad
  <2> HIDE DEF Bad
  <2> QED
    BY <1>4, <1>5, <1>6
<1>8. PICK f : IsClimb(f, g, r, m - 1)
  BY <1>7
<1> DEFINE h == [i \in 0 .. m |-> IF i = m THEN Climbed(g, f[m - 1]) ELSE f[i]]
<1>9. IsClimb(h, g, r, m)
  <2>1. \A i \in 0 .. m - 1 : f[i] = IF i = 0 THEN {r} ELSE Climbed(g, f[i - 1])
    BY <1>8 DEF IsClimb
  <2>2. \A i \in 0 .. m : h[i] = IF i = 0 THEN {r} ELSE Climbed(g, h[i - 1])
    <3> SUFFICES ASSUME NEW i \in 0 .. m
                 PROVE  h[i] = IF i = 0 THEN {r} ELSE Climbed(g, h[i - 1])
      OBVIOUS
    <3>1. CASE i = m
      <4>1. m - 1 \in 0 .. m /\ m - 1 # m
        BY <1>5, <1>6
      <4>2. h[m - 1] = f[m - 1]
        BY <4>1
      <4> QED
        BY <1>6, <3>1, <4>2
    <3>2. CASE i # m
      <4>1. i \in 0 .. m - 1
        BY <1>5, <3>2
      <4>2. h[i] = f[i]
        BY <3>2
      <4>3. i # 0 => i - 1 \in 0 .. m /\ i - 1 # m
        BY <1>5, <4>1
      <4>4. i # 0 => h[i - 1] = f[i - 1]
        BY <4>3
      <4> QED
        BY <2>1, <4>1, <4>2, <4>4
    <3> QED
      BY <3>1, <3>2
  <2> HIDE DEF h
  <2>3. h = [i \in 0 .. m |-> h[i]]
    BY DEF h
  <2> QED
    BY <2>2, <2>3 DEF IsClimb
<1> QED
  BY <1>5, <1>9

(* A set that holds a revision and, with each listed revision, its parents
   holds the whole ancestry of that revision. *)
LEMMA AncestorsWithin ==
  ASSUME NEW g, IsFiniteSet(DOMAIN g), NEW r, NEW C, r \in C,
         \A x \in C \cap DOMAIN g : g[x] \subseteq C
  PROVE  Ancestors(g, r) \subseteq C
<1> DEFINE N == Cardinality(DOMAIN g)
           up == CHOOSE f : f = [i \in 0 .. N |-> IF i = 0 THEN {r} ELSE Climbed(g, f[i - 1])]
<1>1. N \in Nat
  BY FS_CardinalityType
<1>2. IsClimb(up, g, r, N)
  <2> HIDE DEF N
  <2>1. \E f : f = [i \in 0 .. N |-> IF i = 0 THEN {r} ELSE Climbed(g, f[i - 1])]
    <3>1. PICK f : IsClimb(f, g, r, N)
      BY <1>1, ClimbExists
    <3> QED
      BY <3>1 DEF IsClimb
  <2> QED
    BY <2>1 DEF IsClimb
<1>3. Ancestors(g, r) = up[N]
  BY DEF Ancestors, Climbed
<1> HIDE DEF up, N
<1> DEFINE Bad == {n \in 0 .. N : ~(up[n] \subseteq C)}
<1>4. \A n \in 0 .. N : up[n] = IF n = 0 THEN {r} ELSE Climbed(g, up[n - 1])
  BY <1>2 DEF IsClimb
<1>5. ASSUME Bad # {} PROVE FALSE
  <2>1. IsFiniteSet(Bad) /\ Bad \in SUBSET Int
    <3>1. IsFiniteSet(0 .. N) /\ Bad \in SUBSET (0 .. N)
      BY <1>1, FS_Interval
    <3>2. 0 .. N \subseteq Int
      BY <1>1
    <3> HIDE DEF Bad
    <3> QED
      BY <3>1, <3>2, FS_Subset
  <2>2. PICK m \in Bad : \A x \in Bad : m <= x
    <3> HIDE DEF Bad
    <3> QED
      BY <1>5, <2>1, HasLeast
  <2>3. m \in 0 .. N /\ ~(up[m] \subseteq C)
    OBVIOUS
  <2>4. m # 0
    BY <1>4, <2>3
  <2>5. m - 1 \in 0 .. N /\ m - 1 \notin Bad
    <3> HIDE DEF Bad
    <3> QED
      BY <1>1, <2>2, <2>3, <2>4
  <2>6. up[m - 1] \subseteq C
    BY <2>5
  <2>7. up[m] = Climbed(g, up[m - 1])
    BY <1>4, <2>3, <2>4
  <2> QED
    BY <2>3, <2>6, <2>7 DEF Climbed
<1> QED
  BY <1>1, <1>3, <1>5

(***************************************************************************)
(* Heads and merge bases                                                   *)
(***************************************************************************)

(* Parents are numbered before their children. *)
Ordered(g) == \A r \in DOMAIN g : g[r] \subseteq Int /\ \A p \in g[r] : p < r

(* Every revision is superseded only by revisions that are behind a head:
   what holds of a revision, and passes from parents to children, holds of
   some head. *)
LEMMA ReachesHead ==
  ASSUME NEW g, DOMAIN g \subseteq Int, IsFiniteSet(DOMAIN g), Ordered(g),
         NEW C, NEW r \in DOMAIN g, r \in C,
         \A x \in DOMAIN g, y \in DOMAIN g : x \in g[y] /\ x \in C => y \in C
  PROVE  \E h \in Heads(g) : h \in C /\ r <= h
<1> DEFINE Above == {x \in DOMAIN g : x \in C /\ r <= x}
<1>1. Above \subseteq DOMAIN g /\ r \in Above
  OBVIOUS
<1>2. IsFiniteSet(Above) /\ Above \in SUBSET Int
  BY <1>1, FS_Subset
<1>3. PICK m \in Above : \A x \in Above : x <= m
  <2> HIDE DEF Above
  <2> QED
    BY <1>1, <1>2, HasGreatest
<1>4. ASSUME NEW y \in DOMAIN g, m \in g[y]
      PROVE  FALSE
  <2>1. m < y /\ y \in C
    BY <1>4 DEF Ordered
  <2>2. y \in Above
    BY <2>1
  <2> QED
    BY <1>3, <2>1, <2>2
<1> QED
  BY <1>4 DEF Heads

(* A merge base is a listed ancestor of the head, and of another head that is
   merged before it. *)
LEMMA CommonIsShared ==
  ASSUME NEW g, DOMAIN g \subseteq Int, IsFiniteSet(DOMAIN g), NEW h \in Heads(g),
         Common(g, h) # NoRevision
  PROVE  /\ Common(g, h) \in DOMAIN g
         /\ Common(g, h) \in Ancestors(g, h)
         /\ \E x \in Heads(g) : x < h /\ Common(g, h) \in Ancestors(g, x)
<1> DEFINE hs == {x \in Heads(g) : x <= h}
           closest == Closest(g, Shared(g, hs))
<1>1. Cardinality(hs) > 1 /\ Cardinality(closest) = 1
  BY DEF Common
<1>2. Common(g, h) = CHOOSE c \in closest : TRUE
  BY <1>1 DEF Common
<1>3. closest # {}
  BY <1>1, FS_EmptySet
<1>4. Common(g, h) \in closest
  BY <1>2, <1>3
<1>5. Common(g, h) \in Shared(g, hs)
  BY <1>4 DEF Closest
<1>6. Common(g, h) \in DOMAIN g /\ \A x \in hs : Common(g, h) \in Ancestors(g, x)
  BY <1>5 DEF Shared
<1>7. h \in hs
  BY DEF Heads
<1>8. \E x \in hs : x # h
  <2> SUFFICES ASSUME \A x \in hs : x = h PROVE FALSE
    OBVIOUS
  <2>1. hs = {h}
    BY <1>7
  <2>2. Cardinality(hs) = 1
    BY <2>1, FS_Singleton
  <2> QED
    BY <1>1, <2>2
<1>9. PICK x \in hs : x # h
  BY <1>8
<1>10. x \in Heads(g) /\ x < h
  BY <1>9 DEF Heads
<1> QED
  BY <1>6, <1>7, <1>10

(* A single head has no merge base: it is merged over nothing. *)
LEMMA NoCommonAlone ==
  ASSUME NEW g, NEW h, Heads(g) = {h}, h \in Int
  PROVE  Common(g, h) = NoRevision
<1> DEFINE hs == {x \in Heads(g) : x <= h}
<1>1. hs = {h}
  OBVIOUS
<1>2. Cardinality(hs) = 1
  BY <1>1, FS_Singleton
<1> HIDE DEF hs
<1>3. ~(Cardinality(hs) > 1)
  BY <1>2
<1> QED
  BY <1>3 DEF Common, hs

(* A child of all the heads that no listed revision names is the new head. *)
LEMMA ChildIsHead ==
  ASSUME NEW g, NEW r, r \notin DOMAIN g, \A x \in DOMAIN g : r \notin g[x],
         NEW f, DOMAIN f = DOMAIN g \cup {r}, \A x \in DOMAIN g : f[x] = g[x],
         f[r] = Heads(g)
  PROVE  Heads(f) = {r}
BY DEF Heads

-----------------------------------------------------------------------------
(* Everything an archive accounts for: its history and what was deleted. *)
Known(a) == a.snaps \cup a.gone

(* A deletion does not stand beside the profile it deleted. *)
Consistent(a) == a.dead => a.snaps = {}

Numbered == \E n \in Nat : DOMAIN written = 1 .. n

(* Revisions account for all that their parents accounted for. *)
Histories ==
  \A r \in DOMAIN written :
    /\ Consistent(written[r].archive)
    /\ \A p \in written[r].parents :
         Known(written[p].archive) \subseteq Known(written[r].archive)

(* What a pass has made so far of its listing. *)
PassInv(d) ==
  LET p == pass[d]
  IN  /\ p.step = "exported" =>
           /\ p.heads = Heads(Graph(p.view)) /\ p.todo \subseteq p.heads
           /\ pending[d] \notin p.view
           /\ Consistent(p.remote) /\ Consistent(p.exported)
           /\ p.todo = p.heads => p.remote = Empty
           /\ \A h \in p.heads \ p.todo : Known(written[h].archive) \subseteq Known(p.remote)
           /\ \A h \in p.heads \ p.todo, t \in p.todo : h < t
           /\ \A h \in p.heads \ p.todo :
                p.heads = {h} => Shown(p.remote) = Shown(written[h].archive)
           /\ p.steady => Shown(p.exported) = Shown(local[d])
           /\ baseline[d].archive.snaps \subseteq Known(p.exported)
           /\ p.exported.snaps \subseteq Known(local[d])
      /\ p.step = "uploading" =>
           /\ Heads(Graph(p.view \cup {pending[d]})) = {pending[d]}
           /\ Shown(written[pending[d]].archive) = Shown(p.result)
           /\ p.steady => Shown(p.result) = Shown(local[d])
           /\ p.result.snaps \subseteq Known(local[d])

(* What a device last agreed on is accounted for by the device and by the
   revisions that it names. *)
BaseInv(d) ==
  /\ baseline[d].archive.snaps \subseteq Known(local[d])
  /\ \A s \in baseline[d].archive.snaps :
       \E h \in baseline[d].heads : s \in Known(written[h].archive)

CheckInv(d) ==
  checkpoint[d] # {} =>
    \E h \in checkpoint[d] :
      /\ Heads(Graph(checkpoint[d])) = {h}
      /\ Shown(written[h].archive) = Shown(local[d])

DeviceInv(d) == PassInv(d) /\ BaseInv(d) /\ CheckInv(d)

IInv ==
  /\ TypeOK
  /\ Numbered
  /\ Histories
  /\ \A d \in Devices : DeviceInv(d)

(***************************************************************************)
(* Reconciliation                                                          *)
(***************************************************************************)
LEMMA EmptyIsArchive == Empty \in Archive /\ Consistent(Empty) /\ Known(Empty) = {}
BY DEF Empty, Archive, Consistent, Known

LEMMA ReconciledAccounts ==
  ASSUME NEW l \in Archive, NEW r \in Archive, NEW b \in Archive,
         NEW s \in Reconciled(l, r, b)
  PROVE  /\ s \in Archive
         /\ Consistent(s)
         /\ Known(s) = Known(l) \cup Known(r)
<1>1. PICK dead \in Fates(l, r, b), w \in Winners(l, r, b) :
        s = [dead |-> dead, label |-> w.label, at |-> w.at, hist |-> l.hist \cup r.hist,
             snaps |-> IF dead THEN {} ELSE l.snaps \cup r.snaps,
             gone  |-> l.gone \cup r.gone \cup (IF dead THEN l.snaps \cup r.snaps ELSE {})]
  BY DEF Reconciled
<1>2. dead \in BOOLEAN
  BY DEF Fates, Archive
<1>3. w \in {l, r}
  BY DEF Winners
<1>4. w \in Archive
  BY <1>3
<1>5. CASE dead
  <2>1. s.dead = dead /\ s.snaps = {} /\ s.gone = l.gone \cup r.gone \cup (l.snaps \cup r.snaps)
    BY <1>1, <1>5
  <2>2. s \in Archive
    BY <1>1, <1>2, <1>4, <1>5 DEF Archive
  <2> QED
    BY <2>1, <2>2 DEF Consistent, Known
<1>6. CASE ~dead
  <2>1. s.dead = dead /\ s.snaps = l.snaps \cup r.snaps /\ s.gone = l.gone \cup r.gone
    BY <1>1, <1>6
  <2>2. s \in Archive
    BY <1>1, <1>2, <1>4, <1>6 DEF Archive
  <2> QED
    BY <1>6, <2>1, <2>2 DEF Consistent, Known
<1> QED
  BY <1>5, <1>6

(* A lone revision is taken as it is. *)
LEMMA ReconciledAlone ==
  ASSUME NEW a \in Archive, Consistent(a), NEW s \in Reconciled(Empty, a, Empty)
  PROVE  Shown(s) = Shown(a)
<1>1. PICK dead \in Fates(Empty, a, Empty), w \in Winners(Empty, a, Empty) :
        s = [dead |-> dead, label |-> w.label, at |-> w.at, hist |-> Empty.hist \cup a.hist,
             snaps |-> IF dead THEN {} ELSE Empty.snaps \cup a.snaps,
             gone  |-> Empty.gone \cup a.gone \cup
                         (IF dead THEN Empty.snaps \cup a.snaps ELSE {})]
  BY DEF Reconciled
<1>2. ~Differ(Empty, a)
  BY DEF Differ, Empty
<1>3. w = a
  BY <1>2 DEF Winners, Empty
<1>4. ~DeleteEdit(Empty, a, Empty)
  <2>1. SUFFICES ASSUME DeleteEdit(Empty, a, Empty) PROVE FALSE
    OBVIOUS
  <2>2. a.dead /\ (Live(Empty) \/ Live(a))
    BY <2>1 DEF DeleteEdit, Empty, Archive
  <2> QED
    BY <2>2 DEF Live, Empty, Consistent
<1>5. dead = a.dead
  BY <1>4 DEF Fates, Empty, Archive
<1>6. s.snaps = a.snaps
  BY <1>1, <1>5 DEF Empty, Consistent
<1> QED
  BY <1>1, <1>3, <1>5, <1>6 DEF Shown

(***************************************************************************)
(* Revisions                                                               *)
(***************************************************************************)
LEMMA Numbers ==
  ASSUME Numbered
  PROVE  /\ IsFiniteSet(DOMAIN written)
         /\ Cardinality(DOMAIN written) \in Nat
         /\ DOMAIN written = 1 .. Cardinality(DOMAIN written)
         /\ NoRevision \notin DOMAIN written
<1>1. PICK n \in Nat : DOMAIN written = 1 .. n
  BY DEF Numbered
<1>2. IsFiniteSet(1 .. n) /\ Cardinality(1 .. n) = n
  BY <1>1, FS_Interval
<1> QED
  BY <1>1, <1>2 DEF NoRevision

LEMMA GraphOfView ==
  ASSUME TypeOK, Numbered, NEW view \in SUBSET DOMAIN written
  PROVE  /\ DOMAIN Graph(view) = view
         /\ view \subseteq Int
         /\ IsFiniteSet(view)
         /\ Ordered(Graph(view))
         /\ \A x \in view : Graph(view)[x] = written[x].parents
         /\ Heads(Graph(view)) \subseteq view
<1>1. DOMAIN Graph(view) = view /\ \A x \in view : Graph(view)[x] = written[x].parents
  BY DEF Graph
<1>2. PICK n \in Nat : DOMAIN written = 1 .. n
  BY DEF Numbered
<1>3. view \subseteq Int
  BY <1>2
<1>4. IsFiniteSet(view)
  BY Numbers, FS_Subset
<1>5. \A x \in view : written[x].parents \subseteq 1 .. (x - 1)
  BY DEF TypeOK
<1>6. Ordered(Graph(view))
  BY <1>1, <1>3, <1>5 DEF Ordered
<1> QED
  BY <1>1, <1>3, <1>4, <1>6 DEF Heads

(* The merge base of a head holds nothing but what the head accounts for, and
   so does another head that is merged before it. *)
LEMMA BaseKnown ==
  ASSUME TypeOK, Numbered, Histories, NEW view \in SUBSET DOMAIN written,
         NEW h \in Heads(Graph(view))
  PROVE  /\ Base(view, h) \in Archive
         /\ \/ Base(view, h) = Empty
            \/ /\ Known(Base(view, h)) \subseteq Known(written[h].archive)
               /\ \E x \in Heads(Graph(view)) :
                    x < h /\ Known(Base(view, h)) \subseteq Known(written[x].archive)
<1> DEFINE g == Graph(view)
           c == Common(g, h)
<1>1. CASE c = NoRevision
  BY <1>1, EmptyIsArchive DEF Base
<1>2. CASE c # NoRevision
  <2>1. /\ DOMAIN g = view /\ view \subseteq Int /\ IsFiniteSet(DOMAIN g)
        /\ \A x \in view : g[x] = written[x].parents
        /\ Heads(g) \subseteq view
    BY GraphOfView
  <2>2. /\ c \in view
        /\ c \in Ancestors(g, h)
        /\ \E x \in Heads(g) : x < h /\ c \in Ancestors(g, x)
    <3>1. h \in Heads(g) /\ DOMAIN g \subseteq Int
      BY <2>1
    <3> HIDE DEF g
    <3>2. /\ c \in DOMAIN g
          /\ c \in Ancestors(g, h)
          /\ \E x \in Heads(g) : x < h /\ c \in Ancestors(g, x)
      BY <1>2, <2>1, <3>1, CommonIsShared
    <3> QED
      BY <2>1, <3>2
  <2>3. Base(view, h) = written[c].archive
    BY <1>2 DEF Base
  <2>4. ASSUME NEW r \in view
        PROVE  \A a \in Ancestors(g, r) : a \in DOMAIN written =>
                 Known(written[a].archive) \subseteq Known(written[r].archive)
    <3> DEFINE C == {x \in DOMAIN written :
                       Known(written[x].archive) \subseteq Known(written[r].archive)}
    <3>1. r \in C
      BY <2>4
    <3>2. ASSUME NEW x \in C \cap view
          PROVE  g[x] \subseteq C
      <4>1. g[x] = written[x].parents
        BY <2>1, <3>2
      <4>2. written[x].parents \subseteq DOMAIN written
        <5>1. PICK n \in Nat : DOMAIN written = 1 .. n
          BY DEF Numbered
        <5>2. x \in 1 .. n /\ written[x].parents \subseteq 1 .. (x - 1)
          BY <5>1 DEF TypeOK
        <5> QED
          BY <5>1, <5>2
      <4>3. \A p \in written[x].parents :
              Known(written[p].archive) \subseteq Known(written[x].archive)
        BY DEF Histories
      <4> QED
        BY <4>1, <4>2, <4>3
    <3>3. Ancestors(g, r) \subseteq C
      <4> HIDE DEF g, C
      <4> QED
        BY <2>1, <3>1, <3>2, AncestorsWithin
    <3> QED
      BY <3>3
  <2>5. c \in DOMAIN written
    BY <2>2
  <2>6. h \in view
    BY <2>1
  <2> HIDE DEF g, c
  <2>7. Base(view, h) \in Archive
    BY <2>3, <2>5 DEF TypeOK
  <2>8. Known(Base(view, h)) \subseteq Known(written[h].archive)
    BY <2>2, <2>3, <2>4, <2>5, <2>6
  <2>9. \E x \in Heads(g) : x < h /\ Known(Base(view, h)) \subseteq Known(written[x].archive)
    BY <2>1, <2>2, <2>3, <2>4, <2>5
  <2> QED
    BY <2>7, <2>8, <2>9 DEF g
<1> QED
  BY <1>1, <1>2

LEMMA BaseAlone ==
  ASSUME TypeOK, Numbered, NEW view \in SUBSET DOMAIN written, NEW h,
         Heads(Graph(view)) = {h}
  PROVE  Base(view, h) = Empty
<1>1. h \in Int
  BY GraphOfView
<1>2. Common(Graph(view), h) = NoRevision
  BY <1>1, NoCommonAlone
<1> QED
  BY <1>2 DEF Base

(***************************************************************************)
(* What a step leaves alone                                                *)
(***************************************************************************)
Extends ==
  /\ DOMAIN written \subseteq DOMAIN written'
  /\ \A r \in DOMAIN written : written'[r] = written[r]

LEMMA Untouched ==
  ASSUME IInv, Extends, NEW d \in Devices,
         local'[d] = local[d], pass'[d] = pass[d], baseline'[d] = baseline[d],
         pending'[d] = pending[d], checkpoint'[d] = checkpoint[d]
  PROVE  DeviceInv(d)'
<1> USE DEF Extends
<1>1. /\ pass[d].view \subseteq DOMAIN written /\ pass[d].heads \subseteq DOMAIN written
      /\ checkpoint[d] \subseteq DOMAIN written
      /\ baseline[d].heads \subseteq DOMAIN written
      /\ pass[d].step = "uploading" => pending[d] \in DOMAIN written
  BY DEF IInv, TypeOK, Passes
<1>2. DeviceInv(d)
  BY DEF IInv
<1>3. Graph(pass[d].view)' = Graph(pass[d].view)
  <2>1. Graph(pass[d].view)' = [r \in pass[d].view |-> written'[r].parents]
    BY DEF Graph
  <2> QED
    BY <1>1, <2>1 DEF Graph
<1>4. pass[d].step = "uploading" =>
        Graph(pass[d].view \cup {pending[d]})' = Graph(pass[d].view \cup {pending[d]})
  <2>1. Graph(pass[d].view \cup {pending[d]})' =
          [r \in pass[d].view \cup {pending[d]} |-> written'[r].parents]
    BY DEF Graph
  <2> QED
    BY <1>1, <2>1 DEF Graph
<1>5. Graph(checkpoint[d])' = Graph(checkpoint[d])
  <2>1. Graph(checkpoint[d])' = [r \in checkpoint[d] |-> written'[r].parents]
    BY DEF Graph
  <2> QED
    BY <1>1, <2>1 DEF Graph
<1>6. PassInv(d)'
  <2>1. PassInv(d)
    BY <1>2 DEF DeviceInv
  <2>2. CASE pass[d].step = "exported"
    <3>1. \A h \in pass[d].heads : written'[h] = written[h]
      BY <1>1
    <3> QED
      BY <1>3, <2>1, <2>2, <3>1 DEF PassInv
  <2>3. CASE pass[d].step = "uploading"
    <3>1. written'[pending[d]] = written[pending[d]]
      BY <1>1, <2>3
    <3> QED
      BY <1>4, <2>1, <2>3, <3>1 DEF PassInv
  <2> QED
    BY <2>2, <2>3 DEF PassInv
<1>7. BaseInv(d)'
  BY <1>1, <1>2 DEF DeviceInv, BaseInv
<1>8. CheckInv(d)'
  BY <1>1, <1>2, <1>5 DEF DeviceInv, CheckInv
<1> QED
  BY <1>6, <1>7, <1>8 DEF DeviceInv

(***************************************************************************)
(* Edits                                                                   *)
(***************************************************************************)
LEMMA WriteKeeps ==
  ASSUME IInv, NEW d \in Devices, NEW archive \in Archive, Consistent(archive),
         Known(local[d]) \subseteq Known(archive), Write(d, archive),
         done' \in [edits : Nat, deletes : Nat, faults : Nat]
  PROVE  IInv'
<1>1. TypeOK /\ Numbered /\ Histories
  BY DEF IInv
<1>2. /\ local' = [local EXCEPT ![d] = archive]
      /\ pass' = [pass EXCEPT ![d].steady = FALSE]
      /\ checkpoint' = [checkpoint EXCEPT ![d] = {}]
      /\ written' = written /\ files' = files /\ baseline' = baseline
      /\ pending' = pending /\ wire' = wire
  BY DEF Write
<1>3. pass' \in [Devices -> Passes]
  <2>1. pass \in [Devices -> Passes] /\ pass[d] \in Passes
    BY <1>1 DEF TypeOK
  <2>2. [pass[d] EXCEPT !.steady = FALSE] \in Passes
    BY <2>1 DEF Passes
  <2>3. pass' = [pass EXCEPT ![d] = [pass[d] EXCEPT !.steady = FALSE]]
    BY <1>2
  <2> HIDE DEF Passes
  <2> QED
    BY <2>1, <2>2, <2>3
<1>4. local' \in [Devices -> Archive] /\ \A e \in Devices : local'[e].dead => ~Live(local'[e])
  BY <1>1, <1>2 DEF TypeOK, Consistent, Live
<1>5. pass'[d].step = "uploading" => pass[d].step = "uploading"
  BY <1>1, <1>2 DEF TypeOK, Passes
<1>6. TypeOK'
  BY <1>1, <1>2, <1>3, <1>4, <1>5 DEF TypeOK, Passes
<1>7. Numbered' /\ Histories'
  BY <1>1, <1>2 DEF Numbered, Histories
<1>8. DeviceInv(d)'
  <2>1. DeviceInv(d)
    BY DEF IInv
  <2>2. /\ pass'[d] = [pass[d] EXCEPT !.steady = FALSE]
        /\ local'[d] = archive /\ checkpoint'[d] = {}
    BY <1>1, <1>2 DEF TypeOK
  <2>3. /\ pass'[d].step = pass[d].step /\ pass'[d].view = pass[d].view
        /\ pass'[d].heads = pass[d].heads /\ pass'[d].todo = pass[d].todo
        /\ pass'[d].remote = pass[d].remote /\ pass'[d].exported = pass[d].exported
        /\ pass'[d].result = pass[d].result /\ ~pass'[d].steady
    BY <1>1, <2>2 DEF TypeOK, Passes
  <2>4. PassInv(d)'
    <3>1. PassInv(d)
      BY <2>1 DEF DeviceInv
    <3>2. Known(local[d]) \subseteq Known(local'[d])
      BY <2>2
    <3>3. CASE pass'[d].step = "exported"
      <4>1. Heads(Graph(pass[d].view))' = Heads(Graph(pass[d].view))
        BY <1>2, <2>3 DEF Graph, Heads
      <4> QED
        BY <1>2, <2>3, <3>1, <3>2, <3>3, <4>1 DEF PassInv
    <3>4. CASE pass'[d].step = "uploading"
      <4>1. /\ pending'[d] = pending[d]
            /\ Heads(Graph(pass[d].view \cup {pending[d]}))'
                 = Heads(Graph(pass[d].view \cup {pending[d]}))
        BY <1>2, <2>3 DEF Graph, Heads
      <4> QED
        BY <1>2, <2>3, <3>1, <3>2, <3>4, <4>1 DEF PassInv
    <3> QED
      BY <3>3, <3>4 DEF PassInv
  <2>5. BaseInv(d)'
    BY <1>2, <2>1, <2>2 DEF DeviceInv, BaseInv
  <2>6. CheckInv(d)'
    BY <2>2 DEF CheckInv
  <2> QED
    BY <2>4, <2>5, <2>6 DEF DeviceInv
<1>9. ASSUME NEW e \in Devices \ {d}
      PROVE  DeviceInv(e)'
  <2>1. /\ local'[e] = local[e] /\ pass'[e] = pass[e] /\ checkpoint'[e] = checkpoint[e]
    BY <1>1, <1>2, <1>9 DEF TypeOK
  <2> QED
    BY <1>2, <2>1, Untouched DEF Extends
<1> QED
  BY <1>6, <1>7, <1>8, <1>9 DEF IInv

LEMMA ImportKeeps ==
  ASSUME IInv, NEW d \in Devices, Import(d)
  PROVE  IInv'
<1>1. TypeOK
  BY DEF IInv
<1>2. PICK s \in Snaps : Write(d, [local[d] EXCEPT !.snaps = @ \cup {s}])
  BY DEF Import
<1> DEFINE a == [local[d] EXCEPT !.snaps = @ \cup {s}]
<1>3. local[d] \in Archive /\ ~local[d].dead
  BY <1>1 DEF TypeOK, Import
<1>4. a \in Archive /\ Consistent(a) /\ Known(local[d]) \subseteq Known(a)
  BY <1>3 DEF Archive, Consistent, Known
<1>5. done' \in [edits : Nat, deletes : Nat, faults : Nat]
  BY <1>1 DEF TypeOK, Import
<1> HIDE DEF a
<1> QED
  BY <1>2, <1>4, <1>5, WriteKeeps DEF a

LEMMA SetLabelKeeps ==
  ASSUME IInv, NEW d \in Devices, SetLabel(d)
  PROVE  IInv'
<1>1. TypeOK
  BY DEF IInv
<1>2. PICK l \in Labels :
        Write(d, [local[d] EXCEPT !.label = l, !.at = done.edits + 1,
                                  !.hist = @ \cup {done.edits + 1}])
  BY DEF SetLabel
<1> DEFINE a == [local[d] EXCEPT !.label = l, !.at = done.edits + 1,
                                 !.hist = @ \cup {done.edits + 1}]
<1>3. /\ local[d] \in Archive /\ (local[d].dead => local[d].snaps = {})
      /\ done.edits \in Nat
  BY <1>1 DEF TypeOK, Live
<1>4. a \in Archive /\ Consistent(a) /\ Known(local[d]) \subseteq Known(a)
  <2>1. /\ a.dead = local[d].dead /\ a.snaps = local[d].snaps /\ a.gone = local[d].gone
        /\ a.label = l /\ a.at = done.edits + 1
    BY <1>3 DEF Archive
  <2>2. done.edits + 1 \in Nat
    BY <1>3
  <2>3. a \in Archive
    BY <1>3, <2>2 DEF Archive
  <2> QED
    BY <1>3, <2>1, <2>3 DEF Consistent, Known
<1>5. done' \in [edits : Nat, deletes : Nat, faults : Nat]
  BY <1>1 DEF TypeOK, SetLabel
<1> HIDE DEF a
<1> QED
  BY <1>2, <1>4, <1>5, WriteKeeps DEF a

LEMMA DeleteKeeps ==
  ASSUME IInv, NEW d \in Devices, DeleteEverywhere(d)
  PROVE  IInv'
<1>1. TypeOK
  BY DEF IInv
<1> DEFINE a == [local[d] EXCEPT !.dead = TRUE, !.snaps = {}, !.gone = @ \cup local[d].snaps]
<1>2. Write(d, a)
  BY DEF DeleteEverywhere
<1>3. local[d] \in Archive
  BY <1>1 DEF TypeOK
<1>4. a \in Archive /\ Consistent(a) /\ Known(local[d]) \subseteq Known(a)
  BY <1>3 DEF Archive, Consistent, Known
<1>5. done' \in [edits : Nat, deletes : Nat, faults : Nat]
  BY <1>1 DEF TypeOK, DeleteEverywhere
<1> HIDE DEF a
<1> QED
  BY <1>2, <1>4, <1>5, WriteKeeps

(***************************************************************************)
(* Steps of a pass that change only the pass                               *)
(***************************************************************************)
LEMMA IdleIsPass == Idle \in Passes
<1>1. Empty \in Archive
  BY EmptyIsArchive
<1> QED
  BY <1>1 DEF Idle, Passes

LEMMA PassEnds ==
  ASSUME IInv, NEW d \in Devices, NEW p \in Passes, p.step \in {"idle", "asked"},
         pass' = [pass EXCEPT ![d] = p],
         local' = local, written' = written, files' = files, baseline' = baseline,
         pending' = pending, checkpoint' = checkpoint, wire' \subseteq DOMAIN written,
         done' \in [edits : Nat, deletes : Nat, faults : Nat]
  PROVE  IInv'
<1>1. TypeOK /\ Numbered /\ Histories
  BY DEF IInv
<1>2. pass' \in [Devices -> Passes] /\ pass'[d] = p
  BY <1>1 DEF TypeOK
<1>3. TypeOK'
  BY <1>1, <1>2 DEF TypeOK, Passes
<1>4. Numbered' /\ Histories'
  BY <1>1 DEF Numbered, Histories
<1>5. DeviceInv(d)'
  <2>1. DeviceInv(d)
    BY DEF IInv
  <2>2. PassInv(d)'
    BY <1>2 DEF PassInv
  <2>3. BaseInv(d)' /\ CheckInv(d)'
    BY <2>1 DEF DeviceInv, BaseInv, CheckInv, Graph
  <2> QED
    BY <2>2, <2>3 DEF DeviceInv
<1>6. ASSUME NEW e \in Devices \ {d}
      PROVE  DeviceInv(e)'
  <2>1. pass'[e] = pass[e]
    BY <1>1, <1>6 DEF TypeOK
  <2> QED
    BY <2>1, Untouched DEF Extends
<1> QED
  BY <1>3, <1>4, <1>5, <1>6 DEF IInv

LEMMA AskKeeps ==
  ASSUME IInv, NEW d \in Devices, Ask(d)
  PROVE  IInv'
<1>1. TypeOK
  BY DEF IInv
<1> DEFINE p == [Idle EXCEPT !.step = "asked", !.dialog = Dialog(d)]
<1>2. pass[d].view \in SUBSET DOMAIN written /\ pass[d].exported \in Archive
  BY <1>1 DEF TypeOK, Passes
<1>3. Dialog(d) \in (SUBSET DOMAIN written) \X ShownArchives
  BY <1>2 DEF Dialog, Shown, ShownArchives, Archive
<1>4. p \in Passes /\ p.step = "asked"
  BY <1>3, IdleIsPass DEF Passes, Idle
<1>5. wire' \subseteq DOMAIN written /\ done' \in [edits : Nat, deletes : Nat, faults : Nat]
  BY <1>1 DEF TypeOK, Ask
<1>6. pass' = [pass EXCEPT ![d] = p]
  BY DEF Ask
<1> HIDE DEF p
<1> QED
  BY <1>4, <1>5, <1>6, PassEnds DEF Ask

LEMMA StaleKeeps ==
  ASSUME IInv, NEW d \in Devices, Stale(d)
  PROVE  IInv'
<1>1. wire' \subseteq DOMAIN written /\ done' \in [edits : Nat, deletes : Nat, faults : Nat]
  BY DEF IInv, TypeOK, Stale
<1>2. Idle.step = "idle"
  BY DEF Idle
<1> QED
  BY <1>1, <1>2, IdleIsPass, PassEnds DEF Stale

LEMMA ReadFailsKeeps ==
  ASSUME IInv, NEW d \in Devices, ReadFails(d)
  PROVE  IInv'
<1>1. wire' \subseteq DOMAIN written /\ done' \in [edits : Nat, deletes : Nat, faults : Nat]
  BY DEF IInv, TypeOK, ReadFails
<1>2. Idle.step = "idle"
  BY DEF Idle
<1> QED
  BY <1>1, <1>2, IdleIsPass, PassEnds DEF ReadFails

LEMMA GivenUpType ==
  ASSUME TypeOK, NEW d \in Devices, GivenUp(d)
  PROVE  wire' \subseteq DOMAIN written
BY DEF TypeOK, GivenUp

LEMMA UploadFailsKeeps ==
  ASSUME IInv, NEW d \in Devices, UploadFails(d)
  PROVE  IInv'
<1>1. TypeOK
  BY DEF IInv
<1>2. wire' \subseteq DOMAIN written
  BY <1>1, GivenUpType DEF UploadFails
<1>3. done' \in [edits : Nat, deletes : Nat, faults : Nat]
  BY <1>1 DEF TypeOK, UploadFails
<1>4. Idle.step = "idle"
  BY DEF Idle
<1> QED
  BY <1>2, <1>3, <1>4, IdleIsPass, PassEnds DEF UploadFails

(***************************************************************************)
(* The cloud, and devices that start over                                  *)
(***************************************************************************)
LEMMA CloudKeeps ==
  ASSUME IInv, files' \subseteq DOMAIN written, wire' \subseteq DOMAIN written,
         done' \in [edits : Nat, deletes : Nat, faults : Nat],
         UNCHANGED <<local, written, pass, baseline, pending, checkpoint>>
  PROVE  IInv'
<1>1. TypeOK /\ Numbered /\ Histories
  BY DEF IInv
<1>2. TypeOK'
  BY <1>1 DEF TypeOK, Passes
<1>3. Numbered' /\ Histories'
  BY <1>1 DEF Numbered, Histories
<1>4. \A d \in Devices : DeviceInv(d)'
  BY Untouched DEF Extends
<1> QED
  BY <1>2, <1>3, <1>4 DEF IInv

LEMMA ArriveKeeps ==
  ASSUME IInv, NEW r \in wire, Arrive(r)
  PROVE  IInv'
<1>1. /\ files' \subseteq DOMAIN written /\ wire' \subseteq DOMAIN written
      /\ done' \in [edits : Nat, deletes : Nat, faults : Nat]
  BY DEF IInv, TypeOK, Arrive
<1> QED
  BY <1>1, CloudKeeps DEF Arrive

LEMMA VanishKeeps ==
  ASSUME IInv, NEW r \in files, Vanish(r)
  PROVE  IInv'
<1>1. /\ files' \subseteq DOMAIN written /\ wire' \subseteq DOMAIN written
      /\ done' \in [edits : Nat, deletes : Nat, faults : Nat]
  BY DEF IInv, TypeOK, Vanish
<1> QED
  BY <1>1, CloudKeeps DEF Vanish

LEMMA RestartKeeps ==
  ASSUME IInv, NEW d \in Devices, Restart(d)
  PROVE  IInv'
<1>1. TypeOK /\ Numbered /\ Histories
  BY DEF IInv
<1>2. /\ pass' = [pass EXCEPT ![d] = Idle]
      /\ baseline' = [baseline EXCEPT ![d] = NoBaseline]
      /\ pending' = [pending EXCEPT ![d] = NoRevision]
      /\ checkpoint' = [checkpoint EXCEPT ![d] = {}]
      /\ local' = local /\ written' = written /\ files' = files
  BY DEF Restart
<1>3. wire' \subseteq DOMAIN written
  BY <1>1, GivenUpType DEF Restart
<1>4. done' \in [edits : Nat, deletes : Nat, faults : Nat]
  BY <1>1 DEF TypeOK, Restart
<1>5. NoBaseline \in [archive : Archive, heads : SUBSET DOMAIN written]
  BY EmptyIsArchive DEF NoBaseline
<1>6. /\ pass' \in [Devices -> Passes]
      /\ baseline' \in [Devices -> [archive : Archive, heads : SUBSET DOMAIN written]]
      /\ pass'[d].step = "idle" /\ baseline'[d].archive.snaps = {} /\ checkpoint'[d] = {}
  BY <1>1, <1>2, <1>5, IdleIsPass DEF TypeOK, Idle, NoBaseline, Empty
<1>7. TypeOK'
  BY <1>1, <1>2, <1>3, <1>4, <1>6 DEF TypeOK, Passes
<1>8. Numbered' /\ Histories'
  BY <1>1, <1>2 DEF Numbered, Histories
<1>9. DeviceInv(d)'
  BY <1>6 DEF DeviceInv, PassInv, BaseInv, CheckInv
<1>10. ASSUME NEW e \in Devices \ {d}
       PROVE  DeviceInv(e)'
  <2>1. /\ pass'[e] = pass[e] /\ baseline'[e] = baseline[e]
        /\ pending'[e] = pending[e] /\ checkpoint'[e] = checkpoint[e]
    BY <1>1, <1>2, <1>10 DEF TypeOK
  <2> QED
    BY <1>2, <2>1, Untouched DEF Extends
<1> QED
  BY <1>7, <1>8, <1>9, <1>10 DEF IInv

(***************************************************************************)
(* A pass reads its listing and merges the heads                           *)
(***************************************************************************)
LEMMA BeginKeeps ==
  ASSUME IInv, NEW d \in Devices, Begin(d)
  PROVE  IInv'
<1>1. TypeOK /\ Numbered /\ Histories /\ DeviceInv(d)
  BY DEF IInv
<1> DEFINE p == [Inspected(files) EXCEPT !.exported = local[d], !.steady = TRUE,
                                         !.dialog = pass[d].dialog]
<1>2. /\ pass' = [pass EXCEPT ![d] = p]
      /\ pending' = [pending EXCEPT ![d] = IF @ \in files THEN NoRevision ELSE @]
      /\ local' = local /\ written' = written /\ files' = files /\ baseline' = baseline
      /\ checkpoint' = checkpoint /\ wire' = wire /\ done' = done
  BY DEF Begin
<1>3. /\ p.step = "exported" /\ p.view = files
      /\ p.heads = Heads(Graph(files)) /\ p.todo = Heads(Graph(files))
      /\ p.remote = Empty /\ p.exported = local[d] /\ p.steady
  BY DEF Inspected, Idle
<1>4. /\ files \subseteq DOMAIN written /\ local[d] \in Archive
      /\ pass[d] \in Passes /\ pass[d].dialog \in {NoDialog} \cup
           ((SUBSET DOMAIN written) \X ShownArchives)
  BY <1>1 DEF TypeOK, Passes
<1>5. Heads(Graph(files)) \subseteq files
  BY <1>1, <1>4, GraphOfView
<1>6. p \in Passes
  BY <1>4, <1>5, EmptyIsArchive, IdleIsPass DEF Passes, Inspected, Idle
<1> HIDE DEF p
<1>7. /\ pass' \in [Devices -> Passes] /\ pass'[d] = p
      /\ pending' \in [Devices -> DOMAIN written \cup {NoRevision}]
      /\ pending'[d] = IF pending[d] \in files THEN NoRevision ELSE pending[d]
  BY <1>1, <1>2, <1>6 DEF TypeOK
<1>8. TypeOK'
  <2>1. \A e \in Devices : pass'[e].step = "uploading" => pending'[e] # NoRevision
    BY <1>1, <1>2, <1>3, <1>7 DEF TypeOK
  <2> QED
    BY <1>1, <1>2, <1>7, <2>1 DEF TypeOK, Passes
<1>9. Numbered' /\ Histories'
  BY <1>1, <1>2 DEF Numbered, Histories
<1>10. DeviceInv(d)'
  <2>1. pending'[d] \notin files
    BY <1>1, <1>4, <1>7, Numbers
  <2>2. Graph(files)' = Graph(files)
    BY <1>2 DEF Graph
  <2>3. Consistent(local[d]) /\ Consistent(Empty)
    BY <1>1, EmptyIsArchive DEF TypeOK, Consistent, Live
  <2>4. PassInv(d)'
    BY <1>1, <1>2, <1>3, <1>7, <2>1, <2>2, <2>3
       DEF DeviceInv, BaseInv, PassInv, Known, Graph
  <2>5. BaseInv(d)' /\ CheckInv(d)'
    BY <1>1, <1>2 DEF DeviceInv, BaseInv, CheckInv, Graph
  <2> QED
    BY <2>4, <2>5 DEF DeviceInv
<1>11. ASSUME NEW e \in Devices \ {d}
       PROVE  DeviceInv(e)'
  <2>1. pass'[e] = pass[e] /\ pending'[e] = pending[e]
    BY <1>1, <1>2, <1>11 DEF TypeOK
  <2> QED
    BY <1>2, <2>1, Untouched DEF Extends
<1> QED
  BY <1>8, <1>9, <1>10, <1>11 DEF IInv

LEMMA MergeHeadKeeps ==
  ASSUME IInv, NEW d \in Devices, MergeHead(d)
  PROVE  IInv'
<1>1. TypeOK /\ Numbered /\ Histories /\ DeviceInv(d)
  BY DEF IInv
<1> DEFINE old == pass[d]
<1>0. PICK h \in First(d) :
        \E state \in Reconciled(old.remote, written[h].archive, Base(old.view, h)) :
          pass' = [pass EXCEPT ![d].todo = @ \ {h}, ![d].remote = state,
                     ![d].forked = @ \/ Conflict(old.remote, written[h].archive, Base(old.view, h))]
  BY DEF MergeHead
<1>2. PICK state \in Reconciled(old.remote, written[h].archive, Base(old.view, h)) :
        pass' = [pass EXCEPT ![d].todo = @ \ {h}, ![d].remote = state,
                   ![d].forked = @ \/ Conflict(old.remote, written[h].archive, Base(old.view, h))]
  BY <1>0
<1>3. /\ local' = local /\ written' = written /\ files' = files /\ baseline' = baseline
      /\ pending' = pending /\ checkpoint' = checkpoint /\ wire' = wire /\ done' = done
  BY DEF MergeHead
<1> DEFINE forked == old.forked \/ Conflict(old.remote, written[h].archive, Base(old.view, h))
           p == [old EXCEPT !.todo = @ \ {h}, !.remote = state, !.forked = forked]
<1>4. old \in Passes /\ pass \in [Devices -> Passes]
  BY <1>1 DEF TypeOK
<1>5. pass' = [pass EXCEPT ![d] = p]
  BY <1>2, <1>4
<1>6. h \in old.todo /\ \A x \in old.todo : h <= x
  BY DEF First
<1>7. old.step = "exported"
  BY DEF MergeHead
<1>8. /\ old.view \in SUBSET DOMAIN written /\ old.remote \in Archive
      /\ old.heads = Heads(Graph(old.view)) /\ old.todo \subseteq old.heads
      /\ old.heads \subseteq DOMAIN written
  BY <1>1, <1>4, <1>7 DEF DeviceInv, PassInv, Passes
<1>9. h \in old.heads /\ h \in DOMAIN written /\ written[h].archive \in Archive
  BY <1>1, <1>6, <1>8 DEF TypeOK
<1>10. Base(old.view, h) \in Archive
  BY <1>1, <1>8, <1>9, BaseKnown
<1>11. /\ state \in Archive /\ Consistent(state)
       /\ Known(state) = Known(old.remote) \cup Known(written[h].archive)
  BY <1>8, <1>9, <1>10, ReconciledAccounts
<1>12. p \in Passes
  <2>1. forked \in BOOLEAN
    BY <1>4 DEF Passes
  <2> HIDE DEF forked
  <2> QED
    BY <1>4, <1>11, <2>1 DEF Passes
<1>13. /\ p.step = "exported" /\ p.view = old.view /\ p.heads = old.heads
       /\ p.todo = old.todo \ {h} /\ p.remote = state
       /\ p.exported = old.exported /\ p.steady = old.steady
  BY <1>4, <1>7 DEF Passes
<1> HIDE DEF p
<1>14. pass' \in [Devices -> Passes] /\ pass'[d] = p
  BY <1>4, <1>5, <1>12
<1>15. TypeOK'
  <2>1. \A e \in Devices : pass'[e].step = "uploading" => pending'[e] # NoRevision
    BY <1>1, <1>3, <1>4, <1>5, <1>13, <1>14 DEF TypeOK
  <2> QED
    BY <1>1, <1>3, <1>14, <2>1 DEF TypeOK, Passes
<1>16. Numbered' /\ Histories'
  BY <1>1, <1>3 DEF Numbered, Histories
<1>17. DeviceInv(d)'
  <2>1. p.heads = Heads(Graph(p.view)) /\ p.todo \subseteq p.heads /\ pending[d] \notin p.view
    BY <1>1, <1>7, <1>8, <1>13 DEF DeviceInv, PassInv
  <2>2. Consistent(p.remote) /\ Consistent(p.exported)
    BY <1>1, <1>7, <1>11, <1>13 DEF DeviceInv, PassInv
  <2>3. p.todo # p.heads
    BY <1>9, <1>13
  <2>4. \A x \in p.heads \ p.todo : Known(written[x].archive) \subseteq Known(p.remote)
    BY <1>1, <1>7, <1>11, <1>13 DEF DeviceInv, PassInv
  <2>5. \A x \in p.heads \ p.todo, t \in p.todo : x < t
    <3> SUFFICES ASSUME NEW x \in p.heads \ p.todo, NEW t \in p.todo PROVE x < t
      OBVIOUS
    <3>1. t \in old.todo /\ t # h /\ (x = h \/ x \in old.heads \ old.todo)
      BY <1>13
    <3>2. x \in Int /\ t \in Int /\ h \in Int
      <4>1. old.view \subseteq Int /\ old.heads \subseteq old.view
        BY <1>1, <1>8, GraphOfView
      <4> QED
        BY <1>8, <1>9, <1>13, <3>1, <4>1
    <3>3. x \in old.heads \ old.todo => x < t
      BY <1>1, <1>7, <3>1 DEF DeviceInv, PassInv
    <3> QED
      BY <1>6, <3>1, <3>2, <3>3
  <2>6. \A x \in p.heads \ p.todo :
          p.heads = {x} => Shown(p.remote) = Shown(written[x].archive)
    <3> SUFFICES ASSUME NEW x \in p.heads \ p.todo, p.heads = {x}
                 PROVE  Shown(p.remote) = Shown(written[x].archive)
      OBVIOUS
    <3>1. x = h /\ old.heads = {h} /\ old.todo = old.heads
      BY <1>6, <1>8, <1>9, <1>13
    <3>2. old.remote = Empty
      BY <1>1, <1>7, <3>1 DEF DeviceInv, PassInv
    <3>3. Base(old.view, h) = Empty
      BY <1>1, <1>8, <3>1, BaseAlone
    <3>4. Consistent(written[h].archive)
      BY <1>1, <1>9 DEF Histories
    <3> QED
      BY <1>9, <1>13, <3>1, <3>2, <3>3, <3>4, ReconciledAlone
  <2>7. /\ p.steady => Shown(p.exported) = Shown(local[d])
        /\ baseline[d].archive.snaps \subseteq Known(p.exported)
        /\ p.exported.snaps \subseteq Known(local[d])
    BY <1>1, <1>7, <1>13 DEF DeviceInv, PassInv
  <2>8. PassInv(d)'
    BY <1>3, <1>13, <1>14, <2>1, <2>2, <2>3, <2>4, <2>5, <2>6, <2>7 DEF PassInv, Graph
  <2>9. BaseInv(d)' /\ CheckInv(d)'
    BY <1>1, <1>3 DEF DeviceInv, BaseInv, CheckInv, Graph
  <2> QED
    BY <2>8, <2>9 DEF DeviceInv
<1>18. ASSUME NEW e \in Devices \ {d}
       PROVE  DeviceInv(e)'
  <2>1. pass'[e] = pass[e]
    BY <1>4, <1>5, <1>18
  <2> QED
    BY <1>3, <2>1, Untouched DEF Extends
<1> QED
  BY <1>15, <1>16, <1>17, <1>18 DEF IInv

(***************************************************************************)
(* A pass ends, or starts to upload                                        *)
(***************************************************************************)
LEMMA MergedFacts ==
  ASSUME IInv, NEW d \in Devices, Ready(d), NEW state \in Merged(d),
         Replaces(d, state) => Unmoved(d)
  PROVE  /\ state \in Archive /\ Consistent(state)
         /\ Known(pass[d].remote) \subseteq Known(state)
         /\ Updated(d, state) \in Archive /\ Consistent(Updated(d, state))
         /\ Known(local[d]) \subseteq Known(Updated(d, state))
         /\ state.snaps \subseteq Known(Updated(d, state))
         /\ ~Replaces(d, state) =>
              /\ Shown(Updated(d, state)) = Shown(local[d])
              /\ pass[d].steady => Shown(state) = Shown(local[d])
<1> DEFINE p == pass[d]
           new == Updated(d, state)
<1>1. TypeOK /\ DeviceInv(d) /\ p.step = "exported"
  BY DEF IInv, Ready
<1>2. p \in Passes /\ local[d] \in Archive /\ p.exported \in Archive /\ p.remote \in Archive
  BY <1>1 DEF TypeOK, Passes
<1>3. Consistent(local[d])
  BY <1>1 DEF TypeOK, Consistent, Live
<1>4. Left(d) \in Archive
  BY <1>2 DEF Left
<1>5. KnownBase(d, p.view) \in Archive
  BY <1>1, EmptyIsArchive DEF KnownBase, TypeOK
<1>6. /\ state \in Archive /\ Consistent(state)
      /\ Known(state) = Known(Left(d)) \cup Known(p.remote)
  BY <1>2, <1>4, <1>5, ReconciledAccounts DEF Merged
<1>7. CASE Replaces(d, state)
  <2>1. new = state /\ Left(d) = local[d]
    BY <1>7 DEF Updated, Left, Unmoved
  <2>2. Known(local[d]) \subseteq Known(state) /\ state.snaps \subseteq Known(state)
    BY <1>6, <2>1 DEF Known
  <2> QED
    BY <1>6, <1>7, <2>1, <2>2
<1>8. CASE ~Replaces(d, state)
  <2>1. new = [local[d] EXCEPT !.hist = @ \cup state.hist,
                               !.at = IF @ = p.exported.at THEN state.at ELSE @,
                               !.gone = @ \cup state.gone]
    BY <1>8 DEF Updated
  <2>2. /\ new.dead = local[d].dead /\ new.snaps = local[d].snaps
        /\ new.label = local[d].label /\ new.gone = local[d].gone \cup state.gone
    BY <1>2, <2>1 DEF Archive
  <2>3. new \in Archive
    <3>1. state.at \in Nat /\ state.hist \subseteq Nat /\ state.gone \subseteq Snaps
      BY <1>6 DEF Archive
    <3>2. /\ local[d].hist \cup state.hist \subseteq Nat
          /\ local[d].gone \cup state.gone \subseteq Snaps
      BY <1>2, <3>1 DEF Archive
    <3>3. (IF local[d].at = p.exported.at THEN state.at ELSE local[d].at) \in Nat
      BY <1>2, <3>1 DEF Archive
    <3> HIDE DEF new, p
    <3> QED
      BY <1>2, <2>1, <3>2, <3>3 DEF Archive
  <2> HIDE DEF new
  <2>4. Consistent(new) /\ Known(local[d]) \subseteq Known(new) /\ Shown(new) = Shown(local[d])
    BY <1>3, <2>2 DEF Consistent, Known, Shown
  <2>5. Shown(state) = Shown(p.exported)
    BY <1>8 DEF Replaces
  <2>6. state.snaps \subseteq Known(new)
    <3>1. state.snaps = p.exported.snaps
      BY <2>5 DEF Shown
    <3>2. p.exported.snaps \subseteq Known(local[d])
      BY <1>1 DEF DeviceInv, PassInv
    <3> QED
      BY <2>4, <3>1, <3>2
  <2>7. p.steady => Shown(state) = Shown(local[d])
    BY <1>1, <2>5 DEF DeviceInv, PassInv
  <2>8. /\ new \in Archive /\ Consistent(new) /\ Known(local[d]) \subseteq Known(new)
        /\ state.snaps \subseteq Known(new) /\ Shown(new) = Shown(local[d])
    BY <2>3, <2>4, <2>6
  <2>9. Known(p.remote) \subseteq Known(state)
    BY <1>6
  <2> HIDE DEF p
  <2> QED
    BY <1>6, <1>8, <2>7, <2>8, <2>9 DEF new, p
<1> QED
  BY <1>7, <1>8

(* The heads as a pass that is ready to merge finds them. *)
LEMMA ReadyFacts ==
  ASSUME IInv, NEW d \in Devices, Ready(d)
  PROVE  /\ pass[d] \in Passes
         /\ pass[d].view \in SUBSET DOMAIN written
         /\ pass[d].heads = Heads(Graph(pass[d].view))
         /\ pass[d].heads \subseteq pass[d].view
         /\ IsFiniteSet(pass[d].heads)
         /\ pending[d] \notin pass[d].view
         /\ \A h \in pass[d].heads : Known(written[h].archive) \subseteq Known(pass[d].remote)
         /\ \A h : pass[d].heads = {h} => Shown(pass[d].remote) = Shown(written[h].archive)
<1>1. TypeOK /\ Numbered /\ DeviceInv(d)
  BY DEF IInv
<1>2. pass[d] \in Passes /\ pass[d].view \in SUBSET DOMAIN written
  BY <1>1 DEF TypeOK, Passes
<1>3. /\ Heads(Graph(pass[d].view)) \subseteq pass[d].view /\ IsFiniteSet(pass[d].view)
  BY <1>1, <1>2, GraphOfView
<1>4. IsFiniteSet(Heads(Graph(pass[d].view)))
  BY <1>3, FS_Subset
<1> QED
  BY <1>1, <1>2, <1>3, <1>4 DEF DeviceInv, PassInv, Ready

(* The revision that a pass uploads: it is not listed, no listed revision
   names it, and its parents are the heads, so it is the new head. *)
LEMMA UploadIsHead ==
  ASSUME IInv, NEW d \in Devices, Ready(d), NEW r, Extends,
         r \notin pass[d].view, written'[r].parents = pass[d].heads,
         \/ r \notin DOMAIN written /\ r = Cardinality(DOMAIN written) + 1
         \/ r \in DOMAIN written /\ written'[r] = written[r]
  PROVE  Heads([x \in pass[d].view \cup {r} |-> written'[x].parents]) = {r}
<1> DEFINE view == pass[d].view
           g == Graph(view)
           f == [x \in view \cup {r} |-> written'[x].parents]
<1>1. TypeOK /\ Numbered
  BY DEF IInv
<1>2. view \in SUBSET DOMAIN written /\ pass[d].heads = Heads(g)
  BY ReadyFacts
<1>3. /\ DOMAIN g = view /\ view \subseteq Int /\ IsFiniteSet(view)
      /\ \A x \in view : g[x] = written[x].parents
  BY <1>1, <1>2, GraphOfView
<1>4. \A x \in view : written[x].parents \subseteq 1 .. (x - 1)
  BY <1>1, <1>2 DEF TypeOK
<1>5. PICK n \in Nat : DOMAIN written = 1 .. n /\ Cardinality(DOMAIN written) = n
  BY <1>1, FS_Interval DEF Numbered
<1>6. \A x \in view : r \notin written[x].parents
  <2>1. CASE r \notin DOMAIN written /\ r = Cardinality(DOMAIN written) + 1
    BY <1>2, <1>3, <1>4, <1>5, <2>1
  <2>2. CASE r \in DOMAIN written /\ written'[r] = written[r]
    <3> SUFFICES ASSUME NEW x \in view PROVE r \notin written[x].parents
      OBVIOUS
    <3>1. PICK m \in view : \A y \in view : y <= m
      <4>1. view \in SUBSET Int /\ IsFiniteSet(view) /\ view # {}
        BY <1>3
      <4> HIDE DEF view
      <4> QED
        BY <4>1, HasGreatest
    <3>2. m \in Heads(g)
      <4>1. SUFFICES ASSUME NEW y \in view, m \in g[y] PROVE FALSE
        BY <1>3 DEF Heads
      <4>2. m \in 1 .. (y - 1)
        BY <1>3, <1>4, <4>1
      <4> QED
        BY <1>3, <3>1, <4>2
    <3>3. m \in written[r].parents
      BY <1>2, <2>2, <3>2
    <3>4. r \in Int /\ m < r
      <4>1. written[r].parents \subseteq 1 .. (r - 1)
        BY <1>1, <2>2 DEF TypeOK
      <4>2. r \in Int
        BY <1>5, <2>2
      <4> QED
        BY <3>3, <4>1, <4>2
    <3>5. x <= m /\ x \in Int /\ m \in Int
      BY <1>3, <3>1
    <3> QED
      BY <1>4, <3>4, <3>5
  <2> QED
    BY <2>1, <2>2
<1>7. \A x \in view : f[x] = g[x]
  BY <1>2, <1>3 DEF Extends
<1>8. f[r] = Heads(g) /\ DOMAIN f = view \cup {r}
  BY <1>2
<1>9. \A x \in view : r \notin g[x]
  BY <1>3, <1>6
<1>10. Heads(f) = {r}
  <2>1. r \notin view
    OBVIOUS
  <2> HIDE DEF f, g, view
  <2> QED
    BY <1>3, <1>7, <1>8, <1>9, <2>1, ChildIsHead
<1> QED
  BY <1>10

(* What is written when an upload is prepared. *)
LEMMA PrepareWrites ==
  ASSUME IInv, NEW d \in Devices, Ready(d), NEW state \in Archive, Consistent(state),
         Known(pass[d].remote) \subseteq Known(state), Prepare(d, state)
  PROVE  /\ Extends
         /\ Numbered' /\ Histories'
         /\ \A x \in DOMAIN written' :
              written'[x].parents \subseteq 1 .. (x - 1) /\ written'[x].archive \in Archive
         /\ \E r \in DOMAIN written' :
              /\ r # NoRevision /\ r \notin pass[d].view
              /\ pending' = [pending EXCEPT ![d] = r]
              /\ written'[r].parents = pass[d].heads
              /\ Shown(written'[r].archive) = Shown(state)
              /\ \/ r \notin DOMAIN written /\ r = Cardinality(DOMAIN written) + 1
                 \/ r \in DOMAIN written /\ written'[r] = written[r]
<1>1. TypeOK /\ Numbered /\ Histories
  BY DEF IInv
<1>2. /\ pass[d].heads \subseteq pass[d].view /\ pass[d].view \in SUBSET DOMAIN written
      /\ pending[d] \notin pass[d].view
      /\ \A h \in pass[d].heads : Known(written[h].archive) \subseteq Known(pass[d].remote)
  BY ReadyFacts
<1>3. PICK n \in Nat : DOMAIN written = 1 .. n /\ Cardinality(DOMAIN written) = n
  BY <1>1, FS_Interval DEF Numbered
<1>4. /\ pending[d] \in DOMAIN written \cup {NoRevision}
      /\ pending \in [Devices -> DOMAIN written \cup {NoRevision}]
      /\ \A x \in DOMAIN written :
           written[x].parents \subseteq 1 .. (x - 1) /\ written[x].archive \in Archive
  BY <1>1 DEF TypeOK
<1>5. CASE Reusable(d, state)
  <2>1. written' = written /\ pending' = pending
    BY <1>5 DEF Prepare
  <2>2. /\ pending[d] # NoRevision
        /\ Shown(written[pending[d]].archive) = Shown(state)
        /\ written[pending[d]].parents = pass[d].heads
    BY <1>5 DEF Reusable
  <2>3. pending' = [pending EXCEPT ![d] = pending[d]]
    BY <1>4, <2>1
  <2>4. Extends /\ Numbered' /\ Histories'
    BY <1>1, <2>1 DEF Extends, Numbered, Histories
  <2> QED
    BY <1>2, <1>4, <2>1, <2>2, <2>3, <2>4
<1>6. CASE ~Reusable(d, state)
  <2> DEFINE r == Cardinality(DOMAIN written) + 1
             new == [parents |-> pass[d].heads, archive |-> state]
  <2>1. /\ pending' = [pending EXCEPT ![d] = r]
        /\ written' = [x \in DOMAIN written \cup {r} |->
                         IF x = r THEN new ELSE written[x]]
    BY <1>6 DEF Prepare, Parents
  <2>2. r = n + 1 /\ r \notin DOMAIN written /\ r # NoRevision /\ r \in Int
    BY <1>3 DEF NoRevision
  <2> HIDE DEF r
  <2>3. /\ DOMAIN written' = DOMAIN written \cup {r} /\ written'[r] = new
        /\ \A x \in DOMAIN written : written'[x] = written[x]
    BY <2>1, <2>2
  <2>4. Extends
    BY <2>3 DEF Extends
  <2>5. DOMAIN written' = 1 .. (n + 1)
    BY <1>3, <2>2, <2>3
  <2>6. Numbered'
    BY <2>5 DEF Numbered
  <2>7. pass[d].heads \subseteq DOMAIN written
    BY <1>2
  <2>8. pass[d].heads \subseteq 1 .. (r - 1)
    BY <1>3, <2>2, <2>7
  <2>9. \A x \in DOMAIN written' :
          written'[x].parents \subseteq 1 .. (x - 1) /\ written'[x].archive \in Archive
    BY <1>4, <2>3, <2>8
  <2>10. Histories'
    <3> SUFFICES ASSUME NEW x \in DOMAIN written'
                 PROVE  /\ Consistent(written'[x].archive)
                        /\ \A p \in written'[x].parents :
                             Known(written'[p].archive) \subseteq Known(written'[x].archive)
      BY DEF Histories
    <3>1. CASE x = r
      BY <1>2, <2>3, <2>7, <3>1
    <3>2. CASE x \in DOMAIN written
      <4>1. written[x].parents \subseteq DOMAIN written
        <5>1. written[x].parents \subseteq 1 .. (x - 1) /\ x \in 1 .. n
          BY <1>3, <1>4, <3>2
        <5> QED
          BY <1>3, <5>1
      <4> QED
        BY <1>1, <2>3, <3>2, <4>1 DEF Histories
    <3> QED
      BY <2>3, <3>1, <3>2
  <2>11. Shown(written'[r].archive) = Shown(state) /\ written'[r].parents = pass[d].heads
    BY <2>3
  <2>12. r \in DOMAIN written' /\ r \notin pass[d].view
    BY <1>2, <2>2, <2>3
  <2> QED
    BY <2>1, <2>2, <2>4, <2>6, <2>9, <2>10, <2>11, <2>12 DEF r
<1> QED
  BY <1>5, <1>6

LEMMA MergeUploads ==
  ASSUME IInv, NEW d \in Devices, Ready(d), NEW state \in Merged(d),
         Replaces(d, state) => Unmoved(d),
         local' = [local EXCEPT ![d] = Updated(d, state)],
         Prepare(d, state),
         checkpoint' = [checkpoint EXCEPT ![d] = Forget(d, state)],
         UNCHANGED <<files, wire, done>>
  PROVE  IInv'
<1>1. TypeOK /\ Numbered /\ Histories /\ DeviceInv(d)
  BY DEF IInv
<1> DEFINE up == [Idle EXCEPT !.step = "uploading", !.view = pass[d].view, !.result = state,
                              !.steady = pass[d].steady /\ ~Replaces(d, state)]
<1>2. /\ state \in Archive /\ Consistent(state)
      /\ Known(pass[d].remote) \subseteq Known(state)
      /\ Updated(d, state) \in Archive /\ Consistent(Updated(d, state))
      /\ Known(local[d]) \subseteq Known(Updated(d, state))
      /\ state.snaps \subseteq Known(Updated(d, state))
      /\ ~Replaces(d, state) =>
           /\ Shown(Updated(d, state)) = Shown(local[d])
           /\ pass[d].steady => Shown(state) = Shown(local[d])
  BY MergedFacts
<1>3. /\ Extends /\ Numbered' /\ Histories'
      /\ \A x \in DOMAIN written' :
           written'[x].parents \subseteq 1 .. (x - 1) /\ written'[x].archive \in Archive
  BY <1>2, PrepareWrites
<1>4. PICK r \in DOMAIN written' :
        /\ r # NoRevision /\ r \notin pass[d].view
        /\ pending' = [pending EXCEPT ![d] = r]
        /\ written'[r].parents = pass[d].heads
        /\ Shown(written'[r].archive) = Shown(state)
        /\ \/ r \notin DOMAIN written /\ r = Cardinality(DOMAIN written) + 1
           \/ r \in DOMAIN written /\ written'[r] = written[r]
  BY <1>2, PrepareWrites
<1>5. pass' = [pass EXCEPT ![d] = up] /\ baseline' = baseline
  BY DEF Prepare
<1>6. DOMAIN written \subseteq DOMAIN written'
  BY <1>3 DEF Extends
<1>7. /\ pass \in [Devices -> Passes] /\ pass[d] \in Passes
      /\ pass[d].view \in SUBSET DOMAIN written /\ pass[d].steady \in BOOLEAN
  BY <1>1 DEF TypeOK, Passes
<1>8. Passes \subseteq Passes'
  BY <1>6 DEF Passes
<1>9. /\ up.step = "uploading" /\ up.view = pass[d].view /\ up.result = state
      /\ up.steady => pass[d].steady /\ ~Replaces(d, state)
  BY DEF Idle
<1>10. up \in Passes
  <2>1. (pass[d].steady /\ ~Replaces(d, state)) \in BOOLEAN
    OBVIOUS
  <2> QED
    BY <1>2, <1>7, <2>1, IdleIsPass DEF Passes, Idle
<1> HIDE DEF up
<1>11. /\ pass' \in [Devices -> Passes'] /\ pass'[d] = up
       /\ \A e \in Devices \ {d} : pass'[e] = pass[e]
  BY <1>5, <1>7, <1>8, <1>10
<1>12. /\ local' \in [Devices -> Archive] /\ local'[d] = Updated(d, state)
       /\ \A e \in Devices \ {d} : local'[e] = local[e]
       /\ \A e \in Devices : local'[e].dead => ~Live(local'[e])
  BY <1>1, <1>2 DEF TypeOK, Consistent, Live
<1>13. /\ pending' \in [Devices -> DOMAIN written' \cup {NoRevision}] /\ pending'[d] = r
       /\ \A e \in Devices \ {d} : pending'[e] = pending[e]
  BY <1>1, <1>4, <1>6 DEF TypeOK
<1>14. /\ checkpoint' \in [Devices -> SUBSET DOMAIN written']
       /\ checkpoint'[d] = Forget(d, state)
       /\ \A e \in Devices \ {d} : checkpoint'[e] = checkpoint[e]
  BY <1>1, <1>6 DEF TypeOK, Forget
<1>15. TypeOK'
  <2>1. DOMAIN written' = 1 .. Cardinality(DOMAIN written')
    <3>1. PICK n \in Nat : DOMAIN written' = 1 .. n
      BY <1>3 DEF Numbered
    <3>2. Cardinality(1 .. n) = n
      BY <3>1, FS_Interval
    <3> QED
      BY <3>1, <3>2
  <2>2. baseline' \in [Devices -> [archive : Archive, heads : SUBSET DOMAIN written']]
    <3>1. [archive : Archive, heads : SUBSET DOMAIN written] \subseteq
            [archive : Archive, heads : SUBSET DOMAIN written']
      BY <1>6
    <3> QED
      BY <1>1, <1>5, <3>1 DEF TypeOK
  <2>3. \A e \in Devices : pass'[e].step = "uploading" => pending'[e] # NoRevision
    BY <1>1, <1>4, <1>11, <1>13 DEF TypeOK
  <2>4. files' \subseteq DOMAIN written' /\ wire' \subseteq DOMAIN written'
    BY <1>1, <1>6 DEF TypeOK
  <2>5. done' \in [edits : Nat, deletes : Nat, faults : Nat]
    BY <1>1 DEF TypeOK
  <2> QED
    BY <1>3, <1>11, <1>12, <1>13, <1>14, <2>1, <2>2, <2>3, <2>4, <2>5 DEF TypeOK
<1>16. DeviceInv(d)'
  <2>1. Heads([x \in pass[d].view \cup {r} |-> written'[x].parents]) = {r}
    BY <1>3, <1>4, UploadIsHead
  <2>2. Graph(pass[d].view \cup {pending[d]})' = [x \in up.view \cup {r} |-> written'[x].parents]
    BY <1>11, <1>13 DEF Graph
  <2>3. PassInv(d)'
    BY <1>2, <1>4, <1>9, <1>11, <1>12, <1>13, <2>1, <2>2 DEF PassInv
  <2>4. BaseInv(d)'
    <3>1. \A h \in baseline[d].heads : written'[h] = written[h]
      BY <1>1, <1>3 DEF TypeOK, Extends
    <3> QED
      BY <1>1, <1>2, <1>5, <1>12, <3>1 DEF DeviceInv, BaseInv
  <2>5. CheckInv(d)'
    <3> SUFFICES ASSUME checkpoint'[d] # {}
                 PROVE  \E h \in checkpoint'[d] :
                          /\ Heads(Graph(checkpoint[d])') = {h}
                          /\ Shown(written'[h].archive) = Shown(local'[d])
      BY DEF CheckInv
    <3>1. ~Replaces(d, state) /\ checkpoint'[d] = checkpoint[d]
      BY <1>14 DEF Forget
    <3>2. checkpoint[d] \subseteq DOMAIN written
      BY <1>1 DEF TypeOK
    <3>3. Graph(checkpoint[d])' = Graph(checkpoint[d])
      <4>1. Graph(checkpoint[d])' = [x \in checkpoint[d] |-> written'[x].parents]
        BY <3>1 DEF Graph
      <4> QED
        BY <1>3, <3>2, <4>1 DEF Graph, Extends
    <3> QED
      BY <1>1, <1>2, <1>3, <1>12, <3>1, <3>2, <3>3 DEF DeviceInv, CheckInv, Extends
  <2> QED
    BY <2>3, <2>4, <2>5 DEF DeviceInv
<1>17. ASSUME NEW e \in Devices \ {d}
       PROVE  DeviceInv(e)'
  <2>1. baseline'[e] = baseline[e]
    BY <1>5
  <2> QED
    BY <1>3, <1>11, <1>12, <1>13, <1>14, <2>1, Untouched
<1> QED
  BY <1>3, <1>15, <1>16, <1>17 DEF IInv

(* A pass ends with what it found agreed and checked. *)
LEMMA PassSettles ==
  ASSUME IInv, NEW d \in Devices, NEW archive \in Archive, Consistent(archive),
         NEW base \in [archive : Archive, heads : SUBSET DOMAIN written],
         base.archive.snaps \subseteq Known(archive),
         \A s \in base.archive.snaps : \E h \in base.heads : s \in Known(written[h].archive),
         NEW check \in SUBSET DOMAIN written,
         check # {} => \E h \in check : /\ Heads(Graph(check)) = {h}
                                       /\ Shown(written[h].archive) = Shown(archive),
         NEW last \in DOMAIN written \cup {NoRevision},
         local' = [local EXCEPT ![d] = archive], pass' = [pass EXCEPT ![d] = Idle],
         baseline' = [baseline EXCEPT ![d] = base], pending' = [pending EXCEPT ![d] = last],
         checkpoint' = [checkpoint EXCEPT ![d] = check],
         files' \subseteq DOMAIN written, UNCHANGED <<written, wire, done>>
  PROVE  IInv'
<1>1. TypeOK /\ Numbered /\ Histories
  BY DEF IInv
<1>2. /\ local' \in [Devices -> Archive] /\ local'[d] = archive
      /\ \A e \in Devices : local'[e].dead => ~Live(local'[e])
      /\ pass' \in [Devices -> Passes] /\ pass'[d] = Idle
      /\ baseline' \in [Devices -> [archive : Archive, heads : SUBSET DOMAIN written]]
      /\ baseline'[d] = base
      /\ pending' \in [Devices -> DOMAIN written \cup {NoRevision}]
      /\ checkpoint' \in [Devices -> SUBSET DOMAIN written] /\ checkpoint'[d] = check
  BY <1>1, IdleIsPass DEF TypeOK, Consistent, Live
<1>3. \A e \in Devices \ {d} :
        /\ local'[e] = local[e] /\ pass'[e] = pass[e] /\ baseline'[e] = baseline[e]
        /\ pending'[e] = pending[e] /\ checkpoint'[e] = checkpoint[e]
  BY <1>1 DEF TypeOK
<1>4. Idle.step = "idle"
  BY DEF Idle
<1>5. TypeOK'
  <2>1. \A e \in Devices : pass'[e].step = "uploading" => pending'[e] # NoRevision
    BY <1>1, <1>2, <1>3, <1>4 DEF TypeOK
  <2> QED
    BY <1>1, <1>2, <2>1 DEF TypeOK, Passes
<1>6. Numbered' /\ Histories'
  BY <1>1 DEF Numbered, Histories
<1>7. DeviceInv(d)'
  BY <1>2, <1>4 DEF DeviceInv, PassInv, BaseInv, CheckInv, Graph
<1>8. ASSUME NEW e \in Devices \ {d}
      PROVE  DeviceInv(e)'
  BY <1>3, Untouched DEF Extends
<1> QED
  BY <1>5, <1>6, <1>7, <1>8 DEF IInv

LEMMA MergeIsFull ==
  ASSUME IInv, NEW d \in Devices, Ready(d), NEW state \in Merged(d),
         Replaces(d, state) => Unmoved(d),
         local' = [local EXCEPT ![d] = Updated(d, state)],
         pass' = [pass EXCEPT ![d] = Idle],
         checkpoint' = [checkpoint EXCEPT ![d] = Forget(d, state)],
         UNCHANGED <<written, baseline, pending, files, wire, done>>
  PROVE  IInv'
<1>1. TypeOK /\ DeviceInv(d)
  BY DEF IInv
<1>2. /\ Updated(d, state) \in Archive /\ Consistent(Updated(d, state))
      /\ Known(local[d]) \subseteq Known(Updated(d, state))
      /\ ~Replaces(d, state) => Shown(Updated(d, state)) = Shown(local[d])
  BY MergedFacts
<1>3. /\ baseline[d] \in [archive : Archive, heads : SUBSET DOMAIN written]
      /\ pending[d] \in DOMAIN written \cup {NoRevision}
      /\ checkpoint[d] \in SUBSET DOMAIN written
      /\ files \subseteq DOMAIN written
      /\ baseline' = [baseline EXCEPT ![d] = baseline[d]]
      /\ pending' = [pending EXCEPT ![d] = pending[d]]
  BY <1>1 DEF TypeOK
<1>4. /\ baseline[d].archive.snaps \subseteq Known(Updated(d, state))
      /\ \A s \in baseline[d].archive.snaps :
           \E h \in baseline[d].heads : s \in Known(written[h].archive)
  BY <1>1, <1>2 DEF DeviceInv, BaseInv
<1>5. /\ Forget(d, state) \in SUBSET DOMAIN written
      /\ Forget(d, state) # {} =>
           \E h \in Forget(d, state) :
             /\ Heads(Graph(Forget(d, state))) = {h}
             /\ Shown(written[h].archive) = Shown(Updated(d, state))
  BY <1>1, <1>2, <1>3 DEF DeviceInv, CheckInv, Forget
<1> QED
  BY <1>2, <1>3, <1>4, <1>5, PassSettles

LEMMA MergeSyncs ==
  ASSUME IInv, NEW d \in Devices, Ready(d), NEW state \in Merged(d),
         Replaces(d, state) => Unmoved(d),
         local' = [local EXCEPT ![d] = Updated(d, state)],
         ~NeedsUpload(d, state),
         Synced(d, state, Parents(d)),
         checkpoint' = [checkpoint EXCEPT ![d] =
           Matching(d, pass[d].view, pass[d].steady /\ ~Replaces(d, state))],
         UNCHANGED <<written, pending, files, wire, done>>
  PROVE  IInv'
<1>1. TypeOK
  BY DEF IInv
<1>2. /\ state \in Archive
      /\ Updated(d, state) \in Archive /\ Consistent(Updated(d, state))
      /\ state.snaps \subseteq Known(Updated(d, state))
      /\ ~Replaces(d, state) =>
           /\ Shown(Updated(d, state)) = Shown(local[d])
           /\ pass[d].steady => Shown(state) = Shown(local[d])
  BY MergedFacts
<1>3. /\ pass[d].view \in SUBSET DOMAIN written
      /\ pass[d].heads = Heads(Graph(pass[d].view)) /\ pass[d].heads \subseteq pass[d].view
      /\ IsFiniteSet(pass[d].heads)
      /\ \A h : pass[d].heads = {h} => Shown(pass[d].remote) = Shown(written[h].archive)
  BY ReadyFacts
<1>4. Cardinality(pass[d].heads) = 1 /\ Shown(state) = Shown(pass[d].remote)
  BY DEF NeedsUpload
<1>5. PICK h : pass[d].heads = {h}
  BY <1>3, <1>4, FS_Singleton
<1>6. Shown(state) = Shown(written[h].archive) /\ h \in pass[d].view
  BY <1>3, <1>4, <1>5
<1> DEFINE base == [archive |-> state, heads |-> pass[d].heads]
           check == Matching(d, pass[d].view, pass[d].steady /\ ~Replaces(d, state))
<1>7. /\ base \in [archive : Archive, heads : SUBSET DOMAIN written]
      /\ base.archive.snaps \subseteq Known(Updated(d, state))
  BY <1>2, <1>3
<1>8. \A s \in base.archive.snaps : \E x \in base.heads : s \in Known(written[x].archive)
  <2>1. state.snaps = written[h].archive.snaps
    BY <1>6 DEF Shown
  <2> QED
    BY <1>5, <2>1 DEF Known
<1>9. /\ check \in SUBSET DOMAIN written
      /\ check # {} => \E x \in check : /\ Heads(Graph(check)) = {x}
                                        /\ Shown(written[x].archive) = Shown(Updated(d, state))
  <2>1. CASE pass[d].steady /\ ~Replaces(d, state)
    BY <1>2, <1>3, <1>5, <1>6, <2>1 DEF Matching
  <2>2. CASE ~(pass[d].steady /\ ~Replaces(d, state))
    BY <2>2 DEF Matching
  <2> QED
    BY <2>1, <2>2
<1>10. /\ pending[d] \in DOMAIN written \cup {NoRevision}
       /\ files \subseteq DOMAIN written
       /\ pending' = [pending EXCEPT ![d] = pending[d]]
  BY <1>1 DEF TypeOK
<1>11. baseline' = [baseline EXCEPT ![d] = base] /\ pass' = [pass EXCEPT ![d] = Idle]
  BY DEF Synced, Parents
<1> HIDE DEF base, check
<1>12. checkpoint' = [checkpoint EXCEPT ![d] = check]
  BY DEF check
<1> QED
  BY <1>2, <1>7, <1>8, <1>9, <1>10, <1>11, <1>12, PassSettles

LEMMA MergeKeeps ==
  ASSUME IInv, NEW d \in Devices, Merge(d)
  PROVE  IInv'
<1>1. Ready(d) /\ UNCHANGED <<files, wire, done>>
  BY DEF Merge
<1>2. PICK state \in Merged(d) :
       /\ Replaces(d, state) => Unmoved(d)
       /\ local' = [local EXCEPT ![d] = Updated(d, state)]
       /\ \/ /\ NeedsUpload(d, state)
             /\ Cardinality(pass[d].view) < MaxRevisions
             /\ Prepare(d, state)
             /\ checkpoint' = [checkpoint EXCEPT ![d] = Forget(d, state)]
          \/ /\ NeedsUpload(d, state)
             /\ Cardinality(pass[d].view) >= MaxRevisions
             /\ pass' = [pass EXCEPT ![d] = Idle]
             /\ checkpoint' = [checkpoint EXCEPT ![d] = Forget(d, state)]
             /\ UNCHANGED <<written, baseline, pending>>
          \/ /\ ~NeedsUpload(d, state)
             /\ Synced(d, state, Parents(d))
             /\ checkpoint' = [checkpoint EXCEPT ![d] =
                  Matching(d, pass[d].view, pass[d].steady /\ ~Replaces(d, state))]
             /\ UNCHANGED <<written, pending>>
  BY DEF Merge
<1>3. CASE Prepare(d, state) /\ checkpoint' = [checkpoint EXCEPT ![d] = Forget(d, state)]
  BY <1>1, <1>2, <1>3, MergeUploads
<1>4. CASE /\ pass' = [pass EXCEPT ![d] = Idle]
           /\ checkpoint' = [checkpoint EXCEPT ![d] = Forget(d, state)]
           /\ UNCHANGED <<written, baseline, pending>>
  BY <1>1, <1>2, <1>4, MergeIsFull
<1>5. CASE /\ ~NeedsUpload(d, state)
           /\ Synced(d, state, Parents(d))
           /\ checkpoint' = [checkpoint EXCEPT ![d] =
                Matching(d, pass[d].view, pass[d].steady /\ ~Replaces(d, state))]
           /\ UNCHANGED <<written, pending>>
  BY <1>1, <1>2, <1>5, MergeSyncs
<1> QED
  BY <1>2, <1>3, <1>4, <1>5

LEMMA PublishedKeeps ==
  ASSUME IInv, NEW d \in Devices, Published(d)
  PROVE  IInv'
<1>1. TypeOK /\ DeviceInv(d) /\ pass[d].step = "uploading"
  BY DEF IInv, Published
<1>2. /\ pass[d] \in Passes /\ pass[d].view \subseteq DOMAIN written
      /\ pass[d].result \in Archive /\ pending[d] \in DOMAIN written
      /\ local[d] \in Archive /\ Consistent(local[d])
      /\ local' = [local EXCEPT ![d] = local[d]]
  BY <1>1 DEF TypeOK, Passes, Consistent, Live, Published
<1>3. /\ Heads(Graph(pass[d].view \cup {pending[d]})) = {pending[d]}
      /\ Shown(written[pending[d]].archive) = Shown(pass[d].result)
      /\ pass[d].steady => Shown(pass[d].result) = Shown(local[d])
      /\ pass[d].result.snaps \subseteq Known(local[d])
  BY <1>1 DEF DeviceInv, PassInv
<1> DEFINE base == [archive |-> pass[d].result, heads |-> {pending[d]}]
           check == Matching(d, pass[d].view \cup {pending[d]}, pass[d].steady)
<1>4. /\ base \in [archive : Archive, heads : SUBSET DOMAIN written]
      /\ base.archive.snaps \subseteq Known(local[d])
  BY <1>2, <1>3
<1>5. \A s \in base.archive.snaps : \E h \in base.heads : s \in Known(written[h].archive)
  BY <1>3 DEF Known, Shown
<1>6. /\ check \in SUBSET DOMAIN written
      /\ check # {} => \E h \in check : /\ Heads(Graph(check)) = {h}
                                        /\ Shown(written[h].archive) = Shown(local[d])
  BY <1>2, <1>3 DEF Matching
<1>7. /\ baseline' = [baseline EXCEPT ![d] = base] /\ pass' = [pass EXCEPT ![d] = Idle]
      /\ pending' = [pending EXCEPT ![d] = NoRevision]
      /\ files' \subseteq DOMAIN written /\ UNCHANGED <<written, wire, done>>
  BY <1>1, <1>2 DEF Published, Synced, TypeOK
<1>8. checkpoint' = [checkpoint EXCEPT ![d] = check]
  BY DEF Published
<1> HIDE DEF base, check
<1> QED
  BY <1>2, <1>4, <1>5, <1>6, <1>7, <1>8, PassSettles

(***************************************************************************)
(* The invariant                                                           *)
(***************************************************************************)
LEMMA InitIInv == Init => IInv
<1> SUFFICES ASSUME Init PROVE IInv
  OBVIOUS
<1>1. PICK first \in {Empty} \cup Agreed :
        /\ local = [d \in Devices |-> first]
        /\ written = [r \in IF first # Empty THEN {1} ELSE {} |->
                        [parents |-> {}, archive |-> first]]
        /\ baseline = [d \in Devices |->
                         IF first # Empty THEN [archive |-> first, heads |-> {1}] ELSE NoBaseline]
        /\ done = [edits |-> IF first # Empty THEN 1 ELSE 0, deletes |-> 0, faults |-> 0]
  BY DEF Init
<1>2. first \in Archive /\ first.snaps = {} /\ Consistent(first)
  <2>1. CASE first = Empty
    BY <2>1, EmptyIsArchive DEF Empty
  <2>2. CASE first \in Agreed
    <3>1. PICK l \in Labels : first = [Empty EXCEPT !.label = l, !.at = 1, !.hist = {1}]
      BY <2>2 DEF Agreed
    <3>2. first = [dead |-> FALSE, snaps |-> {}, gone |-> {}, label |-> l, at |-> 1,
                   hist |-> {1}]
      BY <3>1 DEF Empty
    <3>3. first \in Archive
      <4>1. 1 \in Nat /\ {1} \subseteq Nat
        OBVIOUS
      <4> QED
        BY <3>2, <4>1 DEF Archive
    <3> QED
      BY <3>2, <3>3 DEF Consistent
  <2> QED
    BY <2>1, <2>2
<1>3. /\ files = DOMAIN written /\ pass = [d \in Devices |-> Idle]
      /\ pending = [d \in Devices |-> NoRevision]
      /\ checkpoint = [d \in Devices |-> {}] /\ wire = {}
  BY DEF Init
<1>4. PICK n \in {0, 1} : DOMAIN written = 1 .. n
  <2>1. CASE first # Empty
    <3>1. DOMAIN written = 1 .. 1
      BY <1>1, <2>1
    <3> QED
      BY <3>1
  <2>2. CASE first = Empty
    <3>1. DOMAIN written = 1 .. 0
      BY <1>1, <2>2
    <3> QED
      BY <3>1
  <2> QED
    BY <2>1, <2>2
<1>5. Numbered
  BY <1>4 DEF Numbered
<1>6. \A r \in DOMAIN written : written[r] = [parents |-> {}, archive |-> first]
  BY <1>1
<1>7. Histories
  BY <1>2, <1>6 DEF Histories
<1>8. \A d \in Devices : /\ baseline[d].archive.snaps = {}
                        /\ baseline[d] \in [archive : Archive, heads : SUBSET DOMAIN written]
  BY <1>1, <1>2, EmptyIsArchive DEF NoBaseline, Empty
<1>9. TypeOK
  <2>1. DOMAIN written = 1 .. Cardinality(DOMAIN written)
    BY <1>5, Numbers
  <2>2. baseline \in [Devices -> [archive : Archive, heads : SUBSET DOMAIN written]]
    BY <1>1, <1>8
  <2>3. done \in [edits : Nat, deletes : Nat, faults : Nat]
    BY <1>1
  <2>4. Idle.step = "idle"
    BY DEF Idle
  <2> QED
    BY <1>1, <1>2, <1>3, <1>6, <2>1, <2>2, <2>3, <2>4, IdleIsPass DEF TypeOK, Live
<1>10. \A d \in Devices : DeviceInv(d)
  BY <1>3, <1>8 DEF DeviceInv, PassInv, BaseInv, CheckInv, Idle
<1> QED
  BY <1>5, <1>7, <1>9, <1>10 DEF IInv

LEMMA NextKeeps == IInv /\ [Next]_vars => IInv'
<1> SUFFICES ASSUME IInv, [Next]_vars PROVE IInv'
  OBVIOUS
<1>1. CASE UNCHANGED vars
  <2>1. /\ files' \subseteq DOMAIN written /\ wire' \subseteq DOMAIN written
        /\ done' \in [edits : Nat, deletes : Nat, faults : Nat]
        /\ UNCHANGED <<local, written, pass, baseline, pending, checkpoint>>
    BY <1>1 DEF vars, IInv, TypeOK
  <2> QED
    BY <2>1, CloudKeeps
<1>2. ASSUME NEW d \in Devices,
             \/ Import(d) \/ SetLabel(d) \/ DeleteEverywhere(d)
             \/ Pass(d) \/ ReadFails(d) \/ UploadFails(d) \/ Restart(d)
      PROVE  IInv'
  BY <1>2, ImportKeeps, SetLabelKeeps, DeleteKeeps, BeginKeeps, MergeHeadKeeps, AskKeeps,
     MergeKeeps, StaleKeeps, PublishedKeeps, ReadFailsKeeps, UploadFailsKeeps, RestartKeeps
     DEF Pass
<1>3. ASSUME NEW r \in wire, Arrive(r)
      PROVE  IInv'
  BY <1>3, ArriveKeeps
<1>4. ASSUME NEW r \in files, Vanish(r)
      PROVE  IInv'
  BY <1>4, VanishKeeps
<1> QED
  BY <1>1, <1>2, <1>3, <1>4 DEF Next

LEMMA Invariance == Spec => []IInv
BY InitIInv, NextKeeps, PTL DEF Spec

(***************************************************************************)
(* Theorems                                                                *)
(***************************************************************************)

(* The variables keep their types, and no device holds a profile together
   with its deletion (reconcile). *)
THEOREM TypeCorrect == Spec => []TypeOK
<1>1. IInv => TypeOK
  BY DEF IInv
<1> QED
  BY <1>1, Invariance, PTL

(* A revision accounts for the history of its parents, for any number of
   devices and with uploads that fail, are repeated or arrive late
   (perform: mergedHeads, pendingUpload). *)
THEOREM HistoryCarriesOn == Spec => []RevisionsCarryOn
<1>1. IInv => RevisionsCarryOn
  BY DEF IInv, Histories, RevisionsCarryOn, Known
<1> QED
  BY <1>1, Invariance, PTL

(* A listing is taken for synced only when its one head holds what is on the
   device (perform: checkpoint). *)
THEOREM CheckpointsMatch == Spec => []CheckpointSound
<1>1. IInv => CheckpointSound
  <2> SUFFICES ASSUME IInv, NEW d \in Devices, checkpoint[d] # {}
               PROVE  /\ Cardinality(Heads(Graph(checkpoint[d]))) = 1
                      /\ \A h \in Heads(Graph(checkpoint[d])) :
                           Shown(written[h].archive) = Shown(local[d])
    BY DEF CheckpointSound
  <2>1. PICK h \in checkpoint[d] :
          /\ Heads(Graph(checkpoint[d])) = {h}
          /\ Shown(written[h].archive) = Shown(local[d])
    BY DEF IInv, DeviceInv, CheckInv
  <2> QED
    BY <2>1, FS_Singleton
<1> QED
  BY <1>1, Invariance, PTL

(* No step of a pass drops an import that landed on its device meanwhile
   (perform: replaceState with the expected state). *)
THEOREM ImportsSurvive == Spec => NothingForgotten
<1>1. IInv /\ [Next]_vars =>
        [\A d \in Devices : local[d].snaps \subseteq local'[d].snaps \cup local'[d].gone]_vars
  <2> SUFFICES ASSUME IInv, Next, NEW d \in Devices
               PROVE  local[d].snaps \subseteq local'[d].snaps \cup local'[d].gone
    OBVIOUS
  <2>1. local \in [Devices -> Archive]
    BY DEF IInv, TypeOK
  <2>2. ASSUME NEW e \in Devices, NEW a, local' = [local EXCEPT ![e] = a],
               Known(local[e]) \subseteq Known(a)
        PROVE  local[d].snaps \subseteq local'[d].snaps \cup local'[d].gone
    BY <2>1, <2>2 DEF Known
  <2>3. ASSUME local' = local
        PROVE  local[d].snaps \subseteq local'[d].snaps \cup local'[d].gone
    BY <2>3
  <2>4. ASSUME NEW e \in Devices, Import(e) \/ SetLabel(e) \/ DeleteEverywhere(e)
        PROVE  local[d].snaps \subseteq local'[d].snaps \cup local'[d].gone
    <3>1. local[e] \in Archive
      BY <2>1
    <3>2. CASE Import(e)
      <4>1. PICK s \in Snaps : local' = [local EXCEPT ![e] = [local[e] EXCEPT !.snaps = @ \cup {s}]]
        BY <3>2 DEF Import, Write
      <4>2. Known(local[e]) \subseteq Known([local[e] EXCEPT !.snaps = @ \cup {s}])
        BY <3>1 DEF Known, Archive
      <4> QED
        BY <2>2, <4>1, <4>2
    <3>3. CASE SetLabel(e)
      <4>1. PICK l \in Labels :
              local' = [local EXCEPT ![e] = [local[e] EXCEPT !.label = l, !.at = done.edits + 1,
                                               !.hist = @ \cup {done.edits + 1}]]
        BY <3>3 DEF SetLabel, Write
      <4>2. Known(local[e]) \subseteq
              Known([local[e] EXCEPT !.label = l, !.at = done.edits + 1,
                                     !.hist = @ \cup {done.edits + 1}])
        BY <3>1 DEF Known, Archive
      <4> QED
        BY <2>2, <4>1, <4>2
    <3>4. CASE DeleteEverywhere(e)
      <4>1. local' = [local EXCEPT ![e] = [local[e] EXCEPT !.dead = TRUE, !.snaps = {},
                                             !.gone = @ \cup local[e].snaps]]
        BY <3>4 DEF DeleteEverywhere, Write
      <4>2. Known(local[e]) \subseteq
              Known([local[e] EXCEPT !.dead = TRUE, !.snaps = {}, !.gone = @ \cup local[e].snaps])
        BY <3>1 DEF Known, Archive
      <4> QED
        BY <2>2, <4>1, <4>2
    <3> QED
      BY <2>4, <3>2, <3>3, <3>4
  <2>5. ASSUME NEW e \in Devices, Merge(e)
        PROVE  local[d].snaps \subseteq local'[d].snaps \cup local'[d].gone
    <3>1. PICK state \in Merged(e) : /\ Replaces(e, state) => Unmoved(e)
                                    /\ local' = [local EXCEPT ![e] = Updated(e, state)]
      BY <2>5 DEF Merge
    <3>2. Known(local[e]) \subseteq Known(Updated(e, state))
      BY <2>5, <3>1, MergedFacts DEF Merge
    <3> QED
      BY <2>2, <3>1, <3>2
  <2>6. ASSUME NEW e \in Devices,
               \/ Begin(e) \/ MergeHead(e) \/ Ask(e) \/ Stale(e) \/ Published(e)
               \/ ReadFails(e) \/ UploadFails(e) \/ Restart(e)
        PROVE  local' = local
    BY <2>6 DEF Begin, MergeHead, Ask, Stale, Published, ReadFails, UploadFails, Restart
  <2>7. ASSUME NEW r, Arrive(r) \/ Vanish(r)
        PROVE  local' = local
    BY <2>7 DEF Arrive, Vanish
  <2> QED
    BY <2>3, <2>4, <2>5, <2>6, <2>7 DEF Next, Pass
<1> QED
  BY <1>1, Invariance, PTL DEF Spec, NothingForgotten

(***************************************************************************)
(* Deletions                                                               *)
(***************************************************************************)

(* Where a deletion meets a profile without a question, the profile is what
   both sides are known to have held. *)
LEMMA DeletionKnew ==
  ASSUME NEW l \in Archive, NEW r \in Archive, Consistent(l), Consistent(r), NEW b,
         b.snaps \subseteq Known(l), b.snaps \subseteq Known(r), ~DeleteEdit(l, r, b),
         NEW dead \in {l, r}, dead.dead, NEW live \in {l, r}, Live(live)
  PROVE  live.snaps \subseteq dead.gone
<1>1. dead.snaps = {} /\ live.snaps # {}
  BY DEF Consistent, Live
<1>2. ~live.dead
  BY <1>1 DEF Consistent
<1>3. l.dead # r.dead
  BY <1>2
<1>4. b.snaps = live.snaps
  BY <1>3 DEF DeleteEdit
<1> QED
  BY <1>1, <1>4 DEF Known

(* A deletion wins without a question only over history that it took: for any
   number of devices, branches and merge bases (reconcile and perform). *)
THEOREM DeletionsAsk == Spec => []NoSilentDeletion
<1>1. ASSUME IInv, NEW d \in Devices, pass[d].step = "exported", NEW m \in NextMerges(d),
             NEW dead \in {a \in {m[1], m[2]} : a.dead},
             NEW live \in {a \in {m[1], m[2]} : Live(a)},
             ~DeleteEdit(m[1], m[2], m[3])
      PROVE  live.snaps \subseteq dead.gone
  <2> DEFINE p == pass[d]
  <2>1. TypeOK /\ Numbered /\ Histories /\ DeviceInv(d)
    BY <1>1 DEF IInv
  <2>2. /\ p \in Passes /\ p.view \in SUBSET DOMAIN written /\ p.remote \in Archive
        /\ p.exported \in Archive /\ local[d] \in Archive /\ Consistent(local[d])
    BY <2>1 DEF TypeOK, Passes, Consistent, Live
  <2>3. /\ p.heads = Heads(Graph(p.view)) /\ p.todo \subseteq p.heads
        /\ Consistent(p.remote) /\ Consistent(p.exported)
        /\ \A h \in p.heads \ p.todo : Known(written[h].archive) \subseteq Known(p.remote)
        /\ baseline[d].archive.snaps \subseteq Known(p.exported)
    BY <1>1, <2>1 DEF DeviceInv, PassInv
  <2>4. /\ DOMAIN Graph(p.view) = p.view /\ p.view \subseteq Int /\ IsFiniteSet(p.view)
        /\ Ordered(Graph(p.view))
        /\ \A x \in p.view : Graph(p.view)[x] = written[x].parents
        /\ p.heads \subseteq p.view
    BY <2>1, <2>2, <2>3, GraphOfView
  <2>5. CASE p.todo # {}
    <3>1. PICK h \in First(d) :
            m = <<p.remote, written[h].archive, Base(p.view, h)>>
      BY <1>1, <2>5 DEF NextMerges
    <3>2. h \in p.todo /\ \A x \in p.todo : h <= x
      BY <3>1 DEF First
    <3>3. h \in DOMAIN written /\ written[h].archive \in Archive /\ Consistent(written[h].archive)
      BY <2>1, <2>2, <2>3, <2>4, <3>2 DEF TypeOK, Histories
    <3> DEFINE b == Base(p.view, h)
    <3>4. b.snaps \subseteq Known(written[h].archive) /\ b.snaps \subseteq Known(p.remote)
      <4>1. h \in Heads(Graph(p.view))
        BY <2>3, <3>2
      <4>2. CASE b = Empty
        BY <4>2 DEF Empty
      <4>3. CASE /\ Known(b) \subseteq Known(written[h].archive)
                 /\ \E x \in Heads(Graph(p.view)) :
                      x < h /\ Known(b) \subseteq Known(written[x].archive)
        <5>1. PICK x \in p.heads : x < h /\ Known(b) \subseteq Known(written[x].archive)
          BY <2>3, <4>3
        <5>2. x \in Int /\ h \in Int
          BY <2>3, <2>4, <3>2
        <5>3. x \notin p.todo
          BY <3>2, <5>1, <5>2
        <5>4. Known(b) \subseteq Known(p.remote)
          BY <2>3, <5>1, <5>3
        <5> HIDE DEF b
        <5> QED
          BY <4>3, <5>4 DEF Known
      <4> QED
        BY <2>1, <2>2, <4>1, <4>2, <4>3, BaseKnown
    <3>5. m[1] = p.remote /\ m[2] = written[h].archive /\ m[3] = b
      BY <3>1
    <3> HIDE DEF b
    <3> QED
      BY <1>1, <2>2, <2>3, <3>3, <3>4, <3>5, DeletionKnew
  <2>6. CASE p.todo = {}
    <3> DEFINE b == KnownBase(d, p.view)
    <3>1. m = <<Left(d), p.remote, b>>
      BY <1>1, <2>6 DEF NextMerges
    <3>2. Left(d) \in Archive /\ Consistent(Left(d))
      BY <2>2, <2>3 DEF Left
    <3>3. b.snaps \subseteq Known(Left(d)) /\ b.snaps \subseteq Known(p.remote)
      <4>1. CASE baseline[d].heads \subseteq p.view
        <5>1. b = baseline[d].archive
          BY <4>1 DEF KnownBase
        <5>2. b.snaps \subseteq Known(Left(d))
          BY <2>1, <2>3, <5>1 DEF Left, DeviceInv, BaseInv
        <5>3. ASSUME NEW s \in baseline[d].archive.snaps
              PROVE  s \in Known(p.remote)
          <6>1. PICK h \in baseline[d].heads : s \in Known(written[h].archive)
            BY <2>1 DEF DeviceInv, BaseInv
          <6> DEFINE C == {x \in p.view : s \in Known(written[x].archive)}
                     g == Graph(p.view)
          <6>2. h \in C
            BY <4>1, <6>1
          <6>3. \A x \in p.view, y \in p.view : x \in g[y] /\ x \in C => y \in C
            BY <2>1, <2>2, <2>4 DEF Histories
          <6>4. \E x \in Heads(g) : x \in C
            <7>1. DOMAIN g = p.view /\ DOMAIN g \subseteq Int /\ IsFiniteSet(DOMAIN g) /\ Ordered(g)
              BY <2>4
            <7>2. h \in DOMAIN g
              BY <2>4, <6>2
            <7> HIDE DEF C, g
            <7> QED
              BY <6>2, <6>3, <7>1, <7>2, ReachesHead
          <6>5. PICK x \in p.heads : s \in Known(written[x].archive)
            BY <2>3, <6>4
          <6> QED
            BY <2>3, <2>6, <6>5
        <5> QED
          BY <5>1, <5>2, <5>3
      <4>2. CASE ~(baseline[d].heads \subseteq p.view)
        BY <4>2 DEF KnownBase, Empty
      <4> QED
        BY <4>1, <4>2
    <3>4. m[1] = Left(d) /\ m[2] = p.remote /\ m[3] = b
      BY <3>1
    <3> HIDE DEF b
    <3> QED
      BY <1>1, <2>2, <2>3, <3>2, <3>3, <3>4, DeletionKnew
  <2> QED
    BY <2>5, <2>6
<1>2. IInv => NoSilentDeletion
  BY <1>1 DEF NoSilentDeletion
<1> QED
  BY <1>2, Invariance, PTL
=============================================================================
