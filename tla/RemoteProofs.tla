-------------------------- MODULE RemoteProofs --------------------------
(* What Remote says of the public server and its quotas, of the graph of  *)
(* revisions and of their listing in the cloud holds for any pages, snapshots, *)
(* catalogs, faults, threads, keys, quotas, listings and files.  The variables *)
(* of a part change only in a behaviour about it, so each inductive invariant  *)
(* is about one part.                                                          *)
EXTENDS Remote, Sequences, FiniteSetTheorems, SequenceTheorems, WellFoundedInduction, TLAPS

-----------------------------------------------------------------------------
(* The saved history.  A page's operation keeps the version it began with, so  *)
(* what it has sent under the present version is stored; rows are those of the *)
(* saved snapshots under the catalog of their signature.                       *)

(* The types of the store, of what pages do and say, and of their requests. *)
Derivations == [from : SUBSET Snapshots, catalog : Nat]
Kinds == {"none", "save", "delete"}
Operations == [kind : Kinds, left : SUBSET Snapshots, version : Nat, sent : SUBSET Snapshots]
Notes == [kind : {"none", "saved", "failed", "deleted", "uncertain"}, snaps : SUBSET Snapshots,
          version : Nat]
Sites == [local : SUBSET Snapshots, known : Nat \cup {None}, op : Operations,
          at : {"ready", "waiting"}, notice : Notes]
Requests == [page : Pages, kind : Kinds, version : Nat, asked : Nat, snaps : SUBSET Snapshots]

ServerTyped ==
  /\ db \in [saved : SUBSET Snapshots, version : Nat, rows : Derivations, signature : Nat]
  /\ frozen \in [Snapshots -> Nat] /\ disk \in Nat
  /\ memory \in [catalog : Nat, cache : Derivations \cup {None}]
  /\ pages \in [Pages -> Sites] /\ wire \subseteq Requests

(* A page under the version v, when these snapshots are saved. *)
Sound(s, v, saved) ==
  /\ s.known # None => s.known <= v
  /\ s.op.version <= v /\ s.notice.version <= v
  /\ s.op.kind = "save" => s.op.left # {} /\ (s.op.version = v => s.op.sent \subseteq saved)
  /\ s.notice.kind = "saved" /\ s.notice.version = v => s.notice.snaps \subseteq saved

SitesSound == \A p \in Pages : Sound(pages[p], db.version, db.saved)

(* A request is for the version that its page froze. *)
WireTrue == \A r \in wire : r.asked = r.version

(* The rows are those of what is saved under the catalog of their signature, and so is what the process caches of them. *)
RowsTrue ==
  /\ db.rows = Kept!Rows(db.saved, db.signature) /\ db.signature <= disk
  /\ memory.cache # None /\ db.signature = disk => memory.cache = db.rows

(* The invariant of the saved history: its types, what is promised of a deletion, and the three facts above. *)
ServerInv == ServerTyped /\ Kept!DeletionWins /\ SitesSound /\ WireTrue /\ RowsTrue

(* A page stays sound when more is saved, and when the history is deleted. *)
LEMMA SoundStays ==
  ASSUME NEW s \in Sites, NEW v \in Nat, NEW saved, NEW more, saved \subseteq more, Sound(s, v, saved)
  PROVE  Sound(s, v, more)
BY DEF Sound

(* A page that was sound under a version is so after a deletion: what it did is then of the past. *)
LEMMA SoundLater ==
  ASSUME NEW s \in Sites, NEW v \in Nat, NEW saved, NEW left, Sound(s, v, saved)
  PROVE  Sound(s, v + 1, left)
<1>1. s.op.version \in Nat /\ s.notice.version \in Nat /\ s.known \in Nat \cup {None}
  BY DEF Sites, Operations, Notes
<1> QED BY <1>1 DEF Sound

(* A page that changes to a sound one leaves all sound. *)
LEMMA SetSite ==
  ASSUME pages \in [Pages -> Sites], NEW p \in Pages, NEW s \in Sites, pages' = [pages EXCEPT ![p] = s],
         \A q \in Pages : Sound(pages[q], db'.version, db'.saved),
         Sound(s, db'.version, db'.saved)
  PROVE  pages' \in [Pages -> Sites] /\ SitesSound'
<1>1. pages' \in [Pages -> Sites] /\ \A q \in Pages : pages'[q] = IF q = p THEN s ELSE pages[q]
  OBVIOUS
<1> QED BY <1>1 DEF SitesSound

(* What the page says at the end of an operation. *)
LEMMA SaidIs ==
  ASSUME NEW s \in Sites, NEW kind \in {"saved", "failed", "deleted", "uncertain"}
  PROVE  LET told == Kept!Said(s, kind)
         IN  /\ told \in Sites /\ told.op = Kept!Idle /\ told.known = s.known /\ told.at = "ready"
             /\ told.notice = [kind |-> kind, snaps |-> s.op.sent, version |-> s.op.version]
<1>1. s.op \in Operations
  BY DEF Sites
<1>2. [kind |-> kind, snaps |-> s.op.sent, version |-> s.op.version] \in Notes
  BY <1>1 DEF Notes, Operations
<1>3. Kept!Idle \in Operations
  BY DEF Operations, Kept!Idle, Kinds
<1> QED BY <1>2, <1>3 DEF Kept!Said, Sites

(* Saying anything but that all is saved is sound. *)
LEMMA SaidSound ==
  ASSUME NEW s \in Sites, NEW v \in Nat, NEW saved, Sound(s, v, saved),
         NEW kind \in {"failed", "deleted", "uncertain"}
  PROVE  Sound(Kept!Said(s, kind), v, saved)
<1>0. kind \in {"saved", "failed", "deleted", "uncertain"} /\ kind # "saved"
  OBVIOUS
<1>1. /\ Kept!Said(s, kind).op = Kept!Idle /\ Kept!Said(s, kind).known = s.known
      /\ Kept!Said(s, kind).notice = [kind |-> kind, snaps |-> s.op.sent, version |-> s.op.version]
  BY <1>0, SaidIs
<1>2. /\ Kept!Said(s, kind).notice.kind # "saved" /\ Kept!Said(s, kind).notice.version = s.op.version
      /\ Kept!Said(s, kind).op.version = 0 /\ Kept!Said(s, kind).op.kind = "none"
  BY <1>0, <1>1 DEF Kept!Idle
<1> QED BY <1>1, <1>2 DEF Sound

(* The store with its rows derived under the catalog on disk. *)
LEMMA EnsuredIs ==
  ASSUME ServerTyped, RowsTrue
  PROVE  LET e == Kept!Ensured(db)
         IN  /\ e \in [saved : SUBSET Snapshots, version : Nat, rows : Derivations, signature : Nat]
             /\ e.saved = db.saved /\ e.version = db.version /\ e.signature = disk
             /\ e.rows = Kept!Rows(db.saved, disk)
<1>1. Kept!Rows(db.saved, disk) \in Derivations
  BY DEF ServerTyped, Kept!Rows, Derivations
<1> QED BY <1>1 DEF ServerTyped, RowsTrue, Kept!Ensured

(* What is in the process after it looked at the catalog. *)
LEMMA CachedIs ==
  ASSUME ServerTyped, RowsTrue
  PROVE  LET m == Kept!Cached(db, memory)
         IN  /\ m \in [catalog : Nat, cache : Derivations \cup {None}]
             /\ m.cache # None => m.cache = Kept!Rows(db.saved, disk)
             /\ m.cache # None /\ db.signature = disk => m.cache = db.rows
BY DEF ServerTyped, RowsTrue, Kept!Cached

(* The answer of the statistics is of what is stored. *)
LEMMA AnswerIs ==
  ASSUME ServerTyped, RowsTrue
  PROVE  Kept!Answer = Kept!Rows(db.saved, disk)
BY EnsuredIs, CachedIs DEF Kept!Answer

-----------------------------------------------------------------------------
(* The steps of the server *)

(* A request for the statistics derives the rows that are stale and keeps what it read. *)
LEMMA ServerStatistics == ServerInv /\ Kept!Statistics => ServerInv'
<1> SUFFICES ASSUME ServerInv, Kept!Statistics PROVE ServerInv'
  OBVIOUS
<1>1. ServerTyped /\ RowsTrue
  BY DEF ServerInv
<1>2. PICK e \in [saved : SUBSET Snapshots, version : Nat, rows : Derivations, signature : Nat] :
        /\ db' = e /\ e.saved = db.saved /\ e.version = db.version /\ e.signature = disk
        /\ e.rows = Kept!Rows(db.saved, disk)
  BY <1>1, EnsuredIs DEF Kept!Statistics
<1>3. PICK m \in [catalog : Nat, cache : Derivations \cup {None}] : m = Kept!Cached(db, memory)
  BY <1>1, CachedIs
<1>4. memory' = [m EXCEPT !.cache = e.rows]
  BY <1>1, <1>2, <1>3, AnswerIs DEF Kept!Statistics
<1>5. memory' \in [catalog : Nat, cache : Derivations \cup {None}] /\ memory'.cache = e.rows
  BY <1>2, <1>3, <1>4
<1>6. UNCHANGED <<frozen, disk, pages, wire>>
  BY DEF Kept!Statistics
<1>7. ServerTyped'
  BY <1>1, <1>2, <1>5, <1>6 DEF ServerTyped
<1>8. RowsTrue'
  BY <1>1, <1>2, <1>5, <1>6 DEF RowsTrue, ServerTyped
<1>9. Kept!DeletionWins' /\ SitesSound' /\ WireTrue'
  BY <1>2, <1>6 DEF ServerInv, Kept!DeletionWins, SitesSound, WireTrue
<1> QED BY <1>7, <1>8, <1>9 DEF ServerInv

(* A new catalog on disk makes the rows of the older one stale, and not wrong. *)
LEMMA ServerCatalog == ServerInv /\ Kept!CatalogChanges => ServerInv'
<1> SUFFICES ASSUME ServerInv, Kept!CatalogChanges PROVE ServerInv'
  OBVIOUS
<1>1. disk' = disk + 1 /\ UNCHANGED <<db, frozen, memory, pages, wire>>
  BY DEF Kept!CatalogChanges
<1>2. ServerTyped'
  BY <1>1 DEF ServerInv, ServerTyped
<1>3. RowsTrue'
  <2>1. db.signature \in Nat /\ disk \in Nat
    BY DEF ServerInv, ServerTyped
  <2> QED BY <1>1, <2>1 DEF ServerInv, RowsTrue
<1>4. Kept!DeletionWins' /\ SitesSound' /\ WireTrue'
  BY <1>1 DEF ServerInv, Kept!DeletionWins, SitesSound, WireTrue
<1> QED BY <1>2, <1>3, <1>4 DEF ServerInv

(* A page changes to a sound one, and nothing else but what is granted and on the wire. *)
LEMMA ServerSets ==
  ASSUME ServerInv, NEW p \in Pages, NEW s \in Sites, pages' = [pages EXCEPT ![p] = s],
         Sound(s, db.version, db.saved), UNCHANGED <<db, frozen, memory, disk>>,
         wire' \subseteq Requests, WireTrue'
  PROVE  ServerInv'
<1>1. pages' \in [Pages -> Sites] /\ SitesSound'
  BY SetSite DEF ServerInv, ServerTyped, SitesSound
<1>2. ServerTyped'
  BY <1>1 DEF ServerInv, ServerTyped
<1>3. Kept!DeletionWins' /\ RowsTrue'
  BY DEF ServerInv, Kept!DeletionWins, RowsTrue
<1> QED BY <1>1, <1>2, <1>3 DEF ServerInv

(* The facts of a page. *)
LEMMA SiteIs ==
  ASSUME ServerInv, NEW p \in Pages
  PROVE  /\ pages[p] \in Sites /\ Sound(pages[p], db.version, db.saved) /\ db.version \in Nat
         /\ db.saved \subseteq Snapshots /\ wire \subseteq Requests /\ WireTrue
         /\ pages[p].op \in Operations /\ pages[p].notice \in Notes
BY DEF ServerInv, ServerTyped, SitesSound, Sites

(* A page learns the present version, or loses its verification. *)
LEMMA ServerVerify ==
  ASSUME ServerInv, NEW p \in Pages, Kept!Verify(p) \/ Kept!Expire(p)
  PROVE  ServerInv'
<1>1. CASE Kept!Verify(p)
  <2>1. PICK s \in Sites : s = [pages[p] EXCEPT !.known = db.version]
    BY SiteIs DEF Sites
  <2>2. Sound(s, db.version, db.saved)
    BY <2>1, SiteIs DEF Sound, Sites
  <2>3. pages' = [pages EXCEPT ![p] = s] /\ UNCHANGED <<db, frozen, memory, disk, wire>>
    BY <1>1, <2>1 DEF Kept!Verify, Kept!Set
  <2>4. wire' \subseteq Requests /\ WireTrue'
    BY <2>3, SiteIs DEF WireTrue
  <2> QED BY <2>2, <2>3, <2>4, ServerSets
<1>2. CASE Kept!Expire(p)
  <2>1. UNCHANGED <<db, frozen, memory, disk, pages, wire>>
    BY <1>2 DEF Kept!Expire
  <2> QED BY <2>1 DEF ServerInv, ServerTyped, Kept!DeletionWins, SitesSound, WireTrue, RowsTrue
<1> QED BY <1>1, <1>2

(* An operation freezes the version that the page knows. *)
LEMMA ServerBegins ==
  ASSUME ServerInv, NEW p \in Pages, Kept!BeginSave(p) \/ Kept!BeginDelete(p)
  PROVE  ServerInv'
<1>1. UNCHANGED <<db, frozen, memory, disk, wire>> /\ wire' \subseteq Requests /\ WireTrue'
  BY SiteIs DEF Kept!BeginSave, Kept!BeginDelete, WireTrue
<1>2. /\ pages[p].known \in Nat /\ pages[p].known <= db.version /\ pages[p].local \subseteq Snapshots
      /\ pages[p].known # None
  BY SiteIs DEF Kept!BeginSave, Kept!BeginDelete, Sites, Sound
<1>3. CASE Kept!BeginSave(p)
  <2>1. PICK op \in Operations : op = [kind |-> "save", left |-> pages[p].local, version |-> pages[p].known,
                                       sent |-> {}]
    <3>1. {} \in SUBSET Snapshots /\ "save" \in Kinds /\ pages[p].local \in SUBSET Snapshots
      BY <1>2 DEF Kinds
    <3> QED BY <3>1, <1>2 DEF Operations
  <2>2. Kept!NoNotice \in Notes
    BY DEF Kept!NoNotice, Notes
  <2>3. PICK s \in Sites : s = [pages[p] EXCEPT !.op = op, !.notice = Kept!NoNotice]
    BY <2>2, SiteIs DEF Sites
  <2>4. pages[p].local # {} /\ pages' = [pages EXCEPT ![p] = s]
    BY <1>3, <2>1, <2>3 DEF Kept!BeginSave, Kept!Set
  <2>5. s.op = op /\ s.notice = Kept!NoNotice /\ s.known = pages[p].known
    BY <2>3, SiteIs DEF Sites
  <2>6. Sound(s, db.version, db.saved)
    BY <2>1, <2>4, <2>5, <1>2, SiteIs DEF Sound, Kept!NoNotice
  <2> QED BY <1>1, <2>4, <2>6, ServerSets
<1>4. CASE Kept!BeginDelete(p)
  <2>1. PICK op \in Operations : op = [Kept!Idle EXCEPT !.kind = "delete"]
    BY DEF Operations, Kept!Idle, Kinds
  <2>2. Kept!NoNotice \in Notes
    BY DEF Kept!NoNotice, Notes
  <2>3. PICK s \in Sites : s = [pages[p] EXCEPT !.op = op, !.notice = Kept!NoNotice]
    BY <2>2, SiteIs DEF Sites
  <2>4. pages' = [pages EXCEPT ![p] = s]
    BY <1>4, <2>1, <2>3 DEF Kept!BeginDelete, Kept!Set
  <2>5. s.op = op /\ s.notice = Kept!NoNotice /\ s.known = pages[p].known
    BY <2>3, SiteIs DEF Sites
  <2>6. Sound(s, db.version, db.saved)
    BY <2>1, <2>5, <1>2, SiteIs DEF Sound, Kept!NoNotice, Kept!Idle
  <2> QED BY <1>1, <2>4, <2>6, ServerSets
<1> QED BY <1>3, <1>4

(* What a page sends next: it is of the version that the page froze. *)
LEMMA BatchIs ==
  ASSUME ServerInv, NEW p \in Pages
  PROVE  LET r == Kept!NextBatch(p)
         IN  /\ r \in Requests /\ r.asked = r.version /\ r.version = pages[p].op.version
             /\ r.kind = pages[p].op.kind /\ r.page = p
<1>1. pages[p].op \in Operations /\ (pages[p].op.kind = "save" => pages[p].op.left # {})
  BY SiteIs DEF Sound
<1>2. (IF pages[p].op.kind = "save" THEN Kept!Batch(pages[p].op.left) ELSE {}) \in SUBSET Snapshots
  BY <1>1 DEF Kept!Batch, Operations
<1> QED BY <1>1, <1>2 DEF Kept!NextBatch, Requests, Operations

(* A request carries the version of its operation. *)
LEMMA ServerRequest ==
  ASSUME ServerInv, NEW p \in Pages, Kept!Request(p)
  PROVE  ServerInv'
<1>1. PICK r \in Requests : r = Kept!NextBatch(p) /\ r.asked = r.version
  BY BatchIs
<1>2. PICK s \in Sites : s = [pages[p] EXCEPT !.at = "waiting"]
  BY SiteIs DEF Sites
<1>3. /\ wire' = wire \cup {r} /\ pages' = [pages EXCEPT ![p] = s]
      /\ UNCHANGED <<db, frozen, memory, disk>>
  BY <1>1, <1>2 DEF Kept!Request, Kept!Set
<1>4. Sound(s, db.version, db.saved)
  BY <1>2, SiteIs DEF Sound, Sites
<1>5. wire' \subseteq Requests /\ WireTrue'
  BY <1>1, <1>3, SiteIs DEF WireTrue
<1> QED BY <1>3, <1>4, <1>5, ServerSets

(* A response is lost. *)
LEMMA ServerLoses ==
  ASSUME ServerInv, NEW p \in Pages, Kept!Lose(p)
  PROVE  ServerInv'
<1>1. PICK s \in Sites : s = Kept!Said(pages[p], "uncertain")
  <2>1. Kept!Said(pages[p], "uncertain") \in Sites
    BY SiteIs, SaidIs
  <2> QED BY <2>1
<1>2. Sound(s, db.version, db.saved)
  BY <1>1, SiteIs, SaidSound
<1>3. pages' = [pages EXCEPT ![p] = s] /\ UNCHANGED <<db, frozen, memory, disk, wire>>
  BY <1>1 DEF Kept!Lose, Kept!Set
<1>4. wire' \subseteq Requests /\ WireTrue'
  BY <1>3, SiteIs DEF WireTrue
<1> QED BY <1>2, <1>3, <1>4, ServerSets

(* A page takes over what is saved. *)
LEMMA ServerRecovers ==
  ASSUME ServerInv, NEW p \in Pages, Kept!Recover(p)
  PROVE  ServerInv'
<1>1. PICK some \in SUBSET db.saved : pages' = [pages EXCEPT ![p] = [pages[p] EXCEPT !.local = @ \cup some]]
  BY DEF Kept!Recover, Kept!Set
<1>2. PICK s \in Sites : s = [pages[p] EXCEPT !.local = @ \cup some]
  BY SiteIs DEF Sites
<1>3. Sound(s, db.version, db.saved)
  BY <1>2, SiteIs DEF Sound, Sites
<1>4. UNCHANGED <<db, frozen, memory, disk, wire>> /\ wire' \subseteq Requests /\ WireTrue'
  BY SiteIs DEF WireTrue, Kept!Recover
<1> QED BY <1>1, <1>2, <1>3, <1>4, ServerSets

(* The process starts anew with the catalog on disk, and its requests end without an answer. *)
LEMMA ServerRestarts ==
  ASSUME ServerInv, Kept!Restart
  PROVE  ServerInv'
<1>1. /\ memory' = [catalog |-> disk, cache |-> None] /\ wire' = {} /\ UNCHANGED <<db, frozen, disk>>
      /\ pages' = [p \in Pages |-> IF pages[p].at = "waiting" THEN Kept!Said(pages[p], "uncertain") ELSE pages[p]]
  BY DEF Kept!Restart
<1>2. ASSUME NEW p \in Pages
      PROVE  pages'[p] \in Sites /\ Sound(pages'[p], db.version, db.saved)
  <2>1. Kept!Said(pages[p], "uncertain") \in Sites /\ Sound(Kept!Said(pages[p], "uncertain"), db.version, db.saved)
    BY SiteIs, SaidIs, SaidSound
  <2> QED BY <1>1, <2>1, SiteIs
<1>3. ServerTyped'
  <2>1. pages' \in [Pages -> Sites]
    BY <1>1, <1>2
  <2> QED BY <1>1, <2>1 DEF ServerInv, ServerTyped
<1>4. SitesSound' /\ WireTrue' /\ Kept!DeletionWins' /\ RowsTrue'
  BY <1>1, <1>2 DEF ServerInv, SitesSound, WireTrue, Kept!DeletionWins, RowsTrue
<1> QED BY <1>3, <1>4 DEF ServerInv

(* What a save makes of the store: its snapshots are added, and the rows derived again. *)
LEMMA PutIs ==
  ASSUME ServerTyped, RowsTrue, NEW snaps \in SUBSET Snapshots
  PROVE  LET d == Kept!Put(snaps)
         IN  /\ d \in [saved : SUBSET Snapshots, version : Nat, rows : Derivations, signature : Nat]
             /\ d.saved = db.saved \cup snaps /\ d.version = db.version /\ d.signature = disk
             /\ d.rows = Kept!Rows(d.saved, disk)
<1>1. PICK e \in [saved : SUBSET Snapshots, version : Nat, rows : Derivations, signature : Nat] :
        /\ e = Kept!Ensured(db) /\ e.saved = db.saved /\ e.version = db.version /\ e.signature = disk
        /\ e.rows = Kept!Rows(db.saved, disk)
  <2>1. Kept!Ensured(db) \in [saved : SUBSET Snapshots, version : Nat, rows : Derivations, signature : Nat]
    BY EnsuredIs
  <2> QED BY <2>1, EnsuredIs
<1>2. CASE snaps \subseteq db.saved
  <2>1. Kept!Put(snaps) = e /\ e.saved = db.saved \cup snaps
    BY <1>1, <1>2 DEF Kept!Put
  <2> QED BY <1>1, <2>1
<1>3. CASE ~(snaps \subseteq db.saved)
  <2>1. PICK derived \in Derivations : derived = Kept!Rows(db.saved \cup snaps, disk)
    <3>1. db.saved \in SUBSET Snapshots /\ disk \in Nat
      BY DEF ServerTyped
    <3> QED BY <3>1 DEF Kept!Rows, Derivations
  <2>2. Kept!Put(snaps) = [e EXCEPT !.saved = e.saved \cup snaps, !.rows = derived]
    BY <1>1, <1>3, <2>1 DEF Kept!Put
  <2>3. e.saved \cup snaps \in SUBSET Snapshots
    OBVIOUS
  <2>4. [e EXCEPT !.saved = e.saved \cup snaps, !.rows = derived]
          \in [saved : SUBSET Snapshots, version : Nat, rows : Derivations, signature : Nat]
    BY <2>3
  <2> QED BY <1>1, <2>1, <2>2, <2>4
<1> QED BY <1>2, <1>3

(* A page hears of its request: what it has sent is stored, if its version is the present one. *)
LEMMA ServerResponds ==
  ASSUME ServerInv, NEW r \in Requests, NEW ok \in BOOLEAN, Kept!Respond(r, ok), db'.version \in Nat,
         \A q \in Pages : Sound(pages[q], db'.version, db'.saved),
         ok /\ r.kind = "save" => r.snaps \subseteq db'.saved
  PROVE  pages' \in [Pages -> Sites] /\ SitesSound'
<1>1. PICK p \in Pages : p = r.page
  BY DEF Requests
<1>2. PICK page \in Sites : page = pages[p] /\ Sound(page, db'.version, db'.saved)
  BY SiteIs
<1>3. pages \in [Pages -> Sites]
  BY DEF ServerInv, ServerTyped
<1>4. CASE UNCHANGED pages
  BY <1>3, <1>4 DEF SitesSound
<1>5. ASSUME NEW s \in Sites, pages' = [pages EXCEPT ![p] = s], Sound(s, db'.version, db'.saved)
      PROVE  pages' \in [Pages -> Sites] /\ SitesSound'
  BY <1>3, <1>5, SetSite
<1>6. CASE pages' = [pages EXCEPT ![p] = Kept!Said(page, "failed")]
  <2>1. Kept!Said(page, "failed") \in Sites /\ Sound(Kept!Said(page, "failed"), db'.version, db'.saved)
    BY <1>2, SaidIs, SaidSound
  <2> QED BY <1>5, <1>6, <2>1
<1>7. ASSUME NEW known \in {page.known, db'.version},
             pages' = [pages EXCEPT ![p] = [Kept!Said(page, "deleted") EXCEPT !.known = known]]
      PROVE  pages' \in [Pages -> Sites] /\ SitesSound'
  <2>1. Kept!Said(page, "deleted") \in Sites /\ Sound(Kept!Said(page, "deleted"), db'.version, db'.saved)
        /\ Kept!Said(page, "deleted").known = page.known
    BY <1>2, SaidIs, SaidSound
  <2>2. PICK told \in Sites : told = Kept!Said(page, "deleted") /\ Sound(told, db'.version, db'.saved)
                              /\ told.known = page.known
    BY <2>1
  <2>3. known \in Nat \cup {None}
    BY DEF Sites
  <2>4. PICK s \in Sites : s = [told EXCEPT !.known = known]
    BY <2>3 DEF Sites
  <2>5. s.op = told.op /\ s.notice = told.notice /\ s.known = known
    BY <2>4 DEF Sites
  <2>6. Sound(s, db'.version, db'.saved)
    BY <2>2, <2>5 DEF Sound
  <2> QED BY <1>5, <1>7, <2>2, <2>4, <2>6
<1>8. ASSUME ok, r.kind = "save", Kept!NextBatch(p) = r,
             LET next == [page EXCEPT !.op = Kept!Rest(page.op, r), !.at = "ready"]
             IN  pages' = [pages EXCEPT ![p] = IF next.op.left = {} THEN Kept!Said(next, "saved") ELSE next]
      PROVE  pages' \in [Pages -> Sites] /\ SitesSound'
  <2>1. page.op.kind = "save" /\ r.snaps \subseteq db'.saved /\ page.op \in Operations /\ r.snaps \subseteq Snapshots
    BY <1>8, <1>2, BatchIs DEF Sites, Requests
  <2>2. PICK op \in Operations : op = Kept!Rest(page.op, r)
    <3>1. page.op.left \ r.snaps \in SUBSET Snapshots /\ page.op.sent \cup r.snaps \in SUBSET Snapshots
      BY <2>1 DEF Operations
    <3> QED BY <2>1, <3>1 DEF Kept!Rest, Operations
  <2>3. op.kind = "save" /\ op.version = page.op.version /\ op.sent = page.op.sent \cup r.snaps
    BY <2>1, <2>2 DEF Kept!Rest, Operations
  <2>4. PICK next \in Sites : next = [page EXCEPT !.op = op, !.at = "ready"]
    BY DEF Sites
  <2>5. next.op = op /\ next.notice = page.notice /\ next.known = page.known
    BY <2>4 DEF Sites
  <2>6. op.version = db'.version => op.sent \subseteq db'.saved
    BY <1>2, <2>1, <2>3 DEF Sound
  <2>7. CASE op.left # {}
    <3>1. pages' = [pages EXCEPT ![p] = next]
      BY <1>8, <2>2, <2>4, <2>5, <2>7
    <3>2. Sound(next, db'.version, db'.saved)
      BY <1>2, <2>3, <2>5, <2>6, <2>7 DEF Sound
    <3> QED BY <1>5, <3>1, <3>2
  <2>8. CASE op.left = {}
    <3>1. pages' = [pages EXCEPT ![p] = Kept!Said(next, "saved")]
      BY <1>8, <2>2, <2>4, <2>5, <2>8
    <3>2. /\ Kept!Said(next, "saved") \in Sites /\ Kept!Said(next, "saved").op = Kept!Idle
          /\ Kept!Said(next, "saved").known = page.known
          /\ Kept!Said(next, "saved").notice = [kind |-> "saved", snaps |-> op.sent, version |-> op.version]
      BY <2>5, SaidIs
    <3>3. PICK s \in Sites : /\ s = Kept!Said(next, "saved") /\ s.op = Kept!Idle /\ s.known = page.known
                             /\ s.notice = [kind |-> "saved", snaps |-> op.sent, version |-> op.version]
      BY <3>2
    <3>4. /\ s.op.version = 0 /\ s.op.kind = "none" /\ s.notice.version = page.op.version
          /\ s.notice.snaps = op.sent
      BY <2>3, <3>3 DEF Kept!Idle
    <3>5. Sound(s, db'.version, db'.saved)
      BY <1>2, <2>3, <2>6, <3>3, <3>4 DEF Sound
    <3> QED BY <1>5, <3>1, <3>3, <3>5
  <2> QED BY <2>7, <2>8
<1> QED BY <1>1, <1>2, <1>4, <1>6, <1>7, <1>8 DEF Kept!Respond, Kept!Set

(* A save adds to the history if its version is the present one, and is refused otherwise. *)
LEMMA ServerHandlesSave ==
  ASSUME ServerInv, NEW r \in wire, Kept!Handle(r), r.kind = "save"
  PROVE  ServerInv'
<1>1. /\ wire' = wire \ {r} /\ disk' = disk /\ Kept!Save(r)
      /\ Kept!Respond(r, r.page \in granted /\ Kept!Current(r.version) /\ r.snaps \subseteq db'.saved)
  BY DEF Kept!Handle
<1>2. r \in Requests /\ r.asked = r.version /\ wire' \subseteq Requests /\ WireTrue'
  BY <1>1 DEF ServerInv, ServerTyped, WireTrue
<1>3. PICK ok \in BOOLEAN : ok = (r.page \in granted /\ Kept!Current(r.version) /\ r.snaps \subseteq db'.saved)
  OBVIOUS
<1>4. Kept!Respond(r, ok)
  BY <1>1, <1>3
<1>5. ServerTyped /\ RowsTrue /\ Kept!DeletionWins /\ db.version \in Nat
  BY DEF ServerInv, ServerTyped
<1>6. CASE /\ Kept!Current(r.version) /\ db' = Kept!Put(r.snaps)
           /\ memory' = Kept!Forgotten(Kept!Cached(db, memory))
           /\ frozen' = [s \in Snapshots |-> IF s \in r.snaps \ db.saved THEN r.asked ELSE frozen[s]]
  <2>1. r.snaps \in SUBSET Snapshots /\ r.asked \in Nat /\ r.asked = db.version
    BY <1>2, <1>6 DEF Requests, Kept!Current
  <2>2. PICK d \in [saved : SUBSET Snapshots, version : Nat, rows : Derivations, signature : Nat] :
          /\ d = db' /\ d.saved = db.saved \cup r.snaps /\ d.version = db.version /\ d.signature = disk
          /\ d.rows = Kept!Rows(d.saved, disk)
    <3>1. Kept!Put(r.snaps) \in [saved : SUBSET Snapshots, version : Nat, rows : Derivations, signature : Nat]
      BY <1>5, <2>1, PutIs
    <3> QED BY <1>5, <1>6, <2>1, <3>1, PutIs
  <2>3. memory' \in [catalog : Nat, cache : Derivations \cup {None}] /\ memory'.cache = None
    <3>1. Kept!Cached(db, memory) \in [catalog : Nat, cache : Derivations \cup {None}]
      BY <1>5, CachedIs
    <3> QED BY <1>6, <3>1 DEF Kept!Forgotten
  <2>4. \A q \in Pages : Sound(pages[q], db'.version, db'.saved)
    <3>1. ASSUME NEW q \in Pages PROVE Sound(pages[q], d.version, d.saved)
      BY <2>2, SiteIs, SoundStays
    <3> QED BY <2>2, <3>1
  <2>5. pages' \in [Pages -> Sites] /\ SitesSound'
    BY <1>2, <1>3, <1>4, <2>2, <2>4, ServerResponds
  <2>6. frozen' \in [Snapshots -> Nat] /\ Kept!DeletionWins'
    BY <1>5, <1>6, <2>1, <2>2 DEF ServerTyped, Kept!DeletionWins
  <2>7. ServerTyped' /\ RowsTrue'
    BY <1>1, <1>2, <1>5, <2>2, <2>3, <2>5, <2>6 DEF ServerTyped, RowsTrue
  <2> QED BY <1>2, <2>5, <2>6, <2>7 DEF ServerInv
<1>7. CASE db' = db /\ frozen' = frozen /\ (memory' = memory \/ memory' = Kept!Cached(db, memory))
  <2>1. \A q \in Pages : Sound(pages[q], db'.version, db'.saved)
    BY <1>7, SiteIs
  <2>2. pages' \in [Pages -> Sites] /\ SitesSound'
    BY <1>2, <1>3, <1>4, <1>5, <1>7, <2>1, ServerResponds
  <2>3. /\ memory' \in [catalog : Nat, cache : Derivations \cup {None}]
        /\ memory'.cache # None /\ db.signature = disk => memory'.cache = db.rows
    BY <1>5, <1>7, CachedIs DEF ServerTyped, RowsTrue
  <2>4. ServerTyped' /\ RowsTrue' /\ Kept!DeletionWins'
    BY <1>1, <1>2, <1>5, <1>7, <2>2, <2>3 DEF ServerTyped, RowsTrue, Kept!DeletionWins
  <2> QED BY <1>2, <2>2, <2>4 DEF ServerInv
<1> QED BY <1>1, <1>6, <1>7 DEF Kept!Save

(* A deletion empties the history and counts the version up, if it is of the present one. *)
LEMMA ServerHandlesDeletion ==
  ASSUME ServerInv, NEW r \in wire, Kept!Handle(r), r.kind # "save"
  PROVE  ServerInv'
<1>1. /\ wire' = wire \ {r} /\ disk' = disk /\ frozen' = frozen
      /\ \/ db' = Kept!Deleted /\ memory' = Kept!Forgotten(memory)
         \/ db' = db /\ memory' = memory
  BY DEF Kept!Handle
<1>2. r \in Requests /\ wire' \subseteq Requests /\ WireTrue'
  BY <1>1 DEF ServerInv, ServerTyped, WireTrue
<1>3. PICK ok \in BOOLEAN : Kept!Respond(r, ok)
  <2>1. Kept!Respond(r, r.page \in granted)
    BY DEF Kept!Handle
  <2>2. (r.page \in granted) \in BOOLEAN
    OBVIOUS
  <2> QED BY <2>1, <2>2
<1>4. ServerTyped /\ RowsTrue /\ Kept!DeletionWins /\ db.version \in Nat
  BY DEF ServerInv, ServerTyped
<1>5. CASE db' = Kept!Deleted /\ memory' = Kept!Forgotten(memory)
  <2>1. PICK derived \in Derivations : derived = [db.rows EXCEPT !.from = {}] /\ derived = Kept!Rows({}, db.signature)
    <3>1. {} \in SUBSET Snapshots /\ db.rows \in Derivations /\ db.rows = Kept!Rows(db.saved, db.signature)
          /\ db.signature \in Nat
      BY <1>4 DEF ServerTyped, RowsTrue
    <3>2. [db.rows EXCEPT !.from = {}] = Kept!Rows({}, db.signature)
      BY <3>1 DEF Kept!Rows
    <3>3. Kept!Rows({}, db.signature) \in Derivations
      BY <3>1 DEF Kept!Rows, Derivations
    <3> QED BY <3>2, <3>3
  <2>2. /\ db' \in [saved : SUBSET Snapshots, version : Nat, rows : Derivations, signature : Nat]
        /\ db'.saved = {} /\ db'.version = db.version + 1 /\ db'.rows = derived /\ db'.signature = db.signature
    <3>1. {} \in SUBSET Snapshots /\ db.version + 1 \in Nat
      BY <1>4
    <3>2. db' = [db EXCEPT !.saved = {}, !.version = db.version + 1, !.rows = derived]
      BY <1>5, <2>1 DEF Kept!Deleted
    <3> QED BY <1>4, <3>1, <3>2 DEF ServerTyped
  <2>3. memory' \in [catalog : Nat, cache : Derivations \cup {None}] /\ memory'.cache = None
    BY <1>4, <1>5 DEF ServerTyped, Kept!Forgotten
  <2>4. \A q \in Pages : Sound(pages[q], db'.version, db'.saved)
    <3>1. ASSUME NEW q \in Pages PROVE Sound(pages[q], db.version + 1, {})
      BY SiteIs, SoundLater
    <3> QED BY <2>2, <3>1
  <2>5. pages' \in [Pages -> Sites] /\ SitesSound'
    <3>1. db'.version \in Nat /\ r.kind # "save"
      BY <1>4, <2>2
    <3> QED BY <1>2, <1>3, <2>4, <3>1, ServerResponds
  <2>6. Kept!DeletionWins' /\ ServerTyped' /\ RowsTrue'
    BY <1>1, <1>2, <1>4, <2>1, <2>2, <2>3, <2>5 DEF ServerTyped, RowsTrue, Kept!DeletionWins
  <2> QED BY <1>2, <2>5, <2>6 DEF ServerInv
<1>6. CASE db' = db /\ memory' = memory
  <2>1. \A q \in Pages : Sound(pages[q], db'.version, db'.saved)
    BY <1>6, SiteIs
  <2>2. pages' \in [Pages -> Sites] /\ SitesSound'
    <3>1. db'.version \in Nat /\ r.kind # "save"
      BY <1>4, <1>6
    <3> QED BY <1>2, <1>3, <2>1, <3>1, ServerResponds
  <2>3. ServerTyped' /\ RowsTrue' /\ Kept!DeletionWins'
    BY <1>1, <1>2, <1>4, <1>6, <2>2 DEF ServerTyped, RowsTrue, Kept!DeletionWins
  <2> QED BY <1>2, <2>2, <2>3 DEF ServerInv
<1> QED BY <1>1, <1>5, <1>6

(* The invariant holds of an empty store, *)
LEMMA ServerStarts == Kept!Init => ServerInv
<1> SUFFICES ASSUME Kept!Init PROVE ServerInv
  OBVIOUS
<1>1. {} \in SUBSET Snapshots /\ Snapshots \in SUBSET Snapshots /\ {0, 1} \subseteq Nat
  OBVIOUS
<1>2. Kept!Rows({}, 1) \in Derivations
  BY <1>1 DEF Kept!Rows, Derivations
<1>3. Kept!Idle \in Operations /\ Kept!NoNotice \in Notes
  BY <1>1 DEF Kept!Idle, Operations, Kinds, Kept!NoNotice, Notes
<1>4. ASSUME NEW p \in Pages PROVE pages[p] \in Sites /\ Sound(pages[p], 0, {})
  <2>1. pages[p] = [local |-> IF p = Owner THEN Snapshots ELSE {}, known |-> None, op |-> Kept!Idle, at |-> "ready",
                    notice |-> Kept!NoNotice]
    BY DEF Kept!Init
  <2>2. pages[p] \in Sites
    BY <1>1, <1>3, <2>1 DEF Sites
  <2>3. pages[p].known = None /\ pages[p].op = Kept!Idle /\ pages[p].notice = Kept!NoNotice
    BY <2>1
  <2> QED BY <2>2, <2>3 DEF Sound, Kept!Idle, Kept!NoNotice
<1>5. /\ db = [saved |-> {}, version |-> 0, rows |-> Kept!Rows({}, 1), signature |-> 1]
      /\ frozen = [s \in Snapshots |-> 0] /\ memory = [catalog |-> 1, cache |-> None] /\ disk = 1
      /\ wire = {} /\ DOMAIN pages = Pages /\ pages = [p \in Pages |-> pages[p]]
  BY DEF Kept!Init
<1>6. db \in [saved : SUBSET Snapshots, version : Nat, rows : Derivations, signature : Nat]
  BY <1>1, <1>2, <1>5
<1>7. pages \in [Pages -> Sites]
  BY <1>4, <1>5
<1>8. ServerTyped
  BY <1>1, <1>5, <1>6, <1>7 DEF ServerTyped
<1> QED BY <1>4, <1>5, <1>8 DEF ServerInv, Kept!DeletionWins, SitesSound, WireTrue, RowsTrue

(* is kept by every step, *)
LEMMA ServerStep == ServerInv /\ [Kept!Next]_serverVars => ServerInv'
<1> SUFFICES ASSUME ServerInv, [Kept!Next]_serverVars PROVE ServerInv'
  OBVIOUS
<1>1. CASE UNCHANGED serverVars
  BY <1>1 DEF serverVars, ServerInv, ServerTyped, Kept!DeletionWins, SitesSound, WireTrue, RowsTrue
<1>2. CASE \E r \in wire : Kept!Handle(r)
  BY <1>2, ServerHandlesSave, ServerHandlesDeletion
<1>3. CASE Kept!Statistics \/ Kept!CatalogChanges \/ Kept!Restart
  BY <1>3, ServerStatistics, ServerCatalog, ServerRestarts
<1>4. CASE \E p \in Pages : \/ Kept!Verify(p) \/ Kept!Expire(p) \/ Kept!BeginSave(p) \/ Kept!BeginDelete(p)
                            \/ Kept!Request(p) \/ Kept!Lose(p) \/ Kept!Recover(p)
  BY <1>4, ServerVerify, ServerBegins, ServerRequest, ServerLoses, ServerRecovers
<1> QED BY <1>1, <1>2, <1>3, <1>4 DEF Kept!Next

(* and implies the three things that the run checks. *)
LEMMA ServerSound == ServerInv => Kept!DeletionWins /\ Kept!SavedMeansStored /\ Kept!StatisticsAreCurrent
<1> SUFFICES ASSUME ServerInv PROVE Kept!SavedMeansStored /\ Kept!StatisticsAreCurrent
  BY DEF ServerInv
<1>1. Kept!SavedMeansStored
  BY DEF ServerInv, SitesSound, Sound, Kept!SavedMeansStored
<1>2. Kept!StatisticsAreCurrent
  BY AnswerIs DEF ServerInv, Kept!StatisticsAreCurrent
<1> QED BY <1>1, <1>2

-----------------------------------------------------------------------------
(* The quotas.  Grants and windows are counted after a time from which no      *)
(* window drops anything any more: of the grants after it, none is missing in  *)
(* the window of its key.                                                      *)

(* What a thread read before the lock. *)
Claims == [key : Keys, at : Nat]

(* Where a sequence of times is after a time, and where the grants of a key are. *)
Held(queue, after) == {i \in 1 .. Len(queue) : after < queue[i]}
Granted(gs, k, after) == {i \in 1 .. Len(gs) : gs[i].key = k /\ after < gs[i].at}
Between(gs, k, after, until) == {i \in 1 .. Len(gs) : gs[i].key = k /\ after < gs[i].at /\ gs[i].at <= until}

(* A finite set of numbers has a greatest member. *)
LEMMA HasGreatest ==
  ASSUME NEW S \in SUBSET Int, IsFiniteSet(S), S # {}
  PROVE  \E m \in S : \A x \in S : x <= m
<1> DEFINE From(a) == {x \in S : a <= x}
           R == StrictSubsetOrdering(S)
           T == {From(a) : a \in S}
<1>1. IsWellFoundedOn(R, FiniteSubsetsOf(S))
  BY FS_StrictSubsetOrderingWellFounded
<1>2. T \subseteq FiniteSubsetsOf(S) /\ T # {}
  <2>1. \A a \in S : From(a) \in SUBSET S
    OBVIOUS
  <2>2. \A a \in S : IsFiniteSet(From(a))
    BY <2>1, FS_Subset
  <2> HIDE DEF From
  <2> QED
    BY <2>1, <2>2 DEF FiniteSubsetsOf
<1>3. PICK B \in T : \A C \in T : ~ (<<C, B>> \in R)
  <2> HIDE DEF R, T
  <2> QED
    BY <1>1, <1>2, WFMin
<1>4. PICK a \in S : B = From(a)
  OBVIOUS
<1>5. ASSUME NEW x \in S, a < x
      PROVE  FALSE
  <2>0. S \subseteq Int /\ a \in Int /\ x \in Int /\ ~(x <= a)
    BY <1>5
  <2>1. From(x) \subseteq From(a) /\ a \in From(a) /\ a \notin From(x)
    <3>1. \A y \in From(x) : y \in From(a)
      BY <1>5, <2>0
    <3>2. a \in From(a)
      BY <2>0
    <3>3. a \notin From(x)
      BY <2>0
    <3> HIDE DEF From
    <3> QED
      BY <3>1, <3>2, <3>3
  <2>2. From(x) \in SUBSET S /\ From(a) \in SUBSET S
    OBVIOUS
  <2>3. <<From(x), From(a)>> \in R
    BY <2>1, <2>2 DEF StrictSubsetOrdering
  <2> QED
    BY <1>3, <1>4, <2>3
<1> QED
  BY <1>5

(* Positions of a sequence are counted by natural numbers, at most its length. *)
LEMMA HeldCounts ==
  ASSUME NEW queue \in Seq(Nat), NEW after \in Int
  PROVE  /\ IsFiniteSet(Held(queue, after)) /\ Cardinality(Held(queue, after)) \in Nat
         /\ Cardinality(Held(queue, after)) <= Len(queue)
<1>1. IsFiniteSet(1 .. Len(queue)) /\ Cardinality(1 .. Len(queue)) = Len(queue) /\ Len(queue) \in Nat
  <2>1. Len(queue) \in Nat
    BY LenProperties
  <2>2. /\ IsFiniteSet(1 .. Len(queue))
        /\ Cardinality(1 .. Len(queue)) = IF 1 > Len(queue) THEN 0 ELSE Len(queue) - 1 + 1
    BY <2>1, FS_Interval
  <2> QED BY <2>1, <2>2
<1>2. Held(queue, after) \in SUBSET (1 .. Len(queue))
  BY DEF Held
<1>3. IsFiniteSet(Held(queue, after)) /\ Cardinality(Held(queue, after)) <= Cardinality(1 .. Len(queue))
  BY <1>1, <1>2, FS_Subset
<1> QED BY <1>1, <1>3, FS_CardinalityType

(* So are the grants of a key. *)
LEMMA GrantedCounts ==
  ASSUME NEW gs \in Seq(Claims), NEW k, NEW after \in Int, NEW until \in Int
  PROVE  /\ IsFiniteSet(Granted(gs, k, after)) /\ Cardinality(Granted(gs, k, after)) \in Nat
         /\ IsFiniteSet(Between(gs, k, after, until)) /\ Cardinality(Between(gs, k, after, until)) \in Nat
         /\ Cardinality(Between(gs, k, after, until)) <= Cardinality(Granted(gs, k, after))
<1>1. IsFiniteSet(1 .. Len(gs))
  BY LenProperties, FS_Interval
<1>2. Granted(gs, k, after) \in SUBSET (1 .. Len(gs)) /\ Between(gs, k, after, until) \in SUBSET Granted(gs, k, after)
  BY DEF Granted, Between
<1>3. IsFiniteSet(Granted(gs, k, after))
  BY <1>1, <1>2, FS_Subset
<1>4. /\ IsFiniteSet(Between(gs, k, after, until))
      /\ Cardinality(Between(gs, k, after, until)) <= Cardinality(Granted(gs, k, after))
  BY <1>2, <1>3, FS_Subset
<1> QED BY <1>3, <1>4, FS_CardinalityType

(* One request more. *)
LEMMA HeldGrows ==
  ASSUME NEW queue \in Seq(Nat), NEW after \in Int, NEW at \in Nat
  PROVE  /\ Append(queue, at) \in Seq(Nat)
         /\ Cardinality(Held(Append(queue, at), after))
              = Cardinality(Held(queue, after)) + (IF after < at THEN 1 ELSE 0)
<1>1. /\ Append(queue, at) \in Seq(Nat) /\ Len(Append(queue, at)) = Len(queue) + 1 /\ Len(queue) \in Nat
      /\ \A i \in 1 .. Len(queue) : Append(queue, at)[i] = queue[i]
      /\ Append(queue, at)[Len(queue) + 1] = at
  BY AppendProperties, LenProperties
<1>2. Held(Append(queue, at), after)
        = IF after < at THEN Held(queue, after) \cup {Len(queue) + 1} ELSE Held(queue, after)
  BY <1>1 DEF Held
<1>3. Len(queue) + 1 \notin Held(queue, after)
  BY <1>1 DEF Held
<1>4. IsFiniteSet(Held(queue, after)) /\ Cardinality(Held(queue, after)) \in Nat
  BY HeldCounts
<1>5. CASE after < at
  BY <1>1, <1>2, <1>3, <1>4, <1>5, FS_AddElement
<1>6. CASE ~(after < at)
  BY <1>1, <1>2, <1>4, <1>6
<1> QED BY <1>5, <1>6

(* One grant more. *)
LEMMA GrantedGrows ==
  ASSUME NEW gs \in Seq(Claims), NEW k, NEW after \in Int, NEW until \in Int, NEW g \in Claims
  PROVE  /\ Append(gs, g) \in Seq(Claims)
         /\ Cardinality(Granted(Append(gs, g), k, after))
              = Cardinality(Granted(gs, k, after)) + (IF g.key = k /\ after < g.at THEN 1 ELSE 0)
         /\ Cardinality(Between(Append(gs, g), k, after, until))
              = Cardinality(Between(gs, k, after, until))
                + (IF g.key = k /\ after < g.at /\ g.at <= until THEN 1 ELSE 0)
<1>1. /\ Append(gs, g) \in Seq(Claims) /\ Len(Append(gs, g)) = Len(gs) + 1 /\ Len(gs) \in Nat
      /\ \A i \in 1 .. Len(gs) : Append(gs, g)[i] = gs[i]
      /\ Append(gs, g)[Len(gs) + 1] = g
  BY AppendProperties, LenProperties
<1>2. /\ Granted(Append(gs, g), k, after)
           = IF g.key = k /\ after < g.at THEN Granted(gs, k, after) \cup {Len(gs) + 1} ELSE Granted(gs, k, after)
      /\ Len(gs) + 1 \notin Granted(gs, k, after)
  BY <1>1 DEF Granted
<1>3. /\ Between(Append(gs, g), k, after, until)
           = IF g.key = k /\ after < g.at /\ g.at <= until THEN Between(gs, k, after, until) \cup {Len(gs) + 1}
             ELSE Between(gs, k, after, until)
      /\ Len(gs) + 1 \notin Between(gs, k, after, until)
  BY <1>1 DEF Between
<1>4. /\ IsFiniteSet(Granted(gs, k, after)) /\ Cardinality(Granted(gs, k, after)) \in Nat
      /\ IsFiniteSet(Between(gs, k, after, until)) /\ Cardinality(Between(gs, k, after, until)) \in Nat
  BY GrantedCounts
<1>5. Cardinality(Granted(Append(gs, g), k, after))
        = Cardinality(Granted(gs, k, after)) + (IF g.key = k /\ after < g.at THEN 1 ELSE 0)
  <2>1. CASE g.key = k /\ after < g.at
    BY <1>2, <1>4, <2>1, FS_AddElement
  <2>2. CASE ~(g.key = k /\ after < g.at)
    BY <1>2, <1>4, <2>2
  <2> QED BY <2>1, <2>2
<1>6. Cardinality(Between(Append(gs, g), k, after, until))
        = Cardinality(Between(gs, k, after, until))
          + (IF g.key = k /\ after < g.at /\ g.at <= until THEN 1 ELSE 0)
  <2>1. CASE g.key = k /\ after < g.at /\ g.at <= until
    BY <1>3, <1>4, <2>1, FS_AddElement
  <2>2. CASE ~(g.key = k /\ after < g.at /\ g.at <= until)
    BY <1>3, <1>4, <2>2
  <2> QED BY <2>1, <2>2
<1> QED BY <1>1, <1>5, <1>6

(* What the front of a window loses was not counted. *)
LEMMA PoppedIs ==
  ASSUME NEW queue \in Seq(Nat), NEW k \in Keys, NEW time \in Nat
  PROVE  \E n \in 0 .. Len(queue) :
           /\ Limit!Popped(queue, k, time) = SubSeq(queue, n + 1, Len(queue))
           /\ \A i \in 1 .. n : queue[i] + Period[k] <= time
<1> DEFINE old == {n \in 0 .. Len(queue) : \A i \in 1 .. n : ~Limit!Recent(queue[i], k, time)}
<1>1. Len(queue) \in Nat /\ Period[k] \in Nat
  BY LenProperties, LimitAssumption
<1>2. old \in SUBSET (0 .. Len(queue)) /\ IsFiniteSet(0 .. Len(queue)) /\ old \in SUBSET Int /\ 0 \in old
  <2>1. IsFiniteSet(0 .. Len(queue))
    BY <1>1, FS_Interval
  <2>2. old \in SUBSET (0 .. Len(queue)) /\ old \in SUBSET Int
    BY <1>1
  <2>3. 0 \in old
    BY <1>1
  <2> QED BY <2>1, <2>2, <2>3
<1>3. IsFiniteSet(old) /\ old # {}
  <2> HIDE DEF old
  <2> QED BY <1>2, FS_Subset
<1>4. PICK n \in old : n = CHOOSE m \in old : \A x \in old : x <= m
  <2>1. \E m \in old : \A x \in old : x <= m
    <3> HIDE DEF old
    <3> QED BY <1>2, <1>3, HasGreatest
  <2> QED BY <2>1
<1>5. n \in 0 .. Len(queue) /\ \A i \in 1 .. n : ~Limit!Recent(queue[i], k, time)
  OBVIOUS
<1>6. Limit!Popped(queue, k, time) = SubSeq(queue, n + 1, Len(queue))
  <2>1. Limit!Popped(queue, k, time) = SubSeq(queue, 1 + n, Len(queue))
    BY <1>4 DEF Limit!Popped
  <2>2. 1 + n = n + 1
    BY <1>1, <1>5
  <2> QED BY <2>1, <2>2
<1>7. \A i \in 1 .. n : queue[i] + Period[k] <= time
  <2>1. ASSUME NEW i \in 1 .. n PROVE queue[i] + Period[k] <= time
    <3>1. queue[i] \in Nat /\ ~(queue[i] + Period[k] > time)
      BY <1>1, <1>5 DEF Limit!Recent
    <3> QED BY <3>1, <1>1
  <2> QED BY <2>1
<1> HIDE DEF old
<1> QED BY <1>5, <1>6, <1>7

(* The front is popped only of what a later time does not count. *)
LEMMA PoppedHolds ==
  ASSUME NEW queue \in Seq(Nat), NEW k \in Keys, NEW time \in Nat, NEW after \in Int, time - Period[k] <= after
  PROVE  LET popped == Limit!Popped(queue, k, time)
         IN  /\ popped \in Seq(Nat) /\ Cardinality(Held(queue, after)) <= Cardinality(Held(popped, after))
             /\ \A i \in 1 .. Len(popped) : \E n \in Nat : i + n \in 1 .. Len(queue) /\ popped[i] = queue[i + n]
                  /\ Len(queue) = Len(popped) + n
<1>1. PICK n \in 0 .. Len(queue) : /\ Limit!Popped(queue, k, time) = SubSeq(queue, n + 1, Len(queue))
                                   /\ \A i \in 1 .. n : queue[i] + Period[k] <= time
  BY PoppedIs
<1>2. Len(queue) \in Nat /\ n \in Nat /\ Period[k] \in Nat /\ \A i \in 1 .. Len(queue) : queue[i] \in Nat
  BY <1>1, LenProperties, LimitAssumption
<1>3. PICK popped \in Seq(Nat) : /\ popped = Limit!Popped(queue, k, time) /\ Len(popped) = Len(queue) - n
                                 /\ \A i \in 1 .. Len(queue) - n : popped[i] = queue[i + n]
  <2>1. /\ n + 1 \in Int /\ Len(queue) \in Int /\ \A i \in n + 1 .. Len(queue) : queue[i] \in Nat
    BY <1>2
  <2>2. /\ SubSeq(queue, n + 1, Len(queue)) \in Seq(Nat)
        /\ Len(SubSeq(queue, n + 1, Len(queue))) = IF n + 1 <= Len(queue) THEN Len(queue) - (n + 1) + 1 ELSE 0
        /\ \A i \in 1 .. Len(queue) - (n + 1) + 1 : SubSeq(queue, n + 1, Len(queue))[i] = queue[n + 1 + i - 1]
    BY <2>1, SubSeqProperties
  <2>3. Len(SubSeq(queue, n + 1, Len(queue))) = Len(queue) - n
    BY <1>2, <2>2
  <2>4. ASSUME NEW i \in 1 .. Len(queue) - n
        PROVE  SubSeq(queue, n + 1, Len(queue))[i] = queue[i + n]
    <3>1. Len(queue) - n = Len(queue) - (n + 1) + 1 /\ n + 1 + i - 1 = i + n
      BY <1>2
    <3> QED BY <2>2, <3>1
  <2> QED BY <1>1, <2>2, <2>3, <2>4
<1>4. Cardinality(Held(queue, after)) <= Cardinality(Held(popped, after))
  <2> DEFINE shift == [i \in Held(queue, after) |-> i - n]
  <2>1. ASSUME NEW i \in Held(queue, after)
        PROVE  i \in Int /\ i - n \in Held(popped, after)
    <3>1. i \in 1 .. Len(queue) /\ after < queue[i] /\ queue[i] \in Nat
      BY <1>2 DEF Held
    <3>2. i > n
      <4>1. CASE i \in 1 .. n
        <5>1. queue[i] + Period[k] <= time
          BY <1>1, <4>1
        <5> QED BY <5>1, <3>1, <1>2
      <4> QED BY <4>1, <3>1, <1>2
    <3>3. i - n \in 1 .. Len(queue) - n /\ i - n + n = i
      BY <1>2, <3>1, <3>2
    <3>4. popped[i - n] = queue[i]
      BY <1>3, <3>3
    <3> QED BY <1>3, <3>1, <3>3, <3>4 DEF Held
  <2>2. \A i, j \in Held(queue, after) : shift[i] = shift[j] => i = j
    BY <1>2, <2>1
  <2>3. shift \in [Held(queue, after) -> Held(popped, after)]
    BY <2>1
  <2>4. shift \in Injection(Held(queue, after), Held(popped, after))
    <3> HIDE DEF shift
    <3> QED BY <2>2, <2>3 DEF Injection, IsInjective
  <2>5. IsFiniteSet(Held(popped, after))
    BY HeldCounts
  <2> HIDE DEF shift
  <2> QED BY <2>4, <2>5, FS_Injection
<1>5. ASSUME NEW i \in 1 .. Len(popped)
      PROVE  i + n \in 1 .. Len(queue) /\ popped[i] = queue[i + n] /\ Len(queue) = Len(popped) + n
  BY <1>2, <1>3
<1> QED BY <1>2, <1>3, <1>4, <1>5

-----------------------------------------------------------------------------
(* The invariant *)

(* The times in the window of a key. *)
Entered(k) == IF k \in DOMAIN events THEN events[k] ELSE <<>>

(* The types of the clock, the waiting threads, the windows and the grants. *)
LimitTyped ==
  /\ now \in Nat /\ waiting \in [Threads -> Claims \cup {None}]
  /\ DOMAIN events \subseteq Keys /\ \A k \in DOMAIN events : events[k] \in Seq(Nat)
  /\ grants \in Seq(Claims)

(* A thread waits for the lock no longer than its delay, *)
LocksSoon == \A t \in Threads : waiting[t] # None => waiting[t].at <= now /\ now <= waiting[t].at + Delay

(* so that a window is entered out of order by no more than that. *)
Ordered(queue, time) ==
  /\ \A i \in 1 .. Len(queue) : queue[i] <= time
  /\ \A i, j \in 1 .. Len(queue) : i < j => queue[i] <= queue[j] + Delay

(* Every window is. *)
AlmostInOrder == \A k \in DOMAIN events : Ordered(events[k], now)

(* Of the grants after the last time that may have been dropped, none is missing in the window. *)
NoneMissing ==
  \A k \in Keys, after \in Int : now + Delay - Period[k] <= after =>
    Cardinality(Granted(grants, k, after)) <= Cardinality(Held(Entered(k), after))

(* No span as long as the period less twice the delay, wherever it ends, has more grants than the maximum. *)
QuotaKept ==
  \A k \in Keys, until \in Int :
    Cardinality(Between(grants, k, until + 2 * Delay - Period[k], until)) <= Maximum[k]

(* The invariant of the quotas. *)
LimitInv == LimitTyped /\ LocksSoon /\ AlmostInOrder /\ NoneMissing /\ QuotaKept

(* A window stays in order when its front is popped and a waiting request enters. *)
LEMMA PoppedOrdered ==
  ASSUME NEW queue \in Seq(Nat), NEW k \in Keys, NEW time \in Nat, NEW at \in Nat, Ordered(queue, time)
  PROVE  Ordered(Limit!Popped(queue, k, at), time)
<1>1. at - Period[k] \in Int /\ at - Period[k] <= at - Period[k]
  BY LimitAssumption
<1>2. PICK popped \in Seq(Nat) :
        /\ popped = Limit!Popped(queue, k, at)
        /\ \A i \in 1 .. Len(popped) : \E n \in Nat : i + n \in 1 .. Len(queue) /\ popped[i] = queue[i + n]
             /\ Len(queue) = Len(popped) + n
  <2>1. Limit!Popped(queue, k, at) \in Seq(Nat)
    BY <1>1, PoppedHolds
  <2> QED BY <1>1, <2>1, PoppedHolds
<1>3. Len(popped) \in Nat /\ Len(queue) \in Nat
  BY LenProperties
<1>4. ASSUME NEW i \in 1 .. Len(popped) PROVE popped[i] <= time
  <2>1. PICK n \in Nat : i + n \in 1 .. Len(queue) /\ popped[i] = queue[i + n]
    BY <1>2
  <2> QED BY <2>1 DEF Ordered
<1>5. ASSUME NEW i \in 1 .. Len(popped), NEW j \in 1 .. Len(popped), i < j
      PROVE  popped[i] <= popped[j] + Delay
  <2>1. PICK n \in Nat : i + n \in 1 .. Len(queue) /\ popped[i] = queue[i + n] /\ Len(queue) = Len(popped) + n
    BY <1>2
  <2>2. PICK m \in Nat : j + m \in 1 .. Len(queue) /\ popped[j] = queue[j + m] /\ Len(queue) = Len(popped) + m
    BY <1>2
  <2>3. n = m
    BY <1>3, <2>1, <2>2
  <2>4. i + n < j + n
    BY <1>3, <1>5
  <2> QED BY <2>1, <2>2, <2>3, <2>4 DEF Ordered
<1> QED BY <1>2, <1>4, <1>5 DEF Ordered

(* A request that waited no longer than the delay is behind the last by no more. *)
LEMMA AppendOrdered ==
  ASSUME NEW queue \in Seq(Nat), NEW time \in Nat, NEW at \in Nat, Ordered(queue, time),
         at <= time, time <= at + Delay
  PROVE  Ordered(Append(queue, at), time)
<1>1. /\ Len(Append(queue, at)) = Len(queue) + 1 /\ Len(queue) \in Nat /\ Delay \in Nat
      /\ \A i \in 1 .. Len(queue) : Append(queue, at)[i] = queue[i] /\ queue[i] \in Nat
      /\ Append(queue, at)[Len(queue) + 1] = at
  BY AppendProperties, LenProperties, LimitAssumption
<1> QED BY <1>1 DEF Ordered

(* What came no later than a wait after a time that is a period old is as old as the window. *)
LEMMA LongAgo ==
  ASSUME NEW time \in Int, NEW last \in Int, NEW at \in Int, NEW clock \in Int, NEW after \in Int,
         NEW period \in Int, NEW wait \in Int, time <= last + wait, last + period <= at, at <= clock,
         clock + wait - period <= after
  PROVE  ~(after < time)
OBVIOUS

(* A window that leaves the table holds nothing that is still counted. *)
LEMMA PrunedHolds ==
  ASSUME LimitInv, NEW j \in DOMAIN events, NEW at \in Nat, at <= now, ~Limit!Kept(j, at),
         NEW after \in Int, now + Delay - Period[j] <= after
  PROVE  Held(events[j], after) = {}
<1>1. /\ j \in Keys /\ events[j] \in Seq(Nat) /\ now \in Nat /\ Delay \in Nat /\ Period[j] \in Nat
      /\ Ordered(events[j], now)
  BY LimitAssumption DEF LimitInv, LimitTyped, AlmostInOrder
<1>2. PICK queue \in Seq(Nat) : queue = events[j]
  BY <1>1
<1>3. Len(queue) \in Nat /\ \A i \in 1 .. Len(queue) : queue[i] \in Nat
  BY LenProperties
<1>4. CASE queue = <<>>
  BY <1>2, <1>4 DEF Held
<1>5. CASE queue # <<>>
  <2>1. Len(queue) \in 1 .. Len(queue)
    BY <1>3, <1>5, EmptySeq
  <2>2. PICK last \in Nat : last = queue[Len(queue)] /\ last + Period[j] <= at
    <3>1. queue[Len(queue)] \in Nat /\ ~(queue[Len(queue)] + Period[j] > at)
      BY <1>2, <1>3, <1>5, <2>1 DEF Limit!Kept, Limit!Recent
    <3> QED BY <3>1, <1>1
  <2>3. ASSUME NEW i \in 1 .. Len(queue) PROVE ~(after < queue[i])
    <3>1. queue[i] <= last + Delay
      <4>1. CASE i < Len(queue)
        BY <1>1, <1>2, <2>1, <2>2, <4>1 DEF Ordered
      <4>2. CASE i = Len(queue)
        BY <1>1, <2>2, <4>2
      <4> QED BY <1>3, <4>1, <4>2
    <3>2. /\ queue[i] \in Int /\ last \in Int /\ at \in Int /\ Period[j] \in Int /\ Delay \in Int /\ now \in Int
          /\ last + Period[j] <= at
      BY <1>1, <1>3, <2>2
    <3> QED BY <3>1, <3>2, LongAgo
  <2> QED BY <1>2, <2>3 DEF Held
<1> QED BY <1>4, <1>5

(* The invariant of the quotas holds with no request made, *)
LEMMA LimitStarts == Limit!Init => LimitInv
<1> SUFFICES ASSUME Limit!Init PROVE LimitInv
  OBVIOUS
<1>1. now = Delay + 1 /\ events = <<>> /\ grants = <<>> /\ waiting = [t \in Threads |-> None]
  BY DEF Limit!Init
<1>2. DOMAIN events = {} /\ Len(grants) = 0 /\ grants \in Seq(Claims)
  BY <1>1
<1>3. LimitTyped
  BY <1>1, <1>2, LimitAssumption DEF LimitTyped
<1>4. LocksSoon /\ AlmostInOrder
  BY <1>1, <1>2 DEF LocksSoon, AlmostInOrder
<1>5. ASSUME NEW k \in Keys, NEW after \in Int, NEW until \in Int
      PROVE  Cardinality(Granted(grants, k, after)) = 0 /\ Cardinality(Between(grants, k, after, until)) = 0
  <2>1. Granted(grants, k, after) = {} /\ Between(grants, k, after, until) = {}
    BY <1>2 DEF Granted, Between
  <2> QED BY <2>1, FS_EmptySet
<1>6. NoneMissing
  <2>1. ASSUME NEW k \in Keys, NEW after \in Int
        PROVE  Cardinality(Granted(grants, k, after)) <= Cardinality(Held(Entered(k), after))
    <3>1. Entered(k) \in Seq(Nat)
      BY <1>2 DEF Entered
    <3>2. Cardinality(Held(Entered(k), after)) \in Nat
      BY <3>1, HeldCounts
    <3> QED BY <1>5, <3>2
  <2> QED BY <2>1 DEF NoneMissing
<1>7. QuotaKept
  <2>1. ASSUME NEW k \in Keys, NEW until \in Int
        PROVE  Cardinality(Between(grants, k, until + 2 * Delay - Period[k], until)) <= Maximum[k]
    <3>1. until + 2 * Delay - Period[k] \in Int /\ Maximum[k] \in Nat
      BY LimitAssumption
    <3> QED BY <1>5, <3>1
  <2> QED BY <2>1 DEF QuotaKept
<1> QED BY <1>3, <1>4, <1>6, <1>7 DEF LimitInv

(* when the clock goes on, which it does only while nobody waited for the whole delay, *)
LEMMA LimitTicks == LimitInv /\ Limit!Tick => LimitInv'
<1> SUFFICES ASSUME LimitInv, Limit!Tick PROVE LimitInv'
  OBVIOUS
<1>1. /\ now' = now + 1 /\ UNCHANGED <<events, waiting, grants>> /\ now \in Nat /\ Delay \in Nat
      /\ \A t \in Threads : waiting[t] # None => now < waiting[t].at + Delay
  BY LimitAssumption DEF LimitInv, LimitTyped, Limit!Tick
<1>2. LimitTyped'
  BY <1>1 DEF LimitInv, LimitTyped
<1>3. LocksSoon'
  <2>1. ASSUME NEW t \in Threads, waiting[t] # None
        PROVE  waiting[t].at <= now + 1 /\ now + 1 <= waiting[t].at + Delay
    <3>1. waiting[t].at \in Nat /\ waiting[t].at <= now /\ now < waiting[t].at + Delay
      BY <1>1, <2>1 DEF LimitInv, LimitTyped, LocksSoon, Claims
    <3> QED BY <1>1, <3>1
  <2> QED BY <1>1, <2>1 DEF LocksSoon
<1>4. AlmostInOrder'
  <2>1. ASSUME NEW k \in DOMAIN events PROVE Ordered(events[k], now + 1)
    <3>1. events[k] \in Seq(Nat) /\ Ordered(events[k], now) /\ \A i \in 1 .. Len(events[k]) : events[k][i] \in Nat
      BY LenProperties DEF LimitInv, LimitTyped, AlmostInOrder
    <3> QED BY <1>1, <3>1 DEF Ordered
  <2> QED BY <1>1, <2>1 DEF AlmostInOrder
<1>5. NoneMissing'
  <2>1. ASSUME NEW k \in Keys, NEW after \in Int, now + 1 + Delay - Period[k] <= after
        PROVE  Cardinality(Granted(grants, k, after)) <= Cardinality(Held(Entered(k), after))
    <3>1. now + Delay - Period[k] <= after
      BY <1>1, <2>1, LimitAssumption
    <3> QED BY <3>1 DEF LimitInv, NoneMissing
  <2> QED BY <1>1, <2>1 DEF NoneMissing, Entered
<1>6. QuotaKept'
  BY <1>1 DEF LimitInv, QuotaKept
<1> QED BY <1>2, <1>3, <1>4, <1>5, <1>6 DEF LimitInv

(* and when a thread has read the clock. *)
LEMMA LimitArrives ==
  ASSUME LimitInv, NEW t \in Threads, Limit!Arrive(t)
  PROVE  LimitInv'
<1>1. PICK k \in Keys : waiting' = [waiting EXCEPT ![t] = [key |-> k, at |-> now]]
  BY DEF Limit!Arrive
<1>2. UNCHANGED <<now, events, grants>> /\ now \in Nat /\ Delay \in Nat
  BY LimitAssumption DEF LimitInv, LimitTyped, Limit!Arrive
<1>3. [key |-> k, at |-> now] \in Claims
  BY <1>2 DEF Claims
<1>4. LimitTyped'
  BY <1>1, <1>2, <1>3 DEF LimitInv, LimitTyped
<1>5. LocksSoon'
  <2>1. ASSUME NEW u \in Threads, waiting'[u] # None
        PROVE  waiting'[u].at <= now /\ now <= waiting'[u].at + Delay
    <3>1. waiting'[u] = IF u = t THEN [key |-> k, at |-> now] ELSE waiting[u]
      BY <1>1 DEF LimitInv, LimitTyped
    <3>2. CASE u = t
      BY <1>2, <3>1, <3>2
    <3>3. CASE u # t
      BY <2>1, <3>1, <3>3 DEF LimitInv, LocksSoon
    <3> QED BY <3>2, <3>3
  <2> QED BY <1>2, <2>1 DEF LocksSoon
<1>6. AlmostInOrder' /\ NoneMissing' /\ QuotaKept'
  BY <1>2 DEF LimitInv, AlmostInOrder, NoneMissing, QuotaKept, Entered
<1> QED BY <1>4, <1>5, <1>6 DEF LimitInv

(* A thread takes its place in the window of its key, or is refused: the windows of *)
(* the other keys are left alone or pruned, and a grant is counted in its window.   *)
LEMMA LimitTakes ==
  ASSUME LimitInv, NEW t \in Threads, Limit!Take(t)
  PROVE  LimitInv'
<1>1. PICK w \in Claims : w = waiting[t] /\ w.at <= now /\ now <= w.at + Delay
  <2>1. waiting[t] \in Claims
    BY DEF LimitInv, LimitTyped, Limit!Take
  <2> QED BY <2>1 DEF LimitInv, LocksSoon, Limit!Take
<1>2. PICK k \in Keys, at \in Nat : k = w.key /\ at = w.at
  BY DEF Claims
<1>3. /\ now \in Nat /\ Delay \in Nat /\ Period \in [Keys -> Nat] /\ Maximum \in [Keys -> Nat]
      /\ grants \in Seq(Claims) /\ DOMAIN events \subseteq Keys /\ at <= now /\ now <= at + Delay
      /\ \A j \in DOMAIN events : events[j] \in Seq(Nat) /\ Ordered(events[j], now)
  BY <1>1, <1>2, LimitAssumption DEF LimitInv, LimitTyped, AlmostInOrder
<1>4. PICK table \in SUBSET DOMAIN events : table = {j \in DOMAIN events : Limit!Kept(j, at)}
  OBVIOUS
<1>5. PICK base \in Seq(Nat) : base = (IF k \in table THEN events[k] ELSE <<>>) /\ Ordered(base, now)
  <2>1. Ordered(<<>>, now) /\ <<>> \in Seq(Nat)
    BY DEF Ordered
  <2> QED BY <1>3, <1>4, <2>1
<1>6. PICK queue \in Seq(Nat) : queue = Limit!Popped(base, k, at) /\ Ordered(queue, now)
  <2>1. Limit!Popped(base, k, at) \in Seq(Nat)
    <3>1. at - Period[k] \in Int /\ at - Period[k] <= at - Period[k]
      BY <1>3
    <3> QED BY <3>1, PoppedHolds
  <2> QED BY <1>3, <1>5, <2>1, PoppedOrdered
<1>7. PICK full \in BOOLEAN : full = Limit!Full(table, k) /\ (full => k \notin table)
  <2>1. Limit!Full(table, k) \in BOOLEAN /\ (Limit!Full(table, k) => k \notin table)
    BY DEF Limit!Full
  <2> QED BY <2>1
<1>8. PICK grant \in BOOLEAN : grant = (~full /\ Len(queue) < Maximum[k])
  OBVIOUS
<1>9. /\ events' = [j \in table \cup (IF full THEN {} ELSE {k}) |->
                      IF j # k THEN events[j] ELSE IF grant THEN Append(queue, at) ELSE queue]
      /\ grants' = IF grant THEN Append(grants, w) ELSE grants
      /\ waiting' = [waiting EXCEPT ![t] = None] /\ now' = now
  BY <1>1, <1>2, <1>4, <1>5, <1>6, <1>7, <1>8 DEF Limit!Take
<1>10. PICK next \in Seq(Nat) : next = (IF grant THEN Append(queue, at) ELSE queue) /\ Ordered(next, now)
  <2>1. Append(queue, at) \in Seq(Nat)
    BY AppendProperties
  <2> QED BY <1>3, <1>6, <2>1, AppendOrdered
<1>11. /\ DOMAIN events' = table \cup (IF full THEN {} ELSE {k}) /\ DOMAIN events' \subseteq Keys
       /\ \A j \in DOMAIN events' : events'[j] = IF j # k THEN events[j] ELSE next
       /\ \A j \in DOMAIN events' : j # k => j \in table
  BY <1>3, <1>4, <1>9, <1>10
<1>12. LimitTyped'
  <2>1. grants' \in Seq(Claims)
    BY <1>3, <1>9, AppendProperties
  <2>2. \A j \in DOMAIN events' : events'[j] \in Seq(Nat)
    BY <1>3, <1>4, <1>10, <1>11
  <2>3. waiting' \in [Threads -> Claims \cup {None}]
    BY <1>9 DEF LimitInv, LimitTyped
  <2> QED BY <1>3, <1>9, <1>11, <2>1, <2>2, <2>3 DEF LimitTyped
<1>13. LocksSoon'
  <2>1. \A u \in Threads : waiting'[u] # None => waiting'[u] = waiting[u]
    BY <1>9 DEF LimitInv, LimitTyped
  <2> QED BY <1>9, <2>1 DEF LimitInv, LocksSoon
<1>14. AlmostInOrder'
  <2>1. \A j \in DOMAIN events' : Ordered(events'[j], now)
    BY <1>3, <1>4, <1>10, <1>11
  <2> QED BY <1>9, <2>1 DEF AlmostInOrder
<1>15. ASSUME NEW after \in Int, now + Delay - Period[k] <= after
       PROVE  Cardinality(Granted(grants, k, after)) <= Cardinality(Held(queue, after))
  <2>1. Cardinality(Granted(grants, k, after)) <= Cardinality(Held(Entered(k), after))
    BY <1>15 DEF LimitInv, NoneMissing
  <2>2. Cardinality(Held(Entered(k), after)) <= Cardinality(Held(base, after))
    <3>1. Cardinality(Held(base, after)) \in Nat
      BY HeldCounts
    <3>2. CASE k \in table \/ k \notin DOMAIN events
      <4>1. Entered(k) = base
        BY <1>4, <1>5, <3>2 DEF Entered
      <4> QED BY <3>1, <4>1
    <3>3. CASE k \in DOMAIN events /\ k \notin table
      <4>1. Held(Entered(k), after) = {}
        <5>1. ~Limit!Kept(k, at)
          BY <1>4, <3>3
        <5>2. Held(events[k], after) = {}
          BY <1>3, <1>15, <3>3, <5>1, PrunedHolds
        <5> QED BY <3>3, <5>2 DEF Entered
      <4> QED BY <3>1, <4>1, FS_EmptySet
    <3> QED BY <3>2, <3>3
  <2>3. Cardinality(Held(base, after)) <= Cardinality(Held(queue, after))
    <3>1. at - Period[k] <= after
      BY <1>3, <1>15
    <3> QED BY <1>6, <3>1, PoppedHolds
  <2>4. /\ Cardinality(Granted(grants, k, after)) \in Nat /\ Cardinality(Held(base, after)) \in Nat
        /\ Cardinality(Held(queue, after)) \in Nat /\ Cardinality(Held(Entered(k), after)) \in Nat
    <3>1. Entered(k) \in Seq(Nat)
      BY <1>3 DEF Entered
    <3> QED BY <1>3, <3>1, HeldCounts, GrantedCounts
  <2> QED BY <2>1, <2>2, <2>3, <2>4
<1>16. ASSUME NEW j \in Keys, NEW after \in Int, now + Delay - Period[j] <= after
       PROVE  Cardinality(Granted(grants', j, after)) <= Cardinality(Held(Entered(j)', after))
  <2>1. Cardinality(Granted(grants', j, after))
          = Cardinality(Granted(grants, j, after)) + (IF grant /\ j = k /\ after < at THEN 1 ELSE 0)
    <3>1. Cardinality(Granted(grants, j, after)) \in Nat
      BY <1>3, GrantedCounts
    <3>2. CASE grant
      BY <1>2, <1>3, <1>9, <3>1, <3>2, GrantedGrows
    <3>3. CASE ~grant
      BY <1>9, <3>1, <3>3
    <3> QED BY <3>2, <3>3
  <2>2. CASE j # k
    <3>1. Cardinality(Granted(grants', j, after)) <= Cardinality(Held(Entered(j), after))
      <4>1. Cardinality(Granted(grants, j, after)) \in Nat
        BY <1>3, GrantedCounts
      <4>2. Cardinality(Granted(grants, j, after)) <= Cardinality(Held(Entered(j), after))
        BY <1>16 DEF LimitInv, NoneMissing
      <4> QED BY <2>1, <2>2, <4>1, <4>2
    <3>2. Held(Entered(j)', after) = Held(Entered(j), after)
      <4>1. CASE j \in table
        BY <1>4, <1>11, <2>2, <4>1 DEF Entered
      <4>2. CASE j \notin DOMAIN events
        BY <1>4, <1>11, <2>2, <4>2 DEF Entered
      <4>3. CASE j \in DOMAIN events /\ j \notin table
        <5>1. ~Limit!Kept(j, at)
          BY <1>4, <4>3
        <5>2. Held(events[j], after) = {}
          BY <1>3, <1>16, <4>3, <5>1, PrunedHolds
        <5>3. j \notin DOMAIN events'
          BY <1>11, <2>2, <4>3
        <5>4. Held(<<>>, after) = {}
          BY DEF Held
        <5> QED BY <4>3, <5>2, <5>3, <5>4 DEF Entered
      <4> QED BY <4>1, <4>2, <4>3
    <3> QED BY <3>1, <3>2
  <2>3. CASE j = k
    <3>1. Cardinality(Granted(grants, k, after)) <= Cardinality(Held(queue, after))
      BY <1>15, <1>16, <2>3
    <3>2. /\ Cardinality(Granted(grants, k, after)) \in Nat /\ Cardinality(Held(queue, after)) \in Nat
          /\ Cardinality(Held(base, after)) \in Nat
      BY <1>3, HeldCounts, GrantedCounts
    <3>3. CASE full
      <4>1. k \notin table /\ ~grant /\ base = <<>> /\ k \notin DOMAIN events'
        BY <1>5, <1>7, <1>8, <1>11, <3>3
      <4>2. queue = <<>>
        <5>1. Len(base) = 0 /\ Len(queue) \in Nat
          BY <4>1, LenProperties
        <5>2. at - Period[k] \in Int /\ at - Period[k] <= at - Period[k]
          BY <1>3
        <5>3. \A i \in 1 .. Len(queue) : \E n \in Nat : i + n \in 1 .. Len(base)
          BY <1>6, <5>2, PoppedHolds
        <5>4. Len(queue) = 0
          <6>1. CASE Len(queue) > 0
            <7>1. 1 \in 1 .. Len(queue)
              BY <5>1, <6>1
            <7>2. PICK n \in Nat : 1 + n \in 1 .. Len(base)
              BY <5>3, <7>1
            <7> QED BY <5>1, <7>2
          <6> QED BY <5>1, <6>1
        <5> QED BY <5>4, EmptySeq
      <4>3. Entered(k)' = queue
        BY <4>1, <4>2 DEF Entered
      <4> QED BY <2>1, <2>3, <3>1, <3>2, <4>1, <4>3
    <3>4. CASE ~full
      <4>1. Entered(k)' = next
        BY <1>11, <3>4 DEF Entered
      <4>2. CASE grant
        <5>1. Cardinality(Held(next, after)) = Cardinality(Held(queue, after)) + (IF after < at THEN 1 ELSE 0)
          BY <1>10, <4>2, HeldGrows
        <5> QED BY <2>1, <2>3, <3>1, <3>2, <4>1, <4>2, <5>1
      <4>3. CASE ~grant
        BY <1>10, <2>1, <2>3, <3>1, <3>2, <4>1, <4>3
      <4> QED BY <4>2, <4>3
    <3> QED BY <3>3, <3>4
  <2> QED BY <2>2, <2>3
<1>17. NoneMissing'
  BY <1>9, <1>16 DEF NoneMissing
<1>18. ASSUME NEW j \in Keys, NEW until \in Int
       PROVE  Cardinality(Between(grants', j, until + 2 * Delay - Period[j], until)) <= Maximum[j]
  <2>1. PICK after \in Int : after = until + 2 * Delay - Period[j]
    BY <1>3
  <2>2. Cardinality(Between(grants, j, after, until)) <= Maximum[j]
    BY <2>1 DEF LimitInv, QuotaKept
  <2>3. Maximum[j] \in Nat /\ Cardinality(Between(grants, j, after, until)) \in Nat
    BY <1>3, GrantedCounts
  <2>4. CASE grant /\ j = k /\ after < at /\ at <= until
    <3>1. Cardinality(Between(grants', k, after, until)) = Cardinality(Between(grants, k, after, until)) + 1
      BY <1>2, <1>3, <1>9, <2>3, <2>4, GrantedGrows
    <3>2. now + Delay - Period[k] <= after
      BY <1>3, <2>1, <2>4
    <3>3. /\ Cardinality(Between(grants, k, after, until)) <= Cardinality(Granted(grants, k, after))
          /\ Cardinality(Granted(grants, k, after)) \in Nat
      BY <1>3, GrantedCounts
    <3>4. Cardinality(Granted(grants, k, after)) <= Cardinality(Held(queue, after))
      BY <1>15, <3>2
    <3>5. Cardinality(Held(queue, after)) <= Len(queue) /\ Cardinality(Held(queue, after)) \in Nat
      BY HeldCounts
    <3>6. Len(queue) < Maximum[k] /\ Len(queue) \in Nat
      BY <1>8, <2>4, LenProperties
    <3> QED BY <2>1, <2>3, <2>4, <3>1, <3>3, <3>4, <3>5, <3>6
  <2>5. CASE ~(grant /\ j = k /\ after < at /\ at <= until)
    <3>1. Cardinality(Between(grants', j, after, until)) = Cardinality(Between(grants, j, after, until))
      <4>1. CASE grant
        BY <1>2, <1>3, <1>9, <2>3, <2>5, <4>1, GrantedGrows
      <4>2. CASE ~grant
        BY <1>9, <4>2
      <4> QED BY <4>1, <4>2
    <3> QED BY <2>1, <2>2, <3>1
  <2> QED BY <2>4, <2>5
<1>19. QuotaKept'
  BY <1>18 DEF QuotaKept
<1> QED BY <1>12, <1>13, <1>14, <1>17, <1>19 DEF LimitInv

(* So every step keeps it. *)
LEMMA LimitStep == LimitInv /\ [Limit!Next]_limitVars => LimitInv'
<1> SUFFICES ASSUME LimitInv, [Limit!Next]_limitVars PROVE LimitInv'
  OBVIOUS
<1>1. CASE UNCHANGED limitVars
  BY <1>1 DEF limitVars, LimitInv, LimitTyped, LocksSoon, AlmostInOrder, NoneMissing, QuotaKept, Entered
<1>2. CASE Limit!Tick
  BY <1>2, LimitTicks
<1>3. CASE \E t \in Threads : Limit!Arrive(t) \/ Limit!Take(t)
  BY <1>3, LimitArrives, LimitTakes
<1> QED BY <1>1, <1>2, <1>3 DEF Limit!Next

(* The quota of every grant is that of the span which ends with it. *)
LEMMA LimitSound == LimitInv => Limit!QuotaHolds
<1> SUFFICES ASSUME LimitInv, NEW i \in DOMAIN grants
             PROVE  LET g == grants[i]
                    IN  Limit!Within(g.key, g.at + 2 * Delay - Period[g.key], g.at) <= Maximum[g.key]
  BY DEF Limit!QuotaHolds
<1>1. DOMAIN grants = 1 .. Len(grants) /\ grants \in Seq(Claims)
  BY LenProperties DEF LimitInv, LimitTyped
<1>2. PICK g \in Claims : g = grants[i]
  BY <1>1
<1>3. g.key \in Keys /\ g.at \in Int
  BY DEF Claims
<1>4. Cardinality(Between(grants, g.key, g.at + 2 * Delay - Period[g.key], g.at)) <= Maximum[g.key]
  BY <1>3 DEF LimitInv, QuotaKept
<1>5. PICK after, until : after = g.at + 2 * Delay - Period[g.key] /\ until = g.at
  OBVIOUS
<1>6. {j \in DOMAIN grants : grants[j].key = g.key /\ after < grants[j].at /\ grants[j].at <= until}
        = Between(grants, g.key, after, until)
  BY <1>1 DEF Between
<1>7. Limit!Within(g.key, after, until) = Cardinality(Between(grants, g.key, after, until))
  <2>1. Limit!Within(g.key, after, until)
          = Cardinality({j \in DOMAIN grants : grants[j].key = g.key /\ after < grants[j].at /\ grants[j].at <= until})
    BY Zenon DEF Limit!Within, Limit!Cardinality, Cardinality
  <2> QED BY <1>6, <2>1
<1> QED BY <1>2, <1>4, <1>5, <1>7

-----------------------------------------------------------------------------
(* The ancestors of a revision, as the model climbs to them. *)

(* A finite set of numbers has a least member. *)
LEMMA HasLeast ==
  ASSUME NEW S \in SUBSET Int, IsFiniteSet(S), S # {}
  PROVE  \E m \in S : \A x \in S : m <= x
<1> DEFINE T == {-x : x \in S}
<1>1. T \in SUBSET Int /\ T # {}
  <2>1. \A x \in S : x \in Int /\ -x \in Int
    OBVIOUS
  <2>2. T \subseteq Int
    BY <2>1
  <2>3. PICK x \in S : -x \in T
    OBVIOUS
  <2> HIDE DEF T
  <2> QED BY <2>2, <2>3
<1>2. IsFiniteSet(T)
  <2> DEFINE f == [x \in S |-> -x]
  <2>1. f \in Surjection(S, T)
    BY DEF Surjection
  <2> QED
    BY <2>1, FS_Surjection
<1>3. PICK m \in T : \A x \in T : x <= m
  BY <1>1, <1>2, HasGreatest
<1>4. PICK k \in S : m = -k
  OBVIOUS
<1>5. \A x \in S : k <= x
  <2> SUFFICES ASSUME NEW x \in S PROVE k <= x
    OBVIOUS
  <2>1. -x <= -k
    BY <1>3, <1>4
  <2> QED
    BY <2>1
<1> QED
  BY <1>5

(* One step up: a set of revisions with their parents. *)
Climbed(g, known) == known \cup UNION {g[x] : x \in known \cap DOMAIN g}

(* The recursion of Ancestors, as an equation. *)
IsClimb(f, g, r, n) ==
  f = [i \in 0 .. n |-> IF i = 0 THEN {r} ELSE Climbed(g, f[i - 1])]

(* The recursive function that Ancestors uses is well defined. *)
LEMMA ClimbExists ==
  ASSUME NEW g, NEW r, NEW N \in Nat
  PROVE  \E f : IsClimb(f, g, r, N)
<1> DEFINE Bad == {n \in 0 .. N : ~ \E f : IsClimb(f, g, r, n)}
<1> SUFFICES Bad = {}
  OBVIOUS
<1> SUFFICES ASSUME Bad # {} PROVE FALSE
  OBVIOUS
<1>1. IsFiniteSet(0 .. N)
  BY FS_Interval
<1>2. Bad \in SUBSET (0 .. N)
  OBVIOUS
<1>3. Bad \in SUBSET Int /\ IsFiniteSet(Bad)
  BY <1>1, <1>2, FS_Subset
<1>4. PICK m \in Bad : \A x \in Bad : m <= x
  <2> HIDE DEF Bad
  <2> QED
    BY <1>3, HasLeast
<1>5. m \in 0 .. N /\ ~ \E f : IsClimb(f, g, r, m)
  OBVIOUS
<1>6. m # 0
  <2> SUFFICES ASSUME m = 0 PROVE FALSE
    OBVIOUS
  <2> DEFINE f == [i \in 0 .. 0 |-> {r}]
  <2>1. IsClimb(f, g, r, 0)
    BY DEF IsClimb
  <2> QED
    BY <1>5, <2>1
<1>7. m - 1 \in 0 .. N /\ m - 1 \notin Bad
  <2> HIDE DEF Bad
  <2> QED
    BY <1>4, <1>5, <1>6
<1>8. PICK f : IsClimb(f, g, r, m - 1)
  BY <1>7
<1> DEFINE h == [i \in 0 .. m |-> IF i = m THEN Climbed(g, f[m - 1]) ELSE f[i]]
<1>9. IsClimb(h, g, r, m)
  <2>1. \A i \in 0 .. m - 1 : f[i] = IF i = 0 THEN {r} ELSE Climbed(g, f[i - 1])
    BY <1>8 DEF IsClimb
  <2>2. \A i \in 0 .. m : h[i] = IF i = 0 THEN {r} ELSE Climbed(g, h[i - 1])
    <3> SUFFICES ASSUME NEW i \in 0 .. m
                 PROVE  h[i] = IF i = 0 THEN {r} ELSE Climbed(g, h[i - 1])
      OBVIOUS
    <3>1. CASE i = m
      <4>1. m - 1 \in 0 .. m /\ m - 1 # m
        BY <1>5, <1>6
      <4>2. h[m - 1] = f[m - 1]
        BY <4>1
      <4> QED
        BY <1>6, <3>1, <4>2
    <3>2. CASE i # m
      <4>1. i \in 0 .. m - 1
        BY <1>5, <3>2
      <4>2. h[i] = f[i]
        BY <3>2
      <4>3. i # 0 => i - 1 \in 0 .. m /\ i - 1 # m
        BY <1>5, <4>1
      <4>4. i # 0 => h[i - 1] = f[i - 1]
        BY <4>3
      <4> QED
        BY <2>1, <4>1, <4>2, <4>4
    <3> QED
      BY <3>1, <3>2
  <2> HIDE DEF h
  <2>3. h = [i \in 0 .. m |-> h[i]]
    BY DEF h
  <2> QED
    BY <2>2, <2>3 DEF IsClimb
<1> QED
  BY <1>5, <1>9

(* What is counted in the graph's module is counted here. *)
LEMMA CountIs == \A S : Graph!Cardinality(S) = Cardinality(S)
BY Zenon DEF Graph!Cardinality, Cardinality

(* The ancestors, as climbed to in n steps. *)
ClimbedIn(g, r, N) ==
  \E up : /\ Graph!Ancestors(g, r) = up[N]
          /\ \A n \in 0 .. N : up[n] = IF n = 0 THEN {r} ELSE Climbed(g, up[n - 1])

(* The ancestors are those that as many climbs reach as there are revisions. *)
LEMMA AncestorsClimb ==
  ASSUME NEW g, IsFiniteSet(DOMAIN g), NEW r
  PROVE  Cardinality(DOMAIN g) \in Nat /\ ClimbedIn(g, r, Cardinality(DOMAIN g))
<1> DEFINE N == Cardinality(DOMAIN g)
           up == CHOOSE f : f = [i \in 0 .. N |-> IF i = 0 THEN {r} ELSE Climbed(g, f[i - 1])]
<1>1. N \in Nat
  BY FS_CardinalityType
<1>2. IsClimb(up, g, r, N)
  <2> HIDE DEF N
  <2>1. \E f : f = [i \in 0 .. N |-> IF i = 0 THEN {r} ELSE Climbed(g, f[i - 1])]
    <3>1. PICK f : IsClimb(f, g, r, N)
      BY <1>1, ClimbExists
    <3> QED
      BY <3>1 DEF IsClimb
  <2> QED
    BY <2>1 DEF IsClimb
<1>3. Graph!Ancestors(g, r) = up[N]
  <2>1. Graph!Cardinality(DOMAIN g) = N
    BY CountIs
  <2> QED BY <2>1 DEF Graph!Ancestors, Climbed
<1> HIDE DEF up, N
<1>4. \A n \in 0 .. N : up[n] = IF n = 0 THEN {r} ELSE Climbed(g, up[n - 1])
  BY <1>2 DEF IsClimb
<1> QED BY <1>1, <1>3, <1>4 DEF N, ClimbedIn

(* A set that holds a revision and, with each listed revision, its parents
   holds the whole ancestry of that revision. *)
LEMMA AncestorsWithin ==
  ASSUME NEW g, IsFiniteSet(DOMAIN g), NEW r, NEW C, r \in C,
         \A x \in C \cap DOMAIN g : g[x] \subseteq C
  PROVE  Graph!Ancestors(g, r) \subseteq C
<1>0. PICK N \in Nat : N = Cardinality(DOMAIN g)
  BY AncestorsClimb
<1>1. PICK up : /\ Graph!Ancestors(g, r) = up[N]
                /\ \A n \in 0 .. N : up[n] = IF n = 0 THEN {r} ELSE Climbed(g, up[n - 1])
  <2>1. ClimbedIn(g, r, N)
    BY <1>0, AncestorsClimb
  <2> QED BY <2>1 DEF ClimbedIn
<1> DEFINE Bad == {n \in 0 .. N : ~(up[n] \subseteq C)}
<1>2. ASSUME Bad # {} PROVE FALSE
  <2>1. IsFiniteSet(Bad) /\ Bad \in SUBSET Int
    <3>1. IsFiniteSet(0 .. N) /\ Bad \in SUBSET (0 .. N)
      BY FS_Interval
    <3>2. 0 .. N \subseteq Int
      OBVIOUS
    <3> HIDE DEF Bad
    <3> QED BY <3>1, <3>2, FS_Subset
  <2>2. PICK m \in Bad : \A x \in Bad : m <= x
    <3> HIDE DEF Bad
    <3> QED BY <1>2, <2>1, HasLeast
  <2>3. m \in 0 .. N /\ ~(up[m] \subseteq C)
    OBVIOUS
  <2>4. m # 0
    BY <1>1, <2>3
  <2>5. m - 1 \in 0 .. N /\ m - 1 \notin Bad
    <3> HIDE DEF Bad
    <3> QED BY <2>2, <2>3, <2>4
  <2>6. up[m - 1] \subseteq C
    BY <2>5
  <2>7. up[m] = Climbed(g, up[m - 1])
    BY <1>1, <2>3, <2>4
  <2> QED BY <2>3, <2>6, <2>7 DEF Climbed
<1> QED BY <1>1, <1>2

(* The ancestry of a revision is such a set: a climb that reaches nothing new
   is the last, and there are not more of them than listed revisions. *)
LEMMA AncestorsClosed ==
  ASSUME NEW g, IsFiniteSet(DOMAIN g), NEW r
  PROVE  /\ r \in Graph!Ancestors(g, r)
         /\ \A x \in Graph!Ancestors(g, r) \cap DOMAIN g : g[x] \subseteq Graph!Ancestors(g, r)
<1>0. PICK N \in Nat : N = Cardinality(DOMAIN g)
  BY AncestorsClimb
<1>1. PICK up : /\ Graph!Ancestors(g, r) = up[N]
                /\ \A n \in 0 .. N : up[n] = IF n = 0 THEN {r} ELSE Climbed(g, up[n - 1])
  <2>1. ClimbedIn(g, r, N)
    BY <1>0, AncestorsClimb
  <2> QED BY <2>1 DEF ClimbedIn
<1> DEFINE Closed(S) == \A x \in S \cap DOMAIN g : g[x] \subseteq S
           Good(n) == r \in up[n] /\ (Closed(up[n]) \/ n + 1 <= Cardinality(up[n] \cap DOMAIN g))
           Bad == {n \in 0 .. N : ~Good(n)}
<1>2. \A S : IsFiniteSet(S \cap DOMAIN g) /\ Cardinality(S \cap DOMAIN g) \in Nat /\ Cardinality(S \cap DOMAIN g) <= N
  <2> SUFFICES ASSUME NEW S PROVE IsFiniteSet(S \cap DOMAIN g) /\ Cardinality(S \cap DOMAIN g) \in Nat /\ Cardinality(S \cap DOMAIN g) <= N
    OBVIOUS
  <2>1. S \cap DOMAIN g \in SUBSET DOMAIN g
    OBVIOUS
  <2> QED BY <1>0, <2>1, FS_Subset, FS_CardinalityType
<1>3. Good(0)
  <2>1. up[0] = {r}
    BY <1>1
  <2>2. CASE r \in DOMAIN g
    <3>1. up[0] \cap DOMAIN g = {r}
      BY <2>1, <2>2
    <3> QED BY <2>1, <3>1, FS_Singleton
  <2>3. CASE r \notin DOMAIN g
    BY <2>1, <2>3
  <2> QED BY <2>2, <2>3
<1>4. ASSUME NEW n \in 1 .. N, Good(n - 1) PROVE Good(n)
  <2>1. up[n] = Climbed(g, up[n - 1]) /\ n - 1 \in Nat
    BY <1>1
  <2>2. up[n - 1] \subseteq up[n] /\ \A x \in up[n - 1] \cap DOMAIN g : g[x] \subseteq up[n]
    BY <2>1 DEF Climbed
  <2>3. CASE Closed(up[n - 1])
    <3>1. up[n] = up[n - 1]
      BY <2>1, <2>3 DEF Climbed
    <3> QED BY <1>4, <2>3, <3>1
  <2>4. CASE ~Closed(up[n - 1]) /\ ~Closed(up[n])
    <3>1. PICK x \in up[n] \cap DOMAIN g : ~(g[x] \subseteq up[n])
      BY <2>4
    <3>2. x \notin up[n - 1]
      BY <2>2, <3>1
    <3>3. /\ up[n - 1] \cap DOMAIN g \in SUBSET (up[n] \cap DOMAIN g)
          /\ up[n - 1] \cap DOMAIN g # up[n] \cap DOMAIN g
      BY <2>2, <3>1, <3>2
    <3>4. Cardinality(up[n - 1] \cap DOMAIN g) < Cardinality(up[n] \cap DOMAIN g)
      <4>1. IsFiniteSet(up[n] \cap DOMAIN g) /\ Cardinality(up[n] \cap DOMAIN g) \in Nat
            /\ Cardinality(up[n - 1] \cap DOMAIN g) \in Nat
        BY <1>2
      <4>2. Cardinality(up[n - 1] \cap DOMAIN g) <= Cardinality(up[n] \cap DOMAIN g)
            /\ Cardinality(up[n - 1] \cap DOMAIN g) # Cardinality(up[n] \cap DOMAIN g)
        BY <3>3, <4>1, FS_Subset
      <4> QED BY <4>1, <4>2
    <3>5. n <= Cardinality(up[n - 1] \cap DOMAIN g)
      BY <1>4, <2>1, <2>4
    <3>6. Cardinality(up[n - 1] \cap DOMAIN g) \in Nat /\ Cardinality(up[n] \cap DOMAIN g) \in Nat
      BY <1>2
    <3>7. n + 1 <= Cardinality(up[n] \cap DOMAIN g)
      BY <3>4, <3>5, <3>6
    <3> QED BY <1>4, <2>2, <3>7
  <2>5. CASE Closed(up[n])
    BY <1>4, <2>2, <2>5
  <2> QED BY <2>3, <2>4, <2>5
<1>5. Bad = {}
  <2> SUFFICES ASSUME Bad # {} PROVE FALSE
    OBVIOUS
  <2>1. IsFiniteSet(Bad) /\ Bad \in SUBSET Int
    <3>1. IsFiniteSet(0 .. N) /\ Bad \in SUBSET (0 .. N)
      BY FS_Interval
    <3>2. 0 .. N \subseteq Int
      OBVIOUS
    <3> HIDE DEF Bad
    <3> QED BY <3>1, <3>2, FS_Subset
  <2>2. PICK m \in Bad : \A x \in Bad : m <= x
    <3> HIDE DEF Bad
    <3> QED BY <2>1, HasLeast
  <2>3. m \in 0 .. N /\ ~Good(m)
    OBVIOUS
  <2> HIDE DEF Good
  <2>4. m # 0 /\ m \in 1 .. N
    BY <1>3, <2>3
  <2>5. m - 1 \in 0 .. N /\ m - 1 \notin Bad
    <3> HIDE DEF Bad
    <3> QED BY <2>2, <2>3, <2>4
  <2> QED BY <1>4, <2>3, <2>4, <2>5
<1>6. Good(N)
  <2> HIDE DEF Good
  <2> QED BY <1>5
<1>7. Closed(up[N])
  <2>1. Cardinality(up[N] \cap DOMAIN g) \in Nat /\ Cardinality(up[N] \cap DOMAIN g) <= N
    BY <1>2
  <2> QED BY <1>6, <2>1
<1> QED BY <1>1, <1>6, <1>7

(* Whatever an ancestor reaches is reached, and a parent is an ancestor. *)
LEMMA AncestorsPass ==
  ASSUME NEW g, IsFiniteSet(DOMAIN g), NEW x
  PROVE  /\ x \in Graph!Ancestors(g, x)
         /\ \A y \in Graph!Ancestors(g, x) : Graph!Ancestors(g, y) \subseteq Graph!Ancestors(g, x)
         /\ x \in DOMAIN g => \A p \in g[x] : /\ p \in Graph!Ancestors(g, x)
                                              /\ Graph!Ancestors(g, p) \subseteq Graph!Ancestors(g, x)
<1>1. /\ x \in Graph!Ancestors(g, x)
      /\ \A y \in Graph!Ancestors(g, x) \cap DOMAIN g : g[y] \subseteq Graph!Ancestors(g, x)
  BY AncestorsClosed
<1>2. \A y \in Graph!Ancestors(g, x) : Graph!Ancestors(g, y) \subseteq Graph!Ancestors(g, x)
  BY <1>1, AncestorsWithin
<1> QED BY <1>1, <1>2

-----------------------------------------------------------------------------
(* The traversal of inspectGraph.  The stack holds the revisions whose         *)
(* component is open, the frames are a path through it: a revision on the      *)
(* stack is reached from every frame before it and reaches one of them, and    *)
(* the low index of a frame is the least that the part of the stack it owns    *)
(* points at.                                                                  *)

(* A revision on a cycle. *)
OnCycle(g, r) == \E p \in g[r] : r \in Graph!Ancestors(g, p)

(* The revisions on the stack. *)
Stacked(mem) == {mem[i] : i \in 1 .. Len(mem)}

(* A parent that the traversal has yet to look at. *)
Unread(fr, s, p) == \E j \in 1 .. Len(fr) : fr[j].id = s /\ p \in fr[j].todo

(* What the traversal is made of. *)
WalkTyped(g, ix, lo, M, fr) ==
  /\ IsFiniteSet(DOMAIN g) /\ DOMAIN ix \subseteq DOMAIN g /\ M \subseteq DOMAIN ix
  /\ IsFiniteSet(DOMAIN ix) /\ Cardinality(DOMAIN ix) \in Nat
  /\ DOMAIN lo = DOMAIN ix /\ \A x \in DOMAIN ix : lo[x] \in Nat /\ ix[x] \in Nat /\ ix[x] < Cardinality(DOMAIN ix)
  /\ \A x, y \in DOMAIN ix : ix[x] = ix[y] => x = y
  /\ Len(fr) \in Nat
  /\ \A i \in 1 .. Len(fr) : fr[i].id \in M /\ fr[i].todo \subseteq g[fr[i].id]
  /\ \A i, j \in 1 .. Len(fr) : i < j => ix[fr[i].id] < ix[fr[j].id]

(* What was looked at is entered, *)
LookedAt(g, ix, fr) == \A s \in DOMAIN ix : \A p \in g[s] \cap DOMAIN g : p \in DOMAIN ix \/ Unread(fr, s, p)

(* and from a closed component nothing leads to an open one. *)
ClosedBehind(g, ix, M) == \A s \in DOMAIN ix \ M : \A p \in g[s] \cap DOMAIN g : p \in DOMAIN ix \ M

(* A revision on the stack is reached from the frames that are not after it *)
ReachedFromFrames(g, ix, M, fr) ==
  \A s \in M, i \in 1 .. Len(fr) : ix[fr[i].id] <= ix[s] => s \in Graph!Ancestors(g, fr[i].id)

(* and reaches one of them. *)
ReachesFrame(g, ix, M, fr) ==
  \A s \in M : \E i \in 1 .. Len(fr) : ix[fr[i].id] <= ix[s] /\ fr[i].id \in Graph!Ancestors(g, s)

(* The last frame that is not after a revision owns it. *)
Owns(ix, fr, i, s) == ix[fr[i].id] <= ix[s] /\ \A j \in 1 .. Len(fr) : ix[fr[j].id] <= ix[s] => j <= i

(* The low index of a frame is below what the revisions that it owns point at on the stack, *)
LowBounds(g, ix, lo, M, fr) ==
  \A i \in 1 .. Len(fr), s \in M : \A p \in g[s] \cap M :
    Owns(ix, fr, i, s) /\ ~Unread(fr, s, p) => lo[fr[i].id] <= ix[p]

(* and is the index of a revision on the stack that is reached. *)
LowReached(g, ix, lo, M, fr) ==
  \A i \in 1 .. Len(fr) :
    /\ lo[fr[i].id] <= ix[fr[i].id]
    /\ \E s \in M : ix[s] = lo[fr[i].id] /\ s \in Graph!Ancestors(g, fr[i].id)

(* The traversal, between two of its steps. *)
Walk(g, ix, lo, M, fr) ==
  /\ WalkTyped(g, ix, lo, M, fr) /\ LookedAt(g, ix, fr) /\ ClosedBehind(g, ix, M)
  /\ ReachedFromFrames(g, ix, M, fr) /\ ReachesFrame(g, ix, M, fr)
  /\ LowBounds(g, ix, lo, M, fr) /\ LowReached(g, ix, lo, M, fr)

(* A frame owns itself alone among the frames. *)
LEMMA OwnsItself ==
  ASSUME NEW g, NEW ix, NEW lo, NEW M, NEW fr, WalkTyped(g, ix, lo, M, fr),
         NEW i \in 1 .. Len(fr), NEW j \in 1 .. Len(fr), Owns(ix, fr, i, fr[j].id)
  PROVE  i = j
<1>1. ix[fr[i].id] \in Nat /\ ix[fr[j].id] \in Nat /\ ix[fr[i].id] <= ix[fr[j].id]
  BY DEF WalkTyped, Owns
<1>2. j <= i
  BY <1>1 DEF Owns
<1>3. ~(j < i)
  BY <1>1 DEF WalkTyped
<1> QED BY <1>2, <1>3

(* A revision is entered. *)
LEMMA EnterKeeps ==
  ASSUME NEW g, NEW ix, NEW lo, NEW M, NEW fr, Walk(g, ix, lo, M, fr),
         NEW r \in DOMAIN g \ DOMAIN ix, NEW fr2, Len(fr2) = Len(fr) + 1,
         \A i \in 1 .. Len(fr) : /\ fr2[i].id = fr[i].id
                                 /\ fr2[i].todo \subseteq fr[i].todo /\ fr[i].todo \subseteq fr2[i].todo \cup {r},
         fr2[Len(fr) + 1].id = r, fr2[Len(fr) + 1].todo = g[r],
         Len(fr) = 0 \/ r \in g[fr[Len(fr)].id]
  PROVE  LET n == Cardinality(DOMAIN ix)
         IN  Walk(g, Graph!Bind(ix, r, n), Graph!Bind(lo, r, n), M \cup {r}, fr2)
<1> DEFINE n == Cardinality(DOMAIN ix)
           k == Len(fr)
<1>1. PICK ix2, lo2 : ix2 = Graph!Bind(ix, r, n) /\ lo2 = Graph!Bind(lo, r, n)
  OBVIOUS
<1>2. /\ DOMAIN ix2 = DOMAIN ix \cup {r} /\ DOMAIN lo2 = DOMAIN ix \cup {r} /\ ix2[r] = n /\ lo2[r] = n
      /\ \A x \in DOMAIN ix : ix2[x] = ix[x] /\ lo2[x] = lo[x] /\ x # r
  BY <1>1 DEF Graph!Bind, Walk, WalkTyped
<1>3. /\ n \in Nat /\ k \in Nat /\ M \subseteq DOMAIN ix /\ IsFiniteSet(DOMAIN g)
      /\ \A x \in DOMAIN ix : lo[x] \in Nat /\ ix[x] \in Nat /\ ix[x] < n
      /\ \A i \in 1 .. k : fr[i].id \in M /\ fr[i].todo \subseteq g[fr[i].id]
      /\ \A i, j \in 1 .. k : i < j => ix[fr[i].id] < ix[fr[j].id]
  BY DEF Walk, WalkTyped
<1>4. IsFiniteSet(DOMAIN ix2) /\ Cardinality(DOMAIN ix2) = n + 1
  BY <1>2, FS_AddElement DEF Walk, WalkTyped
<1> HIDE DEF n, k
<1>5. Len(fr2) = k + 1 /\ fr2[k + 1].id = r /\ fr2[k + 1].todo = g[r] /\ (k = 0 \/ r \in g[fr[k].id])
  BY DEF k
<1>6. \A i \in 1 .. k : /\ fr2[i].id = fr[i].id
                        /\ fr2[i].todo \subseteq fr[i].todo /\ fr[i].todo \subseteq fr2[i].todo \cup {r}
  BY DEF k
<1>7. \A i \in 1 .. Len(fr2) : i \in 1 .. k \/ i = k + 1
  BY <1>3, <1>5
<1>8. \A i \in 1 .. k : i \in 1 .. Len(fr2) /\ i # k + 1 /\ i < k + 1
  BY <1>3, <1>5
<1>9. WalkTyped(g, ix2, lo2, M \cup {r}, fr2)
  <2>1. /\ DOMAIN ix2 \subseteq DOMAIN g /\ M \cup {r} \subseteq DOMAIN ix2 /\ DOMAIN lo2 = DOMAIN ix2
        /\ Len(fr2) \in Nat /\ n + 1 \in Nat
    BY <1>2, <1>3, <1>5 DEF Walk, WalkTyped
  <2>2. \A x \in DOMAIN ix2 : lo2[x] \in Nat /\ ix2[x] \in Nat /\ ix2[x] < n + 1
    BY <1>2, <1>3
  <2>3. \A x, y \in DOMAIN ix2 : ix2[x] = ix2[y] => x = y
    <3>1. \A x, y \in DOMAIN ix : ix[x] = ix[y] => x = y
      BY DEF Walk, WalkTyped
    <3> QED BY <1>2, <1>3, <3>1
  <2>4. \A i \in 1 .. Len(fr2) : fr2[i].id \in M \cup {r} /\ fr2[i].todo \subseteq g[fr2[i].id]
    BY <1>3, <1>5, <1>6, <1>7
  <2>5. ASSUME NEW i \in 1 .. Len(fr2), NEW j \in 1 .. Len(fr2), i < j
        PROVE  ix2[fr2[i].id] < ix2[fr2[j].id]
    <3>1. i \in 1 .. k
      BY <1>3, <1>5, <2>5
    <3>2. ix2[fr2[i].id] = ix[fr[i].id] /\ ix[fr[i].id] \in Nat /\ ix[fr[i].id] < n
      BY <1>2, <1>3, <1>6, <3>1
    <3>3. CASE j \in 1 .. k
      BY <1>2, <1>3, <1>6, <2>5, <3>1, <3>2, <3>3
    <3>4. CASE j = k + 1
      BY <1>2, <1>5, <3>2, <3>4
    <3> QED BY <1>7, <3>3, <3>4
  <2> QED BY <1>3, <1>4, <2>1, <2>2, <2>3, <2>4, <2>5 DEF WalkTyped
<1>10. \A s \in DOMAIN ix : \A p : Unread(fr, s, p) => Unread(fr2, s, p) \/ p = r
  BY <1>6, <1>8 DEF Unread, k
<1>11. \A p \in g[r] : Unread(fr2, r, p)
  <2>1. k + 1 \in 1 .. Len(fr2)
    BY <1>3, <1>5
  <2> QED BY <1>5, <2>1 DEF Unread
<1>12. LookedAt(g, ix2, fr2)
  BY <1>2, <1>10, <1>11 DEF Walk, LookedAt
<1>13. ClosedBehind(g, ix2, M \cup {r})
  BY <1>2 DEF Walk, ClosedBehind
<1>14. \A i \in 1 .. k : r \in Graph!Ancestors(g, fr[i].id)
  <2> SUFFICES ASSUME NEW i \in 1 .. k PROVE r \in Graph!Ancestors(g, fr[i].id)
    OBVIOUS
  <2>1. k \in 1 .. k /\ k # 0
    BY <1>3
  <2>2. ix[fr[i].id] <= ix[fr[k].id]
    <3>1. i = k \/ i < k
      BY <1>3
    <3>2. ix[fr[i].id] \in Nat /\ ix[fr[k].id] \in Nat
      BY <1>3, <2>1
    <3> QED BY <1>3, <2>1, <3>1, <3>2
  <2>3. fr[k].id \in M /\ fr[k].id \in DOMAIN g
    BY <1>3, <2>1 DEF Walk, WalkTyped
  <2>4. fr[k].id \in Graph!Ancestors(g, fr[i].id)
    BY <2>1, <2>2, <2>3 DEF Walk, ReachedFromFrames, k
  <2>5. r \in Graph!Ancestors(g, fr[k].id)
    BY <1>3, <1>5, <2>1, <2>3, AncestorsPass
  <2> QED BY <1>3, <2>4, <2>5, AncestorsPass
<1>15. r \in Graph!Ancestors(g, r)
  BY <1>3, AncestorsPass
<1>16. ReachedFromFrames(g, ix2, M \cup {r}, fr2)
  <2> SUFFICES ASSUME NEW s \in M \cup {r}, NEW i \in 1 .. Len(fr2), ix2[fr2[i].id] <= ix2[s]
               PROVE  s \in Graph!Ancestors(g, fr2[i].id)
    BY DEF ReachedFromFrames
  <2>1. CASE i = k + 1
    <3>1. s = r
      BY <1>2, <1>3, <1>5, <2>1
    <3> QED BY <1>5, <1>15, <2>1, <3>1
  <2>2. CASE i \in 1 .. k /\ s = r
    BY <1>6, <1>14, <2>2
  <2>3. CASE i \in 1 .. k /\ s # r
    <3>1. s \in M /\ ix[fr[i].id] <= ix[s]
      BY <1>2, <1>3, <1>6, <2>3
    <3> QED BY <1>6, <2>3, <3>1 DEF Walk, ReachedFromFrames, k
  <2> QED BY <1>7, <2>1, <2>2, <2>3
<1>17. ReachesFrame(g, ix2, M \cup {r}, fr2)
  <2> SUFFICES ASSUME NEW s \in M \cup {r}
               PROVE  \E i \in 1 .. Len(fr2) : ix2[fr2[i].id] <= ix2[s] /\ fr2[i].id \in Graph!Ancestors(g, s)
    BY DEF ReachesFrame
  <2>1. CASE s = r
    <3>1. k + 1 \in 1 .. Len(fr2) /\ ix2[r] <= ix2[r]
      BY <1>2, <1>3, <1>5
    <3> QED BY <1>5, <1>15, <2>1, <3>1
  <2>2. CASE s # r
    <3>1. PICK i \in 1 .. k : ix[fr[i].id] <= ix[s] /\ fr[i].id \in Graph!Ancestors(g, s)
      BY <2>2 DEF Walk, ReachesFrame, k
    <3>2. s \in DOMAIN ix /\ fr[i].id \in DOMAIN ix
      BY <1>3, <2>2
    <3> QED BY <1>2, <1>6, <1>8, <3>1, <3>2
  <2> QED BY <2>1, <2>2
<1>18. LowReached(g, ix2, lo2, M \cup {r}, fr2)
  <2> SUFFICES ASSUME NEW i \in 1 .. Len(fr2)
               PROVE  /\ lo2[fr2[i].id] <= ix2[fr2[i].id]
                      /\ \E s \in M \cup {r} : ix2[s] = lo2[fr2[i].id] /\ s \in Graph!Ancestors(g, fr2[i].id)
    BY DEF LowReached
  <2>1. CASE i = k + 1
    BY <1>2, <1>3, <1>5, <1>15, <2>1
  <2>2. CASE i \in 1 .. k
    <3>1. lo[fr[i].id] <= ix[fr[i].id] /\ fr[i].id \in DOMAIN ix
      BY <1>3, <2>2 DEF Walk, LowReached, k
    <3>2. PICK s \in M : ix[s] = lo[fr[i].id] /\ s \in Graph!Ancestors(g, fr[i].id)
      BY <2>2 DEF Walk, LowReached, k
    <3> QED BY <1>2, <1>3, <1>6, <2>2, <3>1, <3>2
  <2> QED BY <1>7, <2>1, <2>2
<1>19. LowBounds(g, ix2, lo2, M \cup {r}, fr2)
  <2> SUFFICES ASSUME NEW i \in 1 .. Len(fr2), NEW s \in M \cup {r}, NEW p \in g[s] \cap (M \cup {r}),
                      Owns(ix2, fr2, i, s), ~Unread(fr2, s, p)
               PROVE  lo2[fr2[i].id] <= ix2[p]
    BY DEF LowBounds
  <2>1. s # r /\ s \in M
    BY <1>11
  <2>2. i \in 1 .. k
    <3>1. i # k + 1
      BY <1>2, <1>3, <1>5, <2>1 DEF Owns
    <3> QED BY <1>7, <3>1
  <2>3. Owns(ix, fr, i, s)
    <3>1. ix2[s] = ix[s] /\ \A j \in 1 .. k : ix2[fr2[j].id] = ix[fr[j].id]
      BY <1>2, <1>3, <1>6, <2>1
    <3> QED BY <1>8, <2>2, <3>1 DEF Owns, k
  <2>4. lo2[fr2[i].id] = lo[fr[i].id]
    BY <1>2, <1>3, <1>6, <2>2
  <2>5. CASE p \in M
    <3>1. ~Unread(fr, s, p)
      BY <1>3, <1>10, <2>1, <2>5
    <3>2. lo[fr[i].id] <= ix[p]
      BY <2>1, <2>2, <2>3, <2>5, <3>1 DEF Walk, LowBounds, k
    <3> QED BY <1>2, <1>3, <2>4, <2>5, <3>2
  <2>6. CASE p = r
    <3>1. Unread(fr, s, r)
      BY <1>3, <2>1, <2>6 DEF Walk, LookedAt
    <3>2. PICK j \in 1 .. k : fr[j].id = s
      BY <3>1 DEF Unread, k
    <3>3. i = j
      BY <2>2, <2>3, <3>2, OwnsItself DEF Walk, k
    <3>4. lo[s] <= ix[s] /\ s \in DOMAIN ix
      BY <1>3, <3>2 DEF Walk, LowReached, k
    <3> QED BY <1>2, <1>3, <2>4, <2>6, <3>2, <3>3, <3>4
  <2> QED BY <2>5, <2>6
<1>20. Walk(g, ix2, lo2, M \cup {r}, fr2)
  BY <1>9, <1>12, <1>13, <1>16, <1>17, <1>18, <1>19 DEF Walk
<1> QED BY <1>1, <1>20 DEF n

(* A parent is looked at that is entered already, or is not listed. *)
LEMMA SkipKeeps ==
  ASSUME NEW g, NEW ix, NEW lo, NEW M, NEW fr, Walk(g, ix, lo, M, fr),
         NEW k \in Nat, k = Len(fr), k > 0, NEW p \in fr[k].todo, p \in DOMAIN ix \/ p \notin DOMAIN g,
         NEW fr2, Len(fr2) = k, \A i \in 1 .. k : fr2[i].id = fr[i].id,
         \A i \in 1 .. k : i # k => fr2[i].todo = fr[i].todo, fr2[k].todo = fr[k].todo \ {p},
         NEW lo2, DOMAIN lo2 = DOMAIN lo, \A x \in DOMAIN lo : x # fr[k].id => lo2[x] = lo[x],
         lo2[fr[k].id] = IF p \in M THEN Graph!Lower(lo[fr[k].id], ix[p]) ELSE lo[fr[k].id]
  PROVE  Walk(g, ix, lo2, M, fr2)
<1>1. /\ M \subseteq DOMAIN ix /\ IsFiniteSet(DOMAIN g) /\ DOMAIN ix \subseteq DOMAIN g /\ DOMAIN lo = DOMAIN ix
      /\ \A x \in DOMAIN ix : lo[x] \in Nat /\ ix[x] \in Nat
      /\ \A i \in 1 .. k : fr[i].id \in M /\ fr[i].todo \subseteq g[fr[i].id]
  BY DEF Walk, WalkTyped
<1>2. k \in 1 .. k /\ fr[k].id \in M /\ p \in g[fr[k].id]
  BY <1>1
<1>3. \A x \in DOMAIN ix : lo2[x] \in Nat /\ lo2[x] <= lo[x]
  BY <1>1, <1>2 DEF Graph!Lower
<1>4. p \in M => lo2[fr[k].id] <= ix[p]
  BY <1>1, <1>2 DEF Graph!Lower
<1>5. \A s, q : Unread(fr, s, q) => Unread(fr2, s, q) \/ (s = fr[k].id /\ q = p)
  BY DEF Unread
<1>6. WalkTyped(g, ix, lo2, M, fr2)
  <2>1. \A i \in 1 .. k : fr2[i].id \in M /\ fr2[i].todo \subseteq g[fr2[i].id]
    BY <1>1
  <2>2. \A i, j \in 1 .. k : i < j => ix[fr2[i].id] < ix[fr2[j].id]
    BY DEF Walk, WalkTyped
  <2>3. \A x \in DOMAIN ix : lo2[x] \in Nat /\ ix[x] \in Nat /\ ix[x] < Cardinality(DOMAIN ix)
    BY <1>3 DEF Walk, WalkTyped
  <2> QED BY <2>1, <2>2, <2>3 DEF Walk, WalkTyped
<1>7. LookedAt(g, ix, fr2)
  BY <1>5 DEF Walk, LookedAt
<1>8. ReachedFromFrames(g, ix, M, fr2)
  BY DEF Walk, ReachedFromFrames
<1>9. ReachesFrame(g, ix, M, fr2)
  BY DEF Walk, ReachesFrame
<1>10. LowReached(g, ix, lo2, M, fr2)
  <2> SUFFICES ASSUME NEW i \in 1 .. k
               PROVE  /\ lo2[fr[i].id] <= ix[fr[i].id]
                      /\ \E s \in M : ix[s] = lo2[fr[i].id] /\ s \in Graph!Ancestors(g, fr[i].id)
    BY DEF LowReached
  <2>1. lo[fr[i].id] <= ix[fr[i].id] /\ \E s \in M : ix[s] = lo[fr[i].id] /\ s \in Graph!Ancestors(g, fr[i].id)
    BY DEF Walk, LowReached
  <2>2. fr[i].id \in DOMAIN ix
    BY <1>1
  <2>3. lo2[fr[i].id] <= ix[fr[i].id]
    BY <1>1, <1>3, <2>1, <2>2
  <2>4. CASE lo2[fr[i].id] = lo[fr[i].id]
    BY <2>1, <2>3, <2>4
  <2>5. CASE lo2[fr[i].id] # lo[fr[i].id]
    <3>1. fr[i].id = fr[k].id /\ p \in M /\ lo2[fr[k].id] = ix[p]
      BY <1>1, <2>2, <2>5 DEF Graph!Lower
    <3>2. fr[k].id \in DOMAIN g
      BY <1>1, <1>2
    <3>3. p \in Graph!Ancestors(g, fr[k].id)
      BY <1>1, <1>2, <3>2, AncestorsPass
    <3> QED BY <2>3, <3>1, <3>3
  <2> QED BY <2>4, <2>5
<1>11. LowBounds(g, ix, lo2, M, fr2)
  <2> SUFFICES ASSUME NEW i \in 1 .. k, NEW s \in M, NEW q \in g[s] \cap M,
                      Owns(ix, fr2, i, s), ~Unread(fr2, s, q)
               PROVE  lo2[fr[i].id] <= ix[q]
    BY DEF LowBounds
  <2>1. Owns(ix, fr, i, s)
    BY DEF Owns
  <2>2. fr[i].id \in DOMAIN ix /\ q \in DOMAIN ix
    BY <1>1
  <2>3. CASE ~Unread(fr, s, q)
    <3>1. lo[fr[i].id] <= ix[q]
      BY <2>1, <2>3 DEF Walk, LowBounds
    <3> QED BY <1>1, <1>3, <2>2, <3>1
  <2>4. CASE Unread(fr, s, q)
    <3>1. s = fr[k].id /\ q = p
      BY <1>5, <2>4
    <3>2. i = k
      BY <1>2, <2>1, <3>1, OwnsItself DEF Walk
    <3> QED BY <1>4, <3>1, <3>2
  <2> QED BY <2>3, <2>4
<1> QED BY <1>6, <1>7, <1>8, <1>9, <1>10, <1>11 DEF Walk

(* The frames without the last, whose low index goes to the one before it. *)
Handed(ix, lo, lo2, fr, fr2, k) ==
  /\ k \in Nat /\ k > 0 /\ Len(fr) = k /\ Len(fr2) = k - 1
  /\ \A i \in 1 .. k - 1 : fr2[i] = fr[i]
  /\ fr[k].todo = {}
  /\ DOMAIN lo2 = DOMAIN lo
  /\ IF k > 1 THEN /\ lo2[fr[k - 1].id] = Graph!Lower(lo[fr[k - 1].id], lo[fr[k].id])
                   /\ \A x \in DOMAIN lo : x # fr[k - 1].id => lo2[x] = lo[x]
     ELSE lo2 = lo

(* What both ways to leave a revision have in common. *)
LEMMA HandedIs ==
  ASSUME NEW g, NEW ix, NEW lo, NEW M, NEW fr, Walk(g, ix, lo, M, fr),
         NEW lo2, NEW fr2, NEW k, Handed(ix, lo, lo2, fr, fr2, k)
  PROVE  /\ k \in 1 .. k /\ k \in Nat /\ fr[k].id \in M /\ fr[k].id \in DOMAIN ix /\ fr[k].id \in DOMAIN g
         /\ \A x \in DOMAIN ix : lo2[x] \in Nat /\ lo2[x] <= lo[x]
         /\ k > 1 => k - 1 \in 1 .. k - 1 /\ lo2[fr[k - 1].id] <= lo[fr[k].id]
         /\ \A i \in 1 .. k - 1 : /\ i \in 1 .. k /\ ix[fr[i].id] < ix[fr[k].id] /\ fr[i].id \in DOMAIN ix
                                  /\ (lo2[fr[i].id] = lo[fr[i].id] \/ (i = k - 1 /\ lo2[fr[i].id] = lo[fr[k].id]))
         /\ \A s, p : Unread(fr, s, p) => Unread(fr2, s, p)
         /\ \A i \in 1 .. k - 1 : fr2[i].id \in M /\ fr2[i].todo \subseteq g[fr2[i].id]
         /\ \A i, j \in 1 .. k - 1 : i < j => ix[fr2[i].id] < ix[fr2[j].id]
<1>1. /\ k \in Nat /\ k > 0 /\ Len(fr) = k /\ Len(fr2) = k - 1 /\ fr[k].todo = {}
      /\ \A i \in 1 .. k - 1 : fr2[i] = fr[i] /\ i \in 1 .. k
      /\ k \in 1 .. k
  BY DEF Handed
<1>2. /\ M \subseteq DOMAIN ix /\ DOMAIN ix \subseteq DOMAIN g
      /\ \A x \in DOMAIN ix : lo[x] \in Nat /\ ix[x] \in Nat
      /\ \A i \in 1 .. k : fr[i].id \in M /\ fr[i].todo \subseteq g[fr[i].id]
      /\ \A i, j \in 1 .. k : i < j => ix[fr[i].id] < ix[fr[j].id]
      /\ DOMAIN lo = DOMAIN ix
  BY <1>1 DEF Walk, WalkTyped
<1>3. fr[k].id \in DOMAIN ix /\ \A i \in 1 .. k - 1 : fr[i].id \in DOMAIN ix
  BY <1>1, <1>2
<1>4. k > 1 => k - 1 \in 1 .. k - 1
  BY <1>1
<1>5. \A x \in DOMAIN ix : lo2[x] = lo[x] \/ (k > 1 /\ x = fr[k - 1].id /\ lo2[x] = Graph!Lower(lo[x], lo[fr[k].id]))
  BY <1>2 DEF Handed
<1>6. \A x \in DOMAIN ix : lo2[x] \in Nat /\ lo2[x] <= lo[x] /\ (lo2[x] = lo[x] \/ lo2[x] = lo[fr[k].id])
  BY <1>2, <1>3, <1>5 DEF Graph!Lower
<1>7. ASSUME k > 1 PROVE lo2[fr[k - 1].id] <= lo[fr[k].id]
  <2>1. lo[fr[k - 1].id] \in Nat /\ lo[fr[k].id] \in Nat
    BY <1>2, <1>3, <1>4, <1>7
  <2> QED BY <1>7, <2>1 DEF Handed, Graph!Lower
<1>8. ASSUME NEW i \in 1 .. k - 1
      PROVE  /\ ix[fr[i].id] < ix[fr[k].id]
             /\ (lo2[fr[i].id] = lo[fr[i].id] \/ (i = k - 1 /\ lo2[fr[i].id] = lo[fr[k].id]))
  <2>1. ix[fr[i].id] < ix[fr[k].id]
    BY <1>1, <1>2
  <2>2. CASE i = k - 1
    BY <1>3, <1>6, <2>1, <2>2
  <2>3. CASE i # k - 1
    <3>1. i < k - 1 /\ k - 1 \in 1 .. k
      BY <1>1, <2>3
    <3>2. ix[fr[i].id] < ix[fr[k - 1].id] /\ ix[fr[i].id] \in Nat /\ ix[fr[k - 1].id] \in Nat
      BY <1>1, <1>2, <3>1
    <3>3. fr[i].id # fr[k - 1].id
      BY <3>2
    <3> QED BY <1>3, <1>5, <2>1, <3>3
  <2> QED BY <2>2, <2>3
<1>9. ASSUME NEW s, NEW p, Unread(fr, s, p) PROVE Unread(fr2, s, p)
  <2>1. PICK j \in 1 .. k : fr[j].id = s /\ p \in fr[j].todo
    BY <1>1, <1>9 DEF Unread
  <2>2. j \in 1 .. k - 1
    BY <1>1, <2>1
  <2> QED BY <1>1, <2>1, <2>2 DEF Unread
<1>10. \A i \in 1 .. k - 1 : fr2[i].id \in M /\ fr2[i].todo \subseteq g[fr2[i].id]
  BY <1>1, <1>2
<1>11. \A i, j \in 1 .. k - 1 : i < j => ix[fr2[i].id] < ix[fr2[j].id]
  BY <1>1, <1>2
<1> QED BY <1>1, <1>2, <1>3, <1>4, <1>6, <1>7, <1>8, <1>9, <1>10, <1>11

(* A revision is left whose component goes on. *)
LEMMA LeaveKeeps ==
  ASSUME NEW g, NEW ix, NEW lo, NEW M, NEW fr, Walk(g, ix, lo, M, fr),
         NEW lo2, NEW fr2, NEW k, Handed(ix, lo, lo2, fr, fr2, k), lo[fr[k].id] # ix[fr[k].id]
  PROVE  Walk(g, ix, lo2, M, fr2)
<1> DEFINE v == fr[k].id
<1>1. /\ k \in 1 .. k /\ k \in Nat /\ v \in M /\ v \in DOMAIN ix /\ v \in DOMAIN g
      /\ \A x \in DOMAIN ix : lo2[x] \in Nat /\ lo2[x] <= lo[x]
      /\ k > 1 => k - 1 \in 1 .. k - 1 /\ lo2[fr[k - 1].id] <= lo[v]
      /\ \A i \in 1 .. k - 1 : /\ i \in 1 .. k /\ ix[fr[i].id] < ix[v] /\ fr[i].id \in DOMAIN ix
                               /\ (lo2[fr[i].id] = lo[fr[i].id] \/ (i = k - 1 /\ lo2[fr[i].id] = lo[v]))
      /\ \A s, p : Unread(fr, s, p) => Unread(fr2, s, p)
      /\ \A i \in 1 .. k - 1 : fr2[i].id \in M /\ fr2[i].todo \subseteq g[fr2[i].id]
      /\ \A i, j \in 1 .. k - 1 : i < j => ix[fr2[i].id] < ix[fr2[j].id]
  BY HandedIs
<1>2. /\ Len(fr) = k /\ Len(fr2) = k - 1 /\ \A i \in 1 .. k - 1 : fr2[i] = fr[i]
  BY DEF Handed
<1>3. /\ M \subseteq DOMAIN ix /\ IsFiniteSet(DOMAIN g) /\ DOMAIN lo2 = DOMAIN ix
      /\ \A x \in DOMAIN ix : lo[x] \in Nat /\ ix[x] \in Nat
      /\ \A i \in 1 .. k : fr[i].id \in M
  BY <1>2 DEF Walk, WalkTyped, Handed
(* It reaches a frame before it, by what its low index stands for. *)
<1>4. PICK j \in 1 .. k - 1 : fr[j].id \in Graph!Ancestors(g, v)
  <2>1. PICK s \in M : ix[s] = lo[v] /\ s \in Graph!Ancestors(g, v) /\ lo[v] <= ix[v]
    BY <1>1, <1>2 DEF Walk, LowReached
  <2>2. ix[s] < ix[v] /\ ix[s] \in Nat
    BY <1>1, <1>3, <2>1
  <2>3. PICK j \in 1 .. k : ix[fr[j].id] <= ix[s] /\ fr[j].id \in Graph!Ancestors(g, s)
    BY <1>2 DEF Walk, ReachesFrame
  <2>4. j # k
    BY <1>1, <1>3, <2>2, <2>3
  <2>5. j \in 1 .. k - 1
    BY <1>1, <2>4
  <2>6. fr[j].id \in Graph!Ancestors(g, v)
    BY <1>3, <2>1, <2>3, AncestorsPass
  <2> QED BY <2>5, <2>6
<1>5. k > 1 /\ k - 1 \in 1 .. k - 1
  BY <1>1, <1>4
<1>6. \A i \in 1 .. k - 1 : v \in Graph!Ancestors(g, fr[i].id)
  <2> SUFFICES ASSUME NEW i \in 1 .. k - 1 PROVE v \in Graph!Ancestors(g, fr[i].id)
    OBVIOUS
  <2>1. ix[fr[i].id] <= ix[v]
    BY <1>1, <1>3
  <2> QED BY <1>1, <1>2, <2>1 DEF Walk, ReachedFromFrames
<1> HIDE DEF v
<1>7. WalkTyped(g, ix, lo2, M, fr2)
  <2>1. /\ IsFiniteSet(DOMAIN g) /\ DOMAIN ix \subseteq DOMAIN g /\ M \subseteq DOMAIN ix
        /\ IsFiniteSet(DOMAIN ix) /\ Cardinality(DOMAIN ix) \in Nat
        /\ \A x \in DOMAIN ix : ix[x] \in Nat /\ ix[x] < Cardinality(DOMAIN ix)
        /\ \A x, y \in DOMAIN ix : ix[x] = ix[y] => x = y
    BY DEF Walk, WalkTyped
  <2>2. DOMAIN lo2 = DOMAIN ix /\ Len(fr2) = k - 1 /\ k - 1 \in Nat
    BY <1>1, <1>2, <1>3, <1>5
  <2>3. \A x \in DOMAIN ix : lo2[x] \in Nat
    BY <1>1
  <2> QED BY <1>1, <2>1, <2>2, <2>3 DEF WalkTyped
<1>8. LookedAt(g, ix, fr2)
  BY <1>1 DEF Walk, LookedAt
<1>9. ReachedFromFrames(g, ix, M, fr2)
  BY <1>1, <1>2 DEF Walk, ReachedFromFrames
<1>10. ReachesFrame(g, ix, M, fr2)
  <2> SUFFICES ASSUME NEW s \in M
               PROVE  \E i \in 1 .. k - 1 : ix[fr[i].id] <= ix[s] /\ fr[i].id \in Graph!Ancestors(g, s)
    BY <1>2 DEF ReachesFrame
  <2>1. PICK i \in 1 .. k : ix[fr[i].id] <= ix[s] /\ fr[i].id \in Graph!Ancestors(g, s)
    BY <1>2 DEF Walk, ReachesFrame
  <2>2. CASE i # k
    <3>1. i \in 1 .. k - 1
      BY <1>1, <2>2
    <3> QED BY <2>1, <3>1
  <2>3. CASE i = k
    <3>1. v \in Graph!Ancestors(g, s) /\ ix[v] <= ix[s]
      BY <2>1, <2>3 DEF v
    <3>2. fr[j].id \in Graph!Ancestors(g, s)
      BY <1>3, <1>4, <3>1, AncestorsPass
    <3>3. ix[fr[j].id] < ix[v] /\ fr[j].id \in DOMAIN ix /\ s \in DOMAIN ix /\ v \in DOMAIN ix
      BY <1>1, <1>3
    <3>4. ix[fr[j].id] <= ix[s]
      BY <1>3, <3>1, <3>3
    <3> QED BY <3>2, <3>4
  <2> QED BY <2>2, <2>3
<1>11. LowReached(g, ix, lo2, M, fr2)
  <2> SUFFICES ASSUME NEW i \in 1 .. k - 1
               PROVE  /\ lo2[fr[i].id] <= ix[fr[i].id]
                      /\ \E s \in M : ix[s] = lo2[fr[i].id] /\ s \in Graph!Ancestors(g, fr[i].id)
    BY <1>2 DEF LowReached
  <2>1. i \in 1 .. k /\ fr[i].id \in DOMAIN ix
    BY <1>1
  <2>2. lo[fr[i].id] <= ix[fr[i].id] /\ \E s \in M : ix[s] = lo[fr[i].id] /\ s \in Graph!Ancestors(g, fr[i].id)
    BY <1>2, <2>1 DEF Walk, LowReached
  <2>3. lo2[fr[i].id] <= ix[fr[i].id]
    BY <1>1, <1>3, <2>1, <2>2
  <2>4. CASE lo2[fr[i].id] = lo[fr[i].id]
    BY <2>2, <2>3, <2>4
  <2>5. CASE lo2[fr[i].id] = lo[v]
    <3>1. PICK s \in M : ix[s] = lo[v] /\ s \in Graph!Ancestors(g, v)
      BY <1>1, <1>2 DEF Walk, LowReached, v
    <3>2. s \in Graph!Ancestors(g, fr[i].id)
      BY <1>3, <1>6, <3>1, AncestorsPass
    <3> QED BY <2>3, <2>5, <3>1, <3>2
  <2> QED BY <1>1, <2>4, <2>5
<1>12. LowBounds(g, ix, lo2, M, fr2)
  <2> SUFFICES ASSUME NEW i \in 1 .. k - 1, NEW s \in M, NEW p \in g[s] \cap M,
                      Owns(ix, fr2, i, s), ~Unread(fr2, s, p)
               PROVE  lo2[fr[i].id] <= ix[p]
    BY <1>2 DEF LowBounds
  <2>1. ~Unread(fr, s, p) /\ s \in DOMAIN ix /\ p \in DOMAIN ix /\ fr[i].id \in DOMAIN ix
    BY <1>1, <1>3
  <2>2. CASE ix[v] <= ix[s]
    <3>1. i = k - 1
      <4>1. ix[fr[k - 1].id] < ix[v] /\ fr[k - 1].id \in DOMAIN ix /\ v \in DOMAIN ix
        BY <1>1, <1>5
      <4>2. ix[fr2[k - 1].id] <= ix[s]
        BY <1>2, <1>3, <1>5, <2>1, <2>2, <4>1
      <4>3. k - 1 <= i
        BY <1>2, <1>5, <4>2 DEF Owns
      <4> QED BY <1>1, <4>3
    <3>2. Owns(ix, fr, k, s)
      BY <1>1, <1>2, <2>2 DEF Owns, v
    <3>3. lo[v] <= ix[p]
      BY <1>1, <1>2, <2>1, <3>2 DEF Walk, LowBounds, v
    <3>4. lo2[fr[i].id] <= lo[v] /\ v \in DOMAIN ix
      BY <1>1, <1>5, <3>1
    <3> QED BY <1>1, <1>3, <2>1, <3>3, <3>4
  <2>3. CASE ~(ix[v] <= ix[s])
    <3>1. Owns(ix, fr, i, s)
      <4>1. ASSUME NEW m \in 1 .. k, ix[fr[m].id] <= ix[s] PROVE m <= i
        <5>1. m # k
          BY <2>3, <4>1 DEF v
        <5>2. m \in 1 .. k - 1
          BY <1>1, <5>1
        <5> QED BY <1>2, <4>1, <5>2 DEF Owns
      <4> QED BY <1>2, <4>1 DEF Owns
    <3>2. i \in 1 .. Len(fr)
      BY <1>1, <1>2
    <3>3. lo[fr[i].id] <= ix[p]
      BY <2>1, <3>1, <3>2 DEF Walk, LowBounds
    <3> QED BY <1>1, <1>3, <2>1, <3>3
  <2> QED BY <2>2, <2>3
<1> QED BY <1>7, <1>8, <1>9, <1>10, <1>11, <1>12 DEF Walk

(* A revision is left whose component ends: all of it, and nothing else, is *)
(* joined with it by paths both ways.                                       *)
LEMMA CloseKeeps ==
  ASSUME NEW g, NEW ix, NEW lo, NEW M, NEW fr, Walk(g, ix, lo, M, fr),
         NEW lo2, NEW fr2, NEW k, Handed(ix, lo, lo2, fr, fr2, k), lo[fr[k].id] = ix[fr[k].id]
  PROVE  LET v == fr[k].id
             M2 == {s \in M : ix[s] < ix[v]}
         IN  /\ Walk(g, ix, lo2, M2, fr2)
             /\ \A s \in M \ M2 : v \in Graph!Ancestors(g, s) /\ s \in Graph!Ancestors(g, v)
<1> DEFINE v == fr[k].id
           M2 == {s \in M : ix[s] < ix[v]}
<1>1. /\ k \in 1 .. k /\ k \in Nat /\ v \in M /\ v \in DOMAIN ix /\ v \in DOMAIN g
      /\ \A x \in DOMAIN ix : lo2[x] \in Nat /\ lo2[x] <= lo[x]
      /\ \A i \in 1 .. k - 1 : /\ i \in 1 .. k /\ ix[fr[i].id] < ix[v] /\ fr[i].id \in DOMAIN ix
                               /\ (lo2[fr[i].id] = lo[fr[i].id] \/ (i = k - 1 /\ lo2[fr[i].id] = lo[v]))
      /\ \A s, p : Unread(fr, s, p) => Unread(fr2, s, p)
      /\ \A i \in 1 .. k - 1 : fr2[i].id \in M /\ fr2[i].todo \subseteq g[fr2[i].id]
      /\ \A i, j \in 1 .. k - 1 : i < j => ix[fr2[i].id] < ix[fr2[j].id]
  BY HandedIs
<1>2. /\ Len(fr) = k /\ Len(fr2) = k - 1 /\ \A i \in 1 .. k - 1 : fr2[i] = fr[i]
      /\ fr[k].todo = {}
  BY DEF Handed
<1>3. /\ M \subseteq DOMAIN ix /\ IsFiniteSet(DOMAIN g) /\ DOMAIN lo2 = DOMAIN ix /\ DOMAIN ix \subseteq DOMAIN g
      /\ \A x \in DOMAIN ix : lo[x] \in Nat /\ ix[x] \in Nat
      /\ \A i \in 1 .. k : fr[i].id \in M
      /\ \A i, j \in 1 .. k : i < j => ix[fr[i].id] < ix[fr[j].id]
  BY <1>2 DEF Walk, WalkTyped, Handed
<1>4. /\ M2 \subseteq M /\ \A s \in M \ M2 : ix[v] <= ix[s]
      /\ \A s \in M2 : ix[s] < ix[v]
  BY <1>1, <1>3
<1>5. lo[v] = ix[v]
  OBVIOUS
<1> HIDE DEF v, M2
<1>6. \A i \in 1 .. k - 1 : fr[i].id \in M2
  BY <1>1, <1>3 DEF M2
(* Nothing leads from the component to what is left on the stack. *)
<1>7. \A s \in M \ M2 : \A p \in g[s] \cap DOMAIN g : p \in DOMAIN ix \ M2
  <2> SUFFICES ASSUME NEW s \in M \ M2, NEW p \in g[s] \cap DOMAIN g PROVE p \in DOMAIN ix \ M2
    OBVIOUS
  <2>1. ~Unread(fr, s, p)
    <3> SUFFICES ASSUME NEW j \in 1 .. k, fr[j].id = s, p \in fr[j].todo PROVE FALSE
      BY <1>2 DEF Unread
    <3>1. j # k
      BY <1>2
    <3>2. j \in 1 .. k - 1
      BY <1>1, <3>1
    <3> QED BY <1>6, <3>2
  <2>2. p \in DOMAIN ix
    BY <1>3, <2>1 DEF Walk, LookedAt
  <2>3. ASSUME p \in M2 PROVE FALSE
    <3>1. Owns(ix, fr, k, s)
      BY <1>1, <1>2, <1>4 DEF Owns, v
    <3>2. p \in g[s] \cap M
      BY <1>4, <2>3
    <3>3. lo[v] <= ix[p]
      BY <1>1, <1>2, <2>1, <3>1, <3>2 DEF Walk, LowBounds, v
    <3> QED BY <1>1, <1>3, <1>4, <1>5, <2>2, <2>3, <3>3
  <2> QED BY <2>2, <2>3
<1>8. WalkTyped(g, ix, lo2, M2, fr2)
  <2>1. \A x \in DOMAIN ix : lo2[x] \in Nat /\ ix[x] \in Nat /\ ix[x] < Cardinality(DOMAIN ix)
    BY <1>1 DEF Walk, WalkTyped
  <2>2. \A i \in 1 .. k - 1 : fr2[i].id \in M2
    BY <1>2, <1>6
  <2>3. M2 \subseteq DOMAIN ix
    BY <1>3, <1>4
  <2> QED BY <1>1, <1>2, <1>3, <2>1, <2>2, <2>3 DEF Walk, WalkTyped
<1>9. LookedAt(g, ix, fr2)
  BY <1>1 DEF Walk, LookedAt
<1>10. ClosedBehind(g, ix, M2)
  <2> SUFFICES ASSUME NEW s \in DOMAIN ix \ M2, NEW p \in g[s] \cap DOMAIN g PROVE p \in DOMAIN ix \ M2
    BY DEF ClosedBehind
  <2>1. CASE s \in M
    BY <1>7, <2>1
  <2>2. CASE s \notin M
    <3>1. p \in DOMAIN ix \ M
      BY <2>2 DEF Walk, ClosedBehind
    <3> QED BY <1>4, <3>1
  <2> QED BY <2>1, <2>2
<1>11. ReachedFromFrames(g, ix, M2, fr2)
  BY <1>1, <1>2, <1>4 DEF Walk, ReachedFromFrames
<1>12. ReachesFrame(g, ix, M2, fr2)
  <2> SUFFICES ASSUME NEW s \in M2
               PROVE  \E i \in 1 .. k - 1 : ix[fr[i].id] <= ix[s] /\ fr[i].id \in Graph!Ancestors(g, s)
    BY <1>2 DEF ReachesFrame
  <2>1. PICK i \in 1 .. k : ix[fr[i].id] <= ix[s] /\ fr[i].id \in Graph!Ancestors(g, s)
    BY <1>2, <1>4 DEF Walk, ReachesFrame
  <2>2. i # k
    <3>1. s \in DOMAIN ix /\ ix[s] < ix[v]
      BY <1>3, <1>4
    <3> QED BY <1>1, <1>3, <2>1, <3>1 DEF v
  <2>3. i \in 1 .. k - 1
    BY <1>1, <2>2
  <2> QED BY <2>1, <2>3
<1>13. LowReached(g, ix, lo2, M2, fr2)
  <2> SUFFICES ASSUME NEW i \in 1 .. k - 1
               PROVE  /\ lo2[fr[i].id] <= ix[fr[i].id]
                      /\ \E s \in M2 : ix[s] = lo2[fr[i].id] /\ s \in Graph!Ancestors(g, fr[i].id)
    BY <1>2 DEF LowReached
  <2>1. i \in 1 .. k /\ fr[i].id \in DOMAIN ix /\ ix[fr[i].id] < ix[v]
    BY <1>1
  <2>2. lo[fr[i].id] <= ix[fr[i].id]
    BY <1>2, <2>1 DEF Walk, LowReached
  <2>3. PICK s \in M : ix[s] = lo[fr[i].id] /\ s \in Graph!Ancestors(g, fr[i].id)
    BY <1>2, <2>1 DEF Walk, LowReached
  <2>4. lo[fr[i].id] \in Nat /\ ix[fr[i].id] \in Nat /\ ix[v] \in Nat /\ lo2[fr[i].id] \in Nat /\ lo2[fr[i].id] <= lo[fr[i].id]
    BY <1>1, <1>3, <2>1
  <2>5. lo2[fr[i].id] = lo[fr[i].id]
    BY <1>1, <1>5, <2>1, <2>2, <2>4
  <2>6. s \in M2
    BY <2>1, <2>2, <2>3, <2>4 DEF M2
  <2> QED BY <2>2, <2>3, <2>5, <2>6
<1>14. LowBounds(g, ix, lo2, M2, fr2)
  <2> SUFFICES ASSUME NEW i \in 1 .. k - 1, NEW s \in M2, NEW p \in g[s] \cap M2,
                      Owns(ix, fr2, i, s), ~Unread(fr2, s, p)
               PROVE  lo2[fr[i].id] <= ix[p]
    BY <1>2 DEF LowBounds
  <2>1. ~Unread(fr, s, p) /\ s \in DOMAIN ix /\ p \in DOMAIN ix /\ p \in M /\ s \in M /\ fr[i].id \in DOMAIN ix
    BY <1>1, <1>3, <1>4
  <2>2. Owns(ix, fr, i, s)
    <3>1. ASSUME NEW m \in 1 .. k, ix[fr[m].id] <= ix[s] PROVE m <= i
      <4>1. m # k
        BY <1>1, <1>3, <1>4, <2>1, <3>1 DEF v
      <4>2. m \in 1 .. k - 1
        BY <1>1, <4>1
      <4> QED BY <1>2, <3>1, <4>2 DEF Owns
    <3> QED BY <1>2, <3>1 DEF Owns
  <2>3. i \in 1 .. Len(fr)
    BY <1>1, <1>2
  <2>4. lo[fr[i].id] <= ix[p]
    BY <2>1, <2>2, <2>3 DEF Walk, LowBounds
  <2> QED BY <1>1, <1>3, <2>1, <2>4
<1>15. \A s \in M \ M2 : v \in Graph!Ancestors(g, s) /\ s \in Graph!Ancestors(g, v)
  <2> SUFFICES ASSUME NEW s \in M \ M2
               PROVE  v \in Graph!Ancestors(g, s) /\ s \in Graph!Ancestors(g, v)
    OBVIOUS
  <2>1. s \in Graph!Ancestors(g, v)
    BY <1>1, <1>2, <1>4 DEF Walk, ReachedFromFrames, v
  <2>2. PICK i \in 1 .. k : fr[i].id \in Graph!Ancestors(g, s)
    BY <1>2 DEF Walk, ReachesFrame
  <2>3. v \in Graph!Ancestors(g, fr[i].id)
    <3>1. ix[fr[i].id] <= ix[v]
      <4>1. i = k \/ i \in 1 .. k - 1
        BY <1>1
      <4>2. fr[i].id \in DOMAIN ix
        BY <1>3
      <4> QED BY <1>1, <1>3, <4>1, <4>2 DEF v
    <3> QED BY <1>1, <1>2, <3>1 DEF Walk, ReachedFromFrames
  <2> QED BY <1>3, <2>1, <2>2, <2>3, AncestorsPass
<1>16. Walk(g, ix, lo2, M2, fr2)
  BY <1>8, <1>9, <1>10, <1>11, <1>12, <1>13, <1>14 DEF Walk
<1> QED BY <1>15, <1>16 DEF v, M2

(* What ends on cycles is found: a component of more than one revision, or of one that names itself. *)
LEMMA CyclesFound ==
  ASSUME NEW g, IsFiniteSet(DOMAIN g), NEW v, NEW S \in SUBSET DOMAIN g, v \in S,
         \A s \in S : v \in Graph!Ancestors(g, s) /\ s \in Graph!Ancestors(g, v),
         NEW C, S \subseteq C, C \subseteq DOMAIN g,
         \A s \in C : \A p \in g[s] \cap DOMAIN g : p \in C,
         \A s \in C \ S : \A p \in g[s] \cap DOMAIN g : p \in C \ S
  PROVE  \A r \in S : OnCycle(g, r) <=> (S # {v} \/ v \in g[v])
<1>1. ASSUME NEW r \in S, NEW s \in S, s # r PROVE OnCycle(g, r)
  <2>1. s \in Graph!Ancestors(g, r) /\ r \in Graph!Ancestors(g, s)
    BY AncestorsPass
  <2> DEFINE D == {r} \cup UNION {Graph!Ancestors(g, p) : p \in g[r]}
  <2>2. \A x \in D \cap DOMAIN g : g[x] \subseteq D
    <3> SUFFICES ASSUME NEW x \in D \cap DOMAIN g, NEW y \in g[x] PROVE y \in D
      OBVIOUS
    <3>1. CASE x = r
      <4>1. y \in Graph!Ancestors(g, y)
        BY AncestorsPass
      <4> QED BY <3>1, <4>1
    <3>2. CASE x # r
      <4>1. PICK p \in g[r] : x \in Graph!Ancestors(g, p)
        BY <3>2
      <4>2. y \in Graph!Ancestors(g, p)
        BY <4>1, AncestorsClosed
      <4> QED BY <4>1, <4>2
    <3> QED BY <3>1, <3>2
  <2>3. Graph!Ancestors(g, r) \subseteq D
    <3>1. r \in D
      OBVIOUS
    <3> HIDE DEF D
    <3> QED BY <2>2, <3>1, AncestorsWithin
  <2>4. PICK p \in g[r] : s \in Graph!Ancestors(g, p)
    BY <1>1, <2>1, <2>3
  <2>5. r \in Graph!Ancestors(g, p)
    BY <2>1, <2>4, AncestorsPass
  <2> QED BY <2>5 DEF OnCycle
<1>2. ASSUME v \in g[v] PROVE OnCycle(g, v)
  BY <1>2, AncestorsPass DEF OnCycle
<1>3. ASSUME S = {v}, OnCycle(g, v) PROVE v \in g[v]
  <2>1. PICK p \in g[v] : v \in Graph!Ancestors(g, p)
    BY <1>3 DEF OnCycle
  <2>2. CASE p \notin DOMAIN g
    <3>1. p \in {p} /\ \A x \in {p} \cap DOMAIN g : g[x] \subseteq {p}
      BY <2>2
    <3>2. Graph!Ancestors(g, p) \subseteq {p}
      BY <3>1, AncestorsWithin
    <3> QED BY <2>1, <2>2, <3>2
  <2>3. CASE p \in C \ S
    <3> DEFINE D == (C \ S) \cup {x \in Graph!Ancestors(g, p) : x \notin DOMAIN g}
    <3>1. \A x \in D \cap DOMAIN g : g[x] \cap DOMAIN g \subseteq C \ S
      OBVIOUS
    <3>2. \A x \in Graph!Ancestors(g, p) \cap DOMAIN g : g[x] \subseteq Graph!Ancestors(g, p)
      BY AncestorsClosed
    <3> DEFINE E == Graph!Ancestors(g, p) \cap D
    <3>3. \A x \in E \cap DOMAIN g : g[x] \subseteq E
      BY <3>1, <3>2
    <3>4. p \in E
      BY <2>3, AncestorsClosed
    <3>5. Graph!Ancestors(g, p) \subseteq E
      <4> HIDE DEF E
      <4> QED BY <3>3, <3>4, AncestorsWithin
    <3> QED BY <2>1, <3>5
  <2>4. CASE p \in S
    BY <1>3, <2>1, <2>4
  <2> QED BY <2>2, <2>3, <2>4
<1> SUFFICES ASSUME NEW r \in S PROVE OnCycle(g, r) <=> (S # {v} \/ v \in g[v])
  OBVIOUS
<1>4. CASE S = {v}
  BY <1>2, <1>3, <1>4
<1>5. CASE S # {v}
  <2>1. \E s \in S : s # r
    BY <1>5
  <2> QED BY <1>1, <1>5, <2>1
<1> QED BY <1>4, <1>5

-----------------------------------------------------------------------------
(* The steps of the traversal *)

(* A frame: a revision and the parents that it has yet to look at. *)
Steps == [id : Revisions, todo : SUBSET Revisions]

(* Revisions are stacked in the order in which they are entered. *)
StackOrdered(ix, mem) == \A i, j \in 1 .. Len(mem) : i < j => ix[mem[i]] < ix[mem[j]]

(* The invariant of the traversal: what was found so far is all that closed components have of cycles. *)
GraphInv ==
  /\ DOMAIN graph \subseteq Revisions /\ \A r \in DOMAIN graph : graph[r] \subseteq Revisions
  /\ members \in Seq(Revisions) /\ frames \in Seq(Steps) /\ StackOrdered(indices, members)
  /\ Walk(graph, indices, low, Stacked(members), frames)
  /\ invalid = {r \in DOMAIN indices \ Stacked(members) : OnCycle(graph, r)}

(* The traversal enters a revision, from the last frame or from none. *)
LEMMA GraphEnters ==
  ASSUME GraphInv, NEW r \in DOMAIN graph \ DOMAIN indices, NEW below \in Seq(Steps), Len(below) = Len(frames),
         \A i \in 1 .. Len(frames) :
           /\ below[i].id = frames[i].id
           /\ below[i].todo \subseteq frames[i].todo /\ frames[i].todo \subseteq below[i].todo \cup {r},
         Len(frames) = 0 \/ r \in graph[frames[Len(frames)].id],
         Graph!Enter(r, below)
  PROVE  GraphInv'
<1>1. PICK n, fr2, mem2 : /\ n = Cardinality(DOMAIN indices) /\ fr2 = Append(below, [id |-> r, todo |-> graph[r]])
                          /\ mem2 = Append(members, r)
  OBVIOUS
<1>2. /\ indices' = Graph!Bind(indices, r, n) /\ low' = Graph!Bind(low, r, n)
      /\ members' = mem2 /\ frames' = fr2 /\ UNCHANGED <<graph, invalid>>
  BY <1>1, CountIs DEF Graph!Enter, Graph!Entered
<1>3. [id |-> r, todo |-> graph[r]] \in Steps /\ r \in Revisions /\ Len(frames) \in Nat
  BY DEF GraphInv, Steps, Walk, WalkTyped
<1>4. /\ fr2 \in Seq(Steps) /\ Len(fr2) = Len(frames) + 1 /\ fr2[Len(frames) + 1] = [id |-> r, todo |-> graph[r]]
      /\ \A i \in 1 .. Len(frames) : fr2[i] = below[i]
  BY <1>1, <1>3, AppendProperties
<1>5. fr2[Len(frames) + 1].id = r /\ fr2[Len(frames) + 1].todo = graph[r]
  BY <1>4
<1>6. Walk(graph, indices, low, Stacked(members), frames)
  BY DEF GraphInv
<1>7. Walk(graph, Graph!Bind(indices, r, n), Graph!Bind(low, r, n), Stacked(members) \cup {r}, fr2)
  <2>1. \A i \in 1 .. Len(frames) : /\ fr2[i].id = frames[i].id
                                    /\ fr2[i].todo \subseteq frames[i].todo
                                    /\ frames[i].todo \subseteq fr2[i].todo \cup {r}
    BY <1>4
  <2>2. LET m == Cardinality(DOMAIN indices)
        IN  Walk(graph, Graph!Bind(indices, r, m), Graph!Bind(low, r, m), Stacked(members) \cup {r}, fr2)
    BY <1>4, <1>5, <1>6, <2>1, EnterKeeps
  <2> QED BY <1>1, <2>2
<1>8. /\ mem2 \in Seq(Revisions) /\ Len(mem2) = Len(members) + 1 /\ Len(members) \in Nat
      /\ mem2[Len(members) + 1] = r /\ \A i \in 1 .. Len(members) : mem2[i] = members[i]
  BY <1>1, <1>3, AppendProperties, LenProperties DEF GraphInv
<1>9. Stacked(mem2) = Stacked(members) \cup {r}
  <2>1. \A i \in 1 .. Len(mem2) : i \in 1 .. Len(members) \/ i = Len(members) + 1
    BY <1>8
  <2>2. Len(members) + 1 \in 1 .. Len(mem2) /\ \A i \in 1 .. Len(members) : i \in 1 .. Len(mem2)
    BY <1>8
  <2> QED BY <1>8, <2>1, <2>2 DEF Stacked
<1>10. /\ DOMAIN Graph!Bind(indices, r, n) = DOMAIN indices \cup {r} /\ Graph!Bind(indices, r, n)[r] = n
       /\ \A x \in DOMAIN indices : Graph!Bind(indices, r, n)[x] = indices[x]
  BY DEF Graph!Bind
<1>11. StackOrdered(Graph!Bind(indices, r, n), mem2)
  <2> SUFFICES ASSUME NEW i \in 1 .. Len(mem2), NEW j \in 1 .. Len(mem2), i < j
               PROVE  Graph!Bind(indices, r, n)[mem2[i]] < Graph!Bind(indices, r, n)[mem2[j]]
    BY DEF StackOrdered
  <2>1. i \in 1 .. Len(members) /\ (j \in 1 .. Len(members) \/ j = Len(members) + 1)
    <3>1. i \in Nat /\ j \in Nat /\ 1 <= i /\ 1 <= j /\ j <= Len(members) + 1 /\ Len(members) \in Nat
      BY <1>8
    <3> QED BY <3>1
  <2>2. \A m \in 1 .. Len(members) : members[m] \in DOMAIN indices /\ indices[members[m]] < n
    <3>1. \A m \in 1 .. Len(members) : members[m] \in Stacked(members)
      BY DEF Stacked
    <3>2. /\ Stacked(members) \subseteq DOMAIN indices
          /\ \A x \in DOMAIN indices : indices[x] < Cardinality(DOMAIN indices)
      BY <1>6 DEF Walk, WalkTyped
    <3> QED BY <1>1, <3>1, <3>2
  <2>3. CASE j \in 1 .. Len(members)
    BY <1>8, <1>10, <2>1, <2>2, <2>3 DEF GraphInv, StackOrdered
  <2>4. CASE j = Len(members) + 1
    BY <1>8, <1>10, <2>1, <2>2, <2>4
  <2> QED BY <2>1, <2>3, <2>4
<1>12. invalid = {x \in DOMAIN Graph!Bind(indices, r, n) \ Stacked(mem2) : OnCycle(graph, x)}
  <2>1. DOMAIN Graph!Bind(indices, r, n) \ Stacked(mem2) = DOMAIN indices \ Stacked(members)
    BY <1>9, <1>10
  <2> QED BY <2>1 DEF GraphInv
<1> QED BY <1>2, <1>4, <1>7, <1>8, <1>9, <1>11, <1>12 DEF GraphInv

(* It looks at a parent of the last frame. *)
LEMMA GraphFollows ==
  ASSUME GraphInv, Graph!Follow
  PROVE  GraphInv'
<1>1. Walk(graph, indices, low, Stacked(members), frames) /\ frames \in Seq(Steps)
  BY DEF GraphInv
<1>2. PICK k \in Nat : k = Len(frames) /\ k > 0 /\ DOMAIN frames = 1 .. k
  <2>1. Len(frames) \in Nat /\ DOMAIN frames = 1 .. Len(frames) /\ frames # <<>>
    BY <1>1, LenProperties DEF Graph!Follow
  <2>2. Len(frames) \in Nat \ {0}
    BY <1>1, <2>1, EmptySeq
  <2>3. Len(frames) > 0
    BY <2>2
  <2> QED BY <2>1, <2>3
<1>3. PICK p \in frames[k].todo :
        LET passed == [frames EXCEPT ![k].todo = @ \ {p}]
        IN  IF p \in DOMAIN graph \ DOMAIN indices THEN Graph!Enter(p, passed)
            ELSE /\ frames' = passed
                 /\ low' = IF p \in Stacked(members) THEN [low EXCEPT ![frames[k].id] = Graph!Lower(@, indices[p])]
                           ELSE low
                 /\ UNCHANGED <<graph, indices, members, invalid>>
  BY <1>2 DEF Graph!Follow, Graph!Top, Graph!Entered, Graph!OnStack, Stacked
<1>4. PICK passed : passed = [frames EXCEPT ![k].todo = @ \ {p}]
  OBVIOUS
<1>5. k \in 1 .. k /\ frames[k] \in Steps /\ \A i \in 1 .. k : frames[i] \in Steps
  BY <1>1, <1>2
<1>6. /\ \A i \in 1 .. k : i # k => passed[i] = frames[i]
      /\ passed[k].id = frames[k].id /\ passed[k].todo = frames[k].todo \ {p}
      /\ passed \in Seq(Steps) /\ Len(passed) = k
  <2>1. [frames[k] EXCEPT !.todo = @ \ {p}] \in Steps
    BY <1>5 DEF Steps
  <2>2. passed = [frames EXCEPT ![k] = [frames[k] EXCEPT !.todo = @ \ {p}]]
    BY <1>4
  <2>3. passed[k] = [frames[k] EXCEPT !.todo = @ \ {p}] /\ \A i \in 1 .. k : i # k => passed[i] = frames[i]
    BY <1>2, <1>5, <2>2
  <2>4. passed \in Seq(Steps) /\ Len(passed) = k
    <3>1. passed \in [1 .. k -> Steps]
      BY <1>2, <1>5, <2>1, <2>2
    <3> QED BY <1>2, <3>1, ExceptSeq, <1>1, <1>5, <2>1, <2>2
  <2>5. passed[k].id = frames[k].id /\ passed[k].todo = frames[k].todo \ {p}
    BY <1>5, <2>3 DEF Steps
  <2> QED BY <2>3, <2>4, <2>5
<1>7. frames[k].id \in DOMAIN indices /\ p \in graph[frames[k].id]
  BY <1>1, <1>2, <1>5 DEF Walk, WalkTyped
<1>8. CASE p \in DOMAIN graph \ DOMAIN indices
  <2>1. Graph!Enter(p, passed)
    BY <1>3, <1>4, <1>8
  <2>2. \A i \in 1 .. Len(frames) : /\ passed[i].id = frames[i].id
                                    /\ passed[i].todo \subseteq frames[i].todo
                                    /\ frames[i].todo \subseteq passed[i].todo \cup {p}
    <3> SUFFICES ASSUME NEW i \in 1 .. k
                 PROVE  /\ passed[i].id = frames[i].id /\ passed[i].todo \subseteq frames[i].todo
                        /\ frames[i].todo \subseteq passed[i].todo \cup {p}
      BY <1>2
    <3>1. CASE i = k
      BY <1>6, <3>1
    <3>2. CASE i # k
      BY <1>6, <3>2
    <3> QED BY <3>1, <3>2
  <2> QED BY <1>2, <1>6, <1>7, <1>8, <2>1, <2>2, GraphEnters
<1>9. CASE p \notin DOMAIN graph \ DOMAIN indices
  <2>1. PICK lo2 : lo2 = IF p \in Stacked(members) THEN [low EXCEPT ![frames[k].id] = Graph!Lower(@, indices[p])] ELSE low
    OBVIOUS
  <2>2. frames' = passed /\ low' = lo2 /\ UNCHANGED <<graph, indices, members, invalid>>
    BY <1>3, <1>4, <1>9, <2>1
  <2>3. DOMAIN low = DOMAIN indices
    BY <1>1 DEF Walk, WalkTyped
  <2>4. /\ DOMAIN lo2 = DOMAIN low /\ \A x \in DOMAIN low : x # frames[k].id => lo2[x] = low[x]
        /\ lo2[frames[k].id] = IF p \in Stacked(members) THEN Graph!Lower(low[frames[k].id], indices[p])
                               ELSE low[frames[k].id]
    BY <1>7, <2>1, <2>3
  <2>5. p \in DOMAIN indices \/ p \notin DOMAIN graph
    BY <1>9
  <2>6. \A i \in 1 .. k : passed[i].id = frames[i].id
    BY <1>6
  <2>7. \A i \in 1 .. k : i # k => passed[i].todo = frames[i].todo
    BY <1>6
  <2>8. Walk(graph, indices, lo2, Stacked(members), passed)
    BY <1>1, <1>2, <1>6, <2>4, <2>5, <2>6, <2>7, SkipKeeps
  <2> QED BY <1>6, <2>2, <2>8 DEF GraphInv
<1> QED BY <1>8, <1>9

(* The stack is in the order of entry, so what is popped with a revision is what was entered after it. *)
LEMMA PopsLater ==
  ASSUME NEW ix, NEW mem \in Seq(Revisions), StackOrdered(ix, mem), \A s \in Stacked(mem) : ix[s] \in Nat,
         NEW n \in 1 .. Len(mem)
  PROVE  LET v == mem[n]
             low2 == {s \in Stacked(mem) : ix[s] < ix[v]}
         IN  /\ {mem[i] : i \in n .. Len(mem)} = Stacked(mem) \ low2
             /\ SubSeq(mem, 1, n - 1) \in Seq(Revisions) /\ Stacked(SubSeq(mem, 1, n - 1)) = low2
             /\ StackOrdered(ix, SubSeq(mem, 1, n - 1))
<1> DEFINE v == mem[n]
           M2 == {s \in Stacked(mem) : ix[s] < ix[v]}
<1>1. /\ Len(mem) \in Nat /\ \A i \in 1 .. Len(mem) : mem[i] \in Stacked(mem) /\ ix[mem[i]] \in Nat
      /\ \A i \in 1 .. Len(mem) : mem[i] \in Revisions
  BY LenProperties DEF Stacked
<1>2. \A i \in 1 .. Len(mem) : i < n => ix[mem[i]] < ix[v]
  BY DEF StackOrdered
<1>3. \A i \in 1 .. Len(mem) : n <= i => ~(ix[mem[i]] < ix[v])
  <2> SUFFICES ASSUME NEW i \in 1 .. Len(mem), n <= i PROVE ~(ix[mem[i]] < ix[v])
    OBVIOUS
  <2>1. n < i \/ n = i
    BY <1>1
  <2>2. n < i => ix[mem[n]] < ix[mem[i]]
    BY DEF StackOrdered
  <2> QED BY <1>1, <2>1, <2>2
<1>4. {mem[i] : i \in n .. Len(mem)} = Stacked(mem) \ M2
  <2>1. ASSUME NEW i \in n .. Len(mem) PROVE mem[i] \in Stacked(mem) \ M2
    <3>1. i \in 1 .. Len(mem) /\ n <= i
      BY <1>1
    <3> QED BY <1>1, <1>3, <3>1
  <2>2. ASSUME NEW s \in Stacked(mem) \ M2 PROVE \E i \in n .. Len(mem) : s = mem[i]
    <3>1. PICK i \in 1 .. Len(mem) : s = mem[i]
      BY DEF Stacked
    <3>2. ~(i < n)
      BY <1>2, <2>2, <3>1
    <3>3. i \in n .. Len(mem)
      BY <1>1, <3>2
    <3> QED BY <3>1, <3>3
  <2> QED BY <2>1, <2>2
<1>5. PICK rest : rest = SubSeq(mem, 1, n - 1)
  OBVIOUS
<1>6. /\ rest \in Seq(Revisions) /\ Len(rest) = n - 1 /\ \A i \in 1 .. n - 1 : rest[i] = mem[i]
  <2>1. /\ 1 \in Int /\ n - 1 \in Int /\ \A i \in 1 .. n - 1 : mem[i] \in Revisions
    BY <1>1
  <2>2. /\ SubSeq(mem, 1, n - 1) \in Seq(Revisions)
        /\ Len(SubSeq(mem, 1, n - 1)) = IF 1 <= n - 1 THEN n - 1 - 1 + 1 ELSE 0
        /\ \A i \in 1 .. n - 1 - 1 + 1 : SubSeq(mem, 1, n - 1)[i] = mem[1 + i - 1]
    BY <2>1, SubSeqProperties
  <2>3. /\ n - 1 - 1 + 1 = n - 1 /\ \A i \in 1 .. n - 1 : 1 + i - 1 = i
        /\ (IF 1 <= n - 1 THEN n - 1 - 1 + 1 ELSE 0) = n - 1
    BY <1>1
  <2> QED BY <1>5, <2>2, <2>3
<1>7. Stacked(rest) = M2
  <2>1. ASSUME NEW i \in 1 .. n - 1 PROVE rest[i] \in M2
    <3>1. i \in 1 .. Len(mem) /\ i < n
      BY <1>1
    <3> QED BY <1>1, <1>2, <1>6, <3>1
  <2>2. ASSUME NEW s \in M2 PROVE \E i \in 1 .. n - 1 : s = rest[i]
    <3>1. PICK i \in 1 .. Len(mem) : s = mem[i]
      BY DEF Stacked
    <3>2. ~(n <= i)
      BY <1>3, <2>2, <3>1
    <3>3. i \in 1 .. n - 1
      BY <1>1, <3>2
    <3> QED BY <1>6, <3>1, <3>3
  <2> HIDE DEF M2
  <2> QED BY <1>6, <2>1, <2>2 DEF Stacked
<1>8. StackOrdered(ix, rest)
  <2>1. \A i \in 1 .. n - 1 : i \in 1 .. Len(mem)
    BY <1>1
  <2> QED BY <1>6, <2>1 DEF StackOrdered
<1> QED BY <1>4, <1>5, <1>6, <1>7, <1>8

(* It leaves a revision whose parents it has all looked at. *)
LEMMA GraphFinishes ==
  ASSUME GraphInv, Graph!Finish
  PROVE  GraphInv'
<1>1. /\ Walk(graph, indices, low, Stacked(members), frames) /\ frames \in Seq(Steps) /\ members \in Seq(Revisions)
      /\ StackOrdered(indices, members) /\ \A r \in DOMAIN graph : graph[r] \subseteq Revisions
      /\ invalid = {r \in DOMAIN indices \ Stacked(members) : OnCycle(graph, r)}
  BY DEF GraphInv
<1>2. PICK k \in Nat : k = Len(frames) /\ k > 0
  <2>1. Len(frames) \in Nat \ {0}
    BY <1>1, EmptySeq DEF Graph!Finish
  <2>2. Len(frames) > 0
    BY <2>1
  <2> QED BY <2>1, <2>2
<1>3. PICK v : v = frames[k].id
  OBVIOUS
<1>4. /\ Graph!Top = frames[k] /\ frames[k].todo = {} /\ frames' = SubSeq(frames, 1, k - 1)
      /\ low' = IF k > 1 THEN [low EXCEPT ![frames[k - 1].id] = Graph!Lower(@, low[v])] ELSE low
      /\ UNCHANGED <<graph, indices>>
  BY <1>2, <1>3 DEF Graph!Finish, Graph!Top, Graph!Rest
<1>5. PICK fr2, lo2 : fr2 = frames' /\ lo2 = low'
  OBVIOUS
<1>6. k \in 1 .. k /\ \A i \in 1 .. k : frames[i] \in Steps
  BY <1>1, <1>2
<1>7. fr2 \in Seq(Steps) /\ Len(fr2) = k - 1 /\ \A i \in 1 .. k - 1 : fr2[i] = frames[i]
  <2>1. 1 \in Int /\ k - 1 \in Int /\ \A i \in 1 .. k - 1 : frames[i] \in Steps
    BY <1>6
  <2>2. /\ SubSeq(frames, 1, k - 1) \in Seq(Steps)
        /\ Len(SubSeq(frames, 1, k - 1)) = IF 1 <= k - 1 THEN k - 1 - 1 + 1 ELSE 0
        /\ \A i \in 1 .. k - 1 - 1 + 1 : SubSeq(frames, 1, k - 1)[i] = frames[1 + i - 1]
    BY <2>1, SubSeqProperties
  <2>3. /\ k - 1 - 1 + 1 = k - 1 /\ \A i \in 1 .. k - 1 : 1 + i - 1 = i
        /\ (IF 1 <= k - 1 THEN k - 1 - 1 + 1 ELSE 0) = k - 1
    BY <1>2
  <2> QED BY <1>4, <1>5, <2>2, <2>3
<1>8. /\ Stacked(members) \subseteq DOMAIN indices /\ DOMAIN indices \subseteq DOMAIN graph /\ DOMAIN low = DOMAIN indices
      /\ IsFiniteSet(DOMAIN graph) /\ \A i \in 1 .. k : frames[i].id \in Stacked(members)
      /\ \A x \in DOMAIN indices : indices[x] \in Nat
  BY <1>1, <1>2 DEF Walk, WalkTyped
<1>9. Handed(indices, low, lo2, frames, fr2, k)
  <2>1. CASE k > 1
    <3>1. k - 1 \in 1 .. k
      BY <2>1
    <3>2. frames[k - 1].id \in DOMAIN low
      BY <1>8, <3>1
    <3> QED BY <1>2, <1>3, <1>4, <1>5, <1>7, <2>1, <3>2 DEF Handed
  <2>2. CASE ~(k > 1)
    BY <1>2, <1>4, <1>5, <1>7, <2>2 DEF Handed
  <2> QED BY <2>1, <2>2
<1>10. CASE low[v] # indices[v]
  <2>1. UNCHANGED <<members, invalid>>
    BY <1>3, <1>4, <1>10 DEF Graph!Finish
  <2>2. Walk(graph, indices, lo2, Stacked(members), fr2)
    BY <1>1, <1>3, <1>9, <1>10, LeaveKeeps
  <2> QED BY <1>4, <1>5, <1>7, <2>1, <2>2 DEF GraphInv
<1>11. CASE low[v] = indices[v]
  <2>1. PICK M, M2, S : /\ M = Stacked(members) /\ M2 = {s \in M : indices[s] < indices[v]}
                        /\ S = M \ M2
    OBVIOUS
  <2>2. /\ Walk(graph, indices, lo2, M2, fr2)
        /\ \A s \in S : v \in Graph!Ancestors(graph, s) /\ s \in Graph!Ancestors(graph, v)
    <3>1. LET w == frames[k].id
              N2 == {s \in Stacked(members) : indices[s] < indices[w]}
          IN  /\ Walk(graph, indices, lo2, N2, fr2)
              /\ \A s \in Stacked(members) \ N2 :
                   w \in Graph!Ancestors(graph, s) /\ s \in Graph!Ancestors(graph, w)
      BY <1>1, <1>3, <1>9, <1>11, CloseKeeps
    <3> QED BY <1>3, <2>1, <3>1
  <2>3. v \in M /\ v \in S /\ S \subseteq M /\ M2 \subseteq M /\ indices[v] \in Nat
    <3>1. v \in M /\ v \in DOMAIN indices
      BY <1>3, <1>6, <1>8, <2>1
    <3>2. indices[v] \in Nat
      BY <1>8, <3>1
    <3>3. v \notin M2
      BY <2>1, <3>2
    <3> QED BY <2>1, <3>1, <3>2, <3>3
  <2>4. PICK n : n = Graph!Place
    OBVIOUS
  <2>5. n \in 1 .. Len(members) /\ members[n] = v
    <3>1. \E i \in 1 .. Len(members) : members[i] = v
      BY <2>1, <2>3 DEF Stacked
    <3>2. n = CHOOSE i \in 1 .. Len(members) : members[i] = v
      BY <1>3, <1>4, <2>4 DEF Graph!Place
    <3> QED BY <3>1, <3>2
  <2>6. \A s \in Stacked(members) : indices[s] \in Nat
    BY <1>8
  <2>7. /\ {members[i] : i \in n .. Len(members)} = S
        /\ SubSeq(members, 1, n - 1) \in Seq(Revisions) /\ Stacked(SubSeq(members, 1, n - 1)) = M2
        /\ StackOrdered(indices, SubSeq(members, 1, n - 1))
    <3>1. LET w == members[n]
              low2 == {s \in Stacked(members) : indices[s] < indices[w]}
          IN  /\ {members[i] : i \in n .. Len(members)} = Stacked(members) \ low2
              /\ SubSeq(members, 1, n - 1) \in Seq(Revisions)
              /\ Stacked(SubSeq(members, 1, n - 1)) = low2
              /\ StackOrdered(indices, SubSeq(members, 1, n - 1))
      BY <1>1, <2>5, <2>6, PopsLater
    <3> QED BY <2>1, <2>5, <3>1
  <2>8. Graph!Component = S
    BY <2>4, <2>7 DEF Graph!Component
  <2>9. Graph!Cycle(S) <=> (S # {v} \/ v \in graph[v])
    <3>1. IsFiniteSet(S)
      BY <1>8, <2>1, <2>3, FS_Subset
    <3>2. Cardinality(S) > 1 <=> S # {v}
      <4>1. Cardinality({v}) = 1
        BY FS_Singleton
      <4>2. ASSUME S # {v} PROVE Cardinality(S) > 1
        <5>1. {v} \in SUBSET S
          BY <2>3
        <5>2. Cardinality({v}) <= Cardinality(S) /\ Cardinality({v}) # Cardinality(S)
          BY <3>1, <4>2, <5>1, FS_Subset
        <5>3. Cardinality(S) \in Nat
          BY <3>1, FS_CardinalityType
        <5> QED BY <4>1, <5>2, <5>3
      <4> QED BY <4>1, <4>2
    <3> QED BY <1>3, <1>4, <3>2, CountIs DEF Graph!Cycle
  <2>10. \A r \in S : OnCycle(graph, r) <=> Graph!Cycle(S)
    <3> DEFINE C == DOMAIN indices \ M2
    <3>1. S \subseteq C /\ C \subseteq DOMAIN graph /\ S \in SUBSET DOMAIN graph
      BY <1>8, <2>1, <2>3
    <3>2. \A s \in C : \A p \in graph[s] \cap DOMAIN graph : p \in C
      BY <2>2 DEF Walk, ClosedBehind
    <3>3. C \ S = DOMAIN indices \ M
      BY <1>8, <2>1, <2>3
    <3>4. \A s \in C \ S : \A p \in graph[s] \cap DOMAIN graph : p \in C \ S
      BY <1>1, <2>1, <3>3 DEF Walk, ClosedBehind
    <3> HIDE DEF C
    <3>5. \A r \in S : OnCycle(graph, r) <=> (S # {v} \/ v \in graph[v])
      BY <1>8, <2>2, <2>3, <3>1, <3>2, <3>4, CyclesFound
    <3> QED BY <2>9, <3>5
  <2>11. /\ members' = SubSeq(members, 1, n - 1)
         /\ invalid' = invalid \cup (IF Graph!Cycle(S) THEN S ELSE {})
    BY <1>3, <1>4, <1>11, <2>4, <2>8 DEF Graph!Finish
  <2>12. invalid' = {r \in DOMAIN indices \ M2 : OnCycle(graph, r)}
    <3>1. DOMAIN indices \ M2 = (DOMAIN indices \ M) \cup S
      BY <1>8, <2>1, <2>3
    <3>2. invalid = {r \in DOMAIN indices \ M : OnCycle(graph, r)}
      BY <1>1, <2>1
    <3>3. CASE Graph!Cycle(S)
      BY <2>10, <2>11, <3>1, <3>2, <3>3
    <3>4. CASE ~Graph!Cycle(S)
      BY <2>10, <2>11, <3>1, <3>2, <3>4
    <3> QED BY <3>3, <3>4
  <2>13. DOMAIN graph \subseteq Revisions
    BY DEF GraphInv
  <2>14. PICK mem2, inv2 : mem2 = members' /\ inv2 = invalid'
    OBVIOUS
  <2>15. /\ mem2 \in Seq(Revisions) /\ Stacked(mem2) = M2 /\ StackOrdered(indices, mem2)
         /\ inv2 = {r \in DOMAIN indices \ Stacked(mem2) : OnCycle(graph, r)}
    BY <2>7, <2>11, <2>12, <2>14
  <2> QED BY <1>1, <1>4, <1>5, <1>7, <2>2, <2>13, <2>14, <2>15 DEF GraphInv
<1> QED BY <1>10, <1>11

(* The traversal starts with nothing entered. *)
LEMMA GraphInits == Graph!Init => GraphInv
<1> SUFFICES ASSUME Graph!Init PROVE GraphInv
  OBVIOUS
<1>1. PICK listed \in SUBSET Revisions : graph \in [listed -> Graph!Parents]
  BY DEF Graph!Init
<1>2. /\ DOMAIN graph \subseteq Revisions /\ \A r \in DOMAIN graph : graph[r] \subseteq Revisions
      /\ IsFiniteSet(DOMAIN graph)
  BY <1>1, GraphAssumption, FS_Subset DEF Graph!Parents
<1>3. /\ DOMAIN indices = {} /\ DOMAIN low = {} /\ members = <<>> /\ frames = <<>> /\ invalid = {}
  BY DEF Graph!Init
<1>4. members \in Seq(Revisions) /\ frames \in Seq(Steps) /\ Len(members) = 0 /\ Len(frames) = 0
  BY <1>3
<1>5. Stacked(members) = {} /\ 1 .. Len(frames) = {} /\ 1 .. Len(members) = {}
  BY <1>4 DEF Stacked
<1>6. IsFiniteSet(DOMAIN indices) /\ Cardinality(DOMAIN indices) \in Nat
  BY <1>3, FS_EmptySet
<1>7. WalkTyped(graph, indices, low, Stacked(members), frames)
  BY <1>2, <1>3, <1>4, <1>5, <1>6 DEF WalkTyped
<1>8. Walk(graph, indices, low, Stacked(members), frames)
  BY <1>3, <1>5, <1>7 DEF Walk, LookedAt, ClosedBehind, ReachedFromFrames, ReachesFrame, LowBounds, LowReached
<1> QED BY <1>2, <1>3, <1>4, <1>5, <1>8 DEF GraphInv, StackOrdered

(* It begins with a revision that was not reached from the ones before. *)
LEMMA GraphStarts ==
  ASSUME GraphInv, Graph!Start
  PROVE  GraphInv'
<1>1. PICK r \in DOMAIN graph \ DOMAIN indices : Graph!Enter(r, <<>>)
  BY DEF Graph!Start, Graph!Entered
<1>2. frames = <<>> /\ frames \in Seq(Steps) /\ Len(frames) = 0
  BY DEF Graph!Start, GraphInv
<1>3. \A i \in 1 .. Len(frames) : FALSE
  BY <1>2
<1>4. <<>> \in Seq(Steps) /\ Len(<<>>) = Len(frames)
  BY <1>2
<1> QED BY <1>1, <1>2, <1>3, <1>4, GraphEnters

(* So every step of the traversal keeps the invariant, *)
LEMMA GraphStep == GraphInv /\ [Graph!Next]_graphVars => GraphInv'
<1> SUFFICES ASSUME GraphInv, [Graph!Next]_graphVars PROVE GraphInv'
  OBVIOUS
<1>1. CASE UNCHANGED graphVars
  BY <1>1 DEF graphVars, GraphInv
<1>2. CASE Graph!Next
  BY <1>2, GraphStarts, GraphFollows, GraphFinishes DEF Graph!Next
<1> QED BY <1>1, <1>2

(* and when it is done exactly the revisions on cycles are found. *)
LEMMA CyclesRemoved == GraphInv => Graph!OnlyCyclesRemoved
<1> SUFFICES ASSUME GraphInv, Graph!Done
             PROVE  invalid = {r \in DOMAIN graph : \E p \in graph[r] : r \in Graph!Ancestors(graph, p)}
  BY DEF Graph!OnlyCyclesRemoved
<1>1. /\ DOMAIN indices = DOMAIN graph /\ frames = <<>> /\ Len(frames) = 0
      /\ Walk(graph, indices, low, Stacked(members), frames)
      /\ invalid = {r \in DOMAIN indices \ Stacked(members) : OnCycle(graph, r)}
  BY DEF GraphInv, Graph!Done, Graph!Entered
<1>2. Stacked(members) = {}
  <2>1. \A i \in 1 .. Len(frames) : FALSE
    BY <1>1
  <2> QED BY <1>1, <2>1 DEF Walk, ReachesFrame
<1> QED BY <1>1, <1>2 DEF OnCycle

-----------------------------------------------------------------------------
(* The merge bases of a listing without cycles. *)

(* A listing without cycles: nothing is behind its own parents. *)
Acyclic(g) == \A x \in DOMAIN g : \A p \in g[x] : x \notin Graph!Ancestors(g, p)

(* Without the revisions on cycles, nothing is on a cycle. *)
LEMMA RestIsAcyclic ==
  ASSUME NEW g, IsFiniteSet(DOMAIN g),
         NEW bad, bad = {r \in DOMAIN g : \E p \in g[r] : r \in Graph!Ancestors(g, p)}
  PROVE  /\ Acyclic(Graph!Without(g, bad)) /\ IsFiniteSet(DOMAIN Graph!Without(g, bad))
         /\ DOMAIN Graph!Without(g, bad) \subseteq DOMAIN g
<1>1. PICK rest : rest = Graph!Without(g, bad)
  OBVIOUS
<1>2. DOMAIN rest = DOMAIN g \ bad /\ \A r \in DOMAIN rest : rest[r] = g[r]
  BY <1>1 DEF Graph!Without
<1>3. IsFiniteSet(DOMAIN rest)
  BY <1>2, FS_Subset
<1>4. ASSUME NEW x \in DOMAIN rest, NEW p \in rest[x], x \in Graph!Ancestors(rest, p)
      PROVE  FALSE
  <2>1. PICK C : C = Graph!Ancestors(g, p)
    OBVIOUS
  <2>2. p \in C /\ \A y \in C \cap DOMAIN g : g[y] \subseteq C
    BY <2>1, AncestorsClosed
  <2>3. \A y \in C \cap DOMAIN rest : rest[y] \subseteq C
    BY <1>2, <2>2
  <2>4. Graph!Ancestors(rest, p) \subseteq C
    BY <1>3, <2>2, <2>3, AncestorsWithin
  <2> QED BY <1>2, <1>4, <2>1, <2>4
<1> QED BY <1>1, <1>2, <1>3, <1>4 DEF Acyclic

(* What is behind a revision, and is not the revision, is a parent of something behind it. *)
LEMMA LastLink ==
  ASSUME NEW g, IsFiniteSet(DOMAIN g), NEW x, NEW y \in Graph!Ancestors(g, x), y # x
  PROVE  \E z \in Graph!Ancestors(g, x) \cap DOMAIN g : y \in g[z]
<1>1. PICK A : A = Graph!Ancestors(g, x)
  OBVIOUS
<1>2. x \in A /\ \A z \in A \cap DOMAIN g : g[z] \subseteq A
  BY <1>1, AncestorsClosed
<1>3. PICK C : C = {x} \cup {u \in A : \E z \in A \cap DOMAIN g : u \in g[z]}
  OBVIOUS
<1>4. x \in C /\ \A u \in C \cap DOMAIN g : g[u] \subseteq C
  BY <1>2, <1>3
<1>5. A \subseteq C
  BY <1>1, <1>4, AncestorsWithin
<1> QED BY <1>1, <1>3, <1>5

(* Without cycles no two revisions are behind each other. *)
LEMMA BehindOneWay ==
  ASSUME NEW g, IsFiniteSet(DOMAIN g), Acyclic(g), NEW x, NEW y \in Graph!Ancestors(g, x),
         x \in Graph!Ancestors(g, y)
  PROVE  x = y
<1> SUFFICES ASSUME x # y PROVE FALSE
  OBVIOUS
<1>1. PICK z \in Graph!Ancestors(g, x) \cap DOMAIN g : y \in g[z]
  BY LastLink
<1>2. z \in Graph!Ancestors(g, y)
  BY AncestorsPass
<1> QED BY <1>1, <1>2 DEF Acyclic

(* A head is behind nothing but itself. *)
LEMMA HeadsAreAhead ==
  ASSUME NEW g, IsFiniteSet(DOMAIN g), NEW h \in Graph!Heads(g), NEW x, h \in Graph!Ancestors(g, x)
  PROVE  h = x
<1> SUFFICES ASSUME h # x PROVE FALSE
  OBVIOUS
<1>1. PICK z \in Graph!Ancestors(g, x) \cap DOMAIN g : h \in g[z]
  BY LastLink
<1> QED BY <1>1 DEF Graph!Heads

(* Every shared revision is behind one that is closest. *)
LEMMA BehindAClosest ==
  ASSUME NEW g, IsFiniteSet(DOMAIN g), Acyclic(g), NEW shared \in SUBSET DOMAIN g, NEW r \in shared
  PROVE  \E c \in Graph!Closest(g, shared) : r \in Graph!Ancestors(g, c)
<1> DEFINE Past(x) == Graph!Ancestors(g, x) \cap DOMAIN g
           T == {x \in shared : r \in Graph!Ancestors(g, x)}
           Sizes == {Cardinality(Past(x)) : x \in T}
<1>1. PICK N \in Nat : N = Cardinality(DOMAIN g)
  BY FS_CardinalityType
<1>2. \A x : IsFiniteSet(Past(x)) /\ Cardinality(Past(x)) \in 0 .. N
  <2> SUFFICES ASSUME NEW x PROVE IsFiniteSet(Past(x)) /\ Cardinality(Past(x)) \in 0 .. N
    OBVIOUS
  <2>1. Past(x) \in SUBSET DOMAIN g
    OBVIOUS
  <2> HIDE DEF Past
  <2>2. IsFiniteSet(Past(x)) /\ Cardinality(Past(x)) <= N
    BY <1>1, <2>1, FS_Subset
  <2>3. Cardinality(Past(x)) \in Nat
    BY <2>2, FS_CardinalityType
  <2> QED BY <2>2, <2>3
<1>3. r \in T 
  BY AncestorsClosed
<1>4. Sizes \in SUBSET (0 .. N) /\ Sizes # {}
  <2> HIDE DEF Past, T
  <2> QED BY <1>2, <1>3
<1>5. PICK m \in Sizes : \A n \in Sizes : n <= m
  <2> HIDE DEF Sizes
  <2>1. IsFiniteSet(0 .. N)
    BY FS_Interval
  <2>2. IsFiniteSet(Sizes)
    BY <1>4, <2>1, FS_Subset
  <2>3. Sizes \in SUBSET Int
    BY <1>4
  <2> QED BY <1>4, <2>2, <2>3, HasGreatest
<1>6. PICK x \in T : m = Cardinality(Past(x))
  OBVIOUS
<1>7. ASSUME NEW y \in shared, x \in g[y] PROVE FALSE
  <2>1. Graph!Ancestors(g, x) \subseteq Graph!Ancestors(g, y) /\ y \in Graph!Ancestors(g, y)
    BY <1>7, AncestorsPass
  <2>2. y \notin Graph!Ancestors(g, x)
    BY <1>7 DEF Acyclic
  <2>3. Past(x) \in SUBSET Past(y) /\ Past(x) # Past(y)
    BY <2>1, <2>2
  <2>4. Cardinality(Past(x)) <= Cardinality(Past(y)) /\ Cardinality(Past(x)) # Cardinality(Past(y))
    <3> HIDE DEF Past
    <3> QED BY <1>2, <2>3, FS_Subset
  <2>5. y \in T
    BY <1>6, <2>1
  <2>6. Cardinality(Past(y)) <= Cardinality(Past(x))
    BY <1>5, <1>6, <2>5
  <2> QED BY <1>2, <2>4, <2>6
<1> QED BY <1>6, <1>7 DEF Graph!Closest

(* A revision ahead of all that is shared is the only closest one. *)
LEMMA AheadIsClosest ==
  ASSUME NEW g, IsFiniteSet(DOMAIN g), Acyclic(g), NEW shared \in SUBSET DOMAIN g, NEW r \in shared,
         shared \subseteq Graph!Ancestors(g, r), Graph!Ancestors(g, r) \cap DOMAIN g \subseteq shared
  PROVE  Graph!Closest(g, shared) = {r}
<1>1. r \in Graph!Closest(g, shared)
  BY DEF Graph!Closest, Acyclic
<1>2. ASSUME NEW c \in Graph!Closest(g, shared), c # r PROVE FALSE
  <2>1. c \in Graph!Ancestors(g, r)
    BY DEF Graph!Closest
  <2>2. PICK z \in Graph!Ancestors(g, r) \cap DOMAIN g : c \in g[z]
    BY <1>2, <2>1, LastLink
  <2> QED BY <2>2 DEF Graph!Closest
<1> QED BY <1>1, <1>2

(* The merge base of a head is the shared revision that is ahead of all others. *)
LEMMA BaseIsBest ==
  ASSUME NEW g, IsFiniteSet(DOMAIN g), DOMAIN g \subseteq Nat \ {0}, Acyclic(g), NEW h \in Graph!Heads(g)
  PROVE  LET before == {x \in Graph!Heads(g) : x <= h}
             complete == \A x \in before : Graph!Ancestors(g, x) \subseteq DOMAIN g
             shared == {r \in DOMAIN g : \A x \in before : r \in Graph!Ancestors(g, x)}
             best == {r \in shared \ before : complete /\ shared \subseteq Graph!Ancestors(g, r)}
         IN  best = {Graph!Common(g, h)} \ {Graph!NoRevision}
<1>a. PICK hs : hs = {x \in Graph!Heads(g) : x <= h}
  OBVIOUS
<1>b. PICK shared : shared = {r \in DOMAIN g : \A x \in hs : r \in Graph!Ancestors(g, x)}
  OBVIOUS
<1>c. PICK best : best = {r \in shared \ hs : /\ \A x \in hs : Graph!Ancestors(g, x) \subseteq DOMAIN g
                                              /\ shared \subseteq Graph!Ancestors(g, r)}
  OBVIOUS
<1> SUFFICES best = {Graph!Common(g, h)} \ {Graph!NoRevision}
  BY <1>a, <1>b, <1>c
<1>1. PICK closest : closest = Graph!Closest(g, shared)
  OBVIOUS
<1>2. shared \in SUBSET DOMAIN g /\ closest \subseteq shared /\ h \in hs /\ hs \subseteq DOMAIN g
  BY <1>1, <1>a, <1>b DEF Graph!Closest, Graph!Heads
<1>3. Graph!Shared(g, hs) = shared
  BY <1>b DEF Graph!Shared
<1>4. PICK two, whole, one \in BOOLEAN : /\ two <=> Cardinality(hs) > 1
                                         /\ whole <=> Graph!Complete(g, hs)
                                         /\ one <=> Cardinality(closest) = 1
  OBVIOUS
<1>5. Graph!Common(g, h) = IF two /\ whole /\ one THEN CHOOSE c \in closest : TRUE ELSE 0
  <2>1. /\ two <=> Graph!Cardinality(hs) > 1
        /\ one <=> Graph!Cardinality(closest) = 1
    BY <1>4, CountIs
  <2>2. closest = Graph!Closest(g, Graph!Shared(g, hs))
    BY <1>1, <1>3
  <2> QED BY <1>4, <1>a, <2>1, <2>2 DEF Graph!Common, Graph!NoRevision
<1>6. Graph!NoRevision = 0
  BY DEF Graph!NoRevision
<1>7. ASSUME NEW r \in best
      PROVE  closest = {r} /\ two /\ whole /\ one
  <2>1. r \in shared /\ r \notin hs /\ shared \subseteq Graph!Ancestors(g, r) /\ whole
    BY <1>4, <1>7, <1>c DEF Graph!Complete
  <2>2. Graph!Ancestors(g, r) \cap DOMAIN g \subseteq shared
    <3>1. \A x \in hs : r \in Graph!Ancestors(g, x)
      BY <1>b, <2>1
    <3>2. \A x \in hs : Graph!Ancestors(g, r) \subseteq Graph!Ancestors(g, x)
      BY <3>1, AncestorsPass
    <3> QED BY <1>b, <3>2
  <2>3. closest = {r}
    BY <1>1, <1>2, <2>1, <2>2, AheadIsClosest
  <2>4. one
    BY <1>4, <2>3, FS_Singleton
  <2>5. hs # {h}
    <3> SUFFICES ASSUME hs = {h} PROVE FALSE
      OBVIOUS
    <3>1. h \in Graph!Ancestors(g, h)
      BY AncestorsClosed
    <3>2. h \in shared
      BY <1>2, <1>b, <3>1
    <3>3. h \in Graph!Ancestors(g, r)
      BY <2>1, <3>2
    <3>4. h = r
      BY <1>7, <3>3, HeadsAreAhead
    <3> QED BY <1>2, <2>1, <3>4
  <2>6. two
    <3>1. IsFiniteSet(hs) /\ {h} \in SUBSET hs
      BY <1>2, FS_Subset
    <3>2. Cardinality({h}) <= Cardinality(hs) /\ Cardinality({h}) # Cardinality(hs)
      BY <2>5, <3>1, FS_Subset
    <3>3. Cardinality(hs) \in Nat /\ Cardinality({h}) = 1
      BY <3>1, FS_CardinalityType, FS_Singleton
    <3> QED BY <1>4, <3>2, <3>3
  <2> QED BY <2>1, <2>3, <2>4, <2>6
<1>8. CASE two /\ whole /\ one
  <2>1. IsFiniteSet(closest) /\ Cardinality(closest) = 1
    BY <1>2, <1>4, <1>8, FS_Subset
  <2>2. PICK c : closest = {c}
    BY <2>1, FS_Singleton
  <2>3. c \in shared /\ c \in DOMAIN g /\ c # 0
    BY <1>2, <2>2
  <2>4. shared \subseteq Graph!Ancestors(g, c)
    <3> SUFFICES ASSUME NEW r \in shared PROVE r \in Graph!Ancestors(g, c)
      OBVIOUS
    <3>1. \E x \in Graph!Closest(g, shared) : r \in Graph!Ancestors(g, x)
      BY <1>2, BehindAClosest
    <3> QED BY <1>1, <2>2, <3>1
  <2>5. c \notin hs
    <3> SUFFICES ASSUME c \in hs PROVE FALSE
      OBVIOUS
    <3>1. \A x \in hs : c = x
      BY <1>a, <1>b, <2>3, HeadsAreAhead
    <3>2. hs = {c}
      BY <3>1
    <3>3. Cardinality(hs) = 1
      BY <3>2, FS_Singleton
    <3> QED BY <1>4, <1>8, <3>3
  <2>6. c \in best
    BY <1>4, <1>8, <1>c, <2>3, <2>4, <2>5 DEF Graph!Complete
  <2>7. best = {c}
    BY <1>7, <2>2, <2>6
  <2>8. (CHOOSE x \in closest : TRUE) = c
    BY <2>2
  <2> QED BY <1>5, <1>6, <1>8, <2>3, <2>7, <2>8
<1>9. CASE ~(two /\ whole /\ one)
  <2>1. best = {}
    BY <1>7, <1>9
  <2> QED BY <1>5, <1>6, <1>9, <2>1
<1> QED BY <1>8, <1>9

(* When the traversal is done the merge bases are those of the healthy listing. *)
LEMMA BasesFound == GraphInv => Graph!BasesAreBest
<1> SUFFICES ASSUME GraphInv, Graph!Done PROVE Graph!BasesAreBest
  BY DEF Graph!BasesAreBest
<1>1. PICK rest : rest = Graph!Remaining
  OBVIOUS
<1>2. invalid = {r \in DOMAIN graph : \E p \in graph[r] : r \in Graph!Ancestors(graph, p)}
  BY CyclesRemoved DEF Graph!OnlyCyclesRemoved
<1>3. IsFiniteSet(DOMAIN graph) /\ DOMAIN graph \subseteq Nat \ {0}
  BY GraphAssumption DEF GraphInv, Walk, WalkTyped
<1>4. Acyclic(rest) /\ IsFiniteSet(DOMAIN rest) /\ DOMAIN rest \subseteq Nat \ {0}
  BY <1>1, <1>2, <1>3, RestIsAcyclic DEF Graph!Remaining
<1>5. ASSUME NEW h \in Graph!Heads(rest)
      PROVE  LET before == {x \in Graph!Heads(rest) : x <= h}
                 complete == \A x \in before : Graph!Ancestors(rest, x) \subseteq DOMAIN rest
                 shared == {r \in DOMAIN rest : \A x \in before : r \in Graph!Ancestors(rest, x)}
                 best == {r \in shared \ before : complete /\ shared \subseteq Graph!Ancestors(rest, r)}
             IN  best = {Graph!Common(rest, h)} \ {Graph!NoRevision}
  BY <1>4, BaseIsBest
<1> QED BY <1>1, <1>5 DEF Graph!BasesAreBest

-----------------------------------------------------------------------------
(* The listing of the cloud, page by page, while others change it. *)

(* A copy that a listing keeps: the content of a file under its revision. *)
Copies == {[file |-> f, revision |-> m.revision, content |-> m.content] : f \in FileIds, m \in Metas}

(* What was read of a file was in the cloud since the call began, in no newer format. *)
ReadTrue(read, known) ==
  /\ DOMAIN read \subseteq FileIds
  /\ \A f \in DOMAIN read : \E c \in known : read[f] = c[f] /\ c[f] # None /\ c[f].kind # "newer"

(* Every file that was read is invalid for its own sake, or a copy. *)
Sorted(read, copies, bad) ==
  /\ \A f \in DOMAIN read : f \in bad \/ \E v \in copies : v.file = f
  /\ \A f \in bad : f \in DOMAIN read /\ (read[f].kind = "damaged" \/ read[f].large)
  /\ \A v \in copies : /\ v.file \in DOMAIN read \ bad
                       /\ v.revision = read[v.file].revision /\ v.content = read[v.file].content

(* The content of a revision is that of all its copies, unless two were seen to differ. *)
Compared(copies, contents, differ) ==
  /\ \A v \in copies : /\ v.revision \in DOMAIN contents
                       /\ v.revision \in differ \/ contents[v.revision] = v.content
  /\ \A r \in DOMAIN contents : \E v \in copies : v.revision = r /\ v.content = contents[r]
  /\ \A r \in differ : \E v, w \in copies : v.revision = r /\ w.revision = r /\ v.content # w.content

(* A listing at work. *)
Gathered(j, known) ==
  /\ j = [pc |-> "list", served |-> j.served, read |-> j.read, count |-> j.count, valid |-> j.valid,
          invalid |-> j.invalid, revisions |-> j.revisions, conflicting |-> j.conflicting]
  /\ j.valid \in Seq(Copies)
  /\ ReadTrue(j.read, known)
  /\ Sorted(j.read, Cloud!Range(j.valid), j.invalid)
  /\ Compared(Cloud!Range(j.valid), j.revisions, j.conflicting)

(* A copy more. *)
LEMMA AppendedRange ==
  ASSUME NEW S, NEW seq \in Seq(S), NEW v \in S
  PROVE  Append(seq, v) \in Seq(S) /\ Cloud!Range(Append(seq, v)) = Cloud!Range(seq) \cup {v}
<1> DEFINE more == Append(seq, v)
<1>1. PICK n \in Nat : n = Len(seq)
  BY LenProperties
<1>2. /\ more \in Seq(S) /\ Len(more) = n + 1 /\ more[n + 1] = v
      /\ \A i \in 1 .. n : more[i] = seq[i]
  BY <1>1, AppendProperties
<1>3. DOMAIN seq = 1 .. n /\ DOMAIN more = 1 .. n + 1
  <2> HIDE DEF more
  <2> QED BY <1>1, <1>2, LenProperties
<1> HIDE DEF more
<1>4. Cloud!Range(seq) = {seq[i] : i \in 1 .. n} /\ Cloud!Range(more) = {more[i] : i \in 1 .. n + 1}
  BY <1>3 DEF Cloud!Range
<1>5. 1 .. n + 1 = (1 .. n) \cup {n + 1}
  BY <1>1
<1>6. {more[i] : i \in 1 .. n + 1} = {seq[i] : i \in 1 .. n} \cup {v}
  BY <1>2, <1>5
<1> QED BY <1>2, <1>4, <1>6 DEF more

(* A file that was not read before is true to the cloud. *)
LEMMA ReadsTruly ==
  ASSUME NEW read, NEW known, ReadTrue(read, known), NEW c \in known, NEW f \in FileIds,
         c[f] # None, c[f].kind # "newer", f \notin DOMAIN read
  PROVE  ReadTrue(Cloud!With(read, f, c[f]), known)
<1>1. PICK more : more = Cloud!With(read, f, c[f])
  OBVIOUS
<1>2. DOMAIN more = DOMAIN read \cup {f} /\ more[f] = c[f] /\ \A g \in DOMAIN read : more[g] = read[g]
  BY <1>1 DEF Cloud!With
<1>3. ASSUME NEW g \in DOMAIN more PROVE \E d \in known : more[g] = d[g] /\ d[g] # None /\ d[g].kind # "newer"
  BY <1>2 DEF ReadTrue
<1> QED BY <1>1, <1>2, <1>3 DEF ReadTrue

(* It is put aside as invalid, *)
LEMMA PutAside ==
  ASSUME NEW read, NEW copies, NEW bad, Sorted(read, copies, bad), NEW f, f \notin DOMAIN read,
         NEW m, m.kind = "damaged" \/ m.large
  PROVE  Sorted(Cloud!With(read, f, m), copies, bad \cup {f})
<1>1. PICK more : more = Cloud!With(read, f, m)
  OBVIOUS
<1>2. DOMAIN more = DOMAIN read \cup {f} /\ more[f] = m /\ \A g \in DOMAIN read : more[g] = read[g]
  BY <1>1 DEF Cloud!With
<1>3. \A g \in DOMAIN more : g \in bad \cup {f} \/ \E v \in copies : v.file = g
  BY <1>2 DEF Sorted
<1>4. \A g \in bad \cup {f} : g \in DOMAIN more /\ (more[g].kind = "damaged" \/ more[g].large)
  BY <1>2 DEF Sorted
<1>5. \A v \in copies : /\ v.file \in DOMAIN more \ (bad \cup {f})
                        /\ v.revision = more[v.file].revision /\ v.content = more[v.file].content
  BY <1>2 DEF Sorted
<1> QED BY <1>1, <1>3, <1>4, <1>5 DEF Sorted

(* or is one more copy. *)
LEMMA CopyKept ==
  ASSUME NEW read, NEW copies, NEW bad, Sorted(read, copies, bad), NEW f, f \notin DOMAIN read, NEW m,
         NEW v, v = [file |-> f, revision |-> m.revision, content |-> m.content]
  PROVE  Sorted(Cloud!With(read, f, m), copies \cup {v}, bad)
<1>1. PICK more : more = Cloud!With(read, f, m)
  OBVIOUS
<1>2. DOMAIN more = DOMAIN read \cup {f} /\ more[f] = m /\ \A g \in DOMAIN read : more[g] = read[g]
  BY <1>1 DEF Cloud!With
<1>3. \A g \in DOMAIN more : g \in bad \/ \E w \in copies \cup {v} : w.file = g
  BY <1>2 DEF Sorted
<1>4. \A g \in bad : g \in DOMAIN more /\ (more[g].kind = "damaged" \/ more[g].large)
  BY <1>2 DEF Sorted
<1>5. \A w \in copies \cup {v} : /\ w.file \in DOMAIN more \ bad
                                 /\ w.revision = more[w.file].revision /\ w.content = more[w.file].content
  BY <1>2 DEF Sorted
<1> QED BY <1>1, <1>3, <1>4, <1>5 DEF Sorted

(* A copy that differs from the content of its revision is noted. *)
LEMMA CopyCompared ==
  ASSUME NEW copies, NEW contents, NEW differ, Compared(copies, contents, differ), NEW v,
         NEW more, more = IF v.revision \in DOMAIN contents /\ contents[v.revision] # v.content
                          THEN differ \cup {v.revision} ELSE differ
  PROVE  Compared(copies \cup {v}, Cloud!With(contents, v.revision, v.content), more)
<1>1. PICK c2 : c2 = Cloud!With(contents, v.revision, v.content)
  OBVIOUS
<1>2. /\ DOMAIN c2 = DOMAIN contents \cup {v.revision} /\ c2[v.revision] = v.content
      /\ \A r \in DOMAIN contents \ {v.revision} : c2[r] = contents[r]
  BY <1>1 DEF Cloud!With
<1>3. ASSUME NEW w \in copies \cup {v}
      PROVE  w.revision \in DOMAIN c2 /\ (w.revision \in more \/ c2[w.revision] = w.content)
  <2>1. CASE w = v
    BY <1>2, <2>1
  <2>2. CASE w \in copies /\ w.revision # v.revision
    BY <1>2, <2>2 DEF Compared
  <2>3. CASE w \in copies /\ w.revision = v.revision
    BY <1>2, <2>3 DEF Compared
  <2> QED BY <2>1, <2>2, <2>3
<1>4. \A r \in DOMAIN c2 : \E w \in copies \cup {v} : w.revision = r /\ w.content = c2[r]
  BY <1>2 DEF Compared
<1>5. ASSUME NEW r \in more
      PROVE  \E w, u \in copies \cup {v} : w.revision = r /\ u.revision = r /\ w.content # u.content
  <2>1. CASE r \in differ
    BY <2>1 DEF Compared
  <2>2. CASE r \notin differ
    <3>1. r = v.revision /\ r \in DOMAIN contents /\ contents[r] # v.content
      BY <1>5, <2>2
    <3>2. PICK w \in copies : w.revision = r /\ w.content = contents[r]
      BY <3>1 DEF Compared
    <3> QED BY <3>1, <3>2
  <2> QED BY <2>1, <2>2
<1> QED BY <1>1, <1>3, <1>4, <1>5 DEF Compared

(* One more file keeps the listing true, or ends it with an error. *)
LEMMA TookKeeps ==
  ASSUME NEW j, NEW known, Gathered(j, known), NEW c, c = cloud, c \in known,
         NEW f \in FileIds, c[f] \in Metas, NEW k, k = Cloud!Took(j, f)
  PROVE  \/ \E code : k = Cloud!Error(code)
         \/ Gathered(k, known) /\ k.served = j.served /\ DOMAIN j.read \cup {f} \subseteq DOMAIN k.read
<1>1. PICK served, read, count_, copies, bad, contents, differ :
        /\ served = j.served /\ read = j.read /\ count_ = j.count /\ copies = j.valid
        /\ bad = j.invalid /\ contents = j.revisions /\ differ = j.conflicting
  OBVIOUS
<1>2. /\ j = [pc |-> "list", served |-> served, read |-> read, count |-> count_, valid |-> copies,
              invalid |-> bad, revisions |-> contents, conflicting |-> differ]
      /\ copies \in Seq(Copies) /\ ReadTrue(read, known) /\ Sorted(read, Cloud!Range(copies), bad)
      /\ Compared(Cloud!Range(copies), contents, differ)
  BY <1>1 DEF Gathered
<1>3. PICK m \in Metas : m = c[f] /\ m # None
  BY ListingAssumption
<1>4. PICK more : more = Cloud!With(read, f, m)
  OBVIOUS
<1>5. DOMAIN more = DOMAIN read \cup {f}
  BY <1>4 DEF Cloud!With
<1>6. CASE count_ + 1 > MaxRevisions \/ ~m.ours \/ (f \in DOMAIN read /\ read[f] # m)
           \/ (f \notin DOMAIN read /\ m.kind = "newer")
  <2>1. CASE count_ + 1 > MaxRevisions
    <3>1. k = Cloud!Error("quota")
      BY <1>1, <1>3, <2>1 DEF Cloud!Took
    <3> QED BY <3>1
  <2>2. CASE ~(count_ + 1 > MaxRevisions) /\ ~m.ours
    <3>1. k = Cloud!Error("invalid")
      BY <1>1, <1>3, <2>2 DEF Cloud!Took
    <3> QED BY <3>1
  <2>3. CASE ~(count_ + 1 > MaxRevisions) /\ m.ours /\ f \in DOMAIN read /\ read[f] # m
    <3>1. k = Cloud!Error("network")
      BY <1>1, <1>3, <2>3 DEF Cloud!Took
    <3> QED BY <3>1
  <2>4. CASE ~(count_ + 1 > MaxRevisions) /\ m.ours /\ f \notin DOMAIN read /\ m.kind = "newer"
    <3>1. k = Cloud!Error("unsupported")
      BY <1>1, <1>3, <2>4 DEF Cloud!Took
    <3> QED BY <3>1
  <2> QED BY <1>6, <2>1, <2>2, <2>3, <2>4
<1>7. CASE ~(count_ + 1 > MaxRevisions) /\ m.ours /\ f \in DOMAIN read /\ read[f] = m
  <2>1. k = [j EXCEPT !.count = @ + 1]
    BY <1>1, <1>3, <1>7 DEF Cloud!Took
  <2>2. k = [pc |-> "list", served |-> served, read |-> read, count |-> count_ + 1, valid |-> copies,
             invalid |-> bad, revisions |-> contents, conflicting |-> differ]
    BY <1>2, <2>1
  <2>3. /\ k.served = served /\ k.read = read /\ k.valid = copies /\ k.invalid = bad
        /\ k.revisions = contents /\ k.conflicting = differ /\ k.count = count_ + 1
    BY <2>2
  <2>4. Gathered(k, known)
    BY <1>2, <2>2, <2>3 DEF Gathered
  <2> QED BY <1>1, <1>7, <2>3, <2>4
<1>8. CASE /\ ~(count_ + 1 > MaxRevisions) /\ m.ours /\ f \notin DOMAIN read /\ m.kind # "newer"
  <2>1. PICK new : new = [pc |-> "list", served |-> served, read |-> more, count |-> count_ + 1,
                          valid |-> copies, invalid |-> bad, revisions |-> contents, conflicting |-> differ]
    OBVIOUS
  <2>2. new = [j EXCEPT !.read = Cloud!With(@, f, m), !.count = @ + 1]
    <3>1. PICK j2 : j2 = [pc |-> "list", served |-> served, read |-> more, count |-> count_, valid |-> copies,
                          invalid |-> bad, revisions |-> contents, conflicting |-> differ]
      OBVIOUS
    <3>2. j2 = [j EXCEPT !.read = more]
      BY <1>2, <3>1
    <3>3. new = [j2 EXCEPT !.count = count_ + 1]
      BY <2>1, <3>1
    <3>4. new = [j EXCEPT !.read = more, !.count = count_ + 1]
      BY <3>2, <3>3
    <3> QED BY <1>1, <1>4, <3>4
  <2>3. ReadTrue(more, known)
    BY <1>2, <1>3, <1>4, <1>8, ReadsTruly
  <2>4. CASE m.kind = "damaged" \/ m.large
    <3>1. k = [new EXCEPT !.invalid = @ \cup {f}]
      BY <1>1, <1>3, <1>8, <2>2, <2>4 DEF Cloud!Took, Cloud!Copy
    <3>2. k = [pc |-> "list", served |-> served, read |-> more, count |-> count_ + 1, valid |-> copies,
               invalid |-> bad \cup {f}, revisions |-> contents, conflicting |-> differ]
      BY <2>1, <3>1
    <3>3. Sorted(more, Cloud!Range(copies), bad \cup {f})
      BY <1>2, <1>4, <1>8, <2>4, PutAside
    <3>4. /\ k.served = served /\ k.read = more /\ k.valid = copies /\ k.invalid = bad \cup {f}
          /\ k.revisions = contents /\ k.conflicting = differ /\ k.count = count_ + 1
      BY <3>2
    <3>5. Gathered(k, known)
      BY <1>2, <2>3, <3>2, <3>3, <3>4 DEF Gathered
    <3> QED BY <1>1, <1>5, <3>4, <3>5
  <2>5. CASE m.kind # "damaged" /\ ~m.large
    <3>1. PICK v : v = [file |-> f, revision |-> m.revision, content |-> m.content]
      OBVIOUS
    <3>2. v \in Copies /\ v.revision = m.revision /\ v.content = m.content
      BY <3>1 DEF Copies
    <3>3. PICK differ2, contents2, copies2 :
            /\ differ2 = IF v.revision \in DOMAIN contents /\ contents[v.revision] # v.content
                         THEN differ \cup {v.revision} ELSE differ
            /\ contents2 = Cloud!With(contents, v.revision, v.content) /\ copies2 = Append(copies, v)
      OBVIOUS
    <3>4. k = Cloud!Copy(new, f, m)
      BY <1>1, <1>3, <1>8, <2>2, <2>5 DEF Cloud!Took
    <3>5. k = [pc |-> "list", served |-> served, read |-> more, count |-> count_ + 1, valid |-> copies2,
               invalid |-> bad, revisions |-> contents2, conflicting |-> differ2]
      BY <2>1, <2>5, <3>1, <3>2, <3>3, <3>4 DEF Cloud!Copy
    <3>6. copies2 \in Seq(Copies) /\ Cloud!Range(copies2) = Cloud!Range(copies) \cup {v}
      BY <1>2, <3>2, <3>3, AppendedRange
    <3>7. Sorted(more, Cloud!Range(copies2), bad)
      BY <1>2, <1>4, <1>8, <3>1, <3>6, CopyKept
    <3>8. Compared(Cloud!Range(copies2), contents2, differ2)
      <4>1. Compared(Cloud!Range(copies) \cup {v}, Cloud!With(contents, v.revision, v.content), differ2)
        <5>1. PICK before : before = Cloud!Range(copies)
          OBVIOUS
        <5>2. Compared(before \cup {v}, Cloud!With(contents, v.revision, v.content), differ2)
          BY <1>2, <3>3, <5>1, CopyCompared
        <5> QED BY <5>1, <5>2
      <4> QED BY <3>3, <3>6, <4>1
    <3>9. /\ k.served = served /\ k.read = more /\ k.valid = copies2 /\ k.invalid = bad
          /\ k.revisions = contents2 /\ k.conflicting = differ2 /\ k.count = count_ + 1
      BY <3>5
    <3>10. Gathered(k, known)
      BY <2>3, <3>5, <3>6, <3>7, <3>8, <3>9 DEF Gathered
    <3> QED BY <1>1, <1>5, <3>9, <3>10
  <2> QED BY <2>4, <2>5
<1> QED BY <1>6, <1>7, <1>8

(* A file after what was read before it. *)
Onward(x, f) == IF "error" \in DOMAIN x THEN x ELSE Cloud!Took(x, f)

(* The recursion of Read, as an equation. *)
IsReading(after, j, page, n) ==
  after = [i \in 0 .. n |-> IF i = 0 THEN j ELSE Onward(after[i - 1], page[i])]

(* The recursive function that Read uses is well defined. *)
LEMMA ReadingExists ==
  ASSUME NEW j, NEW page, NEW N \in Nat
  PROVE  \E after : IsReading(after, j, page, N)
<1> DEFINE Bad == {n \in 0 .. N : ~ \E after : IsReading(after, j, page, n)}
<1> SUFFICES Bad = {}
  OBVIOUS
<1> SUFFICES ASSUME Bad # {} PROVE FALSE
  OBVIOUS
<1>1. IsFiniteSet(0 .. N)
  BY FS_Interval
<1>2. Bad \in SUBSET (0 .. N)
  OBVIOUS
<1>3. Bad \in SUBSET Int /\ IsFiniteSet(Bad)
  BY <1>1, <1>2, FS_Subset
<1>4. PICK m \in Bad : \A x \in Bad : m <= x
  <2> HIDE DEF Bad
  <2> QED
    BY <1>3, HasLeast
<1>5. m \in 0 .. N /\ ~ \E after : IsReading(after, j, page, m)
  OBVIOUS
<1>6. m # 0
  <2> SUFFICES ASSUME m = 0 PROVE FALSE
    OBVIOUS
  <2> DEFINE after == [i \in 0 .. 0 |-> j]
  <2>1. IsReading(after, j, page, 0)
    BY DEF IsReading
  <2> QED
    BY <1>5, <2>1
<1>7. m - 1 \in 0 .. N /\ m - 1 \notin Bad
  <2> HIDE DEF Bad
  <2> QED
    BY <1>4, <1>5, <1>6
<1>8. PICK f : IsReading(f, j, page, m - 1)
  BY <1>7
<1> DEFINE h == [i \in 0 .. m |-> IF i = m THEN Onward(f[m - 1], page[m]) ELSE f[i]]
<1>9. IsReading(h, j, page, m)
  <2>1. \A i \in 0 .. m - 1 : f[i] = IF i = 0 THEN j ELSE Onward(f[i - 1], page[i])
    BY <1>8 DEF IsReading
  <2>2. \A i \in 0 .. m : h[i] = IF i = 0 THEN j ELSE Onward(h[i - 1], page[i])
    <3> SUFFICES ASSUME NEW i \in 0 .. m
                 PROVE  h[i] = IF i = 0 THEN j ELSE Onward(h[i - 1], page[i])
      OBVIOUS
    <3>1. CASE i = m
      <4>1. m - 1 \in 0 .. m /\ m - 1 # m
        BY <1>5, <1>6
      <4>2. h[m - 1] = f[m - 1]
        BY <4>1
      <4> QED
        BY <1>6, <3>1, <4>2
    <3>2. CASE i # m
      <4>1. i \in 0 .. m - 1
        BY <1>5, <3>2
      <4>2. h[i] = f[i]
        BY <3>2
      <4>3. i # 0 => i - 1 \in 0 .. m /\ i - 1 # m
        BY <1>5, <4>1
      <4>4. i # 0 => h[i - 1] = f[i - 1]
        BY <4>3
      <4> QED
        BY <2>1, <4>1, <4>2, <4>4
    <3> QED
      BY <3>1, <3>2
  <2> HIDE DEF h
  <2>3. h = [i \in 0 .. m |-> h[i]]
    BY DEF h
  <2> QED
    BY <2>2, <2>3 DEF IsReading
<1> QED
  BY <1>5, <1>9

(* A listing that reads on: the files of a page are among those it has read. *)
Reads(j, k, known, fs) ==
  \/ \E code : k = Cloud!Error(code)
  \/ Gathered(k, known) /\ k.served = j.served /\ DOMAIN j.read \cup fs \subseteq DOMAIN k.read

(* So a page keeps the listing true, or ends it with an error. *)
LEMMA ReadKeeps ==
  ASSUME NEW j, NEW known, Gathered(j, known), NEW c, c = cloud, c \in known,
         NEW N \in Nat, NEW page \in [1 .. N -> FileIds], \A i \in 1 .. N : c[page[i]] \in Metas
  PROVE  Reads(j, Cloud!Read(j, page), known, {page[i] : i \in 1 .. N})
<1> DEFINE Firsts(n) == {page[i] : i \in 1 .. n}
<1>1. Len(page) = N
  <2>1. page \in Seq(FileIds)
    BY SeqDef
  <2>2. PICK n \in Nat : n = Len(page) /\ 1 .. n = 1 .. N
    BY <2>1, LenProperties
  <2> QED BY <2>2
<1>2. PICK after : IsReading(after, j, page, N) /\ Cloud!Read(j, page) = after[N]
  <2> DEFINE read == CHOOSE f : f = [i \in 0 .. N |-> IF i = 0 THEN j ELSE Onward(f[i - 1], page[i])]
  <2>1. \E f : f = [i \in 0 .. N |-> IF i = 0 THEN j ELSE Onward(f[i - 1], page[i])]
    <3>1. PICK f : IsReading(f, j, page, N)
      BY ReadingExists
    <3> QED BY <3>1 DEF IsReading
  <2>2. IsReading(read, j, page, N)
    BY <2>1, Zenon DEF IsReading
  <2>3. Cloud!Read(j, page) = read[N]
    BY <1>1, Zenon DEF Cloud!Read, Onward
  <2> QED BY <2>2, <2>3
<1>3. /\ after[0] = j
      /\ \A n \in 1 .. N : after[n] = Onward(after[n - 1], page[n])
  BY <1>2 DEF IsReading
<1> DEFINE Good(n) == Reads(j, after[n], known, Firsts(n))
           Bad == {n \in 0 .. N : ~Good(n)}
<1>4. Good(0)
  BY <1>3 DEF Reads
<1>5. ASSUME NEW n \in 1 .. N, Good(n - 1) PROVE Good(n)
  <2>1. PICK x, y, f : x = after[n - 1] /\ y = after[n] /\ f = page[n]
    OBVIOUS
  <2>2. y = Onward(x, f) /\ f \in FileIds /\ c[f] \in Metas
    BY <1>3, <2>1
  <2>3. Firsts(n) = Firsts(n - 1) \cup {f}
    <3>1. 1 .. n = (1 .. n - 1) \cup {n}
      OBVIOUS
    <3> QED BY <2>1, <3>1
  <2>4. CASE \E code : x = Cloud!Error(code)
    <3>1. "error" \in DOMAIN x
      BY <2>4 DEF Cloud!Error
    <3>2. y = x
      BY <2>2, <3>1 DEF Onward
    <3> QED BY <2>1, <2>4, <3>2 DEF Reads
  <2>5. CASE Gathered(x, known) /\ x.served = j.served /\ DOMAIN j.read \cup Firsts(n - 1) \subseteq DOMAIN x.read
    <3>1. "error" \notin DOMAIN x
      <4>1. x = [pc |-> "list", served |-> x.served, read |-> x.read, count |-> x.count, valid |-> x.valid,
                 invalid |-> x.invalid, revisions |-> x.revisions, conflicting |-> x.conflicting]
        BY <2>5 DEF Gathered
      <4>2. DOMAIN x = {"pc", "served", "read", "count", "valid", "invalid", "revisions", "conflicting"}
        BY <4>1
      <4> QED BY <4>2
    <3>2. y = Cloud!Took(x, f)
      BY <2>2, <3>1 DEF Onward
    <3>3. \/ \E code : y = Cloud!Error(code)
          \/ Gathered(y, known) /\ y.served = x.served /\ DOMAIN x.read \cup {f} \subseteq DOMAIN y.read
      BY <2>2, <2>5, <3>2, TookKeeps
    <3> HIDE DEF Firsts
    <3> QED BY <2>1, <2>3, <2>5, <3>3 DEF Reads
  <2> HIDE DEF Firsts
  <2> QED BY <1>5, <2>1, <2>4, <2>5 DEF Reads
<1>6. Bad = {}
  <2> SUFFICES ASSUME Bad # {} PROVE FALSE
    OBVIOUS
  <2> HIDE DEF Good
  <2>1. IsFiniteSet(0 .. N)
    BY FS_Interval
  <2>2. Bad \in SUBSET (0 .. N)
    OBVIOUS
  <2>3. Bad \in SUBSET Int /\ IsFiniteSet(Bad)
    BY <2>1, <2>2, FS_Subset
  <2>4. PICK m \in Bad : \A x \in Bad : m <= x
    <3> HIDE DEF Bad
    <3> QED BY <2>3, HasLeast
  <2>5. m \in 1 .. N /\ m - 1 \in 0 .. N /\ m - 1 \notin Bad
    <3>1. m \in 0 .. N /\ m # 0
      BY <1>4, <2>4
    <3>2. m - 1 \in 0 .. N /\ ~(m <= m - 1)
      BY <3>1
    <3> QED BY <2>4, <3>1, <3>2
  <2> QED BY <1>5, <2>4, <2>5
<1>7. Good(N)
  <2> HIDE DEF Good
  <2> QED BY <1>6
<1> QED BY <1>2, <1>7

(* A listing that is over: what is proposed is invalid and not listed, what was there all the
   time is listed or proposed, the copies of a revision agree, and none has a newer format. *)
Whole(known, listed, bad) ==
  /\ bad \cap Cloud!Files(listed) = {}
  /\ \A f \in bad : \E c \in known :
       c[f] # None /\ (\/ c[f].kind = "damaged" \/ c[f].large
                       \/ \E g \in FileIds \ {f}, d \in known :
                            /\ d[g] # None /\ d[g].revision = c[f].revision
                            /\ d[g].content # c[f].content)
  /\ \A f \in FileIds :
       (\A c \in known : c[f] # None /\ c[f].kind = "good" /\ ~c[f].large) =>
         f \in Cloud!Files(listed) \cup bad
  /\ \A v, w \in listed : v.revision = w.revision => v.content = w.content
  /\ \A f \in FileIds : ~ \A c \in known : c[f] # None /\ c[f].kind = "newer"

(* A call at work has listed nothing yet; between calls what was listed stays true. *)
ListingInv ==
  /\ cloud \in [FileIds -> Metas \cup {None}]
  /\ \/ request = Cloud!Idle
     \/ /\ Gathered(request, seen) /\ request.served \subseteq DOMAIN request.read
        /\ cloud \in seen /\ proposed = {}
  /\ Cloud!Listed /\ seen # {} => Whole(seen, answer.listed, proposed)

(* The invariant gives what is said of a listing. *)
LEMMA ListingIsSound ==
  ListingInv => Cloud!ProposedIsInvalid /\ Cloud!ListingIsWhole /\ Cloud!NewerIsLeft
BY DEF ListingInv, Whole, Cloud!ProposedIsInvalid, Cloud!ListingIsWhole, Cloud!NewerIsLeft

(* The last page ends a listing that has read all the files that were there all the time. *)
LEMMA ListingEnds ==
  ASSUME NEW j, NEW known, Gathered(j, known), known # {},
         {f \in FileIds : \A d \in known : d[f] # None} \subseteq DOMAIN j.read,
         NEW bad, bad = j.invalid \cup
                        {v.file : v \in {w \in Cloud!Range(j.valid) : w.revision \in j.conflicting}},
         NEW listed, listed = {v \in Cloud!Range(j.valid) : v.revision \notin j.conflicting}
  PROVE  Whole(known, listed, bad)
<1>1. PICK read, copies, aside, contents, differ :
        /\ read = j.read /\ copies = Cloud!Range(j.valid) /\ aside = j.invalid
        /\ contents = j.revisions /\ differ = j.conflicting
  OBVIOUS
<1>2. ReadTrue(read, known) /\ Sorted(read, copies, aside) /\ Compared(copies, contents, differ)
  BY <1>1 DEF Gathered
<1>3. /\ \A f \in bad : f \in aside \/ \E v \in copies : v.file = f /\ v.revision \in differ
      /\ \A v \in copies : v.revision \in differ => v.file \in bad
      /\ aside \subseteq bad
      /\ listed = {v \in copies : v.revision \notin differ}
  BY <1>1
<1>4. \A v \in copies : /\ v.file \in DOMAIN read /\ v.file \notin aside /\ v.file \in FileIds
                        /\ v.revision = read[v.file].revision /\ v.content = read[v.file].content
  BY <1>2 DEF Sorted, ReadTrue
<1>5. bad \cap Cloud!Files(listed) = {}
  BY <1>3, <1>4 DEF Cloud!Files
<1>6. ASSUME NEW f \in bad
      PROVE  \E c \in known :
               c[f] # None /\ (\/ c[f].kind = "damaged" \/ c[f].large
                               \/ \E g \in FileIds \ {f}, d \in known :
                                    /\ d[g] # None /\ d[g].revision = c[f].revision
                                    /\ d[g].content # c[f].content)
  <2>1. CASE f \in aside
    <3>1. f \in DOMAIN read /\ (read[f].kind = "damaged" \/ read[f].large)
      BY <1>2, <2>1 DEF Sorted
    <3>2. PICK c \in known : read[f] = c[f] /\ c[f] # None
      BY <1>2, <3>1 DEF ReadTrue
    <3>3. c[f].kind = "damaged" \/ c[f].large
      BY <3>1, <3>2
    <3> QED BY <3>2, <3>3
  <2>2. CASE f \notin aside
    <3>1. PICK v \in copies : v.file = f /\ v.revision \in differ
      BY <1>3, <1>6, <2>2
    <3>2. PICK u \in copies : u.revision = v.revision /\ u.content # v.content
      <4>1. \E u, w \in copies : u.revision = v.revision /\ w.revision = v.revision /\ u.content # w.content
        BY <1>2, <3>1 DEF Compared
      <4> QED BY <4>1
    <3>3. PICK c \in known : read[f] = c[f] /\ c[f] # None
      BY <1>2, <1>4, <3>1 DEF ReadTrue
    <3>4. PICK g : g = u.file
      OBVIOUS
    <3>5. PICK d \in known : read[g] = d[g] /\ d[g] # None
      BY <1>2, <1>4, <3>2, <3>4 DEF ReadTrue
    <3>6. g \in FileIds \ {f} /\ d[g].revision = c[f].revision /\ d[g].content # c[f].content
      BY <1>4, <3>1, <3>2, <3>3, <3>4, <3>5
    <3> QED BY <3>3, <3>5, <3>6
  <2> QED BY <2>1, <2>2
<1>7. ASSUME NEW f \in FileIds, \A c \in known : c[f] # None /\ c[f].kind = "good" /\ ~c[f].large
      PROVE  f \in Cloud!Files(listed) \cup bad
  <2>1. f \in DOMAIN read
    BY <1>1, <1>7
  <2>2. PICK c \in known : read[f] = c[f]
    BY <1>2, <2>1 DEF ReadTrue
  <2>3. f \notin aside
    BY <1>2, <1>7, <2>2 DEF Sorted
  <2>4. PICK v \in copies : v.file = f
    BY <1>2, <2>1, <2>3 DEF Sorted
  <2> QED BY <1>3, <2>4 DEF Cloud!Files
<1>8. \A v, w \in listed : v.revision = w.revision => v.content = w.content
  BY <1>2, <1>3 DEF Compared
<1>9. ASSUME NEW f \in FileIds, \A c \in known : c[f] # None /\ c[f].kind = "newer" PROVE FALSE
  <2>1. f \in DOMAIN read
    BY <1>1, <1>9
  <2>2. \E c \in known : c[f].kind # "newer"
    BY <1>2, <2>1 DEF ReadTrue
  <2> QED BY <1>9, <2>2
<1> QED BY <1>5, <1>6, <1>7, <1>8, <1>9 DEF Whole

(* One more version of the cloud takes nothing from what was read. *)
LEMMA GatheredStays ==
  ASSUME NEW j, NEW known, Gathered(j, known), NEW c
  PROVE  Gathered(j, known \cup {c})
BY DEF Gathered, ReadTrue

(* A listing at work is not idle, *)
LEMMA GatheredIsBusy ==
  ASSUME NEW j, NEW known, Gathered(j, known)
  PROVE  j.pc = "list" /\ j # Cloud!Idle
<1>1. j.pc = "list"
  BY DEF Gathered
<1>2. Cloud!Idle.pc = "idle"
  BY DEF Cloud!Idle
<1> QED BY <1>1, <1>2

(* and begins with nothing read. *)
LEMMA ListingBegins == \A known : Gathered(Cloud!Listing, known) /\ Cloud!Listing.served = {}
<1> SUFFICES ASSUME NEW known PROVE Gathered(Cloud!Listing, known) /\ Cloud!Listing.served = {}
  OBVIOUS
<1>1. PICK j : j = Cloud!Listing
  OBVIOUS
<1>2. PICK none : none = <<>>
  OBVIOUS
<1>3. none \in Seq(Copies) /\ DOMAIN none = {} /\ Cloud!Range(none) = {}
  BY <1>2 DEF Cloud!Range
<1>4. j = [pc |-> "list", served |-> {}, read |-> none, count |-> 0, valid |-> none,
           invalid |-> {}, revisions |-> none, conflicting |-> {}]
  BY <1>1, <1>2 DEF Cloud!Listing
<1>5. /\ j.served = {} /\ j.read = none /\ j.count = 0 /\ j.valid = none /\ j.invalid = {}
      /\ j.revisions = none /\ j.conflicting = {}
  BY <1>4
<1>6. ReadTrue(none, known) /\ Sorted(none, {}, {}) /\ Compared({}, none, {})
  BY <1>3 DEF ReadTrue, Sorted, Compared
<1> QED BY <1>1, <1>3, <1>4, <1>5, <1>6 DEF Gathered

(* An answer that is no listing says nothing of what was listed. *)
LEMMA NotListed ==
  ASSUME NEW a, \/ \E x : a = Cloud!Error(x)
                \/ \E x : a = [file |-> x]
                \/ \E x : a = [removed |-> x]
  PROVE  "listed" \notin DOMAIN a
BY DEF Cloud!Error

(* A listing starts with the present cloud and without what an earlier one proposed. *)
LEMMA ListingStarts ==
  ASSUME ListingInv, Cloud!Start
  PROVE  ListingInv'
<1>1. request' = Cloud!Listing /\ proposed' = {} /\ seen' = {cloud} /\ cloud' = cloud
  BY DEF Cloud!Start
<1>2. PICK j, known : j = request' /\ known = seen'
  OBVIOUS
<1>3. Gathered(j, known) /\ j.served = {} /\ cloud \in known
  BY <1>1, <1>2, ListingBegins
<1>4. j # Cloud!Idle
  BY <1>3, GatheredIsBusy
<1>5. ~Cloud!Listed'
  BY <1>2, <1>4 DEF Cloud!Listed
<1> QED BY <1>1, <1>2, <1>3, <1>5 DEF ListingInv

(* A page is read on, or ends the listing with an error or with its answer. *)
LEMMA ListingPages ==
  ASSUME ListingInv, Cloud!Page
  PROVE  ListingInv'
<1>1. PICK page \in UNION {[1 .. n -> Cloud!Present] : n \in 0 .. PageSize}, last \in BOOLEAN :
        LET served == request.served \cup Cloud!Range(page)
            after == Cloud!Read([request EXCEPT !.served = served], page)
            lasting == {f \in Cloud!Present : \A c \in seen : c[f] # None}
        IN  /\ last = (lasting \subseteq served)
            /\ IF "error" \in DOMAIN after THEN Cloud!Answered(after) /\ UNCHANGED proposed
               ELSE IF last THEN Cloud!Finished(after)
               ELSE request' = after /\ UNCHANGED <<proposed, answer>>
  BY DEF Cloud!Page
<1>2. UNCHANGED <<cloud, seen, done>> /\ request.pc = "list"
  BY DEF Cloud!Page
<1>3. request # Cloud!Idle
  BY <1>2 DEF Cloud!Idle
<1>4. PICK j, known, c : j = request /\ known = seen /\ c = cloud
  OBVIOUS
<1>5. /\ Gathered(j, known) /\ j.served \subseteq DOMAIN j.read /\ c \in known /\ proposed = {}
      /\ c \in [FileIds -> Metas \cup {None}]
  BY <1>3, <1>4 DEF ListingInv
<1>6. PICK N \in 0 .. PageSize : page \in [1 .. N -> Cloud!Present]
  BY <1>1
<1>7. /\ N \in Nat /\ page \in [1 .. N -> FileIds] /\ \A i \in 1 .. N : c[page[i]] \in Metas
      /\ Cloud!Range(page) = {page[i] : i \in 1 .. N}
  <2>1. N \in Nat
    BY <1>6
  <2>2. \A f \in Cloud!Present : f \in FileIds /\ c[f] \in Metas
    BY <1>4, <1>5 DEF Cloud!Present
  <2>3. Cloud!Range(page) = {page[i] : i \in 1 .. N}
    BY <1>6 DEF Cloud!Range
  <2>4. page \in [1 .. N -> FileIds]
    BY <1>6, <2>2
  <2> QED BY <1>6, <2>1, <2>2, <2>3, <2>4
<1>8. PICK fs : fs = {page[i] : i \in 1 .. N}
  OBVIOUS
<1>9. PICK j2 : j2 = [j EXCEPT !.served = j.served \cup fs]
  OBVIOUS
<1>10. Gathered(j2, known) /\ j2.served = j.served \cup fs /\ j2.read = j.read
  <2>1. PICK served, read, count_, copies, bad, contents, differ :
          /\ served = j.served /\ read = j.read /\ count_ = j.count /\ copies = j.valid
          /\ bad = j.invalid /\ contents = j.revisions /\ differ = j.conflicting
    OBVIOUS
  <2>2. j = [pc |-> "list", served |-> served, read |-> read, count |-> count_, valid |-> copies,
             invalid |-> bad, revisions |-> contents, conflicting |-> differ]
    BY <1>5, <2>1 DEF Gathered
  <2>3. j2 = [pc |-> "list", served |-> served \cup fs, read |-> read, count |-> count_, valid |-> copies,
              invalid |-> bad, revisions |-> contents, conflicting |-> differ]
    <3>1. j2 = [j EXCEPT !.served = served \cup fs]
      BY <1>9, <2>1
    <3> QED BY <2>2, <3>1
  <2>4. /\ j2.served = served \cup fs /\ j2.read = read /\ j2.valid = copies /\ j2.invalid = bad
        /\ j2.revisions = contents /\ j2.conflicting = differ /\ j2.count = count_
    BY <2>3
  <2> QED BY <1>5, <2>1, <2>3, <2>4 DEF Gathered
<1>11. PICK after : after = Cloud!Read(j2, page)
  OBVIOUS
<1>12. Reads(j2, after, known, fs)
  <2>1. Reads(j2, Cloud!Read(j2, page), known, {page[i] : i \in 1 .. N})
    BY <1>4, <1>5, <1>7, <1>10, ReadKeeps
  <2> QED BY <1>8, <1>11, <2>1
<1>13. PICK lasting : lasting = {f \in Cloud!Present : \A d \in seen : d[f] # None}
  OBVIOUS
<1>14. /\ last = (lasting \subseteq j.served \cup fs)
       /\ IF "error" \in DOMAIN after THEN Cloud!Answered(after) /\ UNCHANGED proposed
          ELSE IF last THEN Cloud!Finished(after)
          ELSE request' = after /\ UNCHANGED <<proposed, answer>>
  BY <1>1, <1>4, <1>7, <1>8, <1>9, <1>11, <1>13
<1>15. CASE \E code : after = Cloud!Error(code)
  <2>1. "error" \in DOMAIN after /\ "listed" \notin DOMAIN after
    BY <1>15 DEF Cloud!Error
  <2>2. request' = Cloud!Idle /\ answer' = after
    BY <1>14, <2>1 DEF Cloud!Answered
  <2>3. ~Cloud!Listed'
    BY <2>1, <2>2 DEF Cloud!Listed
  <2> QED BY <1>2, <1>4, <1>5, <2>2, <2>3 DEF ListingInv
<1>16. CASE /\ Gathered(after, known) /\ after.served = j2.served
            /\ DOMAIN j2.read \cup fs \subseteq DOMAIN after.read
  <2>1. "error" \notin DOMAIN after
    <3>1. after = [pc |-> "list", served |-> after.served, read |-> after.read, count |-> after.count,
                   valid |-> after.valid, invalid |-> after.invalid, revisions |-> after.revisions,
                   conflicting |-> after.conflicting]
      BY <1>16 DEF Gathered
    <3>2. DOMAIN after = {"pc", "served", "read", "count", "valid", "invalid", "revisions", "conflicting"}
      BY <3>1
    <3> QED BY <3>2
  <2>2. after.served \subseteq DOMAIN after.read /\ after.served = j.served \cup fs
    BY <1>5, <1>10, <1>16
  <2>3. CASE ~last
    <3>1. request' = after /\ UNCHANGED <<proposed, answer>>
      BY <1>14, <2>1, <2>3
    <3>2. Gathered(request', seen')
      BY <1>2, <1>4, <1>16, <3>1
    <3>3. request' # Cloud!Idle
      BY <1>16, <3>1, GatheredIsBusy
    <3>4. ~Cloud!Listed'
      BY <3>3 DEF Cloud!Listed
    <3> QED BY <1>2, <1>4, <1>5, <2>2, <3>1, <3>2, <3>4 DEF ListingInv
  <2>4. CASE last
    <3>1. Cloud!Finished(after)
      BY <1>14, <2>1, <2>4
    <3>2. PICK bad, listed :
            /\ bad = after.invalid \cup
                       {v.file : v \in {w \in Cloud!Range(after.valid) : w.revision \in after.conflicting}}
            /\ listed = {v \in Cloud!Range(after.valid) : v.revision \notin after.conflicting}
      OBVIOUS
    <3>3. proposed' = bad /\ answer' = [listed |-> listed] /\ request' = Cloud!Idle
      BY <3>1, <3>2 DEF Cloud!Finished, Cloud!Answered
    <3>4. {f \in FileIds : \A d \in known : d[f] # None} \subseteq DOMAIN after.read
      <4>1. {f \in FileIds : \A d \in known : d[f] # None} \subseteq lasting
        BY <1>4, <1>5, <1>13 DEF Cloud!Present
      <4>2. lasting \subseteq after.served
        BY <1>14, <2>2, <2>4
      <4> QED BY <2>2, <4>1, <4>2
    <3>5. Whole(known, listed, bad)
      BY <1>5, <1>16, <3>2, <3>4, ListingEnds
    <3>6. answer'.listed = listed
      BY <3>3
    <3>7. Whole(seen', answer'.listed, proposed')
      BY <1>2, <1>4, <3>3, <3>5, <3>6
    <3> QED BY <1>2, <1>4, <1>5, <3>3, <3>7 DEF ListingInv
  <2> QED BY <1>1, <2>3, <2>4
<1> QED BY <1>12, <1>15, <1>16 DEF Reads

(* A request that fails ends the call without a listing. *)
LEMMA ListingRefused ==
  ASSUME ListingInv, Cloud!Refused
  PROVE  ListingInv'
<1>1. PICK code : answer' = Cloud!Error(code)
  BY DEF Cloud!Refused, Cloud!Answered
<1>2. request' = Cloud!Idle /\ UNCHANGED <<cloud, proposed, seen, done>>
  BY DEF Cloud!Refused, Cloud!Answered
<1>3. ~Cloud!Listed'
  <2>1. PICK a : a = answer'
    OBVIOUS
  <2>2. "listed" \notin DOMAIN a
    BY <1>1, <2>1, NotListed
  <2> QED BY <2>1, <2>2 DEF Cloud!Listed
<1> QED BY <1>2, <1>3 DEF ListingInv

(* Uploads and removals end what is said of the listing before them; they keep the cloud typed. *)
LEMMA ListingWrites ==
  ASSUME ListingInv, Cloud!Upload \/ Cloud!Remove
  PROVE  ListingInv'
<1>1. request = Cloud!Idle /\ request' = request /\ seen' = {}
  BY DEF Cloud!Upload, Cloud!Remove
<1>2. cloud' \in [FileIds -> Metas \cup {None}]
  <2>1. CASE Cloud!Upload
    BY <2>1 DEF Cloud!Upload, ListingInv
  <2>2. CASE Cloud!Remove
    BY <2>2 DEF Cloud!Remove, ListingInv
  <2> QED BY <2>1, <2>2
<1> QED BY <1>1, <1>2 DEF ListingInv

(* Others change the cloud: a listing at work has one more version to be true to. *)
LEMMA ListingMeetsChange ==
  ASSUME ListingInv, Cloud!Change
  PROVE  ListingInv'
<1>1. cloud' \in [FileIds -> Metas \cup {None}] /\ UNCHANGED <<request, proposed, answer>>
  BY DEF Cloud!Change, ListingInv
<1>2. CASE request = Cloud!Idle
  <2>1. seen' = seen
    BY <1>2 DEF Cloud!Change
  <2> QED BY <1>1, <1>2, <2>1 DEF ListingInv, Cloud!Listed
<1>3. CASE request # Cloud!Idle
  <2>1. seen' = seen \cup {cloud'}
    BY <1>3 DEF Cloud!Change
  <2>2. PICK j, known, c : j = request /\ known = seen /\ c = cloud'
    OBVIOUS
  <2>3. Gathered(j, known) /\ j.served \subseteq DOMAIN j.read /\ proposed = {}
    BY <1>3, <2>2 DEF ListingInv
  <2>4. Gathered(j, known \cup {c})
    BY <2>3, GatheredStays
  <2>5. Gathered(request', seen') /\ cloud' \in seen'
    BY <1>1, <2>1, <2>2, <2>4
  <2>6. ~Cloud!Listed'
    BY <1>1, <1>3 DEF Cloud!Listed
  <2> QED BY <1>1, <2>2, <2>3, <2>5, <2>6 DEF ListingInv
<1> QED BY <1>2, <1>3

(* At first nothing was listed. *)
LEMMA ListingInits == Cloud!Init => ListingInv
<1> SUFFICES ASSUME Cloud!Init PROVE ListingInv
  OBVIOUS
<1>1. seen = {} /\ request = Cloud!Idle /\ cloud \in [FileIds -> Metas \cup {None}]
  BY DEF Cloud!Init
<1> QED BY <1>1 DEF ListingInv

(* So every step of the transport keeps the invariant. *)
LEMMA ListingStep == ListingInv /\ [Cloud!Next]_listingVars => ListingInv'
<1> SUFFICES ASSUME ListingInv, [Cloud!Next]_listingVars PROVE ListingInv'
  OBVIOUS
<1>1. CASE UNCHANGED listingVars
  BY <1>1 DEF listingVars, ListingInv, Cloud!Listed
<1>2. CASE Cloud!Next
  BY <1>2, ListingStarts, ListingPages, ListingRefused, ListingWrites, ListingMeetsChange DEF Cloud!Next
<1> QED BY <1>1, <1>2

-----------------------------------------------------------------------------
(* A deletion on the server wins over late uploads; what a page calls saved is *)
(* stored; the statistics served are those of what is stored (public_store.py, *)
(* ArchiveSettings.svelte); and no span of a period lets more requests through *)
(* than its quota (RateLimit in public_app.py), for any number of pages,       *)
(* snapshots, catalogs and faults, threads, keys and windows.                  *)
THEOREM ServerIsFaithful == RemoteSpec => []ServerKeepsFaith
<1> DEFINE Inv == (subject = "server" => ServerInv) /\ (subject = "limit" => LimitInv)
<1>1. RemoteInit => Inv
  BY ServerStarts, LimitStarts DEF RemoteInit
<1>2. Inv /\ [RemoteNext]_remoteVars => Inv'
  <2> SUFFICES ASSUME Inv, [RemoteNext]_remoteVars PROVE Inv'
    OBVIOUS
  <2>1. /\ subject' = subject
        /\ subject = "server" => [Kept!Next]_serverVars
        /\ subject = "limit" => [Limit!Next]_limitVars
    BY DEF RemoteNext, remoteVars
  <2> QED BY <2>1, ServerStep, LimitStep
<1>3. Inv => ServerKeepsFaith
  BY ServerSound, LimitSound DEF ServerKeepsFaith
<1> QED BY <1>1, <1>2, <1>3, PTL DEF RemoteSpec

(* A listing of the cloud is whole and proposes only files that are invalid,   *)
(* whatever other devices do between its pages and however its requests fail   *)
(* (sync/drive.ts); exactly the revisions on cycles are removed, in whatever   *)
(* order the listing and the parents are walked, and merge bases are the best  *)
(* (inspectGraph in sync/graph.ts), for any listing of revisions and parents,  *)
(* any files and metadata, page size and limit of revisions.                   *)
THEOREM CloudIsTrusted == RemoteSpec => []CloudIsSound
<1> DEFINE Inv == (subject = "graph" => GraphInv) /\ (subject = "listing" => ListingInv)
<1>1. RemoteInit => Inv
  BY GraphInits, ListingInits DEF RemoteInit
<1>2. Inv /\ [RemoteNext]_remoteVars => Inv'
  <2> SUFFICES ASSUME Inv, [RemoteNext]_remoteVars PROVE Inv'
    OBVIOUS
  <2>1. /\ subject' = subject
        /\ subject = "graph" => [Graph!Next]_graphVars
        /\ subject = "listing" => [Cloud!Next]_listingVars
    BY DEF RemoteNext, remoteVars
  <2> QED BY <2>1, GraphStep, ListingStep
<1>3. Inv => CloudIsSound
  BY CyclesRemoved, BasesFound, ListingIsSound DEF CloudIsSound
<1> QED BY <1>1, <1>2, <1>3, PTL DEF RemoteSpec
=============================================================================
