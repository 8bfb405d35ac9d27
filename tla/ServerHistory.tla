--------------------------- MODULE ServerHistory ---------------------------
(***************************************************************************)
(* The saved history of one game account on the public server              *)
(* (backend/public_store.py, the endpoints of public_app.py) and the       *)
(* pages that save, recover and delete it (ArchiveSettings.svelte,         *)
(* public-api.ts).  A profile goes up in several requests; a response may  *)
(* be lost while its request is still on its way; another page may delete  *)
(* the history in between.  The statistics are cached from rows that are   *)
(* derived with the catalog that was on disk when they were written.       *)
(***************************************************************************)
EXTENDS Naturals, FiniteSets

CONSTANTS Pages, Snapshots, None, Owner, MaxCatalogs, MaxOps, MaxFaults

VARIABLES db,        \* snapshots, history_versions, pulls and the catalog signature
          frozen,    \* history: the version that its page froze, of each snapshot
          memory,    \* the process: its catalog and _statistics_cache
          disk,      \* external: the catalog file
          granted,   \* the pages whose session may use the account
          pages,     \* per page: local history, known version, operation, notice
          wire,      \* requests on their way
          count

vars == <<db, frozen, memory, disk, granted, pages, wire, count>>

Idle == [kind |-> "none", left |-> {}, version |-> 0, sent |-> {}]
NoNotice == [kind |-> "none", snaps |-> {}, version |-> 0]
Op == count.ops < MaxOps /\ count' = [count EXCEPT !.ops = @ + 1]
Fault == count.faults < MaxFaults /\ count' = [count EXCEPT !.faults = @ + 1]
Rows(saved, catalog) == [from |-> saved, catalog |-> catalog]

Init ==
  /\ db = [saved |-> {}, version |-> 0, rows |-> Rows({}, 1), signature |-> 1]
  /\ frozen = [s \in Snapshots |-> 0]
  /\ memory = [catalog |-> 1, cache |-> None] /\ disk = 1
  /\ granted = {} /\ wire = {}
  /\ pages = [p \in Pages |-> [local |-> IF p = Owner THEN Snapshots ELSE {}, known |-> None,
                               op |-> Idle, at |-> "ready", notice |-> NoNotice]]
  /\ count = [ops |-> 0, faults |-> 0]

-----------------------------------------------------------------------------
(* The store *)

(* _ensure_catalog: rows of another catalog are derived again and the cache goes. *)
Ensured(d) == IF d.signature = disk THEN d ELSE [d EXCEPT !.rows = Rows(d.saved, disk), !.signature = disk]

Cached(d, m) == [catalog |-> disk, cache |-> IF d.signature = disk THEN m.cache ELSE None]

Current(v) == v = db.version

(* put_backup: what is there is not stored again; a change derives the rows again. *)
Put(snaps) ==
  LET e == Ensured(db)
  IN  IF snaps \subseteq e.saved THEN e
      ELSE [e EXCEPT !.saved = @ \cup snaps, !.rows = Rows(e.saved \cup snaps, disk)]

Deleted == [db EXCEPT !.saved = {}, !.version = @ + 1, !.rows = [@ EXCEPT !.from = {}]]

(* Mutant of Forgotten: a change leaves the cached statistics as they are. *)
Remembered(m) == m

Forgotten(m) == [m EXCEPT !.cache = None]

(* What the server answers; a save that finds no room is rolled back as a whole. *)
Save(r) ==
  \/ /\ r.page \in granted /\ Current(r.version)
     /\ db' = Put(r.snaps) /\ memory' = Forgotten(Cached(db, memory))
     /\ frozen' = [s \in Snapshots |-> IF s \in r.snaps \ db.saved THEN r.asked ELSE frozen[s]]
     /\ UNCHANGED count
  \/ /\ r.page \in granted /\ Current(r.version) /\ Fault
     /\ memory' = Cached(db, memory) /\ UNCHANGED <<db, frozen>>
  \/ /\ ~(r.page \in granted /\ Current(r.version))
     /\ UNCHANGED <<db, frozen, memory, count>>

Answer == LET m == Cached(db, memory) IN IF m.cache = None THEN Ensured(db).rows ELSE m.cache

Statistics ==
  /\ db' = Ensured(db) /\ memory' = [Cached(db, memory) EXCEPT !.cache = Answer]
  /\ UNCHANGED <<frozen, disk, granted, pages, wire, count>>

CatalogChanges ==
  /\ disk < MaxCatalogs /\ disk' = disk + 1
  /\ UNCHANGED <<db, frozen, memory, granted, pages, wire, count>>

-----------------------------------------------------------------------------
(* The pages *)

Set(p, page) == pages' = [pages EXCEPT ![p] = page]
Free(p) == pages[p].op = Idle
Batch(snaps) == {CHOOSE s \in snaps : TRUE}
Said(page, kind) == [page EXCEPT !.op = Idle, !.at = "ready",
                      !.notice = [kind |-> kind, snaps |-> page.op.sent, version |-> page.op.version]]

(* verify grants the account to the session; config tells its deletion generation. *)
Verify(p) ==
  /\ Free(p) /\ (p \notin granted \/ pages[p].known # db.version)
  /\ Op /\ granted' = granted \cup {p} /\ Set(p, [pages[p] EXCEPT !.known = db.version])
  /\ UNCHANGED <<db, frozen, memory, disk, wire>>

Expire(p) ==
  /\ Fault /\ p \in granted /\ granted' = granted \ {p}
  /\ UNCHANGED <<db, frozen, memory, disk, pages, wire>>

(* saveServer freezes the generation that the page knows, before the export. *)
BeginSave(p) ==
  /\ Op /\ Free(p) /\ pages[p].known # None /\ pages[p].local # {}
  /\ Set(p, [pages[p] EXCEPT !.op = [kind |-> "save", left |-> pages[p].local,
                                     version |-> pages[p].known, sent |-> {}], !.notice = NoNotice])
  /\ UNCHANGED <<db, frozen, memory, disk, granted, wire>>

BeginDelete(p) ==
  /\ Op /\ Free(p) /\ pages[p].known # None
  /\ Set(p, [pages[p] EXCEPT !.op = [Idle EXCEPT !.kind = "delete"], !.notice = NoNotice])
  /\ UNCHANGED <<db, frozen, memory, disk, granted, wire>>

(* Mutant of NextBatch: the page takes the newest generation for each batch. *)
BatchWithNewest(p) ==
  [page |-> p, kind |-> pages[p].op.kind, version |-> db.version, asked |-> pages[p].op.version,
   snaps |-> IF pages[p].op.kind = "save" THEN Batch(pages[p].op.left) ELSE {}]

NextBatch(p) ==
  [page |-> p, kind |-> pages[p].op.kind, version |-> pages[p].op.version, asked |-> pages[p].op.version,
   snaps |-> IF pages[p].op.kind = "save" THEN Batch(pages[p].op.left) ELSE {}]

Request(p) ==
  /\ ~Free(p) /\ pages[p].at = "ready"
  /\ wire' = wire \cup {NextBatch(p)} /\ Set(p, [pages[p] EXCEPT !.at = "waiting"])
  /\ UNCHANGED <<db, frozen, memory, disk, granted, count>>

(* Mutant of Rest: the page stops after its first batch, and calls it saved. *)
FirstOnly(op, r) == [op EXCEPT !.left = {}, !.sent = op.left]

Rest(op, r) == [op EXCEPT !.left = @ \ r.snaps, !.sent = @ \cup r.snaps]

(* The page hears of its request, if it still waits; after a deletion it asks for the generation again. *)
Respond(r, ok) ==
  LET page == pages[r.page]
      next == [page EXCEPT !.op = Rest(page.op, r), !.at = "ready"]
  IN  IF page.at # "waiting" \/ NextBatch(r.page) # r THEN UNCHANGED pages
      ELSE IF ~ok THEN Set(r.page, Said(page, "failed"))
      ELSE IF r.kind = "save"
      THEN Set(r.page, IF next.op.left = {} THEN Said(next, "saved") ELSE next)
      ELSE \E known \in {page.known, db'.version} :
             Set(r.page, [Said(page, "deleted") EXCEPT !.known = known])

Handle(r) ==
  /\ wire' = wire \ {r}
  /\ IF r.kind = "save"
     THEN Save(r) /\ Respond(r, r.page \in granted /\ Current(r.version) /\ r.snaps \subseteq db'.saved)
     ELSE /\ IF r.page \in granted
             THEN db' = Deleted /\ memory' = Forgotten(memory) ELSE UNCHANGED <<db, memory>>
          /\ Respond(r, r.page \in granted) /\ UNCHANGED <<frozen, count>>
  /\ UNCHANGED <<disk, granted>>

(* The response is lost: the page tells that the result is uncertain and sends nothing more. *)
Lose(p) ==
  /\ Fault /\ pages[p].at = "waiting" /\ Set(p, Said(pages[p], "uncertain"))
  /\ UNCHANGED <<db, frozen, memory, disk, granted, wire>>

(* The process starts again: requests in it are gone, and so is what the pages wait for. *)
Restart ==
  /\ Fault /\ memory' = [catalog |-> disk, cache |-> None] /\ wire' = {}
  /\ pages' = [p \in Pages |-> IF pages[p].at = "waiting" THEN Said(pages[p], "uncertain") ELSE pages[p]]
  /\ UNCHANGED <<db, frozen, disk, granted>>

(* recoverServer: the snapshots are imported one after the other; a failure leaves the first ones. *)
Recover(p) ==
  /\ Free(p) /\ p \in granted /\ db.saved \ pages[p].local # {}
  /\ \/ Op /\ Set(p, [pages[p] EXCEPT !.local = @ \cup db.saved])
     \/ Fault /\ \E some \in SUBSET db.saved : Set(p, [pages[p] EXCEPT !.local = @ \cup some])
  /\ UNCHANGED <<db, frozen, memory, disk, granted, wire>>

Next == \/ Statistics \/ CatalogChanges \/ Restart \/ \E r \in wire : Handle(r)
        \/ \E p \in Pages : Verify(p) \/ Expire(p) \/ BeginSave(p) \/ BeginDelete(p) \/ Request(p)
                            \/ Lose(p) \/ Recover(p)

Spec == Init /\ [][Next]_vars

-----------------------------------------------------------------------------
(* What must hold *)

(* A deletion wins over every upload that began before the page knew of it: what is stored was sent under
   the generation that the history has now, whichever request came late. *)
DeletionWins == \A s \in db.saved : frozen[s] = db.version

(* A page that says it saved its profile saved all of it, unless the history was deleted since. *)
SavedMeansStored ==
  \A p \in Pages : LET n == pages[p].notice
                   IN  n.kind = "saved" /\ n.version = db.version => n.snaps = {} \/ n.snaps \subseteq db.saved

(* The statistics that are served are those of the stored history under the catalog on disk. *)
StatisticsAreCurrent == Answer = Rows(db.saved, disk)
=============================================================================
