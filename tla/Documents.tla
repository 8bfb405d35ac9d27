----------------------------- MODULE Documents -----------------------------
(***************************************************************************)
(* The documents an import consists of, and what the engine asks of them   *)
(* before it stores a snapshot: the records, the manifest of the collector *)
(* that wrote them, and the raw pages they were taken from.  A record and  *)
(* an identity are opaque values; credentials, sizes and the form of dates *)
(* are left out.                                                           *)
(***************************************************************************)
EXTENDS Naturals, FiniteSets, Sequences, Functions

CONSTANTS None,      \* no document, no identity
          Damaged    \* a file that is not JSON, or not what its name says

Document(schema, at, ident, records) ==
  [schema |-> schema, at |-> at, ident |-> ident, records |-> records, exilium |-> FALSE]
Entry(type, page, record) == [type |-> type, page |-> page, record |-> record]
Path(dir, type, page) == [dir |-> dir, type |-> type, page |-> page]

Reversed(s) == [i \in DOMAIN s |-> s[Len(s) + 1 - i]]

(* The order of the entries is newest first, as the official service lists. *)
Entries(doc) == IF doc.exilium THEN Reversed(doc.records) ELSE doc.records

-----------------------------------------------------------------------------
(* validateDocument *)

OfType(doc, t) == {i \in DOMAIN doc.records : doc.records[i].type = t}
Referenced(doc) == {Path("raw", e.type, e.page) : e \in Range(doc.records)}

Expected(doc, path) ==
  LET rows == SelectSeq(doc.records, LAMBDA e : Path("raw", e.type, e.page) = path)
  IN  [i \in DOMAIN rows |-> rows[i].record]

Settled == {"complete", "empty", "unavailable"}

ManifestMatches(doc, manifest) ==
  /\ manifest.schema = doc.schema
  /\ manifest.complete => manifest.finished
  /\ manifest.started = doc.at
  /\ manifest.ident \in {None, doc.ident}
  /\ \A t \in DOMAIN manifest.types :
       /\ manifest.types[t].records = Cardinality(OfType(doc, t))
       /\ manifest.complete => manifest.types[t].status \in Settled
  /\ \A e \in Range(doc.records) :
       e.type \in DOMAIN manifest.types /\ e.page <= manifest.types[e.type].pages

(* Original responses may hold rows of an overlap and are not compared. *)
PagesMatch(doc, raw) ==
  /\ \A path \in DOMAIN raw : raw[path] # Damaged
  /\ \A path \in DOMAIN raw : path.dir = "raw" => raw[path] = Expected(doc, path)
  /\ Referenced(doc) \subseteq DOMAIN raw

Accepted(input) ==
  /\ input.doc # Damaged
  /\ input.doc.schema = 2 => input.doc.ident # None
  /\ input.manifest # None => ManifestMatches(input.doc, input.manifest)
  /\ input.raw # None => PagesMatch(input.doc, input.raw)
=============================================================================
