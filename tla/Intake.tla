------------------------------- MODULE Intake -------------------------------
(***************************************************************************)
(* The import of files (lib/import-files.ts, lib/exilium-import.ts): the   *)
(* user picks files of the export folders of the collector, or a backup of *)
(* another tracker, the browser builds one import of them, and the engine  *)
(* takes or refuses it.  The disk holds the exports of two runs over a     *)
(* growing history; a copy may be cut off.                                 *)
(***************************************************************************)
EXTENDS Documents, SequencesExt, TLC

CONSTANTS Exports,   \* external: what each run wrote, by folder
          Backups,   \* external: what another tracker holds of accounts
          MaxFiles

VARIABLES disk,      \* external: content by file; a file is [folder, path]
          picked,    \* what the user selected, as the browser names it
          source,    \* the profile chosen in a backup of another tracker
          input,     \* what readExport gives
          stored     \* the snapshot the engine keeps

vars == <<disk, picked, source, input, stored>>

Records == Path("records", 0, 0)
Manifest == Path("manifest", 0, 0)
Elsewhere == Path("other", 0, 0)
Backup == Path("backup", 0, 0)

Refusal == [refused |-> TRUE]
Files == {[folder |-> f, path |-> p] : f \in DOMAIN Exports, p \in UNION {DOMAIN Exports[f] : f \in DOMAIN Exports}}

-----------------------------------------------------------------------------
(* exilium-import *)

Profiles(store) == DOMAIN store

(* An empty choice stands for the only profile there is. *)
Chosen(store) ==
  IF source # None THEN {source} \cap Profiles(store)
  ELSE IF Cardinality(Profiles(store)) = 1 THEN Profiles(store) ELSE {}

OldestFirst(rows) == \A i \in 2 .. Len(rows) : rows[i - 1].time <= rows[i].time

Convertible(pulls) ==
  /\ \A t \in DOMAIN pulls : OldestFirst(pulls[t])
  /\ Cardinality({r.account : r \in UNION {Range(pulls[t]) : t \in DOMAIN pulls}}) <= 1

(* The types one after the other, each oldest first, on one page. *)
Converted(pulls) ==
  LET types == SetToSortSeq(DOMAIN pulls, <)
      entries(t) == [i \in DOMAIN pulls[t] |-> Entry(t, 1, pulls[t][i].pull)]
  IN  [Document(1, "now", None, FlattenSeq([i \in DOMAIN types |-> entries(types[i])]))
       EXCEPT !.exilium = TRUE]

-----------------------------------------------------------------------------
(* readExport *)

Recognized(path) == path \in {Records, Manifest} \/ path.dir \in {"raw", "responses"}
OfPath(path) == {f \in picked.files : f.path = path}
Content(f) == disk[f]

Readable ==
  /\ Cardinality(OfPath(Records)) = 1
  /\ \A f, g \in picked.files : picked.nested => f.folder = g.folder  \* one common root
  /\ \A f, g \in picked.files : f.path = g.path => f = g
  /\ \A f \in picked.files : Recognized(f.path)
  /\ ~picked.nested => \A f \in picked.files : f.path \in {Records, Manifest}
  /\ \A f \in picked.files : Content(f) # Damaged

The(path) == Content(CHOOSE f \in OfPath(path) : TRUE)

ReadFolder ==
  IF Readable
  THEN LET pages == {f.path : f \in picked.files} \ {Records, Manifest}
       IN  [doc |-> The(Records),
            manifest |-> IF OfPath(Manifest) = {} THEN None ELSE The(Manifest),
            raw |-> IF pages = {} THEN None ELSE [p \in pages |-> The(p)]]
  ELSE Refusal

(* A single file is a document, or a backup of another tracker. *)
ReadFile(f) ==
  IF Content(f) = Damaged THEN Refusal
  ELSE IF f.path = Records THEN [doc |-> Content(f), manifest |-> None, raw |-> None]
  ELSE IF f.path # Backup \/ Chosen(Content(f)) = {} THEN Refusal
  ELSE LET pulls == Content(f)[CHOOSE p \in Chosen(Content(f)) : TRUE]
       IN  IF Convertible(pulls) THEN [doc |-> Converted(pulls), manifest |-> None, raw |-> None]
           ELSE Refusal

Read ==
  /\ picked # None /\ input = None
  /\ input' = IF Cardinality(picked.files) = 1 THEN ReadFile(CHOOSE f \in picked.files : TRUE)
              ELSE ReadFolder
  /\ UNCHANGED <<disk, picked, source, stored>>

(* importRecords, up to the validation of the documents. *)
Store ==
  /\ input # None /\ stored = None
  /\ stored' = IF input # Refusal /\ Accepted(input) THEN input ELSE Refusal
  /\ UNCHANGED <<disk, picked, source, input>>

-----------------------------------------------------------------------------
(* The user: picks a folder, or files by hand, and a profile of a backup. *)

Pick ==
  /\ picked = None
  /\ \E nested \in BOOLEAN, files \in SUBSET DOMAIN disk :
       /\ files # {} /\ Cardinality(files) <= MaxFiles
       /\ picked' = [nested |-> nested, files |-> files]
  /\ \E profile \in UNION {Profiles(disk[f]) : f \in {g \in picked'.files : g.path = Backup}}
                     \cup {None} : source' = profile
  /\ UNCHANGED <<disk, input, stored>>

OnDisk ==
  LET written(f) == Exports[f.folder]
      whole == [f \in {g \in Files : g.path \in DOMAIN written(g)} |-> written(f)[f.path]]
  IN  {whole} \cup {[whole EXCEPT ![f] = Damaged] : f \in DOMAIN whole}

Init ==
  /\ \/ disk \in OnDisk
     \/ \E b \in Backups : disk = [folder |-> "exilium", path |-> Backup] :> b
  /\ picked = None
  /\ source = None
  /\ input = None
  /\ stored = None

Next == Pick \/ Read \/ Store

Spec == Init /\ [][Next]_vars

-----------------------------------------------------------------------------
Stored == stored # None /\ stored # Refusal

(* What is stored of a collector's files is one run's: its records with no
   manifest or with theirs, and if there are pages, every page of those
   records as that run wrote it.  Files of two runs over one history, which
   share most pages, or a folder that was copied in part, never mix. *)
ExportsDoNotMix ==
  Stored /\ ~stored.doc.exilium =>
    \E f \in DOMAIN Exports :
      LET own == Exports[f]
      IN  /\ stored.doc = own[Records]
          /\ stored.manifest \in {None, own[Manifest]}
          /\ stored.raw # None =>
               /\ Referenced(stored.doc) \subseteq DOMAIN stored.raw
               /\ \A p \in DOMAIN stored.raw : p.dir = "raw" => stored.raw[p] = own[p]

(* A history taken from another tracker is that of the profile the user chose,
   or of the only one, is one account's, and has every pull once, newest first
   like a collected one. *)
ForeignOrder ==
  Stored /\ stored.doc.exilium =>
    LET store == disk[CHOOSE f \in picked.files : TRUE]
    IN  \E profile \in DOMAIN store :
          LET pulls == store[profile]
          IN  /\ source = profile \/ (source = None /\ DOMAIN store = {profile})
              /\ Cardinality({r.account : r \in UNION {Range(pulls[t]) : t \in DOMAIN pulls}}) <= 1
              /\ \A t \in DOMAIN pulls :
                   LET read == SelectSeq(Entries(stored.doc), LAMBDA e : e.type = t)
                   IN  [i \in DOMAIN read |-> read[i].record] =
                       Reversed([i \in DOMAIN pulls[t] |-> pulls[t][i].pull])
=============================================================================
