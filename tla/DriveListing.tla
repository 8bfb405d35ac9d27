---------------------------- MODULE DriveListing ----------------------------
(***************************************************************************)
(* The transport to Google Drive (sync/drive.ts): revisions are listed     *)
(* page by page while other devices add, rewrite and delete files, each    *)
(* request may be refused or lost, and a listing proposes files to remove. *)
(* DriveSync takes a listing as one step; this is what that step does.     *)
(***************************************************************************)
EXTENDS Naturals, FiniteSets, Sequences, Functions

CONSTANTS FileIds,
          Metas,        \* external: what the metadata of a file may be
          PageSize, MaxRevisions, MaxChanges, MaxRequests,
          None

VARIABLES cloud,     \* external: metadata by file
          job,       \* the request at work, if any
          proposed,  \* pendingInvalid
          answer,    \* what the last call gave
          seen,      \* history: what was in the cloud at once since the call began
          done       \* history: changes of others, requests

vars == <<cloud, job, proposed, answer, seen, done>>

(* Metadata: of a revision with some content, in this format, a newer one, or
   damaged; in this archive or not; the size over the limit or not. *)
Meta(kind, revision, content, ours, large) ==
  [kind |-> kind, revision |-> revision, content |-> content, ours |-> ours, large |-> large]

Idle == [pc |-> "idle"]
Error(code) == [error |-> code]
Listing == [pc |-> "list", served |-> {}, read |-> <<>>, count |-> 0, valid |-> <<>>,
            invalid |-> {}, revisions |-> <<>>, conflicting |-> {}]

With(map, x, y) == [z \in DOMAIN map \cup {x} |-> IF z = x THEN y ELSE map[z]]

Present == {f \in FileIds : cloud[f] # None}
Answered(result) == answer' = result /\ job' = Idle

-----------------------------------------------------------------------------
(* list *)

(* Mutant of Start: the files proposed by an earlier listing stay. *)
StartKeeping ==
  /\ job = Idle /\ done.requests < MaxRequests
  /\ job' = Listing
  /\ seen' = {cloud} /\ done' = [done EXCEPT !.requests = @ + 1]
  /\ UNCHANGED <<cloud, answer, proposed>>

Start ==
  /\ job = Idle /\ done.requests < MaxRequests
  /\ job' = Listing
  /\ proposed' = {}
  /\ seen' = {cloud} /\ done' = [done EXCEPT !.requests = @ + 1]
  /\ UNCHANGED <<cloud, answer>>

(* Mutant of Copy: the copies of a revision are not compared. *)
CopyOfFirst(j, f, m) ==
  IF m.large THEN [j EXCEPT !.invalid = @ \cup {f}]
  ELSE [j EXCEPT !.valid = Append(@, [file |-> f, revision |-> m.revision, content |-> m.content]),
                 !.revisions = With(@, m.revision, m.content)]

(* A well-formed file: too large, or a copy of its revision. *)
Copy(j, f, m) ==
  IF m.large THEN [j EXCEPT !.invalid = @ \cup {f}]
  ELSE [j EXCEPT
          !.valid = Append(@, [file |-> f, revision |-> m.revision, content |-> m.content]),
          !.conflicting = IF m.revision \in DOMAIN j.revisions /\ j.revisions[m.revision] # m.content
                          THEN @ \cup {m.revision} ELSE @,
          !.revisions = With(@, m.revision, m.content)]

(* One file of a page, after what was read before it: an error, or the rest.
   A file may be served twice, but not with other metadata. *)
Took(j, f) ==
  LET m == cloud[f]
      new == [j EXCEPT !.read = With(@, f, m), !.count = @ + 1]
  IN  IF j.count + 1 > MaxRevisions THEN Error("quota")
      ELSE IF ~m.ours THEN Error("invalid")
      ELSE IF f \in DOMAIN j.read
           THEN IF j.read[f] = m THEN [j EXCEPT !.count = @ + 1] ELSE Error("network")
      ELSE IF m.kind = "newer" THEN Error("unsupported")
      ELSE IF m.kind = "damaged" THEN [new EXCEPT !.invalid = @ \cup {f}]
      ELSE Copy(new, f, m)

Read(j, page) ==
  LET after[i \in 0 .. Len(page)] ==
        IF i = 0 THEN j
        ELSE IF "error" \in DOMAIN after[i - 1] THEN after[i - 1] ELSE Took(after[i - 1], page[i])
  IN  after[Len(page)]

(* Never act on a partial listing: only the last page proposes and answers. *)
(* Mutant of Finished: copies that conflict are proposed but still listed. *)
FinishedConflicting(j) ==
  /\ proposed' = j.invalid \cup {v.file : v \in {w \in Range(j.valid) : w.revision \in j.conflicting}}
  /\ Answered([listed |-> Range(j.valid)])

Finished(j) ==
  /\ proposed' = j.invalid \cup {v.file : v \in {w \in Range(j.valid) : w.revision \in j.conflicting}}
  /\ Answered([listed |-> {v \in Range(j.valid) : v.revision \notin j.conflicting}])

(* External: a page holds some files, also such as were served before; a file
   that is there all the time is on one of the pages. *)
Page ==
  /\ job.pc = "list"
  /\ \E page \in UNION {[1 .. n -> Present] : n \in 0 .. PageSize}, last \in BOOLEAN :
       LET served == job.served \cup Range(page)
           after == Read([job EXCEPT !.served = served], page)
           lasting == {f \in Present : \A c \in seen : c[f] # None}
       IN  /\ IsInjective(page)
           /\ last = (lasting \subseteq served)
           /\ ~last => Range(page) \ job.served # {}
           /\ IF "error" \in DOMAIN after THEN Answered(after) /\ UNCHANGED proposed
              ELSE IF last THEN Finished(after)
              ELSE job' = after /\ UNCHANGED <<proposed, answer>>
  /\ UNCHANGED <<cloud, seen, done>>

(* request, and what cannot be read of an answer: refused, out of reach, not
   JSON, over the size limit, or with a cursor that is invalid or repeats. *)
Refused ==
  /\ job # Idle
  /\ \E code \in {"reconnect", "quota", "network", "invalid"} : Answered(Error(code))
  /\ UNCHANGED <<cloud, proposed, seen, done>>

-----------------------------------------------------------------------------
(* upload, delete *)

(* An upload is sent once; its answer may be lost after the file was made. *)
Upload ==
  /\ job = Idle /\ done.requests < MaxRequests
  /\ \E m \in Metas, f \in FileIds \ Present :
       /\ m.kind = "good" /\ m.ours /\ ~m.large
       /\ cloud' = [cloud EXCEPT ![f] = m]
       /\ \/ answer' = [file |-> f]
          \/ answer' = Error("network")
  /\ seen' = {} /\ done' = [done EXCEPT !.requests = @ + 1]
  /\ UNCHANGED <<job, proposed>>

(* Of a file that was proposed; it may be gone already (HTTP 404). *)
Remove ==
  /\ job = Idle /\ done.requests < MaxRequests
  /\ \E f \in proposed :
       \/ cloud' = [cloud EXCEPT ![f] = None] /\ answer' = [removed |-> f]
       \/ cloud' \in {cloud, [cloud EXCEPT ![f] = None]} /\ answer' = Error("network")
  /\ seen' = {} /\ done' = [done EXCEPT !.requests = @ + 1]
  /\ UNCHANGED <<job, proposed>>

(* External: another device, or the user in Drive. *)
Change ==
  /\ done.changes < MaxChanges
  /\ \E f \in FileIds, m \in Metas \cup {None} : m # cloud[f] /\ cloud' = [cloud EXCEPT ![f] = m]
  /\ seen' = IF job = Idle THEN seen ELSE seen \cup {cloud'}
  /\ done' = [done EXCEPT !.changes = @ + 1]
  /\ UNCHANGED <<job, proposed, answer>>

Init ==
  /\ cloud \in [FileIds -> Metas \cup {None}]
  /\ job = Idle /\ proposed = {} /\ answer = None /\ seen = {}
  /\ done = [changes |-> 0, requests |-> 0]

Next == Start \/ Page \/ Refused \/ Upload \/ Remove \/ Change

Spec == Init /\ [][Next]_vars

-----------------------------------------------------------------------------
Listed == job = Idle /\ answer # None /\ "listed" \in DOMAIN answer
Files(S) == {v.file : v \in S}

(* What is proposed for removal was damaged, too large or one of two contents
   under one revision at some time of the last listing, and is not listed. *)
ProposedIsInvalid ==
  /\ Listed /\ seen # {} =>
       /\ proposed \cap Files(answer.listed) = {}
       /\ \A f \in proposed : \E c \in seen :
            c[f] # None /\ (\/ c[f].kind = "damaged" \/ c[f].large
                            \/ \E g \in FileIds \ {f}, d \in seen :
                                 /\ d[g] # None /\ d[g].revision = c[f].revision
                                 /\ d[g].content # c[f].content)
  /\ job # Idle => proposed = {}

(* A listing that ends is whole: it has every good file that was there all the
   time, unless it conflicts, and two copies of a revision are the same. *)
ListingIsWhole ==
  Listed /\ seen # {} =>
    /\ \A f \in FileIds :
         (\A c \in seen : c[f] # None /\ c[f].kind = "good" /\ ~c[f].large) =>
           f \in Files(answer.listed) \cup proposed
    /\ \A v, w \in answer.listed : v.revision = w.revision => v.content = w.content

(* A listing with a newer format never ends: nothing can be removed after it. *)
NewerIsLeft ==
  Listed /\ seen # {} =>
    \A f \in FileIds : ~ \A c \in seen : c[f] # None /\ c[f].kind = "newer"
=============================================================================
