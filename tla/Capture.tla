------------------------------ MODULE Capture ------------------------------
(***************************************************************************)
(* The collection of a pull history in the browser (lib/capture.ts): a     *)
(* copied request is checked, the captured type is read first, then every  *)
(* type from 1 on until several in a row have no records.  The request may *)
(* expire while it is used, the user may stop, answers may fail; what was  *)
(* read by then is offered as a partial import.  The service lists the     *)
(* newest pull first and its cursor names the last row it gave.            *)
(***************************************************************************)
EXTENDS Documents, SequencesExt, TLC

CONSTANTS MaxType, MissThreshold, MaxPages, MaxRecords,
          PageSize,
          Listings,        \* external: what the service may list, type by type
          Servers, Server  \* what a server value may read as; the one captured

Types == 1 .. MaxType

VARIABLES log,       \* external: the pulls of every type the service offers
          valid,     \* external: the captured authorization is still accepted
          job,       \* memory of the collection
          begun,     \* what was listed when it began
          outcome    \* what the caller gets

vars == <<log, valid, job, begun, outcome>>

Idle == [pc |-> "idle"]

-----------------------------------------------------------------------------
(* parseCapture *)

Given(form, token, chosen) ==
  IF chosen # None THEN chosen ELSE IF form # None THEN form ELSE token

(* What is copied: the form body may be cut off, the length is that of the
   whole body, the token may be opaque (but one of the two is there), and the
   user may name the server. *)
Copies ==
  {c \in [control : Types, form : Servers \cup {None}, token : {Server, None}, length : BOOLEAN,
          chosen : {Server, None}, fresh : BOOLEAN, request : BOOLEAN] :
     c.length \/ c.token # None}

Parses(c) ==
  LET server == Given(c.form, c.token, c.chosen)
  IN  /\ c.request /\ c.fresh
      /\ server # None
      /\ c.chosen = None =>
           /\ c.form # None /\ c.token # None => c.form = c.token
           /\ c.length => server = Server

-----------------------------------------------------------------------------
(* collectCapture *)

Opened(t) == t :> [status |-> "in_progress", pages |-> 0, records |-> 0]

Start ==
  /\ job = Idle /\ outcome = None
  /\ \E c \in Copies :
       /\ c.control \in DOMAIN log
       /\ IF Parses(c)
          THEN /\ job' = [pc |-> "request", control |-> c.control, type |-> c.control,
                          server |-> Given(c.form, c.token, c.chosen),
                          types |-> Opened(c.control),
                          records |-> <<>>, raw |-> <<>>, cursor |-> 0, seen |-> {},
                          pages |-> 0, next |-> 1, misses |-> 0, aborted |-> FALSE]
               /\ begun' = log
               /\ UNCHANGED outcome
          ELSE /\ outcome' = [code |-> "input", input |-> None]
               /\ UNCHANGED <<job, begun>>
  /\ UNCHANGED <<log, valid>>

Import(complete, types) ==
  [doc |-> Document(2, "now", job.server, job.records),
   manifest |-> [schema |-> 2, started |-> "now", finished |-> TRUE, complete |-> complete,
                 ident |-> job.server, types |-> types],
   raw |-> job.raw]

Ends(code, input) ==
  /\ outcome' = [code |-> code, input |-> input]
  /\ job' = Idle
  /\ UNCHANGED <<log, valid, begun>>

Stopped(types) ==
  [t \in DOMAIN types |-> IF types[t].status = "in_progress"
                          THEN [types[t] EXCEPT !.status = "error"] ELSE types[t]]

(* A failure keeps what was read, if anything was. *)
Fail(code) ==
  Ends(code, IF job.records = <<>> THEN None ELSE Import(FALSE, Stopped(job.types)))

Asking == job.pc \in {"request", "check"}
Asked == IF job.pc = "check" THEN job.control ELSE job.type
Refused == job.aborted \/ job.pages >= MaxPages  \* before the request is sent

(* A service, a network, a timeout or a stop ends the collection: an abort
   that comes after the last answer was read is not noticed. *)
Failure ==
  /\ Asking
  /\ \E code \in {"upstream", "network", "limit", "cancelled"} :
       /\ code = "cancelled" => job.aborted
       /\ Refused => code = IF job.aborted THEN "cancelled" ELSE "limit"
       /\ Fail(code)

Cancel ==
  /\ job # Idle /\ ~job.aborted
  /\ job' = [job EXCEPT !.aborted = TRUE]
  /\ UNCHANGED <<log, valid, begun, outcome>>

(* The answer to a request, which a late abort does not take back. *)
Answered(t) == Asking /\ job.pages < MaxPages /\ Asked = t
Offered(t) == valid /\ t \in DOMAIN log

After(t, cursor) ==
  LET at == {0} \cup {i \in DOMAIN log[t] : log[t][i] = cursor}
  IN  SubSeq(log[t], Max(at) + 1, Len(log[t]))

Counted(change) == [change EXCEPT !.pages = @ + 1]

(* The misses after the type in turn, of which n records were read. *)
Counting(change, n) ==
  [change EXCEPT !.misses = IF n > 0 THEN 0 ELSE @ + 1, !.next = @ + 1]

Finished(change, status) ==
  LET t == job.type
      closed == [change EXCEPT !.types[t].status = status, !.pc = "scan", !.cursor = 0, !.seen = {}]
  IN  IF t = job.control THEN closed ELSE Counting(closed, change.types[t].records)

Page ==
  /\ job.pc = "request" /\ Answered(job.type) /\ Offered(job.type)
  /\ LET t == job.type
         rest == After(t, job.cursor)
         rows == SubSeq(rest, 1, IF Len(rest) < PageSize THEN Len(rest) ELSE PageSize)
         n == job.types[t].pages + 1
         read == [Counted(job) EXCEPT
                    !.types[t].pages = n, !.types[t].records = @ + Len(rows),
                    !.raw = (Path("raw", t, n) :> rows) @@ @,
                    !.records = @ \o [i \in DOMAIN rows |-> Entry(t, n, rows[i])]]
     IN  \E more \in {Len(rows) < Len(rest), rows # <<>>} :
           \E next \in IF more THEN {rows[Len(rows)]} \cup job.seen ELSE {0} :
             IF Len(job.records) + Len(rows) > MaxRecords THEN Fail("limit")
             ELSE /\ job' = IF next = 0
                            THEN Finished(read, IF read.types[t].records > 0 THEN "complete" ELSE "empty")
                            ELSE IF next \in job.seen THEN [read EXCEPT !.pc = "repeated"]
                            ELSE [read EXCEPT !.cursor = next, !.seen = @ \cup {next}]
                  /\ UNCHANGED <<log, valid, begun, outcome>>

Repeated == job.pc = "repeated" /\ Fail("upstream")

(* A type refused on its first page is unavailable if the captured one is not
   refused too: otherwise the capture has expired. *)
Unavailable ==
  /\ job.pc = "request" /\ Answered(job.type) /\ ~Offered(job.type)
  /\ IF job.type = job.control \/ job.types[job.type].pages > 0
     THEN Fail("upstream")
     ELSE /\ job' = [Counted(job) EXCEPT !.pc = "check"]
          /\ UNCHANGED <<log, valid, begun, outcome>>

(* Mutant of Check: the captured type is not asked again. *)
Unchecked ==
  /\ job.pc = "check"
  /\ job' = Finished(job, "unavailable")
  /\ UNCHANGED <<log, valid, begun, outcome>>

Check ==
  /\ job.pc = "check" /\ Answered(job.control)
  /\ IF Offered(job.control)
     THEN /\ job' = Finished(Counted(job), "unavailable")
          /\ UNCHANGED <<log, valid, begun, outcome>>
     ELSE Fail("upstream")

(* The captured type was read first and is counted at its place. *)
Scan ==
  /\ job.pc = "scan"
  /\ IF job.misses >= MissThreshold THEN Ends("done", Import(TRUE, job.types))
     ELSE IF job.next > MaxType THEN Fail("limit")
     ELSE /\ job' = IF job.next = job.control
                    THEN Counting(job, job.types[job.control].records)
                    ELSE [job EXCEPT !.pc = "request", !.type = job.next, !.types = Opened(job.next) @@ @]
          /\ UNCHANGED <<log, valid, begun, outcome>>

-----------------------------------------------------------------------------
(* The service: one new pull while a collection runs, and the capture expires. *)

Pull ==
  /\ \E t \in DOMAIN log :
       /\ job # Idle /\ Asking
       /\ log = begun
       /\ log' = [log EXCEPT ![t] = <<Len(@) + 1>> \o @]
  /\ UNCHANGED <<valid, job, begun, outcome>>

Expire ==
  /\ valid /\ job # Idle
  /\ valid' = FALSE
  /\ UNCHANGED <<log, job, begun, outcome>>

Init ==
  /\ log \in Listings
  /\ valid = TRUE
  /\ job = Idle
  /\ begun = None
  /\ outcome = None

Next ==
  \/ Start \/ Scan \/ Page \/ Repeated \/ Unavailable \/ Check \/ Failure \/ Cancel
  \/ Pull \/ Expire

Spec == Init /\ [][Next]_vars

-----------------------------------------------------------------------------
Offers == outcome # None /\ outcome.input # None

Held(input, t) ==
  LET rows == SelectSeq(input.doc.records, LAMBDA e : e.type = t)
  IN  [i \in DOMAIN rows |-> rows[i].record]

(* A finished collection holds every pull of every type that was listed when it
   began, once and in order, and so does each type called complete in one that
   broke off: a capture that expires on the way, a stop, a repeated cursor or
   a limit never passes for a type without records. *)
CollectionIsWhole ==
  Offers => \A t \in DOMAIN begun :
    LET manifest == outcome.input.manifest
        held == Held(outcome.input, t)
    IN  (\/ manifest.complete
         \/ t \in DOMAIN manifest.types /\ manifest.types[t].status = "complete")
        => IsSuffix(begun[t], held) /\ IsSuffix(held, log[t])

(* Whatever a collection offers, finished or not, the engine takes: nothing
   the user waited for is refused when it is saved (validateDocument). *)
OfferedIsAccepted == Offers => Accepted(outcome.input)

(* A copy that was cut off is never collected as another server
   (parseCapture). *)
ServerIsCaptured == Offers => outcome.input.doc.ident = Server
=============================================================================
