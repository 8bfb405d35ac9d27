---------------------------- MODULE WorkerCalls ----------------------------
(***************************************************************************)
(* The page's calls of the local archive (local/client.ts), the queue of   *)
(* the worker that answers them (local/worker.ts) and the second worker    *)
(* behind it, which encodes and decodes backups (local/codec.ts,           *)
(* codec-worker.ts).  Messages between two of them arrive in order.  Any   *)
(* worker may stop; the client then begins another one with the next call. *)
(***************************************************************************)
EXTENDS Naturals, Sequences

CONSTANTS Consumers, MaxCalls, MaxOthers, MaxFaults

VARIABLES sent,      \* history: the calls, their numbers are their places
          pending,   \* the client's promises
          settled,   \* history: number -> how the call ended
          known,     \* history: the changes that the page was told of
          archive,   \* external: the changes that are stored (calls, above MaxCalls: other tabs)
          inbox,     \* the worker's queue
          era,       \* mutationBarrier
          latest,    \* latestPreview: the newest preview of a consumer in an era
          codec,     \* jobs of the codec worker
          outbox,    \* messages on their way to the page
          count

vars == <<sent, pending, settled, known, archive, inbox, era, latest, codec, outbox, count>>

Methods == {"mutate", "read", "export"} \cup Consumers   \* a consumer asks for its preview
Other(n) == MaxCalls + n
Fault == count.faults < MaxFaults /\ count' = [count EXCEPT !.faults = @ + 1]

Init ==
  /\ sent = <<>> /\ pending = {} /\ settled = <<>> /\ known = {} /\ archive = {}
  /\ inbox = <<>> /\ era = 0 /\ latest = {} /\ codec = <<>> /\ outbox = <<>>
  /\ count = [others |-> 0, faults |-> 0]

End(how, state) == [how |-> how, state |-> state]
Reply(id, how, state) == [id |-> id, value |-> End(how, state)]
Refuse(id) == Reply(id, "error", {})
Changed(id) == Reply(0, "changed", {id})

(* Mutant of PreviewEra: a preview replaces those from before a change, too. *)
NoEra(e) == 0

PreviewEra(e) == e

(* send, and the worker's onmessage: the place in the queue is taken at once. *)
Send ==
  /\ Len(sent) < MaxCalls
  /\ \E m \in Methods :
       LET id == Len(sent) + 1
           e  == IF m = "mutate" THEN era + 1 ELSE era
       IN  /\ sent' = Append(sent, m) /\ settled' = Append(settled, End("open", {}))
           /\ pending' = pending \cup {id}
           /\ inbox' = Append(inbox, [id |-> id, method |-> m, era |-> PreviewEra(e)])
           /\ era' = e
           /\ latest' = IF m \notin Consumers THEN latest
                        ELSE {l \in latest : l.consumer # m \/ l.era # PreviewEra(e)}
                             \cup {[consumer |-> m, era |-> PreviewEra(e), id |-> id]}
  /\ UNCHANGED <<known, archive, codec, outbox, count>>

Superseded(job) == job.method \in Consumers /\ ~\E l \in latest : l.id = job.id

(* Mutant of Announced: the answer of a change goes out before its notice. *)
AnsweredFirst(id) == <<Reply(id, "done", {}), Changed(id)>>

Announced(id) == <<Changed(id), Reply(id, "done", {})>>

(* The copy of the archive goes with the job. *)
Handed(id) == [id |-> id, state |-> archive]

Process ==
  /\ inbox # <<>>
  /\ LET job == Head(inbox)
     IN  /\ inbox' = Tail(inbox) /\ latest' = {l \in latest : l.id # job.id}
         /\ \/ /\ Superseded(job) /\ outbox' = Append(outbox, Reply(job.id, "superseded", {}))
               /\ UNCHANGED <<archive, codec, count>>
            \/ /\ ~Superseded(job) /\ job.method \notin {"mutate", "export"}
               /\ outbox' = Append(outbox, Reply(job.id, "state", archive))
               /\ UNCHANGED <<archive, codec, count>>
            \/ /\ job.method = "mutate" /\ archive' = archive \cup {job.id}
               /\ outbox' = outbox \o Announced(job.id) /\ UNCHANGED <<codec, count>>
            \/ /\ job.method = "export" /\ codec' = Append(codec, Handed(job.id))
               /\ UNCHANGED <<archive, outbox, count>>
            \/ /\ Fault /\ ~Superseded(job) /\ outbox' = Append(outbox, Refuse(job.id))
               /\ UNCHANGED <<archive, codec>>
  /\ UNCHANGED <<sent, pending, settled, known, era>>

(* Mutant of Encoded: the codec worker reads the archive when it begins. *)
EncodedLate(job) == Reply(job.id, "state", archive)

Encoded(job) == Reply(job.id, "state", job.state)

(* codec-worker.ts: one job at a time. *)
Encode ==
  /\ codec # <<>>
  /\ codec' = Tail(codec)
  /\ outbox' = Append(outbox, Encoded(Head(codec)))
  /\ UNCHANGED <<sent, pending, settled, known, archive, inbox, era, latest, count>>

Stopped(jobs) == [i \in DOMAIN jobs |-> Refuse(jobs[i].id)]

(* codec.ts stop: every job is refused, the next one finds a new worker. *)
CodecStops ==
  /\ Fault /\ codec # <<>>
  /\ codec' = <<>> /\ outbox' = outbox \o Stopped(codec)
  /\ UNCHANGED <<sent, pending, settled, known, archive, inbox, era, latest>>

Settle(ids, value) == [i \in DOMAIN settled |-> IF i \in ids THEN value ELSE settled[i]]

(* The client's onmessage. *)
Deliver ==
  /\ outbox # <<>> /\ outbox' = Tail(outbox)
  /\ LET m == Head(outbox)
     IN  /\ known' = IF m.id = 0 THEN known \cup m.value.state ELSE known
         /\ pending' = pending \ {m.id}
         /\ settled' = Settle(pending \cap {m.id}, m.value)
  /\ UNCHANGED <<sent, archive, inbox, era, latest, codec, count>>

(* onerror: every promise is refused, and the worker goes with its queue and its codec. *)
WorkerStops ==
  /\ Fault /\ pending # {}
  /\ pending' = {} /\ settled' = Settle(pending, End("error", {}))
  /\ inbox' = <<>> /\ era' = 0 /\ latest' = {} /\ codec' = <<>> /\ outbox' = <<>>
  /\ UNCHANGED <<sent, known, archive>>

(* Another tab stores a change; the channel between the workers brings the notice. *)
OtherTab ==
  /\ count.others < MaxOthers
  /\ count' = [count EXCEPT !.others = @ + 1]
  /\ archive' = archive \cup {Other(count.others + 1)}
  /\ outbox' = Append(outbox, Changed(Other(count.others + 1)))
  /\ UNCHANGED <<sent, pending, settled, known, inbox, era, latest, codec>>

Work == Process \/ Encode \/ Deliver
Next == Send \/ Work \/ CodecStops \/ WorkerStops \/ OtherTab

Spec == Init /\ [][Next]_vars

-----------------------------------------------------------------------------
(* What must hold *)

Calls == 1 .. Len(sent)
Answered(id) == settled[id].how = "state"

(* Whatever waits, stops or is encoded elsewhere: an answer shows the archive with every change that this
   page asked for before the call and with none that it asked for later. *)
AnswersAtTheirPlace ==
  \A id \in Calls : Answered(id) => settled[id].state \cap Calls = {m \in archive : m < id}

(* A preview gives way only to a newer one of its consumer that reads the same archive. *)
OnlyNewerReplaces ==
  \A id \in Calls : settled[id].how = "superseded" =>
    \E j \in Calls : j > id /\ sent[j] = sent[id] /\ \A m \in id .. j : sent[m] # "mutate"

(* The page hears of its own change before the call that made it returns. *)
NoticeFirst == \A id \in Calls : settled[id].how = "done" => id \in known

=============================================================================
