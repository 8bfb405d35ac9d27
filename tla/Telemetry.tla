------------------------------ MODULE Telemetry ------------------------------
(* Optional analytics and local error reports in the tabs of one browser:      *)
(* src/web/src/lib/telemetry/browser.ts, local-diagnostics.ts and feedback.ts. *)
(* The tabs share a cookie and local storage and tell each other of a change.  *)
(* Each tab loads the analytics library when the choice allows it, queues      *)
(* events until it is there, and retires the library on an opt-out; while      *)
(* analytics are off a failure becomes a report that leaves only when the user *)
(* sends it. What an event or a report says is left out, and the browser's     *)
(* privacy signal and the server's configuration allow telemetry throughout.   *)
EXTENDS Naturals, Sequences, FiniteSets

CONSTANTS Tabs,        \* the tabs of the browser
          None,        \* nothing: no number
          MaxChoices,  \* bound: choices the user makes (analytics, prompts)
          MaxEvents,   \* bound: analytics events
          MaxReports,  \* bound: failures that become reports
          MaxFaults    \* bound: failed loads of the library

VARIABLES open,       \* tabs whose telemetry was initialised
          cookie,     \* gfl2_telemetry, shared by the tabs: "none", "0" or "1"
          saved,      \* the choice in local storage
          inbox,      \* [Tabs -> Seq]: changes announced by other tabs
          seen,       \* [Tabs -> cookie]: the value the last poll saw
          permitted,  \* [Tabs -> BOOLEAN]
          epoch,      \* [Tabs -> Nat]: consentEpoch
          loading,    \* [Tabs -> epoch of the task `loading`, or None]
          loads,      \* [Tabs -> SUBSET Nat]: loads under way, by epoch
          client,     \* [Tabs -> epoch of the library in use, or None]
          aborted,    \* [Tabs -> SUBSET Nat]: epochs whose transport was aborted
          queued,     \* [Tabs -> SUBSET Events]: pending, before the library
          handed,     \* [Tabs -> SUBSET (Events \X Nat)]: in a library's own queue
          sent,       \* events that left the browser
          era,        \* [Events -> <<tab, epoch>> at which it was captured]
          diag,       \* [Tabs -> the state of the local diagnostics]
          flights,    \* [Tabs -> SUBSET Reports]: report requests on their way
          given,      \* [Reports -> how often it was handed to the network]
          used        \* acts used up, by kind

consent == <<cookie, saved, inbox, seen, permitted, epoch, loading>>
library == <<loads, client, aborted, queued, handed, sent, era>>
local == <<diag, flights, given>>
vars == <<open, consent, library, local, used>>

Events == 1 .. MaxEvents
Reports == 1 .. MaxReports

(* enabled(): this tab's choice and the shared cookie. *)
Enabled(t, allow, crumb) == allow[t] /\ crumb # "0"
On(t) == Enabled(t, permitted, cookie)

Idle == [available |-> FALSE, muted |-> FALSE, pending |-> None, sending |-> None,
         status |-> "idle"]
(* clear: a new generation, whatever is under way no longer counts. *)
Cleared(d) == [d EXCEPT !.pending = None, !.sending = None, !.status = "idle"]
(* refreshDiagnostics: reports are offered only while analytics are off. *)
Configured(d, on) == LET c == [d EXCEPT !.available = ~on]
                     IN IF on \/ d.muted THEN Cleared(c) ELSE c
Usable(d) == d.available /\ ~d.muted

Init == /\ open = {} /\ cookie = "none" /\ saved = "none" /\ sent = {} /\ era = <<>>
        /\ inbox = [t \in Tabs |-> <<>>] /\ seen = [t \in Tabs |-> "none"]
        /\ permitted = [t \in Tabs |-> TRUE] /\ epoch = [t \in Tabs |-> 0]
        /\ loading = [t \in Tabs |-> None] /\ client = [t \in Tabs |-> None]
        /\ loads = [t \in Tabs |-> {}] /\ aborted = [t \in Tabs |-> {}]
        /\ queued = [t \in Tabs |-> {}] /\ handed = [t \in Tabs |-> {}]
        /\ diag = [t \in Tabs |-> Idle] /\ flights = [t \in Tabs |-> {}]
        /\ given = [r \in Reports |-> 0]
        /\ used = [choices |-> 0, reports |-> 0, faults |-> 0]

-----------------------------------------------------------------------------
(* Turning telemetry on and off.                                               *)

(* Mutant: the library is retired, its transport is left alone. *)
StopWithoutAbort(t) ==
    /\ queued' = [queued EXCEPT ![t] = {}]
    /\ epoch' = [epoch EXCEPT ![t] = @ + 1]
    /\ loading' = [loading EXCEPT ![t] = None]
    /\ client' = [client EXCEPT ![t] = None]
    /\ UNCHANGED <<loads, handed, aborted>>

(* stop: drop the queue, retire the library and abort its transport for good. *)
Stop(t) ==
    /\ queued' = [queued EXCEPT ![t] = {}]
    /\ epoch' = [epoch EXCEPT ![t] = @ + 1]
    /\ loading' = [loading EXCEPT ![t] = None]
    /\ aborted' = [aborted EXCEPT ![t] = @ \cup ({client[t]} \ {None})]
    /\ client' = [client EXCEPT ![t] = None]
    /\ UNCHANGED <<loads, handed>>

(* start: load the library once per epoch. *)
Start(t) ==
    /\ IF client[t] # None \/ loading[t] # None THEN UNCHANGED <<loading, loads>>
       ELSE /\ loading' = [loading EXCEPT ![t] = epoch[t]]
            /\ loads' = [loads EXCEPT ![t] = @ \cup {epoch[t]}]
    /\ UNCHANGED <<queued, epoch, client, aborted, handed>>

(* The tail of init, setEnabled and the storage listener: the tab takes the    *)
(* choice, writes the cookie, tells its diagnostics, and starts or stops.      *)
Choose(t, yes) ==
    LET on == Enabled(t, permitted', cookie')
    IN /\ permitted' = [permitted EXCEPT ![t] = yes]
       /\ cookie' = IF yes THEN "1" ELSE "0"
       /\ diag' = [diag EXCEPT ![t] = Configured(@, on)]
       /\ IF on THEN Start(t) ELSE Stop(t)
       /\ UNCHANGED <<sent, era, flights, given>>

(* init with readPreference: the cookie's refusal, then storage, then yes. *)
Open(t) ==
    /\ t \notin open
    /\ open' = open \cup {t}
    /\ seen' = [seen EXCEPT ![t] = cookie]
    /\ Choose(t, cookie # "0" /\ saved # "0")
    /\ UNCHANGED <<saved, inbox, used>>

Told(t, key, yes) == [u \in Tabs |-> IF u \in open \ {t} THEN Append(inbox[u], <<key, yes>>)
                                     ELSE inbox[u]]

(* setEnabled *)
SetEnabled(t, yes) ==
    /\ t \in open /\ used.choices < MaxChoices
    /\ saved' = IF yes THEN "1" ELSE "0"
    /\ Choose(t, yes)
    /\ inbox' = Told(t, "telemetry", yes)
    /\ used' = [used EXCEPT !.choices = @ + 1]
    /\ UNCHANGED <<open, seen>>

(* The storage listener and the broadcast channel, in the order of the changes. *)
Heard(t) ==
    /\ inbox[t] # <<>>
    /\ inbox' = [inbox EXCEPT ![t] = Tail(@)]
    /\ \/ /\ Head(inbox[t])[1] = "telemetry"
          /\ Choose(t, Head(inbox[t])[2])
          /\ UNCHANGED <<open, saved, seen, used>>
       \/ /\ Head(inbox[t])[1] = "muted"
          /\ diag' = [diag EXCEPT ![t] = Cleared([@ EXCEPT !.muted = Head(inbox[t])[2]])]
          /\ UNCHANGED <<open, cookie, saved, seen, permitted, epoch, loading, library,
                         flights, given, used>>

(* The poll of the cookie. *)
Poll(t) ==
    /\ t \in open /\ cookie # seen[t]
    /\ seen' = [seen EXCEPT ![t] = cookie]
    /\ Choose(t, cookie = "1")
    /\ UNCHANGED <<open, saved, inbox, used>>

(* Mutant: a load that an opt-out overtook still brings its library in. *)
WelcomeAny(t, e) == On(t)
(* loadSdk's continuation: only for this epoch's choice; then the queue. *)
Welcome(t, e) == On(t) /\ e = epoch[t]

Loaded(t) == \E e \in loads[t] :
    /\ loads' = [loads EXCEPT ![t] = @ \ {e}]
    /\ loading' = [loading EXCEPT ![t] = IF @ = e THEN None ELSE @]
    /\ IF ~Welcome(t, e) THEN UNCHANGED <<client, handed, queued>>
       ELSE /\ client' = [client EXCEPT ![t] = e]
            /\ handed' = [handed EXCEPT ![t] = @ \cup (queued[t] \X {e})]
            /\ queued' = [queued EXCEPT ![t] = {}]
    /\ UNCHANGED <<open, cookie, saved, inbox, seen, permitted, epoch, aborted, sent, era,
                   local, used>>

LoadFails(t) == \E e \in loads[t] :
    /\ used.faults < MaxFaults
    /\ loads' = [loads EXCEPT ![t] = @ \ {e}]
    /\ loading' = [loading EXCEPT ![t] = IF @ = e THEN None ELSE @]
    /\ queued' = [queued EXCEPT ![t] = IF e = epoch[t] THEN {} ELSE @]
    /\ used' = [used EXCEPT !.faults = @ + 1]
    /\ UNCHANGED <<open, cookie, saved, inbox, seen, permitted, epoch, client, aborted,
                   handed, sent, era, local>>

-----------------------------------------------------------------------------
(* Events. *)

(* pageview, operation and reportError while analytics are on. *)
Capture(t) == LET n == Len(era) + 1 IN
    /\ t \in open /\ n \in Events /\ On(t)
    /\ era' = Append(era, <<t, epoch[t]>>)
    /\ IF client[t] = None
       THEN queued' = [queued EXCEPT ![t] = @ \cup {n}] /\ UNCHANGED handed
       ELSE handed' = [handed EXCEPT ![t] = @ \cup {<<n, client[t]>>}] /\ UNCHANGED queued
    /\ diag' = [diag EXCEPT ![t] = Configured(@, TRUE)]
    /\ UNCHANGED <<open, consent, loads, client, aborted, sent, flights, given, used>>

(* A library, in use or retired, flushes or retries: the request's signal asks *)
(* for the choice once more, and an aborted transport sends nothing.           *)
Transmit(t) == \E q \in handed[t] :
    IF On(t) /\ q[2] \notin aborted[t]
    THEN /\ sent' = sent \cup {q[1]}
         /\ handed' = [handed EXCEPT ![t] = @ \ {q}]
         /\ UNCHANGED <<open, consent, loads, client, aborted, queued, era, local, used>>
    ELSE /\ q[2] \notin aborted[t]
         /\ aborted' = [aborted EXCEPT ![t] = @ \cup {q[2]}]
         /\ UNCHANGED <<open, consent, loads, client, handed, queued, sent, era, local, used>>

-----------------------------------------------------------------------------
(* Local reports: a diag record holds the report offered (pending) and the one *)
(* whose answer this generation awaits (sending).                              *)

Diagnose(t, d) == /\ diag' = [diag EXCEPT ![t] = d]
                  /\ UNCHANGED <<open, cookie, saved, seen, permitted, epoch, loading, library>>

(* reportError while analytics are off. *)
Report(t) == LET d == Configured(diag[t], FALSE) IN
    /\ t \in open /\ ~On(t) /\ used.reports < MaxReports
    /\ Usable(d) /\ d.pending = None /\ d.sending = None
    /\ Diagnose(t, [d EXCEPT !.pending = used.reports + 1, !.status = "idle"])
    /\ used' = [used EXCEPT !.reports = @ + 1]
    /\ UNCHANGED <<inbox, flights, given>>

Offered(t) == Usable(diag[t]) /\ diag[t].pending # None /\ diag[t].sending = None

(* Mutant: it is consumed by the answer. *)
Kept(d) == [d EXCEPT !.sending = d.pending]
(* sendReport: the report is consumed before the wait. *)
Consumed(d) == [d EXCEPT !.pending = None, !.sending = d.pending]

SendReport(t) == LET r == diag[t].pending IN
    /\ Offered(t)
    /\ Diagnose(t, Consumed(diag[t]))
    /\ flights' = [flights EXCEPT ![t] = @ \cup {r}]
    /\ given' = [given EXCEPT ![r] = @ + 1]
    /\ UNCHANGED <<inbox, used>>

(* Mutant: any answer settles the state. *)
AwaitedAny(t, r) == TRUE
(* Its answer counts only in the generation that sent it. *)
Awaited(t, r) == diag[t].sending = r

Answered(t) == \E r \in flights[t], result \in {"sent", "uncertain"} :
    /\ flights' = [flights EXCEPT ![t] = @ \ {r}]
    /\ Diagnose(t, IF Awaited(t, r) THEN [diag[t] EXCEPT !.sending = None, !.status = result]
                   ELSE diag[t])
    /\ UNCHANGED <<inbox, given, used>>

(* takeForFeedback: the feedback form takes the report with it. *)
Feedback(t) == LET r == diag[t].pending IN
    /\ Offered(t)
    /\ Diagnose(t, Cleared(diag[t]))
    /\ given' = [given EXCEPT ![r] = @ + 1]
    /\ UNCHANGED <<inbox, flights, used>>

(* dismiss, dismiss for good and restorePrompts. *)
Dismiss(t) == /\ diag[t].pending # None
              /\ Diagnose(t, Cleared(diag[t]))
              /\ UNCHANGED <<inbox, flights, given, used>>

Mute(t, yes) ==
    /\ t \in open /\ used.choices < MaxChoices /\ diag[t].muted # yes
    /\ Diagnose(t, Cleared([diag[t] EXCEPT !.muted = yes]))
    /\ inbox' = Told(t, "muted", yes)
    /\ used' = [used EXCEPT !.choices = @ + 1]
    /\ UNCHANGED <<flights, given>>

Next == \E t \in Tabs :
    \/ Open(t) \/ Heard(t) \/ Poll(t) \/ Loaded(t) \/ LoadFails(t) \/ Capture(t)
    \/ Transmit(t) \/ Report(t) \/ SendReport(t) \/ Answered(t) \/ Feedback(t) \/ Dismiss(t)
    \/ \E yes \in BOOLEAN : SetEnabled(t, yes) \/ Mute(t, yes)

Spec == Init /\ [][Next]_vars

-----------------------------------------------------------------------------
(* An event leaves the browser only while its tab's choice and the shared      *)
(* cookie allow it, and only if no opt-out reached its tab since it was        *)
(* captured: what was queued, still loading, retried or flushed by a retired   *)
(* library does not come back with a later opt-in.                             *)
OldConsentSendsNothing ==
    [][\A e \in sent' \ sent : On(era[e][1]) /\ era[e][2] = epoch[era[e][1]]]_vars

(* A tab has one library that may send: a load that an opt-out overtook never  *)
(* adds a second one beside the library of the present choice.                 *)
OneLibrary == \A t \in Tabs : \A q \in handed[t] :
    q[2] \notin aborted[t] => q[2] = client[t]

(* Each report is handed to the network at most once, by the prompt or by the  *)
(* feedback form, and the prompt is busy exactly while the request of its own  *)
(* report is out: a late answer of an earlier one does not free it.            *)
ReportedOnce ==
    /\ \A r \in Reports : given[r] <= 1
    /\ \A t \in Tabs : diag[t].sending # None => diag[t].sending \in flights[t]
                       /\ diag[t].status = "idle" /\ diag[t].pending = None
=============================================================================
