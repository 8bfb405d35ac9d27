----------------------------- MODULE ViewsProofs -----------------------------
(* What MCViews says of the parts of the hosted page holds for every value of  *)
(* its constants.  A part's variables change only in a behaviour about it, so  *)
(* each inductive invariant is about one part.                                 *)
EXTENDS MCViews, SequenceTheorems, TLAPS

-----------------------------------------------------------------------------
(* Calls to the worker.  A call waits in the queue, its answer in the codec's  *)
(* list or in the outbox; what is promised of an answer must hold there.       *)

(* The types of the variables: how a call ends, what waits, is copied and is said. *)
Hows == {"open", "state", "done", "superseded", "error", "changed"}
Ends == [how : Hows, state : SUBSET Nat]
Jobs == [id : Nat, method : Calls!Methods, era : Nat]
Copies == [id : Nat, state : SUBSET Nat]
Messages == [id : Nat, value : Ends]

CallsTyped ==
  /\ calls \in Seq(Calls!Methods) /\ Len(calls) <= MaxCalls
  /\ pending \subseteq 1 .. Len(calls)
  /\ settled \in Seq(Ends) /\ Len(settled) = Len(calls)
  /\ heard \subseteq Nat /\ stored \subseteq Nat \ {0}
  /\ queue \in Seq(Jobs) /\ preview \in Nat
  /\ latest \subseteq [consumer : Consumers, era : Nat, id : Nat]
  /\ codec \in Seq(Copies) /\ outbox \in Seq(Messages)
  /\ callCount \in [others : Nat, faults : Nat]

(* A newer preview of the same consumer, with no change since. *)
Newer(id) ==
  \E j \in 1 .. Len(calls) : j > id /\ calls[j] = calls[id] /\ \A m \in id .. j : calls[m] # "mutate"

(* The worker has gone past the call: what it stores from now on is of later calls. *)
Passed(id) == id \in 1 .. Len(calls) /\ \A i \in DOMAIN queue : id < queue[i].id

(* The copy holds the changes from before the call and none from after it. *)
Exact(id, copy) == \A m \in 1 .. MaxCalls : m \in copy <=> m \in stored /\ m < id

(* What the end of a call promises. *)
TrueEnd(id, end) ==
  /\ end.how = "state" => Passed(id) /\ Exact(id, end.state)
  /\ end.how = "superseded" => id \in 1 .. Len(calls) /\ Newer(id)

(* The queue holds calls in their order, and a preview in it is the newest or was overtaken. *)
QueueInOrder ==
  /\ \A i, j \in DOMAIN queue : i < j => queue[i].id < queue[j].id
  /\ \A i \in DOMAIN queue :
       /\ queue[i].id \in 1 .. Len(calls) /\ queue[i].method = calls[queue[i].id]
       /\ queue[i].method \in Consumers => Newer(queue[i].id) \/ \E l \in latest : l.id = queue[i].id

(* The newest preview of a consumer in the present era has seen no change after it. *)
LatestInEra ==
  \A l \in latest :
    /\ l.id \in 1 .. Len(calls) /\ calls[l.id] = l.consumer /\ l.era <= preview
    /\ l.era = preview => \A m \in l.id .. Len(calls) : calls[m] # "mutate"

StoredIsPassed == \A m \in stored : m \in 1 .. MaxCalls => Passed(m)

(* A change is announced before it is answered. *)
Told(i) == \/ outbox[i].id \in heard
           \/ \E k \in DOMAIN outbox : k < i /\ outbox[k].id = 0 /\ outbox[i].id \in outbox[k].value.state

CopiesExact == \A i \in DOMAIN codec : Passed(codec[i].id) /\ Exact(codec[i].id, codec[i].state)
OutboxTrue ==
  \A i \in DOMAIN outbox : /\ TrueEnd(outbox[i].id, outbox[i].value)
                           /\ outbox[i].value.how = "done" => Told(i)
SettledTrue ==
  \A id \in DOMAIN settled : /\ TrueEnd(id, settled[id])
                             /\ settled[id].how = "done" => id \in heard

CallsInv == /\ CallsTyped /\ QueueInOrder /\ LatestInEra /\ StoredIsPassed
            /\ CopiesExact /\ OutboxTrue /\ SettledTrue

(* What Append makes of a sequence, as the steps below use it. *)
LEMMA AppendIs ==
  ASSUME NEW S, NEW s \in Seq(S), NEW e \in S
  PROVE  /\ Append(s, e) \in Seq(S) /\ Len(Append(s, e)) = Len(s) + 1 /\ Len(s) \in Nat
         /\ DOMAIN Append(s, e) = 1 .. Len(s) + 1 /\ DOMAIN s = 1 .. Len(s)
         /\ \A i \in 1 .. Len(s) : Append(s, e)[i] = s[i]
         /\ Append(s, e)[Len(s) + 1] = e
  BY AppendProperties, LenProperties

(* What Tail leaves of a sequence. *)
LEMMA TailIs ==
  ASSUME NEW S, NEW s \in Seq(S), s # <<>>
  PROVE  /\ Tail(s) \in Seq(S) /\ Len(Tail(s)) = Len(s) - 1 /\ Len(s) \in Nat \ {0}
         /\ DOMAIN Tail(s) = 1 .. Len(s) - 1 /\ DOMAIN s = 1 .. Len(s)
         /\ \A i \in 1 .. Len(s) - 1 : Tail(s)[i] = s[i + 1]
         /\ Head(s) = s[1] /\ Head(s) \in S
  BY HeadTailProperties, LenProperties, EmptySeq

(* What was true of a call stays true when the worker has gone past no fewer *)
(* calls and the changes before each of them are the same.                   *)
LEMMA EndsKeep ==
  ASSUME \A id : Passed(id) => Passed(id)',
         \A id : id \in 1 .. Len(calls) /\ Newer(id) => id \in 1 .. Len(calls') /\ Newer(id)',
         \A id : Passed(id) => \A m \in 1 .. MaxCalls : m < id => (m \in stored' <=> m \in stored)
  PROVE  /\ \A id, c : Passed(id) /\ Exact(id, c) => (Passed(id) /\ Exact(id, c))'
         /\ \A id, e : TrueEnd(id, e) => TrueEnd(id, e)'
<1>1. ASSUME NEW id, NEW c, Passed(id), Exact(id, c)
      PROVE  (Passed(id) /\ Exact(id, c))'
  BY <1>1 DEF Exact
<1>2. ASSUME NEW id, NEW e, TrueEnd(id, e)
      PROVE  TrueEnd(id, e)'
  BY <1>1, <1>2 DEF TrueEnd
<1> QED BY <1>1, <1>2

(* A call that has a newer preview keeps one when calls are added. *)
LEMMA NewerKept ==
  ASSUME CallsTyped, calls' = calls \/ \E m \in Calls!Methods : calls' = Append(calls, m)
  PROVE  \A id : id \in 1 .. Len(calls) /\ Newer(id) => id \in 1 .. Len(calls') /\ Newer(id)'
<1> SUFFICES ASSUME NEW id \in 1 .. Len(calls), Newer(id)
             PROVE  id \in 1 .. Len(calls') /\ Newer(id)'
  OBVIOUS
<1>1. CASE calls' = calls
  BY <1>1 DEF Newer
<1>2. ASSUME NEW m \in Calls!Methods, calls' = Append(calls, m)
      PROVE  id \in 1 .. Len(calls') /\ Newer(id)'
  <2>1. /\ Len(calls') = Len(calls) + 1 /\ Len(calls) \in Nat
        /\ \A i \in 1 .. Len(calls) : calls'[i] = calls[i]
    BY <1>2, AppendIs DEF CallsTyped
  <2>2. PICK j \in 1 .. Len(calls) : j > id /\ calls[j] = calls[id] /\ \A k \in id .. j : calls[k] # "mutate"
    BY DEF Newer
  <2>3. j \in 1 .. Len(calls') /\ calls'[j] = calls'[id] /\ \A k \in id .. j : calls'[k] # "mutate"
    BY <2>1, <2>2
  <2> QED BY <2>1, <2>2, <2>3 DEF Newer
<1> QED BY <1>1, <1>2

(* A page makes a call, which goes to the end of the queue. *)
LEMMA CallsSend == CallsInv /\ Calls!Send => CallsInv'
<1> SUFFICES ASSUME CallsInv, Calls!Send PROVE CallsInv'
  OBVIOUS
<1> USE DEF CallsInv
<1>n. /\ Len(calls) \in Nat /\ preview \in Nat /\ DOMAIN calls = 1 .. Len(calls)
      /\ DOMAIN settled = 1 .. Len(calls) /\ DOMAIN queue = 1 .. Len(queue) /\ Len(queue) \in Nat
  BY LenProperties DEF CallsTyped
<1>0. PICK id \in Nat : id = Len(calls) + 1
  BY <1>n
<1>1. PICK m \in Calls!Methods, e \in Nat :
        /\ e = IF m = "mutate" THEN preview + 1 ELSE preview
        /\ calls' = Append(calls, m) /\ settled' = Append(settled, Calls!End("open", {}))
        /\ pending' = pending \cup {id}
        /\ queue' = Append(queue, [id |-> id, method |-> m, era |-> e])
        /\ preview' = e
        /\ latest' = IF m \notin Consumers THEN latest
                     ELSE {l \in latest : l.consumer # m \/ l.era # e}
                          \cup {[consumer |-> m, era |-> e, id |-> id]}
  <2>1. PICK m \in Calls!Methods :
          LET k == Len(calls) + 1
              e == IF m = "mutate" THEN preview + 1 ELSE preview
          IN  /\ calls' = Append(calls, m) /\ settled' = Append(settled, Calls!End("open", {}))
              /\ pending' = pending \cup {k}
              /\ queue' = Append(queue, [id |-> k, method |-> m, era |-> e])
              /\ preview' = e
              /\ latest' = IF m \notin Consumers THEN latest
                           ELSE {l \in latest : l.consumer # m \/ l.era # e}
                                \cup {[consumer |-> m, era |-> e, id |-> k]}
    BY DEF Calls!Send, Calls!PreviewEra
  <2>2. PICK e \in Nat : e = IF m = "mutate" THEN preview + 1 ELSE preview
    BY <1>n
  <2> QED BY <1>0, <2>1, <2>2
<1>2. Len(calls) < MaxCalls /\ UNCHANGED <<heard, stored, codec, outbox, callCount>>
  BY DEF Calls!Send
<1>3. MaxCalls \in Nat
  BY BoundsAssumption
<1>4. /\ calls' \in Seq(Calls!Methods) /\ Len(calls') = Len(calls) + 1
      /\ \A i \in 1 .. Len(calls) : calls'[i] = calls[i]
      /\ calls'[Len(calls) + 1] = m
  BY <1>1, AppendIs DEF CallsTyped
<1>5. /\ settled' \in Seq(Ends) /\ Len(settled') = Len(calls) + 1
      /\ DOMAIN settled' = 1 .. Len(calls) + 1
      /\ \A i \in 1 .. Len(calls) : settled'[i] = settled[i]
      /\ settled'[Len(calls) + 1].how = "open"
  <2>1. Calls!End("open", {}) \in Ends /\ Calls!End("open", {}).how = "open"
    <3>1. Calls!End("open", {}) = [how |-> "open", state |-> {}]
      BY DEF Calls!End
    <3>2. {} \in SUBSET Nat /\ "open" \in Hows
      BY DEF Hows
    <3>3. [how |-> "open", state |-> {}] \in Ends
      BY <3>2 DEF Ends
    <3> QED BY <3>1, <3>3
  <2>2. settled \in Seq(Ends) /\ Len(settled) = Len(calls)
    BY DEF CallsTyped
  <2> HIDE DEF CallsInv
  <2> QED BY <1>1, <2>1, <2>2, AppendIs
<1>6. PICK job \in Jobs : job.id = id /\ job.method = m /\ queue' = Append(queue, job)
  <2>1. [id |-> id, method |-> m, era |-> e] \in Jobs
    BY DEF Jobs
  <2> QED BY <1>1, <2>1
<1>7. /\ queue' \in Seq(Jobs) /\ DOMAIN queue' = 1 .. Len(queue) + 1
      /\ \A i \in 1 .. Len(queue) : queue'[i] = queue[i]
      /\ queue'[Len(queue) + 1] = job
  BY <1>6, AppendIs DEF CallsTyped
<1>8. preview' = e /\ preview' \in Nat /\ preview' = IF m = "mutate" THEN preview + 1 ELSE preview
  BY <1>1, <1>n
<1>9. latest' \subseteq [consumer : Consumers, era : Nat, id : Nat]
  BY <1>1, <1>8, <1>n DEF CallsTyped
<1>10. CallsTyped'
  <2>1. pending' \subseteq 1 .. Len(calls')
    <3>1. \A p \in pending : p \in 1 .. Len(calls)
      BY DEF CallsTyped
    <3>2. \A p \in pending' : p \in pending \/ p = Len(calls) + 1
      BY <1>0, <1>1
    <3> QED BY <3>1, <3>2, <1>4, <1>n
  <2>2. Len(calls') <= MaxCalls
    BY <1>2, <1>3, <1>4, <1>n
  <2>3. /\ heard' \subseteq Nat /\ stored' \subseteq Nat \ {0} /\ codec' \in Seq(Copies)
        /\ outbox' \in Seq(Messages) /\ callCount' \in [others : Nat, faults : Nat]
    BY <1>2 DEF CallsTyped
  <2> QED BY <1>4, <1>5, <1>7, <1>8, <1>9, <2>1, <2>2, <2>3 DEF CallsTyped
<1>11. \A c : c \in 1 .. Len(calls) /\ Newer(c) => c \in 1 .. Len(calls') /\ Newer(c)'
  BY <1>1, NewerKept
<1>12. \A c : Passed(c) => Passed(c)'
  BY <1>0, <1>4, <1>6, <1>7, <1>n DEF Passed
<1>13. /\ \A c, x : Passed(c) /\ Exact(c, x) => (Passed(c) /\ Exact(c, x))'
       /\ \A c, x : TrueEnd(c, x) => TrueEnd(c, x)'
  <2> HIDE DEF CallsInv
  <2> QED BY <1>2, <1>11, <1>12, EndsKeep
<1>14. QueueInOrder'
  <2>1. ASSUME NEW i \in DOMAIN queue', NEW j \in DOMAIN queue', i < j
        PROVE  queue'[i].id < queue'[j].id
    BY <1>0, <1>6, <1>7, <1>n, <2>1 DEF QueueInOrder
  <2>2. ASSUME NEW i \in DOMAIN queue'
        PROVE  /\ queue'[i].id \in 1 .. Len(calls') /\ queue'[i].method = calls'[queue'[i].id]
               /\ queue'[i].method \in Consumers =>
                    Newer(queue[i].id)' \/ \E l \in latest' : l.id = queue'[i].id
    <3>1. CASE i \in 1 .. Len(queue)
      <4>1. PICK q \in Jobs : q = queue[i]
        BY <3>1, ElementOfSeq DEF CallsTyped
      <4>2. /\ queue'[i] = q /\ q.id \in 1 .. Len(calls) /\ q.method = calls[q.id]
            /\ q.method \in Consumers => Newer(q.id) \/ \E l \in latest : l.id = q.id
        BY <3>1, <4>1, <1>7, <1>n DEF QueueInOrder
      <4>3. q.id \in 1 .. Len(calls') /\ q.method = calls'[q.id]
        BY <4>2, <1>4, <1>n
      <4>4. ASSUME q.method \in Consumers
            PROVE  Newer(q.id)' \/ \E l \in latest' : l.id = q.id
        <5>1. CASE Newer(q.id)
          BY <5>1, <4>2, <1>11
        <5>2. ASSUME NEW l \in latest, l.id = q.id, l \notin latest'
              PROVE  Newer(q.id)'
          <6>1. m \in Consumers /\ l.consumer = m /\ l.era = e /\ m # "mutate"
            BY <5>2, <1>1, ConsumersAssumption
          <6>2. l.era = preview
            BY <6>1, <1>1
          <6>3. calls[l.id] = m /\ \A k \in l.id .. Len(calls) : calls[k] # "mutate"
            BY <6>1, <6>2 DEF LatestInEra
          <6>4. /\ calls'[q.id] = m /\ calls'[id] = m
                /\ \A k \in q.id .. id : calls'[k] # "mutate"
            <7>1. calls'[q.id] = m /\ calls'[id] = m
              BY <6>3, <5>2, <4>2, <1>4, <1>0
            <7>2. ASSUME NEW k \in q.id .. id PROVE calls'[k] # "mutate"
              <8>1. (k \in l.id .. Len(calls) /\ k \in 1 .. Len(calls)) \/ k = id
                BY <5>2, <4>2, <1>0, <1>n
              <8> QED BY <8>1, <7>1, <6>1, <6>3, <1>4
            <7> QED BY <7>1, <7>2
          <6>5. id \in 1 .. Len(calls') /\ id > q.id
            BY <1>4, <1>n, <4>2, <1>0
          <6> QED BY <6>4, <6>5 DEF Newer
        <5> QED BY <4>2, <4>4, <5>1, <5>2
      <4> QED BY <4>2, <4>3, <4>4
    <3>2. CASE i = Len(queue) + 1
      <4>1. queue'[i] = job /\ id \in 1 .. Len(calls') /\ calls'[id] = m
        BY <3>2, <1>7, <1>4, <1>n, <1>0
      <4>2. m \in Consumers => \E l \in latest' : l.id = id
        <5>1. ASSUME m \in Consumers PROVE [consumer |-> m, era |-> e, id |-> id] \in latest'
          BY <5>1, <1>1
        <5> QED BY <5>1
      <4> QED BY <4>1, <4>2, <1>6
    <3> QED BY <3>1, <3>2, <1>7, <1>n
  <2> QED BY <2>1, <2>2 DEF QueueInOrder
<1>15. LatestInEra'
  <2> SUFFICES ASSUME NEW l \in latest'
               PROVE  /\ l.id \in 1 .. Len(calls') /\ calls'[l.id] = l.consumer /\ l.era <= preview'
                      /\ l.era = preview' => \A k \in l.id .. Len(calls') : calls'[k] # "mutate"
    BY DEF LatestInEra
  <2>1. CASE l \in latest
    <3>1. /\ l.id \in 1 .. Len(calls) /\ calls[l.id] = l.consumer /\ l.era <= preview /\ l.era \in Nat
          /\ l.era = preview => \A k \in l.id .. Len(calls) : calls[k] # "mutate"
      BY <2>1 DEF LatestInEra, CallsTyped
    <3>2. l.id \in 1 .. Len(calls') /\ calls'[l.id] = l.consumer /\ l.era <= preview'
      BY <3>1, <1>4, <1>8, <1>n
    <3>3. l.era = preview' => l.era = preview /\ m # "mutate"
      BY <3>1, <1>8, <1>n
    <3>4. l.era = preview' => \A k \in l.id .. Len(calls') : calls'[k] # "mutate"
      BY <3>1, <3>3, <1>4, <1>n
    <3> QED BY <3>2, <3>4
  <2>2. CASE l \notin latest
    <3>1. /\ m \in Consumers /\ l.consumer = m /\ l.era = preview' /\ l.id = id /\ m # "mutate"
      BY <2>2, <1>1, ConsumersAssumption
    <3> QED BY <3>1, <1>4, <1>8, <1>n, <1>0
  <2> QED BY <2>1, <2>2
<1>16. StoredIsPassed'
  BY <1>2, <1>12 DEF StoredIsPassed
<1>17. CopiesExact'
  BY <1>2, <1>13 DEF CopiesExact
<1>18. OutboxTrue'
  BY <1>2, <1>13 DEF OutboxTrue, Told
<1>19. SettledTrue'
  <2>1. ASSUME NEW c \in 1 .. Len(calls)
        PROVE  TrueEnd(c, settled[c])' /\ (settled'[c].how = "done" => c \in heard')
    BY <1>2, <1>5, <1>13, <1>n DEF SettledTrue
  <2>2. TrueEnd(id, settled[id])' /\ settled'[id].how # "done"
    BY <1>0, <1>5 DEF TrueEnd
  <2> QED BY <1>0, <2>1, <2>2, <1>5, <1>n DEF SettledTrue
<1> QED BY <1>10, <1>14, <1>15, <1>16, <1>17, <1>18, <1>19

(* New messages go behind the others; a change is announced within them. *)
LEMMA OutboxGrows ==
  ASSUME CallsTyped, OutboxTrue, NEW CONSTANT new \in Seq(Messages), outbox' = outbox \o new,
         heard \subseteq heard',
         \A id, e : TrueEnd(id, e) => TrueEnd(id, e)',
         \A i \in 1 .. Len(new) : TrueEnd(new[i].id, new[i].value)',
         \A i \in 1 .. Len(new) : new[i].value.how = "done" =>
            \E k \in 1 .. Len(new) : k < i /\ new[k].id = 0 /\ new[i].id \in new[k].value.state
  PROVE  outbox' \in Seq(Messages) /\ OutboxTrue'
<1>1. outbox \in Seq(Messages)
  BY DEF CallsTyped
<1>2. /\ outbox' \in Seq(Messages) /\ Len(outbox') = Len(outbox) + Len(new)
      /\ \A i \in 1 .. Len(outbox) + Len(new) :
           outbox'[i] = IF i <= Len(outbox) THEN outbox[i] ELSE new[i - Len(outbox)]
  BY <1>1, ConcatProperties
<1>3. /\ Len(outbox) \in Nat /\ Len(new) \in Nat /\ DOMAIN outbox = 1 .. Len(outbox)
      /\ DOMAIN outbox' = 1 .. Len(outbox) + Len(new)
  BY <1>1, <1>2, LenProperties
<1>4. SUFFICES ASSUME NEW i \in 1 .. Len(outbox) + Len(new)
               PROVE  /\ TrueEnd(outbox[i].id, outbox[i].value)'
                      /\ outbox'[i].value.how = "done" => Told(i)'
  BY <1>2, <1>3 DEF OutboxTrue
<1>5. PICK m \in Messages : m = outbox'[i]
  BY <1>2, <1>3, ElementOfSeq
<1>6. CASE i <= Len(outbox)
  <2>1. m = outbox[i] /\ i \in 1 .. Len(outbox)
    BY <1>2, <1>3, <1>5, <1>6
  <2>2. TrueEnd(m.id, m.value) /\ (m.value.how = "done" => Told(i))
    BY <2>1, <1>3 DEF OutboxTrue
  <2>3. ASSUME Told(i) PROVE Told(i)'
    <3>1. CASE outbox[i].id \in heard
      BY <3>1, <2>1, <1>5 DEF Told
    <3>2. CASE \E k \in DOMAIN outbox : k < i /\ outbox[k].id = 0 /\ outbox[i].id \in outbox[k].value.state
      <4>1. PICK k \in 1 .. Len(outbox) : k < i /\ outbox[k].id = 0 /\ m.id \in outbox[k].value.state
        BY <3>2, <2>1, <1>3
      <4>2. k \in 1 .. Len(outbox) + Len(new) /\ outbox'[k] = outbox[k]
        BY <1>2, <1>3
      <4> QED BY <4>1, <4>2, <1>3, <1>5 DEF Told
    <3> QED BY <2>3, <3>1, <3>2 DEF Told
  <2>4. TrueEnd(m.id, m.value)'
    BY <2>2
  <2> QED BY <2>2, <2>3, <2>4, <1>5
<1>7. CASE i > Len(outbox)
  <2>1. PICK j \in 1 .. Len(new) : i = Len(outbox) + j /\ m = new[j]
    <3>1. i - Len(outbox) \in 1 .. Len(new) /\ m = new[i - Len(outbox)]
      BY <1>2, <1>3, <1>5, <1>7
    <3> QED BY <3>1, <1>3
  <2>2. TrueEnd(m.id, m.value)'
    BY <2>1
  <2>3. ASSUME m.value.how = "done" PROVE Told(i)'
    <3>1. PICK k \in 1 .. Len(new) : k < j /\ new[k].id = 0 /\ m.id \in new[k].value.state
      BY <2>1, <2>3
    <3>2. PICK n \in 1 .. Len(outbox) + Len(new) : n = Len(outbox) + k
      BY <1>3
    <3>3. n < i /\ outbox'[n] = new[k]
      BY <3>1, <3>2, <2>1, <1>2, <1>3
    <3> QED BY <3>1, <3>3, <1>3, <1>5 DEF Told
  <2> QED BY <2>2, <2>3, <1>5
<1> QED BY <1>3, <1>6, <1>7

(* One message that is true goes behind the others. *)
LEMMA OutboxTakes ==
  ASSUME CallsTyped, OutboxTrue, NEW CONSTANT new \in Messages, outbox' = Append(outbox, new),
         heard \subseteq heard',
         \A id, e : TrueEnd(id, e) => TrueEnd(id, e)',
         TrueEnd(new.id, new.value)', new.value.how # "done"
  PROVE  outbox' \in Seq(Messages) /\ OutboxTrue'
<1>1. PICK news \in Seq(Messages) : news = <<new>>
  <2>1. <<new>> \in Seq(Messages)
    OBVIOUS
  <2> QED BY <2>1
<1>2. Len(news) = 1 /\ news[1] = new
  BY <1>1
<1>3. outbox' = outbox \o news
  BY <1>1, AppendIsConcat DEF CallsTyped
<1>4. \A i \in 1 .. Len(news) : news[i] = new
  BY <1>2
<1> QED BY <1>2, <1>3, <1>4, OutboxGrows

(* An answer of the worker is a message. *)
LEMMA MessageIs ==
  ASSUME NEW id \in Nat, NEW how \in Hows, NEW copy \in SUBSET Nat
  PROVE  /\ Calls!Reply(id, how, copy) \in Messages /\ Calls!Reply(id, how, copy).id = id
         /\ Calls!Reply(id, how, copy).value.how = how /\ Calls!Reply(id, how, copy).value.state = copy
         /\ Calls!End(how, copy) \in Ends
  BY DEF Calls!Reply, Calls!End, Messages, Ends

(* The worker takes the first call of its queue: it has gone past that call. *)
LEMMA CallsTaken ==
  ASSUME CallsInv, queue # <<>>, queue' = Tail(queue),
         latest' = {l \in latest : l.id # Head(queue).id},
         UNCHANGED <<calls, pending, settled, heard, preview>>
  PROVE  \E job \in Jobs :
           /\ job = Head(queue) /\ job.id \in 1 .. Len(calls) /\ job.id <= MaxCalls
           /\ job.method = calls[job.id] /\ Passed(job.id)' /\ ~Passed(job.id)
           /\ job.method \in Consumers => Newer(job.id) \/ \E l \in latest : l.id = job.id
           /\ \A m \in stored : m \in 1 .. MaxCalls => m < job.id
           /\ \A c : Passed(c) => Passed(c)' /\ c < job.id
           /\ \A c : c \in 1 .. Len(calls) /\ Newer(c) => c \in 1 .. Len(calls') /\ Newer(c)'
           /\ queue' \in Seq(Jobs) /\ QueueInOrder' /\ LatestInEra'
           /\ latest' \subseteq latest
<1> USE DEF CallsInv
<1>1. /\ queue' \in Seq(Jobs) /\ Len(queue') = Len(queue) - 1 /\ Len(queue) \in Nat \ {0}
      /\ DOMAIN queue' = 1 .. Len(queue) - 1 /\ DOMAIN queue = 1 .. Len(queue)
      /\ \A i \in 1 .. Len(queue) - 1 : queue'[i] = queue[i + 1]
      /\ Head(queue) = queue[1] /\ Head(queue) \in Jobs
  BY TailIs DEF CallsTyped
<1>2. PICK job \in Jobs : job = queue[1] /\ job = Head(queue)
  BY <1>1
<1>3. /\ job.id \in 1 .. Len(calls) /\ job.method = calls[job.id]
      /\ job.method \in Consumers => Newer(job.id) \/ \E l \in latest : l.id = job.id
  <2>1. 1 \in DOMAIN queue
    BY <1>1
  <2> QED BY <1>2, <2>1 DEF QueueInOrder
<1>4. Len(calls) \in Nat /\ Len(calls) <= MaxCalls /\ MaxCalls \in Nat
  BY LenProperties, BoundsAssumption DEF CallsTyped
<1>5. \A i \in 1 .. Len(queue) - 1 : job.id < queue'[i].id
  <2> TAKE i \in 1 .. Len(queue) - 1
  <2>1. 1 \in DOMAIN queue /\ i + 1 \in DOMAIN queue /\ 1 < i + 1
    BY <1>1
  <2>2. queue[1].id < queue[i + 1].id
    BY <2>1 DEF QueueInOrder
  <2> QED BY <2>2, <1>1, <1>2
<1>6. Passed(job.id)'
  BY <1>1, <1>3, <1>5 DEF Passed
<1>7. ~Passed(job.id)
  <2>1. 1 \in DOMAIN queue /\ queue[1].id = job.id /\ ~(job.id < job.id)
    BY <1>1, <1>2 DEF Jobs
  <2> QED BY <2>1 DEF Passed
<1>8. ASSUME NEW c, Passed(c) PROVE Passed(c)' /\ c < job.id
  BY <1>1, <1>2, <1>8 DEF Passed
<1>9. \A m \in stored : m \in 1 .. MaxCalls => m < job.id
  BY <1>8 DEF StoredIsPassed
<1>10. \A c : c \in 1 .. Len(calls) /\ Newer(c) => c \in 1 .. Len(calls') /\ Newer(c)'
  BY NewerKept
<1>11. QueueInOrder'
  <2>1. ASSUME NEW i \in DOMAIN queue', NEW j \in DOMAIN queue', i < j
        PROVE  queue'[i].id < queue'[j].id
    <3>1. i + 1 \in DOMAIN queue /\ j + 1 \in DOMAIN queue /\ i + 1 < j + 1
      BY <1>1, <2>1
    <3>2. queue[i + 1].id < queue[j + 1].id
      BY <3>1 DEF QueueInOrder
    <3> QED BY <3>2, <1>1
  <2>2. ASSUME NEW i \in DOMAIN queue'
        PROVE  /\ queue'[i].id \in 1 .. Len(calls') /\ queue'[i].method = calls'[queue'[i].id]
               /\ queue'[i].method \in Consumers =>
                    Newer(queue[i].id)' \/ \E l \in latest' : l.id = queue'[i].id
    <3>1. PICK q \in Jobs : q = queue'[i] /\ q = queue[i + 1] /\ i + 1 \in DOMAIN queue
      BY <1>1, ElementOfSeq
    <3>2. /\ q.id \in 1 .. Len(calls) /\ q.method = calls[q.id]
          /\ q.method \in Consumers => Newer(q.id) \/ \E l \in latest : l.id = q.id
      BY <3>1 DEF QueueInOrder
    <3>3. q.id # Head(queue).id
      BY <1>1, <1>2, <1>5, <3>1 DEF Jobs
    <3>4. q.method \in Consumers => Newer(q.id)' \/ \E l \in latest' : l.id = q.id
      BY <3>2, <3>3, <1>10
    <3> QED BY <3>1, <3>2, <3>4
  <2> QED BY <2>1, <2>2 DEF QueueInOrder
<1>12. LatestInEra' /\ latest' \subseteq latest
  BY DEF LatestInEra
<1> QED BY <1>1, <1>2, <1>3, <1>4, <1>6, <1>7, <1>8, <1>9, <1>10, <1>11, <1>12

(* The worker handles the first call of its queue, whatever it is and however it ends. *)
LEMMA CallsProcess == CallsInv /\ Calls!Process => CallsInv'
<1> SUFFICES ASSUME CallsInv, Calls!Process PROVE CallsInv'
  OBVIOUS
<1>1. /\ queue # <<>> /\ queue' = Tail(queue) /\ latest' = {l \in latest : l.id # Head(queue).id}
      /\ UNCHANGED <<calls, pending, settled, heard, preview>>
  BY DEF Calls!Process
<1>2. PICK job \in Jobs :
           /\ job = Head(queue) /\ job.id \in 1 .. Len(calls) /\ job.id <= MaxCalls
           /\ job.method = calls[job.id] /\ Passed(job.id)' /\ ~Passed(job.id)
           /\ job.method \in Consumers => Newer(job.id) \/ \E l \in latest : l.id = job.id
           /\ \A m \in stored : m \in 1 .. MaxCalls => m < job.id
           /\ \A c : Passed(c) => Passed(c)' /\ c < job.id
           /\ \A c : c \in 1 .. Len(calls) /\ Newer(c) => c \in 1 .. Len(calls') /\ Newer(c)'
           /\ queue' \in Seq(Jobs) /\ QueueInOrder' /\ LatestInEra'
           /\ latest' \subseteq latest
  BY <1>1, CallsTaken
<1>3. job.id \in Nat /\ job.id \in 1 .. Len(calls)'
  BY <1>1, <1>2 DEF Jobs
<1>4. stored' = stored \/ stored' = stored \cup {job.id}
  BY <1>2 DEF Calls!Process
<1>5. stored' \subseteq Nat \ {0} /\ stored \in SUBSET Nat
  <2>1. stored \subseteq Nat \ {0} /\ job.id \in Nat \ {0}
    BY <1>2, <1>3 DEF CallsInv, CallsTyped
  <2> QED BY <1>4, <2>1
<1>6. /\ \A c, x : Passed(c) /\ Exact(c, x) => (Passed(c) /\ Exact(c, x))'
      /\ \A c, x : TrueEnd(c, x) => TrueEnd(c, x)'
  <2>1. \A c : Passed(c) => \A m \in 1 .. MaxCalls : m < c => (m \in stored' <=> m \in stored)
    <3> SUFFICES ASSUME NEW c, Passed(c), NEW m \in 1 .. MaxCalls, m < c
                 PROVE  m # job.id
      BY <1>4
    <3>1. c < job.id /\ c \in Nat
      BY <1>2 DEF Passed
    <3> QED BY <3>1, <1>3, BoundsAssumption
  <2> QED BY <1>2, <2>1, EndsKeep
<1>7. StoredIsPassed'
  BY <1>2, <1>4 DEF StoredIsPassed, CallsInv
<1>8. SettledTrue'
  BY <1>1, <1>6 DEF SettledTrue, CallsInv
<1>9. ASSUME NEW how \in Hows, NEW copy \in SUBSET Nat, stored' = stored, how # "done",
             outbox' = Append(outbox, Calls!Reply(job.id, how, copy)),
             how = "superseded" => Calls!Superseded(job), how = "state" => copy = stored
      PROVE  outbox' \in Seq(Messages) /\ OutboxTrue'
  <2>1. PICK new \in Messages : /\ new = Calls!Reply(job.id, how, copy) /\ new.id = job.id
                                /\ new.value.how = how /\ new.value.state = copy
    <3>1. /\ Calls!Reply(job.id, how, copy) \in Messages /\ Calls!Reply(job.id, how, copy).id = job.id
          /\ Calls!Reply(job.id, how, copy).value.how = how
          /\ Calls!Reply(job.id, how, copy).value.state = copy
      BY <1>3, MessageIs
    <3> QED BY <3>1
  <2>2. how = "state" => (Passed(job.id) /\ Exact(job.id, copy))'
    BY <1>2, <1>9 DEF Exact
  <2>3. how = "superseded" => job.id \in 1 .. Len(calls)' /\ Newer(job.id)'
    BY <1>2, <1>9 DEF Calls!Superseded
  <2>4. TrueEnd(new.id, new.value)'
    BY <2>1, <2>2, <2>3 DEF TrueEnd
  <2> QED BY <1>1, <1>6, <1>9, <2>1, <2>4, OutboxTakes DEF CallsInv
<1>10. ASSUME stored' = stored \cup {job.id}, outbox' = outbox \o Calls!Announced(job.id)
       PROVE  outbox' \in Seq(Messages) /\ OutboxTrue'
  <2>1. PICK told \in Messages : /\ told = Calls!Changed(job.id) /\ told.id = 0
                                 /\ told.value.how = "changed" /\ told.value.state = {job.id}
    <3>1. Calls!Changed(job.id) = Calls!Reply(0, "changed", {job.id})
      BY DEF Calls!Changed
    <3> QED BY <3>1, <1>3, MessageIs DEF Hows
  <2>2. PICK done \in Messages : /\ done = Calls!Reply(job.id, "done", {}) /\ done.id = job.id
                                 /\ done.value.how = "done"
    BY <1>3, MessageIs DEF Hows
  <2>3. PICK new \in Seq(Messages) : new = <<told, done>> /\ new = Calls!Announced(job.id)
    <3>1. <<told, done>> \in Seq(Messages)
      OBVIOUS
    <3> QED BY <2>1, <2>2, <3>1 DEF Calls!Announced
  <2>4. Len(new) = 2 /\ new[1] = told /\ new[2] = done
    BY <2>3
  <2>5. \A i \in 1 .. Len(new) : TrueEnd(new[i].id, new[i].value)'
    BY <2>1, <2>2, <2>4 DEF TrueEnd
  <2>6. \A i \in 1 .. Len(new) : new[i].value.how = "done" =>
            \E k \in 1 .. Len(new) : k < i /\ new[k].id = 0 /\ new[i].id \in new[k].value.state
    BY <2>1, <2>2, <2>4
  <2>7. heard \subseteq heard' /\ outbox' = outbox \o new
    BY <1>1, <1>10, <2>3
  <2>8. CallsTyped /\ OutboxTrue
    BY DEF CallsInv
  <2> QED BY <1>6, <2>5, <2>6, <2>7, <2>8, OutboxGrows
<1>11. callCount' \in [others : Nat, faults : Nat]
  BY <1>1 DEF Calls!Process, Calls!Fault, CallsInv, CallsTyped
<1>12. SUFFICES ASSUME TRUE
                PROVE  /\ codec' \in Seq(Copies) /\ outbox' \in Seq(Messages)
                       /\ CopiesExact' /\ OutboxTrue'
  BY <1>1, <1>2, <1>5, <1>7, <1>8, <1>11 DEF CallsInv, CallsTyped
<1>13. ASSUME UNCHANGED codec PROVE codec' \in Seq(Copies) /\ CopiesExact'
  BY <1>6, <1>13 DEF CallsInv, CopiesExact, CallsTyped
<1>14. CASE /\ Calls!Superseded(job) /\ outbox' = Append(outbox, Calls!Reply(job.id, "superseded", {}))
            /\ UNCHANGED <<stored, codec, callCount>>
  <2>1. {} \in SUBSET Nat /\ "superseded" \in Hows
    BY DEF Hows
  <2> QED BY <1>9, <1>13, <1>14, <2>1
<1>15. CASE /\ outbox' = Append(outbox, Calls!Reply(job.id, "state", stored))
            /\ UNCHANGED <<stored, codec, callCount>>
  <2>1. stored \in SUBSET Nat /\ "state" \in Hows
    BY <1>5 DEF Hows
  <2> QED BY <1>9, <1>13, <1>15, <2>1
<1>16. CASE /\ stored' = stored \cup {job.id} /\ outbox' = outbox \o Calls!Announced(job.id)
            /\ UNCHANGED <<codec, callCount>>
  BY <1>10, <1>13, <1>16
<1>17. CASE /\ codec' = Append(codec, Calls!Handed(job.id)) /\ UNCHANGED <<stored, outbox, callCount>>
  <2>1. PICK copy \in Copies : copy = Calls!Handed(job.id) /\ copy.id = job.id /\ copy.state = stored
    <3>1. Calls!Handed(job.id) = [id |-> job.id, state |-> stored]
      BY DEF Calls!Handed
    <3>2. [id |-> job.id, state |-> stored] \in Copies
      BY <1>3, <1>5 DEF Copies
    <3> QED BY <3>1, <3>2
  <2>2. /\ codec' \in Seq(Copies) /\ DOMAIN codec' = 1 .. Len(codec) + 1 /\ DOMAIN codec = 1 .. Len(codec)
        /\ \A i \in 1 .. Len(codec) : codec'[i] = codec[i]
        /\ codec'[Len(codec) + 1] = copy /\ Len(codec) \in Nat
    BY <1>17, <2>1, AppendIs DEF CallsInv, CallsTyped
  <2>3. (Passed(copy.id) /\ Exact(copy.id, copy.state))'
    BY <1>2, <1>17, <2>1 DEF Exact
  <2>4. ASSUME NEW i \in 1 .. Len(codec)
        PROVE  (Passed(codec[i].id) /\ Exact(codec[i].id, codec[i].state))'
    <3>1. PICK c \in Copies : c = codec[i] /\ c = codec'[i] /\ Passed(c.id) /\ Exact(c.id, c.state)
      BY <2>2, ElementOfSeq DEF CallsInv, CopiesExact, CallsTyped
    <3> QED BY <3>1, <1>6
  <2>5. CopiesExact'
    BY <2>2, <2>3, <2>4 DEF CopiesExact
  <2>6. outbox' \in Seq(Messages) /\ OutboxTrue'
    BY <1>6, <1>1, <1>17 DEF CallsInv, CallsTyped, OutboxTrue, Told
  <2> QED BY <2>2, <2>5, <2>6
<1>18. CASE /\ outbox' = Append(outbox, Calls!Refuse(job.id)) /\ UNCHANGED <<stored, codec>>
  <2>1. {} \in SUBSET Nat /\ "error" \in Hows /\ Calls!Refuse(job.id) = Calls!Reply(job.id, "error", {})
    BY DEF Hows, Calls!Refuse
  <2> QED BY <1>9, <1>13, <1>18, <2>1
<1> QED BY <1>2, <1>14, <1>15, <1>16, <1>17, <1>18 DEF Calls!Process

(* A step that leaves the calls, the queue and the archive alone. *)
LEMMA CallsRest ==
  ASSUME CallsInv, UNCHANGED <<calls, stored, queue, preview, latest>>
  PROVE  /\ QueueInOrder' /\ LatestInEra' /\ StoredIsPassed'
         /\ \A c, x : Passed(c) /\ Exact(c, x) => (Passed(c) /\ Exact(c, x))'
         /\ \A c, x : TrueEnd(c, x) => TrueEnd(c, x)'
<1>1. \A c : Newer(c) => Newer(c)'
  BY DEF Newer
<1>2. \A c : Passed(c) => Passed(c)'
  BY DEF Passed
<1>3. /\ \A c, x : Passed(c) /\ Exact(c, x) => (Passed(c) /\ Exact(c, x))'
      /\ \A c, x : TrueEnd(c, x) => TrueEnd(c, x)'
  BY <1>1, <1>2, EndsKeep
<1>4. QueueInOrder'
  BY DEF CallsInv, QueueInOrder, Newer
<1>5. LatestInEra' /\ StoredIsPassed'
  BY <1>2 DEF CallsInv, LatestInEra, StoredIsPassed
<1> QED BY <1>3, <1>4, <1>5

(* The codec's answer to an export is of the copy it was given. *)
LEMMA CallsEncode == CallsInv /\ Calls!Encode => CallsInv'
<1> SUFFICES ASSUME CallsInv, Calls!Encode PROVE CallsInv'
  OBVIOUS
<1>1. /\ codec # <<>> /\ codec' = Tail(codec) /\ outbox' = Append(outbox, Calls!Encoded(Head(codec)))
      /\ UNCHANGED <<calls, pending, settled, heard, stored, queue, preview, latest, callCount>>
  BY DEF Calls!Encode
<1>2. /\ QueueInOrder' /\ LatestInEra' /\ StoredIsPassed'
      /\ \A c, x : Passed(c) /\ Exact(c, x) => (Passed(c) /\ Exact(c, x))'
      /\ \A c, x : TrueEnd(c, x) => TrueEnd(c, x)'
  BY <1>1, CallsRest
<1>3. codec \in Seq(Copies)
  BY DEF CallsInv, CallsTyped
<1>4. /\ codec' \in Seq(Copies) /\ DOMAIN codec' = 1 .. Len(codec) - 1 /\ Len(codec) \in Nat \ {0}
      /\ DOMAIN codec = 1 .. Len(codec)
      /\ \A i \in 1 .. Len(codec) - 1 : codec'[i] = codec[i + 1]
      /\ Head(codec) = codec[1] /\ Head(codec) \in Copies
  BY <1>1, <1>3, TailIs
<1>5. CopiesExact'
  <2> SUFFICES ASSUME NEW i \in 1 .. Len(codec) - 1
               PROVE  (Passed(codec[i].id) /\ Exact(codec[i].id, codec[i].state))'
    BY <1>4 DEF CopiesExact
  <2>1. PICK c \in Copies : c = codec[i + 1] /\ c = codec'[i] /\ Passed(c.id) /\ Exact(c.id, c.state)
    <3>1. i + 1 \in DOMAIN codec /\ i + 1 \in 1 .. Len(codec) /\ codec'[i] = codec[i + 1]
      BY <1>4
    <3>2. codec[i + 1] \in Copies
      BY <1>3, <3>1, ElementOfSeq
    <3>3. Passed(codec[i + 1].id) /\ Exact(codec[i + 1].id, codec[i + 1].state)
      BY <3>1 DEF CallsInv, CopiesExact
    <3> QED BY <3>1, <3>2, <3>3
  <2> QED BY <2>1, <1>2
<1>6. PICK c \in Copies : c = Head(codec) /\ Passed(c.id) /\ Exact(c.id, c.state)
  <2>1. 1 \in DOMAIN codec
    BY <1>4
  <2> QED BY <2>1, <1>4 DEF CallsInv, CopiesExact
<1>7. c.id \in Nat /\ c.state \in SUBSET Nat /\ "state" \in Hows
  BY DEF Copies, Hows
<1>8. PICK new \in Messages : /\ new = Calls!Encoded(c) /\ new.id = c.id
                              /\ new.value.how = "state" /\ new.value.state = c.state
  <2>1. Calls!Encoded(c) = Calls!Reply(c.id, "state", c.state)
    BY DEF Calls!Encoded
  <2>2. /\ Calls!Encoded(c) \in Messages /\ Calls!Encoded(c).id = c.id
        /\ Calls!Encoded(c).value.how = "state" /\ Calls!Encoded(c).value.state = c.state
    BY <1>7, <2>1, MessageIs
  <2> QED BY <2>2
<1>9. TrueEnd(new.id, new.value)'
  BY <1>2, <1>6, <1>8 DEF TrueEnd
<1>10. outbox' = Append(outbox, new) /\ new.value.how # "done" /\ heard \subseteq heard'
  BY <1>1, <1>6, <1>8
<1>11. CallsTyped /\ OutboxTrue
  BY DEF CallsInv
<1>12. outbox' \in Seq(Messages) /\ OutboxTrue'
  BY <1>2, <1>9, <1>10, <1>11, OutboxTakes
<1>13. SettledTrue'
  BY <1>1, <1>2 DEF CallsInv, SettledTrue
<1>14. CallsTyped'
  BY <1>1, <1>4, <1>12 DEF CallsInv, CallsTyped
<1> QED BY <1>2, <1>5, <1>12, <1>13, <1>14 DEF CallsInv

(* A codec that stops refuses its exports: a refusal promises nothing. *)
LEMMA CallsCodecStops == CallsInv /\ Calls!CodecStops => CallsInv'
<1> SUFFICES ASSUME CallsInv, Calls!CodecStops PROVE CallsInv'
  OBVIOUS
<1>1. /\ codec' = <<>> /\ outbox' = outbox \o Calls!Stopped(codec)
      /\ UNCHANGED <<calls, pending, settled, heard, stored, queue, preview, latest>>
      /\ callCount' \in [others : Nat, faults : Nat]
  <2>1. callCount \in [others : Nat, faults : Nat]
    BY DEF CallsInv, CallsTyped
  <2>2. callCount' \in [others : Nat, faults : Nat]
    BY <2>1 DEF Calls!CodecStops, Calls!Fault
  <2> QED BY <2>2 DEF Calls!CodecStops
<1>2. /\ QueueInOrder' /\ LatestInEra' /\ StoredIsPassed'
      /\ \A c, x : Passed(c) /\ Exact(c, x) => (Passed(c) /\ Exact(c, x))'
      /\ \A c, x : TrueEnd(c, x) => TrueEnd(c, x)'
  BY <1>1, CallsRest
<1>3. codec' \in Seq(Copies) /\ CopiesExact'
  BY <1>1 DEF CopiesExact
<1>4. codec \in Seq(Copies) /\ Len(codec) \in Nat /\ DOMAIN codec = 1 .. Len(codec)
  BY LenProperties DEF CallsInv, CallsTyped
<1>5. \A i \in 1 .. Len(codec) : /\ Calls!Refuse(codec[i].id) \in Messages
                                 /\ Calls!Refuse(codec[i].id).value.how = "error"
  <2> TAKE i \in 1 .. Len(codec)
  <2>1. codec[i].id \in Nat /\ "error" \in Hows /\ {} \in SUBSET Nat
    <3>1. codec[i] \in Copies
      BY <1>4, ElementOfSeq
    <3> QED BY <3>1 DEF Copies, Hows
  <2>2. Calls!Refuse(codec[i].id) = Calls!Reply(codec[i].id, "error", {})
    BY DEF Calls!Refuse
  <2> QED BY <2>1, <2>2, MessageIs
<1>6. PICK new \in Seq(Messages) : new = Calls!Stopped(codec)
  <2>1. Calls!Stopped(codec) = [i \in 1 .. Len(codec) |-> Calls!Refuse(codec[i].id)]
    BY <1>4 DEF Calls!Stopped
  <2>2. Calls!Stopped(codec) \in [1 .. Len(codec) -> Messages]
    BY <1>5, <2>1
  <2>3. Calls!Stopped(codec) \in Seq(Messages)
    BY <2>2, <1>4
  <2> QED BY <2>3
<1>7. \A i \in 1 .. Len(new) : new[i].value.how = "error"
  <2>1. DOMAIN new = 1 .. Len(codec) /\ \A i \in 1 .. Len(codec) : new[i] = Calls!Refuse(codec[i].id)
    BY <1>4, <1>6 DEF Calls!Stopped
  <2>2. DOMAIN new = 1 .. Len(new)
    BY LenProperties
  <2> QED BY <1>5, <2>1, <2>2
<1>8. \A i \in 1 .. Len(new) : TrueEnd(new[i].id, new[i].value)' /\ new[i].value.how # "done"
  BY <1>7 DEF TrueEnd
<1>9. CallsTyped /\ OutboxTrue /\ outbox' = outbox \o new /\ heard \subseteq heard'
  BY <1>1, <1>6 DEF CallsInv
<1>10. outbox' \in Seq(Messages) /\ OutboxTrue'
  BY <1>2, <1>8, <1>9, OutboxGrows
<1>11. SettledTrue'
  BY <1>1, <1>2 DEF CallsInv, SettledTrue
<1>12. CallsTyped'
  BY <1>1, <1>3, <1>10 DEF CallsInv, CallsTyped
<1> QED BY <1>2, <1>3, <1>10, <1>11, <1>12 DEF CallsInv

(* The first message of the outbox settles its call, or tells the page of changes. *)
LEMMA CallsDeliver == CallsInv /\ Calls!Deliver => CallsInv'
<1> SUFFICES ASSUME CallsInv, Calls!Deliver PROVE CallsInv'
  OBVIOUS
<1>0. outbox \in Seq(Messages) /\ outbox # <<>> /\ outbox' = Tail(outbox)
  BY DEF Calls!Deliver, CallsInv, CallsTyped
<1>1. /\ outbox' \in Seq(Messages) /\ Len(outbox) \in Nat \ {0}
      /\ DOMAIN outbox' = 1 .. Len(outbox) - 1 /\ DOMAIN outbox = 1 .. Len(outbox)
      /\ \A i \in 1 .. Len(outbox) - 1 : outbox'[i] = outbox[i + 1]
      /\ Head(outbox) = outbox[1] /\ Head(outbox) \in Messages
  BY <1>0, TailIs
<1>2. PICK m \in Messages : m = Head(outbox) /\ m = outbox[1]
  BY <1>1
<1>3. /\ heard' = IF m.id = 0 THEN heard \cup m.value.state ELSE heard
      /\ pending' = pending \ {m.id} /\ settled' = Calls!Settle(pending \cap {m.id}, m.value)
      /\ UNCHANGED <<calls, stored, queue, preview, latest, codec, callCount>>
  BY <1>2 DEF Calls!Deliver
<1>4. /\ QueueInOrder' /\ LatestInEra' /\ StoredIsPassed'
      /\ \A c, x : Passed(c) /\ Exact(c, x) => (Passed(c) /\ Exact(c, x))'
      /\ \A c, x : TrueEnd(c, x) => TrueEnd(c, x)'
  BY <1>3, CallsRest
<1>5. CopiesExact'
  BY <1>3, <1>4 DEF CallsInv, CopiesExact
<1>6. m.value \in Ends /\ m.value.state \subseteq Nat
  BY DEF Messages, Ends
<1>7. heard \subseteq heard' /\ heard' \subseteq Nat
  BY <1>3, <1>6 DEF CallsInv, CallsTyped
<1>8. /\ DOMAIN settled = 1 .. Len(calls) /\ settled \in Seq(Ends) /\ Len(settled) = Len(calls)
      /\ Len(calls) \in Nat /\ \A i \in 1 .. Len(calls) : settled[i] \in Ends
  BY LenProperties, ElementOfSeq DEF CallsInv, CallsTyped
<1>9. /\ settled' \in [1 .. Len(calls) -> Ends]
      /\ \A i \in 1 .. Len(calls) : settled'[i] = IF i \in pending \cap {m.id} THEN m.value ELSE settled[i]
  BY <1>3, <1>6, <1>8 DEF Calls!Settle
<1>10. settled' \in Seq(Ends) /\ Len(settled') = Len(calls) /\ DOMAIN settled' = 1 .. Len(calls)
  BY <1>8, <1>9
<1>11. TrueEnd(m.id, m.value) /\ (m.value.how = "done" => m.id \in heard)
  <2>1. 1 \in DOMAIN outbox
    BY <1>1
  <2>2. m.value.how = "done" => Told(1)
    BY <2>1, <1>2 DEF CallsInv, OutboxTrue
  <2>3. ~ \E k \in DOMAIN outbox : k < 1
    BY <1>1
  <2> QED BY <2>1, <2>2, <2>3, <1>2 DEF CallsInv, OutboxTrue, Told
<1>12. SettledTrue'
  <2> SUFFICES ASSUME NEW i \in 1 .. Len(calls)
               PROVE  TrueEnd(i, settled[i])' /\ (settled'[i].how = "done" => i \in heard')
    BY <1>10 DEF SettledTrue
  <2>1. PICK e \in Ends : e = settled'[i]
    BY <1>9
  <2>2. CASE i \in pending \cap {m.id}
    BY <2>1, <2>2, <1>4, <1>7, <1>9, <1>11
  <2>3. CASE i \notin pending \cap {m.id}
    <3>1. e = settled[i] /\ TrueEnd(i, e) /\ (e.how = "done" => i \in heard)
      BY <2>1, <2>3, <1>8, <1>9 DEF CallsInv, SettledTrue
    <3> QED BY <3>1, <2>1, <1>4, <1>7
  <2> QED BY <2>2, <2>3
<1>13. OutboxTrue'
  <2> SUFFICES ASSUME NEW i \in 1 .. Len(outbox) - 1
               PROVE  TrueEnd(outbox[i].id, outbox[i].value)' /\ (outbox'[i].value.how = "done" => Told(i)')
    BY <1>1 DEF OutboxTrue
  <2>1. PICK n \in Messages : n = outbox'[i] /\ n = outbox[i + 1] /\ i + 1 \in DOMAIN outbox
    BY <1>0, <1>1, ElementOfSeq
  <2>2. TrueEnd(n.id, n.value) /\ (n.value.how = "done" => Told(i + 1))
    BY <2>1 DEF CallsInv, OutboxTrue
  <2>3. ASSUME Told(i + 1) PROVE Told(i)'
    <3>1. CASE n.id \in heard
      BY <3>1, <2>1, <1>7 DEF Told
    <3>2. CASE \E k \in DOMAIN outbox : k < i + 1 /\ outbox[k].id = 0 /\ n.id \in outbox[k].value.state
      <4>1. PICK k \in DOMAIN outbox : k < i + 1 /\ outbox[k].id = 0 /\ n.id \in outbox[k].value.state
        BY <3>2
      <4>2. CASE k = 1
        BY <4>1, <4>2, <2>1, <1>2, <1>3 DEF Told
      <4>3. CASE k # 1
        <5>1. k - 1 \in DOMAIN outbox' /\ outbox'[k - 1] = outbox[k] /\ k - 1 < i
          BY <4>1, <4>3, <1>1
        <5> QED BY <5>1, <4>1, <2>1 DEF Told
      <4> QED BY <4>2, <4>3
    <3> QED BY <2>1, <2>3, <3>1, <3>2 DEF Told
  <2>4. TrueEnd(n.id, n.value)'
    BY <2>2, <1>4
  <2> QED BY <2>1, <2>2, <2>3, <2>4
<1>14. CallsTyped'
  BY <1>1, <1>3, <1>7, <1>10 DEF CallsInv, CallsTyped
<1> QED BY <1>4, <1>5, <1>12, <1>13, <1>14 DEF CallsInv

(* A worker that stops ends every call with an error and starts empty. *)
LEMMA CallsWorkerStops == CallsInv /\ Calls!WorkerStops => CallsInv'
<1> SUFFICES ASSUME CallsInv, Calls!WorkerStops PROVE CallsInv'
  OBVIOUS
<1>1. /\ pending' = {} /\ settled' = Calls!Settle(pending, Calls!End("error", {}))
      /\ queue' = <<>> /\ preview' = 0 /\ latest' = {} /\ codec' = <<>> /\ outbox' = <<>>
      /\ UNCHANGED <<calls, heard, stored>>
  BY DEF Calls!WorkerStops
<1>2. callCount' \in [others : Nat, faults : Nat]
  <2>1. callCount \in [others : Nat, faults : Nat]
    BY DEF CallsInv, CallsTyped
  <2> QED BY <2>1 DEF Calls!WorkerStops, Calls!Fault
<1>3. \A c : Newer(c) => Newer(c)'
  BY <1>1 DEF Newer
<1>4. \A c : Passed(c) => Passed(c)'
  BY <1>1 DEF Passed
<1>5. \A c, x : TrueEnd(c, x) => TrueEnd(c, x)'
  BY <1>1, <1>3, <1>4, EndsKeep
<1>6. QueueInOrder' /\ LatestInEra' /\ CopiesExact' /\ OutboxTrue'
  BY <1>1 DEF QueueInOrder, LatestInEra, CopiesExact, OutboxTrue
<1>7. StoredIsPassed'
  BY <1>1, <1>4 DEF CallsInv, StoredIsPassed
<1>8. PICK e \in Ends : e = Calls!End("error", {}) /\ e.how = "error"
  <2>1. Calls!End("error", {}) = [how |-> "error", state |-> {}]
    BY DEF Calls!End
  <2>2. [how |-> "error", state |-> {}] \in Ends
    <3>1. {} \in SUBSET Nat /\ "error" \in Hows
      BY DEF Hows
    <3> QED BY <3>1 DEF Ends
  <2> QED BY <2>1, <2>2
<1>9. /\ DOMAIN settled = 1 .. Len(calls) /\ settled \in Seq(Ends) /\ Len(settled) = Len(calls)
      /\ Len(calls) \in Nat /\ \A i \in 1 .. Len(calls) : settled[i] \in Ends
  BY LenProperties, ElementOfSeq DEF CallsInv, CallsTyped
<1>10. /\ settled' \in [1 .. Len(calls) -> Ends]
       /\ \A i \in 1 .. Len(calls) : settled'[i] = IF i \in pending THEN e ELSE settled[i]
  BY <1>1, <1>8, <1>9 DEF Calls!Settle
<1>11. settled' \in Seq(Ends) /\ Len(settled') = Len(calls) /\ DOMAIN settled' = 1 .. Len(calls)
  BY <1>9, <1>10
<1>12. SettledTrue'
  <2> SUFFICES ASSUME NEW i \in 1 .. Len(calls)
               PROVE  TrueEnd(i, settled[i])' /\ (settled'[i].how = "done" => i \in heard')
    BY <1>11 DEF SettledTrue
  <2>1. CASE i \in pending
    BY <2>1, <1>8, <1>10 DEF TrueEnd
  <2>2. CASE i \notin pending
    <3>1. PICK s \in Ends : s = settled[i] /\ s = settled'[i]
      BY <2>2, <1>9, <1>10
    <3>2. TrueEnd(i, s) /\ (s.how = "done" => i \in heard)
      BY <3>1, <1>9 DEF CallsInv, SettledTrue
    <3> QED BY <3>1, <3>2, <1>1, <1>5
  <2> QED BY <2>1, <2>2
<1>13. CallsTyped'
  <2>1. /\ queue' \in Seq(Jobs) /\ codec' \in Seq(Copies) /\ outbox' \in Seq(Messages)
    BY <1>1
  <2> QED BY <1>1, <1>2, <1>11, <2>1 DEF CallsInv, CallsTyped
<1> QED BY <1>6, <1>7, <1>12, <1>13 DEF CallsInv

(* Another tab's change is stored beside those of the calls, and announced. *)
LEMMA CallsOtherTab == CallsInv /\ Calls!OtherTab => CallsInv'
<1> SUFFICES ASSUME CallsInv, Calls!OtherTab PROVE CallsInv'
  OBVIOUS
<1>1. callCount \in [others : Nat, faults : Nat] /\ MaxCalls \in Nat
  BY BoundsAssumption DEF CallsInv, CallsTyped
<1>2. PICK o \in Nat : o = MaxCalls + (callCount.others + 1) /\ o \notin 1 .. MaxCalls
  BY <1>1
<1>3. /\ stored' = stored \cup {o} /\ outbox' = Append(outbox, Calls!Changed(o))
      /\ UNCHANGED <<calls, pending, settled, heard, queue, preview, latest, codec>>
  BY <1>2 DEF Calls!OtherTab, Calls!Other
<1>4. callCount' \in [others : Nat, faults : Nat]
  BY <1>1 DEF Calls!OtherTab
<1>5. \A c : Newer(c) => Newer(c)'
  BY <1>3 DEF Newer
<1>6. \A c : Passed(c) => Passed(c)'
  BY <1>3 DEF Passed
<1>7. \A c : Passed(c) => \A m \in 1 .. MaxCalls : m < c => (m \in stored' <=> m \in stored)
  BY <1>2, <1>3
<1>8. /\ \A c, x : Passed(c) /\ Exact(c, x) => (Passed(c) /\ Exact(c, x))'
      /\ \A c, x : TrueEnd(c, x) => TrueEnd(c, x)'
  BY <1>3, <1>5, <1>6, <1>7, EndsKeep
<1>9. QueueInOrder' /\ LatestInEra'
  BY <1>3 DEF CallsInv, QueueInOrder, LatestInEra, Newer
<1>10. StoredIsPassed' /\ CopiesExact' /\ SettledTrue'
  BY <1>2, <1>3, <1>6, <1>8 DEF CallsInv, StoredIsPassed, CopiesExact, SettledTrue
<1>11. PICK new \in Messages : new = Calls!Changed(o) /\ new.value.how = "changed"
  <2>1. Calls!Changed(o) = Calls!Reply(0, "changed", {o})
    BY DEF Calls!Changed
  <2>2. {o} \in SUBSET Nat /\ "changed" \in Hows /\ 0 \in Nat
    BY DEF Hows
  <2>3. Calls!Changed(o) \in Messages /\ Calls!Changed(o).value.how = "changed"
    BY <2>1, <2>2, MessageIs
  <2> QED BY <2>3
<1>12. TrueEnd(new.id, new.value)' /\ new.value.how # "done" /\ outbox' = Append(outbox, new)
  BY <1>3, <1>11 DEF TrueEnd
<1>13. CallsTyped /\ OutboxTrue /\ heard \subseteq heard'
  BY <1>3 DEF CallsInv
<1>14. outbox' \in Seq(Messages) /\ OutboxTrue'
  BY <1>8, <1>12, <1>13, OutboxTakes
<1>15. CallsTyped'
  <2>1. o # 0
    BY <1>1, <1>2
  <2>2. stored' \subseteq Nat \ {0}
    BY <1>3, <2>1 DEF CallsInv, CallsTyped
  <2> QED BY <1>3, <1>4, <1>14, <2>2 DEF CallsInv, CallsTyped
<1> QED BY <1>9, <1>10, <1>14, <1>15 DEF CallsInv

(* The page begins without a call. *)
LEMMA CallsStart == Calls!Init => CallsInv
<1> SUFFICES ASSUME Calls!Init PROVE CallsInv
  OBVIOUS
<1>1. /\ calls = <<>> /\ pending = {} /\ settled = <<>> /\ heard = {} /\ stored = {}
      /\ queue = <<>> /\ preview = 0 /\ latest = {} /\ codec = <<>> /\ outbox = <<>>
      /\ callCount = [others |-> 0, faults |-> 0]
  BY DEF Calls!Init
<1>2. CallsTyped
  BY <1>1, EmptySeq, BoundsAssumption DEF CallsTyped
<1> QED BY <1>1, <1>2 DEF CallsInv, QueueInOrder, LatestInEra, StoredIsPassed, CopiesExact, OutboxTrue, SettledTrue

(* Every step keeps what is promised of the calls; *)
LEMMA CallsStep == CallsInv /\ [Calls!Next]_callVars => CallsInv'
<1> SUFFICES ASSUME CallsInv, [Calls!Next]_callVars PROVE CallsInv'
  OBVIOUS
<1>1. CASE UNCHANGED callVars
  <2>1. UNCHANGED <<calls, pending, settled, heard, stored, queue, preview, latest, codec, outbox, callCount>>
    BY <1>1 DEF callVars
  <2> QED BY <2>1 DEF CallsInv, CallsTyped, QueueInOrder, LatestInEra, StoredIsPassed, CopiesExact,
                      OutboxTrue, SettledTrue, TrueEnd, Newer, Passed, Exact, Told
<1>2. CASE Calls!Next
  BY <1>2, CallsSend, CallsProcess, CallsEncode, CallsCodecStops, CallsDeliver, CallsWorkerStops,
     CallsOtherTab DEF Calls!Next, Calls!Work
<1> QED BY <1>1, <1>2

(* it gives what the run checks of them. *)
LEMMA CallsSound == CallsInv => CallsAnswered
<1> SUFFICES ASSUME CallsInv
             PROVE  Calls!AnswersAtTheirPlace /\ Calls!OnlyNewerReplaces /\ Calls!NoticeFirst
  BY DEF CallsAnswered
<1>1. /\ Len(calls) \in Nat /\ Len(calls) <= MaxCalls /\ MaxCalls \in Nat
      /\ DOMAIN settled = 1 .. Len(calls) /\ stored \subseteq Nat \ {0}
  BY LenProperties, BoundsAssumption DEF CallsInv, CallsTyped
<1>2. ASSUME NEW id \in 1 .. Len(calls), settled[id].how = "state"
      PROVE  settled[id].state \cap (1 .. Len(calls)) = {m \in stored : m < id}
  <2>1. Passed(id) /\ Exact(id, settled[id].state)
    BY <1>1, <1>2 DEF CallsInv, SettledTrue, TrueEnd
  <2>2. ASSUME NEW m \in stored, m < id PROVE m \in 1 .. Len(calls)
    <3>1. m \in Nat /\ m # 0 /\ id \in Nat /\ id <= Len(calls)
      BY <1>1, <1>2
    <3> QED BY <2>2, <3>1, <1>1
  <2>3. \A m \in 1 .. Len(calls) : m \in settled[id].state <=> m \in stored /\ m < id
    BY <1>1, <2>1 DEF Exact
  <2> QED BY <2>2, <2>3
<1>3. ASSUME NEW id \in 1 .. Len(calls), settled[id].how = "superseded" PROVE Newer(id)
  BY <1>1, <1>3 DEF CallsInv, SettledTrue, TrueEnd
<1>4. ASSUME NEW id \in 1 .. Len(calls), settled[id].how = "done" PROVE id \in heard
  BY <1>1, <1>4 DEF CallsInv, SettledTrue
<1>5. Calls!AnswersAtTheirPlace
  BY <1>2 DEF Calls!AnswersAtTheirPlace, Calls!Answered, Calls!Calls
<1>6. Calls!OnlyNewerReplaces
  BY <1>3 DEF Calls!OnlyNewerReplaces, Calls!Calls, Newer
<1>7. Calls!NoticeFirst
  BY <1>4 DEF Calls!NoticeFirst, Calls!Calls
<1> QED BY <1>5, <1>6, <1>7

(* Whatever waits, stops or is encoded elsewhere, a call is answered with the  *)
(* archive as of its place in the queue, gives way only to a newer preview of  *)
(* the same archive, and is announced before it is answered (the message       *)
(* handlers of client.ts, worker.ts, codec.ts and codec-worker.ts), for any    *)
(* number of calls, of changes from other tabs and of workers that stop.       *)
THEOREM CallsAreAnswered == Spec => []CallsAnswered
<1>1. Init => CallsInv
  BY CallsStart DEF Init
<1>2. CallsInv /\ [Next]_vars => CallsInv'
  <2>1. [Next]_vars => [Calls!Next]_callVars
    BY DEF Next, vars
  <2> QED BY <2>1, CallsStep
<1> QED BY <1>1, <1>2, CallsSound, PTL DEF Spec

-----------------------------------------------------------------------------
(* Analytics: one library at a time, of the present epoch.                     *)

LibraryTyped ==
  /\ epoch \in [Tabs -> Nat] /\ client \in [Tabs -> Nat \cup {None}]
  /\ aborted \in [Tabs -> SUBSET Nat] /\ queued \in [Tabs -> SUBSET Nat]
  /\ handed \in [Tabs -> SUBSET (Nat \X Nat)] /\ era \in Seq(Tabs \X Nat)

(* Whatever waits was captured in its own tab, in the epoch it is queued for   *)
(* or of the library it was handed to.                                         *)
Captured(t, n, e) == n \in 1 .. Len(era) /\ era[n] = <<t, e>>

(* The library in use is of the present epoch, and whatever a transport that   *)
(* was not aborted holds, it holds for that library.                           *)
LibraryInv ==
  /\ LibraryTyped
  /\ \A t \in Tabs :
       /\ client[t] # None => client[t] = epoch[t]
       /\ \A n \in queued[t] : Captured(t, n, epoch[t])
       /\ \A q \in handed[t] : /\ Captured(t, q[1], q[2])
                               /\ q[2] \notin aborted[t] => q[2] = client[t]

(* The types of a tab's diagnostics, of the bounds used and of the notes told. *)
Records == [available : BOOLEAN, muted : BOOLEAN, pending : Nat \cup {None},
            sending : Nat \cup {None}, status : {"idle", "sent", "uncertain"}]
Uses == [choices : Nat, reports : Nat, faults : Nat]
Notes == {"telemetry", "muted"} \X BOOLEAN

(* No report is made in a behaviour about analytics. *)
NoReports == /\ diag \in [Tabs -> Records] /\ used \in Uses /\ used.reports = 0
             /\ inbox \in [Tabs -> Seq(Notes)]
             /\ \A t \in Tabs : diag[t].pending = None /\ diag[t].sending = None

-----------------------------------------------------------------------------
(* Reports, in one tab, where no event is captured.                            *)

(* The tab and the reports made in it. *)
Tab == CHOOSE t \in Tabs : TRUE
Known == 1 .. used.reports

NothingCaptured == /\ queued = [t \in {Tab} |-> {}] /\ handed = [t \in {Tab} |-> {}]
                   /\ Len(era) = 0

(* A report that is offered was never handed over; one that is awaited is on   *)
(* its way, and nothing is offered beside it.                                  *)
OfferedOnce(d) ==
  /\ d.pending # None => d.pending \in Known /\ given[d.pending] = 0 /\ d.status = "idle"
  /\ d.sending # None => d.sending \in flights[Tab] /\ d.status = "idle" /\ d.pending = None

ReportsInv ==
  /\ diag \in [{Tab} -> Records] /\ flights \in [{Tab} -> SUBSET Nat]
  /\ inbox \in [{Tab} -> Seq(Notes)]
  /\ given \in [1 .. MaxReports -> Nat] /\ used \in Uses /\ used.reports <= MaxReports
  /\ OfferedOnce(diag[Tab])
  /\ \A r \in 1 .. MaxReports : given[r] <= 1 /\ (r \notin Known => given[r] = 0)

TellInv == /\ subject # "reports" => LibraryInv /\ NoReports
           /\ subject = "reports" => ReportsInv /\ NothingCaptured

(* What a choice, a muting or a dismissal makes of a tab's diagnostics: what   *)
(* they offer and await is left alone or forgotten.                            *)
Milder(d, e) ==
  /\ e \in Records
  /\ \/ e.pending = d.pending /\ e.sending = d.sending /\ e.status = d.status
     \/ e.pending = None /\ e.sending = None

(* Clearing the diagnostics forgets and offers nothing new. *)
LEMMA ClearedIsMilder ==
  ASSUME NEW d \in Records, NEW yes \in BOOLEAN
  PROVE  /\ Milder(d, Analytics!Cleared(d)) /\ Milder(d, Analytics!Cleared([d EXCEPT !.muted = yes]))
         /\ Milder(d, Reports!Cleared(d)) /\ Milder(d, Reports!Cleared([d EXCEPT !.muted = yes]))
BY DEF Milder, Records, Analytics!Cleared, Reports!Cleared

(* So does configuring them. *)
LEMMA ConfiguredIsMilder ==
  ASSUME NEW d \in Records, NEW on \in BOOLEAN
  PROVE  Milder(d, Analytics!Configured(d, on)) /\ Milder(d, Reports!Configured(d, on))
BY DEF Milder, Records, Analytics!Cleared, Reports!Cleared, Analytics!Configured, Reports!Configured

-----------------------------------------------------------------------------
(* The steps of the library.                                                   *)

(* What leaves the library and its queues alone keeps them sound. *)
LEMMA LibraryRests ==
  LibraryInv /\ UNCHANGED <<epoch, client, aborted, queued, handed, era>> => LibraryInv'
BY DEF LibraryInv, LibraryTyped, Captured

(* Stopping aborts the library and empties its tab's queue. *)
LEMMA LibraryStops ==
  ASSUME LibraryInv, NEW t \in Tabs, Analytics!Stop(t), UNCHANGED era
  PROVE  LibraryInv'
<1>1. /\ queued' = [queued EXCEPT ![t] = {}] /\ epoch' = [epoch EXCEPT ![t] = @ + 1]
      /\ aborted' = [aborted EXCEPT ![t] = @ \cup ({client[t]} \ {None})]
      /\ client' = [client EXCEPT ![t] = None] /\ handed' = handed /\ era' = era
  BY DEF Analytics!Stop
<1>2. LibraryTyped
  BY DEF LibraryInv
<1>3. LibraryTyped'
  <2>1. {client[t]} \ {None} \in SUBSET Nat
    BY <1>2 DEF LibraryTyped
  <2> QED BY <1>1, <1>2, <2>1 DEF LibraryTyped
<1>4. ASSUME NEW u \in Tabs
      PROVE  /\ client'[u] # None => client'[u] = epoch'[u]
             /\ \A n \in queued'[u] : Captured(u, n, epoch[u])' 
             /\ \A q \in handed'[u] : Captured(u, q[1], q[2])' /\ (q[2] \notin aborted'[u] => q[2] = client'[u])
  <2>1. /\ client[u] # None => client[u] = epoch[u]
        /\ \A n \in queued[u] : Captured(u, n, epoch[u])
        /\ \A q \in handed[u] : Captured(u, q[1], q[2]) /\ (q[2] \notin aborted[u] => q[2] = client[u])
    BY DEF LibraryInv
  <2>2. \A q \in handed[u] : Captured(u, q[1], q[2])'
    BY <1>1, <2>1 DEF Captured
  <2>3. CASE u = t
    <3>1. client'[u] = None /\ queued'[u] = {} /\ aborted'[u] = aborted[u] \cup ({client[u]} \ {None})
      BY <1>1, <1>2, <2>3 DEF LibraryTyped
    <3>2. \A q \in handed[u] : q[2] # None
      BY <1>2, NoneAssumption DEF LibraryTyped
    <3> QED BY <1>1, <2>1, <2>2, <3>1, <3>2
  <2>4. CASE u # t
    <3>1. client'[u] = client[u] /\ queued'[u] = queued[u] /\ aborted'[u] = aborted[u] /\ epoch'[u] = epoch[u]
      BY <1>1, <1>2, <2>4 DEF LibraryTyped
    <3>2. \A n \in queued[u] : Captured(u, n, epoch[u])'
      BY <1>1, <2>1, <3>1 DEF Captured
    <3> QED BY <1>1, <2>1, <2>2, <3>1, <3>2
  <2> QED BY <2>3, <2>4
<1> QED BY <1>3, <1>4 DEF LibraryInv

(* One tab's library changes: what must be shown of that tab. *)
TabSound(t) ==
  /\ client[t] # None => client[t] = epoch[t]
  /\ \A n \in queued[t] : Captured(t, n, epoch[t])
  /\ \A q \in handed[t] : Captured(t, q[1], q[2]) /\ (q[2] \notin aborted[t] => q[2] = client[t])

(* A step that keeps its own tab sound and leaves the others alone keeps all sound. *)
LEMMA OtherTabsRest ==
  ASSUME LibraryInv, LibraryTyped', NEW t \in Tabs, TabSound(t)',
         \A n \in 1 .. Len(era) : n \in 1 .. Len(era') /\ era'[n] = era[n],
         \A u \in Tabs \ {t} : /\ epoch'[u] = epoch[u] /\ client'[u] = client[u]
                               /\ aborted'[u] = aborted[u]
                               /\ queued'[u] = queued[u] /\ handed'[u] = handed[u]
  PROVE  LibraryInv'
<1>1. \A u \in Tabs : TabSound(u)
  BY DEF LibraryInv, TabSound
<1>2. ASSUME NEW u \in Tabs PROVE TabSound(u)'
  <2>1. CASE u = t
    BY <2>1
  <2>2. CASE u # t
    <3>1. /\ epoch'[u] = epoch[u] /\ client'[u] = client[u] /\ aborted'[u] = aborted[u]
          /\ queued'[u] = queued[u] /\ handed'[u] = handed[u]
      BY <2>2
    <3>2. \A n \in queued[u] : Captured(u, n, epoch[u])'
      BY <1>1, <3>1 DEF TabSound, Captured
    <3>3. \A q \in handed[u] : Captured(u, q[1], q[2])'
      BY <1>1, <3>1 DEF TabSound, Captured
    <3> QED BY <1>1, <3>1, <3>2, <3>3 DEF TabSound
  <2> QED BY <2>1, <2>2
<1> QED BY <1>2 DEF LibraryInv, TabSound

(* A library that has loaded takes its tab's queue, if it is still of the present epoch. *)
LEMMA LibraryLoads ==
  ASSUME LibraryInv, NEW t \in Tabs, Analytics!Loaded(t)
  PROVE  LibraryInv'
<1>1. LibraryTyped /\ TabSound(t) /\ UNCHANGED <<epoch, aborted, era>>
  BY DEF LibraryInv, TabSound, Analytics!Loaded
<1>2. CASE UNCHANGED <<client, handed, queued>>
  BY <1>1, <1>2, LibraryRests
<1>3. CASE ~UNCHANGED <<client, handed, queued>>
  <2>1. PICK e \in Nat : /\ e = epoch[t] /\ client' = [client EXCEPT ![t] = e]
                         /\ handed' = [handed EXCEPT ![t] = @ \cup (queued[t] \X {e})]
                         /\ queued' = [queued EXCEPT ![t] = {}]
    BY <1>1, <1>3 DEF Analytics!Loaded, Analytics!Welcome, LibraryTyped
  <2>2. /\ client'[t] = e /\ queued'[t] = {} /\ handed'[t] = handed[t] \cup (queued[t] \X {e})
        /\ \A u \in Tabs \ {t} : client'[u] = client[u] /\ queued'[u] = queued[u] /\ handed'[u] = handed[u]
    BY <1>1, <2>1 DEF LibraryTyped
  <2>3. LibraryTyped'
    <3>1. queued[t] \X {e} \in SUBSET (Nat \X Nat)
      BY <1>1 DEF LibraryTyped
    <3> QED BY <1>1, <2>1, <3>1 DEF LibraryTyped
  <2>4. TabSound(t)'
    <3>1. ASSUME NEW q \in handed'[t] PROVE Captured(t, q[1], q[2])' /\ (q[2] \notin aborted[t] => q[2] = e)
      <4>1. CASE q \in handed[t]
        <5>1. Captured(t, q[1], q[2])' /\ (q[2] \notin aborted[t] => q[2] = client[t])
          BY <1>1, <4>1 DEF TabSound, Captured
        <5>2. q[2] # None
          BY <1>1, <4>1, NoneAssumption DEF LibraryTyped
        <5> QED BY <1>1, <2>1, <5>1, <5>2 DEF TabSound
      <4>2. CASE q \in queued[t] \X {e}
        <5>1. PICK n \in queued[t] : q = <<n, e>>
          BY <4>2
        <5> QED BY <1>1, <2>1, <5>1 DEF TabSound, Captured
      <4> QED BY <2>2, <4>1, <4>2
    <3> QED BY <1>1, <2>1, <2>2, <3>1 DEF TabSound
  <2>5. \A n \in 1 .. Len(era) : n \in 1 .. Len(era') /\ era'[n] = era[n]
    BY <1>1
  <2> QED BY <1>1, <2>2, <2>3, <2>4, <2>5, OtherTabsRest
<1> QED BY <1>2, <1>3

(* A library of the present epoch that fails to load empties its tab's queue. *)
LEMMA LibraryFails ==
  ASSUME LibraryInv, NEW t \in Tabs, Analytics!LoadFails(t)
  PROVE  LibraryInv'
<1>1. LibraryTyped /\ TabSound(t) /\ UNCHANGED <<epoch, client, aborted, handed, era>>
  BY DEF LibraryInv, TabSound, Analytics!LoadFails
<1>2. PICK set \in SUBSET Nat : queued' = [queued EXCEPT ![t] = set] /\ set \subseteq queued[t]
  <2>1. queued[t] \in SUBSET Nat
    BY <1>1 DEF LibraryTyped
  <2>2. PICK e \in loads[t] : queued' = [queued EXCEPT ![t] = IF e = epoch[t] THEN {} ELSE queued[t]]
    BY DEF Analytics!LoadFails
  <2>3. CASE e = epoch[t]
    <3>1. queued' = [queued EXCEPT ![t] = {}]
      BY <2>2, <2>3
    <3>2. {} \in SUBSET Nat /\ {} \subseteq queued[t]
      OBVIOUS
    <3> QED BY <3>1, <3>2
  <2>4. CASE e # epoch[t]
    BY <2>1, <2>2, <2>4
  <2> QED BY <2>3, <2>4
<1>3. LibraryTyped'
  BY <1>1, <1>2 DEF LibraryTyped
<1>4. /\ queued'[t] = set /\ \A u \in Tabs \ {t} : queued'[u] = queued[u]
  BY <1>1, <1>2 DEF LibraryTyped
<1>5. TabSound(t)'
  BY <1>1, <1>2, <1>4 DEF TabSound, Captured
<1>6. \A n \in 1 .. Len(era) : n \in 1 .. Len(era') /\ era'[n] = era[n]
  BY <1>1
<1> QED BY <1>1, <1>3, <1>4, <1>5, <1>6, OtherTabsRest

(* An event is captured for its tab's queue, or handed to the library in use. *)
LEMMA LibraryCaptures ==
  ASSUME LibraryInv, NEW t \in Tabs, Analytics!Capture(t)
  PROVE  LibraryInv'
<1>1. LibraryTyped /\ TabSound(t) /\ UNCHANGED <<epoch, client, aborted>>
  BY DEF LibraryInv, TabSound, Analytics!Capture, Analytics!consent
<1>2. PICK n \in Nat : n = Len(era) + 1
  BY <1>1, LenProperties DEF LibraryTyped
<1>3. era' = Append(era, <<t, epoch[t]>>) /\ <<t, epoch[t]>> \in Tabs \X Nat
  BY <1>1 DEF Analytics!Capture, LibraryTyped
<1>4. era' \in Seq(Tabs \X Nat) /\ Len(era') = n /\ era'[n] = <<t, epoch[t]>>
      /\ \A m \in 1 .. Len(era) : m \in 1 .. Len(era') /\ era'[m] = era[m]
  BY <1>1, <1>2, <1>3, AppendProperties, LenProperties DEF LibraryTyped
<1>5. Captured(t, n, epoch[t])'
  BY <1>1, <1>2, <1>4 DEF Captured
<1>6. /\ \A m \in queued[t] : Captured(t, m, epoch[t])'
      /\ \A q \in handed[t] : Captured(t, q[1], q[2])'
  BY <1>1, <1>4 DEF TabSound, Captured
<1>7. CASE client[t] = None
  <2>1. queued' = [queued EXCEPT ![t] = @ \cup {n}] /\ handed' = handed
    BY <1>2, <1>7 DEF Analytics!Capture
  <2>2. /\ queued'[t] = queued[t] \cup {n} /\ \A u \in Tabs \ {t} : queued'[u] = queued[u]
    BY <1>1, <2>1 DEF LibraryTyped
  <2>3. LibraryTyped'
    BY <1>1, <1>4, <2>1 DEF LibraryTyped
  <2>4. TabSound(t)'
    BY <1>1, <1>5, <1>6, <2>1, <2>2 DEF TabSound
  <2> QED BY <1>1, <1>4, <2>1, <2>2, <2>3, <2>4, OtherTabsRest
<1>8. CASE client[t] # None
  <2>1. client[t] = epoch[t] /\ client[t] \in Nat
    BY <1>1, <1>8 DEF TabSound, LibraryTyped
  <2>2. handed' = [handed EXCEPT ![t] = @ \cup {<<n, client[t]>>}] /\ queued' = queued
    BY <1>2, <1>8 DEF Analytics!Capture
  <2>3. handed'[t] = handed[t] \cup {<<n, client[t]>>} /\ \A u \in Tabs \ {t} : handed'[u] = handed[u]
    BY <1>1, <2>2 DEF LibraryTyped
  <2>4. LibraryTyped'
    <3>1. {<<n, client[t]>>} \in SUBSET (Nat \X Nat)
      BY <2>1
    <3> QED BY <1>1, <1>4, <2>2, <3>1 DEF LibraryTyped
  <2>5. ASSUME NEW q \in handed'[t]
        PROVE  Captured(t, q[1], q[2])' /\ (q[2] \notin aborted[t] => q[2] = client[t])
    <3>1. CASE q \in handed[t]
      BY <1>1, <1>6, <3>1 DEF TabSound
    <3>2. CASE q = <<n, client[t]>>
      BY <1>1, <1>5, <2>1, <3>2
    <3> QED BY <2>3, <3>1, <3>2
  <2>6. TabSound(t)'
    BY <1>1, <1>6, <2>1, <2>2, <2>5 DEF TabSound
  <2> QED BY <1>1, <1>4, <2>2, <2>3, <2>4, <2>6, OtherTabsRest
<1> QED BY <1>7, <1>8

(* A library sends an event that it holds, or is aborted. *)
LEMMA LibraryTransmits ==
  ASSUME LibraryInv, NEW t \in Tabs, Analytics!Transmit(t)
  PROVE  LibraryInv'
<1>1. LibraryTyped /\ TabSound(t) /\ UNCHANGED <<epoch, client, queued, era>>
  BY DEF LibraryInv, TabSound, Analytics!Transmit, Analytics!consent
<1>2. PICK set \in SUBSET (Nat \X Nat) : handed' = [handed EXCEPT ![t] = set] /\ set \subseteq handed[t]
  <2>1. PICK q \in handed[t] : handed' = [handed EXCEPT ![t] = @ \ {q}] \/ handed' = handed
    BY DEF Analytics!Transmit
  <2>2. handed[t] \in SUBSET (Nat \X Nat) /\ handed = [handed EXCEPT ![t] = handed[t]]
    BY <1>1 DEF LibraryTyped
  <2> QED BY <2>1, <2>2
<1>3. PICK more \in SUBSET Nat : aborted' = [aborted EXCEPT ![t] = @ \cup more]
  <2>1. PICK q \in handed[t] : aborted' = [aborted EXCEPT ![t] = @ \cup {q[2]}] \/ aborted' = aborted
    BY DEF Analytics!Transmit
  <2>2. {q[2]} \in SUBSET Nat /\ aborted = [aborted EXCEPT ![t] = @ \cup {}] /\ {} \in SUBSET Nat
    BY <1>1 DEF LibraryTyped
  <2> QED BY <2>1, <2>2
<1>4. LibraryTyped'
  BY <1>1, <1>2, <1>3 DEF LibraryTyped
<1>5. /\ handed'[t] = set /\ aborted'[t] = aborted[t] \cup more
      /\ \A u \in Tabs \ {t} : handed'[u] = handed[u] /\ aborted'[u] = aborted[u]
  BY <1>1, <1>2, <1>3 DEF LibraryTyped
<1>6. TabSound(t)'
  BY <1>1, <1>2, <1>5 DEF TabSound, Captured
<1>7. \A n \in 1 .. Len(era) : n \in 1 .. Len(era') /\ era'[n] = era[n]
  BY <1>1
<1> QED BY <1>1, <1>4, <1>5, <1>6, <1>7, OtherTabsRest

(* A choice starts or stops the library of a tab. *)
LEMMA ChoosesLibrary ==
  ASSUME LibraryInv, NEW t \in Tabs, NEW yes, Analytics!Choose(t, yes)
  PROVE  LibraryInv'
<1>1. era' = era
  BY DEF Analytics!Choose
<1>2. CASE Analytics!Stop(t)
  BY <1>1, <1>2, LibraryStops
<1>3. CASE Analytics!Start(t)
  BY <1>1, <1>3, LibraryRests DEF Analytics!Start
<1> QED BY <1>2, <1>3 DEF Analytics!Choose

(* Nothing is offered or awaited, and nothing becomes so. *)
LEMMA QuietDiagnostics ==
  ASSUME NoReports, NEW t \in Tabs, NEW e, Milder(diag[t], e), diag' = [diag EXCEPT ![t] = e]
  PROVE  diag' \in [Tabs -> Records] /\ \A u \in Tabs : diag'[u].pending = None /\ diag'[u].sending = None
BY DEF NoReports, Milder

(* A choice offers no report. *)
LEMMA ChoosesQuietly ==
  ASSUME NoReports, NEW t \in Tabs, NEW yes, Analytics!Choose(t, yes)
  PROVE  diag' \in [Tabs -> Records] /\ \A u \in Tabs : diag'[u].pending = None /\ diag'[u].sending = None
<1>1. PICK on \in BOOLEAN : diag' = [diag EXCEPT ![t] = Analytics!Configured(@, on)]
  <2>1. Analytics!Enabled(t, permitted', cookie') \in BOOLEAN
    BY DEF Analytics!Enabled
  <2> QED BY <2>1 DEF Analytics!Choose
<1>2. PICK e \in Records : e = Analytics!Configured(diag[t], on) /\ Milder(diag[t], e)
  <2>1. diag[t] \in Records
    BY DEF NoReports
  <2> QED BY <2>1, ConfiguredIsMilder DEF Milder
<1>3. diag' = [diag EXCEPT ![t] = e]
  BY <1>1, <1>2
<1> QED BY <1>2, <1>3, QuietDiagnostics

(* What is told to the other tabs are notes. *)
LEMMA ToldIsNotes ==
  ASSUME inbox \in [Tabs -> Seq(Notes)], NEW t, NEW key \in {"telemetry", "muted"}, NEW yes \in BOOLEAN
  PROVE  Analytics!Told(t, key, yes) \in [Tabs -> Seq(Notes)]
<1>1. <<key, yes>> \in Notes
  BY DEF Notes
<1>2. \A u \in Tabs : Append(inbox[u], <<key, yes>>) \in Seq(Notes)
  BY <1>1, AppendProperties
<1> QED BY <1>2 DEF Analytics!Told

(* Every step of a behaviour about analytics. *)
LEMMA AnalyticsStep ==
  ASSUME LibraryInv, NoReports, NEW t \in Tabs,
         \/ Analytics!Open(t) \/ Analytics!Heard(t) \/ Analytics!Poll(t) \/ Analytics!Loaded(t)
         \/ Analytics!LoadFails(t) \/ Analytics!Capture(t) \/ Analytics!Transmit(t)
         \/ Analytics!Report(t) \/ Analytics!SendReport(t) \/ Analytics!Answered(t)
         \/ Analytics!Feedback(t) \/ Analytics!Dismiss(t)
         \/ \E yes \in BOOLEAN : Analytics!SetEnabled(t, yes) \/ Analytics!Mute(t, yes)
  PROVE  LibraryInv' /\ NoReports'
<1>1. /\ diag[t] \in Records /\ diag[t].pending = None /\ diag[t].sending = None
      /\ used \in Uses /\ used.reports = 0 /\ inbox \in [Tabs -> Seq(Notes)]
  BY DEF NoReports
<1>2. CASE Analytics!Open(t) \/ Analytics!Poll(t)
  BY <1>2, ChoosesLibrary, ChoosesQuietly DEF Analytics!Open, Analytics!Poll, NoReports
<1>3. ASSUME NEW yes \in BOOLEAN, Analytics!SetEnabled(t, yes) PROVE LibraryInv' /\ NoReports'
  <2>1. Analytics!Choose(t, yes) /\ inbox' = Analytics!Told(t, "telemetry", yes)
        /\ used' = [used EXCEPT !.choices = @ + 1]
    BY <1>3 DEF Analytics!SetEnabled
  <2>2. used' \in Uses /\ used'.reports = 0
    BY <1>1, <2>1 DEF Uses
  <2> QED BY <1>1, <2>1, <2>2, ChoosesLibrary, ChoosesQuietly, ToldIsNotes DEF NoReports
<1>4. CASE Analytics!Heard(t)
  <2>1. inbox[t] \in Seq(Notes) /\ inbox[t] # <<>> /\ inbox' = [inbox EXCEPT ![t] = Tail(@)]
    BY <1>1, <1>4 DEF Analytics!Heard
  <2>2. Tail(inbox[t]) \in Seq(Notes) /\ Head(inbox[t]) \in Notes
    BY <2>1, HeadTailProperties
  <2>3. inbox' \in [Tabs -> Seq(Notes)]
    BY <1>1, <2>1, <2>2
  <2>4. CASE Analytics!Choose(t, Head(inbox[t])[2]) /\ used' = used
    BY <1>1, <2>3, <2>4, ChoosesLibrary, ChoosesQuietly DEF NoReports
  <2>5. CASE /\ diag' = [diag EXCEPT ![t] = Analytics!Cleared([@ EXCEPT !.muted = Head(inbox[t])[2]])]
             /\ UNCHANGED <<epoch, Analytics!library, used>>
    <3>1. PICK yes \in BOOLEAN : yes = Head(inbox[t])[2]
      BY <2>2 DEF Notes
    <3>2. PICK e \in Records : e = Analytics!Cleared([diag[t] EXCEPT !.muted = yes]) /\ Milder(diag[t], e)
      BY <1>1, ClearedIsMilder DEF Milder
    <3>3. diag' = [diag EXCEPT ![t] = e]
      BY <2>5, <3>1, <3>2
    <3>4. LibraryInv'
      BY <2>5, LibraryRests DEF Analytics!library
    <3> QED BY <1>1, <2>3, <2>5, <3>2, <3>3, <3>4, QuietDiagnostics DEF NoReports
  <2> QED BY <1>4, <2>4, <2>5 DEF Analytics!Heard
<1>5. CASE Analytics!Loaded(t)
  BY <1>5, LibraryLoads DEF Analytics!Loaded, Analytics!local, NoReports
<1>6. CASE Analytics!LoadFails(t)
  <2>1. used' = [used EXCEPT !.faults = @ + 1] /\ UNCHANGED <<inbox, diag>>
    BY <1>6 DEF Analytics!LoadFails, Analytics!local
  <2>2. used' \in Uses /\ used'.reports = 0
    BY <1>1, <2>1 DEF Uses
  <2> QED BY <1>6, <2>1, <2>2, LibraryFails DEF NoReports
<1>7. CASE Analytics!Capture(t)
  <2>1. PICK e \in Records : e = Analytics!Configured(diag[t], TRUE) /\ Milder(diag[t], e)
    BY <1>1, ConfiguredIsMilder DEF Milder
  <2>2. diag' = [diag EXCEPT ![t] = e] /\ UNCHANGED <<inbox, used>>
    BY <1>7, <2>1 DEF Analytics!Capture, Analytics!consent
  <2> QED BY <1>1, <1>7, <2>1, <2>2, LibraryCaptures, QuietDiagnostics DEF NoReports
<1>8. CASE Analytics!Transmit(t)
  <2>1. UNCHANGED <<inbox, diag, used>>
    BY <1>8 DEF Analytics!Transmit, Analytics!consent, Analytics!local
  <2> QED BY <1>8, <2>1, LibraryTransmits DEF NoReports
<1>9. CASE Analytics!Report(t) \/ Analytics!SendReport(t) \/ Analytics!Feedback(t) \/ Analytics!Dismiss(t)
  BY <1>1, <1>9 DEF Analytics!Report, Analytics!SendReport, Analytics!Feedback, Analytics!Dismiss,
                    Analytics!Offered
<1>10. CASE Analytics!Answered(t)
  <2>1. /\ UNCHANGED <<epoch, Analytics!library, inbox, used>>
        /\ \E status \in {"sent", "uncertain"} :
             diag' = [diag EXCEPT ![t] = [diag[t] EXCEPT !.sending = None, !.status = status]]
             \/ diag' = [diag EXCEPT ![t] = diag[t]]
    BY <1>10 DEF Analytics!Answered, Analytics!Diagnose
  <2>2. PICK e \in Records : diag' = [diag EXCEPT ![t] = e] /\ e.pending = None /\ e.sending = None
    <3>1. \A status \in {"sent", "uncertain"} :
            LET e == [diag[t] EXCEPT !.sending = None, !.status = status]
            IN  e \in Records /\ e.pending = None /\ e.sending = None
      BY <1>1 DEF Records
    <3> QED BY <1>1, <2>1, <3>1
  <2>3. LibraryInv'
    BY <2>1, LibraryRests DEF Analytics!library
  <2> QED BY <2>1, <2>2, <2>3 DEF NoReports
<1>11. ASSUME NEW yes \in BOOLEAN, Analytics!Mute(t, yes) PROVE LibraryInv' /\ NoReports'
  <2>1. /\ diag' = [diag EXCEPT ![t] = Analytics!Cleared([diag[t] EXCEPT !.muted = yes])]
        /\ inbox' = Analytics!Told(t, "muted", yes) /\ used' = [used EXCEPT !.choices = @ + 1]
        /\ UNCHANGED <<epoch, Analytics!library>>
    BY <1>11 DEF Analytics!Mute, Analytics!Diagnose
  <2>2. used' \in Uses /\ used'.reports = 0
    BY <1>1, <2>1 DEF Uses
  <2>3. PICK e \in Records : e = Analytics!Cleared([diag[t] EXCEPT !.muted = yes]) /\ Milder(diag[t], e)
    BY <1>1, ClearedIsMilder DEF Milder
  <2>4. LibraryInv'
    BY <2>1, LibraryRests DEF Analytics!library
  <2>5. inbox' \in [Tabs -> Seq(Notes)]
    BY <1>1, <2>1, ToldIsNotes
  <2>6. diag' = [diag EXCEPT ![t] = e]
    BY <2>1, <2>3
  <2> QED BY <2>2, <2>3, <2>4, <2>5, <2>6, QuietDiagnostics DEF NoReports
<1> QED BY <1>2, <1>3, <1>4, <1>5, <1>6, <1>7, <1>8, <1>9, <1>10, <1>11

-----------------------------------------------------------------------------
(* The steps of the local reports.                                             *)

(* A tab whose diagnostics became milder keeps what holds of reports. *)
LEMMA NotedOnce ==
  ASSUME ReportsInv, NEW e, Milder(diag[Tab], e), diag' = [diag EXCEPT ![Tab] = e],
         UNCHANGED <<flights, given>>, inbox' \in [{Tab} -> Seq(Notes)],
         used' \in Uses, used'.reports = used.reports
  PROVE  ReportsInv'
<1>1. diag' \in [{Tab} -> Records] /\ diag'[Tab] = e
  BY DEF ReportsInv, Milder
<1>2. Known' = Known
  BY DEF Known
<1>3. OfferedOnce(diag[Tab])'
  BY <1>1, <1>2 DEF ReportsInv, OfferedOnce, Milder
<1> QED BY <1>1, <1>2, <1>3 DEF ReportsInv

(* A choice keeps what holds of reports. *)
LEMMA ChoosesOnce ==
  ASSUME ReportsInv, NEW yes, Reports!Choose(Tab, yes), inbox' \in [{Tab} -> Seq(Notes)],
         used' \in Uses, used'.reports = used.reports
  PROVE  ReportsInv'
<1>1. PICK on \in BOOLEAN : diag' = [diag EXCEPT ![Tab] = Reports!Configured(@, on)]
  <2>1. Reports!Enabled(Tab, permitted', cookie') \in BOOLEAN
    BY DEF Reports!Enabled
  <2> QED BY <2>1 DEF Reports!Choose
<1>2. PICK e \in Records : e = Reports!Configured(diag[Tab], on) /\ Milder(diag[Tab], e)
  <2>1. diag[Tab] \in Records
    BY DEF ReportsInv
  <2> QED BY <2>1, ConfiguredIsMilder DEF Milder
<1>3. diag' = [diag EXCEPT ![Tab] = e]
  BY <1>1, <1>2
<1>4. UNCHANGED <<flights, given>>
  BY DEF Reports!Choose
<1> QED BY <1>2, <1>3, <1>4, NotedOnce

(* Without events nothing is queued or handed over. *)
LEMMA ChoosesNothingCaptured ==
  ASSUME NothingCaptured, NEW yes, Reports!Choose(Tab, yes)
  PROVE  NothingCaptured' /\ sent' = sent
BY DEF NothingCaptured, Reports!Choose, Reports!Start, Reports!Stop

(* The same of what is told, where there is one tab. *)
LEMMA ToldIsNotesInOne ==
  ASSUME inbox \in [{Tab} -> Seq(Notes)], NEW t, NEW key \in {"telemetry", "muted"}, NEW yes \in BOOLEAN
  PROVE  Reports!Told(t, key, yes) \in [{Tab} -> Seq(Notes)]
<1>1. <<key, yes>> \in Notes
  BY DEF Notes
<1>2. \A u \in {Tab} : Append(inbox[u], <<key, yes>>) \in Seq(Notes)
  BY <1>1, AppendProperties
<1>3. Reports!Told(t, key, yes) = [u \in {Tab} |-> IF u \in open \ {t} THEN Append(inbox[u], <<key, yes>>)
                                                   ELSE inbox[u]]
  BY DEF Reports!Told, Tab
<1> QED BY <1>2, <1>3

(* An error offers a report that was never offered before. *)
LEMMA ReportOffers == ReportsInv /\ Reports!Report(Tab) => ReportsInv'
<1> SUFFICES ASSUME ReportsInv, Reports!Report(Tab) PROVE ReportsInv'
  OBVIOUS
<1>1. /\ diag \in [{Tab} -> Records] /\ used \in Uses /\ used.reports <= MaxReports
      /\ given \in [1 .. MaxReports -> Nat] /\ MaxReports \in Nat
  BY BoundsAssumption DEF ReportsInv
<1>2. PICK d \in Records : d = Reports!Configured(diag[Tab], FALSE)
  BY <1>1, ConfiguredIsMilder DEF Milder
<1>3. PICK r \in 1 .. MaxReports : r = used.reports + 1
  BY <1>1 DEF Reports!Report, Uses
<1>4. /\ d.sending = None /\ UNCHANGED <<inbox, flights, given>>
      /\ diag' = [diag EXCEPT ![Tab] = [d EXCEPT !.pending = r, !.status = "idle"]]
      /\ used' = [used EXCEPT !.reports = r]
  BY <1>2, <1>3 DEF Reports!Report, Reports!Diagnose
<1>5. used' \in Uses /\ used'.reports = r
  BY <1>1, <1>3, <1>4 DEF Uses
<1>6. PICK e \in Records : e = [d EXCEPT !.pending = r, !.status = "idle"] /\ e.pending = r /\ e.sending = None
         /\ e.status = "idle"
  <2>1. r \in Nat
    BY <1>1
  <2>2. [d EXCEPT !.pending = r, !.status = "idle"] \in Records
    BY <2>1 DEF Records
  <2>3. /\ [d EXCEPT !.pending = r, !.status = "idle"].pending = r
        /\ [d EXCEPT !.pending = r, !.status = "idle"].sending = d.sending
        /\ [d EXCEPT !.pending = r, !.status = "idle"].status = "idle"
    BY DEF Records
  <2> QED BY <1>4, <2>2, <2>3
<1>7. diag' \in [{Tab} -> Records] /\ diag'[Tab] = e
  BY <1>1, <1>4, <1>6
<1>8. r \notin Known /\ Known' = Known \cup {r}
  BY <1>1, <1>3, <1>5 DEF Known, Uses
<1>9. given[r] = 0
  BY <1>8 DEF ReportsInv
<1>10. OfferedOnce(diag[Tab])'
  BY <1>4, <1>6, <1>7, <1>8, <1>9 DEF OfferedOnce
<1> QED BY <1>1, <1>4, <1>5, <1>7, <1>8, <1>10 DEF ReportsInv

(* The report offered leaves, by the prompt or with the feedback form. *)
LEMMA ReportLeaves ==
  ASSUME ReportsInv, NEW r, r = diag[Tab].pending, r # None,
         given' = [given EXCEPT ![r] = @ + 1], UNCHANGED <<inbox, used>>,
         diag' \in [{Tab} -> Records], flights' \in [{Tab} -> SUBSET Nat],
         diag'[Tab].pending = None,
         diag'[Tab].sending # None => diag'[Tab].sending \in flights'[Tab] /\ diag'[Tab].status = "idle"
  PROVE  ReportsInv'
<1>1. /\ used \in Uses /\ used.reports <= MaxReports /\ given \in [1 .. MaxReports -> Nat] /\ MaxReports \in Nat
      /\ r \in Known /\ given[r] = 0 /\ inbox \in [{Tab} -> Seq(Notes)]
      /\ \A n \in 1 .. MaxReports : given[n] <= 1 /\ (n \notin Known => given[n] = 0)
  BY BoundsAssumption DEF ReportsInv, OfferedOnce
<1>2. r \in 1 .. MaxReports
  BY <1>1 DEF Known, Uses
<1>3. /\ given' \in [1 .. MaxReports -> Nat] /\ given'[r] = 1
      /\ \A n \in (1 .. MaxReports) \ {r} : given'[n] = given[n]
  BY <1>1, <1>2
<1>4. Known' = Known
  BY DEF Known
<1>5. \A n \in 1 .. MaxReports : given'[n] <= 1 /\ (n \notin Known => given'[n] = 0)
  BY <1>1, <1>3
<1>6. OfferedOnce(diag[Tab])'
  BY DEF OfferedOnce
<1> QED BY <1>1, <1>3, <1>4, <1>5, <1>6 DEF ReportsInv

(* Every step of a behaviour about reports. *)
LEMMA ReportsStep ==
  ASSUME ReportsInv, NothingCaptured,
         \/ Reports!Open(Tab) \/ Reports!Heard(Tab) \/ Reports!Poll(Tab) \/ Reports!Loaded(Tab)
         \/ Reports!LoadFails(Tab) \/ Reports!Capture(Tab) \/ Reports!Transmit(Tab)
         \/ Reports!Report(Tab) \/ Reports!SendReport(Tab) \/ Reports!Answered(Tab)
         \/ Reports!Feedback(Tab) \/ Reports!Dismiss(Tab)
         \/ \E yes \in BOOLEAN : Reports!SetEnabled(Tab, yes) \/ Reports!Mute(Tab, yes)
  PROVE  ReportsInv' /\ NothingCaptured' /\ sent' = sent
<1>1. /\ diag \in [{Tab} -> Records] /\ diag[Tab] \in Records /\ used \in Uses
      /\ inbox \in [{Tab} -> Seq(Notes)] /\ flights \in [{Tab} -> SUBSET Nat]
      /\ queued = [t \in {Tab} |-> {}] /\ handed = [t \in {Tab} |-> {}] /\ Len(era) = 0
  BY DEF ReportsInv, NothingCaptured
<1>2. CASE Reports!Open(Tab) \/ Reports!Poll(Tab)
  BY <1>1, <1>2, ChoosesOnce, ChoosesNothingCaptured DEF Reports!Open, Reports!Poll
<1>3. ASSUME NEW yes \in BOOLEAN, Reports!SetEnabled(Tab, yes)
      PROVE  ReportsInv' /\ NothingCaptured' /\ sent' = sent
  <2>1. Reports!Choose(Tab, yes) /\ inbox' = Reports!Told(Tab, "telemetry", yes)
        /\ used' = [used EXCEPT !.choices = @ + 1]
    BY <1>3 DEF Reports!SetEnabled
  <2>2. used' \in Uses /\ used'.reports = used.reports
    BY <1>1, <2>1 DEF Uses
  <2>3. inbox' \in [{Tab} -> Seq(Notes)]
    BY <1>1, <2>1, ToldIsNotesInOne
  <2> QED BY <2>1, <2>2, <2>3, ChoosesOnce, ChoosesNothingCaptured
<1>4. CASE Reports!Heard(Tab)
  <2>1. inbox[Tab] \in Seq(Notes) /\ inbox[Tab] # <<>> /\ inbox' = [inbox EXCEPT ![Tab] = Tail(@)]
    BY <1>1, <1>4 DEF Reports!Heard
  <2>2. Tail(inbox[Tab]) \in Seq(Notes) /\ Head(inbox[Tab]) \in Notes
    BY <2>1, HeadTailProperties
  <2>3. inbox' \in [{Tab} -> Seq(Notes)]
    BY <1>1, <2>1, <2>2
  <2>4. CASE Reports!Choose(Tab, Head(inbox[Tab])[2]) /\ used' = used
    BY <1>1, <2>3, <2>4, ChoosesOnce, ChoosesNothingCaptured
  <2>5. CASE /\ diag' = [diag EXCEPT ![Tab] = Reports!Cleared([@ EXCEPT !.muted = Head(inbox[Tab])[2]])]
             /\ UNCHANGED <<Reports!library, flights, given, used>>
    <3>1. PICK yes \in BOOLEAN : yes = Head(inbox[Tab])[2]
      BY <2>2 DEF Notes
    <3>2. PICK e \in Records : e = Reports!Cleared([diag[Tab] EXCEPT !.muted = yes]) /\ Milder(diag[Tab], e)
      BY <1>1, ClearedIsMilder DEF Milder
    <3>3. diag' = [diag EXCEPT ![Tab] = e]
      BY <2>5, <3>1, <3>2
    <3>4. NothingCaptured' /\ sent' = sent
      BY <2>5 DEF Reports!library, NothingCaptured
    <3>5. used' \in Uses /\ used'.reports = used.reports /\ UNCHANGED <<flights, given>>
      BY <1>1, <2>5
    <3>6. ReportsInv'
      BY <2>3, <3>2, <3>3, <3>5, NotedOnce
    <3> QED BY <3>4, <3>6
  <2> QED BY <1>4, <2>4, <2>5 DEF Reports!Heard
<1>5. CASE Reports!Loaded(Tab)
  <2>1. UNCHANGED <<inbox, diag, flights, given, used, sent, era>>
    BY <1>5 DEF Reports!Loaded, Reports!local
  <2>2. queued' = queued /\ handed' = handed
    BY <1>1, <1>5 DEF Reports!Loaded
  <2> QED BY <2>1, <2>2 DEF ReportsInv, OfferedOnce, Known, NothingCaptured
<1>6. CASE Reports!LoadFails(Tab)
  BY <1>1, <1>6 DEF Reports!LoadFails, Uses
<1>7. CASE Reports!Capture(Tab) \/ Reports!Transmit(Tab)
  BY <1>1, <1>7 DEF Reports!Capture, Reports!Transmit, Reports!Events
<1>8. ASSUME Reports!Report(Tab) \/ Reports!SendReport(Tab) \/ Reports!Answered(Tab) \/ Reports!Feedback(Tab)
             \/ Reports!Dismiss(Tab) \/ \E yes \in BOOLEAN : Reports!Mute(Tab, yes)
      PROVE  NothingCaptured' /\ sent' = sent
  <2>1. UNCHANGED Reports!library
    BY <1>8 DEF Reports!Report, Reports!SendReport, Reports!Answered, Reports!Feedback, Reports!Dismiss,
                Reports!Mute, Reports!Diagnose
  <2> QED BY <2>1 DEF Reports!library, NothingCaptured
<1>9. CASE Reports!Report(Tab)
  BY <1>8, <1>9, ReportOffers
<1>10. CASE Reports!SendReport(Tab)
  <2>1. PICK r \in Nat \cup {None} : r = diag[Tab].pending
    BY <1>1 DEF Records
  <2>2. /\ r # None /\ given' = [given EXCEPT ![r] = @ + 1] /\ UNCHANGED <<inbox, used>>
        /\ flights' = [flights EXCEPT ![Tab] = @ \cup {r}]
        /\ diag' = [diag EXCEPT ![Tab] = [diag[Tab] EXCEPT !.pending = None, !.sending = r]]
    BY <1>10, <2>1 DEF Reports!SendReport, Reports!Offered, Reports!Diagnose, Reports!Consumed
  <2>3. flights' \in [{Tab} -> SUBSET Nat] /\ r \in flights'[Tab]
    <3>1. flights[Tab] \cup {r} \in SUBSET Nat
      BY <1>1, <2>2
    <3> QED BY <1>1, <2>2, <3>1
  <2>4. [diag[Tab] EXCEPT !.pending = None, !.sending = r] \in Records
    BY <1>1 DEF Records
  <2>5. /\ diag' \in [{Tab} -> Records] /\ diag'[Tab].pending = None /\ diag'[Tab].sending = r
        /\ diag'[Tab].status = diag[Tab].status /\ diag[Tab].status = "idle"
    BY <1>1, <2>1, <2>2, <2>4 DEF Records, ReportsInv, OfferedOnce
  <2> QED BY <1>8, <1>10, <2>1, <2>2, <2>3, <2>5, ReportLeaves
<1>11. CASE Reports!Feedback(Tab)
  <2>1. PICK r \in Nat \cup {None} : r = diag[Tab].pending
    BY <1>1 DEF Records
  <2>2. PICK e \in Records : e = Reports!Cleared(diag[Tab]) /\ e.pending = None /\ e.sending = None
    <3>1. Reports!Cleared(diag[Tab]) \in Records
      BY <1>1 DEF Records, Reports!Cleared
    <3>2. Reports!Cleared(diag[Tab]).pending = None /\ Reports!Cleared(diag[Tab]).sending = None
      BY <1>1 DEF Records, Reports!Cleared
    <3> QED BY <3>1, <3>2
  <2>3. /\ r # None /\ given' = [given EXCEPT ![r] = @ + 1] /\ UNCHANGED <<inbox, flights, used>>
        /\ diag' = [diag EXCEPT ![Tab] = e]
    BY <1>11, <2>1, <2>2 DEF Reports!Feedback, Reports!Offered, Reports!Diagnose
  <2>4. diag' \in [{Tab} -> Records] /\ diag'[Tab] = e
    BY <1>1, <2>3
  <2>5. flights' \in [{Tab} -> SUBSET Nat]
    BY <1>1, <2>3
  <2>6. ReportsInv'
    BY <2>1, <2>2, <2>3, <2>4, <2>5, ReportLeaves
  <2> QED BY <1>8, <1>11, <2>6
<1>12. CASE Reports!Dismiss(Tab)
  <2>1. PICK e \in Records : e = Reports!Cleared(diag[Tab]) /\ Milder(diag[Tab], e)
    BY <1>1, ClearedIsMilder DEF Milder
  <2>2. diag' = [diag EXCEPT ![Tab] = e] /\ UNCHANGED <<inbox, flights, given, used>>
    BY <1>12, <2>1 DEF Reports!Dismiss, Reports!Diagnose
  <2> QED BY <1>1, <1>8, <1>12, <2>1, <2>2, NotedOnce
<1>13. ASSUME NEW yes \in BOOLEAN, Reports!Mute(Tab, yes)
       PROVE  ReportsInv' /\ NothingCaptured' /\ sent' = sent
  <2>1. /\ diag' = [diag EXCEPT ![Tab] = Reports!Cleared([diag[Tab] EXCEPT !.muted = yes])]
        /\ inbox' = Reports!Told(Tab, "muted", yes) /\ used' = [used EXCEPT !.choices = @ + 1]
        /\ UNCHANGED <<flights, given>>
    BY <1>13 DEF Reports!Mute, Reports!Diagnose
  <2>2. used' \in Uses /\ used'.reports = used.reports
    BY <1>1, <2>1 DEF Uses
  <2>3. PICK e \in Records : e = Reports!Cleared([diag[Tab] EXCEPT !.muted = yes]) /\ Milder(diag[Tab], e)
    BY <1>1, ClearedIsMilder DEF Milder
  <2>4. inbox' \in [{Tab} -> Seq(Notes)]
    BY <1>1, <2>1, ToldIsNotesInOne
  <2>5. diag' = [diag EXCEPT ![Tab] = e]
    BY <2>1, <2>3
  <2>6. ReportsInv'
    BY <2>1, <2>2, <2>3, <2>4, <2>5, NotedOnce
  <2> QED BY <1>8, <1>13, <2>6
<1>14. CASE Reports!Answered(Tab)
  <2>1. PICK r \in Nat, result \in {"sent", "uncertain"} :
          /\ flights' = [flights EXCEPT ![Tab] = @ \ {r}] /\ UNCHANGED <<inbox, given, used>>
          /\ diag' = [diag EXCEPT ![Tab] =
               IF diag[Tab].sending = r THEN [diag[Tab] EXCEPT !.sending = None, !.status = result]
               ELSE diag[Tab]]
    BY <1>1, <1>14 DEF Reports!Answered, Reports!Awaited, Reports!Diagnose
  <2>2. flights' \in [{Tab} -> SUBSET Nat] /\ flights'[Tab] = flights[Tab] \ {r}
    BY <1>1, <2>1
  <2>3. Known' = Known
    BY <2>1 DEF Known
  <2>4. CASE diag[Tab].sending = r
    <3>1. PICK e \in Records : /\ e = [diag[Tab] EXCEPT !.sending = None, !.status = result]
                               /\ e.sending = None /\ e.pending = diag[Tab].pending
      <4>1. [diag[Tab] EXCEPT !.sending = None, !.status = result] \in Records
        BY <1>1 DEF Records
      <4>2. LET e == [diag[Tab] EXCEPT !.sending = None, !.status = result]
            IN  e.sending = None /\ e.pending = diag[Tab].pending
        BY <1>1 DEF Records
      <4> QED BY <4>1, <4>2
    <3>2. diag' \in [{Tab} -> Records] /\ diag'[Tab] = e
      BY <1>1, <2>1, <2>4, <3>1
    <3>3. OfferedOnce(diag[Tab])'
      <4>1. diag[Tab].pending = None
        BY <2>4, NoneAssumption DEF ReportsInv, OfferedOnce
      <4> QED BY <3>1, <3>2, <4>1 DEF OfferedOnce
    <3> QED BY <1>8, <1>14, <2>1, <2>2, <2>3, <3>2, <3>3 DEF ReportsInv
  <2>5. CASE diag[Tab].sending # r
    <3>1. diag' \in [{Tab} -> Records] /\ diag'[Tab] = diag[Tab]
      BY <1>1, <2>1, <2>5
    <3>2. OfferedOnce(diag[Tab])'
      BY <2>1, <2>2, <2>3, <2>5, <3>1 DEF ReportsInv, OfferedOnce
    <3> QED BY <1>8, <1>14, <2>1, <2>2, <2>3, <3>1, <3>2 DEF ReportsInv
  <2> QED BY <2>4, <2>5
<1> QED BY <1>2, <1>3, <1>4, <1>5, <1>6, <1>7, <1>9, <1>10, <1>11, <1>12, <1>13, <1>14

-----------------------------------------------------------------------------
(* Telemetry. *)

(* The invariant of both holds at the start, *)
LEMMA TellStarts == Init => TellInv
<1> SUFFICES ASSUME Init PROVE TellInv
  OBVIOUS
<1>1. ASSUME subject # "reports" PROVE LibraryInv /\ NoReports
  <2>1. Analytics!Init
    BY <1>1 DEF Init
  <2>2. era = <<>> /\ Len(era) = 0 /\ era \in Seq(Tabs \X Nat)
    BY <2>1 DEF Analytics!Init
  <2>3. /\ epoch = [t \in Tabs |-> 0] /\ client = [t \in Tabs |-> None] /\ aborted = [t \in Tabs |-> {}]
        /\ queued = [t \in Tabs |-> {}] /\ handed = [t \in Tabs |-> {}]
        /\ diag = [t \in Tabs |-> Analytics!Idle] /\ inbox = [t \in Tabs |-> <<>>]
        /\ used = [choices |-> 0, reports |-> 0, faults |-> 0]
    BY <2>1 DEF Analytics!Init
  <2>4. LibraryInv
    BY <2>2, <2>3 DEF LibraryInv, LibraryTyped
  <2>5. Analytics!Idle \in Records /\ Analytics!Idle.pending = None /\ Analytics!Idle.sending = None
    BY DEF Analytics!Idle, Records
  <2>6. used \in Uses /\ used.reports = 0
    BY <2>3 DEF Uses
  <2>7. <<>> \in Seq(Notes)
    OBVIOUS
  <2> QED BY <2>3, <2>4, <2>5, <2>6, <2>7 DEF NoReports
<1>2. ASSUME subject = "reports" PROVE ReportsInv /\ NothingCaptured
  <2>1. Reports!Init
    BY <1>2 DEF Init
  <2>2. /\ queued = [t \in {Tab} |-> {}] /\ handed = [t \in {Tab} |-> {}] /\ era = <<>>
        /\ diag = [t \in {Tab} |-> Reports!Idle] /\ inbox = [t \in {Tab} |-> <<>>]
        /\ flights = [t \in {Tab} |-> {}] /\ given = [r \in 1 .. MaxReports |-> 0]
        /\ used = [choices |-> 0, reports |-> 0, faults |-> 0]
    BY <2>1 DEF Reports!Init, Reports!Reports, Tab
  <2>3. Reports!Idle \in Records /\ Reports!Idle.pending = None /\ Reports!Idle.sending = None
    BY DEF Reports!Idle, Records
  <2>4. used \in Uses /\ used.reports = 0 /\ used.reports <= MaxReports
    BY <2>2, BoundsAssumption DEF Uses
  <2>5. OfferedOnce(diag[Tab])
    BY <2>2, <2>3 DEF OfferedOnce
  <2>6. <<>> \in Seq(Notes) /\ Len(era) = 0
    BY <2>2
  <2> QED BY <2>2, <2>3, <2>4, <2>5, <2>6 DEF ReportsInv, NothingCaptured
<1> QED BY <1>1, <1>2 DEF TellInv

(* in a step of another part, *)
LEMMA TellRests ==
  ASSUME TellInv, UNCHANGED <<subject, tellVars>>
  PROVE  TellInv' /\ sent' = sent
<1>1. UNCHANGED <<subject, inbox, epoch, client, aborted, queued, handed, sent, era, diag, flights, given, used>>
  BY DEF tellVars
<1> QED BY <1>1 DEF TellInv, LibraryInv, LibraryTyped, Captured, NoReports, ReportsInv, OfferedOnce, Known,
                    NothingCaptured

(* and after every step, which sends nothing of an old choice. *)
LEMMA TellStep ==
  ASSUME TellInv, [Next]_vars
  PROVE  TellInv' /\ (subject = "analytics" \/ sent' = sent)
<1>1. CASE UNCHANGED <<subject, tellVars>>
  BY <1>1, TellRests
<1>2. CASE subject = "analytics" /\ Analytics!Next /\ subject' = subject
  <2>1. LibraryInv /\ NoReports
    BY <1>2 DEF TellInv
  <2>2. LibraryInv' /\ NoReports'
    BY <1>2, <2>1, AnalyticsStep DEF Analytics!Next
  <2> QED BY <1>2, <2>2 DEF TellInv
<1>3. CASE subject = "reports" /\ Reports!Next /\ subject' = subject
  <2>1. ReportsInv /\ NothingCaptured
    BY <1>3 DEF TellInv
  <2>2. ReportsInv' /\ NothingCaptured' /\ sent' = sent
    <3>1. \A t \in {CHOOSE t \in Tabs : TRUE} : t = Tab
      BY DEF Tab
    <3> QED BY <1>3, <2>1, <3>1, ReportsStep DEF Reports!Next
  <2> QED BY <1>3, <2>2 DEF TellInv
<1> QED BY <1>1, <1>2, <1>3 DEF Next, vars

(* It gives what the telemetry promises. *)
LEMMA TellSound == TellInv => TelemetrySettles
<1> SUFFICES ASSUME TellInv PROVE TelemetrySettles
  OBVIOUS
<1>1. ASSUME subject = "analytics" PROVE Analytics!OneLibrary /\ Analytics!ReportedOnce
  <2>1. LibraryInv /\ NoReports
    BY <1>1 DEF TellInv
  <2>2. Analytics!OneLibrary
    BY <2>1 DEF LibraryInv, Analytics!OneLibrary
  <2>3. Analytics!ReportedOnce
    BY <2>1 DEF NoReports, Analytics!ReportedOnce, Analytics!Reports
  <2> QED BY <2>2, <2>3
<1>2. ASSUME subject = "reports" PROVE Reports!ReportedOnce
  <2>1. ReportsInv
    BY <1>2 DEF TellInv
  <2>2. \A r \in Reports!Reports : given[r] <= 1
    BY <2>1 DEF ReportsInv, Reports!Reports
  <2>3. \A t \in {CHOOSE t \in Tabs : TRUE} : t = Tab
    BY DEF Tab
  <2> QED BY <2>1, <2>2, <2>3 DEF ReportsInv, OfferedOnce, Reports!ReportedOnce
<1> QED BY <1>1, <1>2 DEF TelemetrySettles

(* In every tab at most one analytics library may send, and it is of the       *)
(* present choice; a report is handed over at most once, and an answer frees   *)
(* only the prompt that waits for it (browser.ts, local-diagnostics.ts,        *)
(* feedback.ts), for any number of tabs, choices, events and failed loads.     *)
THEOREM TelemetryIsSettled == Spec => []TelemetrySettles
<1>1. TellInv /\ [Next]_vars => TellInv'
  BY TellStep
<1> QED BY <1>1, TellStarts, TellSound, PTL DEF Spec

(* What leaves the browser was captured in the epoch of the present choice:    *)
(* retired libraries are aborted, and the queue is emptied by every opt-out    *)
(* (stop, loadSdk and the fetch of the transport in browser.ts).               *)
THEOREM OldConsentIsOver == Spec => OldConsentSendsNothing
<1>1. TellInv /\ [Next]_vars
      => [\A e \in sent' \ sent : Analytics!On(era[e][1]) /\ era[e][2] = epoch[era[e][1]]]_Analytics!vars
  <2> SUFFICES ASSUME TellInv, [Next]_vars, NEW e \in sent' \ sent
               PROVE  Analytics!On(era[e][1]) /\ era[e][2] = epoch[era[e][1]]
    OBVIOUS
  <2>1. subject = "analytics" /\ Analytics!Next
    BY TellStep DEF Next, vars, tellVars
  <2>2. LibraryInv
    BY <2>1 DEF TellInv
  <2>3. PICK t \in Tabs : Analytics!Transmit(t)
    <3>1. ASSUME NEW t \in Tabs, NEW yes, Analytics!Choose(t, yes) PROVE sent' = sent
      BY <3>1 DEF Analytics!Choose
    <3>2. ASSUME NEW t \in Tabs, NEW d, Analytics!Diagnose(t, d) PROVE sent' = sent
      BY <3>2 DEF Analytics!Diagnose, Analytics!library
    <3>3. ASSUME NEW t \in Tabs, \/ Analytics!Open(t) \/ Analytics!Heard(t) \/ Analytics!Poll(t)
                                \/ \E yes \in BOOLEAN : Analytics!SetEnabled(t, yes)
          PROVE  sent' = sent
      BY <3>1, <3>3 DEF Analytics!Open, Analytics!Heard, Analytics!Poll, Analytics!SetEnabled, Analytics!library
    <3>4. ASSUME NEW t \in Tabs, \/ Analytics!Report(t) \/ Analytics!SendReport(t) \/ Analytics!Answered(t)
                                \/ Analytics!Feedback(t) \/ Analytics!Dismiss(t)
                                \/ \E yes \in BOOLEAN : Analytics!Mute(t, yes)
          PROVE  sent' = sent
      BY <3>2, <3>4 DEF Analytics!Report, Analytics!SendReport, Analytics!Answered, Analytics!Feedback,
                        Analytics!Dismiss, Analytics!Mute
    <3>5. ASSUME NEW t \in Tabs, Analytics!Loaded(t) \/ Analytics!LoadFails(t) \/ Analytics!Capture(t)
          PROVE  sent' = sent
      BY <3>5 DEF Analytics!Loaded, Analytics!LoadFails, Analytics!Capture
    <3> QED BY <2>1, <3>3, <3>4, <3>5 DEF Analytics!Next
  <2>4. PICK q \in handed[t] : q[1] = e /\ Analytics!On(t) /\ q[2] \notin aborted[t]
    BY <2>3 DEF Analytics!Transmit
  <2>5. q[2] \in Nat /\ q[2] = client[t] /\ era[e] = <<t, q[2]>> /\ q[2] = epoch[t]
    BY <2>2, <2>4, NoneAssumption DEF LibraryInv, LibraryTyped, Captured
  <2> QED BY <2>4, <2>5
<1>2. TellInv /\ [Next]_vars => TellInv'
  BY TellStep
<1> QED BY <1>1, <1>2, TellStarts, PTL DEF Spec, OldConsentSendsNothing, Analytics!OldConsentSendsNothing

-----------------------------------------------------------------------------
(* The statistics panel: a task of the present effect is about what its figure *)
(* reads, was not rejected, and only such a task has a worker.                 *)

(* The types of what figures are about. *)
Selections == [profile : Profiles, revision : Nat]
Plans == [of : Selections \cup {None}, budget : Budgets]
Topics == Selections \cup Plans \cup {None}
Tasks == [what : Panel!Figures, id : Nat, about : Topics,
          at : {"import", "waiting", "running", "rejected"}]
Figured == [id : Nat, value : Topics, error : Tasks \cup {None}]

PanelTyped ==
  /\ chosen \in Selections /\ plan \in Plans /\ tasks \subseteq Tasks
  /\ figure \in [Panel!Figures -> Figured]
  /\ workers \subseteq [what : Panel!Calculated, id : Nat]

ReadBy(what) == Panel!Reads(what, chosen, figure.history.value, plan)

(* A task of the present effect is about what its figure reads and was not rejected. *)
TasksTrue == \A t \in tasks :
  /\ t.at # "waiting" => t.what \in Panel!Calculated
  /\ t.id <= figure[t.what].id
  /\ t.id = figure[t.what].id => t.about = ReadBy(t.what) /\ t.at # "rejected"

PanelInv == PanelTyped /\ TasksTrue /\ Panel!OneHistory /\ Panel!NoWorkerOutlives

-----------------------------------------------------------------------------
(* The reward history.  Pages of the present request, and of the list that is  *)
(* shown, are of what is asked and no older than what the page knows.          *)

(* The types of reads, statistics and comparisons. *)
Reading == [what : {"list", "summary"}, id : Nat, profile : Profiles, type : Types,
            window : Rewards!Windows, parts : Seq(Nat), pages : Lengths \cup {0}]
Summaries == [profile : Profiles, type : Types, revision : Nat]
Runs == [id : Nat, about : Summaries, at : {"running", "aborted"}]

RewardTyped ==
  /\ held \in [revision : Nat, pages : Lengths]
  /\ props \in [profile : Profiles, revision : Nat, loading : BOOLEAN]
  /\ asked \in [type : Types, window : Rewards!Windows]
  /\ list \in [id : Nat, pending : BOOLEAN, error : BOOLEAN, stale : BOOLEAN,
               overview : Reading \cup {None}]
  /\ reads \subseteq Reading
  /\ summary \in [id : Nat, pending : BOOLEAN, statistics : Summaries \cup {None}]
  /\ luck \in [id : Nat, result : Summaries \cup {None}, error : Runs \cup {None}]
  /\ runs \subseteq Runs

(* Pages of what is asked, no older than what the page knows. *)
Fits(read) ==
  /\ read.profile = props.profile /\ read.type = asked.type /\ read.window = asked.window
  /\ \A i \in 1 .. Len(read.parts) :
       props.revision <= read.parts[i] /\ read.parts[i] <= held.revision

ListTrue ==
  /\ props.revision <= held.revision
  /\ \A read \in reads : read.what = "list" =>
       read.id <= list.id /\ (read.id = list.id => Fits(read))
  /\ ~props.loading /\ ~list.pending /\ ~list.error /\ list.overview # None => Fits(list.overview)

(* The present comparison is of the statistics shown. *)
RunsTrue == \A run \in runs :
  /\ run.id <= luck.id
  /\ run.id = luck.id => run.at = "running" /\ run.about = summary.statistics

RewardInv == RewardTyped /\ ListTrue /\ RunsTrue /\ Rewards!LuckIsOfSummary

-----------------------------------------------------------------------------
(* The history view. *)

(* The types of what is chosen, read and shown. *)
PageNumbers == Pages \cup {1}
Choices == [profile : Profiles, filter : Filters, page : PageNumbers]
Ledgers == [sel : Choices, revision : Nat]
Totals == [profile : Profiles, revision : Nat]
Ops == [id : Nat, at : {"revision", "data", "page", "search"}, profile : Profiles, page : PageNumbers]

HistoryTyped ==
  /\ archive \in [revision : Nat, profiles : (SUBSET Profiles) \ {{}}]
  /\ sel \in Choices
  /\ view \in [request : Nat, loading : BOOLEAN, error : BOOLEAN, history : Ledgers \cup {None},
               stats : Totals \cup {None}, about : Profiles \cup {None}]
  /\ ops \subseteq Ops
  /\ cache \in [ledger : [key : Ledgers \cup {None}, value : Ledgers \cup {None, Pending}],
                metadata : [key : Totals \cup {None}, value : Totals \cup {None, Pending}]]
  /\ notice \in [arrived : BOOLEAN, at : {"idle", "revision", "profiles", "refresh"},
                 dirty : BOOLEAN, last : Nat, revision : Nat, id : Nat]
  /\ visible \in BOOLEAN /\ working \in BOOLEAN

(* A notice is still to be handled. *)
Due == \/ notice.arrived \/ notice.at \in {"revision", "profiles"}
       \/ notice.dirty /\ (working \/ notice.at = "refresh")

(* What is shown without an error is at least of this revision. *)
Floor == IF ~Due THEN archive.revision
         ELSE IF notice.at = "refresh" THEN notice.revision ELSE notice.last

Past == /\ notice.last <= archive.revision /\ notice.revision <= archive.revision
        /\ view.history # None => view.history.revision <= archive.revision
        /\ view.stats # None => view.stats.revision <= archive.revision

(* An answer in the cache is of its key, read when the key was made or later. *)
CacheTrue ==
  /\ LET c == cache.ledger
     IN  /\ c.value # None => c.key \in Ledgers /\ c.key.revision <= archive.revision
         /\ c.value \notin {None, Pending} =>
              /\ c.value.sel = c.key.sel
              /\ c.key.revision <= c.value.revision /\ c.value.revision <= archive.revision
  /\ LET c == cache.metadata
     IN  /\ c.value # None => c.key \in Totals /\ c.key.revision <= archive.revision
         /\ c.value \notin {None, Pending} =>
              /\ c.value.profile = c.key.profile
              /\ c.key.revision <= c.value.revision /\ c.value.revision <= archive.revision

(* What the present request does with its requests and pages. *)
Current(op) == op.id = view.request /\ op.at # "search"
OpsTrue ==
  /\ \A op \in ops : op.id <= view.request
  /\ \A op, other \in ops : Current(op) /\ Current(other) /\ op.at = "page" => other.at = "page"

(* Totals of the profile selected, no older than the floor. *)
Good(total, s, floor) == total.profile = s.profile /\ floor <= total.revision

ShownTrue == visible =>
  /\ \A op \in ops : Current(op) /\ op.at # "page" => op.profile = sel.profile
  /\ ~view.error =>
       /\ \A op \in ops : Current(op) /\ op.at = "data" =>
            /\ cache.ledger.key \in Ledgers /\ cache.ledger.key.sel = sel
            /\ Floor <= cache.ledger.key.revision
            /\ cache.metadata.key \in Totals /\ Good(cache.metadata.key, sel, Floor)
       /\ \A op \in ops : Current(op) /\ op.at = "page" => view.stats # None /\ Good(view.stats, sel, Floor)
       /\ ~view.loading /\ view.history # None =>
            /\ view.history.sel = sel /\ Floor <= view.history.revision
            /\ view.stats # None /\ Good(view.stats, sel, Floor)

HistoryInv == HistoryTyped /\ Past /\ CacheTrue /\ OpsTrue /\ ShownTrue

-----------------------------------------------------------------------------
(* The steps of the statistics panel. *)

(* The figures of the panel, spelled out. *)
LEMMA FourFigures ==
  /\ Panel!Figures = {"summary", "planner", "history", "community"}
  /\ Panel!Calculated = {"summary", "planner"}
BY DEF Panel!Figures, Panel!Calculated

(* What a figure reads is a topic. *)
LEMMA ReadsTopics ==
  ASSUME NEW what \in Panel!Figures, NEW s \in Selections, NEW h \in Selections \cup {None}, NEW p \in Plans
  PROVE  Panel!Reads(what, s, h, p) \in Topics
BY DEF Panel!Reads, Topics

(* The task an effect starts is of that effect, and fresh. *)
LEMMA StartedTasks ==
  ASSUME NEW what \in Panel!Figures, NEW n \in Nat, NEW about \in Topics, NEW t \in Panel!Started(what, n, about)
  PROVE  t \in Tasks /\ t.what = what /\ t.id = n /\ t.about = about /\ t.at \in {"import", "waiting"}
         /\ (t.at # "waiting" => what \in Panel!Calculated)
<1>1. t = [what |-> what, id |-> n, about |-> about, at |-> IF what \in Panel!Calculated THEN "import" ELSE "waiting"]
  BY DEF Panel!Started
<1> QED BY <1>1 DEF Tasks

(* The clean-up of an effect rejects its running tasks and changes nothing else of them. *)
LEMMA CleanedTasks ==
  ASSUME tasks \subseteq Tasks, NEW ts \in SUBSET tasks, NEW which, NEW t \in Panel!Cleaned(ts, which)
  PROVE  /\ t \in Tasks
         /\ \E u \in ts : /\ t.what = u.what /\ t.id = u.id /\ t.about = u.about
                          /\ t.at # "waiting" => u.at # "waiting"
                          /\ t.what \notin which => t.at = u.at
<1>1. PICK u \in ts : t = IF u.what \in which /\ u.at = "running" THEN [u EXCEPT !.at = "rejected"] ELSE u
  BY DEF Panel!Cleaned
<1>2. u \in Tasks
  OBVIOUS
<1>3. CASE t = u
  BY <1>2, <1>3
<1>4. CASE t # u
  <2>1. t = [u EXCEPT !.at = "rejected"] /\ u.what \in which /\ u.at = "running"
    BY <1>1, <1>4
  <2>2. t \in Tasks /\ t.what = u.what /\ t.id = u.id /\ t.about = u.about
    BY <1>2, <2>1 DEF Tasks
  <2> QED BY <2>1, <2>2
<1> QED BY <1>3, <1>4

(* What the figures of an effect that is started again, and the others, are then about. *)
LEMMA EffectsRestart ==
  ASSUME PanelInv, NEW which \in SUBSET Panel!Figures, NEW s \in Selections, NEW h \in Selections \cup {None},
         NEW p \in Plans, NEW ts \in SUBSET tasks,
         chosen' = s, plan' = p, figure' \in [Panel!Figures -> Figured], figure'.history.value = h,
         \A what \in which : figure'[what] = [id |-> figure[what].id + 1, value |-> None, error |-> None],
         \A what \in Panel!Figures \ which :
           /\ figure'[what].id = figure[what].id /\ figure'[what].error = figure[what].error
           /\ figure'[what].value \in {figure[what].value, None, Panel!Reads(what, s, h, p)}
           /\ Panel!Reads(what, s, h, p) = ReadBy(what),
         \A t \in tasks' :
           \/ t \in Panel!Cleaned(ts, which)
           \/ \E what \in which : t \in Panel!Started(what, figure[what].id + 1, Panel!Reads(what, s, h, p)),
         workers' \subseteq {w \in workers : w.what \notin which}
  PROVE  PanelInv'
<1>1. /\ tasks \subseteq Tasks /\ figure \in [Panel!Figures -> Figured] /\ TasksTrue
      /\ workers \subseteq [what : Panel!Calculated, id : Nat]
      /\ Panel!OneHistory /\ Panel!NoWorkerOutlives
  BY DEF PanelInv, PanelTyped
<1>2. /\ \A what \in Panel!Figures : figure[what].id \in Nat /\ ReadBy(what)' = Panel!Reads(what, s, h, p)
      /\ \A what \in which : figure'[what].id = figure[what].id + 1
  <2>1. \A what \in Panel!Figures : figure[what].id \in Nat
    BY <1>1 DEF Figured
  <2>2. \A what \in Panel!Figures : ReadBy(what)' = Panel!Reads(what, s, h, p)
    BY DEF ReadBy, Panel!Reads
  <2>3. ASSUME NEW what \in which PROVE figure'[what].id = figure[what].id + 1
    <3>1. figure'[what] = [id |-> figure[what].id + 1, value |-> None, error |-> None]
      OBVIOUS
    <3> QED BY <3>1
  <2> QED BY <2>1, <2>2, <2>3
<1>3. \A t \in tasks' : /\ t \in Tasks
                        /\ t.at # "waiting" => t.what \in Panel!Calculated
                        /\ t.id <= figure'[t.what].id
                        /\ t.id = figure'[t.what].id => t.about = ReadBy(t.what)' /\ t.at # "rejected"
  <2> SUFFICES ASSUME NEW t \in tasks'
               PROVE  /\ t \in Tasks /\ (t.at # "waiting" => t.what \in Panel!Calculated)
                      /\ t.id <= figure'[t.what].id
                      /\ t.id = figure'[t.what].id => t.about = ReadBy(t.what)' /\ t.at # "rejected"
    OBVIOUS
  <2>1. CASE t \in Panel!Cleaned(ts, which)
    <3>1. PICK u \in ts : /\ t \in Tasks /\ t.what = u.what /\ t.id = u.id /\ t.about = u.about
                          /\ (t.at # "waiting" => u.at # "waiting") /\ (t.what \notin which => t.at = u.at)
      BY <1>1, <2>1, CleanedTasks
    <3>2. /\ (u.at # "waiting" => u.what \in Panel!Calculated) /\ u.id <= figure[u.what].id
          /\ u.id = figure[u.what].id => u.about = ReadBy(u.what) /\ u.at # "rejected"
      BY <1>1 DEF TasksTrue
    <3>3. u.what \in Panel!Figures /\ u.id \in Nat /\ figure[u.what].id \in Nat
      BY <1>1, <1>2 DEF Tasks
    <3>4. CASE u.what \in which
      BY <1>2, <3>1, <3>2, <3>3, <3>4
    <3>5. CASE u.what \notin which
      BY <1>2, <3>1, <3>2, <3>3, <3>5
    <3> QED BY <3>4, <3>5
  <2>2. CASE t \notin Panel!Cleaned(ts, which)
    <3>1. PICK what \in which : t \in Panel!Started(what, figure[what].id + 1, Panel!Reads(what, s, h, p))
      BY <2>2
    <3>2. PICK n \in Nat : n = figure[what].id + 1 /\ figure'[what].id = n
      BY <1>2
    <3>3. PICK about \in Topics : about = Panel!Reads(what, s, h, p) /\ ReadBy(what)' = about
      BY <1>2, ReadsTopics
    <3>4. t \in Tasks /\ t.what = what /\ t.id = n /\ t.about = about /\ t.at \in {"import", "waiting"}
          /\ (t.at # "waiting" => what \in Panel!Calculated)
      BY <3>1, <3>2, <3>3, StartedTasks
    <3> QED BY <3>2, <3>3, <3>4
  <2> QED BY <2>1, <2>2
<1>4. PanelTyped'
  BY <1>1, <1>3 DEF PanelTyped
<1>5. Panel!OneHistory'
  <2> SUFFICES ASSUME NEW what \in Panel!Figures
               PROVE  /\ figure'[what].value # None => figure'[what].value = ReadBy(what)'
                      /\ figure'[what].error # None =>
                           figure'[what].error.about = ReadBy(what)' /\ figure'[what].error.at # "rejected"
    BY DEF Panel!OneHistory, ReadBy
  <2>1. CASE what \in which
    <3>1. figure'[what] = [id |-> figure[what].id + 1, value |-> None, error |-> None]
      BY <2>1
    <3> QED BY <3>1
  <2>2. CASE what \notin which
    <3>1. /\ figure[what].value # None => figure[what].value = ReadBy(what)
          /\ figure[what].error # None => figure[what].error.about = ReadBy(what) /\ figure[what].error.at # "rejected"
      BY <1>1 DEF Panel!OneHistory, ReadBy
    <3>2. PICK r \in Topics : r = ReadBy(what)' /\ r = ReadBy(what)
      BY <1>2, <2>2, ReadsTopics
    <3>3. /\ figure'[what].error = figure[what].error
          /\ figure'[what].value = figure[what].value \/ figure'[what].value = None \/ figure'[what].value = r
      BY <1>2, <2>2, <3>2
    <3> QED BY <3>1, <3>2, <3>3
  <2> QED BY <2>1, <2>2
<1>6. Panel!NoWorkerOutlives'
  <2> SUFFICES ASSUME NEW w \in workers' PROVE w.id = figure'[w.what].id
    BY DEF Panel!NoWorkerOutlives
  <2>1. w \in workers /\ w.what \in Panel!Figures \ which /\ w.id = figure[w.what].id
    BY <1>1 DEF Panel!NoWorkerOutlives, Panel!Figures
  <2> QED BY <2>1
<1> QED BY <1>3, <1>4, <1>5, <1>6 DEF PanelInv, TasksTrue

(* Effects start again: their old tasks are of an earlier number. *)
LEMMA PanelRestarts ==
  ASSUME PanelInv, NEW which \in SUBSET Panel!Figures, NEW h \in Selections \cup {None},
         chosen' \in Selections, plan' \in Plans, Panel!Restart(which, chosen', h, plan'),
         \/ which = Panel!Figures /\ h = None
         \/ "history" \notin which /\ h = figure.history.value /\ chosen' = chosen
            /\ ("planner" \notin which => plan' = plan)
  PROVE  PanelInv'
<1>1. /\ figure \in [Panel!Figures -> Figured] /\ "history" \in Panel!Figures
      /\ \A what \in Panel!Figures : figure[what].id \in Nat
  BY DEF PanelInv, PanelTyped, Figured, Panel!Figures
<1>2. figure' = [what \in Panel!Figures |->
        IF what \in which THEN [id |-> figure[what].id + 1, value |-> None, error |-> None] ELSE figure[what]]
  <2>1. \A what \in Panel!Figures \ which : ~(what = "history" /\ h # figure.history.value)
    OBVIOUS
  <2> QED BY <2>1 DEF Panel!Restart
<1>3. \A what \in which : figure'[what] = [id |-> figure[what].id + 1, value |-> None, error |-> None]
  BY <1>2
<1>4. \A what \in Panel!Figures \ which : figure'[what] = figure[what]
  BY <1>2
<1>5. figure' \in [Panel!Figures -> Figured]
  <2>1. \A what \in Panel!Figures : [id |-> figure[what].id + 1, value |-> None, error |-> None] \in Figured
    BY <1>1 DEF Figured, Topics
  <2> QED BY <1>1, <1>2, <2>1
<1>6. figure'.history.value = h
  <2>1. CASE "history" \in which
    <3>1. figure'["history"] = [id |-> figure["history"].id + 1, value |-> None, error |-> None]
      BY <1>3, <2>1
    <3> QED BY <2>1, <3>1
  <2>2. CASE "history" \notin which
    BY <1>1, <1>4, <2>2
  <2> QED BY <2>1, <2>2
<1>7. \A what \in Panel!Figures \ which : Panel!Reads(what, chosen', h, plan') = ReadBy(what)
  BY DEF ReadBy, Panel!Reads
<1>8. PICK s \in Selections : s = chosen'
  OBVIOUS
<1>9. PICK p \in Plans : p = plan'
  OBVIOUS
<1>10. /\ \A t \in tasks' :
            \/ t \in Panel!Cleaned(tasks, which)
            \/ \E what \in which : t \in Panel!Started(what, figure[what].id + 1, Panel!Reads(what, s, h, p))
       /\ workers' = {w \in workers : w.what \notin which}
  BY <1>8, <1>9 DEF Panel!Restart, Panel!Disposed
<1>11. \A what \in Panel!Figures \ which :
         /\ figure'[what].id = figure[what].id /\ figure'[what].error = figure[what].error
         /\ figure'[what].value \in {figure[what].value, None, Panel!Reads(what, s, h, p)}
         /\ Panel!Reads(what, s, h, p) = ReadBy(what)
  BY <1>4, <1>7, <1>8, <1>9
<1> HIDE DEF PanelInv
<1> QED BY <1>3, <1>5, <1>6, <1>8, <1>9, <1>10, <1>11, EffectsRestart

(* The history arrives, and the effects that read it start again. *)
LEMMA PanelHistory ==
  ASSUME PanelInv, NEW t \in tasks, Panel!History(t)
  PROVE  PanelInv'
<1>1. /\ chosen \in Selections /\ plan \in Plans /\ tasks \subseteq Tasks
      /\ figure \in [Panel!Figures -> Figured] /\ "history" \in Panel!Figures
      /\ \A what \in Panel!Figures : figure[what].id \in Nat
      /\ workers \subseteq [what : Panel!Calculated, id : Nat] /\ TasksTrue
  BY DEF PanelInv, PanelTyped, Figured, Panel!Figures
<1>2. CASE Panel!Mine(t)
  <2>1. PICK h \in Selections : h = t.about /\ h = chosen
    BY <1>1, <1>2 DEF Panel!History, Panel!Mine, TasksTrue, ReadBy, Panel!Reads
  <2>2. PICK p \in Plans : p = [plan EXCEPT !.of = h]
    BY <1>1 DEF Plans
  <2> DEFINE which == Panel!Figures \ {"history"}
  <2>3. plan' = p /\ chosen' = chosen
    BY <1>2, <2>1, <2>2 DEF Panel!History
  <2>4. figure' = [what \in Panel!Figures |->
          IF what = "history" THEN [figure.history EXCEPT !.value = h]
          ELSE [id |-> figure[what].id + 1, value |-> None, error |-> None]]
    BY <1>2, <2>1 DEF Panel!History
  <2>5. [figure.history EXCEPT !.value = h] \in Figured
    BY <1>1 DEF Figured, Topics
  <2>6. figure' \in [Panel!Figures -> Figured]
    <3>1. \A what \in Panel!Figures : [id |-> figure[what].id + 1, value |-> None, error |-> None] \in Figured
      BY <1>1 DEF Figured, Topics
    <3> QED BY <2>4, <2>5, <3>1
  <2>7. /\ figure'.history.value = h /\ figure'.history.id = figure.history.id
        /\ figure'.history.error = figure.history.error
    BY <1>1, <2>4 DEF Figured
  <2>8. \A what \in which : figure'[what] = [id |-> figure[what].id + 1, value |-> None, error |-> None]
    BY <2>4
  <2>9. Panel!Reads("history", chosen, h, p) = h /\ ReadBy("history") = h
    BY <2>1 DEF ReadBy, Panel!Reads
  <2>10. \A what \in Panel!Figures \ which :
           /\ figure'[what].id = figure[what].id /\ figure'[what].error = figure[what].error
           /\ figure'[what].value \in {figure[what].value, None, Panel!Reads(what, chosen, h, p)}
           /\ Panel!Reads(what, chosen, h, p) = ReadBy(what)
    BY <2>7, <2>9
  <2>11. \A u \in tasks' :
           \/ u \in Panel!Cleaned(tasks \ {t}, which)
           \/ \E what \in which : u \in Panel!Started(what, figure[what].id + 1, Panel!Reads(what, chosen, h, p))
    <3>1. tasks' = Panel!Cleaned(tasks \ {t}, Panel!Figures \ {"history"}) \cup
            UNION {Panel!Started(what, figure[what].id + 1, Panel!Reads(what, chosen, t.about, plan')) :
                     what \in Panel!Figures \ {"history"}}
      BY <1>2 DEF Panel!History
    <3>2. SUFFICES ASSUME NEW u \in tasks', u \notin Panel!Cleaned(tasks \ {t}, which)
                   PROVE  \E what \in which :
                            u \in Panel!Started(what, figure[what].id + 1, Panel!Reads(what, chosen, h, p))
      OBVIOUS
    <3>3. PICK what \in which :
            u \in Panel!Started(what, figure[what].id + 1, Panel!Reads(what, chosen, t.about, plan'))
      BY <3>1, <3>2
    <3> QED BY <2>1, <2>3, <3>3
  <2>12. workers' \subseteq {w \in workers : w.what \notin which}
    BY <1>1, <1>2 DEF Panel!History, Panel!Disposed, Panel!Figures
  <2>13. which \in SUBSET Panel!Figures /\ tasks \ {t} \in SUBSET tasks
    OBVIOUS
  <2>14. PICK s \in Selections : s = chosen
    BY <1>1
  <2> HIDE DEF which, PanelInv
  <2> QED BY <2>3, <2>6, <2>7, <2>8, <2>10, <2>11, <2>12, <2>13, <2>14, EffectsRestart
<1>3. CASE ~Panel!Mine(t)
  <2>1. tasks' = tasks \ {t} /\ UNCHANGED <<chosen, plan, figure, workers>>
    BY <1>3 DEF Panel!History
  <2> QED BY <2>1 DEF PanelInv, PanelTyped, TasksTrue, ReadBy, Panel!Reads, Panel!OneHistory, Panel!NoWorkerOutlives
<1> QED BY <1>2, <1>3

(* A worker starts on a task of the present effect. *)
LEMMA PanelImported ==
  ASSUME PanelInv, NEW t \in tasks, Panel!Imported(t)
  PROVE  PanelInv'
<1>1. tasks \subseteq Tasks /\ TasksTrue /\ UNCHANGED <<chosen, plan, figure>>
  BY DEF PanelInv, PanelTyped, Panel!Imported
<1>2. PICK u \in Tasks : u = [t EXCEPT !.at = "running"] /\ u.what = t.what /\ u.id = t.id /\ u.about = t.about
                         /\ u.at = "running"
  <2>1. [t EXCEPT !.at = "running"] \in Tasks
    BY <1>1 DEF Tasks
  <2>2. LET u == [t EXCEPT !.at = "running"]
        IN  u.what = t.what /\ u.id = t.id /\ u.about = t.about /\ u.at = "running"
    BY <1>1 DEF Tasks
  <2> QED BY <2>1, <2>2
<1>3. /\ t.what \in Panel!Calculated /\ t.id \in Nat
      /\ t.id = figure[t.what].id => t.about = ReadBy(t.what)
  BY <1>1 DEF Panel!Imported, TasksTrue, Tasks
<1>4. tasks' \subseteq (tasks \cup {u}) /\ (u \in tasks' /\ u \notin tasks => t.id = figure[t.what].id)
  BY <1>2 DEF Panel!Imported, Panel!Wanted
<1>5. PICK w \in [what : Panel!Calculated, id : Nat] : w = [what |-> t.what, id |-> t.id]
  BY <1>3
<1>6. workers' \subseteq workers \cup {w} /\ (w \in workers' /\ w \notin workers => t.id = figure[t.what].id)
  BY <1>5 DEF Panel!Imported, Panel!Wanted
<1>7. PanelTyped'
  BY <1>1, <1>4, <1>6 DEF PanelInv, PanelTyped
<1>8. \A what : ReadBy(what)' = ReadBy(what)
  BY <1>1 DEF ReadBy, Panel!Reads
<1>9. TasksTrue'
  <2> SUFFICES ASSUME NEW v \in tasks'
               PROVE  /\ v.at # "waiting" => v.what \in Panel!Calculated
                      /\ v.id <= figure[v.what].id
                      /\ v.id = figure[v.what].id => v.about = ReadBy(v.what) /\ v.at # "rejected"
    BY <1>1, <1>8 DEF TasksTrue
  <2>1. CASE v \in tasks
    BY <1>1, <2>1 DEF TasksTrue
  <2>2. CASE v \notin tasks
    <3>1. v = u /\ t.id = figure[t.what].id
      BY <1>4, <2>2
    <3>2. figure[t.what].id \in Nat
      BY <1>3, <3>1
    <3> QED BY <1>2, <1>3, <3>1, <3>2
  <2> QED BY <2>1, <2>2
<1>10. Panel!NoWorkerOutlives'
  BY <1>1, <1>5, <1>6 DEF PanelInv, Panel!NoWorkerOutlives
<1>11. Panel!OneHistory'
  BY <1>1 DEF PanelInv, Panel!OneHistory, Panel!Reads
<1> QED BY <1>7, <1>9, <1>10, <1>11 DEF PanelInv

(* A task ends with an answer that its figure shows, or with an error in its place. *)
LEMMA PanelEnds ==
  ASSUME PanelInv, NEW t \in tasks, tasks' = tasks \ {t}, UNCHANGED <<chosen, plan>>, workers' \subseteq workers,
         \/ figure' = figure
         \/ Panel!Mine(t) /\ figure' = [figure EXCEPT ![t.what].error = t]
         \/ Panel!Mine(t) /\ t.what # "history" /\ figure' = [figure EXCEPT ![t.what].value = t.about]
  PROVE  PanelInv'
<1>1. /\ tasks \subseteq Tasks /\ figure \in [Panel!Figures -> Figured] /\ TasksTrue
      /\ Panel!OneHistory /\ Panel!NoWorkerOutlives /\ t \in Tasks
      /\ workers \subseteq [what : Panel!Calculated, id : Nat] /\ Panel!Calculated \subseteq Panel!Figures
  BY DEF PanelInv, PanelTyped, Panel!Figures
<1>2. t.what \in Panel!Figures /\ t.about \in Topics
  BY <1>1 DEF Tasks
<1>3. /\ figure' \in [Panel!Figures -> Figured]
      /\ \A what \in Panel!Figures :
           /\ figure'[what].id = figure[what].id
           /\ \/ figure'[what].value = figure[what].value
              \/ what = t.what /\ what # "history" /\ Panel!Mine(t) /\ figure'[what].value = t.about
           /\ \/ figure'[what].error = figure[what].error
              \/ what = t.what /\ Panel!Mine(t) /\ figure'[what].error = t
  <2>1. CASE figure' = figure
    BY <1>1, <2>1
  <2>2. CASE Panel!Mine(t) /\ figure' = [figure EXCEPT ![t.what].error = t]
    <3>1. [figure[t.what] EXCEPT !.error = t] \in Figured
      BY <1>1, <1>2 DEF Figured
    <3>2. LET f == [figure[t.what] EXCEPT !.error = t]
          IN  f.id = figure[t.what].id /\ f.value = figure[t.what].value /\ f.error = t
      BY <1>1, <1>2 DEF Figured
    <3>3. figure' = [figure EXCEPT ![t.what] = [figure[t.what] EXCEPT !.error = t]]
      BY <2>2
    <3> QED BY <1>1, <1>2, <2>2, <3>1, <3>2, <3>3
  <2>3. CASE Panel!Mine(t) /\ t.what # "history" /\ figure' = [figure EXCEPT ![t.what].value = t.about]
    <3>1. [figure[t.what] EXCEPT !.value = t.about] \in Figured
      BY <1>1, <1>2 DEF Figured
    <3>2. LET f == [figure[t.what] EXCEPT !.value = t.about]
          IN  f.id = figure[t.what].id /\ f.value = t.about /\ f.error = figure[t.what].error
      BY <1>1, <1>2 DEF Figured
    <3>3. figure' = [figure EXCEPT ![t.what] = [figure[t.what] EXCEPT !.value = t.about]]
      BY <2>3
    <3> QED BY <1>1, <1>2, <2>3, <3>1, <3>2, <3>3
  <2> QED BY <2>1, <2>2, <2>3
<1>4. figure'.history.value = figure.history.value
  BY <1>3 DEF Panel!Figures
<1>5. \A what : ReadBy(what)' = ReadBy(what)
  BY <1>4 DEF ReadBy, Panel!Reads
<1>6. Panel!Mine(t) => t.about = ReadBy(t.what) /\ t.at # "rejected"
  BY <1>1 DEF Panel!Mine, TasksTrue
<1>7. Panel!OneHistory'
  <2> SUFFICES ASSUME NEW what \in Panel!Figures
               PROVE  /\ figure'[what].value # None => figure'[what].value = ReadBy(what)
                      /\ figure'[what].error # None =>
                           figure'[what].error.about = ReadBy(what) /\ figure'[what].error.at # "rejected"
    BY <1>4, <1>5 DEF Panel!OneHistory, ReadBy
  <2>1. /\ figure[what].value # None => figure[what].value = ReadBy(what)
        /\ figure[what].error # None => figure[what].error.about = ReadBy(what) /\ figure[what].error.at # "rejected"
    BY <1>1 DEF Panel!OneHistory, ReadBy
  <2>2. figure'[what].value # None => figure'[what].value = ReadBy(what)
    BY <1>3, <1>6, <2>1
  <2>3. figure'[what].error # None =>
          figure'[what].error.about = ReadBy(what) /\ figure'[what].error.at # "rejected"
    BY <1>3, <1>6, <2>1
  <2> QED BY <2>2, <2>3
<1>8. TasksTrue'
  <2>1. \A u \in tasks : u.what \in Panel!Figures
    BY <1>1 DEF Tasks
  <2> QED BY <1>1, <1>3, <1>5, <2>1 DEF TasksTrue
<1>9. Panel!NoWorkerOutlives'
  <2>1. \A w \in workers : w.what \in Panel!Figures
    BY <1>1
  <2> QED BY <1>1, <1>3, <2>1 DEF Panel!NoWorkerOutlives
<1>10. PanelTyped'
  BY <1>3 DEF PanelInv, PanelTyped
<1> QED BY <1>7, <1>8, <1>9, <1>10 DEF PanelInv

(* The panel's invariant holds at the start, *)
LEMMA PanelStarts == Panel!Init => PanelInv
<1> SUFFICES ASSUME Panel!Init PROVE PanelInv
  OBVIOUS
<1>1. /\ chosen = [profile |-> CHOOSE p \in Profiles : TRUE, revision |-> 1]
      /\ plan = [of |-> None, budget |-> CHOOSE b \in Budgets : TRUE]
      /\ figure = [what \in Panel!Figures |-> [id |-> 1, value |-> None, error |-> None]]
      /\ tasks = Panel!Started("history", 1, chosen) \cup Panel!Started("planner", 1, plan) /\ workers = {}
  BY DEF Panel!Init
<1>2. chosen \in Selections /\ plan \in Plans
  BY <1>1, InputsAssumption DEF Selections, Plans
<1>3. [id |-> 1, value |-> None, error |-> None] \in Figured
  BY DEF Figured, Topics
<1>4. \A t \in tasks : /\ t \in Tasks /\ t.id = 1 /\ t.about = ReadBy(t.what) /\ t.at # "rejected"
                       /\ (t.at # "waiting" => t.what \in Panel!Calculated)
  <2>1. chosen \in Topics /\ plan \in Topics /\ "history" \in Panel!Figures /\ "planner" \in Panel!Figures
    BY <1>2 DEF Topics, Panel!Figures, Panel!Calculated
  <2>2. ReadBy("history") = chosen /\ ReadBy("planner") = plan
    BY DEF ReadBy, Panel!Reads
  <2>3. ASSUME NEW t \in Panel!Started("history", 1, chosen)
        PROVE  /\ t \in Tasks /\ t.id = 1 /\ t.about = ReadBy(t.what) /\ t.at # "rejected"
               /\ (t.at # "waiting" => t.what \in Panel!Calculated)
    BY <2>1, <2>2, StartedTasks
  <2>4. ASSUME NEW t \in Panel!Started("planner", 1, plan)
        PROVE  /\ t \in Tasks /\ t.id = 1 /\ t.about = ReadBy(t.what) /\ t.at # "rejected"
               /\ (t.at # "waiting" => t.what \in Panel!Calculated)
    BY <2>1, <2>2, StartedTasks
  <2> QED BY <1>1, <2>3, <2>4
<1>5. PanelTyped
  BY <1>1, <1>2, <1>3, <1>4 DEF PanelTyped
<1>6. \A what \in Panel!Figures : figure[what].id = 1 /\ figure[what].value = None /\ figure[what].error = None
  BY <1>1
<1>7. TasksTrue
  <2>1. \A t \in tasks : t.what \in Panel!Figures
    BY <1>4 DEF Tasks
  <2> QED BY <1>4, <1>6, <2>1 DEF TasksTrue
<1>8. Panel!OneHistory /\ Panel!NoWorkerOutlives
  BY <1>1, <1>6 DEF Panel!OneHistory, Panel!NoWorkerOutlives
<1> QED BY <1>5, <1>7, <1>8 DEF PanelInv

(* and after every step. *)
LEMMA PanelStep == PanelInv /\ [Panel!Next]_panelVars => PanelInv'
<1> SUFFICES ASSUME PanelInv, [Panel!Next]_panelVars PROVE PanelInv'
  OBVIOUS
<1>1. /\ chosen \in Selections /\ plan \in Plans /\ tasks \subseteq Tasks
      /\ figure \in [Panel!Figures -> Figured] /\ TasksTrue /\ "history" \in Panel!Figures
  BY DEF PanelInv, PanelTyped, Panel!Figures
<1>2. /\ figure.history.value \in Selections \cup {None}
      /\ {"planner"} \subseteq Panel!Figures /\ {"community"} \subseteq Panel!Figures
  BY <1>1 DEF PanelInv, Panel!OneHistory, Panel!Reads, Panel!Figures, Panel!Calculated
<1>3. CASE UNCHANGED panelVars
  BY <1>3 DEF panelVars, PanelInv, PanelTyped, TasksTrue, ReadBy, Panel!Reads, Panel!OneHistory,
              Panel!NoWorkerOutlives
<1>4. CASE Panel!Select
  <2>1. /\ chosen' \in Selections /\ plan' \in Plans
        /\ Panel!Restart(Panel!Figures, chosen', None, plan')
    BY <1>1, <1>4 DEF Panel!Select, Selections, Plans
  <2> QED BY <2>1, PanelRestarts
<1>5. CASE Panel!Revise
  <2>1. /\ chosen' \in Selections /\ plan' \in Plans
        /\ Panel!Restart(Panel!Figures, chosen', None, plan')
    BY <1>1, <1>5 DEF Panel!Revise, Selections, Plans
  <2> QED BY <2>1, PanelRestarts
<1>6. CASE Panel!EditBudget
  <2>1. /\ chosen' = chosen /\ plan' \in Plans
        /\ Panel!Restart({"planner"}, chosen, figure.history.value, plan')
    BY <1>1, <1>6 DEF Panel!EditBudget, Plans
  <2>2. PICK h \in Selections \cup {None} : h = figure.history.value
    BY <1>2
  <2> QED BY <1>1, <1>2, <2>1, <2>2, PanelRestarts
<1>7. CASE Panel!Verify
  <2>1. chosen' = chosen /\ plan' = plan /\ Panel!Restart({"community"}, chosen, figure.history.value, plan)
    BY <1>7 DEF Panel!Verify
  <2>2. PICK h \in Selections \cup {None} : h = figure.history.value
    BY <1>2
  <2> QED BY <1>1, <1>2, <2>1, <2>2, PanelRestarts
<1>8. ASSUME NEW t \in tasks, Panel!Answered(t) \/ Panel!Rejected(t) \/ Panel!Fails(t) PROVE PanelInv'
  <2>1. tasks' = tasks \ {t} /\ UNCHANGED <<chosen, plan>> /\ workers' \subseteq workers
    BY <1>8 DEF Panel!Answered, Panel!Rejected, Panel!Fails
  <2>2. t.at = "running" \/ t.what = "community" => t.what # "history"
    BY <1>1 DEF TasksTrue, Panel!Calculated
  <2>3. \/ figure' = figure
        \/ Panel!Mine(t) /\ figure' = [figure EXCEPT ![t.what].error = t]
        \/ Panel!Mine(t) /\ t.what # "history" /\ figure' = [figure EXCEPT ![t.what].value = t.about]
    BY <1>8, <2>2 DEF Panel!Answered, Panel!Rejected, Panel!Fails, Panel!Refused
  <2> QED BY <2>1, <2>3, PanelEnds
<1> QED BY <1>3, <1>4, <1>5, <1>6, <1>7, <1>8, PanelHistory, PanelImported DEF Panel!Next

-----------------------------------------------------------------------------
(* The steps of the reward history. *)

(* The comparison starts again with the statistics s. *)
LEMMA ComparesAgain ==
  ASSUME RewardInv, NEW s \in [id : Nat, pending : BOOLEAN, statistics : Summaries \cup {None}],
         summary' = s, Rewards!Compare(s)
  PROVE  /\ luck' \in [id : Nat, result : Summaries \cup {None}, error : Runs \cup {None}]
         /\ runs' \subseteq Runs /\ RunsTrue' /\ Rewards!LuckIsOfSummary'
<1>1. runs \subseteq Runs /\ luck.id \in Nat /\ RunsTrue
  BY DEF RewardInv, RewardTyped
<1>2. PICK n \in Nat : n = luck.id + 1 /\ luck' = [id |-> n, result |-> None, error |-> None]
  BY <1>1 DEF Rewards!Compare
<1>3. luck' \in [id : Nat, result : Summaries \cup {None}, error : Runs \cup {None}]
  BY <1>2
<1>4. \A run \in runs' :
        /\ run \in Runs /\ run.id <= n
        /\ run.id = n => run.at = "running" /\ run.about = s.statistics
  <2> SUFFICES ASSUME NEW run \in runs'
               PROVE  /\ run \in Runs /\ run.id <= n
                      /\ run.id = n => run.at = "running" /\ run.about = s.statistics
    OBVIOUS
  <2>1. CASE run \in Rewards!Aborted(runs)
    <3>1. PICK r \in runs : run = [r EXCEPT !.at = "aborted"]
      BY <2>1 DEF Rewards!Aborted
    <3>2. r \in Runs /\ r.id <= luck.id /\ r.id \in Nat
      BY <1>1 DEF RunsTrue, Runs
    <3>3. run \in Runs /\ run.id = r.id
      BY <3>1, <3>2 DEF Runs
    <3> QED BY <1>1, <1>2, <3>2, <3>3
  <2>2. CASE run \notin Rewards!Aborted(runs)
    <3>1. s.statistics # None /\ run = [id |-> n, about |-> s.statistics, at |-> "running"]
      BY <1>2, <2>2 DEF Rewards!Compare
    <3>2. s.statistics \in Summaries
      BY <3>1
    <3> QED BY <3>1, <3>2 DEF Runs
  <2> QED BY <2>1, <2>2
<1> QED BY <1>2, <1>3, <1>4 DEF RunsTrue, Rewards!LuckIsOfSummary

(* A worker's comparison ends. *)
LEMMA RewardComputed ==
  ASSUME RewardInv, NEW run \in runs, Rewards!Computed(run)
  PROVE  RewardInv'
<1>1. /\ run \in Runs /\ runs' = runs \ {run} /\ UNCHANGED <<held, props, asked, list, reads, summary>>
      /\ luck \in [id : Nat, result : Summaries \cup {None}, error : Runs \cup {None}] /\ RunsTrue
  BY DEF RewardInv, RewardTyped, Rewards!Computed
<1>2. run.about \in Summaries
  BY <1>1 DEF Runs
<1>3. Rewards!Mine(run) => run.at = "running" /\ run.about = summary.statistics
  BY <1>1 DEF RunsTrue, Rewards!Mine
<1>4. /\ luck' \in [id : Nat, result : Summaries \cup {None}, error : Runs \cup {None}] /\ luck'.id = luck.id
      /\ luck'.result = luck.result \/ luck'.result = summary.statistics
      /\ luck'.error = luck.error \/ (luck'.error = run /\ Rewards!Mine(run))
  <2>1. \/ luck' = luck
        \/ Rewards!Mine(run) /\ luck' = [luck EXCEPT !.result = run.about]
        \/ Rewards!Mine(run) /\ luck' = [luck EXCEPT !.error = run]
    BY DEF Rewards!Computed
  <2>2. CASE luck' = luck
    BY <1>1, <2>2
  <2>3. CASE Rewards!Mine(run) /\ luck' = [luck EXCEPT !.result = run.about]
    BY <1>1, <1>2, <1>3, <2>3
  <2>4. CASE Rewards!Mine(run) /\ luck' = [luck EXCEPT !.error = run]
    BY <1>1, <2>4
  <2> QED BY <2>1, <2>2, <2>3, <2>4
<1>5. Rewards!LuckIsOfSummary'
  BY <1>1, <1>3, <1>4 DEF RewardInv, Rewards!LuckIsOfSummary
<1>6. RunsTrue'
  BY <1>1, <1>4 DEF RunsTrue
<1>7. ListTrue'
  BY <1>1 DEF RewardInv, ListTrue, Fits
<1>8. RewardTyped'
  BY <1>1, <1>4 DEF RewardInv, RewardTyped
<1> QED BY <1>5, <1>6, <1>7, <1>8 DEF RewardInv

(* A change of what is asked: a new request, and statistics of nothing. *)
LEMMA RewardLoads ==
  ASSUME RewardInv, NEW p \in [profile : Profiles, revision : Nat, loading : BOOLEAN],
         NEW a \in [type : Types, window : Rewards!Windows], Rewards!Load(p, a),
         held' = held, p.revision <= held.revision
  PROVE  RewardInv'
<1> DEFINE moved == Rewards!Context(p, a) # Rewards!Context(props, asked)
<1>1. /\ held \in [revision : Nat, pages : Lengths] /\ reads \subseteq Reading
      /\ list \in [id : Nat, pending : BOOLEAN, error : BOOLEAN, stale : BOOLEAN, overview : Reading \cup {None}]
      /\ summary \in [id : Nat, pending : BOOLEAN, statistics : Summaries \cup {None}] /\ ListTrue
  BY DEF RewardInv, RewardTyped
<1>2. PICK now \in [type : Types, window : Rewards!Windows] :
        now = IF moved THEN [a EXCEPT !.window = "preview"] ELSE a
  <2>1. [a EXCEPT !.window = "preview"] \in [type : Types, window : Rewards!Windows]
    BY DEF Rewards!Windows
  <2> QED BY <2>1
<1>3. PICK id \in Nat : id = list.id + 1
  BY <1>1
<1>4. props' = p /\ asked' = now
  BY <1>2 DEF Rewards!Load
<1>5. /\ list' \in [id : Nat, pending : BOOLEAN, error : BOOLEAN, stale : BOOLEAN, overview : Reading \cup {None}]
      /\ list'.id = id /\ list'.pending = ~p.loading
  <2>1. PICK l \in [id : Nat, pending : BOOLEAN, error : BOOLEAN, stale : BOOLEAN, overview : Reading \cup {None}] :
          l = IF moved THEN Rewards!Rebound(list) ELSE list
    <3>1. (list.overview # None) \in BOOLEAN
      OBVIOUS
    <3> QED BY <1>1, <3>1 DEF Rewards!Rebound
  <2>2. list' = [l EXCEPT !.id = id, !.pending = ~p.loading, !.error = IF p.loading THEN @ ELSE FALSE]
    BY <1>3, <2>1 DEF Rewards!Load
  <2>3. (~p.loading) \in BOOLEAN /\ (IF p.loading THEN l.error ELSE FALSE) \in BOOLEAN
    OBVIOUS
  <2> QED BY <2>2, <2>3
<1>6. PICK r \in Reading : /\ r = Rewards!ListRead(id, p, now) /\ r.what = "list" /\ r.parts = <<>>
                           /\ r.profile = p.profile /\ r.type = now.type /\ r.window = now.window
  <2>1. Rewards!ListRead(id, p, now) \in Reading
    BY DEF Rewards!ListRead, Reading
  <2> QED BY <2>1 DEF Rewards!ListRead
<1>7. PICK q \in Reading : q = [Rewards!ListRead(summary.id + 1, p, now) EXCEPT !.what = "summary"]
                           /\ q.what = "summary"
  <2>1. PICK n \in Nat : n = summary.id + 1
    BY <1>1
  <2>2. [Rewards!ListRead(n, p, now) EXCEPT !.what = "summary"]
        = [what |-> "summary", id |-> n, profile |-> p.profile, type |-> now.type,
           window |-> now.window, parts |-> <<>>, pages |-> 0]
    BY DEF Rewards!ListRead
  <2>3. [what |-> "summary", id |-> n, profile |-> p.profile, type |-> now.type,
         window |-> now.window, parts |-> <<>>, pages |-> 0] \in Reading
    BY DEF Reading
  <2> QED BY <2>1, <2>2, <2>3
<1>8. reads' \subseteq reads \cup {r, q}
  BY <1>2, <1>3, <1>6, <1>7 DEF Rewards!Load
<1>9. ListTrue'
  <2>1. \A read \in reads : read.what = "list" => read.id <= list.id /\ read.id \in Nat
    BY <1>1 DEF ListTrue, Reading
  <2>2. Len(r.parts) = 0
    BY <1>6
  <2>3. \A read \in reads : read.what = "list" => read.id <= id /\ read.id # id
    BY <1>1, <1>3, <2>1
  <2>4. Fits(r)'
    BY <1>4, <1>6, <2>2 DEF Fits
  <2>5. r.id = id
    BY <1>6 DEF Rewards!ListRead
  <2>6. \A read \in reads' : read.what = "list" =>
          read.id <= list'.id /\ (read.id = list'.id => Fits(read)')
    <3> SUFFICES ASSUME NEW read \in reads', read.what = "list"
                 PROVE  read.id <= id /\ (read.id = id => Fits(read)')
      BY <1>5
    <3>1. CASE read \in reads
      BY <2>3, <3>1
    <3>2. CASE read = r
      BY <2>4, <2>5, <3>2 DEF Fits
    <3> QED BY <1>7, <1>8, <3>1, <3>2
  <2>7. props'.revision <= held'.revision
    BY <1>4
  <2>8. props'.loading \/ list'.pending
    BY <1>4, <1>5
  <2> QED BY <2>6, <2>7, <2>8 DEF ListTrue
<1>10. /\ summary' \in [id : Nat, pending : BOOLEAN, statistics : Summaries \cup {None}]
       /\ luck' \in [id : Nat, result : Summaries \cup {None}, error : Runs \cup {None}]
       /\ runs' \subseteq Runs /\ RunsTrue' /\ Rewards!LuckIsOfSummary'
  <2>1. CASE UNCHANGED <<summary, luck, runs>>
    BY <2>1 DEF RewardInv, RewardTyped, RunsTrue, Rewards!LuckIsOfSummary
  <2>2. CASE ~UNCHANGED <<summary, luck, runs>>
    <3>1. /\ summary' = [id |-> summary.id + 1, pending |-> ~p.loading, statistics |-> None]
          /\ Rewards!Compare(summary')
      BY <2>2 DEF Rewards!Load
    <3>2. (~p.loading) \in BOOLEAN /\ summary.id + 1 \in Nat
      BY <1>1
    <3>3. PICK s \in [id : Nat, pending : BOOLEAN, statistics : Summaries \cup {None}] : s = summary'
      BY <3>1, <3>2
    <3>4. Rewards!Compare(s)
      BY <3>1, <3>3
    <3> QED BY <3>3, <3>4, ComparesAgain
  <2> QED BY <2>1, <2>2
<1>11. RewardTyped'
  BY <1>1, <1>4, <1>5, <1>8, <1>10 DEF RewardTyped
<1> QED BY <1>9, <1>10, <1>11 DEF RewardInv

(* A page of the list is read. *)
LEMMA RewardReadsList ==
  ASSUME RewardInv, NEW read \in reads, Rewards!ReadList(read)
  PROVE  RewardInv'
<1>1. /\ held \in [revision : Nat, pages : Lengths] /\ read \in Reading /\ reads \subseteq Reading
      /\ list \in [id : Nat, pending : BOOLEAN, error : BOOLEAN, stale : BOOLEAN, overview : Reading \cup {None}]
      /\ props.revision \in Nat /\ ListTrue /\ read.what = "list"
      /\ UNCHANGED <<held, props, asked, summary, luck, runs>>
  BY DEF RewardInv, RewardTyped, Rewards!ReadList
<1>2. PICK more \in Seq(Nat) : more = Append(read.parts, held.revision)
                               /\ \A i \in 1 .. Len(more) : more[i] = held.revision \/
                                    (i \in 1 .. Len(read.parts) /\ more[i] = read.parts[i])
  <2>1. read.parts \in Seq(Nat) /\ held.revision \in Nat
    BY <1>1 DEF Reading
  <2>2. PICK old \in Seq(Nat) : old = read.parts
    BY <2>1
  <2>3. PICK r \in Nat : r = held.revision
    BY <2>1
  <2>4. /\ Append(old, r) \in Seq(Nat) /\ Len(old) \in Nat /\ Len(Append(old, r)) = Len(old) + 1
        /\ \A i \in 1 .. Len(old) : Append(old, r)[i] = old[i]
        /\ Append(old, r)[Len(old) + 1] = r
    BY AppendProperties, LenProperties
  <2>5. \A i \in 1 .. (Len(old) + 1) : i \in 1 .. Len(old) \/ i = Len(old) + 1
    BY <2>4
  <2> QED BY <2>2, <2>3, <2>4, <2>5
<1>3. PICK next \in Reading : /\ next = [read EXCEPT !.parts = Append(@, held.revision), !.pages = held.pages]
                              /\ next.what = "list" /\ next.id = read.id /\ next.profile = read.profile
                              /\ next.type = read.type /\ next.window = read.window /\ next.parts = more
  <2>1. PICK n : n = [read EXCEPT !.parts = more, !.pages = held.pages]
    OBVIOUS
  <2>2. n \in Reading
    BY <1>1, <2>1 DEF Reading
  <2>3. /\ n.what = "list" /\ n.id = read.id /\ n.profile = read.profile
        /\ n.type = read.type /\ n.window = read.window /\ n.parts = more
    BY <1>1, <2>1 DEF Reading
  <2> QED BY <1>2, <2>1, <2>2, <2>3
<1>4. Fits(read) => Fits(next)
  BY <1>1, <1>2, <1>3 DEF Fits, ListTrue
<1>5. reads' \subseteq reads \cup {next}
  BY <1>3 DEF Rewards!ReadList
<1>6. \/ list' = list
      \/ list' = [list EXCEPT !.pending = FALSE, !.error = TRUE, !.stale = FALSE,
                              !.overview = IF list.stale THEN None ELSE @]
      \/ Rewards!Live(read) /\ list' = [list EXCEPT !.pending = FALSE, !.stale = FALSE, !.overview = next]
  BY <1>3 DEF Rewards!ReadList
<1>7. /\ list' \in [id : Nat, pending : BOOLEAN, error : BOOLEAN, stale : BOOLEAN, overview : Reading \cup {None}]
      /\ list'.id = list.id
      /\ list' = list \/ list'.error \/ (Rewards!Live(read) /\ list'.overview = next)
  <2>1. CASE list' = list
    BY <1>1, <2>1
  <2>2. CASE list' = [list EXCEPT !.pending = FALSE, !.error = TRUE, !.stale = FALSE,
                                  !.overview = IF list.stale THEN None ELSE @]
    <3>1. (IF list.stale THEN None ELSE list.overview) \in Reading \cup {None}
      BY <1>1
    <3> QED BY <1>1, <2>2, <3>1
  <2>3. CASE Rewards!Live(read) /\ list' = [list EXCEPT !.pending = FALSE, !.stale = FALSE, !.overview = next]
    BY <1>1, <2>3
  <2> QED BY <1>6, <2>1, <2>2, <2>3
<1>8. Rewards!Live(read) => Fits(read)
  BY <1>1 DEF ListTrue, Rewards!Live
<1>9. \A x : Fits(x) => Fits(x)'
  BY <1>1 DEF Fits
<1>10. ListTrue'
  <2>1. ASSUME NEW x \in reads', x.what = "list" PROVE x.id <= list.id /\ (x.id = list.id => Fits(x))
    BY <1>1, <1>3, <1>4, <1>5, <2>1 DEF ListTrue
  <2>2. ASSUME ~props.loading, ~list'.pending, ~list'.error, list'.overview # None PROVE Fits(list'.overview)
    BY <1>1, <1>4, <1>7, <1>8, <2>2 DEF ListTrue
  <2>3. ASSUME ~props.loading, ~list'.pending, ~list'.error, list'.overview # None PROVE Fits(list.overview)'
    BY <1>1, <2>2, <2>3 DEF Fits
  <2> QED BY <1>1, <1>7, <1>9, <2>1, <2>3 DEF ListTrue
<1>11. RewardTyped'
  BY <1>1, <1>5, <1>7 DEF RewardInv, RewardTyped
<1> QED BY <1>1, <1>10, <1>11 DEF RewardInv, RunsTrue, Rewards!LuckIsOfSummary

(* A read that ends in the statistics or in an error. *)
LEMMA RewardReadEnds ==
  ASSUME RewardInv, reads' \subseteq reads, UNCHANGED <<held, props, asked>>,
         list' = list \/ list' = [list EXCEPT !.pending = FALSE, !.error = TRUE, !.stale = FALSE,
                                              !.overview = IF list.stale THEN None ELSE @],
         \/ UNCHANGED <<summary, luck, runs>>
         \/ /\ summary' \in [id : Nat, pending : BOOLEAN, statistics : Summaries \cup {None}]
            /\ Rewards!Compare(summary')
  PROVE  RewardInv'
<1>1. /\ list \in [id : Nat, pending : BOOLEAN, error : BOOLEAN, stale : BOOLEAN, overview : Reading \cup {None}]
      /\ ListTrue
  BY DEF RewardInv, RewardTyped
<1>2. /\ list' \in [id : Nat, pending : BOOLEAN, error : BOOLEAN, stale : BOOLEAN, overview : Reading \cup {None}]
      /\ list'.id = list.id /\ (list' = list \/ list'.error)
  <2>1. CASE list' = list
    BY <1>1, <2>1
  <2>2. CASE list' = [list EXCEPT !.pending = FALSE, !.error = TRUE, !.stale = FALSE,
                                  !.overview = IF list.stale THEN None ELSE @]
    <3>1. (IF list.stale THEN None ELSE list.overview) \in Reading \cup {None}
      BY <1>1
    <3> QED BY <1>1, <2>2, <3>1
  <2> QED BY <2>1, <2>2
<1>3. ListTrue'
  BY <1>1, <1>2 DEF ListTrue, Fits
<1>4. /\ summary' \in [id : Nat, pending : BOOLEAN, statistics : Summaries \cup {None}]
      /\ luck' \in [id : Nat, result : Summaries \cup {None}, error : Runs \cup {None}]
      /\ runs' \subseteq Runs /\ RunsTrue' /\ Rewards!LuckIsOfSummary'
  <2>1. CASE UNCHANGED <<summary, luck, runs>>
    BY <2>1 DEF RewardInv, RewardTyped, RunsTrue, Rewards!LuckIsOfSummary
  <2>2. CASE /\ summary' \in [id : Nat, pending : BOOLEAN, statistics : Summaries \cup {None}]
             /\ Rewards!Compare(summary')
    <3>1. PICK s \in [id : Nat, pending : BOOLEAN, statistics : Summaries \cup {None}] : s = summary'
      BY <2>2
    <3>2. Rewards!Compare(s)
      BY <2>2, <3>1
    <3> QED BY <3>1, <3>2, ComparesAgain
  <2> QED BY <2>1, <2>2
<1>5. RewardTyped'
  BY <1>2, <1>4 DEF RewardInv, RewardTyped
<1> QED BY <1>3, <1>4, <1>5 DEF RewardInv

(* The reward history's invariant holds at the start, *)
LEMMA RewardStarts == Rewards!Init => RewardInv
<1> SUFFICES ASSUME Rewards!Init PROVE RewardInv
  OBVIOUS
<1>1. /\ held \in [revision : {1}, pages : Lengths]
      /\ props = [profile |-> CHOOSE p \in Profiles : TRUE, revision |-> 1, loading |-> TRUE]
      /\ asked = [type |-> CHOOSE t \in Types : TRUE, window |-> "preview"]
      /\ list = [id |-> 0, pending |-> FALSE, error |-> FALSE, stale |-> FALSE, overview |-> None]
      /\ summary = [id |-> 0, pending |-> FALSE, statistics |-> None]
      /\ luck = [id |-> 0, result |-> None, error |-> None] /\ reads = {} /\ runs = {}
  BY DEF Rewards!Init
<1>2. /\ held \in [revision : Nat, pages : Lengths] /\ held.revision = 1
      /\ props \in [profile : Profiles, revision : Nat, loading : BOOLEAN]
      /\ asked \in [type : Types, window : Rewards!Windows]
  BY <1>1, InputsAssumption DEF Rewards!Windows
<1>3. RewardTyped
  BY <1>1, <1>2 DEF RewardTyped
<1> QED BY <1>1, <1>2, <1>3 DEF RewardInv, ListTrue, RunsTrue, Rewards!LuckIsOfSummary

(* and after every step; *)
LEMMA RewardStep == RewardInv /\ [Rewards!Next]_rewardVars => RewardInv'
<1> SUFFICES ASSUME RewardInv, [Rewards!Next]_rewardVars PROVE RewardInv'
  OBVIOUS
<1>1. /\ held \in [revision : Nat, pages : Lengths]
      /\ props \in [profile : Profiles, revision : Nat, loading : BOOLEAN]
      /\ asked \in [type : Types, window : Rewards!Windows]
      /\ props.revision <= held.revision /\ reads \subseteq Reading
      /\ summary \in [id : Nat, pending : BOOLEAN, statistics : Summaries \cup {None}]
  BY DEF RewardInv, RewardTyped, ListTrue
<1>2. CASE UNCHANGED rewardVars
  BY <1>2 DEF rewardVars, RewardInv, RewardTyped, ListTrue, Fits, RunsTrue, Rewards!LuckIsOfSummary
<1>3. CASE Rewards!Learn
  <2>1. PICK p \in [profile : Profiles, revision : Nat, loading : BOOLEAN] :
          p = [props EXCEPT !.revision = held.revision, !.loading = FALSE] /\ p.revision = held.revision
    <3>1. held.revision \in Nat
      BY <1>1
    <3>2. [props EXCEPT !.revision = held.revision, !.loading = FALSE]
            \in [profile : Profiles, revision : Nat, loading : BOOLEAN]
      BY <1>1, <3>1
    <3> QED BY <1>1, <3>2
  <2>2. Rewards!Load(p, asked) /\ held' = held /\ p.revision <= held.revision
    BY <1>1, <1>3, <2>1 DEF Rewards!Learn
  <2> QED BY <1>1, <2>2, RewardLoads
<1>4. CASE Rewards!SelectProfile
  <2>1. PICK p \in [profile : Profiles, revision : Nat, loading : BOOLEAN] :
          Rewards!Load(p, asked) /\ p.revision = props.revision
    <3>1. PICK new \in Profiles : Rewards!Load([props EXCEPT !.profile = new, !.loading = TRUE], asked)
      BY <1>4 DEF Rewards!SelectProfile
    <3>2. [props EXCEPT !.profile = new, !.loading = TRUE] \in [profile : Profiles, revision : Nat, loading : BOOLEAN]
      BY <1>1
    <3>3. [props EXCEPT !.profile = new, !.loading = TRUE].revision = props.revision
      BY <1>1
    <3> QED BY <3>1, <3>2, <3>3
  <2> QED BY <1>1, <1>4, <2>1, RewardLoads DEF Rewards!SelectProfile
<1>5. CASE Rewards!Ask
  <2>1. PICK a \in [type : Types, window : Rewards!Windows] : Rewards!Load(props, a)
    <3>1. \A t \in Types : [asked EXCEPT !.type = t] \in [type : Types, window : Rewards!Windows]
      BY <1>1
    <3>2. \A w \in Rewards!Windows : [asked EXCEPT !.window = w] \in [type : Types, window : Rewards!Windows]
      BY <1>1
    <3> QED BY <1>1, <1>5, <3>1, <3>2 DEF Rewards!Ask
  <2> QED BY <1>1, <1>5, <2>1, RewardLoads DEF Rewards!Ask
<1>6. CASE Rewards!Change
  <2>1. PICK n \in Nat : n = held.revision + 1
    BY <1>1
  <2>2. held' \in [revision : {n}, pages : Lengths]
    BY <1>6, <2>1 DEF Rewards!Change
  <2>3. /\ held' \in [revision : Nat, pages : Lengths] /\ held.revision <= held'.revision /\ held'.revision \in Nat
        /\ UNCHANGED <<props, asked, list, reads, summary, luck, runs>>
    BY <1>1, <1>6, <2>1, <2>2 DEF Rewards!Change
  <2>4. ASSUME NEW x \in Reading, Fits(x) PROVE Fits(x)'
    <3>1. \A i \in 1 .. Len(x.parts) : x.parts[i] \in Nat
      BY DEF Reading
    <3> QED BY <1>1, <2>3, <2>4, <3>1 DEF Fits
  <2>5. ListTrue'
    <3>1. \A x \in reads : Fits(x) => Fits(x)'
      BY <1>1, <2>4
    <3>2. list.overview # None /\ Fits(list.overview) => Fits(list.overview)'
      <4>1. SUFFICES ASSUME list.overview # None, Fits(list.overview) PROVE Fits(list.overview)'
        OBVIOUS
      <4>2. PICK x \in Reading : x = list.overview
        BY <4>1 DEF RewardInv, RewardTyped
      <4>3. Fits(x)'
        BY <2>4, <4>1, <4>2
      <4> QED BY <2>3, <4>2, <4>3 DEF Fits
    <3> QED BY <1>1, <2>3, <3>1, <3>2 DEF RewardInv, ListTrue
  <2> QED BY <2>3, <2>5 DEF RewardInv, RewardTyped, RunsTrue, Rewards!LuckIsOfSummary
<1>7. ASSUME NEW read \in reads, Rewards!ReadSummary(read) PROVE RewardInv'
  <2>1. /\ reads' \subseteq reads /\ UNCHANGED <<held, props, asked, list>>
        /\ \/ UNCHANGED <<summary, luck, runs>>
           \/ summary' = [summary EXCEPT !.pending = FALSE,
                            !.statistics = [profile |-> read.profile, type |-> read.type, revision |-> held.revision]]
              /\ Rewards!Compare(summary')
    BY <1>7 DEF Rewards!ReadSummary
  <2>2. PICK s \in Summaries : s = [profile |-> read.profile, type |-> read.type, revision |-> held.revision]
    <3>1. read.profile \in Profiles /\ read.type \in Types /\ held.revision \in Nat
      BY <1>1 DEF Reading
    <3> QED BY <3>1 DEF Summaries
  <2>3. [summary EXCEPT !.pending = FALSE, !.statistics = s]
          \in [id : Nat, pending : BOOLEAN, statistics : Summaries \cup {None}]
    BY <1>1
  <2> QED BY <2>1, <2>2, <2>3, RewardReadEnds
<1>8. ASSUME NEW read \in reads, Rewards!ReadFails(read) PROVE RewardInv'
  <2>1. /\ reads' \subseteq reads /\ UNCHANGED <<held, props, asked>>
        /\ list' = list \/ list' = [list EXCEPT !.pending = FALSE, !.error = TRUE, !.stale = FALSE,
                                                !.overview = IF list.stale THEN None ELSE @]
        /\ \/ UNCHANGED <<summary, luck, runs>>
           \/ summary' = [summary EXCEPT !.pending = FALSE] /\ Rewards!Compare(summary')
    BY <1>8 DEF Rewards!ReadFails
  <2>2. [summary EXCEPT !.pending = FALSE] \in [id : Nat, pending : BOOLEAN, statistics : Summaries \cup {None}]
    BY <1>1
  <2> QED BY <2>1, <2>2, RewardReadEnds
<1> QED BY <1>2, <1>3, <1>4, <1>5, <1>6, <1>7, <1>8, RewardReadsList, RewardComputed DEF Rewards!Next

(* it gives what the reward history promises. *)
LEMMA RewardSound == RewardInv => Rewards!ListIsWhole /\ Rewards!LuckIsOfSummary
<1> SUFFICES ASSUME RewardInv, Rewards!Shown
             PROVE  /\ list.overview.profile = props.profile /\ list.overview.type = asked.type
                    /\ list.overview.window = asked.window
                    /\ props.revision = held.revision =>
                         \A i \in 1 .. Len(list.overview.parts) : list.overview.parts[i] = held.revision
  BY DEF RewardInv, Rewards!ListIsWhole
<1>1. Fits(list.overview) /\ list.overview \in Reading /\ held.revision \in Nat
  BY DEF RewardInv, RewardTyped, ListTrue, Rewards!Shown
<1>2. \A i \in 1 .. Len(list.overview.parts) : list.overview.parts[i] \in Nat
  BY <1>1 DEF Reading
<1> QED BY <1>1, <1>2 DEF Fits

-----------------------------------------------------------------------------
(* The steps of the history view. *)

(* The view and the notices, as HistoryTyped has them. *)
Views == [request : Nat, loading : BOOLEAN, error : BOOLEAN, history : Ledgers \cup {None},
          stats : Totals \cup {None}, about : Profiles \cup {None}]
Notices == [arrived : BOOLEAN, at : {"idle", "revision", "profiles", "refresh"},
            dirty : BOOLEAN, last : Nat, revision : Nat, id : Nat]

(* The floor is never ahead of the archive. *)
LEMMA FloorBound ==
  HistoryInv => archive.revision \in Nat /\ Floor \in Nat /\ Floor <= archive.revision
BY DEF HistoryInv, HistoryTyped, Past, Floor

(* Only the notices move: nothing new may be asked of what is shown. *)
LEMMA NoticeMoves ==
  ASSUME HistoryInv, UNCHANGED <<archive, sel, view, ops, cache, visible>>,
         notice' \in Notices, working' \in BOOLEAN,
         notice'.last <= archive.revision, notice'.revision <= archive.revision,
         (visible /\ ~view.error => Floor' <= Floor)
  PROVE  HistoryInv'
<1>1. /\ archive.revision \in Nat /\ Floor \in Nat /\ HistoryTyped /\ Past /\ CacheTrue /\ OpsTrue /\ ShownTrue
  BY FloorBound DEF HistoryInv
<1>2. HistoryTyped' /\ Past' /\ CacheTrue' /\ OpsTrue'
  BY <1>1 DEF HistoryTyped, Notices, Past, CacheTrue, OpsTrue, Current
<1>3. Floor' \in Nat
  BY <1>2 DEF HistoryTyped, Floor
<1>4. \A x \in Nat : visible /\ ~view.error /\ Floor <= x => Floor' <= x
  BY <1>1, <1>3
<1>5. /\ view.history # None => view.history.revision \in Nat
      /\ view.stats # None => view.stats.revision \in Nat
      /\ \A k \in Ledgers : k.revision \in Nat
      /\ \A k \in Totals : k.revision \in Nat
  BY <1>1 DEF HistoryTyped, Ledgers, Totals
<1>6. ShownTrue'
  <2> SUFFICES ASSUME visible
               PROVE  /\ \A op \in ops : Current(op) /\ op.at # "page" => op.profile = sel.profile
                      /\ ~view.error =>
                           /\ \A op \in ops : Current(op) /\ op.at = "data" =>
                                /\ cache.ledger.key \in Ledgers /\ cache.ledger.key.sel = sel
                                /\ Floor' <= cache.ledger.key.revision
                                /\ cache.metadata.key \in Totals /\ Good(cache.metadata.key, sel, Floor')
                           /\ \A op \in ops : Current(op) /\ op.at = "page" => view.stats # None /\ Good(view.stats, sel, Floor')
                           /\ ~view.loading /\ view.history # None =>
                                /\ view.history.sel = sel /\ Floor' <= view.history.revision
                                /\ view.stats # None /\ Good(view.stats, sel, Floor')
    BY DEF ShownTrue, Current, Good
  <2>1. \A op \in ops : Current(op) /\ op.at # "page" => op.profile = sel.profile
    BY <1>1 DEF ShownTrue
  <2>2. ASSUME ~view.error
        PROVE  /\ \A op \in ops : Current(op) /\ op.at = "data" =>
                    /\ cache.ledger.key \in Ledgers /\ cache.ledger.key.sel = sel
                    /\ Floor' <= cache.ledger.key.revision
                    /\ cache.metadata.key \in Totals /\ Good(cache.metadata.key, sel, Floor')
               /\ \A op \in ops : Current(op) /\ op.at = "page" => view.stats # None /\ Good(view.stats, sel, Floor')
               /\ ~view.loading /\ view.history # None =>
                    /\ view.history.sel = sel /\ Floor' <= view.history.revision
                    /\ view.stats # None /\ Good(view.stats, sel, Floor')
    BY <1>1, <1>4, <1>5, <2>2 DEF ShownTrue, Good
  <2> QED BY <2>1, <2>2
<1> QED BY <1>2, <1>6 DEF HistoryInv

(* A new request makes all others old. *)
LEMMA NewRequest ==
  ASSUME HistoryInv, NEW s \in Choices, NEW o \in Ops,
         \/ o.id = view.request + 1 /\ o.at = "revision" /\ o.profile = s.profile
         \/ o.id = 0 /\ o.at = "search",
         sel' = s, view' = History!Invalidated(view, s), ops' \subseteq ops \cup {o},
         UNCHANGED <<archive, cache>>, visible' \in BOOLEAN, working' \in BOOLEAN, notice' \in Notices,
         notice'.last <= archive.revision, notice'.revision <= archive.revision
  PROVE  HistoryInv'
<1>1. /\ archive.revision \in Nat /\ HistoryTyped /\ Past /\ CacheTrue /\ OpsTrue /\ view \in Views
      /\ view.request \in Nat /\ ops \subseteq Ops
  BY FloorBound DEF HistoryInv, HistoryTyped, Views
<1>2. /\ view' \in Views /\ view'.request = view.request + 1 /\ view'.loading /\ view'.history = view.history
      /\ view'.stats = None \/ view'.stats = view.stats
  <2>1. (IF view.about # s.profile THEN None ELSE view.stats) \in Totals \cup {None}
    BY <1>1 DEF Views
  <2>2. view.request + 1 \in Nat
    BY <1>1
  <2> QED BY <1>1, <2>1, <2>2 DEF History!Invalidated, Views
<1>3. HistoryTyped'
  BY <1>1, <1>2 DEF HistoryTyped, Notices, Views
<1>4. Past' /\ CacheTrue'
  BY <1>1, <1>2 DEF Past, CacheTrue
<1>5. \A op \in ops : op.id \in Nat /\ op.id <= view.request
  BY <1>1 DEF OpsTrue, Ops
<1>6. \A op \in ops' : Current(op)' => op = o /\ o.at = "revision" /\ o.profile = s.profile
  BY <1>1, <1>2, <1>5 DEF Current
<1>7. OpsTrue'
  BY <1>1, <1>2, <1>5, <1>6 DEF OpsTrue
<1>8. ShownTrue'
  BY <1>2, <1>6 DEF ShownTrue
<1> QED BY <1>3, <1>4, <1>7, <1>8 DEF HistoryInv

(* A hidden section shows nothing. *)
LEMMA Hidden ==
  ASSUME HistoryInv, visible' = FALSE, sel' \in Choices, ops' \subseteq ops, UNCHANGED <<archive, view, cache>>,
         working' \in BOOLEAN, notice' \in Notices,
         notice'.last <= archive.revision, notice'.revision <= archive.revision
  PROVE  HistoryInv'
<1>1. HistoryTyped' /\ Past' /\ CacheTrue'
  <2>1. HistoryTyped'
    BY DEF HistoryInv, HistoryTyped, Notices
  <2>2. Past'
    BY DEF HistoryInv, Past
  <2>3. CacheTrue'
    BY DEF HistoryInv, CacheTrue
  <2> QED BY <2>1, <2>2, <2>3
<1>2. OpsTrue'
  BY DEF HistoryInv, OpsTrue, Current
<1> QED BY <1>1, <1>2 DEF HistoryInv, ShownTrue

(* What an action leaves alone of the notices leaves the floor alone. *)
LEMMA FloorStays == UNCHANGED <<archive, notice, working>> => Floor' = Floor
BY DEF Floor, Due

(* The archive's answer is put in the cache, or nothing is left there. *)
Caches == [ledger : [key : Ledgers \cup {None}, value : Ledgers \cup {None, Pending}],
           metadata : [key : Totals \cup {None}, value : Totals \cup {None, Pending}]]

(* The revision of a request is read, and its rows and totals are asked for. *)
LEMMA HistoryReadsRevision ==
  ASSUME HistoryInv, NEW op \in ops, History!ReadRevision(op)
  PROVE  HistoryInv'
<1>1. /\ archive.revision \in Nat /\ Floor \in Nat /\ Floor <= archive.revision
      /\ HistoryTyped /\ Past /\ CacheTrue /\ OpsTrue /\ ShownTrue /\ op \in Ops /\ ops \subseteq Ops
      /\ cache \in Caches /\ sel \in Choices
      /\ UNCHANGED <<archive, sel, view, notice, visible, working>>
  BY FloorBound DEF HistoryInv, HistoryTyped, Caches, History!ReadRevision
<1>2. Floor' = Floor
  BY <1>1, FloorStays
<1>3. CASE History!Live(op)
  <2>1. PICK o \in Ops : o = [op EXCEPT !.at = "data"] /\ o.id = op.id /\ o.at = "data" /\ o.profile = op.profile
    <3>1. [op EXCEPT !.at = "data"] \in Ops
      BY <1>1 DEF Ops
    <3>2. LET o == [op EXCEPT !.at = "data"] IN o.id = op.id /\ o.at = "data" /\ o.profile = op.profile
      BY <1>1 DEF Ops
    <3> QED BY <3>1, <3>2
  <2>2. PICK k \in Ledgers : k = History!LedgerKey /\ k.sel = sel /\ k.revision = archive.revision
    <3>1. [revision |-> archive.revision, sel |-> sel] \in Ledgers
      BY <1>1 DEF Ledgers
    <3> QED BY <3>1 DEF History!LedgerKey
  <2>3. PICK m \in Totals : m = History!MetadataKey(op) /\ m.profile = op.profile /\ m.revision = archive.revision
    <3>1. [revision |-> archive.revision, profile |-> op.profile] \in Totals
      BY <1>1 DEF Totals, Ops
    <3> QED BY <3>1 DEF History!MetadataKey
  <2>4. ops' = (ops \ {op}) \cup {o}
        /\ cache' = [ledger |-> History!Asked(cache.ledger, k), metadata |-> History!Asked(cache.metadata, m)]
    BY <1>3, <2>1, <2>2, <2>3 DEF History!ReadRevision
  <2>5. cache' \in Caches /\ cache'.ledger.key = k /\ cache'.metadata.key = m
        /\ (cache'.ledger.value = Pending \/ cache'.ledger = cache.ledger)
        /\ (cache'.metadata.value = Pending \/ cache'.metadata = cache.metadata)
    BY <1>1, <2>4 DEF Caches, History!Asked
  <2>6. HistoryTyped'
    <3>1. ops' \subseteq Ops
      BY <1>1, <2>4
    <3> QED BY <1>1, <2>5, <3>1 DEF HistoryTyped, Caches
  <2>7. Past'
    BY <1>1 DEF Past
  <2>8. CacheTrue'
    <3>1. k.revision <= archive.revision /\ m.revision <= archive.revision
      BY <1>1, <2>2, <2>3
    <3> QED BY <1>1, <2>5, <3>1 DEF CacheTrue
  <2>9. op.at = "revision" /\ op.id = view.request /\ Current(op) /\ op.at # "page"
    BY <1>3 DEF History!ReadRevision, History!Live, Current
  <2>10. OpsTrue'
    <3>1. \A x \in ops' : x.id <= view.request
      BY <1>1, <2>1, <2>4 DEF OpsTrue
    <3>2. \A x \in ops : Current(x) => x.at # "page"
      BY <1>1, <2>9 DEF OpsTrue
    <3>3. \A x \in ops' : x.id = view.request /\ x.at # "search" => x.at # "page"
      BY <2>1, <2>4, <3>2 DEF Current
    <3> QED BY <1>1, <3>1, <3>3 DEF OpsTrue, Current
  <2>11. ShownTrue'
    <3> SUFFICES ASSUME visible
                 PROVE  /\ \A x \in ops' : x.id = view.request /\ x.at # "search" /\ x.at # "page"
                             => x.profile = sel.profile
                        /\ ~view.error =>
                             /\ k.sel = sel /\ Floor <= k.revision /\ Good(m, sel, Floor)
                             /\ \A x \in ops' : x.id = view.request /\ x.at = "page" => view.stats # None /\ Good(view.stats, sel, Floor)
                             /\ ~view.loading /\ view.history # None =>
                                  /\ view.history.sel = sel /\ Floor <= view.history.revision
                                  /\ view.stats # None /\ Good(view.stats, sel, Floor)
      BY <1>1, <1>2, <2>5 DEF ShownTrue, Current, Good
    <3>1. op.profile = sel.profile
      BY <1>1, <2>9 DEF ShownTrue
    <3>2. \A x \in ops' : x.id = view.request /\ x.at # "search" /\ x.at # "page" => x.profile = sel.profile
      BY <1>1, <2>1, <2>4, <3>1 DEF ShownTrue, Current
    <3>4. k.sel = sel /\ Floor <= k.revision /\ Good(m, sel, Floor)
      BY <1>1, <2>2, <2>3, <3>1 DEF Good
    <3>5. \A x \in ops' : x.id = view.request /\ x.at = "page" /\ ~view.error => view.stats # None /\ Good(view.stats, sel, Floor)
      BY <1>1, <2>1, <2>4 DEF ShownTrue, Current
    <3> QED BY <1>1, <3>2, <3>4, <3>5 DEF ShownTrue
  <2> QED BY <2>6, <2>7, <2>8, <2>10, <2>11 DEF HistoryInv
<1>4. CASE ~History!Live(op)
  <2>1. ops' = ops \ {op} /\ cache' = cache
    BY <1>4 DEF History!ReadRevision
  <2>2. HistoryTyped' /\ Past'
    BY <1>1, <2>1 DEF HistoryTyped, Past
  <2>3. CacheTrue' /\ OpsTrue'
    BY <1>1, <2>1 DEF CacheTrue, OpsTrue, Current
  <2>4. ShownTrue'
    BY <1>1, <1>2, <2>1 DEF ShownTrue, Current, Good
  <2> QED BY <2>2, <2>3, <2>4 DEF HistoryInv
<1> QED BY <1>3, <1>4

(* The facts of an action that leaves the archive and its notices alone. *)
LEMMA HistoryFacts ==
  HistoryInv =>
    /\ archive.revision \in Nat /\ Floor \in Nat /\ Floor <= archive.revision
    /\ HistoryTyped /\ Past /\ CacheTrue /\ OpsTrue /\ ShownTrue /\ ops \subseteq Ops
    /\ cache \in Caches /\ sel \in Choices /\ view \in Views /\ notice \in Notices /\ visible \in BOOLEAN
    /\ working \in BOOLEAN /\ notice.last <= archive.revision /\ notice.revision <= archive.revision
BY FloorBound DEF HistoryInv, HistoryTyped, Caches, Views, Notices, Past

(* The archive answers what the cache waits for. *)
LEMMA HistoryAnswers == HistoryInv /\ History!Answer => HistoryInv'
<1> SUFFICES ASSUME HistoryInv, History!Answer PROVE HistoryInv'
  OBVIOUS
<1>1. /\ archive.revision \in Nat /\ HistoryTyped /\ Past /\ CacheTrue /\ OpsTrue /\ ShownTrue /\ cache \in Caches
      /\ UNCHANGED <<archive, sel, view, ops, notice, visible, working>>
  BY HistoryFacts DEF History!Answer
<1>2. cache' \in Caches /\ CacheTrue' /\ cache'.ledger.key = cache.ledger.key
      /\ cache'.metadata.key = cache.metadata.key
  <2>1. CASE /\ cache.ledger.value = Pending
             /\ cache' = [cache EXCEPT !["ledger"].value = [sel |-> cache.ledger.key.sel, revision |-> archive.revision]]
    <3>1. PICK k \in Ledgers : k = cache.ledger.key /\ k.revision <= archive.revision
      BY <1>1, <2>1, NoneAssumption DEF CacheTrue
    <3>2. PICK v \in Ledgers : v = [sel |-> k.sel, revision |-> archive.revision]
                               /\ v.sel = k.sel /\ v.revision = archive.revision
      <4>1. [sel |-> k.sel, revision |-> archive.revision] \in Ledgers
        BY <1>1 DEF Ledgers
      <4> QED BY <4>1
    <3>3. PICK c \in [key : Ledgers \cup {None}, value : Ledgers \cup {None, Pending}] :
            c = [cache.ledger EXCEPT !.value = v] /\ c.key = k /\ c.value = v
      <4>1. cache.ledger \in [key : Ledgers \cup {None}, value : Ledgers \cup {None, Pending}]
        BY <1>1 DEF Caches
      <4>2. [cache.ledger EXCEPT !.value = v] \in [key : Ledgers \cup {None}, value : Ledgers \cup {None, Pending}]
        BY <4>1
      <4> QED BY <3>1, <4>1, <4>2
    <3>4. cache' = [cache EXCEPT !.ledger = c]
      BY <2>1, <3>1, <3>2, <3>3
    <3>5. cache' \in Caches /\ cache'.ledger = c /\ cache'.metadata = cache.metadata
      BY <1>1, <3>4 DEF Caches
    <3>6. CacheTrue'
      BY <1>1, <3>1, <3>2, <3>3, <3>5 DEF CacheTrue
    <3> QED BY <3>1, <3>3, <3>5, <3>6
  <2>2. CASE /\ cache.metadata.value = Pending
             /\ cache' = [cache EXCEPT !["metadata"].value =
                            [profile |-> cache.metadata.key.profile, revision |-> archive.revision]]
    <3>1. PICK k \in Totals : k = cache.metadata.key /\ k.revision <= archive.revision
      BY <1>1, <2>2, NoneAssumption DEF CacheTrue
    <3>2. PICK v \in Totals : v = [profile |-> k.profile, revision |-> archive.revision]
                              /\ v.profile = k.profile /\ v.revision = archive.revision
      <4>1. [profile |-> k.profile, revision |-> archive.revision] \in Totals
        BY <1>1 DEF Totals
      <4> QED BY <4>1
    <3>3. PICK c \in [key : Totals \cup {None}, value : Totals \cup {None, Pending}] :
            c = [cache.metadata EXCEPT !.value = v] /\ c.key = k /\ c.value = v
      <4>1. cache.metadata \in [key : Totals \cup {None}, value : Totals \cup {None, Pending}]
        BY <1>1 DEF Caches
      <4>2. [cache.metadata EXCEPT !.value = v] \in [key : Totals \cup {None}, value : Totals \cup {None, Pending}]
        BY <4>1
      <4> QED BY <3>1, <4>1, <4>2
    <3>4. cache' = [cache EXCEPT !.metadata = c]
      BY <2>2, <3>1, <3>2, <3>3
    <3>5. cache' \in Caches /\ cache'.metadata = c /\ cache'.ledger = cache.ledger
      BY <1>1, <3>4 DEF Caches
    <3>6. CacheTrue'
      BY <1>1, <3>1, <3>2, <3>3, <3>5 DEF CacheTrue
    <3> QED BY <3>1, <3>3, <3>5, <3>6
  <2> QED BY <2>1, <2>2 DEF History!Answer
<1>3. HistoryTyped' /\ Past' /\ OpsTrue'
  BY <1>1, <1>2 DEF HistoryTyped, Caches, Past, OpsTrue, Current
<1>4. ShownTrue'
  BY <1>1, <1>2, FloorStays DEF ShownTrue, Current, Good
<1> QED BY <1>2, <1>3, <1>4 DEF HistoryInv

(* A request ends with what the cache holds. *)
LEMMA HistorySettles ==
  ASSUME HistoryInv, NEW op \in ops, History!Settle(op)
  PROVE  HistoryInv'
<1>1. /\ archive.revision \in Nat /\ Floor \in Nat /\ HistoryTyped /\ Past /\ CacheTrue /\ OpsTrue /\ ShownTrue
      /\ op \in Ops /\ cache \in Caches /\ view \in Views /\ ops' = ops \ {op} /\ op.at = "data"
      /\ UNCHANGED <<archive, sel, cache, notice, visible, working>>
  BY HistoryFacts DEF History!Settle
<1>2. Floor' = Floor
  BY <1>1, FloorStays
<1>3. CASE History!Live(op)
  <2>1. PICK h \in Ledgers : h = cache.ledger.value /\ h # None /\ h # Pending
    BY <1>1 DEF Caches, History!Settle
  <2>2. PICK total \in Totals : total = cache.metadata.value /\ total # None /\ total # Pending
    BY <1>1 DEF Caches, History!Settle
  <2>3. /\ h.sel = cache.ledger.key.sel /\ cache.ledger.key.revision <= h.revision /\ h.revision <= archive.revision
        /\ total.profile = cache.metadata.key.profile /\ cache.metadata.key.revision <= total.revision
        /\ total.revision <= archive.revision
    BY <1>1, <2>1, <2>2 DEF CacheTrue
  <2>4. /\ view' = [view EXCEPT !.history = h, !.stats = total, !.about = op.profile, !.loading = FALSE]
        /\ op.profile \in Profiles
    BY <1>1, <1>3, <2>1, <2>2 DEF History!Settle, Ops
  <2>5. /\ view' \in Views /\ view'.request = view.request /\ view'.error = view.error
        /\ view'.history = h /\ view'.stats = total
    BY <1>1, <2>4 DEF Views
  <2>6. HistoryTyped' /\ Past'
    BY <1>1, <2>3, <2>5 DEF HistoryTyped, Views, Past
  <2>7. CacheTrue' /\ OpsTrue'
    BY <1>1, <2>5 DEF CacheTrue, OpsTrue, Current
  <2>8. visible /\ ~view.error => h.sel = sel /\ Floor <= h.revision /\ Good(total, sel, Floor)
    <3> SUFFICES ASSUME visible, ~view.error PROVE h.sel = sel /\ Floor <= h.revision /\ Good(total, sel, Floor)
      OBVIOUS
    <3>1. /\ cache.ledger.key \in Ledgers /\ cache.ledger.key.sel = sel /\ Floor <= cache.ledger.key.revision
          /\ cache.metadata.key \in Totals /\ Good(cache.metadata.key, sel, Floor)
      BY <1>1, <1>3 DEF ShownTrue, Current, History!Live
    <3>2. cache.ledger.key.revision \in Nat /\ cache.metadata.key.revision \in Nat
          /\ h.revision \in Nat /\ total.revision \in Nat
      BY <3>1 DEF Ledgers, Totals
    <3> QED BY <1>1, <2>3, <3>1, <3>2 DEF Good
  <2>9. ShownTrue'
    BY <1>1, <1>2, <2>2, <2>5, <2>8 DEF ShownTrue, Current, Good
  <2> QED BY <2>6, <2>7, <2>9 DEF HistoryInv
<1>4. CASE ~History!Live(op)
  <2>1. view' = view
    BY <1>4 DEF History!Settle
  <2>2. HistoryTyped' /\ Past' /\ OpsTrue'
    BY <1>1, <2>1 DEF HistoryTyped, Past, OpsTrue, Current
  <2>3. CacheTrue'
    BY <1>1 DEF CacheTrue
  <2>4. ShownTrue'
    BY <1>1, <1>2, <2>1 DEF ShownTrue, Current, Good
  <2> QED BY <2>2, <2>3, <2>4 DEF HistoryInv
<1> QED BY <1>3, <1>4

(* A request fails. *)
LEMMA HistoryReadFails == HistoryInv /\ History!ReadFails => HistoryInv'
<1> SUFFICES ASSUME HistoryInv, History!ReadFails PROVE HistoryInv'
  OBVIOUS
<1>1. /\ archive.revision \in Nat /\ HistoryTyped /\ Past /\ CacheTrue /\ OpsTrue /\ ShownTrue
      /\ cache \in Caches /\ view \in Views
      /\ UNCHANGED <<archive, sel, notice, visible, working>>
  BY HistoryFacts DEF History!ReadFails
<1>2. Floor' = Floor
  BY <1>1, FloorStays
<1>3. /\ view' \in Views /\ view'.request = view.request /\ view'.history = view.history /\ view'.stats = view.stats
      /\ view' = view \/ view'.error
  <2>1. view' = view \/ view' = [view EXCEPT !.error = TRUE, !.loading = FALSE]
    BY DEF History!ReadFails, History!Failed
  <2> QED BY <1>1, <2>1 DEF Views
<1>4. /\ ops' \subseteq ops /\ cache' \in Caches /\ CacheTrue'
      /\ cache' = cache \/ \A op \in ops' : op.at # "data"
  <2>1. CASE UNCHANGED cache /\ \E op \in ops : ops' = ops \ {op}
    BY <1>1, <2>1 DEF CacheTrue
  <2>2. CASE /\ cache' = [cache EXCEPT !["ledger"] = History!NoCache]
             /\ ops' = {op \in ops : op.at # "data"}
    <3>1. History!NoCache.value = None /\ History!NoCache \in [key : Ledgers \cup {None}, value : Ledgers \cup {None, Pending}]
      BY DEF History!NoCache
    <3>2. cache' \in Caches /\ cache'.ledger = History!NoCache /\ cache'.metadata = cache.metadata
      BY <1>1, <2>2, <3>1 DEF Caches
    <3>3. CacheTrue'
      BY <1>1, <3>1, <3>2 DEF CacheTrue
    <3> QED BY <2>2, <3>2, <3>3
  <2>3. CASE /\ cache' = [cache EXCEPT !["metadata"] = History!NoCache]
             /\ ops' = {op \in ops : op.at # "data"}
    <3>1. History!NoCache.value = None /\ History!NoCache \in [key : Totals \cup {None}, value : Totals \cup {None, Pending}]
      BY DEF History!NoCache
    <3>2. cache' \in Caches /\ cache'.metadata = History!NoCache /\ cache'.ledger = cache.ledger
      BY <1>1, <2>3, <3>1 DEF Caches
    <3>3. CacheTrue'
      BY <1>1, <3>1, <3>2 DEF CacheTrue
    <3> QED BY <2>3, <3>2, <3>3
  <2> QED BY <2>1, <2>2, <2>3 DEF History!ReadFails
<1>5. HistoryTyped' /\ Past' /\ OpsTrue'
  BY <1>1, <1>3, <1>4 DEF HistoryTyped, Caches, Views, Past, OpsTrue, Current
<1>6. ShownTrue'
  BY <1>1, <1>2, <1>3, <1>4 DEF ShownTrue, Current, Good
<1> QED BY <1>4, <1>5, <1>6 DEF HistoryInv

(* Another page of the rows is asked for. *)
LEMMA HistoryChangesPage == HistoryInv /\ History!ChangePage => HistoryInv'
<1> SUFFICES ASSUME HistoryInv, History!ChangePage PROVE HistoryInv'
  OBVIOUS
<1>1. /\ archive.revision \in Nat /\ HistoryTyped /\ Past /\ CacheTrue /\ OpsTrue /\ ShownTrue
      /\ view \in Views /\ sel \in Choices /\ ops \subseteq Ops /\ view.request \in Nat
      /\ UNCHANGED <<archive, sel, cache, notice, visible, working>>
      /\ visible /\ ~view.loading /\ view.history # None
  BY HistoryFacts DEF History!ChangePage, Views
<1>2. Floor' = Floor
  BY <1>1, FloorStays
<1>3. PICK n \in Nat : n = view.request + 1
  BY <1>1
<1>4. PICK o \in Ops : ops' = ops \cup {o} /\ o.id = n /\ o.at = "page"
  <2>1. PICK page \in Pages : ops' = ops \cup {History!Op(n, "page", [sel EXCEPT !.page = page])}
    BY <1>3 DEF History!ChangePage
  <2>2. [sel EXCEPT !.page = page] \in Choices
    BY <1>1 DEF Choices, PageNumbers
  <2>3. PICK s \in Choices : s = [sel EXCEPT !.page = page]
    BY <2>2
  <2>4. History!Op(n, "page", s) \in Ops /\ History!Op(n, "page", s).id = n /\ History!Op(n, "page", s).at = "page"
    BY DEF History!Op, Ops, Choices
  <2> QED BY <2>1, <2>3, <2>4
<1>5. view' = [view EXCEPT !.request = n, !.loading = TRUE]
  BY <1>3 DEF History!ChangePage
<1>6. /\ view' \in Views /\ view'.request = n /\ view'.loading /\ view'.error = view.error
      /\ view'.history = view.history /\ view'.stats = view.stats
  BY <1>1, <1>5 DEF Views
<1>7. HistoryTyped' /\ Past' /\ CacheTrue'
  BY <1>1, <1>4, <1>6 DEF HistoryTyped, Views, Past, CacheTrue
<1>8. \A op \in ops : op.id \in Nat /\ op.id <= view.request
  BY <1>1 DEF OpsTrue, Ops
<1>9. \A op \in ops' : Current(op)' => op = o
  <2>1. \A op \in ops : op.id # n
    BY <1>1, <1>3, <1>8
  <2> QED BY <1>4, <1>6, <2>1 DEF Current
<1>10. OpsTrue'
  <2>1. \A op \in ops' : op.id <= n
    BY <1>1, <1>3, <1>4, <1>8
  <2> QED BY <1>4, <1>6, <1>9, <2>1 DEF OpsTrue
<1>11. ~view.error => view.stats # None /\ Good(view.stats, sel, Floor)
  BY <1>1 DEF ShownTrue
<1>12. ShownTrue'
  BY <1>1, <1>2, <1>4, <1>6, <1>9, <1>11 DEF ShownTrue, Good
<1> QED BY <1>7, <1>10, <1>12 DEF HistoryInv

(* The rows of a page arrive, with the totals shown before. *)
LEMMA HistoryShowsPage ==
  ASSUME HistoryInv, NEW op \in ops, History!ShowPage(op)
  PROVE  HistoryInv'
<1>1. /\ archive.revision \in Nat /\ Floor <= archive.revision
      /\ HistoryTyped /\ Past /\ CacheTrue /\ OpsTrue /\ ShownTrue
      /\ op \in Ops /\ view \in Views /\ sel \in Choices /\ ops' = ops \ {op} /\ op.at = "page"
      /\ UNCHANGED <<archive, cache, notice, visible, working>>
  BY HistoryFacts DEF History!ShowPage
<1>2. Floor' = Floor
  BY <1>1, FloorStays
<1>3. CASE History!Live(op)
  <2>1. PICK s \in Choices : s = [sel EXCEPT !.page = op.page] /\ s.profile = sel.profile
    <3>1. [sel EXCEPT !.page = op.page] \in Choices
      BY <1>1 DEF Choices, Ops
    <3> QED BY <1>1, <3>1 DEF Choices
  <2>2. PICK h \in Ledgers : h = [sel |-> s, revision |-> archive.revision] /\ h.sel = s
                             /\ h.revision = archive.revision
    <3>1. [sel |-> s, revision |-> archive.revision] \in Ledgers
      BY <1>1 DEF Ledgers
    <3> QED BY <3>1
  <2>3. sel' = s /\ view' = [view EXCEPT !.loading = FALSE, !.history = h]
    BY <1>3, <2>1, <2>2 DEF History!ShowPage
  <2>4. /\ view' \in Views /\ view'.request = view.request /\ view'.error = view.error
        /\ view'.history = h /\ view'.stats = view.stats
    BY <1>1, <2>3 DEF Views
  <2>5. HistoryTyped' /\ Past' /\ CacheTrue'
    <3>1. h.revision <= archive.revision
      BY <1>1, <2>2
    <3> QED BY <1>1, <2>3, <2>4, <3>1 DEF HistoryTyped, Views, Past, CacheTrue
  <2>6. OpsTrue'
    BY <1>1, <2>4 DEF OpsTrue, Current
  <2>7. Current(op) /\ \A x \in ops : Current(x) => x.at = "page"
    BY <1>1, <1>3 DEF OpsTrue, Current, History!Live
  <2>8. visible /\ ~view.error => view.stats # None /\ Good(view.stats, s, Floor)
    BY <1>1, <2>1, <2>7 DEF ShownTrue, Good
  <2>9. ShownTrue'
    BY <1>1, <1>2, <2>2, <2>3, <2>4, <2>7, <2>8 DEF ShownTrue, Current, Good
  <2> QED BY <2>5, <2>6, <2>9 DEF HistoryInv
<1>4. CASE ~History!Live(op)
  <2>1. UNCHANGED <<sel, view>>
    BY <1>4 DEF History!ShowPage
  <2>2. HistoryTyped' /\ Past' /\ OpsTrue'
    BY <1>1, <2>1 DEF HistoryTyped, Past, OpsTrue, Current
  <2>3. CacheTrue'
    BY <1>1 DEF CacheTrue
  <2>4. ShownTrue'
    BY <1>1, <1>2, <2>1 DEF ShownTrue, Current, Good
  <2> QED BY <2>2, <2>3, <2>4 DEF HistoryInv
<1> QED BY <1>3, <1>4

(* The operation a request starts. *)
LEMMA OpIs ==
  ASSUME NEW id \in Nat, NEW at \in {"revision", "data", "page", "search"}, NEW s \in Choices
  PROVE  /\ History!Op(id, at, s) \in Ops /\ History!Op(id, at, s).id = id
         /\ History!Op(id, at, s).at = at /\ History!Op(id, at, s).profile = s.profile
BY DEF History!Op, Ops, Choices

(* A refresh with another selection, asked for by the person or by a notice. *)
LEMMA HistoryRefreshes ==
  ASSUME HistoryInv, NEW s \in Choices, History!Refresh(s), UNCHANGED <<archive, cache, visible, working>>,
         notice' \in Notices, notice'.last <= archive.revision, notice'.revision <= archive.revision
  PROVE  HistoryInv'
<1>1. view \in Views /\ view.request \in Nat /\ visible \in BOOLEAN /\ working \in BOOLEAN /\ sel' = s
  BY HistoryFacts DEF Views, History!Refresh
<1>2. CASE visible
  <2>1. PICK n \in Nat : n = view.request + 1
    BY <1>1
  <2>2. view' = History!Invalidated(view, s) /\ ops' = ops \cup {History!Op(n, "revision", s)}
    BY <1>2, <2>1 DEF History!Refresh
  <2>3. PICK o \in Ops : o = History!Op(n, "revision", s) /\ o.id = n /\ o.at = "revision" /\ o.profile = s.profile
    BY OpIs
  <2> QED BY <1>1, <2>1, <2>2, <2>3, NewRequest
<1>3. CASE ~visible
  <2>1. UNCHANGED <<view, ops>>
    BY <1>3 DEF History!Refresh
  <2> QED BY <1>1, <1>3, <2>1, Hidden
<1> QED BY <1>2, <1>3

(* What the person does: select, search, try again, enter and leave. *)
LEMMA PersonActs ==
  ASSUME HistoryInv, History!Select \/ History!Search \/ History!TryAgain \/ History!Enter \/ History!Leave
                     \/ \E op \in ops : History!SearchTimer(op)
  PROVE  HistoryInv'
<1>1. /\ view \in Views /\ view.request \in Nat /\ visible \in BOOLEAN /\ working \in BOOLEAN /\ sel \in Choices
      /\ notice \in Notices /\ notice.last <= archive.revision /\ notice.revision <= archive.revision
      /\ archive.profiles \subseteq Profiles
  BY HistoryFacts DEF Views, HistoryTyped
<1>2. PICK n \in Nat : n = view.request + 1
  BY <1>1
<1>3. CASE History!Select
  <2>1. PICK s \in Choices : History!Refresh(s)
    BY <1>1, <1>3 DEF History!Select, Choices, PageNumbers
  <2> QED BY <1>1, <1>3, <2>1, HistoryRefreshes DEF History!Select
<1>4. CASE History!TryAgain
  BY <1>1, <1>4, HistoryRefreshes DEF History!TryAgain
<1>5. CASE History!Search
  <2>1. PICK f \in Filters : LET s == [sel EXCEPT !.filter = f]
                             IN  /\ sel' = s /\ view' = History!Invalidated(view, s)
                                 /\ ops' = ops \cup {History!Op(0, "search", s)}
    BY <1>5 DEF History!Search
  <2>2. PICK s \in Choices : s = [sel EXCEPT !.filter = f]
    BY <1>1 DEF Choices
  <2>3. PICK o \in Ops : o = History!Op(0, "search", s) /\ o.id = 0 /\ o.at = "search"
    BY OpIs
  <2>4. sel' = s /\ view' = History!Invalidated(view, s) /\ ops' \subseteq ops \cup {o}
    BY <2>1, <2>2, <2>3
  <2> QED BY <1>1, <1>5, <2>3, <2>4, NewRequest DEF History!Search
<1>6. ASSUME NEW op \in ops, History!SearchTimer(op) PROVE HistoryInv'
  <2>1. PICK s \in Choices : s = [sel EXCEPT !.page = 1]
    BY <1>1 DEF Choices, PageNumbers
  <2>2. PICK o \in Ops : o = History!Op(n, "revision", s) /\ o.id = n /\ o.at = "revision" /\ o.profile = s.profile
    BY OpIs
  <2>3. sel' = s /\ UNCHANGED <<archive, cache, notice, visible, working>>
    BY <1>6, <2>1 DEF History!SearchTimer
  <2>4. CASE visible
    <3>1. view' = History!Invalidated(view, s) /\ ops' = (ops \ {op}) \cup {o}
      BY <1>2, <1>6, <2>1, <2>2, <2>4 DEF History!SearchTimer
    <3> QED BY <1>1, <1>2, <2>2, <2>3, <3>1, NewRequest
  <2>5. CASE ~visible
    <3>1. ops' = ops \ {op} /\ view' = view
      BY <1>6, <2>5 DEF History!SearchTimer
    <3> QED BY <1>1, <2>3, <2>5, <3>1, Hidden
  <2> QED BY <2>4, <2>5
<1>7. CASE History!Enter
  <2>1. PICK o \in Ops : o = History!Op(n, "revision", sel) /\ o.id = n /\ o.at = "revision" /\ o.profile = sel.profile
    BY <1>1, OpIs
  <2>2. /\ view' = History!Invalidated(view, sel) /\ ops' = ops \cup {o} /\ visible' = TRUE
        /\ UNCHANGED <<archive, sel, cache, notice, working>>
    BY <1>2, <1>7, <2>1 DEF History!Enter
  <2> QED BY <1>1, <1>2, <2>1, <2>2, NewRequest
<1>8. CASE History!Leave
  BY <1>1, <1>8, Hidden DEF History!Leave
<1> QED BY <1>3, <1>4, <1>5, <1>6, <1>7, <1>8

(* The archive changes, in this tab or in another. *)
LEMMA ArchiveChanges == HistoryInv /\ History!Change => HistoryInv'
<1> SUFFICES ASSUME HistoryInv, History!Change PROVE HistoryInv'
  OBVIOUS
<1>1. /\ archive.revision \in Nat /\ Floor \in Nat /\ Floor <= archive.revision
      /\ HistoryTyped /\ Past /\ CacheTrue /\ OpsTrue /\ ShownTrue
      /\ notice \in Notices /\ notice.last <= archive.revision /\ notice.revision <= archive.revision
      /\ notice.last \in Nat /\ notice.revision \in Nat /\ view \in Views /\ cache \in Caches
      /\ UNCHANGED <<sel, view, ops, cache, visible, working>>
  BY HistoryFacts DEF History!Change, Notices
<1>2. PICK n \in Nat : n = archive.revision + 1
  BY <1>1
<1>3. PICK kept \in (SUBSET Profiles) \ {{}} : archive' = [revision |-> n, profiles |-> kept]
  BY <1>1, <1>2 DEF History!Change, HistoryTyped
<1>4. archive' \in [revision : Nat, profiles : (SUBSET Profiles) \ {{}}] /\ archive'.revision = n
  BY <1>3
<1>5. notice' = [notice EXCEPT !.arrived = TRUE]
  BY DEF History!Change
<1>6. /\ notice' \in Notices /\ notice'.arrived /\ notice'.at = notice.at /\ notice'.dirty = notice.dirty
      /\ notice'.last = notice.last /\ notice'.revision = notice.revision
  BY <1>1, <1>5 DEF Notices
<1>7. Floor' = IF notice.at = "refresh" THEN notice.revision ELSE notice.last
  BY <1>6 DEF Floor, Due
<1>8. Floor' <= Floor /\ Floor' \in Nat
  BY <1>1, <1>7 DEF Floor
<1>9. \A x \in Nat : x <= archive.revision => x <= n
  BY <1>1, <1>2
<1>10. /\ view.history # None => view.history.revision \in Nat
       /\ view.stats # None => view.stats.revision \in Nat
       /\ \A k \in Ledgers : k.revision \in Nat
       /\ \A k \in Totals : k.revision \in Nat
  BY <1>1 DEF Views, Ledgers, Totals
<1>11. HistoryTyped'
  BY <1>1, <1>4, <1>6 DEF HistoryTyped, Notices
<1>12. Past'
  BY <1>1, <1>4, <1>6, <1>9, <1>10 DEF Past
<1>13. CacheTrue'
  <2>1. /\ cache.ledger.value \notin {None, Pending} => cache.ledger.value \in Ledgers
        /\ cache.metadata.value \notin {None, Pending} => cache.metadata.value \in Totals
    BY <1>1 DEF Caches
  <2> QED BY <1>1, <1>4, <1>9, <1>10, <2>1 DEF CacheTrue
<1>14. OpsTrue'
  BY <1>1 DEF OpsTrue, Current
<1>15. ShownTrue'
  <2>1. \A x \in Nat : Floor <= x => Floor' <= x
    BY <1>1, <1>8
  <2> QED BY <1>1, <1>10, <2>1 DEF ShownTrue, Current, Good
<1> QED BY <1>11, <1>12, <1>13, <1>14, <1>15 DEF HistoryInv

(* A notice arrives, waits for the work in hand, and reads the revision. *)
LEMMA NoticesMove ==
  ASSUME HistoryInv, History!Notified \/ History!BeginWork \/ History!EndWork \/ History!NoticeRevision \/ History!NoticeDone
  PROVE  HistoryInv'
<1>1. /\ archive.revision \in Nat /\ Floor \in Nat /\ Floor <= archive.revision
      /\ notice \in Notices /\ notice.last <= archive.revision /\ notice.revision <= archive.revision
      /\ notice.last \in Nat /\ notice.revision \in Nat /\ working \in BOOLEAN
      /\ UNCHANGED <<archive, sel, view, ops, cache, visible>>
  BY HistoryFacts DEF Notices, History!Notified, History!BeginWork, History!EndWork, History!NoticeRevision,
     History!NoticeDone
<1>2. notice.at \in {"idle", "revision", "profiles", "refresh"} /\ notice.arrived \in BOOLEAN /\ notice.dirty \in BOOLEAN
  BY <1>1 DEF Notices
<1>3. CASE History!Notified
  <2>1. /\ notice' \in Notices /\ notice'.last = notice.last /\ notice'.revision = notice.revision
        /\ working' = working /\ Due' /\ (notice'.at = "refresh" <=> notice.at = "refresh")
    <3>1. CASE working
      <4>1. notice' = [notice EXCEPT !.arrived = FALSE, !.dirty = TRUE] /\ working' = working
        BY <1>3, <3>1 DEF History!Notified
      <4> QED BY <1>1, <3>1, <4>1 DEF Notices, Due
    <3>2. CASE ~working /\ notice.at = "idle"
      <4>1. /\ notice' = [[notice EXCEPT !.arrived = FALSE, !.dirty = TRUE] EXCEPT !.at = "revision", !.dirty = FALSE]
            /\ working' = working
        BY <1>1, <1>3, <3>2 DEF History!Notified, History!Started, Notices
      <4> QED BY <1>1, <3>2, <4>1 DEF Notices, Due
    <3>3. CASE ~working /\ notice.at # "idle"
      <4>1. /\ notice' = [[notice EXCEPT !.arrived = FALSE, !.dirty = TRUE] EXCEPT !.dirty = TRUE]
            /\ working' = working
        BY <1>1, <1>3, <3>3 DEF History!Notified, History!Started, Notices
      <4> QED BY <1>1, <1>2, <3>3, <4>1 DEF Notices, Due
    <3> QED BY <1>1, <3>1, <3>2, <3>3
  <2>2. Due
    BY <1>3 DEF History!Notified, Due
  <2>3. Floor' = Floor
    BY <2>1, <2>2 DEF Floor
  <2> QED BY <1>1, <2>1, <2>3, NoticeMoves
<1>4. CASE History!BeginWork
  <2>1. notice' = notice /\ working' = TRUE
    BY <1>4 DEF History!BeginWork
  <2>2. Due => Due'
    BY <2>1 DEF Due
  <2>3. Floor' <= Floor
    BY <1>1, <2>1, <2>2 DEF Floor
  <2> QED BY <1>1, <2>1, <2>3, NoticeMoves
<1>5. CASE History!EndWork
  <2>1. /\ notice' \in Notices /\ notice'.last = notice.last /\ notice'.revision = notice.revision
        /\ working' = FALSE /\ (Due => Due') /\ (notice'.at = "refresh" <=> notice.at = "refresh")
    <3>1. CASE ~notice.dirty
      <4>1. notice' = notice /\ working' = FALSE
        BY <1>5, <3>1 DEF History!EndWork, History!WorkDone
      <4> QED BY <1>1, <3>1, <4>1 DEF Due
    <3>2. CASE notice.dirty /\ notice.at = "idle"
      <4>1. notice' = [notice EXCEPT !.at = "revision", !.dirty = FALSE] /\ working' = FALSE
        BY <1>5, <3>2 DEF History!EndWork, History!WorkDone, History!Started
      <4> QED BY <1>1, <3>2, <4>1 DEF Notices, Due
    <3>3. CASE notice.dirty /\ notice.at # "idle"
      <4>1. notice' = [notice EXCEPT !.dirty = TRUE] /\ working' = FALSE
        BY <1>5, <3>3 DEF History!EndWork, History!WorkDone, History!Started
      <4> QED BY <1>1, <1>2, <3>3, <4>1 DEF Notices, Due
    <3> QED BY <1>2, <3>1, <3>2, <3>3
  <2>2. Floor' <= Floor
    BY <1>1, <2>1 DEF Floor
  <2> QED BY <1>1, <2>1, <2>2, NoticeMoves
<1>6. CASE History!NoticeRevision
  <2>1. notice.at = "revision" /\ working' = working
    BY <1>6 DEF History!NoticeRevision
  <2>2. Floor = notice.last
    BY <2>1 DEF Floor, Due
  <2>3. CASE archive.revision = notice.last
    <3>1. PICK at \in {"idle", "revision"} : notice' = [notice EXCEPT !.at = at, !.dirty = FALSE] \/ notice' = [notice EXCEPT !.at = at]
      BY <1>6, <2>3 DEF History!NoticeRevision, History!Again
    <3>2. notice' \in Notices /\ notice'.last = notice.last /\ notice'.revision = notice.revision
          /\ notice'.at = at
      BY <1>1, <3>1 DEF Notices
    <3>3. Floor' <= Floor
      BY <1>1, <2>2, <2>3, <3>2 DEF Floor
    <3> QED BY <1>1, <2>1, <3>2, <3>3, NoticeMoves
  <2>4. CASE archive.revision # notice.last
    <3>1. notice' = [notice EXCEPT !.at = "profiles", !.revision = archive.revision]
      BY <1>6, <2>4 DEF History!NoticeRevision
    <3>2. notice' \in Notices /\ notice'.last = notice.last /\ notice'.revision = archive.revision
          /\ notice'.at = "profiles"
      BY <1>1, <3>1 DEF Notices
    <3>3. Floor' = Floor
      BY <2>2, <3>2 DEF Floor, Due
    <3> QED BY <1>1, <2>1, <3>2, <3>3, NoticeMoves
  <2> QED BY <2>3, <2>4
<1>7. CASE History!NoticeDone
  <2>1. notice.at = "refresh" /\ working' = working
        /\ notice' = History!Again([notice EXCEPT !.last = notice.revision])
    BY <1>7 DEF History!NoticeDone
  <2>2. PICK n \in Notices : /\ n = [notice EXCEPT !.last = notice.revision] /\ n.last = notice.revision
                             /\ n.revision = notice.revision /\ n.dirty = notice.dirty /\ n.arrived = notice.arrived
    <3>1. [notice EXCEPT !.last = notice.revision] \in Notices
      BY <1>1 DEF Notices
    <3> QED BY <1>1, <3>1 DEF Notices
  <2>3. /\ notice' \in Notices /\ notice'.last = notice.revision /\ notice'.revision = notice.revision
        /\ notice'.arrived = notice.arrived
        /\ IF notice.dirty THEN notice'.at = "revision" ELSE notice'.at = "idle" /\ notice'.dirty = notice.dirty
    BY <2>1, <2>2 DEF Notices, History!Again
  <2>4. (Due => Due') /\ Floor' <= archive.revision
    <3>1. Due => Due'
      BY <2>1, <2>3 DEF Due
    <3> QED BY <1>1, <2>3, <3>1 DEF Floor
  <2>5. Floor' <= Floor
    BY <1>1, <2>1, <2>3, <2>4 DEF Floor
  <2> QED BY <1>1, <2>1, <2>3, <2>5, NoticeMoves
<1> QED BY <1>3, <1>4, <1>5, <1>6, <1>7

(* A notice goes on to its refresh, or ends with an error. *)
LEMMA NoticeEnds ==
  ASSUME HistoryInv, History!NoticeProfiles \/ History!NoticeFails
  PROVE  HistoryInv'
<1>1. /\ archive.revision \in Nat /\ notice \in Notices /\ notice.last <= archive.revision
      /\ notice.revision <= archive.revision /\ view \in Views /\ sel \in Choices /\ working \in BOOLEAN
      /\ visible \in BOOLEAN
      /\ HistoryTyped /\ Past /\ CacheTrue /\ OpsTrue /\ ShownTrue
  BY HistoryFacts
<1>2. CASE History!NoticeProfiles
  <2>1. PICK s \in Choices : History!Refresh(s)
    <3>1. (CHOOSE p \in archive.profiles : TRUE) \in Profiles
      BY <1>1 DEF HistoryTyped
    <3>2. [sel EXCEPT !.profile = CHOOSE p \in archive.profiles : TRUE] \in Choices
      BY <1>1, <3>1 DEF Choices
    <3> QED BY <1>1, <1>2, <3>2 DEF History!NoticeProfiles
  <2>2. view'.request \in Nat
    <3>1. view' = view \/ view' = History!Invalidated(view, s)
      BY <2>1 DEF History!Refresh
    <3>2. view.request \in Nat /\ view.request + 1 \in Nat
      BY <1>1 DEF Views
    <3>3. History!Invalidated(view, s).request = view.request + 1
      BY <1>1 DEF Views, History!Invalidated
    <3> QED BY <3>1, <3>2, <3>3
  <2>3. PICK id \in Nat : id = view'.request
    BY <2>2
  <2>4. notice' = [notice EXCEPT !.at = "refresh", !.id = id] /\ UNCHANGED <<archive, cache, visible, working>>
    BY <1>2, <2>3 DEF History!NoticeProfiles
  <2>5. notice' \in Notices /\ notice'.last = notice.last /\ notice'.revision = notice.revision
    BY <1>1, <2>4 DEF Notices
  <2> QED BY <1>1, <2>1, <2>4, <2>5, HistoryRefreshes
<1>3. CASE History!NoticeFails
  <2>1. /\ notice' = [notice EXCEPT !.at = "idle"] /\ view' = [view EXCEPT !.error = TRUE]
        /\ UNCHANGED <<archive, sel, ops, cache, visible, working>>
    BY <1>3 DEF History!NoticeFails
  <2>2. notice' \in Notices /\ notice'.last = notice.last /\ notice'.revision = notice.revision
    BY <1>1, <2>1 DEF Notices
  <2>3. /\ view' \in Views /\ view'.request = view.request /\ view'.error /\ view'.history = view.history
        /\ view'.stats = view.stats
    BY <1>1, <2>1 DEF Views
  <2>4. HistoryTyped'
    BY <1>1, <2>1, <2>2, <2>3 DEF HistoryTyped, Notices, Views
  <2>5. Past' /\ CacheTrue' /\ OpsTrue'
    BY <1>1, <2>1, <2>2, <2>3 DEF Past, CacheTrue, OpsTrue, Current
  <2>6. ShownTrue'
    BY <1>1, <2>1, <2>3 DEF ShownTrue, Current
  <2> QED BY <2>4, <2>5, <2>6 DEF HistoryInv
<1> QED BY <1>2, <1>3

(* The history view's invariant holds at the start, *)
LEMMA HistoryStarts == History!Init => HistoryInv
<1> SUFFICES ASSUME History!Init PROVE HistoryInv
  OBVIOUS
<1>1. /\ archive = [revision |-> 1, profiles |-> Profiles]
      /\ sel = [profile |-> CHOOSE p \in Profiles : TRUE, filter |-> CHOOSE f \in Filters : TRUE, page |-> 1]
      /\ view = [request |-> 0, loading |-> TRUE, error |-> FALSE, history |-> None, stats |-> None, about |-> None]
      /\ ops = {} /\ cache = [ledger |-> History!NoCache, metadata |-> History!NoCache]
      /\ notice = [arrived |-> FALSE, at |-> "idle", dirty |-> FALSE, last |-> 0, revision |-> 0, id |-> 0]
      /\ visible = FALSE /\ working = FALSE
  BY DEF History!Init
<1>2. cache \in Caches /\ cache.ledger.value = None /\ cache.metadata.value = None
  BY <1>1 DEF Caches, History!NoCache
<1>3. archive \in [revision : Nat, profiles : (SUBSET Profiles) \ {{}}] /\ archive.revision = 1
  BY <1>1, InputsAssumption
<1>4. sel \in Choices /\ view \in Views /\ notice \in Notices
  <2>1. (CHOOSE p \in Profiles : TRUE) \in Profiles /\ (CHOOSE f \in Filters : TRUE) \in Filters
    BY InputsAssumption
  <2> QED BY <1>1, <2>1 DEF Choices, PageNumbers, Views, Notices
<1>5. HistoryTyped
  BY <1>1, <1>2, <1>3, <1>4 DEF HistoryTyped, Caches, Views, Notices
<1> QED BY <1>1, <1>2, <1>3, <1>5 DEF HistoryInv, Past, CacheTrue, OpsTrue, ShownTrue

(* and after every step; *)
LEMMA HistoryStep == HistoryInv /\ [History!Next]_historyVars => HistoryInv'
<1> SUFFICES ASSUME HistoryInv, [History!Next]_historyVars PROVE HistoryInv'
  OBVIOUS
<1>1. CASE UNCHANGED historyVars
  <2>1. UNCHANGED <<archive, sel, view, ops, cache, notice, visible, working>>
    BY <1>1 DEF historyVars
  <2>2. notice \in Notices /\ notice.last <= archive.revision /\ notice.revision <= archive.revision
        /\ working \in BOOLEAN /\ Floor \in Nat
    BY HistoryFacts
  <2>3. Floor' <= Floor
    BY <2>1, <2>2, FloorStays
  <2> QED BY <2>1, <2>2, <2>3, NoticeMoves
<1>2. CASE History!Next
  BY <1>2, HistoryReadsRevision, HistoryAnswers, HistorySettles, HistoryReadFails, HistoryChangesPage,
     HistoryShowsPage, PersonActs, ArchiveChanges, NoticesMove, NoticeEnds DEF History!Next, History!Step
<1> QED BY <1>1, <1>2

(* it gives what the history view promises. *)
LEMMA HistorySound == HistoryInv => History!ShownAsLabelled /\ History!NoticeLeadsToArchive
<1> SUFFICES ASSUME HistoryInv, History!Shown
             PROVE  /\ view.history.sel = sel /\ view.stats # None /\ view.stats.profile = sel.profile
                    /\ ~working /\ ~notice.arrived /\ notice.at = "idle"
                         => view.history.revision = archive.revision /\ view.stats.revision = archive.revision
  BY DEF History!ShownAsLabelled, History!NoticeLeadsToArchive
<1>1. /\ view.history.sel = sel /\ Floor <= view.history.revision /\ view.stats # None
      /\ view.stats.profile = sel.profile /\ Floor <= view.stats.revision /\ view.history # None
  BY DEF HistoryInv, ShownTrue, History!Shown, Good
<1>2. /\ view.history.revision \in Nat /\ view.history.revision <= archive.revision
      /\ view.stats.revision \in Nat /\ view.stats.revision <= archive.revision /\ archive.revision \in Nat
  BY <1>1 DEF HistoryInv, HistoryTyped, Past, Ledgers, Totals
<1>3. ~working /\ ~notice.arrived /\ notice.at = "idle" => Floor = archive.revision
  BY DEF Floor, Due
<1> QED BY <1>1, <1>2, <1>3

-----------------------------------------------------------------------------
(* What the page shows. *)

(* Rows, totals and labels on the history page are of one selection, and when  *)
(* every notice was handled they are those of the stored archive, in whatever  *)
(* order answers, failures, imports and changes of other tabs arrive           *)
(* (loadHistory, changePage and refreshArchive in +page.svelte).               *)
THEOREM HistoryIsLabelled == Spec => []HistoryIsAsLabelled
<1>1. Init => HistoryInv
  BY HistoryStarts DEF Init
<1>2. HistoryInv /\ [Next]_vars => HistoryInv'
  <2>1. [Next]_vars => [History!Next]_historyVars
    BY DEF Next, vars
  <2> QED BY <2>1, HistoryStep
<1>3. HistoryInv => HistoryIsAsLabelled
  BY HistorySound DEF HistoryIsAsLabelled
<1> QED BY <1>1, <1>2, <1>3, PTL DEF Spec

(* The panel's invariant gives what it promises. *)
LEMMA PanelSound == PanelInv => Panel!OneHistory /\ Panel!NoWorkerOutlives
BY DEF PanelInv

(* A whole list is one reading of the archive and the luck beside it that of   *)
(* the summary shown (EliteHistory.svelte, HistorySummary.svelte); every       *)
(* figure and error of the panel is about the history beside it, and only the  *)
(* present effects have workers (PersonalStatistics.svelte), for any number of *)
(* acts, revisions and faults.                                                 *)
THEOREM FiguresAgree == Spec => []FiguresAreOneHistory
<1>1. Init => RewardInv /\ PanelInv
  BY RewardStarts, PanelStarts DEF Init
<1>2. RewardInv /\ PanelInv /\ [Next]_vars => (RewardInv /\ PanelInv)'
  <2>1. [Next]_vars => [Rewards!Next]_rewardVars /\ [Panel!Next]_panelVars
    BY DEF Next, vars
  <2> QED BY <2>1, RewardStep, PanelStep
<1>3. RewardInv /\ PanelInv => FiguresAreOneHistory
  BY RewardSound, PanelSound DEF FiguresAreOneHistory
<1> QED BY <1>1, <1>2, <1>3, PTL DEF Spec
=============================================================================
