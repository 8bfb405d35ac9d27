-------------------------- MODULE GraphInspection --------------------------
(***************************************************************************)
(* inspectGraph, step by step, on any listing: an iterative traversal that *)
(* removes the revisions on cycles and keeps their healthy descendants,    *)
(* then the heads of what is left and their merge bases.                   *)
(***************************************************************************)
EXTENDS RevisionGraph, Sequences

CONSTANTS Revisions,   \* identifiers that a listing can name: numbers above NoRevision
          MaxParents,  \* bound on the parents of one revision
          MaxLinks     \* bound on the parents of all of them

VARIABLES graph,     \* the listing: revision -> parents
          indices,   \* order in which revisions were entered
          low,       \* smallest index known to be reachable on the stack
          members,   \* stack of revisions whose component is open
          frames,    \* traversal stack: [id, todo]
          invalid    \* revisions found on a cycle

vars == <<graph, indices, low, members, frames, invalid>>

Parents == {ps \in SUBSET Revisions : Cardinality(ps) <= MaxParents}

Init ==
  /\ \E listed \in SUBSET Revisions : graph \in [listed -> Parents]
  /\ Cardinality({l \in Revisions \X Revisions : l[1] \in DOMAIN graph /\ l[2] \in graph[l[1]]})
       <= MaxLinks
  /\ indices = [r \in {} |-> 0]
  /\ low = indices
  /\ members = <<>>
  /\ frames = <<>>
  /\ invalid = {}

Entered == DOMAIN indices
OnStack == {members[i] : i \in 1 .. Len(members)}
Top == frames[Len(frames)]
Rest(s) == SubSeq(s, 1, Len(s) - 1)

Lower(a, b) == IF a < b THEN a ELSE b

Bind(f, r, n) == [x \in DOMAIN f \cup {r} |-> IF x = r THEN n ELSE f[x]]

Enter(r, below) ==
  /\ indices' = Bind(indices, r, Cardinality(Entered))
  /\ low' = Bind(low, r, Cardinality(Entered))
  /\ members' = Append(members, r)
  /\ frames' = Append(below, [id |-> r, todo |-> graph[r]])
  /\ UNCHANGED <<graph, invalid>>

Start ==
  /\ frames = <<>>
  /\ \E r \in DOMAIN graph \ Entered : Enter(r, <<>>)

(* One parent of the revision on top of the traversal. *)
Follow ==
  /\ frames # <<>>
  /\ \E p \in Top.todo :
       LET seen == [frames EXCEPT ![Len(frames)].todo = @ \ {p}]
       IN  IF p \in DOMAIN graph \ Entered
           THEN Enter(p, seen)
           ELSE /\ frames' = seen
                /\ low' = IF p \in OnStack
                          THEN [low EXCEPT ![Top.id] = Lower(@, indices[p])]
                          ELSE low
                /\ UNCHANGED <<graph, indices, members, invalid>>

(* The finished revision and those above it on the stack: the component that it closes. *)
Place == CHOOSE i \in 1 .. Len(members) : members[i] = Top.id
Component == {members[i] : i \in Place .. Len(members)}

Cycle(component) == Cardinality(component) > 1 \/ Top.id \in graph[Top.id]

(* Mutant of Finish: a finished revision does not pass its index on. *)
FinishAlone ==
  /\ frames # <<>>
  /\ Top.todo = {}
  /\ frames' = Rest(frames)
  /\ IF low[Top.id] = indices[Top.id]
     THEN /\ members' = SubSeq(members, 1, Place - 1)
          /\ invalid' = invalid \cup (IF Cycle(Component) THEN Component ELSE {})
     ELSE UNCHANGED <<members, invalid>>
  /\ UNCHANGED <<graph, indices, low>>

Finish ==
  /\ frames # <<>>
  /\ Top.todo = {}
  /\ frames' = Rest(frames)
  /\ low' = IF Len(frames) > 1
            THEN [low EXCEPT ![frames[Len(frames) - 1].id] = Lower(@, low[Top.id])]
            ELSE low
  /\ IF low[Top.id] = indices[Top.id]
     THEN /\ members' = SubSeq(members, 1, Place - 1)
          /\ invalid' = invalid \cup (IF Cycle(Component) THEN Component ELSE {})
     ELSE UNCHANGED <<members, invalid>>
  /\ UNCHANGED <<graph, indices>>

Next == Start \/ Follow \/ Finish

Spec == Init /\ [][Next]_vars

-----------------------------------------------------------------------------
Done == frames = <<>> /\ Entered = DOMAIN graph
Remaining == Without(graph, invalid)

(* Exactly the revisions on a cycle are removed, whatever the order in which
   the listing and the parents are walked: a healthy revision that descends
   from a corrupt one keeps its snapshot (inspectGraph, the Tarjan pass). *)
OnlyCyclesRemoved ==
  Done => invalid = {r \in DOMAIN graph : \E p \in graph[r] : r \in Ancestors(graph, p)}

(* The merge base of a head is what a three-way merge needs.  It is shared with
   all the heads before it, has every other shared ancestor behind it, and is
   never claimed where a missing parent hides part of the history: a wrong base
   drops a change silently.  And wherever there is such a revision it is found,
   so that a change made on one device only is not turned into a question. *)
BasesAreBest ==
  Done => \A h \in Heads(Remaining) :
    LET before == {x \in Heads(Remaining) : x <= h}
        complete == \A x \in before : Ancestors(Remaining, x) \subseteq DOMAIN Remaining
        shared == {r \in DOMAIN Remaining : \A x \in before : r \in Ancestors(Remaining, x)}
        best == {r \in shared \ before : complete /\ shared \subseteq Ancestors(Remaining, r)}
    IN  best = {Common(Remaining, h)} \ {NoRevision}

=============================================================================
