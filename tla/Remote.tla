------------------------------- MODULE Remote -------------------------------
(* A history away from the device: the server's store, the quotas of its       *)
(* requests, the listing of the files in Drive, and the graph of revisions     *)
(* that a listing gives.  A behaviour is about one of them, its subject; the   *)
(* variables of the others are None.                                           *)
EXTENDS Integers, FiniteSets

CONSTANTS None,
          Pages, Owner, Snapshots, MaxCatalogs, MaxOps, MaxFaults,             \* of the server
          Threads, Keys, Period, Maximum, Capacity, Delay, MaxTime,            \* of its quotas
          Revisions, MaxParents, MaxLinks,                                     \* of a revision graph
          FileIds, Metas, PageSize, MaxRevisions, MaxChanges, MaxRequests      \* of a listing in Drive

VARIABLES subject,
          db, frozen, memory, disk, granted, pages, wire, count,
          now, events, waiting, grants,
          graph, indices, low, members, frames, invalid,
          cloud, request, proposed, answer, seen, done

serverVars == <<db, frozen, memory, disk, granted, pages, wire, count>>
limitVars == <<now, events, waiting, grants>>
graphVars == <<graph, indices, low, members, frames, invalid>>
listingVars == <<cloud, request, proposed, answer, seen, done>>
remoteVars == <<subject, serverVars, limitVars, graphVars, listingVars>>

ASSUME LimitAssumption == Period \in [Keys -> Nat] /\ Maximum \in [Keys -> Nat] /\ Delay \in Nat
(* No revision is NoRevision, and no file's metadata are those of no file.     *)
ASSUME GraphAssumption == IsFiniteSet(Revisions) /\ Revisions \subseteq Nat \ {0}
ASSUME ListingAssumption == None \notin Metas

Kept == INSTANCE ServerHistory
Limit == INSTANCE RateLimit
Graph == INSTANCE GraphInspection
Cloud == INSTANCE DriveListing WITH job <- request

RemoteInit ==
  /\ IF subject = "server" THEN Kept!Init
     ELSE /\ db = None /\ frozen = None /\ memory = None /\ disk = None /\ granted = None
          /\ pages = None /\ wire = None /\ count = None
  /\ IF subject = "limit" THEN Limit!Init
     ELSE now = None /\ events = None /\ waiting = None /\ grants = None
  /\ IF subject = "graph" THEN Graph!Init
     ELSE /\ graph = None /\ indices = None /\ low = None /\ members = None /\ frames = None
          /\ invalid = None
  /\ IF subject = "listing" THEN Cloud!Init
     ELSE cloud = None /\ request = None /\ proposed = None /\ answer = None /\ seen = None /\ done = None

RemoteNext ==
  \/ subject = "server" /\ Kept!Next /\ UNCHANGED <<subject, limitVars, graphVars, listingVars>>
  \/ subject = "limit" /\ Limit!Next /\ UNCHANGED <<subject, serverVars, graphVars, listingVars>>
  \/ subject = "graph" /\ Graph!Next /\ UNCHANGED <<subject, serverVars, limitVars, listingVars>>
  \/ subject = "listing" /\ Cloud!Next /\ UNCHANGED <<subject, serverVars, limitVars, graphVars>>

RemoteSpec == RemoteInit /\ [][RemoteNext]_remoteVars

-----------------------------------------------------------------------------
(* A deletion on the server wins over late uploads; what a page calls saved is *)
(* stored; the statistics served are those of what is stored; and no span of a *)
(* period lets more requests through than its quota.                           *)
ServerKeepsFaith ==
  /\ subject = "server" =>
       Kept!DeletionWins /\ Kept!SavedMeansStored /\ Kept!StatisticsAreCurrent
  /\ subject = "limit" => Limit!QuotaHolds

(* A listing of the cloud is whole and proposes only invalid files, exactly    *)
(* the revisions on cycles are removed, and merge bases are the best.          *)
CloudIsSound ==
  /\ subject = "graph" => Graph!OnlyCyclesRemoved /\ Graph!BasesAreBest
  /\ subject = "listing" =>
       Cloud!ProposedIsInvalid /\ Cloud!ListingIsWhole /\ Cloud!NewerIsLeft
=============================================================================
