------------------------------ MODULE Registry ------------------------------
(***************************************************************************)
(* The registry of clusters in the cluster service (cmd/cluster): clusters *)
(* added and deleted by requests, found by discovery, dialled again when   *)
(* certificates change, and saved to clusters.json for the next start      *)
(* (internal/persist).  They share the ClusterPool; nothing orders them.   *)
(***************************************************************************)
EXTENDS ClusterPool, Naturals

CONSTANTS
  Handler,      \* the request handlers at work at the same time
  Discovery,    \* the goroutine of the discovery loop
  Certs,        \* the goroutine of WatchCerts
  Main,         \* main, until the service listens
  Posted,       \* the configurations users post
  Discovered,   \* the configurations discovery finds
  MaxRequests,  \* bound: requests
  MaxTicks,     \* bound: ticks of the discovery loop and of WatchCerts
  MaxCrashes    \* bound: crashes

ASSUME CallerAssumption ==
  /\ Caller = Handler \cup {Discovery, Certs, Main}
  /\ {Discovery, Certs, Main} \cap Handler = {}
  /\ Discovery # Certs /\ Discovery # Main /\ Certs # Main
ASSUME BoundsAssumption ==
  MaxRequests \in Nat /\ MaxTicks \in Nat /\ MaxCrashes \in Nat
ASSUME ConfigAssumption ==
  /\ Posted \subseteq {c \in Config : c.source = "manual"}
  /\ Discovered \subseteq {c \in Config : c.source = "discovered"}

VARIABLES
  phase,    \* "down", "rehydrating", "discovering" or "serving"
  pc,       \* what each goroutine does
  todo,     \* the configurations it has yet to Upsert
  about,    \* the cluster a request is about
  listed,   \* what a request has to save
  file,     \* the content of clusters.json
  settled,  \* history variable: the last change of each cluster that was saved
            \* with no other call about it, and no other save, under way
  requests, ticks, crashes

jobVars == <<pc, todo, about, listed>>
bounds == <<requests, ticks, crashes>>
vars == <<poolVars, phase, jobVars, file, settled, bounds>>

TypeOK ==
  /\ PoolTypeOK
  /\ phase \in {"down", "rehydrating", "discovering", "serving"}
  /\ pc \in [Caller -> {"idle", "upserting", "listing", "saving"}]
  /\ todo \in [Caller -> SUBSET Config]
  /\ about \in [Handler -> Id \cup {NoConfig}]
  /\ listed \in [Handler -> SUBSET Config]
  /\ file \subseteq Config
  /\ settled \in [Id -> {"no", "added", "deleted"}]
  /\ requests \in 0..MaxRequests /\ ticks \in 0..MaxTicks /\ crashes \in 0..MaxCrashes

\* The first start, with no file, and nothing discovered yet.
Init ==
  /\ PoolInit
  /\ phase = "rehydrating"
  /\ pc = [p \in Caller |-> "idle"]
  /\ todo = [p \in Caller |-> {}]
  /\ about = [h \in Handler |-> NoConfig]
  /\ listed = [h \in Handler |-> {}]
  /\ file = {}
  /\ settled = [id \in Id |-> "no"]
  /\ requests = 0 /\ ticks = 0 /\ crashes = 0

----------------------------------------------------------------------------
Ids(S) == {c.id : c \in S}

\* What a posted body decodes to: config.Cluster has no password in JSON.
Received(c) == [c EXCEPT !.password = FALSE]

\* What a cluster is saved as: storedCluster has no readOnly.
Stored(c) == [c EXCEPT !.readOnly = FALSE]

Manual == {c \in List : c.source = "manual"}

\* The clusters p has not finished to Upsert.
Busy(p) ==
  Ids(todo[p]) \cup (IF upsert[p] = NoUpsert THEN {} ELSE {upsert[p].config.id})

\* p starts to Upsert the configurations in S.
Start(p, S) ==
  /\ pc' = [pc EXCEPT ![p] = IF S = {} THEN "idle" ELSE "upserting"]
  /\ todo' = [todo EXCEPT ![p] = S]

\* Something else than a request is about the clusters ids.
Unsettle(ids) == settled' = [id \in Id |-> IF id \in ids THEN "no" ELSE settled[id]]

----------------------------------------------------------------------------
(***************************************************************************)
(* Upserts, by whoever calls.                                              *)
(***************************************************************************)
DialNext(p) ==
  /\ pc[p] = "upserting"
  /\ \E c \in todo[p]:
       /\ Dial(p, c)
       /\ todo' = [todo EXCEPT ![p] = @ \ {c}]
  /\ UNCHANGED <<phase, pc, about, listed, file, settled, bounds>>

\* Too old a version, no TLS material, no endpoint: nothing is registered.  A
\* request ends there, with a 400; the others log it and go on.
DialFails(p) ==
  /\ pc[p] = "upserting"
  /\ upsert[p] = NoUpsert
  /\ \E c \in todo[p]:
       /\ Start(p, todo[p] \ {c})
       /\ IF p = Main THEN Unsettle({c.id}) ELSE UNCHANGED settled
  /\ about' = IF p \in Handler THEN [about EXCEPT ![p] = NoConfig] ELSE about
  /\ UNCHANGED <<poolVars, phase, listed, file, bounds>>

\* A request goes on to save the registry.
RegisterNext(p) ==
  /\ Register(p)
  /\ pc' = [pc EXCEPT ![p] = IF p \in Handler THEN "listing"
                             ELSE IF todo[p] = {} THEN "idle" ELSE "upserting"]
  /\ UNCHANGED <<phase, todo, about, listed, file, settled, bounds>>

----------------------------------------------------------------------------
(***************************************************************************)
(* Requests: POST and DELETE, both followed by savePersisted.              *)
(***************************************************************************)
Arrives(h, id) ==
  /\ phase = "serving"
  /\ pc[h] = "idle"
  /\ requests < MaxRequests
  /\ requests' = requests + 1
  /\ about' = [about EXCEPT ![h] = id]
  /\ Unsettle({id})
  /\ UNCHANGED <<phase, listed, file, ticks, crashes>>

Post(h, c) ==
  /\ Arrives(h, c.id)
  /\ Start(h, {Received(c)})
  /\ UNCHANGED poolVars

Delete(h, id) ==
  /\ Arrives(h, id)
  /\ Remove(id)
  /\ pc' = [pc EXCEPT ![h] = "listing"]
  /\ UNCHANGED todo

ListManual(h) ==
  /\ pc[h] = "listing"
  /\ listed' = [listed EXCEPT ![h] = Manual]
  /\ pc' = [pc EXCEPT ![h] = "saving"]
  /\ UNCHANGED <<poolVars, phase, todo, about, file, settled, bounds>>

\* No other call is about h's cluster, nobody else is about to save, and what h
\* saves of its cluster is what the pool has.
Alone(h) ==
  /\ \A p \in Caller \ {h}: about[h] \notin Busy(p)
  /\ \A g \in Handler \ {h}: pc[g] # "saving" /\ about[g] # about[h]
  /\ IF about[h] \in Ids(listed[h]) THEN about[h] \in Ids(Manual)
                                    ELSE about[h] \notin Ids(List)

\* Mutant: what is in the file stays there.
WrittenOver(S) == file \cup {Stored(c) : c \in S}

\* The new content of the file.
Written(S) == {Stored(c) : c \in S}

\* The file is replaced as a whole, or, with an error nobody hears of, not.
Save(h) ==
  /\ pc[h] = "saving"
  /\ \/ /\ file' = Written(listed[h])
        /\ settled' = IF ~Alone(h) THEN settled
                      ELSE [settled EXCEPT ![about[h]] =
                              IF @ = "no" /\ about[h] \in Ids(listed[h]) THEN "added"
                              ELSE IF @ = "no" THEN "deleted" ELSE @]
     \/ UNCHANGED <<file, settled>>
  /\ pc' = [pc EXCEPT ![h] = "idle"]
  /\ about' = [about EXCEPT ![h] = NoConfig]
  /\ listed' = [listed EXCEPT ![h] = {}]
  /\ UNCHANGED <<poolVars, phase, todo, bounds>>

----------------------------------------------------------------------------
(***************************************************************************)
(* The two loops.                                                          *)
(***************************************************************************)
Ticks(p, S) ==
  /\ pc[p] = "idle"
  /\ ticks < MaxTicks
  /\ ticks' = ticks + 1
  /\ S # {}
  /\ Start(p, S)
  /\ UNCHANGED <<poolVars, phase, about, listed, file, requests, crashes>>

\* Flatten returns one configuration for an ID, whichever source it is from.
Flattened == {S \in SUBSET Discovered : \A c, d \in S: c.id = d.id => c = d}

DiscoveryTick(S) ==
  /\ phase = "serving"
  /\ Ticks(Discovery, S)
  /\ Unsettle(Ids(S))

\* scanCerts takes the registered configurations, and dials those again whose
\* files it finds changed when it gets to them.
CertTick(S) ==
  /\ phase # "down"
  /\ Ticks(Certs, S)
  /\ UNCHANGED settled

----------------------------------------------------------------------------
(***************************************************************************)
(* Starts and stops.                                                       *)
(***************************************************************************)
Crash ==
  /\ phase # "down"
  /\ crashes < MaxCrashes
  /\ crashes' = crashes + 1
  /\ phase' = "down"
  /\ PoolDies
  /\ pc' = [p \in Caller |-> "idle"]
  /\ todo' = [p \in Caller |-> {}]
  /\ about' = [h \in Handler |-> NoConfig]
  /\ listed' = [h \in Handler |-> {}]
  /\ UNCHANGED <<file, settled, requests, ticks>>

\* main registers the saved clusters...
Rehydrate ==
  /\ phase = "down"
  /\ phase' = "rehydrating"
  /\ Start(Main, file)
  /\ UNCHANGED <<poolVars, about, listed, file, settled, bounds>>

\* ... then those that the first discovery finds...
Discover(S) ==
  /\ phase = "rehydrating"
  /\ pc[Main] = "idle"
  /\ phase' = "discovering"
  /\ Start(Main, S)
  /\ Unsettle(Ids(S))
  /\ UNCHANGED <<poolVars, about, listed, file, bounds>>

\* ... and listens.
Serve ==
  /\ phase = "discovering"
  /\ pc[Main] = "idle"
  /\ phase' = "serving"
  /\ UNCHANGED <<poolVars, jobVars, file, settled, bounds>>

Next ==
  \/ \E p \in Caller: DialNext(p) \/ DialFails(p) \/ RegisterNext(p)
  \/ \E h \in Handler:
       \/ \E c \in Posted: Post(h, c)
       \/ \E id \in Id: Delete(h, id)
       \/ ListManual(h)
       \/ Save(h)
  \/ \E S \in Flattened: DiscoveryTick(S)
  \/ \E S \in SUBSET List: CertTick(S)
  \/ Crash
  \/ Rehydrate
  \/ \E S \in Flattened: Discover(S)
  \/ Serve

Spec == Init /\ [][Next]_vars

----------------------------------------------------------------------------
\* A cluster whose deletion was saved, with no call about it under way, is gone
\* for good: no scan, no other request's save and no restart brings it back,
\* until somebody posts it again or discovery finds it.
DeletedStaysDeleted ==
  \A id \in Id: settled[id] = "deleted" =>
    id \notin Ids(List) \cup Ids(file) \cup UNION {Busy(p) : p \in Caller}

\* A cluster that was added and saved likewise stays registered, and is
\* registered again after every restart, until somebody deletes it, discovery
\* finds it too, or a restart fails to dial it.
AddedStaysAdded ==
  \A id \in Id: settled[id] = "added" =>
    /\ id \in Ids(file)
    /\ phase = "serving" => id \in Ids(Manual)

\* What was changed and saved with nothing competing lasts.
SavedChangesLast == DeletedStaysDeleted /\ AddedStaysAdded
============================================================================
