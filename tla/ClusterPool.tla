---------------------------- MODULE ClusterPool ----------------------------
(***************************************************************************)
(* The pool of etcd clients that the cluster, kv and ops services keep     *)
(* (internal/etcdpool/pool.go).  Upsert probes and dials a cluster without *)
(* the pool's lock, and registers it under the lock, so calls overlap.     *)
(***************************************************************************)
CONSTANTS
  Id,        \* cluster IDs
  Endpoint,  \* what else a configuration says
  NoConfig,
  Client,    \* the v3 clients a process can have open
  NoClient,
  Caller     \* the goroutines that call Upsert

Source == {"manual", "discovered"}
Config ==
  [id: Id, endpoint: Endpoint, source: Source, password: BOOLEAN, readOnly: BOOLEAN]

ASSUME NoConfigAssumption == NoConfig \notin Config
ASSUME NoClientAssumption == NoClient \notin Client

VARIABLES
  clusters, clients, v2Clients, apis,  \* the maps of the pool
  dialled,  \* what each client was dialled with, or NoConfig if it is not open
  upsert    \* the Upsert each caller is about to register, or NoUpsert

poolVars == <<clusters, clients, v2Clients, apis, dialled, upsert>>

\* A v2 client has no connection of its own: NoClient stands for it.
Upsert == [config: Config, client: Client \cup {NoClient}]
NoUpsert == [client |-> NoClient]

PoolTypeOK ==
  /\ clusters \in [Id -> Config \cup {NoConfig}]
  /\ clients \in [Id -> Client \cup {NoClient}]
  /\ v2Clients \in [Id -> Config \cup {NoConfig}]
  /\ apis \in [Id -> {"none", "v2", "v3"}]
  /\ dialled \in [Client -> Config \cup {NoConfig}]
  /\ upsert \in [Caller -> Upsert \cup {NoUpsert}]

PoolInit ==
  /\ clusters = [id \in Id |-> NoConfig]
  /\ clients = [id \in Id |-> NoClient]
  /\ v2Clients = [id \in Id |-> NoConfig]
  /\ apis = [id \in Id |-> "none"]
  /\ dialled = [x \in Client |-> NoConfig]
  /\ upsert = [p \in Caller |-> NoUpsert]

\* The configurations in the pool.
List == {clusters[id] : id \in Id} \ {NoConfig}

\* The clients after client x, if it is one, is closed.
Closed(x) == IF x = NoClient THEN dialled ELSE [dialled EXCEPT ![x] = NoConfig]

----------------------------------------------------------------------------
\* Upsert(c) up to the lock: the cluster answers as v2, or is dialled as v3.
Dial(p, c) ==
  /\ upsert[p] = NoUpsert
  /\ \/ /\ upsert' = [upsert EXCEPT ![p] = [config |-> c, client |-> NoClient]]
        /\ UNCHANGED dialled
     \/ \E x \in Client:
          /\ dialled[x] = NoConfig
          /\ dialled' = [dialled EXCEPT ![x] = c]
          /\ upsert' = [upsert EXCEPT ![p] = [config |-> c, client |-> x]]
  /\ UNCHANGED <<clusters, clients, v2Clients, apis>>

\* Mutant: the client registered before is not closed.
RegisterKeepsOld(p) ==
  LET c == upsert[p].config
      x == upsert[p].client
  IN /\ upsert[p] # NoUpsert
     /\ upsert' = [upsert EXCEPT ![p] = NoUpsert]
     /\ clusters' = [clusters EXCEPT ![c.id] = c]
     /\ clients' = [clients EXCEPT ![c.id] = x]
     /\ v2Clients' = [v2Clients EXCEPT ![c.id] = IF x = NoClient THEN c ELSE NoConfig]
     /\ apis' = [apis EXCEPT ![c.id] = IF x = NoClient THEN "v2" ELSE "v3"]
     /\ UNCHANGED dialled

\* Upsert under the lock: the client replaces the one registered before.
Register(p) ==
  LET c == upsert[p].config
      x == upsert[p].client
  IN /\ upsert[p] # NoUpsert
     /\ upsert' = [upsert EXCEPT ![p] = NoUpsert]
     /\ dialled' = Closed(clients[c.id])
     /\ clusters' = [clusters EXCEPT ![c.id] = c]
     /\ clients' = [clients EXCEPT ![c.id] = x]
     /\ v2Clients' = [v2Clients EXCEPT ![c.id] = IF x = NoClient THEN c ELSE NoConfig]
     /\ apis' = [apis EXCEPT ![c.id] = IF x = NoClient THEN "v2" ELSE "v3"]

\* Mutant: what was detected about the cluster stays.
RemoveKeepsV2(id) ==
  /\ dialled' = Closed(clients[id])
  /\ clusters' = [clusters EXCEPT ![id] = NoConfig]
  /\ clients' = [clients EXCEPT ![id] = NoClient]
  /\ UNCHANGED <<v2Clients, apis, upsert>>

Remove(id) ==
  /\ dialled' = Closed(clients[id])
  /\ clusters' = [clusters EXCEPT ![id] = NoConfig]
  /\ clients' = [clients EXCEPT ![id] = NoClient]
  /\ v2Clients' = [v2Clients EXCEPT ![id] = NoConfig]
  /\ apis' = [apis EXCEPT ![id] = "none"]
  /\ UNCHANGED upsert

\* The process ends.
PoolDies ==
  /\ clusters' = [id \in Id |-> NoConfig]
  /\ clients' = [id \in Id |-> NoClient]
  /\ v2Clients' = [id \in Id |-> NoConfig]
  /\ apis' = [id \in Id |-> "none"]
  /\ dialled' = [x \in Client |-> NoConfig]
  /\ upsert' = [p \in Caller |-> NoUpsert]

----------------------------------------------------------------------------
\* A registered cluster has exactly one client, of the kind its api says,
\* open, and dialled with the very configuration that is registered; a cluster
\* that is not registered has none.
EntryOK(id) ==
  LET c == clusters[id] IN
    \/ /\ c = NoConfig
       /\ apis[id] = "none" /\ clients[id] = NoClient /\ v2Clients[id] = NoConfig
    \/ /\ c # NoConfig /\ c.id = id
       /\ apis[id] = "v2" /\ clients[id] = NoClient /\ v2Clients[id] = c
    \/ /\ c # NoConfig /\ c.id = id
       /\ apis[id] = "v3" /\ clients[id] # NoClient /\ v2Clients[id] = NoConfig
       /\ dialled[clients[id]] = c

PoolConsistent == \A id \in Id: EntryOK(id)

\* No client leaks: one that is open is registered, or an Upsert under way will
\* register it, and nobody else will.
Registered(x) == {id \in Id : clients[id] = x}
Pending(x) == {p \in Caller : upsert[p].client = x}

NoClientLeaks ==
  \A x \in Client: dialled[x] # NoConfig =>
    \/ Pending(x) = {} /\ \E id \in Id: Registered(x) = {id}
    \/ Registered(x) = {} /\ \E p \in Caller: Pending(x) = {p}

\* What an Upsert will register is open, and dialled with its configuration.
PendingOpen ==
  \A p \in Caller: upsert[p].client # NoClient =>
    dialled[upsert[p].client] = upsert[p].config

\* The inductive invariant of the pool.
PoolInv == PoolTypeOK /\ PoolConsistent /\ PendingOpen /\ NoClientLeaks
============================================================================
