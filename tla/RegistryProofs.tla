--------------------------- MODULE RegistryProofs ---------------------------
(***************************************************************************)
(* The pool stays consistent and leaks no client, and what is saved with   *)
(* nothing competing lasts, for any number of clusters, clients and        *)
(* goroutines.  First the operations of the pool, then the actions of the  *)
(* cluster service, each of which does at most one of them; then the file. *)
(***************************************************************************)
EXTENDS Registry, TLAPS

----------------------------------------------------------------------------
(***************************************************************************)
(* The pool.                                                               *)
(***************************************************************************)
\* An Upsert under way is not the record that stands for none.
LEMMA UpsertIsOne ==
  ASSUME NEW u \in Upsert
  PROVE  u # NoUpsert
<1> SUFFICES ASSUME u = NoUpsert PROVE FALSE
  OBVIOUS
<1>1. "config" \in DOMAIN u /\ "config" \notin DOMAIN NoUpsert
  BY DEF Upsert, NoUpsert
<1> QED
  BY <1>1

\* A client that is not open is neither registered nor about to be.
LEMMA ClosedIsUnused ==
  ASSUME PoolInv, NEW x \in Client, dialled[x] = NoConfig
  PROVE  /\ \A id \in Id: clients[id] # x
         /\ \A p \in Caller: upsert[p].client # x
<1>1. ASSUME NEW id \in Id, clients[id] = x PROVE FALSE
  BY <1>1, NoClientAssumption DEF PoolInv, PoolConsistent, EntryOK
<1>2. ASSUME NEW p \in Caller, upsert[p].client = x PROVE FALSE
  <2>1. upsert[p] \in Upsert
    BY <1>2, NoClientAssumption DEF PoolInv, PoolTypeOK, NoUpsert
  <2>2. upsert[p].config \in Config
    BY <2>1 DEF Upsert
  <2> QED
    BY <1>2, <2>2, NoClientAssumption, NoConfigAssumption DEF PoolInv, PendingOpen
<1> QED
  BY <1>1, <1>2

\* The facts about open clients in a form that has no sets in it.
LEMMA OpenClient ==
  ASSUME NoClientLeaks, NEW x \in Client, dialled[x] # NoConfig
  PROVE  /\ \A i, j \in Id: clients[i] = x /\ clients[j] = x => i = j
         /\ \A p, q \in Caller: upsert[p].client = x /\ upsert[q].client = x => p = q
         /\ ~ \E i \in Id, p \in Caller: clients[i] = x /\ upsert[p].client = x
         /\ (\E i \in Id: clients[i] = x) \/ (\E p \in Caller: upsert[p].client = x)
BY DEF NoClientLeaks, Registered, Pending

\* The way back, to show NoClientLeaks after a step.
LEMMA OpenClientBack ==
  ASSUME NEW x \in Client,
         \A i, j \in Id: clients[i] = x /\ clients[j] = x => i = j,
         \A p, q \in Caller: upsert[p].client = x /\ upsert[q].client = x => p = q,
         ~ \E i \in Id, p \in Caller: clients[i] = x /\ upsert[p].client = x,
         (\E i \in Id: clients[i] = x) \/ (\E p \in Caller: upsert[p].client = x)
  PROVE  \/ Pending(x) = {} /\ \E id \in Id: Registered(x) = {id}
         \/ Registered(x) = {} /\ \E p \in Caller: Pending(x) = {p}
<1>1. CASE \E i \in Id: clients[i] = x
  <2>1. PICK i \in Id: clients[i] = x
    BY <1>1
  <2>2. Registered(x) = {i} /\ Pending(x) = {}
    BY <2>1 DEF Registered, Pending
  <2> QED
    BY <2>2
<1>2. CASE ~ \E i \in Id: clients[i] = x
  <2>1. PICK p \in Caller: upsert[p].client = x
    BY <1>2
  <2>2. Pending(x) = {p} /\ Registered(x) = {}
    BY <1>2, <2>1 DEF Registered, Pending
  <2> QED
    BY <2>2
<1> QED
  BY <1>1, <1>2

\* The pool of a process that has just started.
LEMMA PoolInitOK == PoolInit => PoolInv
<1> SUFFICES ASSUME PoolInit PROVE PoolInv
  OBVIOUS
<1>1. PoolTypeOK
  BY DEF PoolInit, PoolTypeOK
<1>2. PoolConsistent
  BY DEF PoolInit, PoolConsistent, EntryOK
<1>3. PendingOpen
  BY DEF PoolInit, PendingOpen, NoUpsert
<1>4. NoClientLeaks
  BY DEF PoolInit, NoClientLeaks
<1> QED
  BY <1>1, <1>2, <1>3, <1>4 DEF PoolInv

\* pool.go Upsert up to the lock: the client it dials is new, so nobody else has it.
LEMMA DialOK ==
  ASSUME PoolInv, NEW p \in Caller, NEW c \in Config, Dial(p, c)
  PROVE  PoolInv'
<1>1. /\ PoolTypeOK /\ PoolConsistent /\ PendingOpen /\ NoClientLeaks
      /\ upsert[p] = NoUpsert /\ UNCHANGED <<clusters, clients, v2Clients, apis>>
  BY DEF PoolInv, Dial
<1>2. CASE /\ upsert' = [upsert EXCEPT ![p] = [config |-> c, client |-> NoClient]]
           /\ UNCHANGED dialled
  <2>1. PoolTypeOK'
    BY <1>1, <1>2 DEF PoolTypeOK, Upsert
  <2>2. PoolConsistent'
    BY <1>1, <1>2 DEF PoolConsistent, EntryOK
  <2>3. \A q \in Caller: upsert'[q].client = upsert[q].client
    BY <1>1, <1>2 DEF PoolTypeOK, NoUpsert
  <2>4. PendingOpen'
    BY <1>1, <1>2, <2>3 DEF PendingOpen, PoolTypeOK
  <2>5. NoClientLeaks'
    BY <1>1, <1>2, <2>3 DEF NoClientLeaks, Registered, Pending
  <2> QED
    BY <2>1, <2>2, <2>4, <2>5 DEF PoolInv
<1>3. ASSUME NEW x \in Client, dialled[x] = NoConfig,
             dialled' = [dialled EXCEPT ![x] = c],
             upsert' = [upsert EXCEPT ![p] = [config |-> c, client |-> x]]
      PROVE  PoolInv'
  <2>1. /\ \A id \in Id: clients[id] # x
        /\ \A q \in Caller: upsert[q].client # x
    BY <1>3, ClosedIsUnused
  <2>2. PoolTypeOK'
    BY <1>1, <1>3 DEF PoolTypeOK, Upsert
  <2>3. PoolConsistent'
    BY <1>1, <1>3, <2>1 DEF PoolConsistent, EntryOK, PoolTypeOK
  <2>4. /\ upsert'[p].client = x /\ upsert'[p].config = c
        /\ \A q \in Caller: q # p => upsert'[q] = upsert[q]
        /\ dialled'[x] = c
        /\ \A y \in Client: y # x => dialled'[y] = dialled[y]
    BY <1>1, <1>3 DEF PoolTypeOK
  <2>5. PendingOpen'
    <3> SUFFICES ASSUME NEW q \in Caller, upsert'[q].client # NoClient
                 PROVE  dialled'[upsert'[q].client] = upsert'[q].config
      BY DEF PendingOpen
    <3>1. CASE q = p
      BY <3>1, <2>4
    <3>2. CASE q # p
      <4>1. upsert[q] \in Upsert
        BY <3>2, <2>4, <1>1 DEF PoolTypeOK, NoUpsert
      <4>2. upsert[q].client \in Client /\ upsert[q].client # x
        BY <4>1, <3>2, <2>1, <2>4 DEF Upsert
      <4> QED
        BY <4>2, <3>2, <2>4, <1>1 DEF PendingOpen
    <3> QED
      BY <3>1, <3>2
  <2>6. NoClientLeaks'
    <3> SUFFICES ASSUME NEW y \in Client, dialled'[y] # NoConfig
                 PROVE  (\/ Pending(y) = {} /\ \E id \in Id: Registered(y) = {id}
                         \/ Registered(y) = {} /\ \E q \in Caller: Pending(y) = {q})'
      BY DEF NoClientLeaks
    <3>1. CASE y = x
      <4>1. Registered(y)' = {} /\ Pending(y)' = {p}
        BY <3>1, <2>1, <2>4, <1>1 DEF Registered, Pending
      <4> QED
        BY <4>1
    <3>2. CASE y # x
      <4>1. dialled[y] # NoConfig
        BY <3>2, <2>4
      <4>2. Registered(y)' = Registered(y)
        BY <1>1 DEF Registered
      <4>3. upsert[p].client # y
        BY <1>1, NoClientAssumption DEF NoUpsert
      <4>4. Pending(y)' = Pending(y)
        BY <3>2, <4>3, <2>4 DEF Pending
      <4> QED
        BY <4>1, <4>2, <4>4, <1>1 DEF NoClientLeaks
    <3> QED
      BY <3>1, <3>2
  <2> QED
    BY <2>2, <2>3, <2>5, <2>6 DEF PoolInv
<1> QED
  BY <1>2, <1>3 DEF Dial

\* The client registered for a cluster is open, registered for it alone, and not
\* about to be registered again.
LEMMA RegisteredIsOpen ==
  ASSUME PoolInv, NEW id \in Id, clients[id] # NoClient
  PROVE  /\ clients[id] \in Client
         /\ \A j \in Id: clients[j] = clients[id] => j = id
         /\ \A q \in Caller: upsert[q].client # clients[id]
<1>1. clients[id] \in Client /\ dialled[clients[id]] # NoConfig
  BY NoConfigAssumption DEF PoolInv, PoolTypeOK, PoolConsistent, EntryOK
<1>2. NoClientLeaks
  BY DEF PoolInv
<1> QED
  BY <1>1, <1>2, OpenClient

\* What Closed does to the clients that are open.
LEMMA ClosedOne ==
  ASSUME PoolTypeOK, NEW id \in Id, dialled' = Closed(clients[id])
  PROVE  /\ dialled' \in [Client -> Config \cup {NoConfig}]
         /\ clients[id] # NoClient => dialled'[clients[id]] = NoConfig
         /\ \A y \in Client: y # clients[id] => dialled'[y] = dialled[y]
<1>1. CASE clients[id] = NoClient
  BY <1>1, NoClientAssumption DEF Closed, PoolTypeOK
<1>2. CASE clients[id] # NoClient
  <2>1. clients[id] \in Client
    BY <1>2 DEF PoolTypeOK
  <2> QED
    BY <1>2, <2>1 DEF Closed, PoolTypeOK
<1> QED
  BY <1>1, <1>2

\* Upsert under the lock: the client it brings becomes the entry's, the one replaced is closed.
LEMMA RegisterOK ==
  ASSUME PoolInv, NEW p \in Caller, Register(p)
  PROVE  PoolInv' /\ upsert[p].config \in Config
<1> DEFINE c == upsert[p].config
           x == upsert[p].client
           old == clients[c.id]
<1>1. PoolTypeOK /\ PoolConsistent /\ PendingOpen /\ NoClientLeaks
  BY DEF PoolInv
<1>2. upsert[p] \in Upsert
  BY <1>1 DEF Register, PoolTypeOK
<1>3. c \in Config /\ c.id \in Id /\ x \in Client \cup {NoClient}
  BY <1>2 DEF Upsert, Config
<1>4. /\ upsert' = [upsert EXCEPT ![p] = NoUpsert]
      /\ dialled' = Closed(old)
      /\ clusters' = [clusters EXCEPT ![c.id] = c]
      /\ clients' = [clients EXCEPT ![c.id] = x]
      /\ v2Clients' = [v2Clients EXCEPT ![c.id] = IF x = NoClient THEN c ELSE NoConfig]
      /\ apis' = [apis EXCEPT ![c.id] = IF x = NoClient THEN "v2" ELSE "v3"]
  BY DEF Register
<1>5. /\ dialled' \in [Client -> Config \cup {NoConfig}]
      /\ old # NoClient => dialled'[old] = NoConfig
      /\ \A y \in Client: y # old => dialled'[y] = dialled[y]
  BY <1>1, <1>3, <1>4, ClosedOne
<1>6. old # NoClient =>
        /\ old \in Client
        /\ \A j \in Id: clients[j] = old => j = c.id
        /\ \A q \in Caller: upsert[q].client # old
  BY <1>3, RegisteredIsOpen
<1>7. ASSUME x # NoClient
      PROVE  /\ x \in Client /\ dialled[x] = c /\ dialled[x] # NoConfig
             /\ \A j \in Id: clients[j] # x
             /\ \A q \in Caller: upsert[q].client = x => q = p
  <2>1. x \in Client /\ dialled[x] = c /\ dialled[x] # NoConfig
    BY <1>1, <1>3, <1>7, NoConfigAssumption DEF PendingOpen
  <2> QED
    BY <1>1, <2>1, OpenClient
<1>8. PoolTypeOK'
  BY <1>1, <1>3, <1>4, <1>5 DEF PoolTypeOK
<1>9. PoolConsistent'
  <2> SUFFICES ASSUME NEW j \in Id PROVE EntryOK(j)'
    BY DEF PoolConsistent
  <2>1. CASE j = c.id /\ x = NoClient
    <3>1. clusters'[j] = c /\ clients'[j] = x /\ v2Clients'[j] = c /\ apis'[j] = "v2"
      BY <2>1, <1>1, <1>4 DEF PoolTypeOK
    <3> QED
      BY <3>1, <2>1, <1>3, NoConfigAssumption DEF EntryOK
  <2>2. CASE j = c.id /\ x # NoClient
    <3>1. dialled'[x] = c
      BY <2>2, <1>3, <1>5, <1>7
    <3>2. clusters'[j] = c /\ clients'[j] = x /\ v2Clients'[j] = NoConfig /\ apis'[j] = "v3"
      BY <2>2, <1>1, <1>4 DEF PoolTypeOK
    <3> QED
      BY <3>1, <3>2, <2>2, <1>3, NoConfigAssumption DEF EntryOK
  <2>3. CASE j # c.id
    <3>1. /\ clusters'[j] = clusters[j] /\ clients'[j] = clients[j]
          /\ v2Clients'[j] = v2Clients[j] /\ apis'[j] = apis[j]
      BY <2>3, <1>1, <1>4 DEF PoolTypeOK
    <3>2. clients[j] # NoClient => dialled'[clients[j]] = dialled[clients[j]]
      BY <2>3, <1>1, <1>5, <1>6 DEF PoolTypeOK
    <3> QED
      BY <3>1, <3>2, <1>1 DEF PoolConsistent, EntryOK
  <2> QED
    BY <2>1, <2>2, <2>3
<1>10. PendingOpen'
  <2> SUFFICES ASSUME NEW q \in Caller, upsert'[q].client # NoClient
               PROVE  dialled'[upsert'[q].client] = upsert'[q].config
    BY DEF PendingOpen
  <2>1. q # p /\ upsert'[q] = upsert[q]
    BY <1>1, <1>4 DEF PoolTypeOK, NoUpsert
  <2>2. upsert[q].client \in Client
    BY <2>1, <1>1 DEF PoolTypeOK, Upsert, NoUpsert
  <2>3. upsert[q].client # old
    BY <1>6, <2>2, NoClientAssumption
  <2> QED
    BY <2>1, <2>2, <2>3, <1>1, <1>5 DEF PendingOpen
<1>11. NoClientLeaks'
  <2> SUFFICES ASSUME NEW y \in Client, dialled'[y] # NoConfig
               PROVE  (\/ Pending(y) = {} /\ \E id \in Id: Registered(y) = {id}
                       \/ Registered(y) = {} /\ \E q \in Caller: Pending(y) = {q})'
    BY DEF NoClientLeaks
  <2>1. y # old /\ y # NoClient /\ dialled[y] # NoConfig
    BY <1>5, NoClientAssumption
  <2>2. /\ upsert'[p].client = NoClient
        /\ \A q \in Caller: q # p => upsert'[q] = upsert[q]
        /\ clients'[c.id] = x
        /\ \A j \in Id: j # c.id => clients'[j] = clients[j]
    BY <1>1, <1>3, <1>4 DEF PoolTypeOK, NoUpsert
  <2>3. CASE y = x
    <3>1. Registered(y)' = {c.id} /\ Pending(y)' = {}
      BY <2>1, <2>2, <2>3, <1>3, <1>7 DEF Registered, Pending
    <3> QED
      BY <3>1, <1>3
  <2>4. CASE y # x
    <3>1. Registered(y)' = Registered(y) /\ Pending(y)' = Pending(y)
      BY <2>1, <2>2, <2>4 DEF Registered, Pending
    <3> QED
      BY <3>1, <2>1, <1>1 DEF NoClientLeaks
  <2> QED
    BY <2>3, <2>4
<1> QED
  BY <1>3, <1>8, <1>9, <1>10, <1>11 DEF PoolInv

\* Remove: the client of the entry is closed with it.
LEMMA RemoveOK ==
  ASSUME PoolInv, NEW id \in Id, Remove(id)
  PROVE  PoolInv'
<1> DEFINE old == clients[id]
<1>1. PoolTypeOK /\ PoolConsistent /\ PendingOpen /\ NoClientLeaks
  BY DEF PoolInv
<1>2. /\ upsert' = upsert
      /\ dialled' = Closed(old)
      /\ clusters' = [clusters EXCEPT ![id] = NoConfig]
      /\ clients' = [clients EXCEPT ![id] = NoClient]
      /\ v2Clients' = [v2Clients EXCEPT ![id] = NoConfig]
      /\ apis' = [apis EXCEPT ![id] = "none"]
  BY DEF Remove
<1>3. /\ dialled' \in [Client -> Config \cup {NoConfig}]
      /\ old # NoClient => dialled'[old] = NoConfig
      /\ \A y \in Client: y # old => dialled'[y] = dialled[y]
  BY <1>1, <1>2, ClosedOne
<1>4. old # NoClient =>
        /\ old \in Client
        /\ \A j \in Id: clients[j] = old => j = id
        /\ \A q \in Caller: upsert[q].client # old
  BY RegisteredIsOpen
<1>5. PoolTypeOK'
  BY <1>1, <1>2, <1>3 DEF PoolTypeOK
<1>6. PoolConsistent'
  <2> SUFFICES ASSUME NEW j \in Id PROVE EntryOK(j)'
    BY DEF PoolConsistent
  <2>1. CASE j = id
    BY <2>1, <1>1, <1>2 DEF EntryOK, PoolTypeOK
  <2>2. CASE j # id
    <3>1. /\ clusters'[j] = clusters[j] /\ clients'[j] = clients[j]
          /\ v2Clients'[j] = v2Clients[j] /\ apis'[j] = apis[j]
      BY <2>2, <1>1, <1>2 DEF PoolTypeOK
    <3>2. clients[j] # NoClient => dialled'[clients[j]] = dialled[clients[j]]
      BY <2>2, <1>1, <1>3, <1>4 DEF PoolTypeOK
    <3> QED
      BY <3>1, <3>2, <1>1 DEF PoolConsistent, EntryOK
  <2> QED
    BY <2>1, <2>2
<1>7. PendingOpen'
  <2> SUFFICES ASSUME NEW q \in Caller, upsert[q].client # NoClient
               PROVE  dialled'[upsert[q].client] = upsert[q].config
    BY <1>2 DEF PendingOpen
  <2>1. upsert[q].client \in Client
    BY <1>1 DEF PoolTypeOK, Upsert, NoUpsert
  <2>2. upsert[q].client # old
    BY <1>4, <2>1, NoClientAssumption
  <2> QED
    BY <2>1, <2>2, <1>1, <1>3 DEF PendingOpen
<1>8. NoClientLeaks'
  <2> SUFFICES ASSUME NEW y \in Client, dialled'[y] # NoConfig
               PROVE  (\/ Pending(y) = {} /\ \E i \in Id: Registered(y) = {i}
                       \/ Registered(y) = {} /\ \E q \in Caller: Pending(y) = {q})'
    BY DEF NoClientLeaks
  <2>1. y # old /\ y # NoClient /\ dialled[y] # NoConfig
    BY <1>3, NoClientAssumption
  <2>2. clients'[id] = NoClient /\ \A j \in Id: j # id => clients'[j] = clients[j]
    BY <1>1, <1>2 DEF PoolTypeOK
  <2>3. Registered(y)' = Registered(y) /\ Pending(y)' = Pending(y)
    BY <2>1, <2>2, <1>2 DEF Registered, Pending
  <2> QED
    BY <2>1, <2>3, <1>1 DEF NoClientLeaks
<1> QED
  BY <1>5, <1>6, <1>7, <1>8 DEF PoolInv

\* A crash closes every client and forgets every Upsert under way.
LEMMA PoolDiesOK == PoolDies => PoolInv'
<1> SUFFICES ASSUME PoolDies PROVE PoolInv'
  OBVIOUS
<1>1. PoolTypeOK'
  BY DEF PoolDies, PoolTypeOK
<1>2. PoolConsistent'
  BY DEF PoolDies, PoolConsistent, EntryOK
<1>3. PendingOpen'
  BY DEF PoolDies, PendingOpen, NoUpsert
<1>4. NoClientLeaks'
  BY DEF PoolDies, NoClientLeaks
<1> QED
  BY <1>1, <1>2, <1>3, <1>4 DEF PoolInv

\* A step that leaves the pool alone.
LEMMA PoolStays == PoolInv /\ UNCHANGED poolVars => PoolInv'
BY DEF PoolInv, PoolTypeOK, PoolConsistent, EntryOK, PendingOpen, NoClientLeaks,
       Registered, Pending, poolVars

----------------------------------------------------------------------------
(***************************************************************************)
(* The service.                                                            *)
(***************************************************************************)
\* What is read in from outside, or from the file, are configurations.
LEMMA Configs ==
  /\ \A c \in Config: Received(c) \in Config /\ Stored(c) \in Config
  /\ Posted \subseteq Config
  /\ \A S \in Flattened: S \subseteq Config
  /\ PoolTypeOK => List \subseteq Config
<1>1. \A c \in Config: Received(c) \in Config /\ Stored(c) \in Config
  BY DEF Config, Received, Stored
<1>2. Posted \subseteq Config /\ Discovered \subseteq Config
  BY ConfigAssumption
<1>3. \A S \in Flattened: S \subseteq Config
  BY <1>2 DEF Flattened
<1>4. PoolTypeOK => List \subseteq Config
  BY DEF PoolTypeOK, List
<1> QED
  BY <1>1, <1>2, <1>3, <1>4

RegistryInv == TypeOK /\ PoolInv

\* Each action: the step of the pool in it, if there is one, then the types.
LEMMA UpsertsOK ==
  ASSUME RegistryInv, NEW p \in Caller, DialNext(p) \/ DialFails(p) \/ RegisterNext(p)
  PROVE  RegistryInv'
<1>1. TypeOK /\ PoolInv
  BY DEF RegistryInv
<1>2. todo[p] \subseteq Config
  BY <1>1 DEF TypeOK
<1>3. CASE DialNext(p)
  <2>1. PICK c \in todo[p]: Dial(p, c) /\ todo' = [todo EXCEPT ![p] = @ \ {c}]
    BY <1>3 DEF DialNext
  <2>2. PoolInv'
    BY <1>1, <1>2, <2>1, DialOK
  <2>3. TypeOK'
    BY <1>1, <1>3, <2>1, <2>2 DEF TypeOK, DialNext, bounds, PoolInv
  <2> QED
    BY <2>2, <2>3 DEF RegistryInv
<1>4. CASE DialFails(p)
  <2>1. PICK c \in todo[p]: /\ Start(p, todo[p] \ {c})
                            /\ IF p = Main THEN Unsettle({c.id}) ELSE UNCHANGED settled
    BY <1>4 DEF DialFails
  <2>2. PoolInv'
    BY <1>1, <1>4, PoolStays DEF DialFails
  <2>3. pc' \in [Caller -> {"idle", "upserting", "listing", "saving"}]
    BY <1>1, <2>1 DEF TypeOK, Start
  <2>4. todo' \in [Caller -> SUBSET Config]
    BY <1>1, <2>1 DEF TypeOK, Start
  <2>5. settled' \in [Id -> {"no", "added", "deleted"}]
    BY <1>1, <2>1 DEF TypeOK, Unsettle
  <2>6. about' \in [Handler -> Id \cup {NoConfig}]
    BY <1>1, <1>4 DEF TypeOK, DialFails
  <2>7. TypeOK'
    BY <1>1, <1>4, <2>2, <2>3, <2>4, <2>5, <2>6 DEF TypeOK, DialFails, bounds, PoolInv
  <2> QED
    BY <2>2, <2>7 DEF RegistryInv
<1>5. CASE RegisterNext(p)
  <2>1. PoolInv'
    BY <1>1, <1>5, RegisterOK DEF RegisterNext
  <2>2. pc' \in [Caller -> {"idle", "upserting", "listing", "saving"}]
    BY <1>1, <1>5 DEF TypeOK, RegisterNext
  <2>3. TypeOK'
    BY <1>1, <1>5, <2>1, <2>2 DEF TypeOK, RegisterNext, bounds, PoolInv
  <2> QED
    BY <2>1, <2>3 DEF RegistryInv
<1> QED
  BY <1>3, <1>4, <1>5

\* Requests that arrive: a POST dials, a DELETE removes.
LEMMA ArrivalsOK ==
  ASSUME RegistryInv, NEW h \in Handler,
         (\E c \in Posted: Post(h, c)) \/ (\E id \in Id: Delete(h, id))
  PROVE  RegistryInv'
<1>1. TypeOK /\ PoolInv /\ h \in Caller
  BY CallerAssumption DEF RegistryInv
<1>2. ASSUME NEW id \in Id, Arrives(h, id)
      PROVE  /\ requests' \in 0..MaxRequests
             /\ about' \in [Handler -> Id \cup {NoConfig}]
             /\ settled' \in [Id -> {"no", "added", "deleted"}]
             /\ UNCHANGED <<phase, listed, file, ticks, crashes>>
  BY <1>1, <1>2, BoundsAssumption DEF TypeOK, Arrives, Unsettle
<1>3. ASSUME NEW c \in Posted, Post(h, c) PROVE RegistryInv'
  <2>1. c \in Config /\ c.id \in Id /\ Received(c) \in Config
    BY Configs DEF Config
  <2>2. PoolInv'
    BY <1>1, <1>3, PoolStays DEF Post
  <2>3. /\ pc' \in [Caller -> {"idle", "upserting", "listing", "saving"}]
        /\ todo' \in [Caller -> SUBSET Config]
    BY <1>1, <1>3, <2>1 DEF TypeOK, Post, Start
  <2>4. TypeOK'
    BY <1>1, <1>2, <1>3, <2>1, <2>2, <2>3 DEF TypeOK, Post, PoolInv
  <2> QED
    BY <2>2, <2>4 DEF RegistryInv
<1>4. ASSUME NEW id \in Id, Delete(h, id) PROVE RegistryInv'
  <2>1. PoolInv'
    BY <1>1, <1>4, RemoveOK DEF Delete
  <2>2. /\ pc' \in [Caller -> {"idle", "upserting", "listing", "saving"}]
        /\ todo' \in [Caller -> SUBSET Config]
    BY <1>1, <1>4 DEF TypeOK, Delete
  <2>3. TypeOK'
    BY <1>1, <1>2, <1>4, <2>1, <2>2 DEF TypeOK, Delete, PoolInv
  <2> QED
    BY <2>1, <2>3 DEF RegistryInv
<1> QED
  BY <1>3, <1>4

\* savePersisted only reads the pool.
LEMMA SavesOK ==
  ASSUME RegistryInv, NEW h \in Handler, ListManual(h) \/ Save(h)
  PROVE  RegistryInv'
<1>1. TypeOK /\ PoolInv /\ PoolTypeOK /\ h \in Caller
  BY CallerAssumption DEF RegistryInv, PoolInv
<1>2. PoolInv'
  BY <1>1, PoolStays DEF ListManual, Save
<1>3. CASE ListManual(h)
  <2>1. Manual \subseteq Config
    BY <1>1, Configs DEF Manual
  <2>2. /\ pc' \in [Caller -> {"idle", "upserting", "listing", "saving"}]
        /\ listed' \in [Handler -> SUBSET Config]
    BY <1>1, <1>3, <2>1 DEF TypeOK, ListManual
  <2>3. TypeOK'
    BY <1>1, <1>2, <1>3, <2>2 DEF TypeOK, ListManual, bounds, PoolInv
  <2> QED
    BY <1>2, <2>3 DEF RegistryInv
<1>4. CASE Save(h)
  <2>1. listed[h] \subseteq Config
    BY <1>1 DEF TypeOK
  <2>2. file' \subseteq Config
    BY <1>1, <1>4, <2>1, Configs DEF TypeOK, Save, Written
  <2>3. settled' \in [Id -> {"no", "added", "deleted"}]
    BY <1>1, <1>4 DEF TypeOK, Save
  <2>4. /\ pc' \in [Caller -> {"idle", "upserting", "listing", "saving"}]
        /\ about' \in [Handler -> Id \cup {NoConfig}]
        /\ listed' \in [Handler -> SUBSET Config]
    BY <1>1, <1>4 DEF TypeOK, Save
  <2>5. TypeOK'
    BY <1>1, <1>2, <1>4, <2>2, <2>3, <2>4 DEF TypeOK, Save, bounds, PoolInv
  <2> QED
    BY <1>2, <2>5 DEF RegistryInv
<1> QED
  BY <1>3, <1>4

\* The loops of discovery and certificates.
LEMMA TicksOK ==
  ASSUME RegistryInv,
         (\E S \in Flattened: DiscoveryTick(S)) \/ (\E S \in SUBSET List: CertTick(S))
  PROVE  RegistryInv'
<1>1. TypeOK /\ PoolInv /\ PoolTypeOK
  BY DEF RegistryInv, PoolInv
<1>2. ASSUME NEW p \in Caller, NEW S \in SUBSET Config, Ticks(p, S),
             settled' \in [Id -> {"no", "added", "deleted"}]
      PROVE  RegistryInv'
  <2>1. PoolInv'
    BY <1>1, <1>2, PoolStays DEF Ticks
  <2>2. /\ pc' \in [Caller -> {"idle", "upserting", "listing", "saving"}]
        /\ todo' \in [Caller -> SUBSET Config]
    BY <1>1, <1>2 DEF TypeOK, Ticks, Start
  <2>3. ticks' \in 0..MaxTicks
    BY <1>1, <1>2, BoundsAssumption DEF TypeOK, Ticks
  <2>4. TypeOK'
    BY <1>1, <1>2, <2>1, <2>2, <2>3 DEF TypeOK, Ticks, PoolInv
  <2> QED
    BY <2>1, <2>4 DEF RegistryInv
<1>3. ASSUME NEW S \in Flattened, DiscoveryTick(S) PROVE RegistryInv'
  <2>1. settled' \in [Id -> {"no", "added", "deleted"}]
    BY <1>1, <1>3 DEF TypeOK, DiscoveryTick, Unsettle
  <2> QED
    BY <1>2, <1>3, <2>1, Configs, CallerAssumption DEF DiscoveryTick
<1>4. ASSUME NEW S \in SUBSET List, CertTick(S) PROVE RegistryInv'
  <2>1. S \in SUBSET Config
    BY <1>1, <1>4, Configs
  <2>2. settled' \in [Id -> {"no", "added", "deleted"}]
    BY <1>1, <1>4 DEF TypeOK, CertTick
  <2> QED
    BY <1>2, <1>4, <2>1, <2>2, CallerAssumption DEF CertTick
<1> QED
  BY <1>3, <1>4

\* Start-up and crashes.
LEMMA StartsAndStopsOK ==
  ASSUME RegistryInv,
         Crash \/ Rehydrate \/ (\E S \in Flattened: Discover(S)) \/ Serve
  PROVE  RegistryInv'
<1>1. TypeOK /\ PoolInv /\ Main \in Caller
  BY CallerAssumption DEF RegistryInv
<1>2. CASE Crash
  <2>1. PoolInv'
    BY <1>2, PoolDiesOK DEF Crash
  <2>2. crashes' \in 0..MaxCrashes
    BY <1>1, <1>2, BoundsAssumption DEF TypeOK, Crash
  <2>3. TypeOK'
    BY <1>1, <1>2, <2>1, <2>2 DEF TypeOK, Crash, PoolInv
  <2> QED
    BY <2>1, <2>3 DEF RegistryInv
<1>3. ASSUME NEW S \in SUBSET Config, Start(Main, S)
      PROVE  /\ pc' \in [Caller -> {"idle", "upserting", "listing", "saving"}]
             /\ todo' \in [Caller -> SUBSET Config]
  BY <1>1, <1>3 DEF TypeOK, Start
<1>4. CASE Rehydrate
  <2>1. PoolInv'
    BY <1>1, <1>4, PoolStays DEF Rehydrate
  <2>2. file \in SUBSET Config
    BY <1>1 DEF TypeOK
  <2>3. TypeOK'
    BY <1>1, <1>3, <1>4, <2>1, <2>2 DEF TypeOK, Rehydrate, bounds, PoolInv
  <2> QED
    BY <2>1, <2>3 DEF RegistryInv
<1>5. ASSUME NEW S \in Flattened, Discover(S) PROVE RegistryInv'
  <2>1. PoolInv'
    BY <1>1, <1>5, PoolStays DEF Discover
  <2>2. S \in SUBSET Config
    BY <1>5, Configs
  <2>3. settled' \in [Id -> {"no", "added", "deleted"}]
    BY <1>1, <1>5 DEF TypeOK, Discover, Unsettle
  <2>4. TypeOK'
    BY <1>1, <1>3, <1>5, <2>1, <2>2, <2>3 DEF TypeOK, Discover, bounds, PoolInv
  <2> QED
    BY <2>1, <2>4 DEF RegistryInv
<1>6. CASE Serve
  <2>1. PoolInv'
    BY <1>1, <1>6, PoolStays DEF Serve
  <2>2. TypeOK'
    BY <1>1, <1>6, <2>1 DEF TypeOK, Serve, jobVars, bounds, PoolInv
  <2> QED
    BY <2>1, <2>2 DEF RegistryInv
<1> QED
  BY <1>2, <1>4, <1>5, <1>6

\* The service before its first start.
LEMMA InitOK == Init => RegistryInv
<1> SUFFICES ASSUME Init PROVE RegistryInv
  OBVIOUS
<1>1. PoolInv
  BY PoolInitOK DEF Init
<1>2. TypeOK
  BY <1>1, BoundsAssumption DEF Init, TypeOK, PoolInv
<1> QED
  BY <1>1, <1>2 DEF RegistryInv

\* Every step keeps the inductive invariant.
LEMMA NextOK == RegistryInv /\ [Next]_vars => RegistryInv'
<1> SUFFICES ASSUME RegistryInv, [Next]_vars PROVE RegistryInv'
  OBVIOUS
<1>1. CASE UNCHANGED vars
  <2>1. PoolInv'
    BY <1>1, PoolStays DEF vars, RegistryInv
  <2>2. TypeOK'
    BY <1>1, <2>1 DEF vars, jobVars, bounds, RegistryInv, TypeOK, PoolInv
  <2> QED
    BY <2>1, <2>2 DEF RegistryInv
<1>2. CASE Next
  BY <1>2, UpsertsOK, ArrivalsOK, SavesOK, TicksOK, StartsAndStopsOK DEF Next
<1> QED
  BY <1>1, <1>2

\* The inductive invariant of the cluster service: its types, and a pool in which
\* a client is either an entry's or the client of one Upsert under way.
THEOREM Invariant == Spec => []RegistryInv
BY InitOK, NextOK, PTL DEF Spec

\* Type correctness of the cluster service, whatever overlaps.
THEOREM RegistryTypes == Spec => []TypeOK
<1>1. RegistryInv => TypeOK
  BY DEF RegistryInv
<1> QED
  BY <1>1, Invariant, PTL

\* Every registered cluster has one client, of the kind that was detected, open
\* and dialled with the configuration that is registered, however many Upserts
\* and Removes of it overlap.
THEOREM EntriesConsistent == Spec => []PoolConsistent
<1>1. RegistryInv => PoolConsistent
  BY DEF RegistryInv, PoolInv
<1> QED
  BY <1>1, Invariant, PTL

\* No client is left open that nobody can reach, and none belongs to two.
THEOREM NoLeaks == Spec => []NoClientLeaks
<1>1. RegistryInv => NoClientLeaks
  BY DEF RegistryInv, PoolInv
<1> QED
  BY <1>1, Invariant, PTL

----------------------------------------------------------------------------
(***************************************************************************)
(* What lasts.  A goroutine holds configurations only while it Upserts;    *)
(* what is saved are clusters added by users.  Of a deletion that was      *)
(* saved nothing is left that could bring the cluster back.  A cluster     *)
(* that was added and saved is in every list about to be saved, and in the *)
(* pool or, after a crash, still to be registered by main; whatever is     *)
(* registered for it is what a user added.                                 *)
(***************************************************************************)
IsManual(c) == c.source = "manual"

\* The configurations p has not finished to Upsert.
Held(p) == todo[p] \cup (IF upsert[p] = NoUpsert THEN {} ELSE {upsert[p].config})

HandlerOK(h) ==
  /\ pc[h] # "idle" => phase = "serving"
  /\ \A c, d \in todo[h]: c = d
  /\ upsert[h] # NoUpsert => todo[h] = {}
  /\ pc[h] # "saving" => listed[h] = {}
  /\ \A c \in listed[h]: IsManual(c)

JobsOK ==
  /\ \A p \in Caller: pc[p] # "upserting" => Held(p) = {}
  /\ phase \in {"serving", "down"} => pc[Main] # "upserting"
  /\ phase = "down" => \A p \in Caller: pc[p] = "idle"
  /\ \A h \in Handler: HandlerOK(h)
  /\ \A c \in file: IsManual(c)

Gone(id) ==
  /\ clusters[id] = NoConfig
  /\ id \notin Ids(file)
  /\ \A h \in Handler: id \notin Ids(listed[h])
  /\ \A p \in Caller: id \notin Ids(Held(p))

Kept(id) ==
  /\ id \in Ids(file)
  /\ \A h \in Handler: pc[h] = "saving" => id \in Ids(listed[h])
  /\ phase # "down" => clusters[id] # NoConfig \/ id \in Ids(Held(Main))
  /\ clusters[id] # NoConfig => IsManual(clusters[id])
  /\ \A p \in Caller: \A c \in Held(p): c.id = id => IsManual(c)

SettledOK ==
  \A id \in Id: /\ settled[id] = "deleted" => Gone(id)
                /\ settled[id] = "added" => Kept(id)

SavedInv == RegistryInv /\ JobsOK /\ SettledOK

LEMMA BusyIsHeld == \A p: Busy(p) = Ids(Held(p))
BY DEF Busy, Ids, Held

\* What is in the pool by ID.
LEMMA Entries ==
  ASSUME RegistryInv, NEW id \in Id
  PROVE  /\ id \in Ids(List) <=> clusters[id] # NoConfig
         /\ id \in Ids(Manual) <=> clusters[id] # NoConfig /\ IsManual(clusters[id])
         /\ clusters[id] # NoConfig => clusters[id].id = id
         /\ \A c \in List: c.id \in Id /\ clusters[c.id] = c
<1>1. \A i \in Id: clusters[i] # NoConfig => clusters[i].id = i
  BY DEF RegistryInv, PoolInv, PoolConsistent, EntryOK
<1>2. \A c: c \in List <=> \E i \in Id: clusters[i] = c /\ c # NoConfig
  BY DEF List
<1>3. id \in Ids(List) <=> clusters[id] # NoConfig
  BY <1>1, <1>2 DEF Ids
<1>4. id \in Ids(Manual) <=> clusters[id] # NoConfig /\ IsManual(clusters[id])
  BY <1>1, <1>2 DEF Ids, Manual, IsManual
<1> QED
  BY <1>1, <1>2, <1>3, <1>4

LEMMA SavedInvHolds == SavedInv => SavedChangesLast
<1> SUFFICES ASSUME SavedInv PROVE SavedChangesLast
  OBVIOUS
<1>1. RegistryInv /\ JobsOK /\ SettledOK /\ TypeOK /\ Main \in Caller
  BY CallerAssumption DEF SavedInv, RegistryInv
<1>2. DeletedStaysDeleted
  <2> SUFFICES ASSUME NEW id \in Id, settled[id] = "deleted"
               PROVE  id \notin Ids(List) \cup Ids(file) \cup UNION {Busy(p) : p \in Caller}
    BY DEF DeletedStaysDeleted
  <2>1. Gone(id)
    BY <1>1 DEF SettledOK
  <2> QED
    BY <1>1, <2>1, Entries, BusyIsHeld DEF Gone
<1>3. AddedStaysAdded
  <2> SUFFICES ASSUME NEW id \in Id, settled[id] = "added"
               PROVE  id \in Ids(file) /\ (phase = "serving" => id \in Ids(Manual))
    BY DEF AddedStaysAdded
  <2>1. Kept(id)
    BY <1>1 DEF SettledOK
  <2>2. phase = "serving" => Held(Main) = {}
    BY <1>1 DEF JobsOK
  <2>3. Ids({}) = {}
    BY DEF Ids
  <2> QED
    BY <1>1, <2>1, <2>2, <2>3, Entries DEF Kept
<1> QED
  BY <1>2, <1>3 DEF SavedChangesLast

LEMMA SavedInit == Init => JobsOK /\ SettledOK
<1> SUFFICES ASSUME Init PROVE JobsOK /\ SettledOK
  OBVIOUS
<1>1. \A p \in Caller: Held(p) = {} /\ pc[p] = "idle"
  BY DEF Init, PoolInit, Held
<1>2. Main \in Caller /\ Handler \subseteq Caller
  BY CallerAssumption
<1>3. \A h \in Handler: HandlerOK(h)
  BY <1>1, <1>2 DEF Init, PoolInit, HandlerOK
<1>4. JobsOK
  BY <1>1, <1>2, <1>3 DEF Init, JobsOK
<1>5. SettledOK
  BY DEF Init, SettledOK
<1> QED
  BY <1>4, <1>5

\* A step after which nothing is about an ID that was not before.
LEMMA SettledStays ==
  ASSUME SettledOK, NEW id \in Id, settled'[id] = settled[id],
         clusters'[id] = clusters[id], file' = file,
         \A h \in Handler: listed'[h] \subseteq listed[h],
         \A h \in Handler: pc'[h] = "saving" => pc[h] = "saving" /\ listed'[h] = listed[h],
         \A p \in Caller: \A c \in Held(p)': c.id = id => c \in Held(p),
         phase' # "down" => phase # "down",
         phase' # "down" /\ clusters[id] = NoConfig /\ id \in Ids(Held(Main))
           => id \in Ids(Held(Main))'
  PROVE  /\ settled'[id] = "deleted" => Gone(id)'
         /\ settled'[id] = "added" => Kept(id)'
<1>1. ASSUME Gone(id) PROVE Gone(id)'
  <2>1. \A h \in Handler: id \notin Ids(listed'[h])
    BY <1>1 DEF Gone, Ids
  <2>2. \A p \in Caller: id \notin Ids(Held(p))'
    BY <1>1 DEF Gone, Ids
  <2> QED
    BY <1>1, <2>1, <2>2 DEF Gone, Ids
<1>2. ASSUME Kept(id) PROVE Kept(id)'
  <2>1. id \in Ids(file)'
    BY <1>2 DEF Kept, Ids
  <2>2. \A h \in Handler: pc'[h] = "saving" => id \in Ids(listed'[h])
    BY <1>2 DEF Kept
  <2>3. phase' # "down" => clusters'[id] # NoConfig \/ id \in Ids(Held(Main))'
    BY <1>2 DEF Kept
  <2>4. clusters'[id] # NoConfig => IsManual(clusters'[id])
    BY <1>2 DEF Kept
  <2>5. \A p \in Caller: \A c \in Held(p)': c.id = id => IsManual(c)
    BY <1>2 DEF Kept
  <2> QED
    BY <2>1, <2>2, <2>3, <2>4, <2>5 DEF Kept, Ids
<1> QED
  BY <1>1, <1>2 DEF SettledOK

\* A goroutine that is not Upserting holds nothing.
LEMMA HoldsNothing ==
  ASSUME JobsOK, NEW p \in Caller, pc[p] # "upserting"
  PROVE  todo[p] = {} /\ upsert[p] = NoUpsert /\ Held(p) = {}
<1>1. Held(p) = {}
  BY DEF JobsOK
<1> QED
  BY <1>1 DEF Held

\* A step of one goroutine, p.
LEMMA JobsStep ==
  ASSUME JobsOK, NEW p \in Caller, phase' = phase, phase # "down",
         \A c \in file': IsManual(c),
         \A q \in Caller: q # p => pc'[q] = pc[q] /\ todo'[q] = todo[q] /\ upsert'[q] = upsert[q],
         \A h \in Handler: h # p => listed'[h] = listed[h],
         pc'[p] # "upserting" => Held(p)' = {},
         p = Main /\ phase = "serving" => pc'[p] # "upserting",
         p \in Handler => HandlerOK(p)'
  PROVE  JobsOK'
<1>1. Main \in Caller /\ Handler \subseteq Caller
  BY CallerAssumption
<1>2. \A q \in Caller: pc'[q] # "upserting" => Held(q)' = {}
  BY DEF JobsOK, Held
<1>3. phase' \in {"serving", "down"} => pc'[Main] # "upserting"
  BY <1>1 DEF JobsOK
<1>4. \A h \in Handler: HandlerOK(h)'
  <2> SUFFICES ASSUME NEW h \in Handler, h # p PROVE HandlerOK(h)'
    OBVIOUS
  <2>1. HandlerOK(h) /\ h \in Caller
    BY <1>1 DEF JobsOK
  <2> QED
    BY <2>1 DEF HandlerOK
<1> QED
  BY <1>2, <1>3, <1>4 DEF JobsOK

\* An Upsert that has dialled still holds its configuration.
LEMMA DialSaved ==
  ASSUME SavedInv, NEW p \in Caller, DialNext(p)
  PROVE  JobsOK' /\ SettledOK'
<1>1. RegistryInv /\ JobsOK /\ SettledOK /\ TypeOK /\ PoolTypeOK
  BY DEF SavedInv, RegistryInv, PoolInv
<1>2. PICK c \in todo[p]: Dial(p, c) /\ todo' = [todo EXCEPT ![p] = @ \ {c}]
  BY DEF DialNext
<1>3. c \in Config /\ upsert[p] = NoUpsert
  BY <1>1, <1>2 DEF TypeOK, Dial
<1>4. PICK x \in Client \cup {NoClient}:
        upsert' = [upsert EXCEPT ![p] = [config |-> c, client |-> x]]
  BY <1>2 DEF Dial
<1>5. [config |-> c, client |-> x] \in Upsert
  BY <1>3 DEF Upsert
<1>6. upsert'[p] # NoUpsert /\ upsert'[p].config = c
  BY <1>1, <1>4, <1>5, UpsertIsOne DEF PoolTypeOK
<1>7. \A q \in Caller: q # p => todo'[q] = todo[q] /\ upsert'[q] = upsert[q]
  BY <1>1, <1>2, <1>4 DEF TypeOK, PoolTypeOK
<1>8. todo'[p] = todo[p] \ {c}
  BY <1>1, <1>2 DEF TypeOK
<1>9. Held(p)' = Held(p)
  BY <1>2, <1>3, <1>6, <1>8 DEF Held
<1>10. \A q \in Caller: Held(q)' = Held(q)
  BY <1>7, <1>9 DEF Held
<1>11. /\ UNCHANGED <<phase, pc, about, listed, file, settled>> /\ pc[p] = "upserting"
       /\ UNCHANGED clusters
  BY <1>2 DEF DialNext, Dial
<1>12. p \in Handler => HandlerOK(p)'
  <2> SUFFICES ASSUME p \in Handler PROVE HandlerOK(p)'
    OBVIOUS
  <2>1. HandlerOK(p)
    BY <1>1 DEF JobsOK
  <2>2. todo'[p] = {}
    BY <2>1, <1>2, <1>8 DEF HandlerOK
  <2> QED
    BY <2>1, <2>2, <1>11 DEF HandlerOK
<1>13. phase # "down" /\ (p = Main => phase # "serving") /\ \A d \in file: IsManual(d)
  BY <1>1, <1>11 DEF JobsOK
<1>14. JobsOK'
  BY <1>1, <1>7, <1>11, <1>12, <1>13, JobsStep
<1>15. SettledOK'
  <2> SUFFICES ASSUME NEW id \in Id
               PROVE  /\ settled'[id] = "deleted" => Gone(id)'
                      /\ settled'[id] = "added" => Kept(id)'
    BY DEF SettledOK
  <2>1. Main \in Caller
    BY CallerAssumption
  <2>2. Ids(Held(Main))' = Ids(Held(Main))
    BY <1>10, <2>1 DEF Ids
  <2> QED
    BY <1>1, <1>10, <1>11, <2>2, SettledStays
<1> QED
  BY <1>14, <1>15

\* An Upsert that fails drops its configuration; main's drops the cluster's change with it.
LEMMA FailSaved ==
  ASSUME SavedInv, NEW p \in Caller, DialFails(p)
  PROVE  JobsOK' /\ SettledOK'
<1>1. RegistryInv /\ JobsOK /\ SettledOK /\ TypeOK /\ PoolTypeOK
  BY DEF SavedInv, RegistryInv, PoolInv
<1>2. PICK c \in todo[p]: /\ Start(p, todo[p] \ {c})
                          /\ IF p = Main THEN Unsettle({c.id}) ELSE UNCHANGED settled
  BY DEF DialFails
<1>3. upsert[p] = NoUpsert /\ pc[p] = "upserting"
      /\ UNCHANGED <<clusters, upsert, phase, listed, file>>
  BY DEF DialFails, poolVars
<1>4. todo'[p] = todo[p] \ {c} /\ pc'[p] = IF todo[p] \ {c} = {} THEN "idle" ELSE "upserting"
  BY <1>1, <1>2 DEF TypeOK, Start
<1>5. \A q \in Caller: q # p => pc'[q] = pc[q] /\ todo'[q] = todo[q]
  BY <1>1, <1>2 DEF TypeOK, Start
<1>6. Held(p)' = Held(p) \ {c}
  BY <1>3, <1>4 DEF Held
<1>7. \A q \in Caller: q # p => Held(q)' = Held(q)
  BY <1>3, <1>5 DEF Held
<1>8. pc'[p] # "upserting" => Held(p)' = {}
  BY <1>3, <1>4 DEF Held
<1>9. p \in Handler => HandlerOK(p)'
  <2> SUFFICES ASSUME p \in Handler PROVE HandlerOK(p)'
    OBVIOUS
  <2>1. HandlerOK(p)
    BY <1>1 DEF JobsOK
  <2> QED
    BY <2>1, <1>3, <1>4 DEF HandlerOK
<1>10. phase # "down" /\ (p = Main => phase # "serving") /\ \A d \in file: IsManual(d)
  BY <1>1, <1>3 DEF JobsOK
<1>11. JobsOK'
  BY <1>1, <1>3, <1>5, <1>8, <1>9, <1>10, JobsStep
<1>12. SettledOK'
  <2> SUFFICES ASSUME NEW id \in Id
               PROVE  /\ settled'[id] = "deleted" => Gone(id)'
                      /\ settled'[id] = "added" => Kept(id)'
    BY DEF SettledOK
  <2>1. CASE p = Main /\ id = c.id
    BY <1>2, <2>1 DEF Unsettle
  <2>2. CASE p # Main \/ id # c.id
    <3>1. settled'[id] = settled[id]
      BY <1>2, <2>2 DEF Unsettle
    <3>2. \A q \in Caller: \A d \in Held(q)': d.id = id => d \in Held(q)
      BY <1>6, <1>7
    <3>3. Main \in Caller
      BY CallerAssumption
    <3>4. id \in Ids(Held(Main)) => id \in Ids(Held(Main))'
      BY <1>6, <1>7, <2>2, <3>3 DEF Ids
    <3>5. \A h \in Handler: pc'[h] = "saving" => pc[h] = "saving"
      BY <1>4, <1>5, CallerAssumption
    <3> QED
      BY <1>1, <1>3, <3>1, <3>2, <3>4, <3>5, SettledStays
  <2> QED
    BY <2>1, <2>2
<1> QED
  BY <1>11, <1>12

\* An Upsert that registers is of a cluster that was not deleted since it was held.
LEMMA RegisterSaved ==
  ASSUME SavedInv, NEW p \in Caller, RegisterNext(p)
  PROVE  JobsOK' /\ SettledOK'
<1>1. RegistryInv /\ JobsOK /\ SettledOK /\ TypeOK /\ PoolTypeOK /\ PoolInv
  BY DEF SavedInv, RegistryInv, PoolInv
<1>2. PICK c: c = upsert[p].config
  OBVIOUS
<1>3. /\ upsert[p] # NoUpsert /\ upsert' = [upsert EXCEPT ![p] = NoUpsert]
      /\ clusters' = [clusters EXCEPT ![c.id] = c]
      /\ UNCHANGED <<phase, todo, listed, file, settled>>
      /\ pc' = [pc EXCEPT ![p] = IF p \in Handler THEN "listing"
                                 ELSE IF todo[p] = {} THEN "idle" ELSE "upserting"]
  BY <1>2 DEF RegisterNext, Register
<1>4. c \in Config /\ c.id \in Id
  BY <1>1, <1>2, RegisterOK DEF RegisterNext, Config
<1>5. c # NoConfig
  BY <1>4, NoConfigAssumption
<1>6. upsert'[p] = NoUpsert /\ \A q \in Caller: q # p => upsert'[q] = upsert[q]
  BY <1>1, <1>3 DEF PoolTypeOK
<1>7. /\ pc'[p] = IF p \in Handler THEN "listing"
                  ELSE IF todo[p] = {} THEN "idle" ELSE "upserting"
      /\ \A q \in Caller: q # p => pc'[q] = pc[q]
  BY <1>1, <1>3 DEF TypeOK
<1>8. Held(p) = todo[p] \cup {c} /\ Held(p)' = todo[p]
  BY <1>2, <1>3, <1>6 DEF Held
<1>9. \A q \in Caller: q # p => Held(q)' = Held(q)
  BY <1>3, <1>6 DEF Held
<1>10. pc[p] = "upserting"
  BY <1>1, <1>8 DEF JobsOK
<1>11. ASSUME p \in Handler PROVE HandlerOK(p)' /\ todo[p] = {}
  <2>1. HandlerOK(p)
    BY <1>1, <1>11 DEF JobsOK
  <2>2. todo[p] = {} /\ listed[p] = {} /\ phase = "serving"
    BY <2>1, <1>3, <1>10 DEF HandlerOK
  <2> QED
    BY <1>3, <1>6, <2>2 DEF HandlerOK
<1>12. pc'[p] # "upserting" => Held(p)' = {}
  BY <1>7, <1>8, <1>11
<1>13. phase # "down" /\ (p = Main => phase # "serving") /\ \A d \in file: IsManual(d)
  BY <1>1, <1>10 DEF JobsOK
<1>14. JobsOK'
  BY <1>1, <1>3, <1>6, <1>7, <1>11, <1>12, <1>13, JobsStep
<1>15. SettledOK'
  <2> SUFFICES ASSUME NEW id \in Id
               PROVE  /\ settled'[id] = "deleted" => Gone(id)'
                      /\ settled'[id] = "added" => Kept(id)'
    BY DEF SettledOK
  <2>1. Main \in Caller /\ Handler \subseteq Caller
    BY CallerAssumption
  <2>2. \A h \in Handler: pc'[h] = "saving" => pc[h] = "saving"
    BY <1>7, <2>1
  <2>3. \A q \in Caller: \A d \in Held(q)': d \in Held(q)
    BY <1>8, <1>9
  <2>4. CASE id = c.id
    <3>1. c \in Held(p) /\ id \in Ids(Held(p))
      BY <1>8, <2>4 DEF Ids
    <3>2. ~ Gone(id)
      BY <3>1 DEF Gone
    <3>3. clusters'[id] = c
      BY <1>1, <1>3, <2>4 DEF PoolTypeOK
    <3>4. ASSUME Kept(id) PROVE Kept(id)'
      <4>1. IsManual(c)
        BY <3>1, <3>4, <2>4 DEF Kept
      <4>2. \A q \in Caller: \A d \in Held(q)': d.id = id => IsManual(d)
        BY <3>4, <2>3 DEF Kept
      <4>3. id \in Ids(file)' /\ \A h \in Handler: pc'[h] = "saving" => id \in Ids(listed'[h])
        BY <3>4, <1>3, <2>2 DEF Kept, Ids
      <4> QED
        BY <4>1, <4>2, <4>3, <3>3, <1>5 DEF Kept, Ids
    <3> QED
      BY <1>1, <1>3, <3>2, <3>4 DEF SettledOK
  <2>5. CASE id # c.id
    <3>1. clusters'[id] = clusters[id]
      BY <1>1, <1>3, <2>5 DEF PoolTypeOK
    <3>2. id \in Ids(Held(Main)) => id \in Ids(Held(Main))'
      BY <1>8, <1>9, <2>1, <2>5 DEF Ids
    <3> QED
      BY <1>1, <1>3, <2>2, <2>3, <3>1, <3>2, SettledStays
  <2> QED
    BY <2>4, <2>5
<1> QED
  BY <1>14, <1>15

\* A request that arrives unsettles what it is about, and nothing else.
LEMMA ArrivalSaved ==
  ASSUME SavedInv, NEW h \in Handler,
         (\E c \in Posted: Post(h, c)) \/ (\E i \in Id: Delete(h, i))
  PROVE  JobsOK' /\ SettledOK'
<1>1. RegistryInv /\ JobsOK /\ SettledOK /\ TypeOK /\ PoolTypeOK /\ HandlerOK(h)
  BY DEF SavedInv, RegistryInv, PoolInv, JobsOK
<1>2. h \in Caller /\ Main \in Caller /\ Handler \subseteq Caller /\ h # Main
  BY CallerAssumption
<1>3. pc[h] = "idle" /\ phase = "serving" /\ UNCHANGED <<phase, listed, file>>
  BY DEF Post, Delete, Arrives
<1>4. todo[h] = {} /\ upsert[h] = NoUpsert /\ Held(h) = {}
  BY <1>1, <1>2, <1>3, HoldsNothing
<1>5. listed[h] = {} /\ \A d \in file: IsManual(d)
  BY <1>1, <1>3 DEF HandlerOK, JobsOK
<1>6. ASSUME NEW c \in Posted, Post(h, c) PROVE JobsOK' /\ SettledOK'
  <2>1. PICK r: r = Received(c)
    OBVIOUS
  <2>2. r.id = c.id /\ Unsettle({c.id}) /\ Start(h, {r}) /\ UNCHANGED <<clusters, upsert>>
    BY <1>6, <2>1, Configs DEF Post, Arrives, poolVars, Received, Config
  <2>3. /\ pc'[h] = "upserting" /\ todo'[h] = {r}
        /\ \A q \in Caller: q # h => pc'[q] = pc[q] /\ todo'[q] = todo[q]
    BY <1>1, <1>2, <2>2 DEF TypeOK, Start
  <2>4. Held(h)' = {r} /\ \A q \in Caller: q # h => Held(q)' = Held(q)
    BY <1>4, <2>2, <2>3 DEF Held
  <2>5. HandlerOK(h)'
    BY <1>3, <1>4, <1>5, <2>2, <2>3 DEF HandlerOK
  <2>6. JobsOK'
    BY <1>1, <1>2, <1>3, <1>5, <2>2, <2>3, <2>5, JobsStep
  <2>7. SettledOK'
    <3> SUFFICES ASSUME NEW id \in Id
                 PROVE  /\ settled'[id] = "deleted" => Gone(id)'
                        /\ settled'[id] = "added" => Kept(id)'
      BY DEF SettledOK
    <3>1. CASE id = c.id
      BY <2>2, <3>1 DEF Unsettle
    <3>2. CASE id # c.id
      <4>1. settled'[id] = settled[id]
        BY <2>2, <3>2 DEF Unsettle
      <4>2. \A q \in Caller: \A d \in Held(q)': d.id = id => d \in Held(q)
        BY <2>2, <2>4, <3>2
      <4>3. id \in Ids(Held(Main)) => id \in Ids(Held(Main))'
        BY <1>2, <2>4 DEF Ids
      <4>4. \A g \in Handler: pc'[g] = "saving" => pc[g] = "saving"
        BY <1>2, <2>3
      <4> QED
        BY <1>1, <1>3, <2>2, <4>1, <4>2, <4>3, <4>4, SettledStays
    <3> QED
      BY <3>1, <3>2
  <2> QED
    BY <2>6, <2>7
<1>7. ASSUME NEW i \in Id, Delete(h, i) PROVE JobsOK' /\ SettledOK'
  <2>1. /\ Unsettle({i}) /\ UNCHANGED <<upsert, todo>>
        /\ clusters' = [clusters EXCEPT ![i] = NoConfig]
        /\ pc' = [pc EXCEPT ![h] = "listing"]
    BY <1>7 DEF Delete, Arrives, Remove
  <2>2. pc'[h] = "listing" /\ \A q \in Caller: q # h => pc'[q] = pc[q]
    BY <1>1, <1>2, <2>1 DEF TypeOK
  <2>3. \A q \in Caller: Held(q)' = Held(q)
    BY <2>1 DEF Held
  <2>4. HandlerOK(h)'
    BY <1>3, <1>4, <1>5, <2>1, <2>2 DEF HandlerOK
  <2>5. JobsOK'
    BY <1>1, <1>2, <1>3, <1>4, <1>5, <2>1, <2>2, <2>3, <2>4, JobsStep
  <2>6. SettledOK'
    <3> SUFFICES ASSUME NEW id \in Id
                 PROVE  /\ settled'[id] = "deleted" => Gone(id)'
                        /\ settled'[id] = "added" => Kept(id)'
      BY DEF SettledOK
    <3>1. CASE id = i
      BY <2>1, <3>1 DEF Unsettle
    <3>2. CASE id # i
      <4>1. settled'[id] = settled[id] /\ clusters'[id] = clusters[id]
        BY <1>1, <2>1, <3>2 DEF Unsettle, PoolTypeOK
      <4>2. id \in Ids(Held(Main)) => id \in Ids(Held(Main))'
        BY <1>2, <2>3 DEF Ids
      <4>3. \A g \in Handler: pc'[g] = "saving" => pc[g] = "saving"
        BY <1>2, <2>2
      <4> QED
        BY <1>1, <1>3, <2>3, <4>1, <4>2, <4>3, SettledStays
    <3> QED
      BY <3>1, <3>2
  <2> QED
    BY <2>5, <2>6
<1> QED
  BY <1>6, <1>7

\* What a request lists has the clusters that were added and saved, and none that is gone.
LEMMA ListSaved ==
  ASSUME SavedInv, NEW h \in Handler, ListManual(h)
  PROVE  JobsOK' /\ SettledOK'
<1>1. RegistryInv /\ JobsOK /\ SettledOK /\ TypeOK /\ HandlerOK(h)
  BY DEF SavedInv, RegistryInv, JobsOK
<1>2. h \in Caller /\ Main \in Caller /\ Handler \subseteq Caller /\ h # Main
  BY CallerAssumption
<1>3. /\ pc[h] = "listing" /\ UNCHANGED <<clusters, upsert, phase, todo, file, settled>>
      /\ listed' = [listed EXCEPT ![h] = Manual] /\ pc' = [pc EXCEPT ![h] = "saving"]
  BY DEF ListManual, poolVars
<1>4. /\ listed'[h] = Manual /\ \A g \in Handler: g # h => listed'[g] = listed[g]
      /\ pc'[h] = "saving" /\ \A q \in Caller: q # h => pc'[q] = pc[q]
  BY <1>1, <1>2, <1>3 DEF TypeOK
<1>5. phase = "serving" /\ todo[h] = {} /\ upsert[h] = NoUpsert
  BY <1>1, <1>2, <1>3, HoldsNothing DEF HandlerOK
<1>6. Held(Main) = {} /\ Held(h) = {}
  BY <1>1, <1>2, <1>3, <1>5 DEF JobsOK
<1>7. \A q \in Caller: Held(q)' = Held(q)
  BY <1>3 DEF Held
<1>8. \A c \in Manual: IsManual(c)
  BY DEF Manual, IsManual
<1>9. HandlerOK(h)'
  BY <1>3, <1>4, <1>5, <1>8 DEF HandlerOK
<1>10. \A d \in file: IsManual(d)
  BY <1>1 DEF JobsOK
<1>11. JobsOK'
  BY <1>1, <1>2, <1>3, <1>4, <1>5, <1>6, <1>7, <1>9, <1>10, JobsStep
<1>12. SettledOK'
  <2> SUFFICES ASSUME NEW id \in Id
               PROVE  /\ settled'[id] = "deleted" => Gone(id)'
                      /\ settled'[id] = "added" => Kept(id)'
    BY DEF SettledOK
  <2>1. id \in Ids(Manual) <=> clusters[id] # NoConfig /\ IsManual(clusters[id])
    BY <1>1, Entries
  <2>2. ASSUME Gone(id) PROVE Gone(id)'
    <3>1. \A g \in Handler: id \notin Ids(listed'[g])
      BY <1>4, <2>1, <2>2 DEF Gone
    <3>2. \A q \in Caller: id \notin Ids(Held(q))'
      BY <1>7, <2>2 DEF Gone, Ids
    <3> QED
      BY <1>3, <2>2, <3>1, <3>2 DEF Gone, Ids
  <2>3. ASSUME Kept(id) PROVE Kept(id)'
    <3>1. id \notin Ids(Held(Main))
      BY <1>6 DEF Ids
    <3>2. clusters[id] # NoConfig /\ IsManual(clusters[id])
      BY <1>5, <2>3, <3>1 DEF Kept
    <3>3. \A g \in Handler: pc'[g] = "saving" => id \in Ids(listed'[g])
      BY <1>2, <1>4, <2>1, <2>3, <3>2 DEF Kept
    <3>4. \A q \in Caller: \A d \in Held(q)': d.id = id => IsManual(d)
      BY <1>7, <2>3 DEF Kept
    <3> QED
      BY <1>3, <2>3, <3>2, <3>3, <3>4 DEF Kept, Ids
  <2> QED
    BY <1>1, <1>3, <2>2, <2>3 DEF SettledOK
<1> QED
  BY <1>11, <1>12

\* A save puts what was listed into the file.  With nothing competing, the
\* request's own cluster is settled by it.
LEMMA SaveSaved ==
  ASSUME SavedInv, NEW h \in Handler, Save(h)
  PROVE  JobsOK' /\ SettledOK'
<1>1. RegistryInv /\ JobsOK /\ SettledOK /\ TypeOK /\ HandlerOK(h)
  BY DEF SavedInv, RegistryInv, JobsOK
<1>2. h \in Caller /\ Main \in Caller /\ Handler \subseteq Caller /\ h # Main
  BY CallerAssumption
<1>3. /\ pc[h] = "saving" /\ UNCHANGED <<clusters, upsert, phase, todo>>
      /\ listed' = [listed EXCEPT ![h] = {}] /\ pc' = [pc EXCEPT ![h] = "idle"]
  BY DEF Save, poolVars
<1>4. /\ listed'[h] = {} /\ \A g \in Handler: g # h => listed'[g] = listed[g]
      /\ pc'[h] = "idle" /\ \A q \in Caller: q # h => pc'[q] = pc[q]
  BY <1>1, <1>2, <1>3 DEF TypeOK
<1>5. phase = "serving" /\ todo[h] = {} /\ upsert[h] = NoUpsert /\ Held(h) = {}
  BY <1>1, <1>2, <1>3, HoldsNothing DEF HandlerOK
<1>6. Held(Main) = {}
  BY <1>1, <1>2, <1>5 DEF JobsOK
<1>7. \A q \in Caller: Held(q)' = Held(q)
  BY <1>3 DEF Held
<1>8. HandlerOK(h)'
  BY <1>3, <1>4, <1>5 DEF HandlerOK
<1>9. PICK W: W = Written(listed[h])
  OBVIOUS
<1>10. Ids(W) = Ids(listed[h]) /\ \A c \in W: IsManual(c)
  <2>1. \A c \in listed[h]: Stored(c).id = c.id /\ Stored(c).source = c.source
    BY <1>1 DEF TypeOK, Stored, Config
  <2>2. \A c \in listed[h]: IsManual(c)
    BY <1>1 DEF HandlerOK
  <2> QED
    BY <1>9, <2>1, <2>2 DEF Written, Ids, IsManual
<1>11. \A d \in file': IsManual(d)
  BY <1>1, <1>9, <1>10 DEF Save, JobsOK
<1>12. JobsOK'
  BY <1>1, <1>2, <1>3, <1>4, <1>5, <1>6, <1>7, <1>8, <1>11, JobsStep
<1>13. SettledOK'
  <2> SUFFICES ASSUME NEW id \in Id
               PROVE  /\ settled'[id] = "deleted" => Gone(id)'
                      /\ settled'[id] = "added" => Kept(id)'
    BY DEF SettledOK
  <2>1. ASSUME file' = file \/ Ids(file') = Ids(listed[h]), settled'[id] = settled[id]
        PROVE  /\ settled'[id] = "deleted" => Gone(id)'
               /\ settled'[id] = "added" => Kept(id)'
    <3>1. ASSUME Gone(id) PROVE Gone(id)'
      <4>1. id \notin Ids(file')
        BY <2>1, <3>1 DEF Gone
      <4>2. \A g \in Handler: id \notin Ids(listed'[g])
        BY <1>4, <3>1 DEF Gone, Ids
      <4>3. \A q \in Caller: id \notin Ids(Held(q))'
        BY <1>7, <3>1 DEF Gone, Ids
      <4> QED
        BY <1>3, <3>1, <4>1, <4>2, <4>3 DEF Gone, Ids
    <3>2. ASSUME Kept(id) PROVE Kept(id)'
      <4>1. id \in Ids(file')
        BY <1>3, <2>1, <3>2 DEF Kept
      <4>2. \A g \in Handler: pc'[g] = "saving" => id \in Ids(listed'[g])
        BY <1>2, <1>4, <3>2 DEF Kept
      <4>3. \A q \in Caller: \A d \in Held(q)': d.id = id => IsManual(d)
        BY <1>7, <3>2 DEF Kept
      <4>4. phase' # "down" => clusters'[id] # NoConfig
        BY <1>3, <1>5, <1>6, <3>2 DEF Kept, Ids
      <4> QED
        BY <1>3, <3>2, <4>1, <4>2, <4>3, <4>4 DEF Kept, Ids
    <3> QED
      BY <1>1, <2>1, <3>1, <3>2 DEF SettledOK
  <2>2. ASSUME Alone(h), about[h] = id, Ids(file') = Ids(listed[h])
        PROVE  /\ id \in Ids(listed[h]) => Kept(id)'
               /\ id \notin Ids(listed[h]) => Gone(id)'
    <3>1. /\ \A q \in Caller: id \notin Ids(Held(q))
          /\ \A g \in Handler: g # h => pc[g] # "saving" /\ listed[g] = {}
      <4>1. \A q \in Caller: q # h => id \notin Ids(Held(q))
        BY <2>2, BusyIsHeld DEF Alone
      <4>2. id \notin Ids(Held(h))
        BY <1>5 DEF Ids
      <4> QED
        BY <1>1, <2>2, <4>1, <4>2 DEF Alone, JobsOK, HandlerOK
    <3>2. \A q \in Caller: \A d \in Held(q)': d.id # id
      BY <1>7, <3>1 DEF Ids
    <3>3. \A g \in Handler: pc'[g] # "saving" /\ listed'[g] = {}
      BY <1>2, <1>4, <3>1
    <3>4. ASSUME id \in Ids(listed[h]) PROVE Kept(id)'
      <4>1. clusters[id] # NoConfig /\ IsManual(clusters[id])
        BY <1>1, <2>2, <3>4, Entries DEF Alone
      <4> QED
        BY <1>3, <2>2, <3>2, <3>3, <3>4, <4>1 DEF Kept, Ids
    <3>5. ASSUME id \notin Ids(listed[h]) PROVE Gone(id)'
      <4>1. clusters[id] = NoConfig
        BY <1>1, <2>2, <3>5, Entries DEF Alone
      <4> QED
        BY <1>3, <2>2, <3>2, <3>3, <3>5, <4>1 DEF Gone, Ids
    <3> QED
      BY <3>4, <3>5
  <2>3. CASE UNCHANGED <<file, settled>>
    BY <2>1, <2>3
  <2>4. CASE ~ UNCHANGED <<file, settled>>
    <3>1. /\ file' = W
          /\ settled' = IF ~Alone(h) THEN settled
                        ELSE [settled EXCEPT ![about[h]] =
                                IF @ = "no" /\ about[h] \in Ids(listed[h]) THEN "added"
                                ELSE IF @ = "no" THEN "deleted" ELSE @]
      BY <1>9, <2>4 DEF Save
    <3>2. Ids(file') = Ids(listed[h])
      BY <1>10, <3>1
    <3>3. CASE settled'[id] = settled[id]
      BY <2>1, <3>2, <3>3
    <3>4. CASE settled'[id] # settled[id]
      <4>1. Alone(h) /\ about[h] = id
        BY <1>1, <3>1, <3>4 DEF TypeOK
      <4>2. settled'[id] = IF id \in Ids(listed[h]) THEN "added" ELSE "deleted"
        BY <1>1, <3>1, <3>4, <4>1 DEF TypeOK
      <4> QED
        BY <2>2, <3>2, <4>1, <4>2
    <3> QED
      BY <3>3, <3>4
  <2> QED
    BY <2>3, <2>4
<1> QED
  BY <1>12, <1>13

\* Discovery unsettles what it finds; certificates change only for clusters that
\* are registered.
LEMMA TickSaved ==
  ASSUME SavedInv,
         (\E S \in Flattened: DiscoveryTick(S)) \/ (\E S \in SUBSET List: CertTick(S))
  PROVE  JobsOK' /\ SettledOK'
<1>1. RegistryInv /\ JobsOK /\ SettledOK /\ TypeOK
  BY DEF SavedInv, RegistryInv
<1>2. PICK p \in {Discovery, Certs}:
        \E S: /\ Ticks(p, S) /\ phase # "down"
              /\ \/ Unsettle(Ids(S))
                 \/ S \subseteq List /\ settled' = settled
  BY DEF DiscoveryTick, CertTick
<1>3. PICK S: /\ Ticks(p, S) /\ phase # "down"
              /\ \/ Unsettle(Ids(S))
                 \/ S \subseteq List /\ settled' = settled
  BY <1>2
<1>4. p \in Caller /\ p \notin Handler /\ p # Main /\ Main \in Caller /\ Handler \subseteq Caller
  BY CallerAssumption
<1>5. /\ pc[p] = "idle" /\ S # {} /\ Start(p, S)
      /\ UNCHANGED <<clusters, upsert, phase, listed, file>>
  BY <1>3 DEF Ticks, poolVars
<1>6. /\ pc'[p] = "upserting" /\ todo'[p] = S
      /\ \A q \in Caller: q # p => pc'[q] = pc[q] /\ todo'[q] = todo[q]
  BY <1>1, <1>4, <1>5 DEF TypeOK, Start
<1>7. upsert[p] = NoUpsert
  BY <1>1, <1>4, <1>5, HoldsNothing
<1>8. Held(p)' = S /\ \A q \in Caller: q # p => Held(q)' = Held(q)
  BY <1>5, <1>6, <1>7 DEF Held
<1>9. \A d \in file: IsManual(d)
  BY <1>1 DEF JobsOK
<1>10. JobsOK'
  BY <1>1, <1>3, <1>4, <1>5, <1>6, <1>9, JobsStep
<1>11. SettledOK'
  <2> SUFFICES ASSUME NEW id \in Id
               PROVE  /\ settled'[id] = "deleted" => Gone(id)'
                      /\ settled'[id] = "added" => Kept(id)'
    BY DEF SettledOK
  <2>1. id \in Ids(Held(Main)) => id \in Ids(Held(Main))'
    BY <1>4, <1>8 DEF Ids
  <2>2. \A g \in Handler: pc'[g] = "saving" => pc[g] = "saving"
    BY <1>4, <1>6
  <2>3. CASE id \notin Ids(S)
    <3>1. settled'[id] = settled[id]
      BY <1>3, <2>3 DEF Unsettle
    <3>2. \A q \in Caller: \A d \in Held(q)': d.id = id => d \in Held(q)
      BY <1>8, <2>3 DEF Ids
    <3> QED
      BY <1>1, <1>5, <2>1, <2>2, <3>1, <3>2, SettledStays
  <2>4. CASE id \in Ids(S) /\ Unsettle(Ids(S))
    BY <2>4 DEF Unsettle
  <2>5. CASE id \in Ids(S) /\ S \subseteq List /\ settled' = settled
    <3>1. \A d \in S: d.id = id => clusters[id] = d /\ clusters[id] # NoConfig
      BY <1>1, <2>5, Entries DEF List
    <3>2. clusters[id] # NoConfig
      BY <2>5, <3>1 DEF Ids
    <3>3. ASSUME Kept(id) PROVE Kept(id)'
      <4>1. IsManual(clusters[id])
        BY <3>2, <3>3 DEF Kept
      <4>2. \A q \in Caller: \A d \in Held(q)': d.id = id => IsManual(d)
        BY <1>8, <3>1, <3>3, <4>1 DEF Kept
      <4>3. \A g \in Handler: pc'[g] = "saving" => id \in Ids(listed'[g])
        BY <1>5, <2>2, <3>3 DEF Kept
      <4> QED
        BY <1>5, <3>2, <3>3, <4>1, <4>2, <4>3 DEF Kept, Ids
    <3>4. ~ Gone(id)
      BY <3>2 DEF Gone
    <3> QED
      BY <1>1, <2>5, <3>3, <3>4 DEF SettledOK
  <2> QED
    BY <1>3, <2>3, <2>4, <2>5
<1> QED
  BY <1>10, <1>11

\* A crash forgets the pool, not the file.
LEMMA CrashSaved == SavedInv /\ Crash => JobsOK' /\ SettledOK'
<1> SUFFICES ASSUME SavedInv, Crash PROVE JobsOK' /\ SettledOK'
  OBVIOUS
<1>1. JobsOK /\ SettledOK /\ Main \in Caller /\ Handler \subseteq Caller
  BY CallerAssumption DEF SavedInv
<1>2. /\ phase' = "down" /\ UNCHANGED <<file, settled>>
      /\ \A p \in Caller: pc'[p] = "idle" /\ todo'[p] = {} /\ upsert'[p] = NoUpsert
      /\ \A h \in Handler: listed'[h] = {}
      /\ \A id \in Id: clusters'[id] = NoConfig
  BY DEF Crash, PoolDies
<1>3. \A p \in Caller: Held(p)' = {}
  BY <1>2 DEF Held
<1>4. \A h \in Handler: HandlerOK(h)'
  BY <1>1, <1>2 DEF HandlerOK
<1>5. JobsOK'
  BY <1>1, <1>2, <1>3, <1>4 DEF JobsOK
<1>6. SettledOK'
  <2> SUFFICES ASSUME NEW id \in Id
               PROVE  /\ settled'[id] = "deleted" => Gone(id)'
                      /\ settled'[id] = "added" => Kept(id)'
    BY DEF SettledOK
  <2>1. Gone(id) => Gone(id)'
    BY <1>2, <1>3 DEF Gone, Ids
  <2>2. Kept(id) => Kept(id)'
    BY <1>1, <1>2, <1>3 DEF Kept, Ids
  <2> QED
    BY <1>1, <1>2, <2>1, <2>2 DEF SettledOK
<1> QED
  BY <1>5, <1>6

\* main takes up what the file holds, then what discovery finds.
LEMMA StartSaved ==
  ASSUME SavedInv, Rehydrate \/ \E S \in Flattened: Discover(S)
  PROVE  JobsOK' /\ SettledOK'
<1>1. RegistryInv /\ JobsOK /\ SettledOK /\ TypeOK
  BY DEF SavedInv, RegistryInv
<1>2. Main \in Caller /\ Handler \subseteq Caller /\ Main \notin Handler
  BY CallerAssumption
<1>3. PICK S: /\ Start(Main, S)
              /\ \/ phase = "down" /\ phase' = "rehydrating" /\ S = file /\ settled' = settled
                 \/ /\ phase = "rehydrating" /\ phase' = "discovering"
                    /\ Unsettle(Ids(S))
  BY DEF Rehydrate, Discover
<1>4. pc[Main] = "idle" /\ UNCHANGED <<clusters, upsert, listed, file>>
  BY <1>1, <1>2 DEF Rehydrate, Discover, poolVars, JobsOK
<1>5. /\ pc'[Main] = (IF S = {} THEN "idle" ELSE "upserting") /\ todo'[Main] = S
      /\ \A q \in Caller: q # Main => pc'[q] = pc[q] /\ todo'[q] = todo[q]
  BY <1>1, <1>2, <1>3 DEF TypeOK, Start
<1>6. upsert[Main] = NoUpsert /\ Held(Main) = {}
  BY <1>1, <1>2, <1>4, HoldsNothing
<1>7. Held(Main)' = S /\ \A q \in Caller: q # Main => Held(q)' = Held(q)
  BY <1>4, <1>5, <1>6 DEF Held
<1>8. \A h \in Handler: pc'[h] = pc[h] /\ pc[h] = "idle" /\ HandlerOK(h)'
  <2> SUFFICES ASSUME NEW h \in Handler
               PROVE  pc'[h] = pc[h] /\ pc[h] = "idle" /\ HandlerOK(h)'
    OBVIOUS
  <2>1. HandlerOK(h) /\ h \in Caller /\ h # Main
    BY <1>1, <1>2 DEF JobsOK
  <2>2. pc[h] = "idle"
    BY <1>3, <2>1 DEF HandlerOK
  <2> QED
    BY <1>4, <1>5, <2>1, <2>2 DEF HandlerOK
<1>9. JobsOK'
  <2>1. \A q \in Caller: pc'[q] # "upserting" => Held(q)' = {}
    BY <1>1, <1>5, <1>7 DEF JobsOK
  <2> QED
    BY <1>1, <1>3, <1>4, <1>8, <2>1 DEF JobsOK
<1>10. SettledOK'
  <2> SUFFICES ASSUME NEW id \in Id
               PROVE  /\ settled'[id] = "deleted" => Gone(id)'
                      /\ settled'[id] = "added" => Kept(id)'
    BY DEF SettledOK
  <2>1. CASE phase = "down" /\ phase' = "rehydrating" /\ S = file /\ settled' = settled
    <3>1. ASSUME Gone(id) PROVE Gone(id)'
      <4>1. \A q \in Caller: id \notin Ids(Held(q))'
        BY <1>7, <2>1, <3>1 DEF Gone, Ids
      <4> QED
        BY <1>4, <3>1, <4>1 DEF Gone, Ids
    <3>2. ASSUME Kept(id) PROVE Kept(id)'
      <4>1. \A d \in S: IsManual(d)
        BY <1>1, <2>1 DEF JobsOK
      <4>2. \A q \in Caller: \A d \in Held(q)': d.id = id => IsManual(d)
        BY <1>7, <3>2, <4>1 DEF Kept
      <4>3. id \in Ids(file)' /\ id \in Ids(Held(Main))'
        BY <1>4, <1>7, <2>1, <3>2 DEF Kept, Ids
      <4>4. \A h \in Handler: pc'[h] # "saving"
        BY <1>8
      <4> QED
        BY <1>4, <3>2, <4>2, <4>3, <4>4 DEF Kept
    <3> QED
      BY <1>1, <2>1, <3>1, <3>2 DEF SettledOK
  <2>2. CASE /\ phase = "rehydrating" /\ phase' = "discovering"
             /\ Unsettle(Ids(S)) /\ id \in Ids(S)
    BY <2>2 DEF Unsettle
  <2>3. CASE /\ phase = "rehydrating" /\ phase' = "discovering"
             /\ Unsettle(Ids(S)) /\ id \notin Ids(S)
    <3>1. settled'[id] = settled[id]
      BY <2>3 DEF Unsettle
    <3>2. \A q \in Caller: \A d \in Held(q)': d.id = id => d \in Held(q)
      BY <1>7, <2>3 DEF Ids
    <3>3. id \notin Ids(Held(Main))
      BY <1>6 DEF Ids
    <3> QED
      BY <1>1, <1>4, <1>8, <2>3, <3>1, <3>2, <3>3, SettledStays
  <2> QED
    BY <1>3, <2>1, <2>2, <2>3
<1> QED
  BY <1>9, <1>10

\* main listens once what it had to register is registered or has failed.
LEMMA ServeSaved == SavedInv /\ (Serve \/ UNCHANGED vars) => JobsOK' /\ SettledOK'
<1> SUFFICES ASSUME SavedInv, Serve \/ UNCHANGED vars PROVE JobsOK' /\ SettledOK'
  OBVIOUS
<1>1. JobsOK /\ SettledOK /\ Main \in Caller /\ Handler \subseteq Caller
  BY CallerAssumption DEF SavedInv
<1>2. /\ UNCHANGED <<clusters, upsert, pc, todo, listed, file, settled>>
      /\ phase' = phase \/ (phase = "discovering" /\ phase' = "serving" /\ pc[Main] = "idle")
  BY DEF Serve, vars, poolVars, jobVars
<1>3. \A p \in Caller: Held(p)' = Held(p)
  BY <1>2 DEF Held
<1>4. \A h \in Handler: HandlerOK(h)'
  <2> SUFFICES ASSUME NEW h \in Handler PROVE HandlerOK(h)'
    OBVIOUS
  <2>1. HandlerOK(h)
    BY <1>1 DEF JobsOK
  <2> QED
    BY <1>2, <2>1 DEF HandlerOK
<1>5. JobsOK'
  BY <1>1, <1>2, <1>3, <1>4 DEF JobsOK
<1>6. SettledOK'
  <2> SUFFICES ASSUME NEW id \in Id
               PROVE  /\ settled'[id] = "deleted" => Gone(id)'
                      /\ settled'[id] = "added" => Kept(id)'
    BY DEF SettledOK
  <2>1. id \in Ids(Held(Main)) => id \in Ids(Held(Main))'
    BY <1>1, <1>3 DEF Ids
  <2> QED
    BY <1>1, <1>2, <1>3, <2>1, SettledStays
<1> QED
  BY <1>5, <1>6

\* Every step keeps it.
LEMMA SavedNext == SavedInv /\ [Next]_vars => SavedInv'
<1> SUFFICES ASSUME SavedInv, [Next]_vars PROVE SavedInv'
  OBVIOUS
<1>1. RegistryInv'
  BY NextOK DEF SavedInv
<1>2. ASSUME NEW p \in Caller, DialNext(p) \/ DialFails(p) \/ RegisterNext(p)
      PROVE  JobsOK' /\ SettledOK'
  BY <1>2, DialSaved, FailSaved, RegisterSaved
<1>3. ASSUME NEW h \in Handler,
             \/ \E c \in Posted: Post(h, c)
             \/ \E id \in Id: Delete(h, id)
             \/ ListManual(h)
             \/ Save(h)
      PROVE  JobsOK' /\ SettledOK'
  BY <1>3, ArrivalSaved, ListSaved, SaveSaved
<1>4. ASSUME \/ \E S \in Flattened: DiscoveryTick(S)
             \/ \E S \in SUBSET List: CertTick(S)
      PROVE  JobsOK' /\ SettledOK'
  BY <1>4, TickSaved
<1>5. ASSUME Crash \/ Rehydrate \/ (\E S \in Flattened: Discover(S)) \/ Serve \/ UNCHANGED vars
      PROVE  JobsOK' /\ SettledOK'
  BY <1>5, CrashSaved, StartSaved, ServeSaved
<1>6. JobsOK' /\ SettledOK'
  BY <1>2, <1>3, <1>4, <1>5 DEF Next
<1> QED
  BY <1>1, <1>6 DEF SavedInv

\* A deletion or an addition that was saved with nothing competing lasts, through
\* scans, other requests' saves, crashes and restarts, until something else is
\* about that cluster: for any number of requests at work, clusters and clients.
THEOREM SavedChangesStay == Spec => []SavedChangesLast
<1>1. Init => SavedInv
  BY InitOK, SavedInit DEF SavedInv
<1> QED
  BY <1>1, SavedNext, SavedInvHolds, PTL DEF Spec
============================================================================
