----------------------------- MODULE RolesPage -----------------------------
(***************************************************************************)
(* The Users & Roles page (web/src/pages/RBAC.tsx): three queries, eight   *)
(* mutations, each of which has one query read again, and the handlers of  *)
(* the ops service they go to (cmd/ops/rbac.go).  Only the page changes    *)
(* the cluster here.                                                       *)
(***************************************************************************)
EXTENDS Integers, FiniteSets

CONSTANTS
  RbUser, RbRole, \* names; a role has the one permission there is, or has not
  Root,           \* the user without whom etcd does not enable authentication
  MaxChanges      \* bound: mutations

ASSUME RolesAssumption == MaxChanges \in Nat /\ Root \in RbUser

VARIABLES
  rbEtcd,  \* auth, users, roles, grants (of roles to users), perms (roles that have it)
  rbShown, \* the data of the queries, a view of the same kind
  rbFetch, \* each query: whether it is fetched, and what has been read
  rbCalls, \* mutations under way
  rbCount, \* how many there were
  rbForm,  \* newUser.name, newRole and newPerm.role
  rbKnown, \* history variables: names whose own call told what is shown of them,
  rbGone,  \* roles deleted since the users shown, or being read, were listed,
  rbDoubt  \* and queries whose last change or read was cut short

rbPast == <<rbKnown, rbGone, rbDoubt>>
rbVars == <<rbEtcd, rbShown, rbFetch, rbCalls, rbCount, rbForm, rbPast>>

RolesQuery == {"status", "users", "roles"}
RolesState == [auth: BOOLEAN, users: SUBSET RbUser, roles: SUBSET RbRole,
               grants: SUBSET (RbUser \X RbRole), perms: SUBSET RbRole]
NewCluster == [auth |-> FALSE, users |-> {Root}, roles |-> {}, grants |-> {}, perms |-> {}]
FullCluster == [NewCluster EXCEPT !.roles = RbRole, !.perms = RbRole, !.grants = {Root} \X RbRole]
\* A reading: what it has got, the names still to be asked for, and those told of.
NoRead == [at |-> "none", data |-> NewCluster, left |-> {}, known |-> {}]
RbName == RbUser \cup RbRole
RolesReading == [at: {"none", "sent", "listed"}, data: RolesState,
                 left: SUBSET RbName, known: SUBSET RbName]
RolesCall == [id: 1..MaxChanges, user: RbUser, role: RbRole, at: {"sent", "ok", "error"},
              op: {"enable", "disable", "addUser", "delUser", "grantRole", "addRole",
                   "delRole", "grantPerm"}]

RolesTypeOK ==
  /\ rbEtcd \in RolesState /\ rbShown \in RolesState
  /\ rbFetch \in [RolesQuery -> RolesReading]
  /\ rbCalls \subseteq RolesCall /\ rbCount \in 0..MaxChanges
  /\ rbForm \in [user: RbUser \cup {""}, role: RbRole \cup {""}, perm: RbRole \cup {""}]
  /\ rbKnown \in [RolesQuery -> SUBSET RbName]
  /\ rbGone \in [shown: SUBSET RbRole, read: SUBSET RbRole] /\ rbDoubt \subseteq RolesQuery

\* The page when its first load has settled, of a cluster without roles or with some.
RolesInit ==
  /\ rbEtcd \in {NewCluster, FullCluster} /\ rbShown = rbEtcd
  /\ rbFetch = [q \in RolesQuery |-> NoRead]
  /\ rbCalls = {} /\ rbCount = 0 /\ rbDoubt = {}
  /\ rbKnown = [q \in RolesQuery |-> IF q = "status" THEN {} ELSE rbEtcd[q]] /\ rbGone = [shown |-> {}, read |-> {}]
  /\ rbForm = [user |-> "", role |-> "", perm |-> ""]

----------------------------------------------------------------------------
(***************************************************************************)
(* The panels.                                                             *)
(***************************************************************************)
\* With authentication off and nothing in it, the page is a panel with a button.
DisabledPanel == ~rbShown.auth /\ rbShown.users = {} /\ rbShown.roles = {}

Pending(op) == \E c \in rbCalls: c.op = op
Mutate(op, u, r) ==
  /\ rbCount < MaxChanges /\ rbCount' = rbCount + 1
  /\ rbCalls' = rbCalls \cup
       {[id |-> rbCount + 1, op |-> op, user |-> u, role |-> r, at |-> "sent"]}
  /\ UNCHANGED <<rbEtcd, rbShown, rbFetch, rbPast>>

ToggleAuth(u, r) ==
  /\ \/ rbShown.auth /\ Mutate("disable", u, r)
     \/ ~rbShown.auth /\ ~(DisabledPanel /\ Pending("enable")) /\ Mutate("enable", u, r)
  /\ UNCHANGED rbForm

\* The rows of the users, with the roles a user has not yet.
DeleteUser(u, r) == u \in rbShown.users /\ Mutate("delUser", u, r) /\ UNCHANGED rbForm
GrantRole(u, r) ==
  /\ u \in rbShown.users /\ r \in rbShown.roles /\ <<u, r>> \notin rbShown.grants
  /\ Mutate("grantRole", u, r) /\ UNCHANGED rbForm
DeleteRole(u, r) == r \in rbShown.roles /\ Mutate("delRole", u, r) /\ UNCHANGED rbForm

\* The forms: that of a user keeps its text, that of a role does not.
FillForm(form) ==
  /\ ~DisabledPanel /\ rbForm' = form /\ form # rbForm
  /\ UNCHANGED <<rbEtcd, rbShown, rbFetch, rbCalls, rbCount, rbPast>>
TypeUser(u) == FillForm([rbForm EXCEPT !.user = u])
TypeRole(r) == FillForm([rbForm EXCEPT !.role = r])
PickRole(r) == r \in rbShown.roles /\ FillForm([rbForm EXCEPT !.perm = r])

AddUser(r) ==
  /\ ~DisabledPanel /\ rbForm.user # "" /\ ~Pending("addUser")
  /\ Mutate("addUser", rbForm.user, r) /\ UNCHANGED rbForm
AddRole(u) ==
  /\ ~DisabledPanel /\ rbForm.role # "" /\ ~Pending("addRole")
  /\ Mutate("addRole", u, rbForm.role) /\ rbForm' = [rbForm EXCEPT !.role = ""]
GrantPermission(u) ==
  /\ ~DisabledPanel /\ rbForm.perm # "" /\ ~Pending("grantPerm")
  /\ Mutate("grantPerm", u, rbForm.perm) /\ UNCHANGED rbForm

----------------------------------------------------------------------------
(***************************************************************************)
(* Calls.                                                                  *)
(***************************************************************************)
Allowed(c) ==
  CASE c.op = "enable"    -> Root \in rbEtcd.users
    [] c.op = "addUser"   -> c.user \notin rbEtcd.users
    [] c.op = "delUser"   -> c.user \in rbEtcd.users /\ ~(c.user = Root /\ rbEtcd.auth)
    [] c.op = "grantRole" -> c.user \in rbEtcd.users /\ c.role \in rbEtcd.roles
    [] c.op = "addRole"   -> c.role \notin rbEtcd.roles
    [] c.op \in {"delRole", "grantPerm"} -> c.role \in rbEtcd.roles
    [] OTHER -> TRUE

\* What etcd makes of a call: a deleted user or role takes its grants with it.
Changed(c) ==
  CASE c.op = "enable"    -> [rbEtcd EXCEPT !.auth = TRUE]
    [] c.op = "disable"   -> [rbEtcd EXCEPT !.auth = FALSE]
    [] c.op = "addUser"   -> [rbEtcd EXCEPT !.users = @ \cup {c.user}]
    [] c.op = "delUser"   -> [rbEtcd EXCEPT !.users = @ \ {c.user},
                                            !.grants = {g \in @ : g[1] # c.user}]
    [] c.op = "grantRole" -> [rbEtcd EXCEPT !.grants = @ \cup {<<c.user, c.role>>}]
    [] c.op = "addRole"   -> [rbEtcd EXCEPT !.roles = @ \cup {c.role}]
    [] c.op = "delRole"   -> [rbEtcd EXCEPT !.roles = @ \ {c.role},
                                            !.perms = @ \ {c.role},
                                            !.grants = {g \in @ : g[2] # c.role}]
    [] c.op = "grantPerm" -> [rbEtcd EXCEPT !.perms = @ \cup {c.role}]

\* The query each mutation invalidates.
Invalidates(c) ==
  CASE c.op \in {"enable", "disable"} -> "status"
    [] c.op \in {"addUser", "delUser", "grantRole"} -> "users"
    [] OTHER -> "roles"

Deleted(c) == IF c.op = "delRole" THEN {c.role} ELSE {}

\* A handler: one call to etcd, which fails, or is done though the answer is lost.
Handled(c) ==
  LET answered(at) == rbCalls' = (rbCalls \ {c}) \cup {[c EXCEPT !.at = at]} IN
  /\ c.at = "sent"
  /\ \/ /\ Allowed(c) /\ rbEtcd' = Changed(c)
        /\ rbGone' = [shown |-> rbGone.shown \cup Deleted(c), read |-> rbGone.read \cup Deleted(c)]
        /\ \/ answered("ok") /\ UNCHANGED rbDoubt
           \/ answered("error") /\ rbDoubt' = rbDoubt \cup {Invalidates(c)}
     \/ answered("error") /\ UNCHANGED <<rbEtcd, rbGone, rbDoubt>>
  /\ UNCHANGED <<rbShown, rbFetch, rbCount, rbForm, rbKnown>>

\* Mutant: a query that is being read is not read from the start.
AnswersOnce(c) ==
  /\ c.at \in {"ok", "error"} /\ rbCalls' = rbCalls \ {c}
  /\ rbFetch' = IF c.at = "error" \/ rbFetch[Invalidates(c)].at # "none" THEN rbFetch
                ELSE [rbFetch EXCEPT ![Invalidates(c)] = [NoRead EXCEPT !.at = "sent"]]
  /\ UNCHANGED <<rbEtcd, rbShown, rbCount, rbForm, rbPast>>

\* onSuccess: that query is read again, from the start if it is being read.
Answers(c) ==
  /\ c.at \in {"ok", "error"} /\ rbCalls' = rbCalls \ {c}
  /\ rbFetch' = IF c.at = "error" THEN rbFetch
                ELSE [rbFetch EXCEPT ![Invalidates(c)] = [NoRead EXCEPT !.at = "sent"]]
  /\ UNCHANGED <<rbEtcd, rbShown, rbCount, rbForm, rbPast>>

\* The handlers that list get the names by one call...
Lists(q) ==
  LET names == CASE q = "users" -> rbEtcd.users
                 [] q = "roles" -> rbEtcd.roles
                 [] OTHER -> {}
  IN
  /\ rbFetch[q].at = "sent"
  /\ rbFetch' = [rbFetch EXCEPT ![q] =
       [at |-> "listed", data |-> [rbEtcd EXCEPT !.grants = {}, !.perms = {}],
        left |-> names, known |-> {}]]
  /\ rbGone' = IF q = "users" THEN [rbGone EXCEPT !.read = {}] ELSE rbGone
  /\ rbDoubt' = rbDoubt \ {q}
  /\ UNCHANGED <<rbEtcd, rbShown, rbCalls, rbCount, rbForm, rbKnown>>

\* ... and what each has by one more, without which the name alone is listed.
Got(data, n, q) ==
  IF q = "users"
  THEN [data EXCEPT !.grants = @ \cup {g \in rbEtcd.grants : g[1] = n}]
  ELSE [data EXCEPT !.perms = @ \cup (rbEtcd.perms \cap {n})]
Gets(q, n) ==
  LET f == rbFetch[q] IN
  /\ n \in f.left
  /\ \/ /\ n \in rbEtcd[q]
        /\ rbFetch' = [rbFetch EXCEPT ![q] =
             [f EXCEPT !.data = Got(f.data, n, q), !.left = @ \ {n}, !.known = @ \cup {n}]]
     \/ rbFetch' = [rbFetch EXCEPT ![q] = [f EXCEPT !.left = @ \ {n}]]
  /\ UNCHANGED <<rbEtcd, rbShown, rbCalls, rbCount, rbForm, rbPast>>

\* The answer is shown, or the query fails and shows what it did before.
Delivered(q) ==
  LET f == rbFetch[q] IN
  /\ f.at # "none" /\ rbFetch' = [rbFetch EXCEPT ![q] = NoRead]
  /\ \/ /\ f.at = "listed" /\ f.left = {} /\ UNCHANGED rbDoubt
        /\ rbShown' = CASE q = "status" -> [rbShown EXCEPT !.auth = f.data.auth]
                        [] q = "users" -> [rbShown EXCEPT !.users = f.data.users,
                                                          !.grants = f.data.grants]
                        [] q = "roles" -> [rbShown EXCEPT !.roles = f.data.roles,
                                                          !.perms = f.data.perms]
        /\ rbKnown' = [rbKnown EXCEPT ![q] = f.known]
        /\ rbGone' = IF q = "users" THEN [rbGone EXCEPT !.shown = rbGone.read] ELSE rbGone
     \/ UNCHANGED <<rbShown, rbKnown, rbGone>> /\ rbDoubt' = rbDoubt \cup {q}
  /\ UNCHANGED <<rbEtcd, rbCalls, rbCount, rbForm>>

RolesNext ==
  \/ \E u \in RbUser, r \in RbRole:
       ToggleAuth(u, r) \/ DeleteUser(u, r) \/ GrantRole(u, r) \/ DeleteRole(u, r)
  \/ \E u \in RbUser: TypeUser(u) \/ AddRole(u) \/ GrantPermission(u)
  \/ \E r \in RbRole: TypeRole(r) \/ PickRole(r) \/ AddUser(r)
  \/ \E c \in rbCalls: Handled(c) \/ Answers(c)
  \/ \E q \in RolesQuery:
       Lists(q) \/ Delivered(q) \/ \E n \in rbFetch[q].left: Gets(q, n)

----------------------------------------------------------------------------
\* What a query tells: of the users and roles there are, those in known have the
\* roles and permissions they are told to have, but for roles that are gone, and
\* the others are told to have none.
Tells(q, told, is, known, gone) ==
  CASE q = "status" -> told.auth = is.auth
    [] q = "users" ->
         /\ told.users = is.users
         /\ \A u \in RbUser, r \in RbRole:
              /\ <<u, r>> \in told.grants => u \in known /\ (<<u, r>> \in is.grants \/ r \in gone)
              /\ <<u, r>> \in is.grants /\ u \in known => <<u, r>> \in told.grants
    [] q = "roles" -> told.roles = is.roles /\ told.perms = is.perms \cap known

\* When nothing is under way, the page shows the users, the roles and what they
\* may as they are, unless a change or a reading was cut short.  Without roles or
\* permissions it shows those whose own call failed, as if they had none; and with
\* roles that they have no more it shows users if those roles were deleted, or
\* deleted and made again, since the users were listed: the mutation that
\* deletes a role has the roles read again, and not the users.
RolesShowWhatIs ==
  rbCalls = {} /\ (\A q \in RolesQuery: rbFetch[q].at = "none") =>
    \A q \in RolesQuery \ rbDoubt: Tells(q, rbShown, rbEtcd, rbKnown[q], rbGone.shown)
============================================================================
