---------------------------- MODULE AccessViews ----------------------------
(***************************************************************************)
(* What the console shows of access rules: the rule editor, the matrix and *)
(* the diff of the Permissions page (web/src/pages/Permissions.tsx), and   *)
(* the policy of a peer on the Federation page (Federation.tsx), next to   *)
(* what the gateway makes of them (internal/httpx/acl.go).                 *)
(***************************************************************************)
EXTENDS Integers, Sequences, SequencesExt, FiniteSetsExt

CONSTANTS
  AvUser,    \* users of rules
  PeerOf,    \* the peer each principal belongs to, or "" for local users
  AvCluster, \* the registry's clusters
  AvKey,     \* keys that requests name, "" if none
  AvPrefix,  \* prefixes of rules
  LengthOf,  \* the length of each prefix...
  StartWith, \* ... and the keys that start with it
  AvAccess,  \* access levels tried: 1 is read, 2 write and 3 admin
  MaxRules,  \* bound: rules in the editor
  MaxRuleEdits \* bound: edits of them from one save to the next

NoPrefix == "" \* the whole keyspace

ASSUME AccessViewsAssumption ==
  /\ PeerOf \in [AvUser -> STRING]
  /\ {NoPrefix, "/"} \subseteq AvPrefix /\ AvPrefix \subseteq AvKey
  /\ LengthOf \in [AvPrefix -> Nat] /\ StartWith \in [AvPrefix -> SUBSET AvKey]
  /\ StartWith[NoPrefix] = AvKey
  /\ \A p, q \in AvPrefix:
       /\ p \in StartWith[p]
       /\ p \in StartWith[q] => p = q \/ LengthOf[q] < LengthOf[p]
  /\ 1 \in AvAccess /\ AvAccess \subseteq 1..3
  /\ MaxRules \in Nat /\ MaxRuleEdits \in Nat

VARIABLES
  avBefore,  \* the rules in force
  avEditing, avDraft, \* is the editor open, and the rules in it
  avEdits,   \* how often they were edited
  avPeerOnly, avPeerFocus \* the filter of the matrix

avEditVars == <<avEditing, avDraft, avEdits>>
avVars == <<avBefore, avEditVars, avPeerOnly, avPeerFocus>>

EveryCluster == "*"
Nobody == 0 \* no access
Rule == [user: AvUser, cluster: AvCluster \cup {EveryCluster}, prefix: AvPrefix, access: AvAccess]
Peer == {PeerOf[u] : u \in AvUser} \ {""}

AccessViewsTypeOK ==
  /\ {avBefore, avDraft} \subseteq Seq(Rule)
  /\ avEditing \in BOOLEAN /\ avEdits \in 0..MaxRuleEdits
  /\ avPeerOnly \in BOOLEAN /\ avPeerFocus \in Peer \cup {""}

\* The page is opened, also by a link from the Federation page, which names a peer;
\* some rules are in force.
AccessViewsInit ==
  /\ avBefore \in {<<r>> : r \in Rule} \cup {<<>>}
  /\ avEditing = FALSE /\ avDraft = <<>> /\ avEdits = 0
  /\ avPeerFocus \in Peer \cup {""} /\ avPeerOnly = (avPeerFocus # "")

----------------------------------------------------------------------------
(***************************************************************************)
(* The rule editor, which is there if some rules are in force, and the     *)
(* save that makes its rules those.                                        *)
(***************************************************************************)
EditorIs(editing, rules, edits) ==
  /\ avEditing' = editing /\ avDraft' = rules /\ avEdits' = edits
  /\ UNCHANGED <<avPeerOnly, avPeerFocus>>

StartEditing == ~avEditing /\ EditorIs(TRUE, avBefore, 0) /\ UNCHANGED avBefore
StopEditing == avEditing /\ EditorIs(FALSE, <<>>, 0) /\ UNCHANGED avBefore

Drafts(rules) ==
  /\ avEditing /\ avBefore # <<>> /\ avEdits < MaxRuleEdits
  /\ EditorIs(TRUE, rules, avEdits + 1)
  /\ UNCHANGED avBefore

\* One field of a rule is changed.
UpdateRule(i, rule) ==
  /\ \E f \in DOMAIN rule: rule = [avDraft[i] EXCEPT ![f] = rule[f]] /\ rule # avDraft[i]
  /\ Drafts([avDraft EXCEPT ![i] = rule])
RemoveRule(i) == Drafts(RemoveAt(avDraft, i))
\* A rule is added, for a cluster, or for any if no cluster is loaded; its user,
\* empty at first, is typed in the same step.
AddRule(u, c) ==
  /\ Len(avDraft) < MaxRules
  /\ Drafts(Append(avDraft, [user |-> u, cluster |-> c, prefix |-> NoPrefix, access |-> 1]))
SavedRules ==
  /\ avEditing /\ avBefore' = avDraft
  /\ EditorIs(FALSE, <<>>, 0)

\* The filter bar, there if a rule in force is about a peer: the toggle clears
\* the focus when it goes off.
PeerCount == Cardinality({i \in DOMAIN avBefore : PeerOf[avBefore[i].user] # ""})
FilterBar == ~avEditing /\ PeerCount > 0
TogglePeerOnly ==
  /\ FilterBar
  /\ avPeerOnly' = ~avPeerOnly
  /\ avPeerFocus' = IF avPeerOnly THEN "" ELSE avPeerFocus
  /\ UNCHANGED <<avBefore, avEditVars>>
ClearFocus ==
  /\ FilterBar /\ avPeerFocus # "" /\ avPeerFocus' = ""
  /\ UNCHANGED <<avBefore, avEditVars, avPeerOnly>>

AccessViewsNext ==
  \/ \E i \in DOMAIN avDraft: RemoveRule(i) \/ \E rule \in Rule: UpdateRule(i, rule)
  \/ \E u \in AvUser:
       \E c \in AvCluster \cup {EveryCluster}: AddRule(u, c)
  \/ StartEditing \/ StopEditing \/ SavedRules \/ TogglePeerOnly \/ ClearFocus

----------------------------------------------------------------------------
(***************************************************************************)
(* The views, and Resolve.                                                 *)
(***************************************************************************)
FilteredRules ==
  {r \in ToSet(avBefore) :
     \/ ~avPeerOnly /\ avPeerFocus = ""
     \/ PeerOf[r.user] # "" /\ avPeerFocus \in {"", PeerOf[r.user]}}

\* computeMatrix: the rules of a user for a cluster make one cell.
CellRules(rules, u, c) == {r \in rules : r.user = u /\ r.cluster = c}

\* Mutant: the rules for any cluster go first.
AnyFirst(rules, u, c) ==
  LET own == CellRules(rules, u, c)
      any == CellRules(rules, u, EveryCluster)
  IN IF any # {} THEN any ELSE own

\* The cell shown for a cluster: that of its own rules, or of those for any.
ShownRules(rules, u, c) ==
  LET own == CellRules(rules, u, c)
      any == CellRules(rules, u, EveryCluster)
  IN IF own # {} THEN own ELSE any
ShownAccess(rules, u, c) == Max({r.access : r \in ShownRules(rules, u, c)})

\* What a rule is about; "" and "/" are the whole keyspace.
RuleKey(r) == [user |-> r.user, cluster |-> r.cluster, prefix |-> r.prefix]
Scope(prefix) == IF prefix = "/" THEN NoPrefix ELSE prefix

\* Resolve: the first of the rules with the highest score.
Applies(r, u, c, key) ==
  /\ r.user = u /\ r.cluster \in {c, EveryCluster}
  /\ Scope(r.prefix) # NoPrefix => key \in StartWith[r.prefix]
Score(r, c) == (IF r.cluster = c THEN 100 ELSE 10)
                 + (IF Scope(r.prefix) = NoPrefix THEN 0 ELSE LengthOf[r.prefix])
Top(rules, u, c, key) ==
  LET applying == {i \in DOMAIN rules : Applies(rules[i], u, c, key)} IN
  {i \in applying : \A j \in applying : Score(rules[j], c) <= Score(rules[i], c)}
Resolve(rules, u, c, key) ==
  LET top == Top(rules, u, c, key) IN IF top = {} THEN Nobody ELSE rules[Min(top)].access

\* DiffView: rules are told apart by all but their access; of equal ones, the
\* last counts.
ByKey(rules) ==
  [k \in {RuleKey(rules[i]) : i \in DOMAIN rules} |->
     rules[Max({i \in DOMAIN rules : RuleKey(rules[i]) = k})].access]
Diff(before, after) ==
  LET b == ByKey(before)
      a == ByKey(after)
  IN [added   |-> [k \in DOMAIN a \ DOMAIN b |-> a[k]],
      changed |-> [k \in {j \in DOMAIN a \cap DOMAIN b : a[j] # b[j]} |-> a[k]],
      removed |-> DOMAIN b \ DOMAIN a]

\* A rule that makes a later one useless, and different accesses of rules with the
\* same score, of which the first counts: no view tells of either.
Precedes(r, s) ==
  /\ r.user = s.user /\ r.cluster = s.cluster /\ Scope(r.prefix) = Scope(s.prefix)
  /\ r.access # s.access
Torn(rules, u, c, key) ==
  \E i, j \in Top(rules, u, c, key): rules[i].access # rules[j].access

\* The Federation page: the rules of a peer, and the line about them.
PeerRules(rules, p) == {r \in ToSet(rules) : PeerOf[r.user] = p}
PolicyOf(rules, p) ==
  IF rules = <<>> THEN "full access"
  ELSE IF PeerRules(rules, p) = {} THEN "denied" ELSE "rules"

----------------------------------------------------------------------------
\* Of a user in the matrix, a cell that shows nothing is one where no key may be
\* used.  The access another cell shows is given for some key of the cluster, unless
\* it is that of a rule before which one stands with the same scope.  And for no key
\* is more given than that cell shows, or the cell for any cluster.
CellsAreGranted ==
  \A u \in {r.user : r \in FilteredRules}, c \in AvCluster \cup {EveryCluster}:
    LET shown == ShownRules(FilteredRules, u, c)
        access == ShownAccess(FilteredRules, u, c)
    IN /\ shown = {} <=> \A key \in AvKey: Resolve(avBefore, u, c, key) = Nobody
       /\ \/ shown = {}
          \/ \E key \in AvKey: Resolve(avBefore, u, c, key) = access
          \/ \E i, j \in DOMAIN avBefore: i < j /\ Precedes(avBefore[i], avBefore[j])
                                       /\ avBefore[j] \in shown /\ avBefore[j].access = access
       /\ \A key \in AvKey:
            \/ Resolve(avBefore, u, c, key) = Nobody
            \/ \E d \in {c, EveryCluster}:
                 /\ ShownRules(FilteredRules, u, d) # {}
                 /\ Resolve(avBefore, u, c, key) <= ShownAccess(FilteredRules, u, d)

\* Applied to the rules in force, the diff gives those of the editor.
DiffAccounts ==
  LET d == Diff(avBefore, avDraft)
      b == ByKey(avBefore)
      kept == DOMAIN b \ d.removed
  IN ByKey(avDraft) =
       [k \in kept \cup DOMAIN d.added |->
          IF k \in DOMAIN d.added THEN d.added[k]
          ELSE IF k \in DOMAIN d.changed THEN d.changed[k] ELSE b[k]]

\* Whoever gains or loses access to a key by the rules of the editor finds, among
\* those the diff lists, one that applies to that key.
EditsAreTold ==
  LET d == Diff(avBefore, avDraft)
      told == DOMAIN d.added \cup DOMAIN d.changed \cup d.removed
  IN \A u \in AvUser, c \in AvCluster, key \in AvKey:
       \/ Resolve(avBefore, u, c, key) = Resolve(avDraft, u, c, key)
       \/ \E k \in told: Applies(k, u, c, key)
       \/ Torn(avBefore, u, c, key) \/ Torn(avDraft, u, c, key)

\* "no rules -- peer is denied by default" (Federation.tsx).
DeniedIsDenied ==
  \A u \in AvUser, c \in AvCluster, key \in AvKey:
    PeerOf[u] # "" /\ PolicyOf(avBefore, PeerOf[u]) = "denied"
      => Resolve(avBefore, u, c, key) = Nobody

\* What the pages show of the rules is what the gateway makes of them.
ViewsTellTheRules ==
  IF avEditing THEN DiffAccounts /\ EditsAreTold ELSE CellsAreGranted /\ DeniedIsDenied
============================================================================
