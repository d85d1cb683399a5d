-------------------------- MODULE AuditStoreProofs --------------------------
(***************************************************************************)
(* The audit store, for any capacity, retention and bounds: it implements  *)
(* the audit log, through every crash and disk failure; while no call on   *)
(* the file failed, a restart would find what can be read; the file is in  *)
(* order; and a compaction only takes old lines out of it.                 *)
(***************************************************************************)
EXTENDS AuditStore, SequenceTheorems, FiniteSetTheorems, TLAPS

----------------------------------------------------------------------------
(***************************************************************************)
(* What the ring and the file have in common: their events are as they     *)
(* were recorded, in order, with IDs up to the last that was given.        *)
(***************************************************************************)
IsEvent(l) == l.id > 0

Faithful(s, r) ==
  \A i \in DOMAIN s: IsEvent(s[i]) => s[i].no \in DOMAIN r /\ r[s[i].no] = s[i]

Sorted(s) ==
  \A i, j \in DOMAIN s:
    i < j /\ IsEvent(s[i]) /\ IsEvent(s[j]) => s[i].id < s[j].id /\ s[i].no < s[j].no

Below(s, id) == \A i \in DOMAIN s: s[i].id <= id

Bad(s) == {i \in DOMAIN s : ~IsEvent(s[i])}

RingOK == \A i \in 0..Cap - 1: full \/ i < head => ring[i] \in Log!Event

\* While the service runs, IDs go on from the highest there is.
IDsOK ==
  \E id \in 0..Len(recorded):
    Below(file, id) /\ (up => nextID = id /\ Below(Content, id))

\* Some of the file's last Cap lines is an event, if any line is.
TearsOK == Cardinality(Bad(file)) <= tears

\* While nothing failed, the ring is the file's end.
IntactOK ==
  intact => /\ disk /\ Bad(file) = {}
            /\ up => writer = "open" /\ Content = Log!Newest(file, Cap)

StoreInv ==
  /\ TypeOK /\ RingOK
  /\ Faithful(Content, recorded) /\ Sorted(Content)
  /\ Faithful(file, recorded) /\ Sorted(file)
  /\ IDsOK /\ TearsOK /\ IntactOK

----------------------------------------------------------------------------
(***************************************************************************)
(* The ring.                                                               *)
(***************************************************************************)
LEMMA ModOK ==
  ASSUME NEW x \in 0..2 * Cap - 1
  PROVE  x % Cap = IF x < Cap THEN x ELSE x - Cap
BY StoreBounds

LEMMA ContentIs ==
  ASSUME TypeOK
  PROVE  /\ ~full => Content = [i \in 1..head |-> ring[i - 1]]
         /\ full => Content = [i \in 1..Cap |-> ring[IF i <= Cap - head THEN head + i - 1
                                                     ELSE head + i - 1 - Cap]]
<1>0. Cap \in Nat \ {0} /\ head \in 0..Cap - 1
  BY StoreBounds DEF TypeOK
<1>1. CASE ~full
  <2>1. \A i \in 1..head: head + Cap - head + i - 1 \in 0..2 * Cap - 1
    BY <1>0
  <2>2. \A i \in 1..head: (head + Cap - head + i - 1) % Cap = i - 1
    <3> TAKE i \in 1..head
    <3> DEFINE x == head + Cap - head + i - 1
    <3>1. x % Cap = IF x < Cap THEN x ELSE x - Cap
      BY <2>1, ModOK
    <3> QED
      BY <1>0, <3>1
  <2> QED
    BY <1>1, <2>2 DEF Content, Size
<1>2. CASE full
  <2>1. \A i \in 1..Cap: (head + Cap - Cap + i - 1) % Cap
                           = IF i <= Cap - head THEN head + i - 1 ELSE head + i - 1 - Cap
    <3> TAKE i \in 1..Cap
    <3> DEFINE x == head + Cap - Cap + i - 1
    <3>1. x \in 0..2 * Cap - 1 /\ x = head + i - 1
      BY <1>0
    <3>2. x % Cap = IF x < Cap THEN x ELSE x - Cap
      BY <3>1, ModOK
    <3> QED
      BY <1>0, <3>1, <3>2
  <2> QED
    BY <1>2, <2>1 DEF Content, Size
<1> QED
  BY <1>1, <1>2

\* What is in the ring has the type of events, and as many as there can be.
LEMMA ContentType ==
  ASSUME TypeOK, RingOK
  PROVE  Content \in Seq(Log!Event) /\ Len(Content) = Size /\ Size \in 0..Cap
<1>0. Cap \in Nat \ {0} /\ head \in 0..Cap - 1 /\ Size \in 0..Cap
  BY StoreBounds DEF TypeOK, Size
<1>1. CASE ~full
  <2>1. \A i \in 1..head: ring[i - 1] \in Log!Event
    BY <1>0, <1>1 DEF RingOK
  <2> QED
    BY <1>0, <1>1, <2>1, ContentIs DEF Size
<1>2. CASE full
  <2> DEFINE g == [i \in 1..Cap |-> ring[IF i <= Cap - head THEN head + i - 1
                                         ELSE head + i - 1 - Cap]]
  <2>1. \A i \in 1..Cap: g[i] \in Log!Event
    BY <1>0, <1>2 DEF RingOK
  <2>2. g \in [1..Cap -> Log!Event]
    BY <2>1
  <2>3. Content = g
    BY <1>2, ContentIs
  <2>4. Size = Cap
    BY <1>2 DEF Size
  <2> HIDE DEF g
  <2>5. g \in Seq(Log!Event) /\ Len(g) = Cap
    BY <1>0, <2>2
  <2> QED
    BY <1>0, <2>3, <2>4, <2>5
<1> QED
  BY <1>1, <1>2

\* A ring that was filled from s has s in it.
LEMMA LoadOK ==
  ASSUME NEW s \in Seq(Log!Event), Len(s) <= Cap, Load(s)
  PROVE  /\ ring' \in [0..Cap - 1 -> Log!Event \cup {NoEvent}]
         /\ head' \in 0..Cap - 1 /\ full' \in BOOLEAN
         /\ RingOK' /\ Content' = s
<1>0. PICK n: n = Len(s)
  OBVIOUS
<1>1. Cap \in Nat \ {0} /\ n \in 0..Cap /\ DOMAIN s = 1..n /\ s = [i \in 1..n |-> s[i]]
  BY <1>0, StoreBounds, LenProperties
<1>2. \A i \in 0..Cap - 1: i < n => s[i + 1] \in Log!Event
  BY <1>0, <1>1, ElementOfSeq
<1>3. /\ ring' = [i \in 0..Cap - 1 |-> IF i < n THEN s[i + 1] ELSE NoEvent]
      /\ head' = n % Cap
      /\ full' = (n >= Cap)
  BY <1>0 DEF Load
<1>4. head' = IF n < Cap THEN n ELSE 0
  <2>1. n % Cap = IF n < Cap THEN n ELSE n - Cap
    BY <1>1, ModOK
  <2> QED
    BY <1>1, <1>3, <2>1
<1>5. full' \in BOOLEAN /\ (full' <=> n = Cap)
  <2>1. n >= Cap <=> n = Cap
    BY <1>1
  <2>2. ASSUME NEW b, full' = b, b \in BOOLEAN, b <=> n = Cap
        PROVE  full' \in BOOLEAN /\ (full' <=> n = Cap)
    BY <2>2, Zenon
  <2>3. (n >= Cap) \in BOOLEAN
    OBVIOUS
  <2> QED
    BY <1>3, <2>1, <2>2, <2>3, Zenon
<1>6. /\ ring' \in [0..Cap - 1 -> Log!Event \cup {NoEvent}]
      /\ head' \in 0..Cap - 1
  BY <1>1, <1>2, <1>3, <1>4
<1>7. RingOK'
  BY <1>1, <1>2, <1>3, <1>4, <1>5 DEF RingOK
<1>8. Size' = n
  BY <1>1, <1>4, <1>5 DEF Size
<1>9. \A i \in 1..n: (head' + Cap - n + i - 1) % Cap = i - 1
  <2> TAKE i \in 1..n
  <2> DEFINE x == head' + Cap - n + i - 1
  <2>1. x = (IF n < Cap THEN Cap + i - 1 ELSE i - 1) /\ x \in 0..2 * Cap - 1
    BY <1>1, <1>4
  <2>2. x % Cap = IF x < Cap THEN x ELSE x - Cap
    BY <2>1, ModOK
  <2> QED
    BY <1>1, <2>1, <2>2
<1>10. \A i \in 1..n: ring'[i - 1] = s[i]
  BY <1>1, <1>3
<1>11. Content' = [i \in 1..n |-> s[i]]
  BY <1>8, <1>9, <1>10 DEF Content
<1> QED
  BY <1>1, <1>5, <1>6, <1>7, <1>11

\* The newest n elements of a sequence are the last n of it, or all.
LEMMA NewestIs ==
  ASSUME NEW S, NEW s \in Seq(S), NEW n \in Nat, NEW l, l = Len(s)
  PROVE  /\ Log!Newest(s, n) \in Seq(S)
         /\ ~(l > n) => Log!Newest(s, n) = s
         /\ l > n => Len(Log!Newest(s, n)) = n
<1>1. l \in Nat /\ s \in [1..l -> S]
  BY LenProperties
<1>2. CASE l > n
  <2>1. Log!Newest(s, n) = SubSeq(s, l - n + 1, l)
    BY <1>2 DEF Log!Newest
  <2>2. l - n + 1 \in 1..l + 1 /\ l \in l - n..l /\ l - (l - n + 1) + 1 = n
    BY <1>1, <1>2
  <2>3. SubSeq(s, l - n + 1, l) \in Seq(S) /\ Len(SubSeq(s, l - n + 1, l)) = n
    BY <1>1, <1>2, <2>2, SubSeqProperties
  <2> QED
    BY <1>2, <2>1, <2>3
<1>3. CASE ~(l > n)
  <2>1. Log!Newest(s, n) = SubSeq(s, 1, l)
    BY <1>3 DEF Log!Newest
  <2>2. SubSeq(s, 1, l) = s
    BY SubSeqFull
  <2> QED
    BY <1>1, <1>3, <2>1, <2>2
<1> QED
  BY <1>2, <1>3

LEMMA NewestAt ==
  ASSUME NEW S, NEW s \in Seq(S), NEW n \in Nat, NEW l, l = Len(s), l > n
  PROVE  \A k \in 1..n: Log!Newest(s, n)[k] = s[k + l - n]
<1>1. l \in Nat /\ s \in [1..l -> S]
  BY LenProperties
<1>2. Log!Newest(s, n) = SubSeq(s, l - n + 1, l)
  BY DEF Log!Newest
<1>3. l - n + 1 \in 1..l + 1 /\ l \in l - n..l /\ l - (l - n + 1) + 1 = n
  BY <1>1
<1> TAKE k \in 1..n
<1>4. SubSeq(s, l - n + 1, l)[k] = s[l - n + 1 + k - 1]
  BY <1>1, <1>3, SubSeqProperties
<1>5. l - n + 1 + k - 1 = k + l - n
  BY <1>1
<1> QED
  BY <1>2, <1>4, <1>5

\* Dropping the oldest before a new one comes or after makes no difference.
LEMMA NewestAppend ==
  ASSUME NEW S, NEW s \in Seq(S), NEW e \in S, NEW n \in Nat \ {0}
  PROVE  Log!Newest(Append(Log!Newest(s, n), e), n) = Log!Newest(Append(s, e), n)
<1>0. PICK l: l = Len(s)
  OBVIOUS
<1>1. l \in Nat /\ s \in [1..l -> S] /\ n \in Nat
  BY <1>0, LenProperties
<1>2. CASE ~(l > n)
  <2>1. Log!Newest(s, n) = s
    BY <1>0, <1>1, <1>2, NewestIs
  <2> QED
    BY <2>1
<1>3. CASE l > n
  <2>1. PICK w: w = Log!Newest(s, n)
    OBVIOUS
  <2>2. w \in Seq(S) /\ Len(w) = n /\ \A k \in 1..n: w[k] = s[k + l - n]
    <3>1. w \in Seq(S) /\ Len(w) = n
      BY <1>0, <1>1, <1>3, <2>1, NewestIs
    <3>2. \A k \in 1..n: Log!Newest(s, n)[k] = s[k + l - n]
      BY <1>0, <1>3, n \in Nat, NewestAt, ZenonT(40)
    <3> QED
      BY <2>1, <3>1, <3>2
  <2>3. PICK a: a = Append(w, e)
    OBVIOUS
  <2>4. /\ a \in Seq(S) /\ Len(a) = n + 1 /\ a[n + 1] = e
        /\ \A k \in 1..n: a[k] = s[k + l - n]
    BY <2>2, <2>3, AppendProperties
  <2>5. PICK b: b = Append(s, e)
    OBVIOUS
  <2>6. /\ b \in Seq(S) /\ Len(b) = l + 1 /\ b[l + 1] = e
        /\ \A k \in 1..l: b[k] = s[k]
    BY <1>0, <1>1, <2>5, AppendProperties
  <2>7. /\ Log!Newest(a, n) \in Seq(S) /\ Len(Log!Newest(a, n)) = n
        /\ \A k \in 1..n: Log!Newest(a, n)[k] = a[k + (n + 1) - n]
    <3>1. PICK m: m = n + 1
      OBVIOUS
    <3>2. m > n /\ m = Len(a)
      BY <1>1, <2>4, <3>1
    <3>3. Log!Newest(a, n) \in Seq(S)
      BY <1>1, <2>4, NewestIs
    <3>4. Len(Log!Newest(a, n)) = n
      BY <1>1, <2>4, <3>2, NewestIs
    <3>5. \A k \in 1..n: Log!Newest(a, n)[k] = a[k + m - n]
      BY <1>1, <2>4, <3>2, NewestAt
    <3> QED
      BY <3>1, <3>3, <3>4, <3>5
  <2>8. /\ Log!Newest(b, n) \in Seq(S) /\ Len(Log!Newest(b, n)) = n
        /\ \A k \in 1..n: Log!Newest(b, n)[k] = b[k + (l + 1) - n]
    <3>1. PICK m: m = l + 1
      OBVIOUS
    <3>2. m > n /\ m = Len(b)
      BY <1>1, <1>3, <2>6, <3>1
    <3>3. Log!Newest(b, n) \in Seq(S) /\ Len(Log!Newest(b, n)) = n
      BY <1>1, <2>6, <3>2, NewestIs
    <3>4. \A k \in 1..n: Log!Newest(b, n)[k] = b[k + m - n]
      <4>1. b \in Seq(S) /\ n \in Nat
        BY <1>1, <2>6
      <4> QED
        BY <3>2, <4>1, NewestAt, ZenonT(40)
    <3> QED
      BY <3>1, <3>3, <3>4
  <2>9. \A k \in 1..n: a[k + (n + 1) - n] = b[k + (l + 1) - n]
    <3> TAKE k \in 1..n
    <3>1. CASE k = n
      BY <1>1, <2>4, <2>6, <3>1, n + (n + 1) - n = n + 1, n + (l + 1) - n = l + 1
    <3>2. CASE k # n
      <4>1. /\ k + (n + 1) - n = k + 1 /\ k + 1 \in 1..n
            /\ k + (l + 1) - n = k + 1 + l - n /\ k + 1 + l - n \in 1..l
        BY <1>1, <1>3, <3>2
      <4> QED
        BY <2>4, <2>6, <4>1
    <3> QED
      BY <3>1, <3>2
  <2>10. Log!Newest(a, n) = Log!Newest(b, n)
    BY <2>7, <2>8, <2>9, SeqEqual
  <2> QED
    BY <2>1, <2>3, <2>5, <2>10
<1> QED
  BY <1>1, <1>2, <1>3

\* A new event takes the next slot, that of the oldest if the ring is full.
LEMMA RingPost ==
  ASSUME TypeOK, RingOK, NEW e \in Log!Event,
         ring' = [ring EXCEPT ![head] = e], head' = After(head),
         full' = (full \/ head' = 0)
  PROVE  /\ ring' \in [0..Cap - 1 -> Log!Event \cup {NoEvent}]
         /\ head' \in 0..Cap - 1 /\ full' \in BOOLEAN
         /\ RingOK' /\ Content' = Log!Newest(Append(Content, e), Cap)
<1>0. PICK h \in 0..Cap - 1: h = head
  BY DEF TypeOK
<1>1. Cap \in Nat \ {0} /\ ring \in [0..Cap - 1 -> Log!Event \cup {NoEvent}] /\ full \in BOOLEAN
  BY StoreBounds DEF TypeOK
<1>2. head' = IF h = Cap - 1 THEN 0 ELSE h + 1
  <2> DEFINE x == h + 1
  <2>1. x \in 0..2 * Cap - 1
    BY <1>1
  <2>2. x % Cap = IF x < Cap THEN x ELSE x - Cap
    BY <2>1, ModOK
  <2> QED
    BY <1>0, <1>1, <2>2 DEF After
<1>3. full' \in BOOLEAN /\ (full' <=> full \/ h = Cap - 1)
  <2>1. head' = 0 <=> h = Cap - 1
    BY <1>1, <1>2
  <2> QED
    BY <2>1, Zenon
<1>4. /\ ring' \in [0..Cap - 1 -> Log!Event \cup {NoEvent}] /\ ring'[h] = e
      /\ \A i \in 0..Cap - 1: i # h => ring'[i] = ring[i]
  BY <1>0, <1>1
<1>5. head' \in 0..Cap - 1
  BY <1>1, <1>2
<1>6. RingOK'
  BY <1>0, <1>1, <1>2, <1>3, <1>4 DEF RingOK
<1> DEFINE u == Append(Content, e)
<1>7. /\ Content \in Seq(Log!Event) /\ Len(Content) = Size /\ Size \in 0..Cap
      /\ u \in Seq(Log!Event) /\ Len(u) = Size + 1 /\ u[Size + 1] = e
      /\ \A k \in 1..Size: u[k] = Content[k]
  BY ContentType, AppendProperties
<1>8. PICK z: z = Size + 1
  OBVIOUS
<1>9. /\ Log!Newest(u, Cap) \in Seq(Log!Event)
      /\ ~(z > Cap) => Log!Newest(u, Cap) = u
      /\ z > Cap => /\ Len(Log!Newest(u, Cap)) = Cap
                    /\ \A k \in 1..Cap: Log!Newest(u, Cap)[k] = u[k + z - Cap]
  <2>1. u \in Seq(Log!Event) /\ Cap \in Nat /\ z = Len(u)
    BY <1>1, <1>7, <1>8
  <2> HIDE DEF u
  <2>2. Log!Newest(u, Cap) \in Seq(Log!Event)
    BY <2>1, NewestIs
  <2>3. ~(z > Cap) => Log!Newest(u, Cap) = u
    BY <2>1, NewestIs
  <2>4. z > Cap => Len(Log!Newest(u, Cap)) = Cap
    BY <2>1, NewestIs
  <2>5. z > Cap => \A k \in 1..Cap: Log!Newest(u, Cap)[k] = u[k + z - Cap]
    BY <2>1, NewestAt
  <2> QED
    BY <2>2, <2>3, <2>4, <2>5
<1> DEFINE v == Log!Newest(u, Cap)
<1> HIDE DEF u
<1>10. /\ (~full' /\ Size' = head') \/ (full' /\ Size' = Cap)
       /\ (~full /\ Size = h) \/ (full /\ Size = Cap)
  BY <1>0, <1>1, <1>3 DEF Size
<1>11. Len(v) = Size' /\ v \in Seq(Log!Event)
  <2>1. CASE full
    <3>1. z > Cap /\ Size' = Cap
      BY <1>1, <1>3, <1>8, <1>10, <2>1
    <3> QED
      BY <1>9, <3>1
  <2>2. CASE ~full
    <3>1. ~(z > Cap) /\ Size' = z
      BY <1>1, <1>2, <1>3, <1>8, <1>10, <2>2
    <3> QED
      BY <1>7, <1>8, <1>9, <3>1
  <2> QED
    BY <2>1, <2>2
<1>12. \A i \in 1..Size': ring'[(head' + Cap - Size' + i - 1) % Cap] = v[i]
  <2> SUFFICES ASSUME NEW i \in 1..Size'
               PROVE  ring'[(head' + Cap - Size' + i - 1) % Cap] = v[i]
    OBVIOUS
  <2> DEFINE x == head' + Cap - Size' + i - 1
  <2>1. Size' \in 0..Cap /\ head' \in 0..Cap - 1 /\ Size \in 0..Cap /\ z \in 1..Cap + 1
    BY <1>1, <1>5, <1>7, <1>8, <1>10
  <2>2. x \in 0..2 * Cap - 1
    BY <1>1, <2>1
  <2>3. x % Cap = IF x < Cap THEN x ELSE x - Cap
    BY <2>2, ModOK
  <2>4. CASE ~full
    <3>1. /\ ~(z > Cap) /\ Size' = z /\ z = h + 1 /\ Size = h
          /\ head' = IF h = Cap - 1 THEN 0 ELSE h + 1
      BY <1>1, <1>2, <1>3, <1>8, <1>10, <2>4
    <3>2. x % Cap = i - 1
      BY <1>1, <2>1, <2>3, <3>1
    <3>3. v = u
      BY <1>9, <3>1
    <3>4. Content = [j \in 1..h |-> ring[j - 1]]
      BY <1>0, <2>4, ContentIs
    <3>5. CASE i = h + 1
      BY <1>4, <1>7, <3>1, <3>2, <3>3, <3>5
    <3>6. CASE i \in 1..h
      BY <1>1, <1>4, <1>7, <3>1, <3>2, <3>3, <3>4, <3>6
    <3> QED
      BY <3>1, <3>5, <3>6
  <2>5. CASE full
    <3>1. /\ z > Cap /\ z = Cap + 1 /\ Size' = Cap /\ Size = Cap
      BY <1>1, <1>2, <1>3, <1>8, <1>10, <2>5
    <3>2. v[i] = u[i + 1]
      <4>1. v[i] = u[i + z - Cap] /\ i + z - Cap = i + 1
        BY <1>1, <1>9, <3>1
      <4> QED
        BY <4>1
    <3>3. x % Cap = IF i < Cap - h THEN h + i ELSE h + i - Cap
      BY <1>1, <1>2, <2>1, <2>3, <3>1
    <3>4. Content = [j \in 1..Cap |-> ring[IF j <= Cap - h THEN h + j - 1 ELSE h + j - 1 - Cap]]
      BY <1>0, <2>5, ContentIs
    <3>5. CASE i = Cap
      <4>1. x % Cap = h
        BY <1>1, <3>3, <3>5
      <4> QED
        BY <1>4, <1>7, <3>1, <3>2, <3>5, <4>1
    <3>6. CASE i \in 1..Cap - 1
      <4>1. u[i + 1] = Content[i + 1] /\ i + 1 \in 1..Cap
        BY <1>1, <1>7, <3>1, <3>6
      <4>2. Content[i + 1] = ring[IF i < Cap - h THEN h + i ELSE h + i - Cap]
        BY <1>1, <3>4, <3>6
      <4>3. (x % Cap) \in 0..Cap - 1 /\ x % Cap # h
        BY <1>1, <3>3, <3>6
      <4>4. ring'[x % Cap] = ring[x % Cap]
        BY <1>4, <4>3
      <4> QED
        BY <3>2, <3>3, <4>1, <4>2, <4>4
    <3> QED
      BY <1>1, <3>1, <3>5, <3>6
  <2> QED
    BY <2>4, <2>5
<1>13. Content' = v
  <2> HIDE DEF v
  <2>1. Content' = [i \in 1..Size' |-> v[i]]
    BY <1>12 DEF Content
  <2>2. v = [i \in 1..Size' |-> v[i]]
    BY <1>11, LenProperties
  <2> QED
    BY <2>1, <2>2
<1> QED
  BY <1>3, <1>4, <1>5, <1>6, <1>13 DEF u

----------------------------------------------------------------------------
(***************************************************************************)
(* Picking elements by their positions.                                    *)
(***************************************************************************)
LEMMA LogCardinality == ASSUME NEW D PROVE Log!Cardinality(D) = Cardinality(D)
BY DEF Cardinality, Log!Cardinality

Rank(D, i) == Cardinality(D \cap (1..i))

\* The ranks of the positions D are 1 to their number, in order.
LEMMA RankOK ==
  ASSUME NEW n \in Nat, NEW D \in SUBSET (1..n)
  PROVE  /\ IsFiniteSet(D) /\ Cardinality(D) \in 0..n
         /\ \A i \in D: Rank(D, i) \in 1..Cardinality(D)
         /\ \A i, j \in D: i < j => Rank(D, i) < Rank(D, j)
         /\ \A k \in 1..Cardinality(D): \E i \in D: Rank(D, i) = k
<1> DEFINE c == Cardinality(D)
<1>1. IsFiniteSet(1..n) /\ Cardinality(1..n) = n
  BY FS_Interval
<1>2. IsFiniteSet(D) /\ c \in Nat /\ c <= n
  BY <1>1, FS_Subset, FS_CardinalityType
<1>3. \A i \in D: /\ IsFiniteSet(D \cap (1..i)) /\ Rank(D, i) \in Nat
                  /\ Rank(D, i) <= c /\ i \in D \cap (1..i)
  BY <1>2, FS_Subset, FS_CardinalityType DEF Rank
<1>4. ASSUME NEW i \in D PROVE Rank(D, i) # 0
  BY <1>3, FS_EmptySet DEF Rank
<1>5. ASSUME NEW i \in D, NEW j \in D, i < j PROVE Rank(D, i) < Rank(D, j)
  <2> DEFINE A == D \cap (1..i)
             B == D \cap (1..j)
  <2>1. A \subseteq B /\ j \in B /\ j \notin A
    BY <1>5
  <2>2. IsFiniteSet(B) /\ Cardinality(A) <= Cardinality(B) /\ Cardinality(A) # Cardinality(B)
    BY <1>3, <2>1, FS_Subset
  <2> QED
    BY <1>3, <2>2 DEF Rank
<1>6. \A i \in D: Rank(D, i) \in 1..c
  <2> TAKE i \in D
  <2>1. Rank(D, i) \in Nat /\ Rank(D, i) <= c /\ Rank(D, i) # 0 /\ c \in Nat
    BY <1>2, <1>3, <1>4
  <2> HIDE DEF c
  <2> QED
    BY <2>1
<1>7. \A k \in 1..c: \E i \in D: Rank(D, i) = k
  <2> DEFINE r == [i \in D |-> Rank(D, i)]
  <2>1. r \in [D -> 1..c]
    BY <1>6
  <2>2. \A i, j \in D: r[i] = r[j] => i = j
    <3> SUFFICES ASSUME NEW i \in D, NEW j \in D, i # j PROVE r[i] # r[j]
      OBVIOUS
    <3>1. i < j \/ j < i
      OBVIOUS
    <3>2. Rank(D, i) \in Nat /\ Rank(D, j) \in Nat
      BY <1>3
    <3> QED
      BY <1>5, <3>1, <3>2
  <2>3. r \in Injection(D, 1..c)
    BY <2>1, <2>2 DEF Injection, IsInjective
  <2>4. IsFiniteSet(1..c) /\ Cardinality(1..c) = c
    BY <1>2, FS_Interval
  <2>5. r \in Surjection(D, 1..c)
    BY <2>3, <2>4, FS_Injection
  <2> QED
    BY <2>5 DEF Surjection
<1> QED
  BY <1>2, <1>5, <1>6, <1>7

\* p has the elements of s at the positions D, in order.
Picks(p, s, D) ==
  \E m \in 0..Len(s): \E f \in [1..m -> D]:
    /\ Len(p) = m /\ \A k \in 1..m: p[k] = s[f[k]]
    /\ \A j, k \in 1..m: j < k => f[j] < f[k]
    /\ \A i \in D: \E k \in 1..m: f[k] = i

LEMMA PickedOK ==
  ASSUME NEW S, NEW s \in Seq(S), NEW D \in SUBSET DOMAIN s
  PROVE  Log!Picked(s, D) \in Seq(S) /\ Picks(Log!Picked(s, D), s, D)
<1> DEFINE m == Cardinality(D)
           f == [k \in 1..m |-> Log!Position(D, k)]
<1>0. PICK l: l = Len(s)
  OBVIOUS
<1>1. l \in Nat /\ DOMAIN s = 1..l /\ s \in [1..l -> S]
  BY <1>0, LenProperties
<1>2. /\ m \in 0..l
      /\ \A i \in D: Rank(D, i) \in 1..m
      /\ \A i, j \in D: i < j => Rank(D, i) < Rank(D, j)
      /\ \A k \in 1..m: \E i \in D: Rank(D, i) = k
  BY <1>1, RankOK
<1>3. Log!Picked(s, D) = [k \in 1..m |-> s[f[k]]]
  <2>1. Log!Picked(s, D) = [k \in 1..m |-> s[Log!Position(D, k)]]
    BY LogCardinality DEF Log!Picked
  <2>2. \A k \in 1..m: f[k] = Log!Position(D, k)
    OBVIOUS
  <2> HIDE DEF f
  <2> QED
    BY <2>1, <2>2
<1> HIDE DEF m
<1>4. ASSUME NEW k \in 1..m PROVE f[k] \in D /\ Rank(D, f[k]) = k
  <2>1. f[k] = Log!Position(D, k)
    OBVIOUS
  <2>2. \E i \in D: Cardinality(D \cap (1..i)) = k
    BY <1>2 DEF Rank
  <2>3. Log!Position(D, k) \in D /\ Cardinality(D \cap (1..Log!Position(D, k))) = k
    BY <2>2, LogCardinality DEF Log!Position
  <2> QED
    BY <2>1, <2>3 DEF Rank
<1>5. f \in [1..m -> D]
  BY <1>4
<1>6. ASSUME NEW i \in D, NEW j \in D, Rank(D, i) = Rank(D, j) PROVE i = j
  <2>1. i \in Int /\ j \in Int
    BY <1>1
  <2>2. Rank(D, i) \in Int /\ Rank(D, j) \in Int
    BY <1>2
  <2>3. ~(i < j) /\ ~(j < i)
    BY <1>2, <1>6, <2>2
  <2> QED
    BY <2>1, <2>3
<1> HIDE DEF f
<1>7. ASSUME NEW j \in 1..m, NEW k \in 1..m, j < k PROVE f[j] < f[k]
  <2>1. f[j] \in D /\ f[k] \in D /\ f[j] \in Int /\ f[k] \in Int
    <3>1. D \subseteq Int
      BY <1>1
    <3> QED
      BY <1>4, <3>1
  <2>2. f[j] # f[k]
    BY <1>4, <1>7
  <2>3. ~(f[k] < f[j])
    <3>1. f[k] < f[j] => Rank(D, f[k]) < Rank(D, f[j])
      BY <1>2, <2>1
    <3>2. Rank(D, f[k]) = k /\ Rank(D, f[j]) = j
      BY <1>4
    <3>3. ~(k < j)
      BY <1>7
    <3> QED
      BY <3>1, <3>2, <3>3
  <2> QED
    BY <2>1, <2>2, <2>3
<1>8. \A i \in D: \E k \in 1..m: f[k] = i
  <2> TAKE i \in D
  <2>1. Rank(D, i) \in 1..m
    BY <1>2
  <2>2. f[Rank(D, i)] = i
    BY <1>4, <1>6, <2>1
  <2> QED
    BY <2>1, <2>2
<1>9. \A k \in 1..m: s[f[k]] \in S
  BY <1>1, <1>5
<1>10. PICK p: p = Log!Picked(s, D)
  OBVIOUS
<1>11. p \in Seq(S) /\ Len(p) = m /\ \A k \in 1..m: p[k] = s[f[k]]
  <2>1. p \in [1..m -> S]
    BY <1>3, <1>9, <1>10
  <2> QED
    BY <1>2, <1>3, <1>10, <2>1
<1> QED
  BY <1>0, <1>2, <1>5, <1>7, <1>8, <1>10, <1>11 DEF Picks

\* Picking everything is the identity.
LEMMA PickedAll ==
  ASSUME NEW S, NEW s \in Seq(S)
  PROVE  Log!Picked(s, DOMAIN s) = s
<1>0. PICK l: l = Len(s)
  OBVIOUS
<1>1. l \in Nat /\ DOMAIN s = 1..l /\ s = [k \in 1..l |-> s[k]]
  BY <1>0, LenProperties
<1>2. Cardinality(1..l) = l
  BY <1>1, FS_Interval
<1>3. \A i \in 1..l: Cardinality((1..l) \cap (1..i)) = i
  <2> TAKE i \in 1..l
  <2>1. (1..l) \cap (1..i) = 1..i
    BY <1>1
  <2>2. Cardinality(1..i) = i
    BY FS_Interval
  <2> QED
    BY <2>1, <2>2
<1>4. \A k \in 1..l: Log!Position(1..l, k) = k
  BY <1>3, LogCardinality DEF Log!Position
<1>5. Log!Picked(s, 1..l) = [k \in 1..l |-> s[k]]
  <2>1. Log!Picked(s, 1..l) = [k \in 1..Cardinality(1..l) |-> s[Log!Position(1..l, k)]]
    BY LogCardinality DEF Log!Picked
  <2> QED
    BY <1>2, <1>4, <2>1
<1> QED
  BY <1>1, <1>5

----------------------------------------------------------------------------
(***************************************************************************)
(* Lines.                                                                  *)
(***************************************************************************)
LEMMA LineOK ==
  /\ \A l \in Line: /\ l.id \in Nat /\ l.no \in Nat
                    /\ IsEvent(l) <=> l \in Log!Event
  /\ Log!Event \subseteq Line
  /\ Torn \in Line /\ Junk \in Line /\ ~IsEvent(Torn) /\ ~IsEvent(Junk)
<1>1. \A l \in Log!Event: l.id \in Nat \ {0} /\ l.no \in Nat \ {0}
  BY DEF Log!Event
<1>2. Torn.id = 0 /\ Junk.id = 0 /\ Torn.no = 1 /\ Junk.no = 2
  BY DEF Torn, Junk, NotEvent
<1>3. Torn \notin Log!Event /\ Junk \notin Log!Event
  BY <1>1, <1>2
<1> QED
  BY <1>1, <1>2, <1>3 DEF Line, IsEvent

Good(s, r, x) == s \in Seq(Line) /\ Faithful(s, r) /\ Sorted(s) /\ Below(s, x)

\* What holds of lines holds of some of them, in the same order.
LEMMA GoodSome ==
  ASSUME NEW s, NEW r, NEW x, Good(s, r, x),
         NEW t, NEW m \in Nat, Len(t) = m, DOMAIN t = 1..m, t \in Seq(Line),
         NEW f \in [1..m -> DOMAIN s], \A k \in 1..m: t[k] = s[f[k]],
         \A j, k \in 1..m: j < k => f[j] < f[k]
  PROVE  Good(t, r, x) /\ (Bad(s) = {} => Bad(t) = {})
<1>1. Faithful(t, r)
  BY DEF Good, Faithful
<1>2. Sorted(t)
  BY DEF Good, Sorted
<1>3. Below(t, x)
  BY DEF Good, Below
<1>4. Bad(s) = {} => Bad(t) = {}
  BY DEF Bad
<1> QED
  BY <1>1, <1>2, <1>3, <1>4 DEF Good

LEMMA GoodPicked ==
  ASSUME NEW S, S \subseteq Line, NEW s \in Seq(S), NEW r, NEW x, Good(s, r, x),
         NEW D \in SUBSET DOMAIN s
  PROVE  /\ Good(Log!Picked(s, D), r, x) /\ Log!Picked(s, D) \in Seq(S)
         /\ Len(Log!Picked(s, D)) \in Nat /\ Len(Log!Picked(s, D)) <= Len(s)
<1>1. PICK p: p = Log!Picked(s, D)
  OBVIOUS
<1>2. p \in Seq(S) /\ Picks(p, s, D)
  BY <1>1, PickedOK
<1>3. PICK m \in 0..Len(s): \E f \in [1..m -> D]:
        /\ Len(p) = m /\ \A k \in 1..m: p[k] = s[f[k]]
        /\ \A j, k \in 1..m: j < k => f[j] < f[k]
  BY <1>2 DEF Picks
<1>4. PICK f \in [1..m -> D]:
        /\ Len(p) = m /\ \A k \in 1..m: p[k] = s[f[k]]
        /\ \A j, k \in 1..m: j < k => f[j] < f[k]
  BY <1>3
<1>5. m \in Nat /\ m <= Len(s) /\ DOMAIN p = 1..m
  BY <1>2, <1>4, LenProperties
<1>6. p \in Seq(Line)
  <2>1. \A k \in 1..m: p[k] \in Line
    BY <1>2, <1>5, ElementOfSeq
  <2>2. p \in [1..m -> Line]
    BY <1>2, <1>5, <2>1, LenProperties
  <2> QED
    BY <1>5, <2>2
<1>7. f \in [1..m -> DOMAIN s]
  BY <1>4
<1>8. Good(p, r, x)
  BY <1>4, <1>5, <1>6, <1>7, GoodSome
<1> QED
  BY <1>1, <1>2, <1>4, <1>5, <1>8

LEMMA GoodNewest ==
  ASSUME NEW s, NEW r, NEW x, Good(s, r, x), NEW n \in Nat
  PROVE  Good(Log!Newest(s, n), r, x) /\ (Bad(s) = {} => Bad(Log!Newest(s, n)) = {})
<1>1. PICK l: l = Len(s)
  OBVIOUS
<1>2. PICK p: p = Log!Newest(s, n)
  OBVIOUS
<1>3. s \in Seq(Line) /\ l \in Nat /\ DOMAIN s = 1..l
  BY <1>1, LenProperties DEF Good
<1>4. p \in Seq(Line) /\ (~(l > n) => p = s) /\ (l > n => Len(p) = n)
  BY <1>1, <1>2, <1>3, NewestIs
<1>5. CASE l > n
  <2> DEFINE f == [k \in 1..n |-> k + l - n]
  <2>1. \A k \in 1..n: p[k] = s[k + l - n]
    BY <1>1, <1>2, <1>3, <1>5, NewestAt, ZenonT(40)
  <2>2. f \in [1..n -> DOMAIN s]
    BY <1>3, <1>5
  <2>3. DOMAIN p = 1..n /\ Len(p) = n
    BY <1>4, <1>5, LenProperties
  <2>4. \A k \in 1..n: p[k] = s[f[k]]
    BY <2>1
  <2>5. \A j, k \in 1..n: j < k => f[j] < f[k]
    BY <1>3
  <2> HIDE DEF f
  <2> QED
    BY <1>2, <1>4, <2>2, <2>3, <2>4, <2>5, GoodSome
<1>6. CASE ~(l > n)
  BY <1>2, <1>4, <1>6
<1> QED
  BY <1>5, <1>6

LEMMA GoodFirst ==
  ASSUME NEW s, NEW r, NEW x, Good(s, r, x), NEW n \in 0..Len(s)
  PROVE  Good(SubSeq(s, 1, n), r, x) /\ (Bad(s) = {} => Bad(SubSeq(s, 1, n)) = {})
<1>1. PICK l: l = Len(s)
  OBVIOUS
<1>2. PICK p: p = SubSeq(s, 1, n)
  OBVIOUS
<1>3. s \in Seq(Line) /\ l \in Nat /\ DOMAIN s = 1..l /\ n \in 0..l
  BY <1>1, LenProperties DEF Good
<1>4. p \in Seq(Line) /\ Len(p) = n /\ \A k \in 1..n: p[k] = s[1 + k - 1]
  <2>1. 1 \in 1..l + 1 /\ n \in 0..l /\ 1 - 1 = 0 /\ n - 1 + 1 = n
    BY <1>3
  <2>2. \A i \in 1..n: s[i] \in Line
    BY <1>1, <1>3, ElementOfSeq
  <2> QED
    BY <1>1, <1>2, <1>3, <2>1, <2>2, SubSeqProperties
<1> DEFINE f == [k \in 1..n |-> k]
<1>5. f \in [1..n -> DOMAIN s]
  BY <1>3
<1>6. p \in Seq(Line) /\ Len(p) = n /\ DOMAIN p = 1..n /\ n \in Nat
  BY <1>3, <1>4, LenProperties
<1>7. \A k \in 1..n: p[k] = s[f[k]]
  <2>1. \A k \in 1..n: 1 + k - 1 = k
    OBVIOUS
  <2> QED
    BY <1>4, <2>1
<1>8. \A j, k \in 1..n: j < k => f[j] < f[k]
  OBVIOUS
<1> HIDE DEF f
<1> QED
  <2>1. Good(p, r, x)
    BY <1>5, <1>6, <1>7, <1>8, GoodSome
  <2>2. Bad(s) = {} => Bad(p) = {}
    BY <1>5, <1>6, <1>7, <1>8, GoodSome
  <2> QED
    BY <1>2, <2>1, <2>2

\* Events that are recorded later change nothing.
LEMMA GoodLater ==
  ASSUME NEW s, NEW r \in Seq(Log!Event), NEW x \in Nat, Good(s, r, x), NEW e \in Log!Event
  PROVE  Good(s, Append(r, e), x) /\ Good(s, Append(r, e), x + 1)
<1>1. /\ DOMAIN r \subseteq DOMAIN Append(r, e)
      /\ \A n \in DOMAIN r: Append(r, e)[n] = r[n]
  BY AppendProperties, LenProperties
<1>2. Faithful(s, Append(r, e))
  BY <1>1 DEF Good, Faithful
<1>3. Below(s, x + 1)
  <2>1. s \in Seq(Line) /\ \A i \in DOMAIN s: s[i] \in Line /\ s[i].id \in Nat
    BY LineOK, ElementOfSeq, LenProperties DEF Good
  <2> QED
    BY <2>1 DEF Good, Below
<1> QED
  BY <1>2, <1>3 DEF Good

\* A line that is no event, at the end or in the place of a torn one.
LEMMA GoodTorn ==
  ASSUME NEW s, NEW r, NEW x \in Nat, Good(s, r, x)
  PROVE  /\ Good(Append(s, Torn), r, x)
         /\ Bad(Append(s, Torn)) = Bad(s) \cup {Len(s) + 1}
<1>1. PICK l: l = Len(s)
  OBVIOUS
<1>2. PICK t: t = Append(s, Torn)
  OBVIOUS
<1>3. /\ s \in Seq(Line) /\ l \in Nat /\ DOMAIN s = 1..l
      /\ t \in Seq(Line) /\ DOMAIN t = (1..l) \cup {l + 1}
      /\ t[l + 1] = Torn /\ \A i \in 1..l: t[i] = s[i]
  BY <1>1, <1>2, LineOK, LenProperties, AppendProperties DEF Good
<1>4. ~IsEvent(Torn) /\ Torn.id = 0
  BY LineOK DEF Torn, NotEvent
<1>5. Faithful(t, r) /\ Sorted(t) /\ Below(t, x)
  <2>1. Faithful(t, r)
    BY <1>3, <1>4 DEF Good, Faithful
  <2>2. Sorted(t)
    BY <1>3, <1>4 DEF Good, Sorted
  <2>3. Below(t, x)
    BY <1>3, <1>4 DEF Good, Below
  <2> QED
    BY <2>1, <2>2, <2>3
<1>6. Bad(t) = Bad(s) \cup {l + 1}
  BY <1>3, <1>4 DEF Bad
<1> QED
  BY <1>1, <1>2, <1>3, <1>5, <1>6 DEF Good

LEMMA GoodJunk ==
  ASSUME NEW s, NEW r, NEW x \in Nat, Good(s, r, x), IsTorn(s)
  PROVE  Good([s EXCEPT ![Len(s)] = Junk], r, x) /\ Bad([s EXCEPT ![Len(s)] = Junk]) = Bad(s)
<1>1. PICK l: l = Len(s)
  OBVIOUS
<1>2. PICK t: t = [s EXCEPT ![l] = Junk]
  OBVIOUS
<1>3. /\ s \in Seq(Line) /\ l \in Nat /\ DOMAIN s = 1..l /\ s \in [1..l -> Line]
      /\ l \in 1..l /\ s[l] = Torn
  BY <1>1, LenProperties, EmptySeq DEF Good, IsTorn
<1>4. /\ t \in Seq(Line) /\ DOMAIN t = 1..l /\ t[l] = Junk
      /\ \A i \in 1..l: i # l => t[i] = s[i]
  <2>1. t \in [1..l -> Line]
    BY <1>2, <1>3, LineOK
  <2> QED
    BY <1>2, <1>3, <2>1
<1>5. ~IsEvent(Torn) /\ ~IsEvent(Junk) /\ Junk.id = 0
  BY LineOK DEF Junk, NotEvent
<1>6. Faithful(t, r)
  BY <1>3, <1>4, <1>5 DEF Good, Faithful
<1>7. Sorted(t)
  BY <1>3, <1>4, <1>5 DEF Good, Sorted
<1>8. Below(t, x)
  BY <1>3, <1>4, <1>5 DEF Good, Below
<1>9. Bad(t) = Bad(s)
  BY <1>3, <1>4, <1>5 DEF Bad
<1> QED
  BY <1>1, <1>2, <1>4, <1>6, <1>7, <1>8, <1>9 DEF Good

\* A new event at the end.
LEMMA GoodAppend ==
  ASSUME NEW S, S \subseteq Line, Log!Event \subseteq S, NEW s \in Seq(S),
         NEW r \in Seq(Log!Event), NEW x \in Nat, Good(s, r, x),
         NEW e \in Log!Event, e.id = x + 1, e.no = Len(r) + 1
  PROVE  /\ Append(s, e) \in Seq(S)
         /\ Good(Append(s, e), Append(r, e), x + 1)
         /\ Bad(Append(s, e)) = Bad(s)
<1>1. PICK l, n: l = Len(s) /\ n = Len(r)
  OBVIOUS
<1>2. PICK t, u: t = Append(s, e) /\ u = Append(r, e)
  OBVIOUS
<1>3. /\ l \in Nat /\ DOMAIN s = 1..l
      /\ t \in Seq(S) /\ DOMAIN t = (1..l) \cup {l + 1}
      /\ t[l + 1] = e /\ \A i \in 1..l: t[i] = s[i]
  BY <1>1, <1>2, LenProperties, AppendProperties
<1>4. /\ n \in Nat /\ DOMAIN r = 1..n /\ DOMAIN u = (1..n) \cup {n + 1}
      /\ u[n + 1] = e /\ \A i \in 1..n: u[i] = r[i]
  BY <1>1, <1>2, LenProperties, AppendProperties
<1>5. t \in Seq(Line)
  <2>1. s \in Seq(Line) /\ e \in Line
    BY LineOK DEF Good
  <2> QED
    BY <1>2, <2>1, AppendProperties
<1>6. /\ IsEvent(e) /\ e.no = n + 1 /\ e.id = x + 1
      /\ \A i \in 1..l: s[i].id \in Nat /\ s[i].id <= x
  <2>1. \A i \in 1..l: s[i] \in Line
    BY <1>1, <1>3, ElementOfSeq
  <2> QED
    BY <1>1, <1>3, <2>1, LineOK DEF Good, Below
<1>7. \A i \in 1..l: IsEvent(s[i]) => s[i].no \in 1..n /\ r[s[i].no] = s[i]
  BY <1>3, <1>4 DEF Good, Faithful
<1>8. Faithful(t, u)
  BY <1>3, <1>4, <1>6, <1>7 DEF Faithful
<1>9. Sorted(t)
  <2> SUFFICES ASSUME NEW i \in DOMAIN t, NEW j \in DOMAIN t, i < j, IsEvent(t[i]), IsEvent(t[j])
               PROVE  t[i].id < t[j].id /\ t[i].no < t[j].no
    BY DEF Sorted
  <2>1. i \in 1..l
    BY <1>3
  <2>2. CASE j \in 1..l
    BY <1>3, <2>1, <2>2 DEF Good, Sorted
  <2>3. CASE j = l + 1
    <3>1. t[i] = s[i] /\ t[j] = e /\ s[i].no \in 1..n /\ s[i].id \in Nat /\ s[i].id <= x
      BY <1>3, <1>6, <1>7, <2>1, <2>3
    <3> QED
      BY <1>4, <1>6, <3>1
  <2> QED
    BY <1>3, <2>2, <2>3
<1>10. Below(t, x + 1)
  <2>1. \A i \in 1..l: s[i].id <= x + 1
    BY <1>6
  <2>2. e.id <= x + 1
    BY <1>6
  <2> QED
    BY <1>3, <2>1, <2>2 DEF Below
<1>11. Bad(t) = Bad(s)
  BY <1>3, <1>6 DEF Bad
<1> QED
  BY <1>2, <1>3, <1>5, <1>8, <1>9, <1>10, <1>11 DEF Good

\* A write appends the line, or spoils the torn line it is appended to.
LEMMA AppendLineOK ==
  ASSUME NEW s \in Seq(Line), NEW r \in Seq(Log!Event), NEW x \in Nat, Good(s, r, x),
         NEW e \in Log!Event, e.id = x + 1, e.no = Len(r) + 1
  PROVE  /\ Good(AppendLine(s, e), Append(r, e), x + 1)
         /\ Bad(AppendLine(s, e)) = Bad(s)
         /\ Bad(s) = {} => AppendLine(s, e) = Append(s, e)
<1>1. CASE IsTorn(s)
  <2>1. Bad(s) # {}
    <3>1. Len(s) \in DOMAIN s /\ s[Len(s)] = Torn
      BY <1>1, LenProperties, EmptySeq DEF IsTorn
    <3> QED
      BY <3>1, LineOK DEF Bad
  <2> QED
    BY <1>1, <2>1, GoodJunk, GoodLater DEF AppendLine
<1>2. CASE ~IsTorn(s)
  BY <1>2, GoodAppend, LineOK DEF AppendLine
<1> QED
  BY <1>1, <1>2


LEMMA BadFinite ==
  ASSUME NEW s \in Seq(Line)
  PROVE  IsFiniteSet(Bad(s)) /\ Cardinality(Bad(s)) \in Nat
<1>1. Len(s) \in Nat /\ DOMAIN s = 1..Len(s)
  BY LenProperties
<1>2. IsFiniteSet(1..Len(s))
  BY <1>1, FS_Interval
<1>3. Bad(s) \subseteq 1..Len(s)
  BY <1>1 DEF Bad
<1> QED
  BY <1>2, <1>3, FS_Subset, FS_CardinalityType

LEMMA TearOK ==
  ASSUME NEW s \in Seq(Line), NEW r, NEW x \in Nat, Good(s, r, x), NEW n \in Nat,
         Cardinality(Bad(s)) <= n
  PROVE  Good(Tear(s), r, x) /\ Cardinality(Bad(Tear(s))) <= n + 1
<1>1. IsFiniteSet(Bad(s)) /\ Cardinality(Bad(s)) \in Nat
  BY BadFinite
<1>2. CASE IsTorn(s)
  BY <1>1, <1>2 DEF Tear
<1>3. CASE ~IsTorn(s)
  <2>1. Tear(s) = Append(s, Torn)
    BY <1>3 DEF Tear
  <2> DEFINE B == Bad(s)
             C == B \cup {Len(s) + 1}
  <2>2. Cardinality(C) = IF Len(s) + 1 \in B THEN Cardinality(B) ELSE Cardinality(B) + 1
    BY <1>1, FS_AddElement
  <2>3. Good(Append(s, Torn), r, x) /\ Bad(Append(s, Torn)) = Bad(s) \cup {Len(s) + 1}
    BY GoodTorn
  <2>4. Cardinality(C) <= n + 1
    <3>1. Cardinality(B) \in Nat /\ Cardinality(B) <= n
      BY <1>1
    <3> HIDE DEF B, C
    <3> QED
      BY <2>2, <3>1
  <2> QED
    BY <2>1, <2>3, <2>4
<1> QED
  BY <1>2, <1>3

LEMMA SeqSub ==
  ASSUME NEW S, NEW T, S \subseteq T, NEW s \in Seq(S)
  PROVE  s \in Seq(T)
<1>1. Len(s) \in Nat /\ s \in [1..Len(s) -> S]
  BY LenProperties
<1>2. s \in [1..Len(s) -> T]
  BY <1>1
<1> QED
  BY <1>1, <1>2

\* The events among some lines.
LEMMA EventsOK ==
  ASSUME NEW s, NEW r, NEW x, Good(s, r, x)
  PROVE  /\ Events(s) \in Seq(Log!Event) /\ Good(Events(s), r, x)
         /\ Len(Events(s)) \in Nat /\ Len(Events(s)) <= Len(s)
         /\ \A i \in DOMAIN s: IsEvent(s[i]) => \E k \in DOMAIN Events(s): Events(s)[k] = s[i]
         /\ Bad(s) = {} => Events(s) = s
<1> DEFINE D == {i \in DOMAIN s : s[i].id > 0}
<1>1. PICK p: p = Events(s)
  OBVIOUS
<1>2. p = Log!Picked(s, D) /\ D \in SUBSET DOMAIN s /\ s \in Seq(Line)
  BY <1>1 DEF Events, Good
<1>3. \A i: i \in D <=> i \in DOMAIN s /\ IsEvent(s[i])
  BY DEF IsEvent
<1> HIDE DEF D
<1>4. p \in Seq(Line) /\ Good(p, r, x) /\ Len(p) \in Nat /\ Len(p) <= Len(s)
  BY <1>2, GoodPicked
<1>5. Picks(p, s, D)
  BY <1>2, PickedOK
<1>6. PICK m \in 0..Len(s): \E f \in [1..m -> D]:
        /\ Len(p) = m /\ \A k \in 1..m: p[k] = s[f[k]]
        /\ \A i \in D: \E k \in 1..m: f[k] = i
  BY <1>5 DEF Picks
<1>7. PICK f \in [1..m -> D]:
        /\ Len(p) = m /\ \A k \in 1..m: p[k] = s[f[k]]
        /\ \A i \in D: \E k \in 1..m: f[k] = i
  BY <1>6
<1>8. DOMAIN p = 1..m
  BY <1>4, <1>7, LenProperties
<1>9. p \in Seq(Log!Event)
  <2>1. \A k \in 1..m: p[k] \in Log!Event
    <3> TAKE k \in 1..m
    <3>1. f[k] \in D /\ p[k] = s[f[k]]
      BY <1>7
    <3>2. IsEvent(p[k])
      BY <1>3, <3>1
    <3>3. p[k] \in Line
      BY <1>4, <1>8, ElementOfSeq, LenProperties
    <3> QED
      BY <3>2, <3>3, LineOK
  <2>2. m \in Nat /\ p \in [1..m -> Log!Event]
    BY <1>4, <1>7, <1>8, <2>1, LenProperties
  <2> QED
    BY <2>2
<1>10. \A i \in DOMAIN s: IsEvent(s[i]) => \E k \in DOMAIN p: p[k] = s[i]
  BY <1>3, <1>7, <1>8
<1>11. ASSUME Bad(s) = {} PROVE p = s
  <2>1. D = DOMAIN s
    BY <1>3, <1>11 DEF Bad
  <2> QED
    BY <1>2, <2>1, PickedAll
<1> QED
  BY <1>1, <1>4, <1>9, <1>10, <1>11

LEMMA SortedEvents ==
  ASSUME NEW s \in Seq(Log!Event), Sorted(s)
  PROVE  Log!InOrder(s)
<1>1. \A i \in DOMAIN s: s[i] \in Log!Event /\ IsEvent(s[i])
  BY ElementOfSeq, LenProperties, LineOK
<1> QED
  BY <1>1 DEF Log!InOrder, Sorted

\* What the invariant says of the ring and the file of a service that runs.
LEMMA UpOK ==
  ASSUME StoreInv, up
  PROVE  /\ Good(Content, recorded, nextID) /\ Good(file, recorded, nextID)
         /\ nextID \in 0..Len(recorded)
<1>1. Content \in Seq(Log!Event)
  BY ContentType DEF StoreInv
<1>2. Content \in Seq(Line) /\ file \in Seq(Line)
  BY <1>1, SeqSub, LineOK DEF StoreInv, TypeOK
<1> QED
  BY <1>2 DEF StoreInv, IDsOK, Good

\* The invariant again, from the same of the new ring and the new file.
LEMMA InvAgain ==
  ASSUME TypeOK', RingOK', NEW x \in Nat, x <= Len(recorded'),
         Good(file', recorded', x), up' => nextID' = x /\ Good(Content', recorded', x),
         ~up' => Content' = <<>>, TearsOK', IntactOK'
  PROVE  StoreInv'
<1>1. Len(recorded') \in Nat
  BY LenProperties DEF TypeOK
<1>2. IDsOK'
  BY <1>1 DEF IDsOK, Good
<1>3. Faithful(file', recorded') /\ Sorted(file')
  BY DEF Good
<1>4. Faithful(Content', recorded') /\ Sorted(Content')
  BY DEF Good, Faithful, Sorted
<1> QED
  BY <1>2, <1>3, <1>4 DEF StoreInv

LEMMA InitOK == Init => StoreInv /\ Log!LogInit
<1> SUFFICES ASSUME Init PROVE StoreInv /\ Log!LogInit
  OBVIOUS
<1>1. /\ Cap \in Nat \ {0} /\ 0 \in 0..Cap - 1 /\ 0 \in 0..MaxTears
      /\ \A S: <<>> \in Seq(S)
  BY StoreBounds, MaxTearsAssumption
<1>2. TypeOK
  BY <1>1 DEF Init, TypeOK
<1>3. RingOK
  BY <1>1 DEF Init, RingOK
<1>4. Content = <<>>
  BY <1>2, ContentIs DEF Init
<1>5. \A i \in DOMAIN <<>>: FALSE
  OBVIOUS
<1>6. Faithful(<<>>, recorded) /\ Sorted(<<>>) /\ Bad(<<>>) = {} /\ \A x: Below(<<>>, x)
  BY <1>5 DEF Faithful, Sorted, Bad, Below
<1>7. Log!Newest(<<>>, Cap) = <<>>
  <2>1. <<>> \in Seq(Line) /\ 0 = Len(<<>>) /\ ~(0 > Cap) /\ Cap \in Nat
    BY <1>1
  <2> QED
    BY <2>1, NewestIs
<1>8. IDsOK /\ TearsOK /\ IntactOK
  <2>1. file = <<>> /\ recorded = <<>> /\ nextID = 0 /\ tears = 0 /\ writer = "open" /\ disk = TRUE
    BY DEF Init
  <2>2. 0 \in 0..Len(<<>>)
    OBVIOUS
  <2> QED
    BY <1>4, <1>6, <1>7, <2>1, <2>2, FS_EmptySet DEF IDsOK, TearsOK, IntactOK
<1>9. Log!LogInit
  BY <1>4 DEF Init, Log!LogInit
<1> QED
  BY <1>2, <1>3, <1>4, <1>6, <1>8, <1>9 DEF StoreInv, Init

----------------------------------------------------------------------------
(***************************************************************************)
(* The steps.  Each keeps the invariant, is a step of the audit log, and   *)
(* takes only old lines from the file.                                     *)
(***************************************************************************)
StepOK == StoreInv' /\ [Log!LogNext]_Log!logVars

OldLeave ==
  intact /\ up' =>
    \A i \in DOMAIN file:
      \/ \E j \in DOMAIN file': file'[j] = file[i]
      \/ ~Log!Young(file[i])
      \/ i + Cap <= Len(file)

LEMMA OldLeaveSame == ASSUME UNCHANGED file PROVE OldLeave
BY DEF OldLeave

LEMMA NewEventOK ==
  ASSUME StoreInv, NEW at \in 0..now, NEW id \in Nat
  PROVE  /\ Log!NewEvent(id + 1, at) \in Log!Event
         /\ Log!NewEvent(id + 1, at).id = id + 1
         /\ Log!NewEvent(id + 1, at).no = Len(recorded) + 1
<1>1. Len(recorded) \in Nat /\ now \in Nat
  BY LenProperties DEF StoreInv, TypeOK
<1>2. at \in Nat /\ id + 1 \in Nat \ {0} /\ Len(recorded) + 1 \in Nat \ {0}
  BY <1>1
<1> QED
  BY <1>2 DEF Log!NewEvent, Log!Event

LEMMA PostOK ==
  ASSUME StoreInv, NEW at \in 0..now, Post(at)
  PROVE  StepOK /\ OldLeave
<1>0. PICK e: e = Log!NewEvent(nextID + 1, at)
  OBVIOUS
<1>1. /\ up /\ Len(recorded) < MaxPosts
      /\ recorded' = Append(recorded, e) /\ nextID' = nextID + 1
      /\ ring' = [ring EXCEPT ![head] = e] /\ head' = After(head)
      /\ full' = (full \/ head' = 0)
      /\ WriteLine(e) /\ UNCHANGED <<now, up, disk, intact>>
  BY <1>0 DEF Post
<1>2. /\ TypeOK /\ RingOK /\ TearsOK /\ IntactOK /\ nextID \in Nat /\ file \in Seq(Line)
      /\ recorded \in Seq(Log!Event) /\ tears \in 0..MaxTears
  BY DEF StoreInv, TypeOK
<1>3. e \in Log!Event /\ e.id = nextID + 1 /\ e.no = Len(recorded) + 1
  BY <1>0, <1>2, NewEventOK
<1>4. /\ Good(Content, recorded, nextID) /\ Good(file, recorded, nextID)
      /\ nextID \in 0..Len(recorded) /\ Content \in Seq(Log!Event)
  BY <1>1, <1>2, UpOK, ContentType
<1>5. /\ ring' \in [0..Cap - 1 -> Log!Event \cup {NoEvent}]
      /\ head' \in 0..Cap - 1 /\ full' \in BOOLEAN
      /\ RingOK' /\ Content' = Log!Newest(Append(Content, e), Cap)
  BY <1>1, <1>2, <1>3, RingPost
<1>6. Good(Content', recorded', nextID + 1)
  <2>1. Good(Append(Content, e), Append(recorded, e), nextID + 1)
    BY <1>2, <1>3, <1>4, GoodAppend, LineOK
  <2> QED
    BY <1>1, <1>5, <2>1, GoodNewest, StoreBounds
<1>7. /\ Good(file, recorded', nextID + 1) /\ Good(file, recorded', nextID)
      /\ Good(AppendLine(file, e), recorded', nextID + 1)
      /\ Bad(AppendLine(file, e)) = Bad(file)
      /\ Bad(file) = {} => AppendLine(file, e) = Append(file, e)
  BY <1>1, <1>2, <1>3, <1>4, GoodLater, AppendLineOK
<1>8. Good(file', recorded', nextID + 1) /\ TearsOK' /\ writer' \in {"open", "stuck"}
      /\ tears' \in 0..MaxTears
  <2>1. CASE file' = file /\ tears' = tears /\ writer' \in {"open", "stuck"}
    BY <1>2, <1>7, <2>1 DEF TearsOK
  <2>2. CASE file' = AppendLine(file, e) /\ tears' = tears /\ writer' \in {"open", "stuck"}
    BY <1>2, <1>7, <2>2 DEF TearsOK
  <2>3. CASE file' = Tear(file) /\ tears < MaxTears /\ tears' = tears + 1 /\ writer' = "stuck"
    <3>1. tears \in Nat /\ nextID + 1 \in Nat
      BY <1>2, MaxTearsAssumption
    <3>2. Good(Tear(file), recorded', nextID + 1) /\ Cardinality(Bad(Tear(file))) <= tears + 1
      BY <1>2, <1>7, <3>1, TearOK DEF TearsOK
    <3>3. tears + 1 \in 0..MaxTears
      BY <1>2, <2>3, MaxTearsAssumption
    <3> QED
      BY <2>3, <3>2, <3>3 DEF TearsOK
  <2> QED
    BY <1>1, <1>2, <2>1, <2>2, <2>3 DEF WriteLine, FileMayTear, TypeOK
<1>9. recorded' \in Seq(Log!Event) /\ Len(recorded') = Len(recorded) + 1 /\ Len(recorded) \in Nat
  BY <1>1, <1>2, <1>3, AppendProperties, LenProperties
<1>10. TypeOK'
  BY <1>1, <1>2, <1>5, <1>8, <1>9 DEF TypeOK, Good
<1>11. intact => /\ disk /\ Bad(file) = {} /\ writer = "open"
                 /\ Content = Log!Newest(file, Cap)
                 /\ file' = Append(file, e) /\ writer' = "open"
  BY <1>1, <1>2, <1>7 DEF IntactOK, WriteLine
<1>12. IntactOK'
  <2> SUFFICES ASSUME intact PROVE IntactOK'
    BY <1>1 DEF IntactOK
  <2>1. Bad(file') = {}
    BY <1>7, <1>11
  <2>2. Content' = Log!Newest(file', Cap)
    <3>1. e \in Line /\ Cap \in Nat \ {0}
      BY <1>3, LineOK, StoreBounds
    <3>2. Log!Newest(Append(Log!Newest(file, Cap), e), Cap) = Log!Newest(Append(file, e), Cap)
      BY <1>2, <3>1, NewestAppend
    <3> QED
      BY <1>5, <1>11, <3>2
  <2> QED
    BY <1>1, <1>11, <2>1, <2>2 DEF IntactOK
<1>13. StoreInv'
  <2>1. nextID + 1 \in Nat /\ nextID + 1 <= Len(recorded')
    BY <1>2, <1>4, <1>9
  <2> QED
    BY <1>1, <1>5, <1>6, <1>8, <1>10, <1>12, <2>1, InvAgain
<1>14. Log!Record(at)
  <2>1. up /\ up'
    BY <1>1
  <2> QED
    BY <1>0, <1>1, <1>5, <2>1 DEF Log!Record
<1>15. OldLeave
  <2> SUFFICES ASSUME intact, NEW i \in DOMAIN file
               PROVE  \E j \in DOMAIN file': file'[j] = file[i]
    BY DEF OldLeave
  <2>1. file' = Append(file, e)
    BY <1>11
  <2>2. i \in 1..Len(file) /\ Len(file) \in Nat
    BY <1>2, LenProperties
  <2>3. e \in Line
    BY <1>3, LineOK
  <2>4. i \in DOMAIN file' /\ file'[i] = file[i]
    BY <1>2, <2>1, <2>2, <2>3, AppendProperties, LenProperties
  <2> QED
    BY <2>4
<1> QED
  BY <1>13, <1>14, <1>15 DEF StepOK, Log!LogNext

\* What a compaction keeps, and what becomes of the file.
LEMMA CompactOK ==
  ASSUME StoreInv, NEW oversize \in BOOLEAN, Compact(oversize)
  PROVE  StepOK /\ OldLeave
<1>0. PICK keep: keep = Log!AllYoung(Content)
  OBVIOUS
<1>1. /\ up /\ Load(keep)
      /\ oversize \/ keep # Content => Rewrite(keep)
      /\ ~(oversize \/ keep # Content) => UNCHANGED <<file, writer, tears>>
      /\ UNCHANGED <<now, recorded, nextID, up, disk, intact>>
  BY <1>0 DEF Compact
<1>2. /\ TypeOK /\ RingOK /\ TearsOK /\ IntactOK /\ nextID \in Nat /\ file \in Seq(Line)
      /\ recorded \in Seq(Log!Event) /\ tears \in 0..MaxTears
  BY DEF StoreInv, TypeOK
<1>3. /\ Good(Content, recorded, nextID) /\ Good(file, recorded, nextID)
      /\ nextID \in 0..Len(recorded)
      /\ Content \in Seq(Log!Event) /\ Len(Content) \in 0..Cap
  BY <1>1, <1>2, UpOK, ContentType
<1> DEFINE D == {i \in DOMAIN Content : Log!Young(Content[i])}
<1>4. keep = Log!Picked(Content, D) /\ D \in SUBSET DOMAIN Content
  BY <1>0 DEF Log!AllYoung
<1>5. /\ keep \in Seq(Log!Event) /\ Good(keep, recorded, nextID)
      /\ Len(keep) \in Nat /\ Len(keep) <= Len(Content)
  BY <1>3, <1>4, LineOK, GoodPicked
<1>6. Len(keep) <= Cap /\ Cap \in Nat
  BY <1>3, <1>5, StoreBounds
<1>7. /\ ring' \in [0..Cap - 1 -> Log!Event \cup {NoEvent}]
      /\ head' \in 0..Cap - 1 /\ full' \in BOOLEAN
      /\ RingOK' /\ Content' = keep
  BY <1>1, <1>5, <1>6, LoadOK
<1>8. Bad(keep) = {} /\ keep \in Seq(Line)
  <2>1. \A i \in DOMAIN keep: keep[i] \in Log!Event
    BY <1>5, ElementOfSeq, LenProperties
  <2> QED
    BY <1>5, <2>1, LineOK, SeqSub DEF Bad
<1>9. Good(file', recorded, nextID) /\ TearsOK' /\ writer' \in {"open", "stuck"}
      /\ tears' \in 0..MaxTears
  <2>1. CASE file' = file /\ tears' = tears /\ writer' \in {"open", "stuck"}
    BY <1>2, <1>3, <2>1 DEF TearsOK
  <2>2. CASE file' = keep /\ tears' = tears /\ writer' \in {"open", "stuck"}
    <3>1. Cardinality(Bad(keep)) <= tears
      BY <1>2, <1>8, FS_EmptySet, MaxTearsAssumption
    <3> QED
      BY <1>2, <1>5, <2>2, <3>1 DEF TearsOK
  <2>3. ASSUME NEW n \in 0..Len(keep) - 1, FileMayTear(SubSeq(keep, 1, n)),
               writer' \in {"open", "stuck"}
        PROVE  Good(file', recorded, nextID) /\ TearsOK' /\ tears' \in 0..MaxTears
    <3>1. PICK p: p = SubSeq(keep, 1, n)
      OBVIOUS
    <3>2. n \in 0..Len(keep)
      BY <1>5
    <3>3. Good(p, recorded, nextID) /\ Bad(p) = {} /\ p \in Seq(Line)
      BY <1>5, <1>8, <3>1, <3>2, GoodFirst DEF Good
    <3>4. tears \in Nat /\ Cardinality(Bad(p)) <= tears /\ MaxTears \in Nat
      BY <1>2, <3>3, FS_EmptySet, MaxTearsAssumption
    <3>5. CASE file' = p /\ tears' = tears
      BY <1>2, <3>3, <3>4, <3>5 DEF TearsOK
    <3>6. CASE tears < MaxTears /\ file' = Tear(p) /\ tears' = tears + 1
      <4>1. Good(Tear(p), recorded, nextID) /\ Cardinality(Bad(Tear(p))) <= tears + 1
        BY <1>2, <3>3, <3>4, TearOK
      <4>2. tears + 1 \in 0..MaxTears
        BY <3>4, <3>6
      <4> QED
        BY <3>6, <4>1, <4>2 DEF TearsOK
    <3> QED
      BY <2>3, <3>1, <3>5, <3>6 DEF FileMayTear
  <2> QED
    BY <1>1, <1>2, <2>1, <2>2, <2>3 DEF Rewrite, StoreInv, TypeOK
<1>10. TypeOK'
  BY <1>1, <1>2, <1>7, <1>9 DEF TypeOK, Good
<1>11. intact => /\ disk /\ Bad(file) = {} /\ writer' = "open"
                 /\ Content = Log!Newest(file, Cap)
                 /\ file' = keep \/ (file' = file /\ keep = Content)
  <2> SUFFICES ASSUME intact
               PROVE  /\ disk /\ Bad(file) = {} /\ writer' = "open"
                      /\ Content = Log!Newest(file, Cap)
                      /\ file' = keep \/ (file' = file /\ keep = Content)
    OBVIOUS
  <2>1. disk /\ Bad(file) = {} /\ writer = "open" /\ Content = Log!Newest(file, Cap)
    BY <1>1, <1>2 DEF IntactOK
  <2>2. CASE oversize \/ keep # Content
    <3>1. Rewrite(keep)
      BY <1>1, <2>2
    <3>2. file' = keep /\ writer' = "open"
      BY <2>1, <3>1 DEF Rewrite
    <3> QED
      BY <2>1, <3>2
  <2>3. CASE ~(oversize \/ keep # Content)
    BY <1>1, <2>1, <2>3
  <2> QED
    BY <2>1, <2>2, <2>3
<1>12. IntactOK'
  <2> SUFFICES ASSUME intact PROVE IntactOK'
    BY <1>1 DEF IntactOK
  <2>1. Bad(file') = {}
    BY <1>8, <1>11
  <2>2. keep = Log!Newest(file', Cap)
    <3>1. Log!Newest(keep, Cap) = keep
      <4>1. PICK l: l = Len(keep)
        OBVIOUS
      <4>2. ~(l > Cap)
        BY <1>5, <1>6, <4>1
      <4> QED
        BY <1>6, <1>8, <4>1, <4>2, NewestIs
    <3> QED
      BY <1>11, <3>1
  <2> QED
    BY <1>1, <1>7, <1>11, <2>1, <2>2 DEF IntactOK
<1>13. StoreInv'
  <2>1. nextID \in Nat /\ nextID <= Len(recorded')
    BY <1>1, <1>2, <1>3, LenProperties
  <2> QED
    BY <1>1, <1>5, <1>7, <1>9, <1>10, <1>12, <2>1, InvAgain
<1>14. Log!Expire
  BY <1>0, <1>1, <1>7 DEF Log!Expire
<1>15. OldLeave
  <2> SUFFICES ASSUME intact, NEW i \in DOMAIN file, Log!Young(file[i]), ~(i + Cap <= Len(file))
               PROVE  \E j \in DOMAIN file': file'[j] = file[i]
    BY DEF OldLeave
  <2>1. CASE file' = file
    BY <2>1
  <2>2. CASE file' = keep
    <3>1. PICK l: l = Len(file)
      OBVIOUS
    <3>2. l \in Nat /\ i \in 1..l /\ i > l - Cap
      BY <1>2, <1>6, <3>1, LenProperties
    <3>3. PICK k \in DOMAIN Content: Content[k] = file[i]
      <4>1. CASE l > Cap
        <5>1. i + Cap - l \in 1..Cap /\ i + Cap - l + l - Cap = i
          BY <1>6, <3>2, <4>1
        <5>2. Len(Log!Newest(file, Cap)) = Cap
          BY <1>2, <1>6, <3>1, <4>1, NewestIs
        <5>3. Log!Newest(file, Cap)[i + Cap - l] = file[i + Cap - l + l - Cap]
          BY <1>2, <1>6, <3>1, <4>1, <5>1, NewestAt, ZenonT(40)
        <5>4. i + Cap - l \in DOMAIN Content
          BY <1>3, <1>11, <5>1, <5>2, LenProperties
        <5> QED
          BY <1>11, <5>1, <5>3, <5>4
      <4>2. CASE ~(l > Cap)
        <5>1. Log!Newest(file, Cap) = file
          BY <1>2, <1>6, <3>1, <4>2, NewestIs
        <5> QED
          BY <1>11, <5>1
      <4> QED
        BY <4>1, <4>2
    <3>4. k \in D
      BY <3>3
    <3>5. Picks(keep, Content, D)
      BY <1>3, <1>4, PickedOK
    <3>6. PICK m \in 0..Len(Content): \E f \in [1..m -> D]:
            /\ Len(keep) = m /\ \A n \in 1..m: keep[n] = Content[f[n]]
            /\ \A d \in D: \E n \in 1..m: f[n] = d
      BY <3>5 DEF Picks
    <3>7. \E n \in 1..m: keep[n] = Content[k] /\ Len(keep) = m
      BY <3>4, <3>6
    <3>8. \E n \in DOMAIN keep: keep[n] = Content[k]
      BY <1>5, <3>7, LenProperties
    <3> QED
      BY <2>2, <3>3, <3>8
  <2> QED
    BY <1>11, <2>1, <2>2
<1> QED
  BY <1>13, <1>14, <1>15 DEF StepOK, Log!LogNext

\* A crash may add the event that was being written, or part of it.
LEMMA CrashOK ==
  ASSUME StoreInv, Crash
  PROVE  StepOK /\ OldLeave
<1>1. /\ up /\ up' = FALSE /\ head' = 0 /\ full' = FALSE /\ nextID' = 0 /\ writer' = "stuck"
      /\ ring' = [i \in 0..Cap - 1 |-> NoEvent]
      /\ UNCHANGED <<now, disk>>
  BY DEF Crash
<1>2. /\ TypeOK /\ RingOK /\ TearsOK /\ IntactOK /\ nextID \in Nat /\ file \in Seq(Line)
      /\ recorded \in Seq(Log!Event) /\ tears \in 0..MaxTears /\ tears \in Nat
      /\ intact \in BOOLEAN /\ now \in Nat
  BY MaxTearsAssumption DEF StoreInv, TypeOK
<1>3. Good(file, recorded, nextID) /\ nextID \in 0..Len(recorded)
  BY <1>1, UpOK
<1>4. Len(recorded) \in Nat /\ 0 \in 0..Cap - 1
  BY <1>2, LenProperties, StoreBounds
<1>5. CASE FileMayTear(file) /\ intact' = (intact /\ tears' = tears) /\ UNCHANGED recorded
  <2>1. Good(file', recorded', nextID) /\ TearsOK' /\ tears' \in 0..MaxTears
    <3>1. CASE file' = file /\ tears' = tears
      BY <1>2, <1>3, <1>5, <3>1 DEF TearsOK
    <3>2. CASE tears < MaxTears /\ file' = Tear(file) /\ tears' = tears + 1
      <4>1. Good(Tear(file), recorded, nextID) /\ Cardinality(Bad(Tear(file))) <= tears + 1
        BY <1>2, <1>3, TearOK DEF TearsOK
      <4>2. tears + 1 \in 0..MaxTears
        BY <1>2, <3>2, MaxTearsAssumption
      <4> QED
        BY <1>5, <3>2, <4>1, <4>2 DEF TearsOK
    <3> QED
      BY <1>5, <3>1, <3>2 DEF FileMayTear
  <2>2. intact' \in BOOLEAN
    BY <1>2, <1>5
  <2>3. IntactOK'
    <3>1. intact' => intact /\ tears' = tears
      BY <1>5, Zenon
    <3>2. tears' = tears => file' = file
      BY <1>2, <1>5 DEF FileMayTear
    <3> QED
      BY <1>1, <1>2, <3>1, <3>2 DEF IntactOK
  <2>4. TypeOK'
    BY <1>1, <1>2, <1>4, <1>5, <2>1, <2>2 DEF TypeOK, Good
  <2>5. Content' = <<>> /\ RingOK'
    BY <1>1, <1>4, <2>4, ContentIs DEF RingOK, Content, Size
  <2>6. StoreInv'
    BY <1>1, <1>3, <1>5, <2>1, <2>3, <2>4, <2>5, InvAgain
  <2>7. Log!Stop
    BY <1>1, <1>5 DEF Log!Stop
  <2> QED
    BY <1>1, <2>6, <2>7 DEF StepOK, Log!LogNext, OldLeave
<1>6. CASE /\ writer = "open" /\ Len(recorded) < MaxPosts
           /\ file' = AppendLine(file, Log!NewEvent(nextID + 1, now))
           /\ recorded' = Append(recorded, Log!NewEvent(nextID + 1, now))
           /\ UNCHANGED <<tears, intact>>
  <2>0. PICK e: e = Log!NewEvent(nextID + 1, now)
    OBVIOUS
  <2>1. e \in Log!Event /\ e.id = nextID + 1 /\ e.no = Len(recorded) + 1
    BY <1>2, <2>0, NewEventOK, now \in 0..now
  <2>2. /\ Good(file', recorded', nextID + 1)
        /\ Bad(file') = Bad(file)
    BY <1>2, <1>3, <1>6, <2>0, <2>1, AppendLineOK
  <2>3. recorded' \in Seq(Log!Event) /\ Len(recorded') = Len(recorded) + 1
    BY <1>2, <1>6, <2>0, <2>1, AppendProperties
  <2>4. TearsOK' /\ IntactOK'
    BY <1>1, <1>2, <1>6, <2>2 DEF TearsOK, IntactOK
  <2>5. TypeOK'
    BY <1>1, <1>2, <1>4, <1>6, <2>2, <2>3 DEF TypeOK, Good
  <2>6. Content' = <<>> /\ RingOK'
    BY <1>1, <1>4, <2>5, ContentIs DEF RingOK, Content, Size
  <2>7. StoreInv'
    <3>1. nextID + 1 \in Nat /\ nextID + 1 <= Len(recorded')
      BY <1>2, <1>3, <1>4, <2>3
    <3> QED
      BY <1>1, <2>2, <2>4, <2>5, <2>6, <3>1, InvAgain
  <2>8. Log!Stop
    BY <1>1, <1>2, <1>6, now \in 0..now DEF Log!Stop
  <2> QED
    BY <1>1, <2>7, <2>8 DEF StepOK, Log!LogNext, OldLeave
<1> QED
  BY <1>5, <1>6 DEF Crash

\* No ID in the file is higher than those of the events that are found in its
\* last Cap lines: not all of these are torn.
LEMMA FoundOK ==
  ASSUME StoreInv, NEW found, found = Events(Log!Newest(file, Cap)), NEW x, Good(file, recorded, x)
  PROVE  /\ found \in Seq(Log!Event) /\ Len(found) \in 0..Cap
         /\ Good(found, recorded, x)
         /\ Bad(file) = {} => found = Log!Newest(file, Cap)
         /\ \A i \in DOMAIN file: IsEvent(file[i]) =>
              \E k \in DOMAIN found: file[i].id <= found[k].id
<1>1. PICK l, w: l = Len(file) /\ w = Log!Newest(file, Cap)
  OBVIOUS
<1>2. /\ l \in Nat /\ DOMAIN file = 1..l /\ file \in Seq(Line) /\ Cap \in Nat \ {0}
      /\ \A i \in 1..l: file[i] \in Line /\ file[i].id \in Nat
  BY <1>1, LenProperties, ElementOfSeq, LineOK, StoreBounds DEF Good
<1>3. w \in Seq(Line) /\ (~(l > Cap) => w = file) /\ (l > Cap => Len(w) = Cap)
  BY <1>1, <1>2, NewestIs
<1>4. Good(w, recorded, x) /\ (Bad(file) = {} => Bad(w) = {}) /\ Len(w) <= Cap
  <2>1. Good(w, recorded, x) /\ (Bad(file) = {} => Bad(w) = {})
    BY <1>1, <1>2, GoodNewest
  <2> QED
    BY <1>1, <1>2, <1>3, <2>1
<1>5. /\ found \in Seq(Log!Event) /\ Good(found, recorded, x)
      /\ Len(found) \in Nat /\ Len(found) <= Len(w)
      /\ \A i \in DOMAIN w: IsEvent(w[i]) => \E k \in DOMAIN found: found[k] = w[i]
      /\ Bad(w) = {} => found = w
  BY <1>1, <1>4, EventsOK
<1>6. Len(found) \in 0..Cap
  BY <1>2, <1>3, <1>4, <1>5, LenProperties
<1>7. ASSUME NEW i \in 1..l, IsEvent(file[i])
      PROVE  \E k \in DOMAIN found: file[i].id <= found[k].id
  <2>1. CASE ~(l > Cap)
    <3>1. PICK k \in DOMAIN found: found[k] = file[i]
      BY <1>2, <1>3, <1>5, <1>7, <2>1
    <3> QED
      BY <1>2, <3>1
  <2>2. CASE l > Cap
    <3> DEFINE last == l - Cap + 1..l
    <3>1. \A j \in last: /\ j - l + Cap \in DOMAIN w /\ w[j - l + Cap] = file[j]
      <4> TAKE j \in last
      <4>1. j - l + Cap \in 1..Cap /\ j - l + Cap + l - Cap = j
        BY <1>2, <2>2
      <4>2. w[j - l + Cap] = file[j - l + Cap + l - Cap]
        BY <1>1, <1>2, <2>2, <4>1, NewestAt
      <4>3. DOMAIN w = 1..Cap
        BY <1>3, <2>2, LenProperties
      <4> QED
        BY <4>1, <4>2, <4>3
    <3>2. \A j \in last: IsEvent(file[j]) => \E k \in DOMAIN found: found[k] = file[j]
      BY <1>5, <3>1
    <3>3. CASE i \in last
      BY <1>2, <1>7, <3>2, <3>3
    <3>4. CASE i \notin last
      <4>1. PICK j \in last: IsEvent(file[j])
        <5>1. IsFiniteSet(last) /\ Cardinality(last) = Cap
          <6>1. l - Cap + 1 \in Int /\ l \in Int /\ ~(l - Cap + 1 > l) /\ l - (l - Cap + 1) + 1 = Cap
            BY <1>2
          <6> QED
            BY <6>1, FS_Interval
        <5>2. /\ IsFiniteSet(Bad(file)) /\ Cardinality(Bad(file)) \in Nat
              /\ Cardinality(Bad(file)) < Cap
          <6>1. Cardinality(Bad(file)) <= tears /\ tears \in 0..MaxTears
            BY DEF StoreInv, TearsOK, TypeOK
          <6> QED
            BY <1>2, <6>1, BadFinite, MaxTearsAssumption
        <5>3. ~(last \subseteq Bad(file))
          <6>1. last \subseteq Bad(file) => Cardinality(last) <= Cardinality(Bad(file))
            BY <5>2, FS_Subset
          <6> HIDE DEF last
          <6> QED
            BY <1>2, <5>1, <5>2, <6>1
        <5>4. last \subseteq DOMAIN file
          BY <1>2, <2>2
        <5> QED
          BY <5>3, <5>4 DEF Bad
      <4>2. i < j /\ j \in 1..l
        BY <1>2, <2>2, <3>4
      <4>3. file[i].id < file[j].id
        BY <1>2, <1>7, <4>1, <4>2 DEF Good, Sorted
      <4>4. file[i].id <= file[j].id
        BY <1>2, <4>2, <4>3
      <4> QED
        BY <3>2, <4>1, <4>4
    <3> QED
      BY <3>3, <3>4
  <2> QED
    BY <2>1, <2>2
<1> QED
  BY <1>1, <1>2, <1>4, <1>5, <1>6, <1>7

\* IDs go on from the last event that is found, which has the highest.
LEMMA HighestIDOK ==
  ASSUME NEW s \in Seq(Log!Event), Sorted(s)
  PROVE  /\ s = <<>> => HighestID(s) = 0
         /\ s # <<>> => /\ Len(s) \in DOMAIN s /\ HighestID(s) = s[Len(s)].id
                       /\ \A i \in DOMAIN s: s[i].id <= HighestID(s)
<1>1. CASE s = <<>>
  BY <1>1 DEF HighestID
<1>2. CASE s # <<>>
  <2>1. PICK l: l = Len(s)
    OBVIOUS
  <2>2. l \in Nat /\ l \in DOMAIN s /\ DOMAIN s = 1..l
    BY <1>2, <2>1, LenProperties, EmptySeq
  <2>3. \A i \in 1..l: IsEvent(s[i]) /\ s[i].id \in Nat
    BY <2>1, <2>2, ElementOfSeq, LineOK
  <2>4. \A i \in 1..l: s[i].id <= s[l].id
    <3> TAKE i \in 1..l
    <3>1. CASE i = l
      BY <2>2, <2>3, <3>1
    <3>2. CASE i < l
      <4>1. s[i].id < s[l].id
        BY <2>2, <2>3, <3>2 DEF Sorted
      <4> QED
        BY <2>2, <2>3, <4>1
    <3> QED
      BY <2>2, <3>1, <3>2
  <2> DEFINE ids == {s[i].id : i \in DOMAIN s}
             h == HighestID(s)
  <2>5. \E id \in ids: \A i \in DOMAIN s: s[i].id <= id
    BY <2>2, <2>4
  <2>6. h = CHOOSE id \in ids: \A i \in DOMAIN s: s[i].id <= id
    BY <1>2 DEF HighestID
  <2>7. h \in ids /\ \A i \in DOMAIN s: s[i].id <= h
    BY <2>5, <2>6
  <2> HIDE DEF h
  <2>8. s[l].id <= h /\ h <= s[l].id /\ h \in Nat /\ s[l].id \in Nat
    BY <2>2, <2>3, <2>4, <2>7
  <2>9. h = s[l].id
    BY <2>8
  <2> QED
    BY <1>2, <2>1, <2>2, <2>7, <2>9 DEF h
<1> QED
  BY <1>1, <1>2

LEMMA RestartOK ==
  ASSUME StoreInv, Restart
  PROVE  StepOK /\ OldLeave
<1>0. PICK found: found = Events(Log!Newest(file, Cap))
  OBVIOUS
<1>1. /\ ~up /\ up' = TRUE /\ Load(found) /\ nextID' = HighestID(found) /\ writer' = "open"
      /\ UNCHANGED <<now, recorded, file, disk, tears, intact>>
  BY <1>0 DEF Restart
<1>2. /\ TypeOK /\ RingOK /\ TearsOK /\ IntactOK /\ file \in Seq(Line)
      /\ recorded \in Seq(Log!Event) /\ Len(recorded) \in Nat
  BY LenProperties DEF StoreInv, TypeOK
<1>3. PICK x \in 0..Len(recorded): Good(file, recorded, x)
  BY <1>2 DEF StoreInv, IDsOK, Good
<1>4. /\ found \in Seq(Log!Event) /\ Len(found) \in 0..Cap /\ Good(found, recorded, x)
      /\ Bad(file) = {} => found = Log!Newest(file, Cap)
      /\ \A i \in DOMAIN file: IsEvent(file[i]) =>
           \E k \in DOMAIN found: file[i].id <= found[k].id
  BY <1>0, <1>3, FoundOK
<1>5. /\ ring' \in [0..Cap - 1 -> Log!Event \cup {NoEvent}]
      /\ head' \in 0..Cap - 1 /\ full' \in BOOLEAN
      /\ RingOK' /\ Content' = found
  BY <1>1, <1>4, LoadOK, StoreBounds
<1>6. PICK h: h = HighestID(found)
  OBVIOUS
<1>7. /\ found = <<>> => h = 0
      /\ found # <<>> => /\ Len(found) \in DOMAIN found /\ h = found[Len(found)].id
                        /\ \A i \in DOMAIN found: found[i].id <= h
  BY <1>4, <1>6, HighestIDOK DEF Good
<1>8. \A k \in DOMAIN found: found[k] \in Log!Event /\ found[k].id \in Nat /\ found[k].id <= x
  BY <1>4, ElementOfSeq, LenProperties, LineOK DEF Good, Below
<1>9. h \in Nat /\ h <= x /\ h <= Len(recorded)
  BY <1>2, <1>3, <1>7, <1>8
<1>10. Below(found, h)
  BY <1>7 DEF Below
<1>11. Below(file, h)
  <2> SUFFICES ASSUME NEW i \in DOMAIN file PROVE file[i].id <= h
    BY DEF Below
  <2>1. file[i] \in Line /\ file[i].id \in Nat
    BY <1>2, ElementOfSeq, LenProperties, LineOK
  <2>2. CASE IsEvent(file[i])
    <3>1. PICK k \in DOMAIN found: file[i].id <= found[k].id
      BY <1>4, <2>2
    <3>2. found[k].id <= h
      BY <1>10 DEF Below
    <3> QED
      BY <1>8, <1>9, <2>1, <3>1, <3>2
  <2>3. CASE ~IsEvent(file[i])
    <3>1. file[i].id = 0
      BY <2>1, <2>3 DEF IsEvent
    <3> QED
      BY <1>9, <3>1
  <2> QED
    BY <2>2, <2>3
<1>12. Good(file', recorded', h) /\ Good(found, recorded', h)
  BY <1>1, <1>3, <1>4, <1>10, <1>11 DEF Good
<1>13. TypeOK'
  BY <1>1, <1>2, <1>5, <1>6, <1>9 DEF TypeOK
<1>14. TearsOK' /\ IntactOK'
  BY <1>1, <1>2, <1>4, <1>5 DEF TearsOK, IntactOK
<1>15. StoreInv'
  BY <1>1, <1>5, <1>6, <1>9, <1>12, <1>13, <1>14, InvAgain
<1>16. Log!Reopen
  <2>1. Len(found) <= Cap
    BY <1>4, StoreBounds
  <2>2. \A i \in DOMAIN found: \E j \in DOMAIN recorded: found[i] = recorded[j]
    BY <1>4, <1>8, LineOK DEF Good, Faithful
  <2>3. Log!InOrder(found)
    BY <1>4, SortedEvents DEF Good
  <2>4. h = IF found = <<>> THEN 0 ELSE found[Len(found)].id
    BY <1>7
  <2>5. up' /\ Content' = found /\ nextID' = h
    BY <1>1, <1>5, <1>6
  <2> QED
    BY <1>1, <2>1, <2>2, <2>3, <2>4, <2>5 DEF Log!Reopen
<1> QED
  BY <1>1, <1>15, <1>16, OldLeaveSame DEF StepOK, Log!LogNext

\* The steps that leave the ring and the file alone.
LEMMA SameOK ==
  ASSUME StoreInv,
         UNCHANGED <<recorded, memory, file, writer, up, tears>>, now' \in Nat,
         disk' \in BOOLEAN, intact' \in BOOLEAN, intact' => intact /\ disk'
  PROVE  StoreInv' /\ OldLeave
<1>1. UNCHANGED <<recorded, ring, head, full, nextID, file, writer, up, tears>>
  BY DEF memory
<1>2. Content' = Content
  BY <1>1 DEF Content, Size
<1>3. TypeOK'
  BY <1>1 DEF StoreInv, TypeOK
<1>4. RingOK'
  BY <1>1 DEF StoreInv, RingOK
<1>5. Faithful(Content, recorded)' /\ Sorted(Content)'
  BY <1>1, <1>2 DEF StoreInv, Faithful, Sorted
<1>6. Faithful(file, recorded)' /\ Sorted(file)'
  BY <1>1 DEF StoreInv, Faithful, Sorted
<1>7. IDsOK' /\ TearsOK'
  BY <1>1, <1>2 DEF StoreInv, IDsOK, TearsOK, Below, Bad
<1>8. IntactOK'
  BY <1>1, <1>2 DEF StoreInv, IntactOK
<1> QED
  BY <1>1, <1>3, <1>4, <1>5, <1>6, <1>7, <1>8, OldLeaveSame DEF StoreInv

LEMMA NextOK ==
  ASSUME StoreInv, [Next]_vars
  PROVE  StepOK /\ OldLeave
<1>1. CASE \E at \in 0..now: Post(at)
  BY <1>1, PostOK
<1>2. CASE \E oversize \in BOOLEAN: Compact(oversize)
  BY <1>2, CompactOK
<1>3. CASE Crash
  BY <1>3, CrashOK
<1>4. CASE Restart
  BY <1>4, RestartOK
<1> DEFINE same == UNCHANGED <<recorded, memory, file, writer, up, tears>>
<1>5. same => UNCHANGED <<recorded, IF up THEN Content ELSE <<>>, IF up THEN nextID ELSE 0>>
  BY DEF memory, Content, Size
<1>6. now \in Nat /\ disk \in BOOLEAN /\ intact \in BOOLEAN /\ (intact => disk)
  BY DEF StoreInv, TypeOK, IntactOK
<1>7. CASE Tick
  <2>1. same /\ now' = now + 1 /\ now < MaxNow /\ UNCHANGED <<disk, intact>>
    BY <1>7 DEF Tick
  <2>2. StoreInv' /\ OldLeave
    BY <1>6, <2>1, SameOK
  <2>3. Log!Tick
    BY <1>5, <2>1 DEF Log!Tick
  <2> QED
    BY <2>2, <2>3 DEF StepOK, Log!LogNext
<1>8. CASE DiskChanges
  <2>1. same /\ UNCHANGED now /\ disk' = ~disk /\ intact' = FALSE
    BY <1>8 DEF DiskChanges
  <2>2. StoreInv' /\ OldLeave
    BY <1>6, <2>1, SameOK
  <2>3. UNCHANGED Log!logVars
    BY <1>5, <2>1 DEF Log!logVars
  <2> QED
    BY <2>2, <2>3 DEF StepOK
<1>9. CASE UNCHANGED vars
  <2>1. same /\ UNCHANGED <<now, disk, intact>>
    BY <1>9 DEF vars, memory
  <2>2. StoreInv' /\ OldLeave
    BY <1>6, <2>1, SameOK
  <2>3. UNCHANGED Log!logVars
    BY <1>5, <2>1 DEF Log!logVars
  <2> QED
    BY <2>2, <2>3 DEF StepOK
<1> QED
  BY <1>1, <1>2, <1>3, <1>4, <1>7, <1>8, <1>9 DEF Next

----------------------------------------------------------------------------
(***************************************************************************)
(* The results.                                                            *)
(***************************************************************************)
LEMMA StoreInvHolds == Spec => []StoreInv
<1>1. Init => StoreInv
  BY InitOK
<1>2. StoreInv /\ [Next]_vars => StoreInv'
  BY NextOK DEF StepOK
<1> QED
  BY <1>1, <1>2, PTL DEF Spec

\* While no call on the file failed and no line was cut short, a restart would
\* find every event that can be read (Append, Compact); and whatever failed,
\* the file's events are in order, each ID once (New).
THEOREM RingAndFileHold == Spec => []RingAndFile
<1>1. StoreInv => RingAndFile
  <2> SUFFICES ASSUME StoreInv PROVE RingAndFile
    OBVIOUS
  <2>1. TypeOK /\ file \in Seq(Line)
    BY DEF StoreInv, TypeOK
  <2>2. FileInOrder
    <3>1. PICK x: Good(file, recorded, x)
      BY <2>1 DEF StoreInv, IDsOK, Good
    <3>2. Events(file) \in Seq(Log!Event) /\ Sorted(Events(file))
      BY <3>1, EventsOK DEF Good
    <3> QED
      BY <3>2, SortedEvents DEF FileInOrder
  <2>3. WindowOnDisk
    <3> SUFFICES ASSUME up, intact
                 PROVE  \E n \in 0..Len(file): Content = SubSeq(file, n + 1, Len(file))
      BY DEF WindowOnDisk
    <3>1. PICK l: l = Len(file)
      OBVIOUS
    <3>2. Content = Log!Newest(file, Cap) /\ l \in Nat /\ Cap \in Nat
      BY <2>1, <3>1, LenProperties, StoreBounds DEF StoreInv, IntactOK
    <3>3. CASE l > Cap
      <4>1. Content = SubSeq(file, l - Cap + 1, l) /\ l - Cap \in 0..l
        BY <3>1, <3>2, <3>3 DEF Log!Newest
      <4> QED
        BY <3>1, <4>1
    <3>4. CASE ~(l > Cap)
      <4>1. Content = SubSeq(file, 1, l) /\ 0 \in 0..l /\ 0 + 1 = 1
        BY <3>1, <3>2, <3>4 DEF Log!Newest
      <4> QED
        BY <3>1, <4>1
    <3> QED
      BY <3>3, <3>4
  <2> QED
    BY <2>1, <2>2, <2>3 DEF RingAndFile
<1> QED
  BY <1>1, StoreInvHolds, PTL

\* The ring buffer and its file implement the audit log: through overwritten
\* slots, compactions, crashes and failing disks, readers see the newest
\* events, in order, each once, as they were recorded (Append, Tail, New).
THEOREM StoreImplementsLog == Spec => Implements
<1>1. Init => Log!LogInit
  BY InitOK
<1>2. StoreInv /\ [Next]_vars => [Log!LogNext]_Log!logVars
  BY NextOK DEF StepOK
<1> QED
  BY <1>1, <1>2, StoreInvHolds, PTL DEF Spec, Implements, Log!LogSpec

\* A compaction takes from the file only events that are too old, and events
\* that a ring of newer ones has pushed out (Compact).
THEOREM OnlyOldLinesEverLeave == Spec => OnlyOldLinesLeave
<1>1. StoreInv /\ [Next]_vars => OldLeave
  BY NextOK
<1>2. OldLeave => [OldLeave]_vars
  OBVIOUS
<1>3. [][OldLeave]_vars => OnlyOldLinesLeave
  BY PTL DEF OldLeave, OnlyOldLinesLeave
<1> QED
  BY <1>1, <1>2, <1>3, StoreInvHolds, PTL DEF Spec
============================================================================
