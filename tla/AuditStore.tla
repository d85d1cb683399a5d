----------------------------- MODULE AuditStore -----------------------------
(***************************************************************************)
(* The store of the audit service (internal/audit/audit.go): a ring buffer *)
(* of the newest events and the JSONL file every event is appended to.     *)
(* The service may crash at any point of a write, and calls on the file    *)
(* fail while the disk is failing.                                         *)
(***************************************************************************)
EXTENDS Naturals, Sequences, FiniteSets

CONSTANTS
  Cap,       \* the ring's capacity: 5000 in cmd/audit
  MaxAge,    \* retention: the age at which a compaction drops an event
  MaxPosts,  \* bound: events ever recorded
  MaxNow,    \* bound: the clock stops here
  MaxTears   \* bound: lines ever cut short

\* Were a whole ring of lines cut short, a restart would find no ID to go on from.
ASSUME MaxTearsAssumption == MaxTears \in Nat /\ MaxTears < Cap
ASSUME StoreBounds ==
  Cap \in Nat \ {0} /\ MaxAge \in Nat /\ MaxPosts \in Nat /\ MaxNow \in Nat

VARIABLES
  now, recorded,   \* as in AuditLog
  ring, head, full, nextID,
  file,            \* the lines of audit.jsonl
  writer,          \* "open", or "stuck" on a failed write or a closed file
  up,              \* whether the service runs
  disk,            \* whether calls on the file succeed at present
  tears,           \* lines cut short so far
  intact           \* history variable: no call has failed, no line was cut short

memory == <<ring, head, full, nextID>>
vars == <<now, recorded, memory, file, writer, up, disk, tears, intact>>

----------------------------------------------------------------------------
\* The ring's content, oldest first (Tail returns it newest first).
\* Mutant: a full ring is read one short.
SizeShort == IF full THEN Cap - 1 ELSE head

Size == IF full THEN Cap ELSE head
Content == [i \in 1..Size |-> ring[(head + Cap - Size + i - 1) % Cap]]

Log == INSTANCE AuditLog WITH
         window <- IF up THEN Content ELSE <<>>,
         lastID <- IF up THEN nextID ELSE 0

\* An empty slot of the ring, and two kinds of lines that do not parse: a last
\* line without its end, and a torn line with the line appended to it.
NotEvent(n) == [id |-> 0, at |-> 0, no |-> n]
NoEvent == NotEvent(0)
Torn == NotEvent(1)
Junk == NotEvent(2)
Line == Log!Event \cup {Torn, Junk}

TypeOK ==
  /\ now \in Nat
  /\ recorded \in Seq(Log!Event)
  /\ ring \in [0..Cap - 1 -> Log!Event \cup {NoEvent}]
  /\ head \in 0..Cap - 1
  /\ full \in BOOLEAN
  /\ nextID \in Nat
  /\ file \in Seq(Line)
  /\ writer \in {"open", "stuck"}
  /\ up \in BOOLEAN /\ disk \in BOOLEAN /\ intact \in BOOLEAN
  /\ tears \in 0..MaxTears

Init ==
  /\ now = 0
  /\ recorded = <<>>
  /\ ring = [i \in 0..Cap - 1 |-> NoEvent]
  /\ head = 0 /\ full = FALSE /\ nextID = 0
  /\ file = <<>>
  /\ writer = "open"
  /\ up = TRUE /\ disk = TRUE /\ intact = TRUE
  /\ tears = 0

----------------------------------------------------------------------------
\* A line ends in a newline only if all of it was written.
IsTorn(f) == f # <<>> /\ f[Len(f)] = Torn
AppendLine(f, e) ==
  IF IsTorn(f) THEN [f EXCEPT ![Len(f)] = Junk] ELSE Append(f, e)
Tear(f) == IF IsTorn(f) THEN f ELSE Append(f, Torn)

\* The file becomes f, or f with a line cut short after it.
FileMayTear(f) ==
  \/ file' = f /\ UNCHANGED tears
  \/ tears < MaxTears /\ file' = Tear(f) /\ tears' = tears + 1

\* The events among the lines s.
Events(s) == Log!Picked(s, {i \in DOMAIN s : s[i].id > 0})

\* The next slot of the ring.
After(slot) == (slot + 1) % Cap

\* Mutant: a ring filled to the brim is not full.
LoadNotFull(s) ==
  /\ ring' = [i \in 0..Cap - 1 |-> IF i < Len(s) THEN s[i + 1] ELSE NoEvent]
  /\ head' = Len(s) % Cap
  /\ full' = (Len(s) > Cap)

\* The ring with the events of s in it, oldest first.
Load(s) ==
  /\ ring' = [i \in 0..Cap - 1 |-> IF i < Len(s) THEN s[i + 1] ELSE NoEvent]
  /\ head' = Len(s) % Cap
  /\ full' = (Len(s) >= Cap)

----------------------------------------------------------------------------
\* Append's line.  Errors are ignored, those of fsync without any effect; the
\* buffered writer keeps its first one for ever.
WriteLine(e) ==
  \/ /\ writer = "stuck"
     /\ UNCHANGED <<file, writer, tears>>
  \/ /\ writer = "open"
     /\ file' = AppendLine(file, e)
     /\ UNCHANGED <<writer, tears>>
  \/ /\ writer = "open" /\ ~disk
     /\ FileMayTear(file)
     /\ writer' = "stuck"

\* Append.
Post(at) ==
  LET e == Log!NewEvent(nextID + 1, at) IN
    /\ up
    /\ Len(recorded) < MaxPosts
    /\ recorded' = Append(recorded, e)
    /\ nextID' = nextID + 1
    /\ ring' = [ring EXCEPT ![head] = e]
    /\ head' = After(head)
    /\ full' = (full \/ head' = 0)
    /\ WriteLine(e)
    /\ UNCHANGED <<now, up, disk, intact>>

\* Compact's second half: the file is replaced by one with the events of keep.
Rewrite(keep) ==
  \/ \* the new file is written and renamed, the log is opened again
     /\ file' = keep
     /\ writer' = "open"
     /\ UNCHANGED tears
  \/ \* the new file cannot be created or renamed: the old one is left closed
     /\ ~disk
     /\ writer' = "stuck"
     /\ UNCHANGED <<file, tears>>
  \/ \* not all of the new file is written, which goes unnoticed
     /\ ~disk
     /\ \E n \in 0..Len(keep) - 1: FileMayTear(SubSeq(keep, 1, n))
     /\ writer' \in {"open", "stuck"}
  \/ \* the new log cannot be opened
     /\ ~disk
     /\ file' = keep
     /\ writer' = "stuck"
     /\ UNCHANGED tears

\* Compact rebuilds the ring without the events that are too old; if there were
\* any, or the file is too large, it rewrites the file from the ring.
\* oversize is what the file's size said before the lock was taken.
Compact(oversize) ==
  LET keep == Log!AllYoung(Content) IN
    /\ up
    /\ oversize => file # <<>>
    /\ Load(keep)
    /\ IF oversize \/ keep # Content
       THEN Rewrite(keep)
       ELSE UNCHANGED <<file, writer, tears>>
    /\ UNCHANGED <<now, recorded, nextID, up, disk, intact>>

\* The service dies, perhaps in the middle of an Append whose caller gets no
\* answer: the line is not there, is there, or is there in part.
Crash ==
  /\ up
  /\ up' = FALSE
  /\ \/ /\ FileMayTear(file)
        /\ intact' = (intact /\ tears' = tears)
        /\ UNCHANGED recorded
     \/ /\ writer = "open"
        /\ Len(recorded) < MaxPosts
        /\ LET e == Log!NewEvent(nextID + 1, now) IN
             /\ file' = AppendLine(file, e)
             /\ recorded' = Append(recorded, e)
        /\ UNCHANGED <<tears, intact>>
  /\ ring' = [i \in 0..Cap - 1 |-> NoEvent]
  /\ head' = 0 /\ full' = FALSE /\ nextID' = 0
  /\ writer' = "stuck"
  /\ UNCHANGED <<now, disk>>

\* Mutant: IDs go on from the number of events found.
HighestIDCounts(s) == Len(s)

HighestID(s) == IF s = <<>> THEN 0 ELSE CHOOSE id \in {s[i].id : i \in DOMAIN s}:
                                          \A i \in DOMAIN s: s[i].id <= id

\* New: the ring is filled from the file's last Cap lines, those that parse.
Restart ==
  LET found == Events(Log!Newest(file, Cap)) IN
    /\ ~up
    /\ up' = TRUE
    /\ Load(found)
    /\ nextID' = HighestID(found)
    /\ writer' = "open"
    /\ UNCHANGED <<now, recorded, file, disk, tears, intact>>

Tick ==
  /\ now < MaxNow
  /\ now' = now + 1
  /\ UNCHANGED <<recorded, memory, file, writer, up, disk, tears, intact>>

DiskChanges ==
  /\ disk' = ~disk
  /\ intact' = FALSE
  /\ UNCHANGED <<now, recorded, memory, file, writer, up, tears>>

Next ==
  \/ \E at \in 0..now: Post(at)
  \/ \E oversize \in BOOLEAN: Compact(oversize)
  \/ Crash
  \/ Restart
  \/ Tick
  \/ DiskChanges

Spec == Init /\ [][Next]_vars

----------------------------------------------------------------------------
\* The store is an AuditLog: through overwritten ring slots, compactions,
\* crashes and failing disks, readers see the newest events, in order, each
\* once, as they were recorded.
Implements == Log!LogSpec

\* As long as no call on the file failed and no line was cut short, a restart
\* would find every event that can be read now.
WindowOnDisk == up /\ intact => \E n \in 0..Len(file): Content = SubSeq(file, n + 1, Len(file))

\* The file never has two events with one ID, nor a later event with a lower
\* one: IDs go on from the file after a restart, whatever was lost.
FileInOrder == Log!InOrder(Events(file))

\* Both, of a ring and a file that are well-formed.
RingAndFile == TypeOK /\ WindowOnDisk /\ FileInOrder

\* A compaction takes from the file only events that are too old, and events
\* that Cap newer ones have pushed out of the ring.
OnlyOldLinesLeave ==
  [][intact /\ up' =>
       \A i \in DOMAIN file:
         \/ \E j \in DOMAIN file': file'[j] = file[i]
         \/ ~Log!Young(file[i])
         \/ i + Cap <= Len(file)]_vars

============================================================================
