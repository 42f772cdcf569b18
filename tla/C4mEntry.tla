------------------------------ MODULE C4mEntry ------------------------------
(***************************************************************************)
(* One entry of a c4m manifest (include/c4/c4m.hpp, src/c4m/entry.cpp) and  *)
(* the comparisons the operations make between two entries.                 *)
(*                                                                         *)
(* A name is its rank in the natural order of names, so NaturalLess is <.   *)
(* DirNames are the names that end in '/'.  The field link stands for the   *)
(* symlink target, the hard link group and the flow link, of which a line   *)
(* has one: its kind, and the text behind its operator.                     *)
(***************************************************************************)
EXTENDS Integers

CONSTANTS Names,      \* names an entry may have, as ranks in the natural order
          DirNames    \* those that end in '/'

ASSUME NamesAssumption == Names \subseteq Nat \ {0} /\ DirNames \subseteq Names

NullSize == -1          \* size not known
NullTimestamp == 0      \* timestamp not known
NilId == <<>>           \* the all-zero digest; an ID is what it is the hash of

\* The kinds of links: none, target, hard link, group (of hard links), outbound,
\* inbound, bidirectional.
NoLink == [kind |-> "none", text |-> <<>>]
LinkTo(text) == [kind |-> "target", text |-> text]

Modes == {"null", "file", "dir", "symlink"}

IsEntry(e) ==
  /\ e = [name |-> e.name, depth |-> e.depth, mode |-> e.mode, timestamp |-> e.timestamp,
          size |-> e.size, id |-> e.id, link |-> e.link]
  /\ e.name \in Names
  /\ e.depth \in Nat
  /\ e.mode \in Modes
  /\ e.timestamp \in Nat
  /\ e.size \in Nat \cup {NullSize}

IsDir(e) == e.mode = "dir" \/ e.name \in DirNames

\* A null mode only counts for an entry that is neither directory nor link.
HasNullValues(e) ==
  \/ e.mode = "null" /\ ~IsDir(e)
  \/ e.timestamp = NullTimestamp
  \/ e.size = NullSize

\* Exact equality of all metadata: the patch format's removal signal.  The
\* depth is not metadata and is not compared.
EntriesIdentical(a, b) ==
  /\ a.name = b.name
  /\ a.mode = b.mode
  /\ a.timestamp = b.timestamp
  /\ a.size = b.size
  /\ a.id = b.id
  /\ a.link = b.link

TargetOf(e) == IF e.link.kind = "target" THEN e.link.text ELSE <<>>

\* The equality Diff uses: two known IDs decide, with the mode; otherwise the
\* metadata, of links the symlink target only.
EntriesEqual(a, b) ==
  /\ a.name = b.name
  /\ a.mode = b.mode
  /\ IF a.id # NilId /\ b.id # NilId
     THEN a.id = b.id
     ELSE /\ a.size = b.size
          /\ a.timestamp = b.timestamp
          /\ TargetOf(a) = TargetOf(b)

\* The order SortEntries gives two siblings: files before directories,
\* natural order within each.
SiblingLess(a, b) ==
  IF IsDir(a) = IsDir(b) THEN a.name < b.name ELSE IsDir(b)

EntryAtDepth(e, d) == [e EXCEPT !.depth = d]
=============================================================================
