---------------------------- MODULE ManifestTree ----------------------------
(***************************************************************************)
(* A manifest is a flat list of entries, each with a depth; the tree is     *)
(* implied by order and depth.  This module defines what src/c4m computes   *)
(* from such a list: the tree index, the three walks that give every entry  *)
(* a path, the hierarchical sort, metadata propagation and the C4 ID.       *)
(*                                                                         *)
(* A path is the sequence of the names along it.  Directory names end in    *)
(* '/', so the strings the code concatenates determine that sequence.       *)
(***************************************************************************)
EXTENDS C4mEntry, FiniteSets, SequencesExt

CONSTANT LineLen   \* bytes of one canonical line, newline included
ASSUME LineLenAssumption == LineLen \in Nat

Blank == 0         \* the empty string Validate pads its directory stack with

\* The entries of es at the indices in the sequence order, in that order.
Pick(es, order) == [k \in 1..Len(order) |-> es[order[k]]]

\* The elements of S in the order Less.
InOrder(S, Less(_, _)) ==
  [k \in 1..Cardinality(S) |->
     CHOOSE i \in S : Cardinality({j \in S : Less(j, i)}) = k - 1]

\* The elements of es at the indices in S, in their old order.
Kept(es, S) == Pick(es, InOrder(S, <))

\* es without the entries at the indices in S.
Without(es, S) == Kept(es, DOMAIN es \ S)

-----------------------------------------------------------------------------
(* The tree index.  It stores pointers to entries, which are indices here,   *)
(* and depends on nothing but the names, depths and kinds of the entries.    *)

Shape(es) ==
  [i \in DOMAIN es |->
     [name |-> es[i].name, depth |-> es[i].depth, dir |-> IsDir(es[i])]]

\* The nearest directory above i that is one level up, if no entry between
\* them is shallower than that level; 0 for none.
ParentIn(s, i) ==
  LET near == {j \in 1..(i - 1) :
                 /\ s[j].dir
                 /\ s[j].depth = s[i].depth - 1
                 /\ \A k \in j..(i - 1) : s[k].depth >= s[i].depth - 1}
  IN IF near = {} THEN 0 ELSE Max(near)

IndexOf(s) ==
  LET n == Len(s)
      path[i \in 1..n] ==
        LET p == ParentIn(s, i)
        IN IF p = 0 THEN <<s[i].name>> ELSE Append(path[p], s[i].name)
  IN [parent |-> [i \in 1..n |-> ParentIn(s, i)],
      pathOf |-> [i \in 1..n |-> path[i]],
      byPath |-> [q \in {path[i] : i \in 1..n} |->
                    Max({i \in 1..n : path[i] = q})],
      byName |-> [x \in {s[i].name : i \in 1..n} |->
                    Max({i \in 1..n : s[i].name = x})]]

BuildIndex(es) == IndexOf(Shape(es))

Children(idx, i) == {j \in DOMAIN idx.parent : idx.parent[j] = i}

\* Everything nested under i, however deep.
Descendants(idx, i) ==
  LET above[j \in DOMAIN idx.parent] ==
        IF idx.parent[j] = 0 THEN {}
        ELSE {idx.parent[j]} \cup above[idx.parent[j]]
  IN {j \in DOMAIN idx.parent : i \in above[j]}

-----------------------------------------------------------------------------
(* The two other walks that compute paths.                                   *)

EntryPathsCutLate(es) ==
  LET Step(acc, e) ==
        LET up == SubSeq(acc.stack, 1, Min({Len(acc.stack), e.depth + 1}))
            path == Append(up, e.name)
        IN [stack |-> IF IsDir(e) THEN path ELSE up,
            paths |-> Append(acc.paths, path)]
  IN FoldLeft(Step, [stack |-> <<>>, paths |-> <<>>], es).paths

NoPaths == [stack |-> <<>>, paths |-> <<>>]

\* EntryPaths: a stack of directory names, cut to the entry's depth.  The
\* path of every entry, by index.
PathStep(acc, e) ==
  LET up == SubSeq(acc.stack, 1, Min({Len(acc.stack), e.depth}))
      path == Append(up, e.name)
  IN [stack |-> IF IsDir(e) THEN path ELSE up,
      paths |-> Append(acc.paths, path)]

EntryPaths(es) == FoldLeft(PathStep, NoPaths, es).paths

\* Validate: the same idea, but a directory is stored at its own depth and
\* missing levels are filled with empty names.
ValidateStep(acc, e) ==
  LET up == SubSeq(acc.stack, 1, Min({Len(acc.stack), e.depth}))
      pad == [k \in 1..(e.depth - Len(up)) |-> Blank]
      path == Append(Kept(up, {k \in DOMAIN up : up[k] # Blank}), e.name)
  IN [stack |-> IF IsDir(e) THEN (up \o pad) \o <<e.name>> ELSE up,
      paths |-> Append(acc.paths, path)]

ValidatePaths(es) == FoldLeft(ValidateStep, NoPaths, es).paths

\* Validate accepts es: no two entries have one full path.
Validate(es) == IsInjective(ValidatePaths(es))

\* Every entry that is not at the root has its parent directory in es.
Nested(es) ==
  \A i \in 1..Len(es) :
    \/ es[i].depth = 0
    \/ i > 1 /\ es[i].depth <= es[i - 1].depth + (IF IsDir(es[i - 1]) THEN 1 ELSE 0)

\* The entries of a manifest have their types, and names of directories end in
\* '/'.
HasEntries(es) ==
  /\ es \in Seq(Range(es))
  /\ \A i \in 1..Len(es) : IsEntry(es[i]) /\ (es[i].mode = "dir" => es[i].name \in DirNames)

\* The manifests the format describes: nested, and no path twice.
Clean(es) == Nested(es) /\ Validate(es)

-----------------------------------------------------------------------------
(* SortEntries.                                                              *)

LevelOfWholeTail(es, p, used) ==
  {i \in (p + 1)..Len(es) \ used : es[i].depth = IF p = 0 THEN 0 ELSE es[p].depth + 1}

\* What processLevel collects for parent p (0 for the root): the unused
\* entries after p one level down, up to the first unused shallower one.
LevelOf(es, p, used) ==
  LET depth == IF p = 0 THEN 0 ELSE es[p].depth + 1
      unused == (p + 1)..Len(es) \ used
      Ends(i) == \E j \in unused : j < i /\ es[j].depth < depth
  IN {i \in unused : es[i].depth = depth /\ ~Ends(i)}

FirstOfName(es, S) == {i \in S : ~\E j \in S : j < i /\ es[j].name = es[i].name}

\* Of siblings with one name the last stays.
LastOfName(es, S) == {i \in S : ~\E j \in S : j > i /\ es[j].name = es[i].name}

RankedByName(es, S) == InOrder(S, LAMBDA a, b : es[a].name < es[b].name)

Ranked(es, S) == InOrder(S, LAMBDA a, b : SiblingLess(es[a], es[b]))

\* A child, and after a directory all that processLevel finds in it.
Emit(process, acc, c) ==
  LET sub == process[c][acc.used \cup {c}]
  IN [used |-> sub.used, out |-> (acc.out \o <<c>>) \o sub.out]

\* What is found in p, and found in that, in sorted order; process is what the
\* recursive calls do.  Of overridden siblings nothing is left.
ProcessLevel(es, process, p, used) ==
  LET level == LevelOf(es, p, used)
      kept == LastOfName(es, level)
  IN IF p # 0 /\ ~IsDir(es[p]) THEN [used |-> used, out |-> <<>>]
     ELSE FoldLeft(LAMBDA acc, c : Emit(process, acc, c),
                   [used |-> used \cup (level \ kept), out |-> <<>>],
                   Ranked(es, kept))

\* The indices of es in sorted order.  Entries no level reached follow at the
\* end, in their old order.
SortOrder(es) ==
  LET n == Len(es)
      Process[p \in 0..n] == [used \in SUBSET (1..n) |-> ProcessLevel(es, Process, p, used)]
      top == Process[0][{}]
  IN top.out \o InOrder(1..n \ top.used, <)

SortEntries(es) == IF es = <<>> THEN es ELSE Pick(es, SortOrder(es))

-----------------------------------------------------------------------------
(* Metadata propagation and the manifest's C4 ID.                            *)

KidsOfAnyone(es, i) == {j \in (i + 1)..Len(es) : es[j].depth = es[i].depth + 1}

\* The entries one level below i: getDirectoryChildren, and the scan in
\* Canonicalize.
KidsOf(es, i) ==
  {j \in (i + 1)..Len(es) :
     /\ es[j].depth = es[i].depth + 1
     /\ \A k \in (i + 1)..j : es[k].depth > es[i].depth}

SumOver(S, f(_)) == MapThenFoldSet(+, 0, f, LAMBDA T : CHOOSE x \in T : TRUE, S)

\* The directories with null values, from the last entry to the first: a
\* null size becomes the children's total and listing, a null timestamp the
\* latest of theirs, and both stay null when a child's is null.
Canonicalize(es) ==
  LET n == Len(es)
      Unresolved(i) == IsDir(es[i]) /\ HasNullValues(es[i])
      size[i \in 1..n] ==
        LET kids == KidsOf(es, i)
        IN IF ~Unresolved(i) \/ es[i].size # NullSize THEN es[i].size
           ELSE IF \E k \in kids : size[k] = NullSize THEN NullSize
           ELSE SumOver(kids, LAMBDA k : size[k] + LineLen)
      timestamp[i \in 1..n] ==
        LET kids == KidsOf(es, i)
            known == {timestamp[k] : k \in kids}
        IN IF ~Unresolved(i) \/ es[i].timestamp # NullTimestamp \/ kids = {}
           THEN es[i].timestamp
           ELSE IF NullTimestamp \in known THEN NullTimestamp
           ELSE Max(known)
  IN [i \in DOMAIN es |->
        [name |-> es[i].name, depth |-> es[i].depth, mode |-> es[i].mode,
         id |-> es[i].id, link |-> es[i].link,
         size |-> size[i], timestamp |-> timestamp[i]]]

RootsOf(es) == Kept(es, {i \in DOMAIN es : es[i].depth = 0})

ComputeC4IDUnsorted(es) ==
  LET roots == RootsOf(Canonicalize(es))
  IN IF roots = <<>> THEN NilId ELSE <<"c4">> \o roots

\* The hashed text: the root entries after propagation, in sorted order.  An
\* empty manifest has the nil ID.
ComputeC4ID(es) ==
  LET sorted == SortEntries(Canonicalize(es))
      roots == RootsOf(sorted)
  IN IF roots = <<>> THEN NilId ELSE <<"c4">> \o roots
=============================================================================
