------------------------------ MODULE Manifest ------------------------------
(***************************************************************************)
(* One Manifest object (include/c4/c4m.hpp, src/c4m/manifest.cpp): its list  *)
(* of entries and the tree index it builds on the first lookup and keeps     *)
(* until a mutator drops it.  The callers are unrestricted: they add entries *)
(* at any depth and remove, move, sort and look up in any order.             *)
(***************************************************************************)
EXTENDS ManifestTree

CONSTANTS NewEntries,   \* entries a caller may add
          MaxEntries,   \* bound: entries in the manifest
          MaxDepth,     \* bound: depth of an entry
          MaxSize       \* bound: size Canonicalize gives a directory

ASSUME ManifestAssumption ==
  /\ \A e \in NewEntries : IsEntry(e) /\ e.depth <= MaxDepth
  /\ MaxEntries \in Nat
  /\ MaxDepth \in Nat
  /\ MaxSize \in Nat

VARIABLES entries,      \* entries_
          index         \* index_: NoIndex, or the tree index it points to

vars == <<entries, index>>

NoIndex == <<>>
Index == IF index = NoIndex THEN BuildIndex(entries) ELSE index

Init == entries = <<>> /\ index = NoIndex

\* ensureIndex, which every navigation call goes through.
Lookup == index' = Index /\ UNCHANGED entries

InvalidateIndex == index' = NoIndex /\ UNCHANGED entries

AddEntryKeepingIndex(e) ==
  /\ Len(entries) < MaxEntries
  /\ entries' = Append(entries, e)
  /\ UNCHANGED index

AddEntry(e) ==
  /\ Len(entries) < MaxEntries
  /\ entries' = Append(entries, e)
  /\ index' = NoIndex

\* What Descendants(e) gives a mutator: nothing unless e is a directory.
Under(i) == IF IsDir(entries[i]) THEN Descendants(Index, i) ELSE {}

RemoveEntryAndChildren(i) ==
  /\ entries' = Without(entries, {i} \cup Children(Index, i))
  /\ index' = NoIndex

RemoveEntry(i) ==
  /\ entries' = Without(entries, {i} \cup Under(i))
  /\ index' = NoIndex

\* The list after entry i took the new name and depth and its descendants
\* shifted with it.  No entry changes its position.
Relabelled(i, depth, name) ==
  LET delta == depth - entries[i].depth
  IN [j \in 1..Len(entries) |->
        IF j = i THEN [entries[j] EXCEPT !.name = name, !.depth = depth]
        ELSE IF j \in Under(i) THEN [entries[j] EXCEPT !.depth = @ + delta]
        ELSE entries[j]]

TargetDepthOfSibling(p) == IF p = 0 THEN 0 ELSE entries[p].depth

\* p = 0 stands for the null new_parent: a move to the root.
TargetDepth(p) == IF p = 0 THEN 0 ELSE entries[p].depth + 1

MoveEntry(i, p, name) ==
  LET moved == Relabelled(i, TargetDepth(p), name)
  IN /\ \A j \in DOMAIN moved : moved[j].depth <= MaxDepth
     /\ entries' = SortEntries(moved)
     /\ index' = NoIndex

\* SortEntries returns at once from an empty list.
SortManifest ==
  /\ entries' = SortEntries(entries)
  /\ index' = IF entries = <<>> THEN index ELSE NoIndex

\* Canonicalize leaves the index alone: it changes no name and no depth.
CanonicalizeManifest ==
  LET propagated == Canonicalize(entries)
  IN /\ \A i \in DOMAIN propagated : propagated[i].size <= MaxSize
     /\ entries' = propagated
     /\ UNCHANGED index

\* A directory keeps a directory's name.
NamesFor(i) == {x \in Names : x \in DirNames <=> entries[i].name \in DirNames}

Next ==
  \/ Lookup
  \/ InvalidateIndex
  \/ \E e \in NewEntries : AddEntry(e)
  \/ \E i \in 1..Len(entries) : RemoveEntry(i)
  \/ \E i \in 1..Len(entries) : \E p \in 0..Len(entries), name \in NamesFor(i) :
       MoveEntry(i, p, name)
  \/ SortManifest
  \/ CanonicalizeManifest

Spec == Init /\ [][Next]_vars

-----------------------------------------------------------------------------
\* A lookup never answers from an index of other entries: the cached index,
\* when there is one, is the one ensureIndex would build now.  Mutators that
\* forget invalidateIndex would leave pointers into a freed vector.
IndexCoherent == index = NoIndex \/ index = BuildIndex(entries)

\* The three places that compute full paths agree on every nested manifest:
\* the tree index (lookups), EntryPaths (Merge) and Validate's own stack.
WalksAgree ==
  Nested(entries) =>
    /\ BuildIndex(entries).pathOf = EntryPaths(entries)
    /\ BuildIndex(entries).pathOf = ValidatePaths(entries)

\* A clean manifest sorts to a clean one, sorting again changes nothing, and
\* in the result siblings stand files first and in natural order.
SortSettles ==
  Clean(entries) =>
    LET sorted == SortEntries(entries)
        parent == BuildIndex(sorted).parent
    IN /\ Clean(sorted)
       /\ SortEntries(sorted) = sorted
       /\ \A i, j \in 1..Len(sorted) :
            i < j /\ parent[i] = parent[j] => SiblingLess(sorted[i], sorted[j])

\* Propagation is null-infectious and no more: in a nested manifest a directory
\* of unknown size stays so exactly when some file below it has unknown size
\* and no directory of known size stands between them.
NullsInfect ==
  Nested(entries) =>
    \A i \in 1..Len(entries) :
      IsDir(entries[i]) /\ entries[i].size = NullSize =>
        (Canonicalize(entries)[i].size = NullSize
          <=> \E j \in Descendants(BuildIndex(entries), i) :
                /\ ~IsDir(entries[j])
                /\ entries[j].size = NullSize
                /\ \A k \in Descendants(BuildIndex(entries), i) :
                     j \in Descendants(BuildIndex(entries), k) =>
                       entries[k].size = NullSize)

\* The tree of a clean manifest: what stands at each full path, whatever the
\* order of the list and the depth, which the path gives.
TreeOf(es) ==
  LET path == EntryPaths(es)
  IN {<<path[i], [f \in DOMAIN es[i] \ {"depth"} |-> es[i][f]]>> : i \in 1..Len(es)}

\* Sorting moves lines, never entries between directories: each entry of a
\* clean manifest has the same full path and metadata after SortEntries.
SortKeepsTree ==
  [][SortManifest /\ Clean(entries) => TreeOf(entries') = TreeOf(entries)]_vars

\* SortEntries drops an entry only where a later entry of the same name and
\* depth overrides it, also in lists that are not nested.
SortLosesOnlyOverridden ==
  [][SortManifest =>
       /\ Range(entries') \subseteq Range(entries)
       /\ \A i \in 1..Len(entries) :
            \/ entries[i] \in Range(entries')
            \/ \E j \in (i + 1)..Len(entries) :
                 /\ entries[j].name = entries[i].name
                 /\ entries[j].depth = entries[i].depth]_vars

\* RemoveEntry takes the entry with everything below it and leaves every other
\* entry of a clean manifest at its full path.
RemoveTakesSubtree ==
  [][Clean(entries) => \A i \in 1..Len(entries) :
       RemoveEntry(i) =>
         LET gone == EntryPaths(entries)[i]
         IN TreeOf(entries') = {x \in TreeOf(entries) : ~IsPrefix(gone, x[1])}]_vars

\* MoveEntry to the parent an entry already has renames it and carries its
\* subtree along, when the new path is free.
RenameCarriesSubtree ==
  [][Clean(entries) => \A i \in 1..Len(entries) : \A name \in NamesFor(i) :
       LET old == EntryPaths(entries)[i]
           new == Append(Front(old), name)
           Renamed(q) == IF IsPrefix(old, q)
                         THEN new \o SubSeq(q, Len(old) + 1, Len(q)) ELSE q
           p == BuildIndex(entries).parent[i]
       IN /\ new \notin Range(EntryPaths(entries))
          /\ MoveEntry(i, p, name)
          => Range(EntryPaths(entries')) =
               {Renamed(q) : q \in Range(EntryPaths(entries))}]_vars

\* The C4 ID names the tree, not the file: neither sorting a clean manifest nor
\* storing the propagated metadata in it changes its ID.
IdStable ==
  [][(SortManifest \/ CanonicalizeManifest) /\ Clean(entries) =>
       ComputeC4ID(entries') = ComputeC4ID(entries)]_vars

-----------------------------------------------------------------------------
\* include/c4/c4m.hpp on MoveEntry: "Move entry to a new parent with a new
\* name."  After the call the new parent has a child of the new name.  The
\* code changes the depth and keeps the position, so it does not hold.
MoveReparents ==
  [][Clean(entries) =>
     \A i \in 1..Len(entries) : \A p \in 1..Len(entries), name \in NamesFor(i) :
       /\ IsDir(entries[p])
       /\ p \notin Under(i) \cup {i}
       /\ MoveEntry(i, p, name)
       => Append(EntryPaths(entries)[p], name) \in Range(EntryPaths(entries'))]_vars
=============================================================================
