------------------------------- MODULE Patch --------------------------------
(***************************************************************************)
(* PatchDiff and ApplyPatch (src/c4m/operations.cpp).  Both walk trees node  *)
(* by node; here a tree is a function from full paths to entries and each    *)
(* walk is described by the paths it reaches.                                *)
(***************************************************************************)
EXTENDS ManifestTree

\* q is p or a directory above p.
Above(p) == {SubSeq(p, 1, k) : k \in 1..Len(p)}
StrictlyAbove(p) == Above(p) \ {p}

\* Names, all but the last of directories.
IsPath(p) ==
  /\ p \in Seq(Names)
  /\ p # <<>>
  /\ \A k \in 1..(Len(p) - 1) : p[k] \in DirNames

\* A tree: a finite map in which every entry has the name and depth of its
\* path, and the directories above it are there.
WellFormed(t) ==
  /\ t = [p \in DOMAIN t |-> t[p]]
  /\ IsFiniteSet(DOMAIN t)
  /\ \A p \in DOMAIN t :
       /\ IsPath(p)
       /\ StrictlyAbove(p) \subseteq DOMAIN t
       /\ IsEntry(t[p])
       /\ t[p].name = Last(p)
       /\ t[p].depth = Len(p) - 1

\* buildPatchTree: a node that comes again replaces the earlier one with all
\* that was below it.  Only nested lists: at a missing level the code follows
\* a pointer it never set.
BuildPatchTree(es) ==
  LET path == EntryPaths(es)
      live == {i \in 1..Len(es) :
                 ~\E j \in (i + 1)..Len(es) : path[j] \in Above(path[i])}
  IN [p \in {path[i] : i \in live} |-> es[CHOOSE i \in live : path[i] = p]]

\* Parents before children, siblings by name.  The code keys siblings by the
\* bytes of their names, and diffTree puts files first; no reader of a patch or
\* of a flattened tree depends on the order of siblings.
PathLess(p, q) ==
  \/ p \in StrictlyAbove(q)
  \/ \E k \in 1..Min({Len(p), Len(q)}) :
       p[k] < q[k] /\ \A m \in 1..(k - 1) : p[m] = q[m]

\* The entries of a tree as a list, each at the depth of its path.
Listing(tree) ==
  LET order == InOrder(DOMAIN tree, PathLess)
  IN [k \in 1..Len(order) |-> EntryAtDepth(tree[order[k]], Len(order[k]) - 1)]

\* flattenPatchTree: nothing below a node that is no directory is written.
Flatten(tree) ==
  Listing([p \in {q \in DOMAIN tree : \A d \in StrictlyAbove(q) : IsDir(tree[d])}
             |-> tree[p]])

-----------------------------------------------------------------------------
\* diffTree compares the entries at p in both trees when all directories above
\* p are in both.
Compared(old, new, p) ==
  \A d \in StrictlyAbove(p) :
    d \in DOMAIN old \cap DOMAIN new /\ IsDir(old[d]) /\ IsDir(new[d])

AddedTops(old, new) == {p \in DOMAIN new \ DOMAIN old : Compared(old, new, p)}

\* New entries, a new directory with its whole subtree.
Added(old, new) ==
  {p \in DOMAIN new :
     \E d \in Above(p) : d \notin DOMAIN old /\ Compared(old, new, d)}

\* Old entries that are gone, without what was below them.
Removed(old, new) == {p \in DOMAIN old \ DOMAIN new : Compared(old, new, p)}

ChangedFiles(old, new) ==
  {p \in DOMAIN old \cap DOMAIN new :
     /\ Compared(old, new, p)
     /\ ~EntriesIdentical(old[p], new[p])
     /\ ~IsDir(new[p])}

Changed(old, new) ==
  {p \in DOMAIN old \cap DOMAIN new :
     Compared(old, new, p) /\ ~EntriesIdentical(old[p], new[p])}

EnclosingAlways(old, new) ==
  {p \in DOMAIN old \cap DOMAIN new :
     Compared(old, new, p) /\ EntriesIdentical(old[p], new[p]) /\ IsDir(old[p])}

\* Directories that are the same on both sides but for something below them.
Enclosing(old, new) ==
  LET differing == Added(old, new) \cup Removed(old, new) \cup Changed(old, new)
  IN {p \in DOMAIN old \cap DOMAIN new :
        /\ Compared(old, new, p)
        /\ EntriesIdentical(old[p], new[p])
        /\ IsDir(old[p])
        /\ \E q \in differing : p \in StrictlyAbove(q)}

\* The patch has the new entries, and the old ones for what is gone.
PatchTree(old, new) ==
  LET emitted == Added(old, new) \cup Removed(old, new)
                   \cup Changed(old, new) \cup Enclosing(old, new)
  IN [p \in emitted |-> IF p \in DOMAIN new THEN new[p] ELSE old[p]]

DiffTree(old, new) == Listing(PatchTree(old, new))

PatchDiffOfPatch(old, new) ==
  LET patch == DiffTree(BuildPatchTree(old), BuildPatchTree(new))
  IN [patch |-> patch, oldID |-> ComputeC4ID(old), newID |-> ComputeC4ID(patch)]

PatchDiff(old, new) ==
  [patch |-> DiffTree(BuildPatchTree(old), BuildPatchTree(new)),
   oldID |-> ComputeC4ID(old),
   newID |-> ComputeC4ID(new)]

-----------------------------------------------------------------------------
\* applyPatchTree reaches the patch entry at p when every directory above it
\* is in the base, differs from the base's and is a directory.
Reached(base, patch, p) ==
  \A d \in StrictlyAbove(p) :
    /\ d \in DOMAIN base
    /\ ~EntriesIdentical(base[d], patch[d])
    /\ IsDir(patch[d])

\* Entries the base lacks come in with their subtree, entries it has in
\* exactly this form go out with theirs, others are replaced.
ApplyPatchTree(base, patch) ==
  LET reached == {p \in DOMAIN patch : Reached(base, patch, p)}
      grafted == reached \ DOMAIN base
      erased == {p \in reached \cap DOMAIN base : EntriesIdentical(base[p], patch[p])}
      clobbered == (reached \cap DOMAIN base) \ erased
      incoming == {p \in DOMAIN patch : Above(p) \cap grafted # {}} \cup clobbered
      staying == {p \in DOMAIN base : Above(p) \cap erased = {}}
  IN [p \in incoming \cup staying |-> IF p \in incoming THEN patch[p] ELSE base[p]]

ApplyPatch(base, patch) ==
  SortEntries(Flatten(ApplyPatchTree(BuildPatchTree(base), BuildPatchTree(patch))))

\* Directories are the same on both sides only if all below them is, as with
\* directories that carry the ID of their content.
SealedTrees(old, new) ==
  \A d \in DOMAIN old \cap DOMAIN new :
    IsDir(old[d]) /\ EntriesIdentical(old[d], new[d]) =>
      \A p \in DOMAIN old \cup DOMAIN new :
        d \in StrictlyAbove(p) =>
          p \in DOMAIN old \cap DOMAIN new /\ EntriesIdentical(old[p], new[p])

-----------------------------------------------------------------------------
\* Diff knows entries by their bare name: of a name in several directories, the
\* last one in the list.
ByName(es) ==
  [x \in {es[i].name : i \in DOMAIN es} |-> es[Max({i \in DOMAIN es : es[i].name = x})]]

DiffSwapped(a, b) ==
  LET old == ByName(b)
      new == ByName(a)
      Of(side, names) == {side[x] : x \in names}
      both == DOMAIN old \cap DOMAIN new
      equal == {x \in both : EntriesEqual(old[x], new[x])}
  IN [added |-> Of(new, DOMAIN new \ DOMAIN old), removed |-> Of(old, DOMAIN old \ DOMAIN new),
      modified |-> Of(new, both \ equal), same |-> Of(old, equal)]

\* The four categories, as sets: sorting them loses no entry, as no name comes
\* twice.
Diff(a, b) ==
  LET old == ByName(a)
      new == ByName(b)
      Of(side, names) == {side[x] : x \in names}
      both == DOMAIN old \cap DOMAIN new
      equal == {x \in both : EntriesEqual(old[x], new[x])}
  IN [added |-> Of(new, DOMAIN new \ DOMAIN old), removed |-> Of(old, DOMAIN old \ DOMAIN new),
      modified |-> Of(new, both \ equal), same |-> Of(old, equal)]
=============================================================================
