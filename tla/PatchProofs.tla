----------------------------- MODULE PatchProofs -----------------------------
(* A sender and a receiver of patches, for any manifests and any number of     *)
(* patches under way.                                                          *)
EXTENDS PatchSession, TreeProofs

-----------------------------------------------------------------------------
(* Patches under way.                                                        *)

Patches == {PatchDiff(old, new) : old \in Manifests, new \in Manifests}

SessionTypes == sent \in Manifests /\ pending \in Seq(Patches)

LEMMA ManifestTrees ==
  ASSUME NEW m \in Manifests
  PROVE  WellFormed(BuildPatchTree(m))
BY SessionAssumption, CleanIsTree

LEMMA SessionTyped == Spec => []SessionTypes
<1>1. Init => SessionTypes
  <2>1. <<>> \in Seq(Patches)
    BY EmptySeq
  <2> QED
    BY <2>1 DEF Init, SessionTypes
<1>2. SessionTypes /\ [Next]_vars => SessionTypes'
  <2> SUFFICES ASSUME SessionTypes, [Next]_vars
               PROVE  SessionTypes'
    OBVIOUS
  <2>1. CASE UNCHANGED vars
    BY <2>1 DEF vars, SessionTypes
  <2>2. ASSUME NEW m \in Manifests, pending' = Append(pending, PatchDiff(sent, m)), sent' = m
        PROVE  SessionTypes'
    <3>1. PatchDiff(sent, m) \in Patches
      BY DEF SessionTypes, Patches
    <3>2. Append(pending, PatchDiff(sent, m)) \in Seq(Patches)
      BY <3>1, AppendProperties DEF SessionTypes
    <3> QED
      BY <2>2, <3>2 DEF SessionTypes
  <2>3. CASE Receive
    <3>1. Tail(pending) \in Seq(Patches)
      BY <2>3, HeadTailProperties DEF SessionTypes, Receive
    <3> QED
      BY <2>3, <3>1 DEF SessionTypes, Receive
  <2> QED
    BY <2>1, <2>2, <2>3 DEF Next, Send
<1> QED
  BY <1>1, <1>2, PTL DEF Spec

\* The patch of a pair of manifests is the list of the patch tree.
LEMMA PatchIsListing ==
  ASSUME NEW old \in Manifests, NEW new \in Manifests
  PROVE  LET t == PatchTree(BuildPatchTree(old), BuildPatchTree(new))
         IN /\ WellFormed(t)
            /\ PatchDiff(old, new).patch = Listing(t)
BY SessionAssumption, DiffIsListing

\* Every patch under way can be written down and read back: it is nested, so
\* that buildPatchTree finds the directory of each entry, and names no path
\* twice.
THEOREM PatchesAlwaysClean == Spec => []PatchesClean
<1>1. SessionTypes => PatchesClean
  <2> SUFFICES ASSUME SessionTypes, NEW k \in DOMAIN pending
               PROVE  Clean(pending[k].patch)
    BY DEF PatchesClean
  <2>1. pending[k] \in Patches
    BY DEF SessionTypes
  <2>2. PICK old \in Manifests, new \in Manifests : pending[k] = PatchDiff(old, new)
    BY <2>1 DEF Patches
  <2> QED
    BY <2>2, PatchIsListing, ListingIsClean
<1> QED
  BY <1>1, SessionTyped, PTL

\* A patch names only what stands at, or above, a difference of the two trees.
LEMMA PatchMinimal ==
  ASSUME NEW old, NEW new, WellFormed(old), WellFormed(new),
         NEW p \in DOMAIN PatchTree(old, new)
  PROVE  \E q \in DOMAIN old \cup DOMAIN new :
           /\ p \in Above(q)
           /\ ~(q \in DOMAIN old \cap DOMAIN new /\ EntriesIdentical(old[q], new[q]))
<1> DEFINE Differs(q) == /\ q \in DOMAIN old \cup DOMAIN new
                         /\ ~(q \in DOMAIN old \cap DOMAIN new /\ EntriesIdentical(old[q], new[q]))
<1>1. \A q \in Added(old, new) \cup Removed(old, new) \cup Changed(old, new) : Differs(q)
  BY AddedIsNew DEF Removed, Changed
<1>2. IsPath(p) /\ p \in Added(old, new) \cup Removed(old, new)
                          \cup Changed(old, new) \cup Enclosing(old, new)
  BY PatchEntries
<1>3. p \in Above(p)
  BY <1>2, AboveSelf
<1>4. CASE p \in Enclosing(old, new)
  <2>1. PICK q \in Added(old, new) \cup Removed(old, new) \cup Changed(old, new) :
          p \in StrictlyAbove(q)
    BY <1>4 DEF Enclosing
  <2> QED
    BY <1>1, <2>1 DEF StrictlyAbove
<1> QED
  BY <1>1, <1>2, <1>3, <1>4

\* A patch is sent behind the others.
LEMMA SentLast ==
  ASSUME SessionTypes, Send
  PROVE  /\ sent \in Manifests /\ sent' \in Manifests
         /\ Last(pending') = PatchDiff(sent, sent')
<1>1. PICK m \in Manifests : pending' = Append(pending, PatchDiff(sent, m)) /\ sent' = m
  BY DEF Send
<1>2. sent \in Manifests /\ pending \in Seq(Patches) /\ PatchDiff(sent, m) \in Patches
  BY DEF SessionTypes, Patches
<1> DEFINE d == PatchDiff(sent, m)
<1> HIDE DEF d
<1>3. Append(pending, d)[Len(Append(pending, d))] = d
  BY <1>2 DEF d
<1> QED
  BY <1>1, <1>2, <1>3 DEF Last, d

\* No patch that is sent names what is the same on both sides, with all below
\* it.
THEOREM PatchesAlwaysMinimal == Spec => PatchesMinimal
<1>1. SessionTypes /\ [Next]_vars =>
        [Send =>
           LET old == BuildPatchTree(sent)
               new == BuildPatchTree(sent')
               patch == Last(pending').patch
               Same(q) == /\ q \in DOMAIN old \cap DOMAIN new
                          /\ EntriesIdentical(old[q], new[q])
           IN \A i \in DOMAIN patch :
                \E q \in DOMAIN old \cup DOMAIN new :
                  EntryPaths(patch)[i] \in Above(q) /\ ~Same(q)]_vars
  <2> SUFFICES ASSUME SessionTypes, Send
               PROVE  LET old == BuildPatchTree(sent)
                          new == BuildPatchTree(sent')
                          patch == Last(pending').patch
                      IN \A i \in DOMAIN patch :
                           \E q \in DOMAIN old \cup DOMAIN new :
                             /\ EntryPaths(patch)[i] \in Above(q)
                             /\ ~(q \in DOMAIN old \cap DOMAIN new
                                  /\ EntriesIdentical(old[q], new[q]))
    OBVIOUS
  <2> DEFINE old == BuildPatchTree(sent)
             new == BuildPatchTree(sent')
             patch == Last(pending').patch
             t == PatchTree(old, new)
  <2>1. /\ sent \in Manifests /\ sent' \in Manifests
        /\ Last(pending') = PatchDiff(sent, sent')
    BY SentLast
  <2>2. WellFormed(t) /\ patch = Listing(t)
    BY <2>1, PatchIsListing
  <2>3. WellFormed(old) /\ WellFormed(new)
    BY <2>1, ManifestTrees
  <2> HIDE DEF old, new, t, patch
  <2>4. /\ IsList(patch) /\ EntryPaths(patch) = PathsInOrder(t)
        /\ Len(patch) = Len(PathsInOrder(t))
        /\ \A k \in 1..Len(PathsInOrder(t)) : PathsInOrder(t)[k] \in DOMAIN t
    BY <2>2, ListingIsClean, PathsEnumerated DEF Enumerating
  <2>5. DOMAIN patch = 1..Len(patch)
    BY <2>4 DEF IsList
  <2>6. \A i \in DOMAIN patch : EntryPaths(patch)[i] \in DOMAIN t
    BY <2>4, <2>5
  <2> SUFFICES ASSUME NEW i \in DOMAIN patch
               PROVE  \E q \in DOMAIN old \cup DOMAIN new :
                        /\ EntryPaths(patch)[i] \in Above(q)
                        /\ ~(q \in DOMAIN old \cap DOMAIN new
                             /\ EntriesIdentical(old[q], new[q]))
    BY DEF old, new, patch
  <2> DEFINE p == EntryPaths(patch)[i]
  <2>7. p \in DOMAIN PatchTree(old, new)
    BY <2>6 DEF t
  <2> HIDE DEF p
  <2> QED
    BY <2>3, <2>7, PatchMinimal DEF p
<1> QED
  BY <1>1, SessionTyped, PTL DEF Spec, PatchesMinimal
-----------------------------------------------------------------------------
(* Diff.                                                                     *)

\* Every name in the two trees stands for one path.
NamesApart(old, new) == \A p, q \in DOMAIN old \cup DOMAIN new : Last(p) = Last(q) => p = q

\* Diff finds, under the name of each path, the entry at that path.
LEMMA ByNameIsTree ==
  ASSUME NEW m \in Manifests,
         \A p, q \in DOMAIN BuildPatchTree(m) : Last(p) = Last(q) => p = q
  PROVE  LET t == BuildPatchTree(m)
         IN /\ DOMAIN ByName(m) = {Last(p) : p \in DOMAIN t}
            /\ \A p \in DOMAIN t : ByName(m)[Last(p)] = t[p]
            /\ \A x \in DOMAIN ByName(m) : ByName(m)[x].name = x
<1> DEFINE t == BuildPatchTree(m)
           P == EntryPaths(m)
           n == Len(m)
           b == ByName(m)
           Of(x) == Max({i \in DOMAIN m : m[i].name = x})
<1>1. IsList(m) /\ PathsOf(m, P) /\ n \in Nat /\ DOMAIN m = 1..n
  BY SessionAssumption, EntriesAreList, PathsOfClean DEF IsList
<1>2. /\ DOMAIN t = {P[i] : i \in 1..n}
      /\ \A i \in 1..n : t[P[i]] = m[i]
  BY <1>1, SessionAssumption, TreeOfClean
<1>3. \A i, j \in 1..n : P[i] = P[j] => i = j
  BY <1>1, SessionAssumption, PathsOfClean
<1>4. \A i \in 1..n : Last(P[i]) = m[i].name
  BY <1>1, PathLast
<1>5. b = [x \in {m[i].name : i \in DOMAIN m} |-> m[Of(x)]]
  BY DEF ByName
<1>6. \A p, q \in DOMAIN t : Last(p) = Last(q) => p = q
  OBVIOUS
<1> HIDE DEF t, P, b
<1>7. ASSUME NEW i \in 1..n
      PROVE  Of(m[i].name) = i
  <2> DEFINE S == {j \in DOMAIN m : m[j].name = m[i].name}
  <2>1. \A j \in 1..n : m[j].name = m[i].name => j = i
    <3> TAKE j \in 1..n
    <3> HAVE m[j].name = m[i].name
    <3>1. P[i] \in DOMAIN t /\ P[j] \in DOMAIN t /\ Last(P[i]) = Last(P[j])
      BY <1>2, <1>4
    <3> QED
      BY <1>3, <1>6, <3>1
  <2>2. S = {i}
    BY <1>1, <2>1
  <2>3. i \in S /\ \A j \in S : i >= j
    BY <1>1, <2>2
  <2> HIDE DEF S
  <2>4. Max(S) = i
    BY <1>1, <2>2, <2>3 DEF Max
  <2> QED
    BY <2>4 DEF S
<1> HIDE DEF Of
<1>8. \A i \in 1..n : m[i].name \in DOMAIN b /\ b[m[i].name] = m[i]
  BY <1>1, <1>5, <1>7
<1>9. DOMAIN b = {m[i].name : i \in 1..n}
  BY <1>1, <1>5
<1>10. {Last(p) : p \in DOMAIN t} = {m[i].name : i \in 1..n}
  BY <1>2, <1>4
<1>11. \A p \in DOMAIN t : b[Last(p)] = t[p]
  BY <1>2, <1>4, <1>8
<1>12. \A x \in DOMAIN b : b[x].name = x
  BY <1>8, <1>9
<1> QED
  BY <1>9, <1>10, <1>11, <1>12 DEF b, t

\* The categories of Diff, by the paths of the two trees.
LEMMA DiffByPath ==
  ASSUME NEW m \in Manifests, NEW k \in Manifests,
         NamesApart(BuildPatchTree(m), BuildPatchTree(k))
  PROVE  LET old == BuildPatchTree(m)
             new == BuildPatchTree(k)
             Entered(entries) == {e.name : e \in entries}
             NamesOf(paths) == {Last(p) : p \in paths}
         IN /\ Entered(Diff(m, k).added) = NamesOf(DOMAIN new \ DOMAIN old)
            /\ Entered(Diff(m, k).removed) = NamesOf(DOMAIN old \ DOMAIN new)
            /\ Entered(Diff(m, k).modified)
                 = NamesOf({p \in DOMAIN old \cap DOMAIN new : ~EntriesEqual(old[p], new[p])})
<1> DEFINE old == BuildPatchTree(m)
           new == BuildPatchTree(k)
           a == ByName(m)
           b == ByName(k)
           Diverging == {x \in DOMAIN a \cap DOMAIN b : ~EntriesEqual(a[x], b[x])}
<1>1. /\ DOMAIN a = {Last(p) : p \in DOMAIN old}
      /\ \A p \in DOMAIN old : a[Last(p)] = old[p]
      /\ \A x \in DOMAIN a : a[x].name = x
  BY ByNameIsTree DEF NamesApart
<1>2. /\ DOMAIN b = {Last(p) : p \in DOMAIN new}
      /\ \A p \in DOMAIN new : b[Last(p)] = new[p]
      /\ \A x \in DOMAIN b : b[x].name = x
  BY ByNameIsTree DEF NamesApart
<1>3. \A p, q \in DOMAIN old \cup DOMAIN new : Last(p) = Last(q) => p = q
  BY DEF NamesApart
<1>4. /\ Diff(m, k).added = {b[x] : x \in DOMAIN b \ DOMAIN a}
      /\ Diff(m, k).removed = {a[x] : x \in DOMAIN a \ DOMAIN b}
      /\ Diff(m, k).modified = {b[x] : x \in Diverging}
  <2>1. /\ Diff(m, k).added = {b[x] : x \in DOMAIN b \ DOMAIN a}
        /\ Diff(m, k).removed = {a[x] : x \in DOMAIN a \ DOMAIN b}
        /\ Diff(m, k).modified = {b[x] : x \in (DOMAIN a \cap DOMAIN b)
                                        \ {y \in DOMAIN a \cap DOMAIN b : EntriesEqual(a[y], b[y])}}
    BY DEF Diff
  <2> HIDE DEF a, b
  <2>2. (DOMAIN a \cap DOMAIN b) \ {y \in DOMAIN a \cap DOMAIN b : EntriesEqual(a[y], b[y])}
          = Diverging
    OBVIOUS
  <2> QED
    BY <2>1, <2>2
<1> HIDE DEF old, new, a, b
<1>5. {e.name : e \in Diff(m, k).added} = {Last(p) : p \in DOMAIN new \ DOMAIN old}
  <2>1. {e.name : e \in Diff(m, k).added} = DOMAIN b \ DOMAIN a
    BY <1>2, <1>4
  <2>2. \A x \in DOMAIN b \ DOMAIN a : \E p \in DOMAIN new \ DOMAIN old : x = Last(p)
    BY <1>1, <1>2
  <2>3. \A p \in DOMAIN new \ DOMAIN old : Last(p) \in DOMAIN b \ DOMAIN a
    BY <1>1, <1>2, <1>3
  <2> QED
    BY <2>1, <2>2, <2>3
<1>6. {e.name : e \in Diff(m, k).removed} = {Last(p) : p \in DOMAIN old \ DOMAIN new}
  <2>1. {e.name : e \in Diff(m, k).removed} = DOMAIN a \ DOMAIN b
    BY <1>1, <1>4
  <2> QED
    BY <1>1, <1>2, <1>3, <2>1
<1>7. {e.name : e \in Diff(m, k).modified}
        = {Last(p) : p \in {q \in DOMAIN old \cap DOMAIN new : ~EntriesEqual(old[q], new[q])}}
  <2>1. {e.name : e \in Diff(m, k).modified} = Diverging
    BY <1>2, <1>4
  <2>2. ASSUME NEW x \in Diverging
        PROVE  \E p \in DOMAIN old \cap DOMAIN new : ~EntriesEqual(old[p], new[p]) /\ x = Last(p)
    <3>1. PICK p \in DOMAIN old, q \in DOMAIN new : Last(p) = x /\ Last(q) = x
      BY <1>1, <1>2
    <3>2. p = q
      BY <1>3, <3>1
    <3> QED
      BY <1>1, <1>2, <3>1, <3>2
  <2>3. ASSUME NEW p \in DOMAIN old \cap DOMAIN new, ~EntriesEqual(old[p], new[p])
        PROVE  Last(p) \in Diverging
    BY <1>1, <1>2, <2>3
  <2> QED
    BY <2>1, <2>2, <2>3
<1> QED
  BY <1>5, <1>6, <1>7 DEF old, new

\* What the two comparisons have to do with each other.
LEMMA PatchCoversDiff ==
  ASSUME NEW old, NEW new, WellFormed(old), WellFormed(new)
  PROVE  LET patched == DOMAIN PatchTree(old, new)
         IN /\ patched \subseteq DOMAIN old \cup DOMAIN new
            /\ \A p \in DOMAIN old \cap DOMAIN new :
                 ~EntriesEqual(old[p], new[p]) => p \in patched
            /\ \A p \in DOMAIN old \cup DOMAIN new :
                 p \notin DOMAIN old \cap DOMAIN new => Above(p) \cap patched # {}
<1> DEFINE patched == DOMAIN PatchTree(old, new)
<1>1. patched = Added(old, new) \cup Removed(old, new) \cup Changed(old, new) \cup Enclosing(old, new)
  BY PatchEntries
<1>2. patched \subseteq DOMAIN old \cup DOMAIN new
  BY PatchEntries
<1> HIDE DEF patched
<1>3. ASSUME NEW p \in DOMAIN old \cap DOMAIN new, ~EntriesEqual(old[p], new[p])
      PROVE  p \in patched
  <2>1. IsPath(p) /\ StrictlyAbove(p) \subseteq DOMAIN old \cap DOMAIN new
    BY DEF WellFormed
  <2>2. Compared(old, new, p)
    BY <2>1, ComparedInBoth
  <2>3. ~EntriesIdentical(old[p], new[p])
    BY <1>3 DEF EntriesEqual, EntriesIdentical, TargetOf
  <2> QED
    BY <1>1, <2>2, <2>3 DEF Changed
<1>4. ASSUME NEW p \in DOMAIN new \ DOMAIN old
      PROVE  Above(p) \cap patched # {}
  <2>1. p \in Above(p)
    BY AboveSelf DEF WellFormed
  <2> QED
    BY <1>1, <2>1, AddedIsNew
<1>5. ASSUME NEW p \in DOMAIN old \ DOMAIN new
      PROVE  Above(p) \cap patched # {}
  BY <1>1, RemovedIsGone
<1> QED
  BY <1>2, <1>3, <1>4, <1>5 DEF patched

\* The paths in a patch, read back from its list.
LEMMA PatchPaths ==
  ASSUME NEW old \in Manifests, NEW new \in Manifests
  PROVE  Range(EntryPaths(PatchDiff(old, new).patch))
           = DOMAIN PatchTree(BuildPatchTree(old), BuildPatchTree(new))
<1> DEFINE t == PatchTree(BuildPatchTree(old), BuildPatchTree(new))
           o == PathsInOrder(t)
<1>1. WellFormed(t) /\ PatchDiff(old, new).patch = Listing(t)
  BY PatchIsListing
<1> HIDE DEF t
<1>2. EntryPaths(PatchDiff(old, new).patch) = o
  BY <1>1, ListingIsClean
<1>3. /\ o \in Seq(DOMAIN t) /\ \A p \in DOMAIN t : \E k \in 1..Len(o) : o[k] = p
  BY <1>1, PathsEnumerated DEF Enumerating
<1> HIDE DEF o
<1>4. Range(o) = DOMAIN t
  <2>1. DOMAIN o = 1..Len(o) /\ \A k \in 1..Len(o) : o[k] \in DOMAIN t
    BY <1>3
  <2> QED
    BY <1>3, <2>1 DEF Range
<1> QED
  BY <1>2, <1>4 DEF t

\* When a name stands for one path, what Diff calls added, removed or modified
\* between two manifests that are sent one after the other is in the patch or
\* below something in it, and Diff has a word for all that is in the patch but
\* for changes of metadata it does not look at.
THEOREM PatchesAgreeWithDiff == Spec => DiffAgreesWithPatch
<1>1. SessionTypes /\ [Next]_vars =>
        [Send =>
           LET old == BuildPatchTree(sent)
               new == BuildPatchTree(sent')
               diff == Diff(sent, sent')
               patched == Range(EntryPaths(Last(pending').patch))
               NamesOf(paths) == {Last(p) : p \in paths}
               Entered(entries) == {e.name : e \in entries}
           IN (\A p, q \in DOMAIN old \cup DOMAIN new : Last(p) = Last(q) => p = q) =>
                /\ Entered(diff.added) = NamesOf(DOMAIN new \ DOMAIN old)
                /\ Entered(diff.removed) = NamesOf(DOMAIN old \ DOMAIN new)
                /\ Entered(diff.modified) \subseteq NamesOf(patched)
                /\ \A p \in DOMAIN old \cup DOMAIN new :
                     p \notin DOMAIN old \cap DOMAIN new => Above(p) \cap patched # {}
                /\ \A p \in patched :
                     \/ Last(p) \in Entered(diff.added \cup diff.removed \cup diff.modified)
                     \/ EntriesEqual(old[p], new[p])]_vars
  <2> DEFINE old == BuildPatchTree(sent)
             new == BuildPatchTree(sent')
             diff == Diff(sent, sent')
             patched == Range(EntryPaths(Last(pending').patch))
             Entered(entries) == {e.name : e \in entries}
             NamesOf(paths) == {Last(p) : p \in paths}
  <2> SUFFICES ASSUME SessionTypes, Send, NamesApart(old, new)
               PROVE  /\ Entered(diff.added) = NamesOf(DOMAIN new \ DOMAIN old)
                      /\ Entered(diff.removed) = NamesOf(DOMAIN old \ DOMAIN new)
                      /\ Entered(diff.modified) \subseteq NamesOf(patched)
                      /\ \A p \in DOMAIN old \cup DOMAIN new :
                           p \notin DOMAIN old \cap DOMAIN new => Above(p) \cap patched # {}
                      /\ \A p \in patched :
                           \/ Last(p) \in Entered(diff.added \cup diff.removed \cup diff.modified)
                           \/ EntriesEqual(old[p], new[p])
    BY DEF NamesApart
  <2>1. /\ sent \in Manifests /\ sent' \in Manifests
        /\ Last(pending') = PatchDiff(sent, sent')
    BY SentLast
  <2>2. WellFormed(old) /\ WellFormed(new)
    BY <2>1, ManifestTrees
  <2>3. patched = DOMAIN PatchTree(old, new)
    BY <2>1, PatchPaths
  <2>4. /\ Entered(diff.added) = NamesOf(DOMAIN new \ DOMAIN old)
        /\ Entered(diff.removed) = NamesOf(DOMAIN old \ DOMAIN new)
        /\ Entered(diff.modified)
             = NamesOf({p \in DOMAIN old \cap DOMAIN new : ~EntriesEqual(old[p], new[p])})
    BY <2>1, DiffByPath
  <2> HIDE DEF old, new, diff, patched
  <2>5. /\ patched \subseteq DOMAIN old \cup DOMAIN new
        /\ \A p \in DOMAIN old \cap DOMAIN new :
             ~EntriesEqual(old[p], new[p]) => p \in patched
        /\ \A p \in DOMAIN old \cup DOMAIN new :
             p \notin DOMAIN old \cap DOMAIN new => Above(p) \cap patched # {}
    BY <2>2, <2>3, PatchCoversDiff
  <2>6. Entered(diff.modified) \subseteq NamesOf(patched)
    BY <2>4, <2>5
  <2>7. ASSUME NEW p \in patched, ~EntriesEqual(old[p], new[p])
        PROVE  Last(p) \in Entered(diff.added \cup diff.removed \cup diff.modified)
    <3>1. Entered(diff.added \cup diff.removed \cup diff.modified)
            = Entered(diff.added) \cup Entered(diff.removed) \cup Entered(diff.modified)
      OBVIOUS
    <3>2. \/ p \in DOMAIN new \ DOMAIN old
          \/ p \in DOMAIN old \ DOMAIN new
          \/ p \in {q \in DOMAIN old \cap DOMAIN new : ~EntriesEqual(old[q], new[q])}
      BY <2>5, <2>7
    <3>3. \/ Last(p) \in NamesOf(DOMAIN new \ DOMAIN old)
          \/ Last(p) \in NamesOf(DOMAIN old \ DOMAIN new)
          \/ Last(p) \in NamesOf({q \in DOMAIN old \cap DOMAIN new : ~EntriesEqual(old[q], new[q])})
      BY <3>2
    <3> HIDE DEF Entered, NamesOf
    <3> QED
      BY <2>4, <3>1, <3>3
  <2> QED
    BY <2>4, <2>5, <2>6, <2>7
<1> QED
  BY <1>1, SessionTyped, PTL DEF Spec, DiffAgreesWithPatch

-----------------------------------------------------------------------------
(* A session.                                                                *)

\* What the receiver makes of the old manifest, in sorted form, and the patch is
\* the new manifest in sorted form.
LEMMA PatchApplies ==
  ASSUME NEW old \in Manifests, NEW new \in Manifests,
         SealedTrees(BuildPatchTree(old), BuildPatchTree(new))
  PROVE  ApplyPatch(SortEntries(old), PatchDiff(old, new).patch) = SortEntries(new)
BY SessionAssumption, DiffApplies

\* The manifests from the receiver's, at 1, to the sender's; each patch under
\* way leads from one to the next.
Chain(m) ==
  /\ m \in Seq(Manifests)
  /\ pending \in Seq(Patches)
  /\ Len(m) = Len(pending) + 1
  /\ m[Len(m)] = sent
  /\ received = SortEntries(m[1])
  /\ \A k \in 1..Len(pending) : pending[k] = PatchDiff(m[k], m[k + 1])

InStep == \E m : Chain(m)

LEMMA ChainStarts ==
  ASSUME Init
  PROVE  InStep
<1> DEFINE m == <<sent>>
<1>1. m \in Seq(Manifests) /\ Len(m) = 1 /\ m[1] = sent
  BY DEF Init
<1>2. <<>> \in Seq(Patches) /\ Len(<<>>) = 0
  BY EmptySeq
<1> HIDE DEF m
<1>3. Chain(m)
  BY <1>1, <1>2 DEF Chain, Init
<1> QED
  BY <1>3 DEF InStep

LEMMA ChainGrows ==
  ASSUME NEW m, Chain(m), NEW new \in Manifests, pending' = Append(pending, PatchDiff(sent, new)),
         sent' = new, received' = received
  PROVE  InStep'
<1> DEFINE d == PatchDiff(sent, new)
           r == Append(m, new)
           q == Append(pending, d)
           n == Len(pending)
<1>1. /\ m \in Seq(Manifests) /\ pending \in Seq(Patches)
      /\ n \in Nat /\ Len(m) = n + 1 /\ m[n + 1] = sent
      /\ received = SortEntries(m[1])
      /\ \A k \in 1..n : pending[k] = PatchDiff(m[k], m[k + 1])
  BY DEF Chain
<1>2. sent \in Manifests
  <2>1. n + 1 \in 1..Len(m)
    BY <1>1
  <2> QED
    BY <1>1, <2>1
<1>3. d \in Patches
  BY <1>2 DEF Patches
<1> HIDE DEF d, n
<1>4. /\ r \in Seq(Manifests) /\ Len(r) = n + 2 /\ r[n + 2] = new
      /\ \A k \in 1..(n + 1) : r[k] = m[k]
  BY <1>1
<1>5. /\ q \in Seq(Patches) /\ Len(q) = n + 1 /\ q[n + 1] = d
      /\ \A k \in 1..n : q[k] = pending[k]
  BY <1>1, <1>3 DEF n
<1> HIDE DEF r, q
<1>6. \A k \in 1..(n + 1) : q[k] = PatchDiff(r[k], r[k + 1])
  <2>1. ASSUME NEW k \in 1..n
        PROVE  q[k] = PatchDiff(r[k], r[k + 1])
    <3>1. k \in 1..(n + 1) /\ k + 1 \in 1..(n + 1)
      BY <1>1
    <3> QED
      BY <1>1, <1>4, <1>5, <3>1
  <2>2. q[n + 1] = PatchDiff(r[n + 1], r[(n + 1) + 1])
    <3>1. (n + 1) + 1 = n + 2 /\ n + 1 \in 1..(n + 1)
      BY <1>1
    <3> QED
      BY <1>1, <1>4, <1>5, <3>1 DEF d
  <2>3. \A k \in 1..(n + 1) : k \in 1..n \/ k = n + 1
    BY <1>1
  <2> QED
    BY <2>1, <2>2, <2>3
<1>7. Len(r) = Len(q) + 1 /\ r[1] = m[1]
  <2>1. 1 \in 1..(n + 1) /\ n + 2 = (n + 1) + 1
    BY <1>1
  <2> QED
    BY <1>4, <1>5, <2>1
<1>8. pending' = q /\ sent' = new /\ received' = received
  BY DEF q, d
<1>9. Chain(r)'
  BY <1>1, <1>4, <1>5, <1>6, <1>7, <1>8 DEF Chain, Patches
<1> QED
  BY <1>9 DEF InStep

\* The receiver goes from one manifest of the chain to the next.
LEMMA ReceiveStep ==
  ASSUME NEW m, Chain(m), Receive,
         \A old, new \in Manifests : SealedTrees(BuildPatchTree(old), BuildPatchTree(new))
  PROVE  /\ m[1] \in Manifests /\ m[2] \in Manifests
         /\ received = SortEntries(m[1]) /\ received' = SortEntries(m[2])
         /\ Head(pending) = PatchDiff(m[1], m[2])
<1> DEFINE n == Len(pending)
<1>1. /\ m \in Seq(Manifests) /\ pending \in Seq(Patches)
      /\ n \in Nat /\ Len(m) = n + 1
      /\ received = SortEntries(m[1])
      /\ \A k \in 1..n : pending[k] = PatchDiff(m[k], m[k + 1])
  BY DEF Chain
<1>2. n # 0 /\ Head(pending) = pending[1]
  BY <1>1 DEF Receive
<1>3. m[1] \in Manifests /\ m[2] \in Manifests
  <2>1. 1 \in 1..Len(m) /\ 2 \in 1..Len(m)
    BY <1>1, <1>2
  <2> QED
    BY <1>1, <2>1
<1>4. pending[1] = PatchDiff(m[1], m[2])
  <2>1. 1 \in 1..n /\ 1 + 1 = 2
    BY <1>1, <1>2
  <2> QED
    BY <1>1, <2>1
<1>5. received' = ApplyPatch(SortEntries(m[1]), PatchDiff(m[1], m[2]).patch)
  BY <1>1, <1>2, <1>4 DEF Receive
<1>6. received' = SortEntries(m[2])
  BY <1>3, <1>5, PatchApplies
<1> QED
  BY <1>1, <1>2, <1>3, <1>4, <1>6

LEMMA ChainShrinks ==
  ASSUME NEW m, Chain(m), Receive,
         \A old, new \in Manifests : SealedTrees(BuildPatchTree(old), BuildPatchTree(new))
  PROVE  InStep'
<1> DEFINE r == Tail(m)
           q == Tail(pending)
           n == Len(pending)
<1>1. /\ m \in Seq(Manifests) /\ pending \in Seq(Patches)
      /\ n \in Nat /\ Len(m) = n + 1 /\ m[n + 1] = sent
      /\ received = SortEntries(m[1])
      /\ \A k \in 1..n : pending[k] = PatchDiff(m[k], m[k + 1])
  BY DEF Chain
<1>2. n # 0 /\ Head(pending) = pending[1]
  BY <1>1 DEF Receive
<1> HIDE DEF n
<1>3. /\ r \in Seq(Manifests) /\ Len(r) = n
      /\ \A k \in 1..n : r[k] = m[k + 1]
  <2>1. m # <<>>
    BY <1>1
  <2>2. r \in Seq(Manifests) /\ Len(r) = Len(m) - 1 /\ \A k \in 1..Len(r) : r[k] = m[k + 1]
    BY <1>1, <2>1, HeadTailProperties
  <2> HIDE DEF r
  <2> QED
    BY <1>1, <2>2
<1>4. /\ q \in Seq(Patches) /\ Len(q) = n - 1
      /\ \A k \in 1..(n - 1) : q[k] = pending[k + 1]
  <2>1. pending # <<>>
    BY DEF Receive
  <2>2. q \in Seq(Patches) /\ Len(q) = Len(pending) - 1
        /\ \A k \in 1..Len(q) : q[k] = pending[k + 1]
    BY <1>1, <2>1, HeadTailProperties
  <2> HIDE DEF q
  <2> QED
    BY <1>1, <2>2 DEF n
<1>5. received' = SortEntries(m[2])
  BY ReceiveStep
<1>6. received' = SortEntries(r[1]) /\ r[n] = sent
  <2>1. 1 \in 1..n /\ n \in 1..n /\ 1 + 1 = 2
    BY <1>1, <1>2
  <2> QED
    BY <1>1, <1>3, <1>5, <2>1
<1> HIDE DEF r, q
<1>7. \A k \in 1..(n - 1) : q[k] = PatchDiff(r[k], r[k + 1])
  <2> SUFFICES ASSUME NEW k \in 1..(n - 1) PROVE q[k] = PatchDiff(r[k], r[k + 1])
    OBVIOUS
  <2>1. k \in 1..n /\ k + 1 \in 1..n
    BY <1>1
  <2>2. pending[k + 1] = PatchDiff(m[k + 1], m[(k + 1) + 1])
    BY <1>1, <2>1
  <2> QED
    BY <1>3, <1>4, <2>1, <2>2
<1>8. pending' = q /\ sent' = sent
  BY DEF Receive, q
<1>9. Len(r) = Len(q) + 1
  BY <1>1, <1>3, <1>4
<1>10. Chain(r)'
  BY <1>3, <1>4, <1>6, <1>7, <1>8, <1>9 DEF Chain, Patches
<1> QED
  BY <1>10 DEF InStep

LEMMA ChainHolds ==
  ASSUME \A old, new \in Manifests : SealedTrees(BuildPatchTree(old), BuildPatchTree(new))
  PROVE  Spec => []InStep
<1>1. Init => InStep
  BY ChainStarts
<1>2. InStep /\ [Next]_vars => InStep'
  <2> SUFFICES ASSUME NEW m, Chain(m), [Next]_vars
               PROVE  InStep'
    BY DEF InStep
  <2>1. CASE UNCHANGED vars
    <3>1. Chain(m)'
      BY <2>1 DEF vars, Chain, Patches
    <3> QED
      BY <3>1 DEF InStep
  <2>2. CASE Send
    BY <2>2, ChainGrows DEF Send
  <2>3. CASE Receive
    BY <2>3, ChainShrinks
  <2> QED
    BY <2>1, <2>2, <2>3 DEF Next
<1> QED
  BY <1>1, <1>2, PTL DEF Spec

\* With sealed directories, however many patches are under way, a receiver that
\* has applied them all holds the sender's manifest in sorted form: no entry is
\* lost, added, or left in an earlier version.
THEOREM SessionsRoundTrip ==
  ASSUME \A old, new \in Manifests : SealedTrees(BuildPatchTree(old), BuildPatchTree(new))
  PROVE  Spec => []RoundTrip
<1>1. InStep => RoundTrip
  <2> SUFFICES ASSUME NEW m, Chain(m), pending = <<>>
               PROVE  received = SortEntries(sent)
    BY DEF InStep, RoundTrip
  <2>1. Len(m) = 1
    BY DEF Chain
  <2> QED
    BY <2>1 DEF Chain
<1> QED
  BY <1>1, ChainHolds, PTL

LEMMA ManifestsMeasured ==
  ASSUME NEW m \in Manifests
  PROVE  Measured(m) /\ Clean(m)
BY SessionAssumption, ManifestMeasured

\* With sealed directories the receiver's C4 ID is, before it applies a patch,
\* the one PatchDiff computed from the sender's old manifest, and after it the
\* one of the new manifest, though the receiver's lists are in another order: the
\* ID, with all that Canonicalize propagates into it, depends on the tree only.
THEOREM SessionsChainIDs ==
  ASSUME \A old, new \in Manifests : SealedTrees(BuildPatchTree(old), BuildPatchTree(new))
  PROVE  Spec => IDsChain
<1>1. InStep /\ [Next]_vars =>
        [Receive => /\ ComputeC4ID(received) = Head(pending).oldID
                    /\ ComputeC4ID(received') = Head(pending).newID]_vars
  <2> SUFFICES ASSUME NEW m, Chain(m), Receive
               PROVE  /\ ComputeC4ID(received) = Head(pending).oldID
                      /\ ComputeC4ID(received') = Head(pending).newID
    BY DEF InStep
  <2>1. /\ m[1] \in Manifests /\ m[2] \in Manifests
        /\ received = SortEntries(m[1]) /\ received' = SortEntries(m[2])
        /\ Head(pending) = PatchDiff(m[1], m[2])
    BY ReceiveStep
  <2>2. /\ Head(pending).oldID = ComputeC4ID(m[1])
        /\ Head(pending).newID = ComputeC4ID(m[2])
    BY <2>1 DEF PatchDiff
  <2>3. \A k \in Manifests : ComputeC4ID(SortEntries(k)) = ComputeC4ID(k)
    BY ManifestsMeasured, IDOfSorted
  <2> QED
    BY <2>1, <2>2, <2>3
<1> QED
  BY <1>1, ChainHolds, PTL DEF Spec, IDsChain
==============================================================================
