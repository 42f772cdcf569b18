--------------------------- MODULE ReplicasProofs ---------------------------
(* What Merge promises two replicas, for any names, versions, starting trees  *)
(* and number of edits.                                                       *)
EXTENDS Replicas, TreeProofs

-----------------------------------------------------------------------------
(* Paths.                                                                    *)

\* The conflict path of a path is one, below the same directories, of the same
\* kind, and no other path has it.
LEMMA ConflictPathIsPath ==
  ASSUME NEW p, IsPath(p)
  PROVE  /\ IsPath(ConflictPath(p))
         /\ Len(ConflictPath(p)) = Len(p)
         /\ Last(ConflictPath(p)) = ConflictName[Last(p)]
         /\ \A k \in 1..(Len(p) - 1) : ConflictPath(p)[k] = p[k]
         /\ Last(ConflictPath(p)) \in DirNames <=> Last(p) \in DirNames
<1>1. p \in Seq(Names) /\ Len(p) \in Nat /\ Len(p) >= 1
  BY DEF IsPath
<1> DEFINE f == SubSeq(p, 1, Len(p) - 1)
<1>2. f \in Seq(Names) /\ Len(f) = Len(p) - 1 /\ \A k \in 1..(Len(p) - 1) : f[k] = p[k]
  <2>1. \A i \in 1..(Len(p) - 1) : p[i] \in Names
    BY <1>1
  <2>2. Len(p) - 1 \in Int /\ (Len(p) - 1) - 1 + 1 = Len(p) - 1
    BY <1>1
  <2> QED
    BY <1>1, <2>1, <2>2, SubSeqProperties
<1>3. p[Len(p)] \in Names
  BY <1>1
<1>4. ConflictName[p[Len(p)]] \in Names
      /\ (ConflictName[p[Len(p)]] \in DirNames <=> p[Len(p)] \in DirNames)
  BY <1>3, ConflictNameAssumption
<1>5. ConflictPath(p) = Append(f, ConflictName[p[Len(p)]])
  BY DEF ConflictPath, Front, Last
<1> HIDE DEF f
<1>6. /\ ConflictPath(p) \in Seq(Names)
      /\ Len(ConflictPath(p)) = Len(p)
      /\ ConflictPath(p)[Len(p)] = ConflictName[p[Len(p)]]
      /\ \A k \in 1..(Len(p) - 1) : ConflictPath(p)[k] = p[k]
  BY <1>1, <1>2, <1>4, <1>5
<1>7. IsPath(ConflictPath(p))
  BY <1>1, <1>6 DEF IsPath
<1> QED
  BY <1>4, <1>6, <1>7 DEF Last

LEMMA ConflictPathInjective ==
  ASSUME NEW p, NEW q, IsPath(p), IsPath(q), ConflictPath(p) = ConflictPath(q)
  PROVE  p = q
<1>1. p \in Seq(Names) /\ q \in Seq(Names) /\ Len(p) \in Nat /\ Len(p) >= 1
  BY DEF IsPath
<1>2. Len(p) = Len(q) /\ \A k \in 1..(Len(p) - 1) : p[k] = q[k]
  BY ConflictPathIsPath
<1>3. Last(p) \in Names /\ Last(q) \in Names
  BY <1>1, <1>2 DEF Last
<1>4. Last(p) = Last(q)
  BY <1>3, ConflictPathIsPath, ConflictNameAssumption
<1>5. \A k \in 1..Len(p) : p[k] = q[k]
  BY <1>1, <1>2, <1>4 DEF Last
<1> QED
  BY <1>1, <1>2, <1>5

-----------------------------------------------------------------------------
(* The merged tree.                                                          *)

\* What an entry keeps when it takes another path.
LEMMA AtPathKeeps ==
  ASSUME NEW q, IsPath(q), NEW e, IsEntry(e)
  PROVE  /\ IsEntry(AtPath(q, e))
         /\ AtPath(q, e).name = Last(q)
         /\ AtPath(q, e).depth = Len(q) - 1
         /\ AtPath(q, e).mode = e.mode
         /\ AtPath(q, e).link = e.link
         /\ AtPath(q, e).id = e.id
<1>1. q \in Seq(Names) /\ Len(q) \in Nat \ {0}
  BY DEF IsPath
<1>2. Last(q) \in Names /\ Len(q) - 1 \in Nat
  BY <1>1 DEF Last
<1> DEFINE x == AtPath(q, e)
<1>3. x = [f \in DOMAIN e |-> x[f]] /\ DOMAIN x = DOMAIN e
  BY DEF AtPath
<1>4. \A f \in DOMAIN e : x[f] = IF f = "name" THEN Last(q)
                                ELSE IF f = "depth" THEN Len(q) - 1 ELSE e[f]
  BY DEF AtPath, IsEntry
<1>a. DOMAIN e = {"name", "depth", "mode", "timestamp", "size", "id", "link"}
  BY DEF IsEntry
<1> HIDE DEF x
<1>5. x.name = Last(q) /\ x.depth = Len(q) - 1
  BY <1>4, <1>a
<1>6. /\ x.mode = e.mode /\ x.timestamp = e.timestamp /\ x.size = e.size
      /\ x.id = e.id /\ x.link = e.link
  BY <1>4, <1>a
<1>b. x = [name |-> x.name, depth |-> x.depth, mode |-> x.mode, timestamp |-> x.timestamp,
           size |-> x.size, id |-> x.id, link |-> x.link]
  BY <1>3, <1>a
<1>7. IsEntry(x)
  BY <1>2, <1>5, <1>6, <1>b DEF IsEntry
<1> QED
  BY <1>5, <1>6, <1>7 DEF x

\* ensureDirs adds the directories above the paths of a tree and changes
\* nothing else.
LEMMA EnsureDirsAdds ==
  ASSUME NEW t
  PROVE  LET dirs == UNION {StrictlyAbove(p) : p \in DOMAIN t}
         IN /\ DOMAIN EnsureDirs(t) = DOMAIN t \cup dirs
            /\ \A p \in DOMAIN t : EnsureDirs(t)[p] = t[p]
            /\ \A d \in dirs \ DOMAIN t : EnsureDirs(t)[d] = ImpliedDir(d)
  BY DEF EnsureDirs, Over

\* Where the loop writes, and what.
LEMMA MergedEntries ==
  ASSUME NEW b, NEW l, NEW r, WellFormed(b), WellFormed(l), WellFormed(r),
         NEW q \in DOMAIN Merged(b, l, r)
  PROVE  /\ IsPath(q)
         /\ IsEntry(Merged(b, l, r)[q])
         /\ Merged(b, l, r)[q].name = Last(q)
         /\ Merged(b, l, r)[q].depth = Len(q) - 1
<1> DEFINE Own == {p \in DOMAIN l \cup DOMAIN r : IsOwn(b, l, r, p)}
           Lost == {ConflictPath(p) : p \in Clashes(b, l, r)}
           e == IF IsLoserPath(b, l, r, q)
                THEN Loser(l, r, CHOOSE p \in Clashes(b, l, r) : ConflictPath(p) = q)
                ELSE Version(b, l, r, q)
<1>1. q \in Own \cup Lost /\ Merged(b, l, r)[q] = AtPath(q, e)
  BY DEF Merged
<1>2. \A p \in Clashes(b, l, r) : p \in DOMAIN l /\ p \in DOMAIN r
  BY DEF Clashes, IsClash, IsFresh
<1>3. IsPath(q)
  <2>1. CASE q \in Own
    BY <2>1 DEF WellFormed
  <2>2. CASE q \in Lost
    BY <2>2, <1>2, ConflictPathIsPath DEF WellFormed
  <2> QED
    BY <1>1, <2>1, <2>2
<1>4. IsEntry(e)
  <2>1. CASE IsLoserPath(b, l, r, q)
    <3> DEFINE c == CHOOSE p \in Clashes(b, l, r) : ConflictPath(p) = q
    <3>1. c \in Clashes(b, l, r)
      BY <2>1 DEF IsLoserPath
    <3>2. IsEntry(l[c]) /\ IsEntry(r[c])
      BY <3>1, <1>2 DEF WellFormed
    <3> QED
      BY <2>1, <3>2 DEF Loser
  <2>2. CASE ~IsLoserPath(b, l, r, q)
    <3>1. IsOwn(b, l, r, q)
      BY <2>2, <1>1 DEF IsLoserPath, LoserStays
    <3>2. IsClash(b, l, r, q) => q \in DOMAIN l \cap DOMAIN r
      BY DEF IsClash, IsFresh
    <3>3. IsEntry(Version(b, l, r, q))
      BY <3>1, <3>2 DEF IsOwn, Version, IsFresh, Winner, WellFormed
    <3> QED
      BY <2>2, <3>3
  <2> QED
    BY <2>1, <2>2
<1> HIDE DEF e
<1> QED
  BY <1>1, <1>3, <1>4, AtPathKeeps

LEMMA MergeWellFormed ==
  ASSUME NEW b, NEW l, NEW r, WellFormed(b), WellFormed(l), WellFormed(r)
  PROVE  WellFormed(MergeTrees(b, l, r))
<1> DEFINE m == Merged(b, l, r)
           dirs == UNION {StrictlyAbove(p) : p \in DOMAIN m}
           t == MergeTrees(b, l, r)
<1>1. /\ DOMAIN t = DOMAIN m \cup dirs
      /\ \A p \in DOMAIN m : t[p] = m[p]
      /\ \A d \in dirs \ DOMAIN m : t[d] = ImpliedDir(d)
  BY EnsureDirsAdds DEF MergeTrees
<1>2. \A p \in DOMAIN m : /\ IsPath(p) /\ IsEntry(m[p])
                           /\ m[p].name = Last(p) /\ m[p].depth = Len(p) - 1
  BY MergedEntries
<1>a. IsFiniteSet(DOMAIN m)
  <2> DEFINE both == DOMAIN l \cup DOMAIN r
             clashes == Clashes(b, l, r)
             to == [p \in clashes |-> ConflictPath(p)]
  <2>1. IsFiniteSet(both)
    BY FS_Union DEF WellFormed
  <2>2. clashes \subseteq both
    BY DEF Clashes
  <2>3. IsFiniteSet(clashes)
    BY <2>1, <2>2, FS_Subset
  <2>4. DOMAIN to = clashes /\ to = [p \in clashes |-> to[p]]
    OBVIOUS
  <2>5. IsFiniteSet({to[p] : p \in clashes})
    <3> HIDE DEF to, clashes
    <3> QED
      BY <2>3, <2>4, ImageFinite
  <2>6. DOMAIN m \subseteq both \cup {to[p] : p \in clashes}
    BY DEF Merged
  <2> HIDE DEF m, both, to, clashes
  <2> QED
    BY <2>1, <2>5, <2>6, FS_Union, FS_Subset
<1> HIDE DEF m
<1>3. \A d \in dirs : IsPath(d) /\ StrictlyAbove(d) \subseteq dirs
  BY <1>2, StrictlyAboveStrict
<1>4. ASSUME NEW d \in dirs
      PROVE  /\ IsEntry(ImpliedDir(d))
             /\ ImpliedDir(d).name = Last(d) /\ ImpliedDir(d).depth = Len(d) - 1
  <2>1. d \in Seq(Names) /\ Len(d) \in Nat \ {0}
    BY <1>3 DEF IsPath
  <2>2. Last(d) \in Names /\ Len(d) - 1 \in Nat
    BY <2>1 DEF Last
  <2> QED
    BY <2>2 DEF ImpliedDir, IsEntry, Modes, NullTimestamp, NullSize
<1> HIDE DEF t
<1>5. ASSUME NEW p \in DOMAIN t
      PROVE  /\ IsPath(p) /\ StrictlyAbove(p) \subseteq DOMAIN t /\ IsEntry(t[p])
             /\ t[p].name = Last(p) /\ t[p].depth = Len(p) - 1
  BY <1>1, <1>2, <1>3, <1>4
<1>6. t = [p \in DOMAIN t |-> t[p]]
  BY DEF t, MergeTrees, EnsureDirs, Over
<1>7. IsFiniteSet(dirs)
  BY <1>2, <1>a, DirsFinite
<1> HIDE DEF dirs
<1>8. IsFiniteSet(DOMAIN t)
  BY <1>1, <1>7, <1>a, FS_Union
<1> QED
  BY <1>5, <1>6, <1>8 DEF WellFormed, t

-----------------------------------------------------------------------------
(* Types.                                                                    *)

\* An edit that leaves a tree on its side keeps the types.
LEMMA EditKeepsTypes ==
  ASSUME TypeOK, NEW s \in Sides, NEW t, WellFormed(t), Edit(s, t)
  PROVE  TypeOK'
<1>1. edits' \in 0..MaxEdits
  BY ReplicasAssumption DEF TypeOK, Edit
<1>2. base' = base
  BY DEF Edit
<1>3. \A x \in Sides : replica'[x] = IF x = s THEN t ELSE replica[x]
  BY DEF TypeOK, Edit
<1>4. DOMAIN replica' = Sides
  BY DEF TypeOK, Edit
<1> QED
  BY <1>1, <1>2, <1>3, <1>4 DEF TypeOK

LEMMA PutKeepsTypes ==
  ASSUME TypeOK, NEW s \in Sides, NEW p \in EditPaths, NEW v \in VersionsAt(p),
         Put(s, p, v)
  PROVE  TypeOK'
<1> DEFINE e == EntryAt(p, v)
           t == Over([q \in {p} |-> e], replica[s])
<1>1. IsPath(p) /\ v.mode \in Modes /\ v.timestamp \in Nat
  BY ReplicasAssumption DEF VersionsAt
<1>2. Last(p) \in Names /\ Len(p) - 1 \in Nat
  BY <1>1 DEF IsPath, Last
<1>3. IsEntry(e) /\ e.name = Last(p) /\ e.depth = Len(p) - 1
  BY <1>1, <1>2 DEF EntryAt, IsEntry
<1>4. WellFormed(replica[s]) /\ StrictlyAbove(p) \subseteq DOMAIN replica[s] /\ Edit(s, t)
  BY DEF TypeOK, Put
<1> HIDE DEF e
<1>5. /\ DOMAIN t = {p} \cup DOMAIN replica[s]
      /\ \A q \in DOMAIN t : t[q] = IF q = p THEN e ELSE replica[s][q]
  BY DEF Over
<1>6. t = [q \in DOMAIN t |-> t[q]]
  BY DEF Over
<1> HIDE DEF t
<1>7. IsFiniteSet(DOMAIN t)
  <2>1. IsFiniteSet({p}) /\ IsFiniteSet(DOMAIN replica[s])
    BY <1>4, FS_Singleton DEF WellFormed
  <2> QED
    BY <1>5, <2>1, FS_Union
<1>8. \A q \in DOMAIN t :
        /\ IsPath(q) /\ StrictlyAbove(q) \subseteq DOMAIN t /\ IsEntry(t[q])
        /\ t[q].name = Last(q) /\ t[q].depth = Len(q) - 1
  BY <1>1, <1>3, <1>4, <1>5 DEF WellFormed
<1>9. WellFormed(t)
  BY <1>6, <1>7, <1>8 DEF WellFormed
<1> QED
  BY <1>4, <1>9, EditKeepsTypes

LEMMA DeleteKeepsTypes ==
  ASSUME TypeOK, NEW s \in Sides, NEW p \in EditPaths, Delete(s, p)
  PROVE  TypeOK'
<1> DEFINE left == {x \in DOMAIN replica[s] : p \notin Above(x)}
           t == [q \in left |-> replica[s][q]]
<1>1. WellFormed(replica[s]) /\ Edit(s, t)
  BY DEF TypeOK, Delete
<1>2. ASSUME NEW q \in left
      PROVE  StrictlyAbove(q) \subseteq left
  <2>1. IsPath(q) /\ StrictlyAbove(q) \subseteq DOMAIN replica[s]
    BY <1>1 DEF WellFormed
  <2>2. \A d \in StrictlyAbove(q) : Above(d) \subseteq Above(q)
    BY <2>1, AboveIsPath DEF StrictlyAbove
  <2> QED
    BY <2>1, <2>2
<1>3. WellFormed(t)
  <2>1. t = [q \in DOMAIN t |-> t[q]] /\ DOMAIN t = left
    OBVIOUS
  <2>2. left \subseteq DOMAIN replica[s] /\ \A q \in left : t[q] = replica[s][q]
    OBVIOUS
  <2> HIDE DEF t, left
  <2>3. IsFiniteSet(left)
    BY <1>1, <2>2, FS_Subset DEF WellFormed
  <2> QED
    BY <1>1, <1>2, <2>1, <2>2, <2>3 DEF WellFormed
<1> QED
  BY <1>1, <1>3, EditKeepsTypes

LEMMA PullKeepsTypes ==
  ASSUME TypeOK, NEW s \in Sides, Pull(s)
  PROVE  TypeOK'
<1>1. Other(s) \in Sides
  BY DEF Sides, Other
<1>2. WellFormed(MergeTrees(base, replica[s], replica[Other(s)]))
  BY <1>1, MergeWellFormed DEF TypeOK
<1>3. /\ edits' = edits
      /\ base' = replica[Other(s)]
      /\ DOMAIN replica' = Sides
      /\ \A x \in Sides : replica'[x] =
           IF x = s THEN MergeTrees(base, replica[s], replica[Other(s)]) ELSE replica[x]
  BY DEF TypeOK, Pull
<1> QED
  BY <1>1, <1>2, <1>3 DEF TypeOK

\* Replicas are trees at all times: every entry has the name and depth of its
\* path and its directories above it, also after merges that delete a directory
\* on one side and change what is below it on the other.
THEOREM ReplicaTypes == Spec => []TypeOK
<1>1. Init => TypeOK
  BY ReplicasAssumption DEF Init, TypeOK
<1>2. TypeOK /\ [Next]_vars => TypeOK'
  <2> SUFFICES ASSUME TypeOK, [Next]_vars
               PROVE  TypeOK'
    OBVIOUS
  <2>1. CASE UNCHANGED vars
    BY <2>1 DEF vars, TypeOK, WellFormed
  <2>2. ASSUME NEW s \in Sides, NEW p \in EditPaths, NEW v \in VersionsAt(p), Put(s, p, v)
        PROVE  TypeOK'
    BY <2>2, PutKeepsTypes
  <2>3. ASSUME NEW s \in Sides, NEW p \in EditPaths, Delete(s, p)
        PROVE  TypeOK'
    BY <2>3, DeleteKeepsTypes
  <2>4. ASSUME NEW s \in Sides, Pull(s)
        PROVE  TypeOK'
    BY <2>4, PullKeepsTypes
  <2> QED
    BY <2>1, <2>2, <2>3, <2>4 DEF Next
<1> QED
  BY <1>1, <1>2, PTL DEF Spec

-----------------------------------------------------------------------------
(* Manifests and trees.                                                      *)

\* Of a clean list the map Merge works on is the tree PatchDiff works on.
LEMMA PathMapIsTree ==
  ASSUME NEW es, IsList(es), Clean(es)
  PROVE  PathMap(es) = BuildPatchTree(es)
<1> DEFINE P == EntryPaths(es)
           t == BuildPatchTree(es)
           n == Len(es)
           m == PathMap(es)
           Last0(p) == Max({i \in DOMAIN es : P[i] = p})
<1>1. /\ n \in Nat /\ DOMAIN P = 1..n
      /\ \A i, j \in 1..n : P[i] = P[j] => i = j
  BY PathsOfClean
<1>2. /\ t = [p \in DOMAIN t |-> t[p]]
      /\ DOMAIN t = {P[i] : i \in 1..n}
      /\ \A i \in 1..n : t[P[i]] = es[i]
  BY TreeOfClean
<1>3. DOMAIN es = 1..n
  BY DEF IsList
<1>4. m = [p \in Range(P) |-> es[Last0(p)]]
  BY DEF PathMap
<1> HIDE DEF m, P, t
<1>5. Range(P) = {P[i] : i \in 1..n}
  BY <1>1 DEF Range
<1>6. ASSUME NEW i \in 1..n
      PROVE  Last0(P[i]) = i
  <2> DEFINE S == {j \in DOMAIN es : P[j] = P[i]}
  <2>1. S = {i}
    BY <1>1, <1>3
  <2>2. i \in S /\ \A j \in S : i >= j
    BY <1>1, <2>1
  <2> HIDE DEF S
  <2>3. Max(S) = i
    BY <1>1, <2>1, <2>2 DEF Max
  <2> QED
    BY <2>3 DEF S
<1> HIDE DEF Last0
<1>7. DOMAIN m = DOMAIN t
  BY <1>2, <1>4, <1>5
<1>8. ASSUME NEW p \in DOMAIN t
      PROVE  m[p] = t[p]
  <2>1. PICK i \in 1..n : P[i] = p
    BY <1>2
  <2>2. m[P[i]] = es[Last0(P[i])]
    BY <1>4, <1>5
  <2> QED
    BY <1>2, <1>6, <2>1, <2>2
<1>9. m = [p \in DOMAIN m |-> m[p]]
  BY <1>4
<1>10. m = t
  BY <1>2, <1>7, <1>8, <1>9
<1> QED
  BY <1>10 DEF m, t

LEMMA PathMapReadsBack ==
  ASSUME NEW t, WellFormed(t)
  PROVE  PathMap(Listing(t)) = t
BY ListingIsClean, PathMapIsTree, ReadsBack

\* What Merge returns is a clean manifest, and the next Merge reads from it the
\* tree this one made: every entry has its directory before it, no path comes
\* twice, and none is written at another depth than that of its path.
THEOREM MergesClean == Spec => []MergedIsClean
<1>1. TypeOK => MergedIsClean
  <2> SUFFICES ASSUME TypeOK, NEW s \in Sides
               PROVE  LET merge == Merge(Listing(base), Listing(replica[s]),
                                         Listing(replica[Other(s)]))
                      IN /\ Clean(merge.merged)
                         /\ PathMap(merge.merged)
                              = MergeTrees(base, replica[s], replica[Other(s)])
    BY DEF MergedIsClean
  <2> DEFINE l == replica[s]
             r == replica[Other(s)]
             t == MergeTrees(base, l, r)
  <2>1. WellFormed(base) /\ WellFormed(l) /\ WellFormed(r)
    BY DEF TypeOK, Sides, Other
  <2>2. Merge(Listing(base), Listing(l), Listing(r)).merged = Listing(t)
    BY <2>1, PathMapReadsBack DEF Merge
  <2>3. WellFormed(t)
    BY <2>1, MergeWellFormed
  <2> HIDE DEF t
  <2>4. Clean(Listing(t)) /\ PathMap(Listing(t)) = t
    BY <2>3, ListingIsClean, PathMapReadsBack
  <2> QED
    BY <2>2, <2>4 DEF t
<1> QED
  BY <1>1, ReplicaTypes, PTL

-----------------------------------------------------------------------------
(* What a merge does with the versions of both sides.                        *)

LEMMA MergeEqualSymmetric ==
  ASSUME NEW e, NEW f
  PROVE  MergeEqual(e, e) /\ (MergeEqual(e, f) <=> MergeEqual(f, e))
  BY DEF MergeEqual

\* An entry stays what it is, for Merge, at another path of its kind.
LEMMA AtPathMergeEqual ==
  ASSUME NEW q, IsPath(q), NEW e, IsEntry(e), NEW f,
         Last(q) \in DirNames <=> e.name \in DirNames, MergeEqual(e, f)
  PROVE  MergeEqual(AtPath(q, e), f)
<1> DEFINE x == AtPath(q, e)
<1>1. x.name = Last(q) /\ x.mode = e.mode /\ x.link = e.link /\ x.id = e.id
  BY AtPathKeeps
<1> HIDE DEF x
<1>2. IsDir(x) = IsDir(e) /\ IsSymlink(x) = IsSymlink(e)
  BY <1>1 DEF IsDir, IsSymlink
<1> QED
  BY <1>1, <1>2 DEF MergeEqual, x

\* A side without edits takes over the other's tree.
LEMMA FastForward ==
  ASSUME NEW b, NEW r, WellFormed(b), WellFormed(r)
  PROVE  Same(MergeTrees(b, b, r), r) /\ Conflicts(b, b, r) = {}
<1> DEFINE m == Merged(b, b, r)
<1>1. \A p : ~IsFresh(b, b, p)
  BY MergeEqualSymmetric DEF IsFresh
<1>2. Clashes(b, b, r) = {} /\ Conflicts(b, b, r) = {}
  BY <1>1 DEF Clashes, IsClash, Conflicts, DeletedUnder, Fresh
<1>3. \A p : IsOwn(b, b, r, p) <=> p \in DOMAIN r
  BY <1>1 DEF IsOwn, IsFresh
<1>4. DOMAIN m = DOMAIN r
  BY <1>2, <1>3 DEF Merged
<1>5. ASSUME NEW p \in DOMAIN r
      PROVE  MergeEqual(m[p], r[p])
  <2> DEFINE e == IF IsFresh(b, r, p) THEN r[p] ELSE b[p]
  <2>1. ~IsLoserPath(b, b, r, p) /\ ~IsClash(b, b, r, p)
    BY <1>1, <1>2 DEF IsLoserPath, IsClash
  <2>2. m[p] = AtPath(p, e)
    BY <1>1, <1>4, <2>1 DEF Merged, Version
  <2>3. MergeEqual(e, r[p]) /\ IsPath(p) /\ IsEntry(e) /\ e.name = Last(p)
    BY MergeEqualSymmetric DEF IsFresh, WellFormed
  <2> HIDE DEF e
  <2>4. MergeEqual(AtPath(p, e), r[p])
    <3>1. Last(p) \in DirNames <=> e.name \in DirNames
      BY <2>3
    <3> QED
      BY <2>3, <3>1, AtPathMergeEqual
  <2> QED
    BY <2>2, <2>4
<1> HIDE DEF m
<1>6. UNION {StrictlyAbove(p) : p \in DOMAIN m} \subseteq DOMAIN m
  BY <1>4 DEF WellFormed
<1>7. /\ DOMAIN MergeTrees(b, b, r) = DOMAIN m
      /\ \A p \in DOMAIN m : MergeTrees(b, b, r)[p] = m[p]
  BY <1>6, EnsureDirsAdds DEF MergeTrees, m
<1> QED
  BY <1>2, <1>4, <1>5, <1>7 DEF Same

\* A side that made no edit since the common state takes over the other's
\* state, and meets no conflict.
THEOREM ReplicasFastForward == Spec => FastForwards
<1>1. TypeOK /\ [Next]_vars =>
        [\A s \in Sides : Pull(s) /\ replica[s] = base =>
           /\ Same(replica'[s], replica[Other(s)])
           /\ Conflicts(base, replica[s], replica[Other(s)]) = {}]_vars
  <2> SUFFICES ASSUME TypeOK, NEW s \in Sides, Pull(s), replica[s] = base
               PROVE  /\ Same(replica'[s], replica[Other(s)])
                      /\ Conflicts(base, replica[s], replica[Other(s)]) = {}
    OBVIOUS
  <2>1. Other(s) \in Sides
    BY DEF Sides, Other
  <2>2. WellFormed(base) /\ WellFormed(replica[Other(s)])
    BY <2>1 DEF TypeOK
  <2>3. replica'[s] = MergeTrees(base, base, replica[Other(s)])
    BY DEF TypeOK, Pull
  <2> QED
    BY <2>2, <2>3, FastForward
<1> QED
  BY <1>1, ReplicaTypes, PTL DEF Spec, FastForwards

\* What stands in the merge at a path of its own, and at the path of a loser.
LEMMA MergedAt ==
  ASSUME NEW b, NEW l, NEW r, WellFormed(b), WellFormed(l), WellFormed(r), NEW p
  PROVE  /\ IsOwn(b, l, r, p) /\ ~IsLoserPath(b, l, r, p) =>
              /\ p \in DOMAIN MergeTrees(b, l, r)
              /\ MergeTrees(b, l, r)[p] = AtPath(p, Version(b, l, r, p))
         /\ p \in Clashes(b, l, r) /\ LoserStays(b, l, r, p) =>
              /\ ConflictPath(p) \in DOMAIN MergeTrees(b, l, r)
              /\ MergeTrees(b, l, r)[ConflictPath(p)] =
                   AtPath(ConflictPath(p), Loser(l, r, p))
<1> DEFINE m == Merged(b, l, r)
<1>1. /\ DOMAIN m \subseteq DOMAIN MergeTrees(b, l, r)
      /\ \A q \in DOMAIN m : MergeTrees(b, l, r)[q] = m[q]
  BY EnsureDirsAdds DEF MergeTrees
<1>2. ASSUME IsOwn(b, l, r, p), ~IsLoserPath(b, l, r, p)
      PROVE  p \in DOMAIN m /\ m[p] = AtPath(p, Version(b, l, r, p))
  <2>1. p \in DOMAIN l \cup DOMAIN r
    BY <1>2 DEF IsOwn, IsFresh
  <2> QED
    BY <1>2, <2>1 DEF Merged
<1>3. ASSUME p \in Clashes(b, l, r), LoserStays(b, l, r, p)
      PROVE  /\ ConflictPath(p) \in DOMAIN m
             /\ m[ConflictPath(p)] = AtPath(ConflictPath(p), Loser(l, r, p))
  <2> DEFINE q == ConflictPath(p)
  <2>1. \A c \in Clashes(b, l, r) : IsPath(c)
    BY DEF Clashes, WellFormed
  <2>2. (CHOOSE c \in Clashes(b, l, r) : ConflictPath(c) = q) = p
    BY <1>3, <2>1, ConflictPathInjective
  <2>3. IsLoserPath(b, l, r, q)
    BY <1>3 DEF IsLoserPath
  <2>4. q \in DOMAIN m
    BY <1>3 DEF Merged
  <2> QED
    BY <2>2, <2>3, <2>4 DEF Merged
<1> HIDE DEF m
<1> QED
  BY <1>1, <1>2, <1>3

\* A fresh version of either side is in the merge.
LEMMA FreshSurvives ==
  ASSUME NEW b, NEW l, NEW r, WellFormed(b), WellFormed(l), WellFormed(r),
         NEW t \in {l, r}, NEW p \in Fresh(b, t),
         \A c \in Clashes(b, l, r) : ConflictPath(c) # p,
         p \in Clashes(b, l, r) =>
           ConflictPath(p) \notin DOMAIN l /\ ConflictPath(p) \notin DOMAIN r
  PROVE  LET Holds(q) == /\ q \in DOMAIN MergeTrees(b, l, r)
                         /\ MergeEqual(MergeTrees(b, l, r)[q], t[p])
         IN Holds(p) \/ (p \in Clashes(b, l, r) /\ Holds(ConflictPath(p)))
<1> DEFINE m == MergeTrees(b, l, r)
           v == Version(b, l, r, p)
<1>1. p \in DOMAIN t /\ IsFresh(b, t, p) /\ IsPath(p) /\ IsEntry(t[p]) /\ t[p].name = Last(p)
  BY DEF Fresh, WellFormed
<1>2. ~IsLoserPath(b, l, r, p)
  BY DEF IsLoserPath
<1>3. IsOwn(b, l, r, p)
  BY <1>1 DEF IsOwn
<1>4. p \in DOMAIN m /\ m[p] = AtPath(p, v)
  BY <1>2, <1>3, MergedAt
<1>5. CASE p \notin Clashes(b, l, r)
  <2>1. ~IsClash(b, l, r, p)
    BY <1>5 DEF Clashes, IsClash, IsFresh
  <2>2. /\ MergeEqual(v, t[p]) /\ IsEntry(v) /\ v.name = Last(p)
    <3>1. CASE IsFresh(b, l, p)
      <4>1. v = l[p] /\ p \in DOMAIN l
        BY <2>1, <3>1 DEF Version, IsFresh
      <4>2. IsFresh(b, r, p) => MergeEqual(l[p], r[p])
        BY <2>1, <3>1 DEF IsClash
      <4> QED
        BY <1>1, <4>1, <4>2, MergeEqualSymmetric DEF WellFormed
    <3>2. CASE ~IsFresh(b, l, p)
      <4>1. v = r[p] /\ t[p] = r[p]
        BY <1>1, <2>1, <3>2 DEF Version
      <4> QED
        BY <1>1, <4>1, MergeEqualSymmetric
    <3> QED
      BY <3>1, <3>2
  <2> HIDE DEF v
  <2>3. MergeEqual(AtPath(p, v), t[p])
    <3>1. Last(p) \in DirNames <=> v.name \in DirNames
      BY <2>2
    <3> QED
      BY <1>1, <2>2, <3>1, AtPathMergeEqual
  <2> QED
    BY <1>4, <2>3
<1>6. CASE p \in Clashes(b, l, r)
  <2> DEFINE q == ConflictPath(p)
  <2>1. IsClash(b, l, r, p) /\ p \in DOMAIN l
    BY <1>6 DEF Clashes
  <2>2. v = Winner(l, r, p)
    BY <2>1 DEF Version
  <2>3. t[p] = Winner(l, r, p) \/ t[p] = Loser(l, r, p)
    BY DEF Winner, Loser
  <2>4. CASE t[p] = Winner(l, r, p)
    <3>1. MergeEqual(AtPath(p, t[p]), t[p])
      BY <1>1, AtPathMergeEqual, MergeEqualSymmetric
    <3> QED
      BY <1>4, <2>2, <2>4, <3>1
  <2>5. CASE t[p] = Loser(l, r, p)
    <3>1. LoserStays(b, l, r, p)
      BY <1>6 DEF LoserStays, IsOwn, IsFresh
    <3>2. q \in DOMAIN m /\ m[q] = AtPath(q, t[p])
      BY <1>6, <2>5, <3>1, MergedAt
    <3>3. IsPath(q) /\ (Last(q) \in DirNames <=> t[p].name \in DirNames)
      BY <1>1, ConflictPathIsPath
    <3> HIDE DEF q
    <3>4. MergeEqual(AtPath(q, t[p]), t[p])
      BY <1>1, <3>3, AtPathMergeEqual, MergeEqualSymmetric
    <3> QED
      BY <1>6, <3>2, <3>4 DEF q
  <2> QED
    BY <2>3, <2>4, <2>5
<1> QED
  BY <1>5, <1>6

\* What either side added or changed is in the merge, at its path or at the
\* conflict path, when that one was free and is not the path of another loser.
THEOREM ReplicasKeepEdits == Spec => EditsSurvive
<1>1. ASSUME TypeOK, NEW s \in Sides, Pull(s),
             NEW t \in {replica[1], replica[2]}, NEW p \in Fresh(base, t),
             \A c \in ClashesOf(s) : ConflictPath(c) # p,
             p \in ClashesOf(s) => \A x \in Sides : ConflictPath(p) \notin DOMAIN replica[x]
      PROVE  LET Holds(q) == q \in DOMAIN replica'[s] /\ MergeEqual(replica'[s][q], t[p])
             IN Holds(p) \/ (p \in ClashesOf(s) /\ Holds(ConflictPath(p)))
  <2> DEFINE l == replica[s]
             r == replica[Other(s)]
  <2>1. Other(s) \in Sides /\ {replica[1], replica[2]} = {l, r}
    BY DEF Sides, Other
  <2>2. WellFormed(base) /\ WellFormed(l) /\ WellFormed(r)
    BY <1>1, <2>1 DEF TypeOK
  <2>3. replica'[s] = MergeTrees(base, l, r)
    BY <1>1 DEF TypeOK, Pull
  <2>4. ClashesOf(s) = Clashes(base, l, r)
    BY DEF ClashesOf
  <2>5. p \in Clashes(base, l, r) =>
          ConflictPath(p) \notin DOMAIN l /\ ConflictPath(p) \notin DOMAIN r
    BY <1>1, <2>1, <2>4
  <2>6. t \in {l, r}
    BY <2>1
  <2>7. \A c \in Clashes(base, l, r) : ConflictPath(c) # p
    BY <1>1, <2>4
  <2> HIDE DEF l, r
  <2> QED
    BY <2>2, <2>3, <2>4, <2>5, <2>6, <2>7, FreshSurvives
<1>2. TypeOK /\ [Next]_vars =>
        [\A s \in Sides : Pull(s) =>
           \A t \in {replica[1], replica[2]} : \A p \in Fresh(base, t) :
             LET clash == p \in ClashesOf(s)
                 Holds(q) == q \in DOMAIN replica'[s] /\ MergeEqual(replica'[s][q], t[p])
                 free == /\ \A c \in ClashesOf(s) : ConflictPath(c) # p
                         /\ clash => \A x \in Sides : ConflictPath(p) \notin DOMAIN replica[x]
             IN free => Holds(p) \/ (clash /\ Holds(ConflictPath(p)))]_vars
  BY <1>1
<1> QED
  BY <1>2, ReplicaTypes, PTL DEF Spec, EditsSurvive

\* What one side deleted and the other did not touch is gone after the merge,
\* but for the directories something below them still needs.
THEOREM ReplicasKeepDeletions == Spec => DeletionsHold
<1>1. ASSUME TypeOK, NEW s \in Sides, Pull(s),
             NEW t \in {replica[1], replica[2]}, NEW p \in DOMAIN base \ DOMAIN t,
             p \notin Fresh(base, replica[1]) \cup Fresh(base, replica[2]),
             \A c \in ClashesOf(s) : ConflictPath(c) # p,
             p \in DOMAIN replica'[s]
      PROVE  \E q \in DOMAIN replica'[s] : p \in StrictlyAbove(q)
  <2> DEFINE l == replica[s]
             r == replica[Other(s)]
             m == Merged(base, l, r)
  <2>1. {replica[1], replica[2]} = {l, r}
    BY DEF Sides, Other
  <2>2. replica'[s] = EnsureDirs(m)
    BY <1>1 DEF TypeOK, Pull, MergeTrees
  <2>3. ClashesOf(s) = Clashes(base, l, r)
    BY DEF ClashesOf
  <2>4. ~IsOwn(base, l, r, p)
    <3>1. ~IsFresh(base, l, p) /\ ~IsFresh(base, r, p)
      BY <1>1, <2>1 DEF Fresh, IsFresh
    <3>2. p \notin DOMAIN base \cap DOMAIN l \cap DOMAIN r
      BY <1>1, <2>1
    <3> QED
      BY <3>1, <3>2 DEF IsOwn
  <2>5. p \notin DOMAIN m
    BY <1>1, <2>3, <2>4 DEF Merged
  <2> HIDE DEF m
  <2>6. DOMAIN replica'[s] = DOMAIN m \cup UNION {StrictlyAbove(q) : q \in DOMAIN m}
    BY <2>2, EnsureDirsAdds
  <2>7. PICK q \in DOMAIN m : p \in StrictlyAbove(q)
    BY <1>1, <2>5, <2>6
  <2> QED
    BY <2>6, <2>7
<1>2. TypeOK /\ [Next]_vars =>
        [\A s \in Sides : Pull(s) =>
           \A t \in {replica[1], replica[2]} : \A p \in DOMAIN base \ DOMAIN t :
             /\ p \notin Fresh(base, replica[1]) \cup Fresh(base, replica[2])
             /\ \A c \in ClashesOf(s) : ConflictPath(c) # p
             /\ p \in DOMAIN replica'[s]
             => \E q \in DOMAIN replica'[s] : p \in StrictlyAbove(q)]_vars
  BY <1>1
<1> QED
  BY <1>2, ReplicaTypes, PTL DEF Spec, DeletionsHold

-----------------------------------------------------------------------------
(* Agreement.                                                                *)

\* The two orders of a merge meet the same conflicts and keep the same paths.
LEMMA ClashesSymmetric ==
  ASSUME NEW b, NEW l, NEW r
  PROVE  /\ \A p : IsClash(b, l, r, p) <=> IsClash(b, r, l, p)
         /\ Clashes(b, l, r) = Clashes(b, r, l)
         /\ \A p : IsOwn(b, l, r, p) <=> IsOwn(b, r, l, p)
         /\ \A q : IsLoserPath(b, l, r, q) <=> IsLoserPath(b, r, l, q)
<1>1. \A p : IsClash(b, l, r, p) <=> IsClash(b, r, l, p)
  BY MergeEqualSymmetric DEF IsClash
<1>2. Clashes(b, l, r) = Clashes(b, r, l)
  BY <1>1 DEF Clashes, IsClash, IsFresh
<1>3. \A p : IsOwn(b, l, r, p) <=> IsOwn(b, r, l, p)
  BY DEF IsOwn
<1>4. \A p : LoserStays(b, l, r, p) <=> LoserStays(b, r, l, p)
  BY <1>3 DEF LoserStays
<1> QED
  BY <1>1, <1>2, <1>3, <1>4 DEF IsLoserPath

\* Without a conflict between versions of one timestamp, both orders keep the
\* same version of every path.
LEMMA VersionSymmetric ==
  ASSUME NEW b, NEW l, NEW r, WellFormed(l), WellFormed(r),
         \A p \in Clashes(b, l, r) : l[p].timestamp # r[p].timestamp, NEW p
  PROVE  /\ MergeEqual(Version(b, l, r, p), Version(b, r, l, p))
         /\ p \in Clashes(b, l, r) => Loser(l, r, p) = Loser(r, l, p)
<1>1. IsClash(b, l, r, p) <=> IsClash(b, r, l, p)
  BY ClashesSymmetric
<1>2. CASE p \in Clashes(b, l, r)
  <2>1. IsClash(b, l, r, p) /\ p \in DOMAIN l /\ p \in DOMAIN r
    BY <1>2 DEF Clashes, IsClash, IsFresh
  <2>2. l[p].timestamp \in Nat /\ r[p].timestamp \in Nat
    BY <2>1 DEF WellFormed, IsEntry
  <2>3. RemoteNewer(l, r, p) <=> ~RemoteNewer(r, l, p)
    BY <1>2, <2>2 DEF RemoteNewer
  <2>4. Winner(l, r, p) = Winner(r, l, p) /\ Loser(l, r, p) = Loser(r, l, p)
    BY <2>3 DEF Winner, Loser
  <2> QED
    BY <1>1, <2>1, <2>4, MergeEqualSymmetric DEF Version
<1>3. CASE p \notin Clashes(b, l, r)
  <2>1. ~IsClash(b, l, r, p)
    BY <1>3 DEF Clashes, IsClash, IsFresh
  <2>2. IsFresh(b, l, p) /\ IsFresh(b, r, p) => MergeEqual(l[p], r[p])
    BY <2>1 DEF IsClash
  <2> QED
    BY <1>1, <1>3, <2>1, <2>2, MergeEqualSymmetric DEF Version
<1> QED
  BY <1>2, <1>3

LEMMA MergeSymmetric ==
  ASSUME NEW b, NEW l, NEW r, WellFormed(b), WellFormed(l), WellFormed(r),
         \A p \in Clashes(b, l, r) : l[p].timestamp # r[p].timestamp
  PROVE  Same(MergeTrees(b, l, r), MergeTrees(b, r, l))
<1> DEFINE m == Merged(b, l, r)
           n == Merged(b, r, l)
<1>1. DOMAIN m = DOMAIN n
  BY ClashesSymmetric DEF Merged
<1>2. ASSUME NEW q \in DOMAIN m
      PROVE  MergeEqual(m[q], n[q])
  <2>1. CASE IsLoserPath(b, l, r, q)
    <3> DEFINE c == CHOOSE p \in Clashes(b, l, r) : ConflictPath(p) = q
    <3>1. c \in Clashes(b, l, r)
      BY <2>1 DEF IsLoserPath
    <3>2. c = CHOOSE p \in Clashes(b, r, l) : ConflictPath(p) = q
      BY ClashesSymmetric
    <3>3. IsLoserPath(b, r, l, q)
      BY <2>1, ClashesSymmetric
    <3>4. m[q] = AtPath(q, Loser(l, r, c))
      BY <2>1 DEF Merged
    <3>5. n[q] = AtPath(q, Loser(r, l, c))
      BY <1>1, <3>2, <3>3 DEF Merged
    <3> HIDE DEF c
    <3>6. Loser(l, r, c) = Loser(r, l, c)
      BY <3>1, VersionSymmetric
    <3> QED
      BY <3>4, <3>5, <3>6, MergeEqualSymmetric
  <2>2. CASE ~IsLoserPath(b, l, r, q)
    <3> DEFINE v == Version(b, l, r, q)
               w == Version(b, r, l, q)
    <3>1. ~IsLoserPath(b, r, l, q)
      BY <2>2, ClashesSymmetric
    <3>2. m[q] = AtPath(q, v) /\ n[q] = AtPath(q, w)
      BY <1>1, <2>2, <3>1 DEF Merged
    <3>3. MergeEqual(v, w)
      BY VersionSymmetric
    <3>4. IsOwn(b, l, r, q) /\ IsOwn(b, r, l, q)
      BY <2>2, ClashesSymmetric DEF Merged, IsLoserPath, LoserStays
    <3>5. /\ IsEntry(v) /\ v.name = Last(q)
          /\ IsEntry(w) /\ w.name = Last(q) /\ IsPath(q)
      BY <3>4 DEF IsOwn, Version, Winner, IsClash, IsFresh, WellFormed
    <3> HIDE DEF v, w
    <3>6. /\ Last(q) \in DirNames <=> v.name \in DirNames
          /\ Last(q) \in DirNames <=> w.name \in DirNames
      BY <3>5
    <3>7. MergeEqual(AtPath(q, v), w)
      BY <3>3, <3>5, <3>6, AtPathMergeEqual
    <3>8. MergeEqual(AtPath(q, w), AtPath(q, v))
      BY <3>5, <3>6, <3>7, AtPathMergeEqual, MergeEqualSymmetric
    <3> QED
      BY <3>2, <3>8, MergeEqualSymmetric
  <2> QED
    BY <2>1, <2>2
<1> HIDE DEF m, n
<1> DEFINE dirs == UNION {StrictlyAbove(p) : p \in DOMAIN m}
<1>3. /\ DOMAIN MergeTrees(b, l, r) = DOMAIN m \cup dirs
      /\ \A p \in DOMAIN m : MergeTrees(b, l, r)[p] = m[p]
      /\ \A d \in dirs \ DOMAIN m : MergeTrees(b, l, r)[d] = ImpliedDir(d)
  BY EnsureDirsAdds DEF MergeTrees, m
<1>4. /\ DOMAIN MergeTrees(b, r, l) = DOMAIN m \cup dirs
      /\ \A p \in DOMAIN m : MergeTrees(b, r, l)[p] = n[p]
      /\ \A d \in dirs \ DOMAIN m : MergeTrees(b, r, l)[d] = ImpliedDir(d)
  BY <1>1, EnsureDirsAdds DEF MergeTrees, n
<1> HIDE DEF dirs
<1> QED
  BY <1>2, <1>3, <1>4, MergeEqualSymmetric DEF Same

\* It does not matter which side merges, unless versions of one timestamp are
\* in conflict.
THEOREM ReplicasAgree == Spec => []SidesAgree
<1>1. TypeOK => SidesAgree
  <2> SUFFICES ASSUME TypeOK,
                      \A p \in ClashesOf(1) : replica[1][p].timestamp # replica[2][p].timestamp
               PROVE  Same(MergeTrees(base, replica[1], replica[2]),
                           MergeTrees(base, replica[2], replica[1]))
    BY DEF SidesAgree
  <2>1. ClashesOf(1) = Clashes(base, replica[1], replica[2])
    BY DEF ClashesOf, Other
  <2>2. WellFormed(base) /\ WellFormed(replica[1]) /\ WellFormed(replica[2])
    BY DEF TypeOK, Sides
  <2> QED
    BY <2>1, <2>2, MergeSymmetric
<1> QED
  BY <1>1, ReplicaTypes, PTL
=============================================================================
