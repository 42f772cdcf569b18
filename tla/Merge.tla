------------------------------- MODULE Merge --------------------------------
(***************************************************************************)
(* Merge, the three-way merge of src/c4m/operations.cpp.  The code folds     *)
(* over all paths in order and writes into a map from paths to entries; here *)
(* the map is given by what each path ends up with.  A tree is a function    *)
(* from full paths to entries.                                               *)
(***************************************************************************)
EXTENDS Patch

\* conflictName on a name: the rank of the name with ".conflict" added, before
\* the '/' of a directory.
CONSTANT ConflictName

ASSUME ConflictNameAssumption ==
  /\ ConflictName \in [Names -> Names]
  /\ \A x, y \in Names : ConflictName[x] = ConflictName[y] => x = y
  /\ \A x \in Names : ConflictName[x] \in DirNames <=> x \in DirNames

ConflictPath(p) == Append(Front(p), ConflictName[Last(p)])

IsSymlink(e) == e.mode = "symlink"

\* Of directories the flow link counts, of symlinks the target, of files the
\* ID: a change of mode, size or timestamp alone is none.
MergeEqual(a, b) ==
  /\ IsDir(a) = IsDir(b)
  /\ IF IsDir(a) THEN a.link = b.link
     ELSE IF IsSymlink(a) \/ IsSymlink(b)
          THEN IsSymlink(a) = IsSymlink(b) /\ a.link = b.link
          ELSE a.id = b.id

\* At p, side t has something the base has not.
IsFresh(b, t, p) == p \in DOMAIN t /\ (p \in DOMAIN b => ~MergeEqual(b[p], t[p]))

\* At p, both sides have something fresh, and not the same.
IsClash(b, l, r, p) ==
  IsFresh(b, l, p) /\ IsFresh(b, r, p) /\ ~MergeEqual(l[p], r[p])

Fresh(b, t) == {p \in DOMAIN t : IsFresh(b, t, p)}
Clashes(b, l, r) == {p \in DOMAIN l : IsClash(b, l, r, p)}

\* One side has something fresh where the other deleted.
DeletedUnder(b, t, other) == (Fresh(b, t) \cap DOMAIN b) \ DOMAIN other

Conflicts(b, l, r) ==
  Clashes(b, l, r) \cup DeletedUnder(b, l, r) \cup DeletedUnder(b, r, l)

RemoteNewer(l, r, p) == r[p].timestamp > l[p].timestamp

WinnerIsLocal(l, r, p) == l[p]

\* The newer version wins, at equal timestamps the local one.
Winner(l, r, p) == IF RemoteNewer(l, r, p) THEN r[p] ELSE l[p]
Loser(l, r, p) == IF RemoteNewer(l, r, p) THEN l[p] ELSE r[p]

IsOwnDeletesWin(b, l, r, p) ==
  \/ IsFresh(b, l, p) /\ (p \in DOMAIN b => p \in DOMAIN r)
  \/ IsFresh(b, r, p) /\ (p \in DOMAIN b => p \in DOMAIN l)
  \/ p \in DOMAIN b \cap DOMAIN l \cap DOMAIN r

IsOwnTwoWay(b, l, r, p) == p \in DOMAIN l \cup DOMAIN r

\* The loop keeps a version of p itself.
IsOwn(b, l, r, p) ==
  \/ IsFresh(b, l, p)
  \/ IsFresh(b, r, p)
  \/ p \in DOMAIN b \cap DOMAIN l \cap DOMAIN r

VersionIgnoringRemote(b, l, r, p) ==
  IF IsClash(b, l, r, p) THEN Winner(l, r, p)
  ELSE IF IsFresh(b, l, p) THEN l[p]
  ELSE IF p \in DOMAIN b THEN b[p]
  ELSE r[p]

\* The version of p it keeps.
Version(b, l, r, p) ==
  IF IsClash(b, l, r, p) THEN Winner(l, r, p)
  ELSE IF IsFresh(b, l, p) THEN l[p]
  ELSE IF IsFresh(b, r, p) THEN r[p]
  ELSE b[p]

\* The loser of a conflict at p is written at the turn of p.  A version that
\* the conflict path has of its own is written before that for a directory and
\* after it, over the loser, for a file: "d.conflict/" comes before "d/" in the
\* order of bytes, and "f.conflict" after "f".
LoserStays(b, l, r, p) == Last(p) \in DirNames \/ ~IsOwn(b, l, r, ConflictPath(p))

IsLoserPath(b, l, r, q) ==
  \E p \in Clashes(b, l, r) : ConflictPath(p) = q /\ LoserStays(b, l, r, p)

AtPathAsItIs(p, e) == e

\* An entry takes the name and the depth of its path.
AtPath(p, e) == [e EXCEPT !.name = Last(p), !.depth = Len(p) - 1]

\* The map after the loop.
Merged(b, l, r) ==
  [q \in {p \in DOMAIN l \cup DOMAIN r : IsOwn(b, l, r, p)}
           \cup {ConflictPath(p) : p \in Clashes(b, l, r)} |->
     AtPath(q, IF IsLoserPath(b, l, r, q)
               THEN Loser(l, r, CHOOSE p \in Clashes(b, l, r) : ConflictPath(p) = q)
               ELSE Version(b, l, r, q))]

ImpliedDir(p) ==
  [name |-> Last(p), depth |-> Len(p) - 1, mode |-> "dir", timestamp |-> NullTimestamp,
   size |-> NullSize, id |-> NilId, link |-> NoLink]

\* t with the entries of u at the paths t lacks.
Over(t, u) ==
  [p \in DOMAIN t \cup DOMAIN u |-> IF p \in DOMAIN t THEN t[p] ELSE u[p]]

EnsureDirsAtRoot(t) ==
  Over(t, [d \in {SubSeq(p, 1, 1) : p \in {q \in DOMAIN t : Len(q) > 1}} |-> ImpliedDir(d)])

\* ensureDirs: the directories above a path that the map lacks.
EnsureDirs(t) ==
  Over(t, [d \in UNION {StrictlyAbove(p) : p \in DOMAIN t} |-> ImpliedDir(d)])

MergeTrees(b, l, r) == EnsureDirs(Merged(b, l, r))

\* EntryPaths as a map: the last entry of a path counts.
PathMap(es) ==
  LET path == EntryPaths(es)
  IN [p \in Range(path) |-> es[Max({i \in DOMAIN es : path[i] = p})]]

\* The merged map, rebuilt as a list in the order of its paths, and the paths
\* of the conflicts.
Merge(base, local, remote) ==
  LET b == PathMap(base)
      l == PathMap(local)
      r == PathMap(remote)
  IN [merged |-> Listing(MergeTrees(b, l, r)), conflicts |-> Conflicts(b, l, r)]
=============================================================================
